--------------------------- MODULE PairingSettings ---------------------------
(***************************************************************************)
(* The settings of the paired devices in one browser tab.  Two stores keep *)
(* them: OptionsProvider those of the selected device, edited in the       *)
(* Options dialog, and DevicePairingSettingsProvider a row per device,     *)
(* edited in the panels.  Both load and save the settings as a whole, while*)
(* the operator goes on editing and selecting.  `running' is local: it is  *)
(* stripped from everything that is loaded or saved.                       *)
(*                                                                         *)
(* An edit of a panel is an element of `ctl', one of the options, which    *)
(* the devices share on the server, the value of `opt'.                    *)
(***************************************************************************)
EXTENDS PageDevices, Naturals, FiniteSets

CONSTANTS Slots,     \* bound: saves under way
          Runs,      \* devices that run a session
          MaxOps,    \* bound: selections, refreshes of the device list, starts
          Faults     \* bound: loads and saves that fail

ASSUME PairingSettingsAssumption ==
  /\ Devices # {} /\ Runs \subseteq Devices
  /\ {MaxOps, Faults} \subseteq Nat

VARIABLES server,   \* stored: opt of the Sub, ctl of each device
          sel,      \* persistDeviceIdRef of the Options store
          screen,   \* settings of the Options store
          opts,     \* loaded, edited, loading and the load under way
          rows,     \* the rows of the other store, with their loads
          timer,    \* debounced saves of the rows
          cache,    \* deviceSettingsCache
          local,    \* deviceAutomaticRunningLocal
          net,      \* saves under way
          ops, faults,
          touched,  \* history: devices with an edit
          upset,    \* history: devices whose loads and saves got into each other's way
          failed,   \* history: a load or save failed
          left      \* history: a device was left before its settings were loaded

vars == <<server, sel, screen, opts, rows, timer, cache, local, net, ops, faults,
          touched, upset, failed, left>>

(* DEFAULT_PAIRING_SETTINGS has no edit at all, not even the one the server *)
(* has stored for the device.                                               *)
Default == [opt |-> 0, ctl |-> {}, running |-> FALSE]

Stored(d) == [opt |-> server.opt, ctl |-> server.ctl[d], running |-> FALSE]

(* Seeded fault: the flag is saved with the rest. *)
PlainKept(s) == s

Plain(s) == [s EXCEPT !.running = FALSE]

NoLoad == [phase |-> "none", body |-> Default, restored |-> FALSE]

(* `restored' is read when the load begins. *)
Loading(restored) == [NoLoad EXCEPT !.phase = "sent", !.restored = restored]

NoTimer == [set |-> FALSE, body |-> Default, fresh |-> FALSE]

(* fresh: the generation is still the one that was captured.                *)
FreeSlot == [phase |-> "free", store |-> "rows", dev |-> NoDevice, body |-> Default, fresh |-> FALSE]

Row == [on |-> TRUE, set |-> Default, loaded |-> FALSE, loading |-> TRUE, load |-> NoLoad]

NoRow == [Row EXCEPT !.on = FALSE, !.loading = FALSE]

Act == ops < MaxOps /\ ops' = ops + 1

Fault == faults < Faults /\ faults' = faults + 1

-----------------------------------------------------------------------------
Saving(d) == \E s \in Slots : net[s].phase # "free" /\ net[s].dev = d

(* savePairingSettings *)
Send(s, from, store, d, body, fresh) ==
  /\ from[s].phase = "free"
  /\ net' = [from EXCEPT ![s] = [phase |-> "sent", store |-> store, dev |-> d,
                                 body |-> Plain(body), fresh |-> fresh]]

(* A load has been asked for: answers to older saves are not wanted.        *)
Outdated(store) ==
  [s \in Slots |-> IF net[s].store = store THEN [net[s] EXCEPT !.fresh = FALSE] ELSE net[s]]

OutdatedRow(d) ==
  [s \in Slots |-> IF net[s].store = "rows" /\ net[s].dev = d THEN [net[s] EXCEPT !.fresh = FALSE]
                   ELSE net[s]]

(* The rows' load effect: every row is loaded again, older loads and the    *)
(* timers are dropped; what the rows show stays.                            *)
RowsReload(running) ==
  /\ rows' = [d \in Devices |->
       [(IF rows[d].on THEN rows[d] ELSE Row) EXCEPT !.load = Loading(running[d])]]
  /\ timer' = [d \in Devices |-> NoTimer]
  /\ upset' = (upset \cup {d \in Devices : timer[d].set \/ Saving(d)})

(* Seeded fault: whatever is shown is saved on the way out. *)
FlushesAlways(prev) == prev # NoDevice /\ opts.loaded

(* flushPendingSaveForDevice: nothing is saved that was not edited.         *)
Flushes(prev) == prev # NoDevice /\ opts.loaded /\ opts.edited

(* Seeded fault: what was loaded for another device counts. *)
LoadedBefore(d, cached) == opts.loaded \/ cached[d].on

(* setSettingsLoaded: at once for a device whose settings are cached.       *)
LoadedFromCache(d, cached) == cached[d].on

(* The Options store's load effect, for the device d.                       *)
OptionsReload(d, cached) ==
  /\ sel' = d
  /\ screen' = IF cached[d].on THEN cached[d].set ELSE screen
  /\ opts' = [loaded |-> LoadedFromCache(d, cached), edited |-> FALSE, loading |-> TRUE,
              load |-> Loading(local'[d])]
  /\ IF Flushes(sel) THEN \E s \in Slots : Send(s, Outdated("options"), "options", sel, screen, FALSE)
                     ELSE net' = Outdated("options")

(* The operator selects a device: what is shown for the last one is cached  *)
(* and its running flag remembered, as they are.                            *)
Select(d) ==
  /\ sel \notin {NoDevice, d} /\ Act
  /\ cache' = [cache EXCEPT ![sel] = [on |-> TRUE, set |-> screen]]
  /\ local' = [local EXCEPT ![sel] = screen.running]
  /\ OptionsReload(d, cache')
  /\ left' = (left \/ ~opts.loaded)
  /\ UNCHANGED <<server, rows, timer, faults, touched, upset, failed>>

(* SubDeviceProvider.refresh: the device list is new, both effects run.     *)
Refresh ==
  /\ Act
  /\ UNCHANGED local
  /\ \E d \in IF sel = NoDevice THEN Devices ELSE {sel} : OptionsReload(d, cache)
  /\ RowsReload(local)
  /\ UNCHANGED <<server, cache, faults, touched, failed, left>>

(* refresh failed: there are no devices. *)
RefreshFails ==
  /\ sel # NoDevice /\ Act /\ Fault
  /\ sel' = NoDevice
  /\ opts' = [loaded |-> FALSE, edited |-> FALSE, loading |-> FALSE, load |-> NoLoad]
  /\ rows' = [d \in Devices |-> NoRow]
  /\ timer' = [d \in Devices |-> NoTimer]
  /\ upset' = (upset \cup {d \in Devices : timer[d].set}) /\ failed' = TRUE
  /\ net' = [s \in Slots |-> [net[s] EXCEPT !.fresh = FALSE]]
  /\ UNCHANGED <<server, screen, cache, local, touched, left>>

OptionsFetched ==
  /\ opts.load.phase = "sent"
  /\ opts' = [opts EXCEPT !.load.phase = "got", !.load.body = Stored(sel)]
  /\ UNCHANGED <<server, sel, screen, rows, timer, cache, local, net, ops, faults, touched,
                 upset, failed, left>>

(* The stroke limits come with it, a new object each time: the rows' effect *)
(* depends on them and runs again.                                          *)
OptionsLoaded ==
  /\ opts.load.phase = "got"
  /\ screen' = [opts.load.body EXCEPT !.running = opts.load.restored]
  /\ opts' = [opts EXCEPT !.loaded = TRUE, !.loading = FALSE, !.load = NoLoad]
  /\ RowsReload(local)
  /\ UNCHANGED <<server, sel, cache, local, net, ops, faults, touched, failed, left>>

OptionsLoadFails ==
  /\ opts.load.phase = "sent" /\ Fault
  /\ screen' = Default
  /\ opts' = [opts EXCEPT !.loaded = FALSE, !.loading = FALSE, !.load = NoLoad]
  /\ failed' = TRUE
  /\ UNCHANGED <<server, sel, rows, timer, cache, local, net, ops, touched, upset, left>>

RowFetched(d) ==
  /\ rows[d].load.phase = "sent"
  /\ rows' = [rows EXCEPT ![d].load.phase = "got", ![d].load.body = Stored(d)]
  /\ UNCHANGED <<server, sel, screen, opts, timer, cache, local, net, ops, faults, touched,
                 upset, failed, left>>

(* The row's generation goes up: saves from before it find no row to answer. *)
RowLoaded(d) ==
  LET set == [rows[d].load.body EXCEPT !.running = rows[d].load.restored] IN
  /\ rows[d].load.phase = "got"
  /\ rows' = [rows EXCEPT ![d] = [Row EXCEPT !.set = set, !.loaded = TRUE, !.loading = FALSE]]
  /\ cache' = [cache EXCEPT ![d] = [on |-> TRUE, set |-> set]]
  /\ timer' = [timer EXCEPT ![d].fresh = FALSE]
  /\ net' = OutdatedRow(d)
  /\ UNCHANGED <<server, sel, screen, opts, local, ops, faults, touched, upset, failed, left>>

(* One fetch that fails leaves every row as not loaded; the fetches of the  *)
(* others go on.                                                            *)
RowLoadFails(d) ==
  /\ rows[d].load.phase = "sent" /\ Fault
  /\ rows' = [e \in Devices |->
       [rows[e] EXCEPT !.loaded = FALSE, !.loading = FALSE,
                       !.load = IF e = d THEN NoLoad ELSE rows[e].load]]
  /\ failed' = TRUE
  /\ UNCHANGED <<server, sel, screen, opts, timer, cache, local, net, ops, touched, upset, left>>

-----------------------------------------------------------------------------
(* setOptions of the dialog: saved at once, if the settings were loaded.    *)
EditOptions ==
  /\ sel # NoDevice /\ Act
  /\ screen' = [screen EXCEPT !.opt = ops']
  /\ opts' = [opts EXCEPT !.edited = TRUE]
  /\ touched' = touched \cup {sel}
  /\ IF opts.loaded THEN \E s \in Slots : Send(s, net, "options", sel, screen', TRUE)
                    ELSE UNCHANGED net
  /\ UNCHANGED <<server, sel, rows, timer, cache, local, faults, upset, failed, left>>

Busy(d) == rows[d].load.phase # "none" \/ Saving(d)

(* Seeded fault: a save that is already due is left as it is. *)
QueuePersistKept(d, body) ==
  timer' = IF timer[d].set THEN timer
           ELSE [timer EXCEPT ![d] = [set |-> TRUE, body |-> body, fresh |-> TRUE]]

(* Seeded fault: one timer for all rows. *)
QueuePersistShared(d, body) ==
  timer' = [e \in Devices |-> IF e = d THEN [set |-> TRUE, body |-> body, fresh |-> TRUE] ELSE NoTimer]

QueuePersist(d, body) ==
  timer' = [timer EXCEPT ![d] = [set |-> TRUE, body |-> body, fresh |-> TRUE]]

(* applyPatch by a control of the panel, which is not drawn while loading.  *)
EditRow(d) ==
  LET set == [rows[d].set EXCEPT !.ctl = @ \cup {<<d, ops + 1>>}] IN
  /\ rows[d].on /\ ~rows[d].loading /\ Act
  /\ rows' = [rows EXCEPT ![d].set = set]
  /\ IF rows[d].loaded THEN QueuePersist(d, set) ELSE UNCHANGED timer
  /\ cache' = [cache EXCEPT ![d] = [on |-> TRUE, set |-> set]]
  /\ touched' = touched \cup {d}
  /\ upset' = IF Busy(d) THEN upset \cup {d} ELSE upset
  /\ UNCHANGED <<server, sel, screen, opts, local, net, faults, failed, left>>

SaveRow(d) ==
  /\ timer[d].set
  /\ \E s \in Slots : Send(s, net, "rows", d, timer[d].body, timer[d].fresh)
  /\ timer' = [timer EXCEPT ![d] = NoTimer]
  /\ UNCHANGED <<server, sel, screen, opts, rows, cache, local, ops, faults, touched, upset,
                 failed, left>>

(* SavePairingSettings: the settings as a whole, the options of the Sub.    *)
SaveArrives(s) ==
  /\ net[s].phase = "sent"
  /\ server' = [opt |-> net[s].body.opt, ctl |-> [server.ctl EXCEPT ![net[s].dev] = net[s].body.ctl]]
  /\ net' = [net EXCEPT ![s].phase = "stored"]
  /\ upset' = IF net[s].store = "options" /\ net[s].body.ctl # server.ctl[net[s].dev]
              THEN upset \cup {net[s].dev} ELSE upset
  /\ UNCHANGED <<sel, screen, opts, rows, timer, cache, local, ops, faults, touched, failed, left>>

(* The request or its answer is lost; what is shown stays. *)
SaveFails(s) ==
  /\ net[s].phase \in {"sent", "stored"} /\ Fault
  /\ net' = [net EXCEPT ![s] = FreeSlot]
  /\ failed' = TRUE
  /\ UNCHANGED <<server, sel, screen, opts, rows, timer, cache, local, ops, touched, upset, left>>

(* The answer is shown in place of the settings, edited since or not.       *)
SaveReturns(s) ==
  LET r == net[s] IN
  /\ r.phase = "stored"
  /\ net' = [net EXCEPT ![s] = FreeSlot]
  /\ screen' = IF r.store = "options" /\ r.fresh THEN r.body ELSE screen
  /\ rows' = IF r.store = "rows" /\ r.fresh THEN [rows EXCEPT ![r.dev].set = r.body] ELSE rows
  /\ UNCHANGED <<server, sel, opts, timer, cache, local, ops, faults, touched, upset, failed, left>>

(* setDeviceAutomaticRunning: both stores and the cache are told.           *)
SetRunning(d, running) ==
  /\ IF running THEN d \in Runs /\ ~local[d] /\ rows[d].loaded /\ ~rows[d].loading /\ Act
     ELSE local[d] /\ UNCHANGED ops
  /\ local' = [local EXCEPT ![d] = running]
  /\ rows' = IF rows[d].on THEN [rows EXCEPT ![d].set.running = running] ELSE rows
  /\ cache' = IF rows[d].on THEN [cache EXCEPT ![d] = [on |-> TRUE, set |-> rows'[d].set]] ELSE cache
  /\ screen' = IF sel = d THEN [screen EXCEPT !.running = running] ELSE screen
  /\ upset' = IF Busy(d) THEN upset \cup {d} ELSE upset
  /\ UNCHANGED <<server, sel, opts, timer, net, faults, touched, failed, left>>

-----------------------------------------------------------------------------
(* Signed in, the first device selected, every load on its way. *)
Init ==
  /\ server = [opt |-> 0, ctl |-> [d \in Devices |-> {<<d, 0>>}]]
  /\ sel = CHOOSE d \in Devices : TRUE
  /\ screen = Default
  /\ opts = [loaded |-> FALSE, edited |-> FALSE, loading |-> TRUE, load |-> Loading(FALSE)]
  /\ rows = [d \in Devices |-> [Row EXCEPT !.load = Loading(FALSE)]]
  /\ timer = [d \in Devices |-> NoTimer]
  /\ cache = [d \in Devices |-> [on |-> FALSE, set |-> Default]]
  /\ local = [d \in Devices |-> FALSE]
  /\ net = [s \in Slots |-> FreeSlot]
  /\ ops = 0 /\ faults = 0
  /\ touched = {} /\ upset = {} /\ failed = FALSE /\ left = FALSE

Operator == Refresh \/ RefreshFails \/ EditOptions
            \/ \E d \in Devices : Select(d) \/ EditRow(d) \/ \E b \in BOOLEAN : SetRunning(d, b)

Answers == OptionsFetched \/ OptionsLoaded \/ OptionsLoadFails
           \/ \E d \in Devices : RowFetched(d) \/ RowLoaded(d) \/ RowLoadFails(d)

Saves == \/ \E d \in Devices : SaveRow(d)
         \/ \E s \in Slots : SaveArrives(s) \/ SaveFails(s) \/ SaveReturns(s)

Next == Operator \/ Answers \/ Saves

(* Requests are answered, timers fire; nothing is assumed of the operator.  *)
Fairness ==
  /\ WF_vars(OptionsFetched) /\ WF_vars(OptionsLoaded)
  /\ \A d \in Devices : WF_vars(RowFetched(d)) /\ WF_vars(RowLoaded(d)) /\ WF_vars(SaveRow(d))
  /\ \A s \in Slots : WF_vars(SaveArrives(s)) /\ WF_vars(SaveReturns(s))

Spec == Init /\ [][Next]_vars /\ Fairness

-----------------------------------------------------------------------------
Edits == Devices \X (0..MaxOps)
Settings == [opt : 0..MaxOps, ctl : SUBSET Edits, running : BOOLEAN]
Loads == [phase : {"none", "sent", "got"}, body : Settings, restored : BOOLEAN]

(* The stores, their loads and saves stay in their types; what is loaded or *)
(* saved never says that a session runs.                                    *)
TypeOK ==
  /\ server.opt \in 0..MaxOps /\ \A d \in Devices : server.ctl[d] \in SUBSET Edits
  /\ sel \in Devices \cup {NoDevice} /\ screen \in Settings
  /\ opts \in [loaded : BOOLEAN, edited : BOOLEAN, loading : BOOLEAN, load : Loads]
  /\ \A d \in Devices :
       /\ rows[d] \in [on : BOOLEAN, set : Settings, loaded : BOOLEAN, loading : BOOLEAN, load : Loads]
       /\ timer[d] \in [set : BOOLEAN, body : Settings, fresh : BOOLEAN]
       /\ cache[d] \in [on : BOOLEAN, set : Settings]
       /\ ~rows[d].load.body.running
  /\ local \in [Devices -> BOOLEAN]
  /\ \A s \in Slots : net[s].phase \in {"free", "sent", "stored"} /\ ~net[s].body.running
  /\ touched \subseteq Devices /\ upset \subseteq Devices /\ {failed, left} \subseteq BOOLEAN

(* `Persists only after explicit user edit': no save is under way for a     *)
(* device none of whose settings the operator has edited.                   *)
SavedOnlyAfterEdit == \A s \in Slots : net[s].phase # "free" => net[s].dev \in touched

(* What is stored for a device are its own settings, never another device's *)
(* or the defaults.                                                         *)
OwnSettings ==
  \A d \in Devices : <<d, 0>> \in server.ctl[d] /\ server.ctl[d] \subseteq {d} \X (0..MaxOps)

OwnOnceLoaded == ~failed /\ ~left => OwnSettings

(* An edit that is waiting to be saved gets to the server, unless the rows  *)
(* are loaded anew before, or another load or save gets in its way.         *)
EditsLand ==
  \A d \in Devices : \A n \in 1..MaxOps :
    (timer[d].set /\ <<d, n>> \in rows[d].set.ctl)
      ~> (<<d, n>> \in server.ctl[d] \/ d \in upset \/ failed)

(* At rest a panel shows what is stored, unless the Options store saved     *)
(* older settings of the device over it, the row was loaded or edited over  *)
(* a save or a load under way, or a request failed.                         *)
ShownIsStored ==
  \A d \in Devices :
    rows[d].loaded /\ ~timer[d].set /\ ~Busy(d) /\ d \notin upset /\ ~failed
      => rows[d].set.ctl = server.ctl[d]

(* What is saved was edited, and what is saved at rest is what is shown.    *)
SavesTrue == SavedOnlyAfterEdit /\ ShownIsStored

(* `The running flag is local-only and stripped on every settings PUT/GET': *)
(* a row of a device whose session runs shows it running, unless it was     *)
(* being loaded as the session began.                                       *)
RunningKept ==
  \A d \in Devices : local[d] /\ rows[d].loaded /\ d \notin upset => rows[d].set.running
=============================================================================
