---------------------------- MODULE PageProofs ------------------------------
(***************************************************************************)
(* What is true of two parts of the operator's page in every state,         *)
(* however many devices and operations of the operator there are: of the   *)
(* pairing settings, and of the live video further down.                   *)
(*                                                                         *)
(* The invariant of the settings has a part per question.  Edited: every   *)
(* save goes back to an edit, through the timer or the flag of the Options *)
(* store it comes from.  OwnEverywhere: the settings of a device are its   *)
(* own wherever they may be saved from: on the server, in a load, a row, a *)
(* timer, the cache, the screen and a save under way.  Settled: as long as *)
(* nothing got in the way of a row's loads and saves, its timer and its    *)
(* one save carry what the row shows, and never both at a time.            *)
(***************************************************************************)
EXTENDS PairingSettings, VideoFeeds, TLAPS

RowType == [on : BOOLEAN, set : Settings, loaded : BOOLEAN, loading : BOOLEAN, load : Loads]
TimerType == [set : BOOLEAN, body : Settings, fresh : BOOLEAN]
CacheType == [on : BOOLEAN, set : Settings]
OptsType == [loaded : BOOLEAN, edited : BOOLEAN, loading : BOOLEAN, load : Loads]
SlotType == [phase : {"free", "sent", "stored"}, store : {"rows", "options"},
             dev : Devices \cup {NoDevice}, body : Settings, fresh : BOOLEAN]
ServerType == [opt : 0..MaxOps, ctl : [Devices -> SUBSET Edits]]

Typed ==
  /\ server \in ServerType
  /\ sel \in Devices \cup {NoDevice}
  /\ screen \in Settings
  /\ opts \in OptsType
  /\ rows \in [Devices -> RowType]
  /\ timer \in [Devices -> TimerType]
  /\ cache \in [Devices -> CacheType]
  /\ local \in [Devices -> BOOLEAN]
  /\ net \in [Slots -> SlotType]
  /\ ops \in 0..MaxOps
  /\ touched \subseteq Devices /\ upset \subseteq Devices
  /\ failed \in BOOLEAN /\ left \in BOOLEAN

(* What is loaded or saved says of no session that it runs. *)
Stripped ==
  /\ \A d \in Devices : ~rows[d].load.body.running
  /\ \A s \in Slots : ~net[s].body.running

(* Where a save comes from, the operator has edited something. *)
Edited ==
  /\ \A s \in Slots : net[s].phase # "free" => net[s].dev \in touched
  /\ \A d \in Devices : timer[d].set => d \in touched
  /\ opts.edited => sel \in touched
  /\ opts.loaded \/ opts.load.phase # "none" => sel \in Devices
  /\ \A s \in Slots : net[s].phase # "free" /\ net[s].store = "options" /\ net[s].fresh
                      => net[s].dev = sel

(* The settings are those of device d. *)
Own(d, set) == <<d, 0>> \in set.ctl /\ set.ctl \subseteq {d} \X (0..MaxOps)

OwnRow(d) ==
  /\ rows[d].on /\ (rows[d].loading \/ rows[d].loaded)
  /\ <<d, 0>> \in server.ctl[d] /\ server.ctl[d] \subseteq {d} \X (0..MaxOps)
  /\ rows[d].loaded => Own(d, rows[d].set)
  /\ rows[d].load.phase = "got" => Own(d, rows[d].load.body)
  /\ timer[d].set => Own(d, timer[d].body)
  /\ cache[d].on => Own(d, cache[d].set) /\ (cache[d].set.running => rows[d].loaded)
  /\ local[d] => rows[d].loaded

OwnScreen ==
  /\ opts.loaded => Own(sel, screen) /\ (screen.running => rows[sel].loaded)
  /\ opts.load.phase = "got" => Own(sel, opts.load.body)
  /\ opts.load.phase # "none" /\ opts.load.restored => rows[sel].loaded

OwnSlot(s) == net[s].phase # "free" => Own(net[s].dev, net[s].body)

OwnEverywhere ==
  ~failed /\ ~left => OwnScreen /\ (\A d \in Devices : OwnRow(d)) /\ \A s \in Slots : OwnSlot(s)

RowSave(s, d) == net[s].phase # "free" /\ net[s].store = "rows" /\ net[s].dev = d

RowSettled(d) ==
  /\ timer[d].set => /\ rows[d].loaded /\ timer[d].body.ctl = rows[d].set.ctl
                     /\ rows[d].load.phase = "none" /\ \A s \in Slots : ~RowSave(s, d)
  /\ \A s \in Slots : RowSave(s, d) =>
       /\ rows[d].load.phase = "none" /\ net[s].body.ctl = rows[d].set.ctl
       /\ net[s].phase = "stored" => server.ctl[d] = rows[d].set.ctl
  /\ rows[d].load.phase = "got" => rows[d].load.body.ctl = server.ctl[d]
  /\ rows[d].loaded /\ ~timer[d].set /\ rows[d].load.phase = "none" /\ (\A s \in Slots : ~RowSave(s, d))
       => rows[d].set.ctl = server.ctl[d]

Settled == ~failed => \A d \in Devices : d \notin upset => RowSettled(d)

Inv == Typed /\ Stripped /\ Edited /\ OwnEverywhere /\ Settled

-----------------------------------------------------------------------------
LEMMA Constants ==
  /\ NoDevice \notin Devices /\ Devices # {} /\ MaxOps \in Nat /\ 0 \in 0..MaxOps
PROOF BY NoDeviceAssumption, PairingSettingsAssumption

(* The settings and loads that appear as such. *)
LEMMA Defaults ==
  /\ Default \in Settings /\ ~Default.running
  /\ NoLoad \in Loads /\ NoLoad.phase = "none" /\ ~NoLoad.body.running /\ ~NoLoad.restored
  /\ NoTimer \in TimerType /\ ~NoTimer.set
  /\ FreeSlot \in SlotType /\ FreeSlot.phase = "free" /\ ~FreeSlot.body.running
PROOF
  <1>1. Default \in Settings /\ ~Default.running
    BY Constants DEF Default, Settings
  <1>2. NoLoad \in Loads /\ NoLoad.phase = "none" /\ ~NoLoad.body.running /\ ~NoLoad.restored
    BY <1>1 DEF NoLoad, Loads
  <1>3. NoTimer \in TimerType /\ ~NoTimer.set
    BY <1>1 DEF NoTimer, TimerType
  <1>4. FreeSlot \in SlotType /\ FreeSlot.phase = "free" /\ ~FreeSlot.body.running
    BY <1>1 DEF FreeSlot, SlotType
  <1>5. QED  BY <1>1, <1>2, <1>3, <1>4

LEMMA LoadingTyped ==
  ASSUME NEW b \in BOOLEAN
  PROVE  /\ Loading(b) \in Loads /\ Loading(b).phase = "sent" /\ Loading(b).restored = b
         /\ ~Loading(b).body.running
PROOF
  <1>1. NoLoad \in Loads /\ ~NoLoad.body.running
    BY Defaults
  <1>2. QED  BY <1>1 DEF Loading, Loads

LEMMA RowsTyped ==
  /\ Row \in RowType /\ Row.on /\ Row.loading /\ ~Row.loaded /\ Row.load = NoLoad /\ Row.set = Default
  /\ NoRow \in RowType /\ ~NoRow.on /\ ~NoRow.loaded /\ NoRow.load = NoLoad
PROOF
  <1>1. /\ Row \in RowType /\ Row.on /\ Row.loading /\ ~Row.loaded /\ Row.load = NoLoad
        /\ Row.set = Default
    BY Defaults DEF Row, RowType
  <1>2. QED  BY <1>1 DEF NoRow, RowType

LEMMA StoredTyped ==
  ASSUME Typed, NEW d \in Devices
  PROVE  /\ Stored(d) \in Settings /\ Stored(d).ctl = server.ctl[d] /\ ~Stored(d).running
PROOF BY DEF Typed, ServerType, Stored, Settings

LEMMA PlainTyped ==
  ASSUME NEW b \in Settings
  PROVE  Plain(b) \in Settings /\ Plain(b).ctl = b.ctl /\ Plain(b).opt = b.opt /\ ~Plain(b).running
PROOF BY DEF Plain, Settings

(* A save is sent from a place that was free. *)
LEMMA SendSlot ==
  ASSUME NEW from \in [Slots -> SlotType], NEW s \in Slots, NEW store \in {"rows", "options"},
         NEW d \in Devices, NEW b \in Settings, NEW fresh \in BOOLEAN,
         Send(s, from, store, d, b, fresh)
  PROVE  /\ net' \in [Slots -> SlotType] /\ from[s].phase = "free"
         /\ \A k \in Slots \ {s} : net'[k] = from[k]
         /\ net'[s].phase = "sent" /\ net'[s].store = store /\ net'[s].dev = d
         /\ net'[s].fresh = fresh /\ net'[s].body = Plain(b)
PROOF
  <1> DEFINE n == [phase |-> "sent", store |-> store, dev |-> d, body |-> Plain(b), fresh |-> fresh]
  <1>1. /\ n \in SlotType /\ n.phase = "sent" /\ n.store = store /\ n.dev = d /\ n.fresh = fresh
        /\ n.body = Plain(b)
    BY PlainTyped DEF SlotType
  <1>2. net' = [from EXCEPT ![s] = n] /\ from[s].phase = "free"
    BY DEF Send
  <1> HIDE DEF n
  <1>3. QED  BY <1>1, <1>2

(* Nothing but the freshness of a save changes. *)
Aged(a, b) ==
  /\ a.phase = b.phase /\ a.store = b.store /\ a.dev = b.dev /\ a.body = b.body
  /\ a.fresh => b.fresh

LEMMA OutdatedSlots ==
  ASSUME Typed, NEW store, NEW d
  PROVE  /\ Outdated(store) \in [Slots -> SlotType]
         /\ \A k \in Slots : /\ Aged(Outdated(store)[k], net[k])
                             /\ net[k].store = store => ~Outdated(store)[k].fresh
         /\ OutdatedRow(d) \in [Slots -> SlotType]
         /\ \A k \in Slots : Aged(OutdatedRow(d)[k], net[k])
PROOF
  <1>1. ASSUME NEW k \in Slots
        PROVE  /\ Outdated(store)[k] \in SlotType /\ Aged(Outdated(store)[k], net[k])
               /\ net[k].store = store => ~Outdated(store)[k].fresh
               /\ OutdatedRow(d)[k] \in SlotType /\ Aged(OutdatedRow(d)[k], net[k])
    <2>1. net[k] \in SlotType
      BY DEF Typed
    <2> DEFINE n == [net[k] EXCEPT !.fresh = FALSE]
    <2>2. n \in SlotType /\ Aged(n, net[k]) /\ ~n.fresh
      BY <2>1 DEF SlotType, Aged
    <2>3. Outdated(store)[k] = IF net[k].store = store THEN n ELSE net[k]
      BY DEF Outdated
    <2>4. OutdatedRow(d)[k] = IF net[k].store = "rows" /\ net[k].dev = d THEN n ELSE net[k]
      BY DEF OutdatedRow
    <2>5. Aged(net[k], net[k])
      BY DEF Aged
    <2> HIDE DEF n
    <2>6. QED  BY <2>1, <2>2, <2>3, <2>4, <2>5
  <1>2. /\ Outdated(store) = [k \in Slots |-> Outdated(store)[k]]
        /\ OutdatedRow(d) = [k \in Slots |-> OutdatedRow(d)[k]]
    BY DEF Outdated, OutdatedRow
  <1>3. QED  BY <1>1, <1>2

(* The rows are loaded anew: what they show stays. *)
LEMMA RowsReloaded ==
  ASSUME Typed, NEW run \in [Devices -> BOOLEAN], RowsReload(run)
  PROVE  /\ rows' \in [Devices -> RowType] /\ timer' \in [Devices -> TimerType]
         /\ upset' = (upset \cup {d \in Devices : timer[d].set \/ Saving(d)})
         /\ \A d \in Devices :
              /\ ~timer'[d].set /\ rows'[d].load = Loading(run[d]) /\ rows'[d].on
              /\ rows[d].on => /\ rows'[d].set = rows[d].set /\ rows'[d].loaded = rows[d].loaded
                               /\ rows'[d].loading = rows[d].loading
PROOF
  <1> DEFINE r(d) == [(IF rows[d].on THEN rows[d] ELSE Row) EXCEPT !.load = Loading(run[d])]
  <1>1. ASSUME NEW d \in Devices
        PROVE  /\ r(d) \in RowType /\ r(d).load = Loading(run[d]) /\ r(d).on
               /\ rows[d].on => /\ r(d).set = rows[d].set /\ r(d).loaded = rows[d].loaded
                                /\ r(d).loading = rows[d].loading
    <2> DEFINE q == IF rows[d].on THEN rows[d] ELSE Row
    <2>1. q \in RowType /\ q.on /\ (rows[d].on => q = rows[d])
      BY RowsTyped DEF Typed
    <2>2. Loading(run[d]) \in Loads
      BY LoadingTyped
    <2>3. r(d) = [q EXCEPT !.load = Loading(run[d])]
      OBVIOUS
    <2> HIDE DEF q, r
    <2>4. QED  BY <2>1, <2>2, <2>3 DEF RowType
  <1>2. /\ rows' = [d \in Devices |-> r(d)] /\ timer' = [d \in Devices |-> NoTimer]
        /\ upset' = (upset \cup {d \in Devices : timer[d].set \/ Saving(d)})
    BY DEF RowsReload
  <1> HIDE DEF r
  <1>3. QED  BY <1>1, <1>2, Defaults

(* The Options store turns to a device: what was edited is saved first, and *)
(* no answer to an older save is wanted.                                    *)
SavedOnTurn(k) ==
  \/ Aged(net'[k], net[k]) /\ (net[k].store = "options" => ~net'[k].fresh)
  \/ /\ net[k].phase = "free" /\ sel \in Devices /\ opts.loaded /\ opts.edited
     /\ net'[k].phase = "sent" /\ net'[k].store = "options" /\ net'[k].dev = sel
     /\ ~net'[k].fresh /\ net'[k].body = Plain(screen)

LEMMA OptionsReloaded ==
  ASSUME Typed, NEW d \in Devices, NEW cached \in [Devices -> CacheType],
         local' \in [Devices -> BOOLEAN], opts.edited => sel \in Devices, OptionsReload(d, cached)
  PROVE  /\ sel' = d /\ screen' \in Settings
         /\ screen' = IF cached[d].on THEN cached[d].set ELSE screen
         /\ opts' \in OptsType /\ opts'.loaded = cached[d].on /\ ~opts'.edited
         /\ opts'.load = Loading(local'[d])
         /\ net' \in [Slots -> SlotType]
         /\ \A k \in Slots : SavedOnTurn(k)
PROOF
  <1>1. sel' = d /\ screen' = IF cached[d].on THEN cached[d].set ELSE screen
    BY DEF OptionsReload
  <1>2. screen' \in Settings
    BY <1>1 DEF Typed, CacheType
  <1>3. /\ opts' \in OptsType /\ opts'.loaded = cached[d].on /\ ~opts'.edited
        /\ opts'.load = Loading(local'[d])
    <2> DEFINE l == cached[d].on
    <2>1. l \in BOOLEAN /\ Loading(local'[d]) \in Loads
      BY LoadingTyped DEF CacheType
    <2>2. opts' = [loaded |-> l, edited |-> FALSE, loading |-> TRUE, load |-> Loading(local'[d])]
      BY DEF OptionsReload, LoadedFromCache
    <2> HIDE DEF l
    <2>3. opts' \in OptsType /\ opts'.loaded = l /\ ~opts'.edited /\ opts'.load = Loading(local'[d])
      BY <2>1, <2>2 DEF OptsType
    <2>4. QED  BY <2>3 DEF l
  <1> DEFINE from == Outdated("options")
  <1>4. /\ from \in [Slots -> SlotType]
        /\ \A k \in Slots : Aged(from[k], net[k]) /\ (net[k].store = "options" => ~from[k].fresh)
    BY OutdatedSlots
  <1>5. CASE ~Flushes(sel)
    <2>1. net' = from
      BY <1>5 DEF OptionsReload
    <2> HIDE DEF from
    <2>2. QED  BY <1>1, <1>2, <1>3, <1>4, <2>1 DEF SavedOnTurn
  <1>6. CASE Flushes(sel)
    <2>0. PICK no \in BOOLEAN : no = FALSE
      OBVIOUS
    <2>1. PICK s \in Slots : Send(s, from, "options", sel, screen, no)
      BY <1>6, <2>0 DEF OptionsReload
    <2>2. sel \in Devices /\ opts.loaded /\ opts.edited /\ screen \in Settings
      BY <1>6 DEF Flushes, Typed
    <2> HIDE DEF from
    <2>3. /\ net' \in [Slots -> SlotType] /\ from[s].phase = "free"
          /\ \A k \in Slots \ {s} : net'[k] = from[k]
          /\ net'[s].phase = "sent" /\ net'[s].store = "options" /\ net'[s].dev = sel
          /\ net'[s].fresh = no /\ net'[s].body = Plain(screen)
      BY <1>4, <2>1, <2>2, SendSlot
    <2>4. ASSUME NEW k \in Slots \ {s}
          PROVE  Aged(net'[k], net[k]) /\ (net[k].store = "options" => ~net'[k].fresh)
      BY <1>4, <2>3
    <2>5. net[s].phase = "free"
      BY <1>4, <2>3 DEF Aged
    <2>6. QED  BY <1>1, <1>2, <1>3, <2>0, <2>2, <2>3, <2>4, <2>5 DEF SavedOnTurn
  <1>7. QED  BY <1>5, <1>6

-----------------------------------------------------------------------------
(* Nothing changes for a row that is settled: not what it shows, its timer, *)
(* its load, its saves or what is stored for its device.                    *)
SlotApart(k) ==
  \/ Aged(net'[k], net[k])
  \/ net[k].phase = "free" /\ net'[k].store = "options"

LEMMA SettledKept ==
  ASSUME NEW d \in Devices, RowSettled(d), server'.ctl[d] = server.ctl[d],
         rows'[d].set.ctl = rows[d].set.ctl, rows'[d].loaded = rows[d].loaded,
         rows'[d].load = rows[d].load, timer'[d] = timer[d],
         \A k \in Slots : SlotApart(k)
  PROVE  RowSettled(d)'
PROOF
  <1>1. ASSUME NEW k \in Slots
        PROVE  /\ RowSave(k, d)' <=> RowSave(k, d)
               /\ RowSave(k, d)' => net'[k].body = net[k].body /\ net'[k].phase = net[k].phase
    BY DEF SlotApart, Aged, RowSave
  <1>2. QED  BY <1>1 DEF RowSettled

(* A load of the row begins when neither a save nor a timer is in its way.  *)
LEMMA SettledReloaded ==
  ASSUME NEW d \in Devices, RowSettled(d), server'.ctl[d] = server.ctl[d],
         ~timer[d].set, ~Saving(d), ~timer'[d].set, rows'[d].load.phase = "sent",
         \A k \in Slots : SlotApart(k)
  PROVE  RowSettled(d)'
PROOF
  <1>1. ASSUME NEW k \in Slots PROVE ~RowSave(k, d)'
    BY DEF SlotApart, Aged, RowSave, Saving
  <1>2. QED  BY <1>1 DEF RowSettled

LEMMA InvParts ==
  ASSUME Inv
  PROVE  /\ Typed /\ Stripped /\ Edited /\ OwnEverywhere /\ Settled
         /\ opts \in OptsType /\ opts.load \in Loads /\ screen \in Settings
         /\ opts.edited => sel \in Devices
         /\ \A d \in Devices : /\ rows[d] \in RowType /\ timer[d] \in TimerType
                               /\ cache[d] \in CacheType /\ local[d] \in BOOLEAN
                               /\ server.ctl[d] \in SUBSET Edits
         /\ \A s \in Slots : net[s] \in SlotType
PROOF BY DEF Inv, Typed, Edited, OptsType, ServerType

(* What a turn of the Options store leaves true of the saves. *)
LEMMA TurnedEdited ==
  ASSUME Inv, NEW d \in Devices, sel' = d, ~opts'.edited, \A k \in Slots : SavedOnTurn(k),
         \A e \in Devices : timer'[e].set => timer[e].set, touched' = touched
  PROVE  Edited'
PROOF
  <1>1. ASSUME NEW k \in Slots
        PROVE  /\ net'[k].phase # "free" => net'[k].dev \in touched
               /\ net'[k].store = "options" => ~net'[k].fresh
    BY DEF SavedOnTurn, Aged, Inv, Edited
  <1>2. QED  BY <1>1 DEF Inv, Edited

LEMMA TurnedStripped ==
  ASSUME Inv, \A k \in Slots : SavedOnTurn(k), \A e \in Devices : ~rows'[e].load.body.running
  PROVE  Stripped'
PROOF
  <1>1. ASSUME NEW k \in Slots PROVE ~net'[k].body.running
    <2>1. ~net[k].body.running /\ screen \in Settings
      BY InvParts DEF Stripped
    <2>2. QED  BY <2>1, PlainTyped DEF SavedOnTurn, Aged
  <1>2. QED  BY <1>1 DEF Stripped

LEMMA TurnedOwn ==
  ASSUME Inv, ~failed, ~left, \A k \in Slots : SavedOnTurn(k), NEW k \in Slots
  PROVE  OwnSlot(k)'
PROOF
  <1>1. OwnSlot(k) /\ OwnScreen /\ screen \in Settings
    BY InvParts DEF OwnEverywhere
  <1>2. CASE Aged(net'[k], net[k])
    BY <1>1, <1>2 DEF Aged, OwnSlot, Own
  <1>3. CASE ~Aged(net'[k], net[k])
    <2>1. opts.loaded /\ net'[k].dev = sel /\ net'[k].body = Plain(screen)
      BY <1>3 DEF SavedOnTurn
    <2>2. QED  BY <1>1, <2>1, PlainTyped DEF OwnScreen, OwnSlot, Own
  <1>4. QED  BY <1>2, <1>3

LEMMA TurnedApart ==
  ASSUME \A k \in Slots : SavedOnTurn(k) PROVE \A k \in Slots : SlotApart(k)
PROOF BY DEF SavedOnTurn, SlotApart

-----------------------------------------------------------------------------
(* The operator. *)
LEMMA SelectInv == ASSUME Inv, NEW d \in Devices, Select(d) PROVE Inv'
PROOF
  <1> USE InvParts
  <1>1. /\ sel \in Devices /\ sel # d /\ ops' \in 0..MaxOps /\ left' = (left \/ ~opts.loaded)
        /\ cache' = [cache EXCEPT ![sel] = [on |-> TRUE, set |-> screen]]
        /\ local' = [local EXCEPT ![sel] = screen.running]
        /\ OptionsReload(d, cache')
        /\ UNCHANGED <<server, rows, timer, faults, touched, upset, failed>>
    BY Constants DEF Select, Act, Typed
  <1>2. cache' \in [Devices -> CacheType] /\ local' \in [Devices -> BOOLEAN]
    BY <1>1 DEF Typed, CacheType, Settings
  <1>3. /\ sel' = d /\ screen' \in Settings
        /\ screen' = IF cache'[d].on THEN cache'[d].set ELSE screen
        /\ opts' \in OptsType /\ opts'.loaded = cache'[d].on /\ ~opts'.edited
        /\ opts'.load = Loading(local'[d])
        /\ net' \in [Slots -> SlotType]
        /\ \A k \in Slots : SavedOnTurn(k)
    BY <1>1, <1>2, OptionsReloaded
  <1>4. opts'.load.phase = "sent" /\ opts'.load.restored = local'[d]
    BY <1>2, <1>3, LoadingTyped
  <1>5. Typed'
    BY <1>1, <1>2, <1>3 DEF Typed, OptsType
  <1>6. Stripped'
    BY <1>1, <1>3, TurnedStripped DEF Stripped
  <1>7. Edited'
    BY <1>1, <1>3, TurnedEdited
  <1>8. OwnEverywhere'
    <2> SUFFICES ASSUME ~failed', ~left' PROVE OwnEverywhere'
      BY DEF OwnEverywhere
    <2>1. ~failed /\ ~left /\ opts.loaded
      BY <1>1 DEF Typed
    <2>2. OwnScreen /\ \A e \in Devices : OwnRow(e)
      BY <2>1 DEF OwnEverywhere
    <2>3. Own(sel, screen) /\ (screen.running => rows[sel].loaded)
      BY <2>1, <2>2 DEF OwnScreen
    <2>4. /\ cache'[sel].set = screen /\ local'[sel] = screen.running
          /\ \A e \in Devices \ {sel} : cache'[e] = cache[e] /\ local'[e] = local[e]
      BY <1>1 DEF Typed
    <2>5. ASSUME NEW e \in Devices PROVE OwnRow(e)'
      BY <1>1, <2>2, <2>3, <2>4 DEF OwnRow, Own
    <2>6. OwnScreen'
      <3>1. cache'[d] = cache[d] /\ local'[d] = local[d]
        BY <1>1, <2>4
      <3>2. QED  BY <1>1, <1>3, <1>4, <2>2, <3>1 DEF OwnScreen, OwnRow, Own
    <2>7. \A k \in Slots : OwnSlot(k)'
      BY <1>3, <2>1, TurnedOwn
    <2>8. QED  BY <2>5, <2>6, <2>7 DEF OwnEverywhere
  <1>9. Settled'
    BY <1>1, <1>3, TurnedApart, SettledKept DEF Settled
  <1>10. QED  BY <1>5, <1>6, <1>7, <1>8, <1>9 DEF Inv

LEMMA RefreshInv == ASSUME Inv, Refresh PROVE Inv'
PROOF
  <1> USE InvParts
  <1>1. PICK d \in Devices : (sel # NoDevice => d = sel) /\ OptionsReload(d, cache)
    BY DEF Refresh, Typed
  <1>2. /\ ops' \in 0..MaxOps /\ local' = local /\ RowsReload(local)
        /\ UNCHANGED <<server, cache, faults, touched, failed, left>>
    BY Constants DEF Refresh, Act, Typed
  <1>3. cache \in [Devices -> CacheType] /\ local \in [Devices -> BOOLEAN]
    BY DEF Typed
  <1>4. /\ sel' = d /\ screen' \in Settings
        /\ screen' = IF cache[d].on THEN cache[d].set ELSE screen
        /\ opts' \in OptsType /\ opts'.loaded = cache[d].on /\ ~opts'.edited
        /\ opts'.load = Loading(local[d])
        /\ net' \in [Slots -> SlotType]
        /\ \A k \in Slots : SavedOnTurn(k)
    BY <1>1, <1>2, <1>3, OptionsReloaded
  <1>5. opts'.load.phase = "sent" /\ opts'.load.restored = local[d]
    BY <1>3, <1>4, LoadingTyped
  <1>6. /\ rows' \in [Devices -> RowType] /\ timer' \in [Devices -> TimerType]
        /\ upset' = (upset \cup {e \in Devices : timer[e].set \/ Saving(e)})
        /\ \A e \in Devices :
              /\ ~timer'[e].set /\ rows'[e].load = Loading(local[e]) /\ rows'[e].on
              /\ rows[e].on => /\ rows'[e].set = rows[e].set /\ rows'[e].loaded = rows[e].loaded
                               /\ rows'[e].loading = rows[e].loading
    BY <1>2, <1>3, RowsReloaded
  <1>7. \A e \in Devices : rows'[e].load.phase = "sent" /\ ~rows'[e].load.body.running
    BY <1>3, <1>6, LoadingTyped
  <1>8. Typed'
    BY <1>2, <1>3, <1>4, <1>6 DEF Typed
  <1>9. Stripped'
    BY <1>4, <1>7, TurnedStripped
  <1>10. Edited'
    BY <1>2, <1>4, <1>6, TurnedEdited
  <1>11. OwnEverywhere'
    <2> SUFFICES ASSUME ~failed', ~left' PROVE OwnEverywhere'
      BY DEF OwnEverywhere
    <2>1. ~failed /\ ~left
      BY <1>2
    <2>2. \A e \in Devices : OwnRow(e)
      BY <2>1 DEF OwnEverywhere
    <2>3. ASSUME NEW e \in Devices PROVE OwnRow(e)'
      BY <1>2, <1>6, <1>7, <2>2 DEF OwnRow, Own
    <2>4. OwnScreen'
      BY <1>4, <1>5, <1>6, <2>2 DEF OwnScreen, OwnRow, Own
    <2>5. \A k \in Slots : OwnSlot(k)'
      BY <1>4, <2>1, TurnedOwn
    <2>6. QED  BY <2>3, <2>4, <2>5 DEF OwnEverywhere
  <1>12. Settled'
    BY <1>2, <1>4, <1>6, <1>7, TurnedApart, SettledReloaded DEF Settled
  <1>13. QED  BY <1>8, <1>9, <1>10, <1>11, <1>12 DEF Inv

LEMMA RefreshFailsInv == ASSUME Inv, RefreshFails PROVE Inv'
PROOF
  <1> USE InvParts
  <1> DEFINE n(k) == [net[k] EXCEPT !.fresh = FALSE]
  <1>1. /\ ops' \in 0..MaxOps /\ failed' = TRUE /\ sel' = NoDevice
        /\ opts' = [loaded |-> FALSE, edited |-> FALSE, loading |-> FALSE, load |-> NoLoad]
        /\ rows' = [d \in Devices |-> NoRow] /\ timer' = [d \in Devices |-> NoTimer]
        /\ upset' = (upset \cup {d \in Devices : timer[d].set})
        /\ net' = [s \in Slots |-> n(s)]
        /\ UNCHANGED <<server, screen, cache, local, touched, left>>
    BY Constants DEF RefreshFails, Act, Typed
  <1>2. \A k \in Slots : n(k) \in SlotType /\ Aged(n(k), net[k]) /\ ~n(k).fresh
    BY DEF SlotType, Aged
  <1> HIDE DEF n
  <1>3. /\ opts' \in OptsType /\ ~opts'.edited /\ ~opts'.loaded /\ opts'.load.phase = "none"
        /\ \A d \in Devices : ~rows'[d].load.body.running /\ ~timer'[d].set
    BY <1>1, Defaults, RowsTyped DEF OptsType
  <1>4. Typed'
    BY <1>1, <1>2, <1>3, Defaults, RowsTyped DEF Typed
  <1>5. Stripped'
    BY <1>1, <1>2, <1>3 DEF Stripped, Aged
  <1>6. Edited'
    BY <1>1, <1>2, <1>3 DEF Edited, Aged
  <1>7. OwnEverywhere' /\ Settled'
    BY <1>1 DEF OwnEverywhere, Settled
  <1>8. QED  BY <1>4, <1>5, <1>6, <1>7 DEF Inv

-----------------------------------------------------------------------------
(* Loads. *)

(* Neither the places of the saves nor what goes into them change. *)
LEMMA OptionsFetchedInv == ASSUME Inv, OptionsFetched PROVE Inv'
PROOF
  <1> USE InvParts
  <1> DEFINE b == Stored(sel)
             l == [[opts.load EXCEPT !.phase = "got"] EXCEPT !.body = b]
             o == [opts EXCEPT !.load = l]
  <1>1. /\ opts.load.phase = "sent"
        /\ opts' = [opts EXCEPT !.load.phase = "got", !.load.body = b]
        /\ UNCHANGED <<server, sel, screen, rows, timer, cache, local, net, ops, faults, touched,
                       upset, failed, left>>
    BY DEF OptionsFetched
  <1>2. sel \in Devices
    BY <1>1 DEF Edited
  <1>3. b \in Settings /\ b.ctl = server.ctl[sel]
    BY <1>2, StoredTyped
  <1> HIDE DEF b
  <1>4. l \in Loads /\ l.phase = "got" /\ l.body = b /\ l.restored = opts.load.restored
    BY <1>3 DEF Loads
  <1>5. o \in OptsType /\ o.load = l /\ o.loaded = opts.loaded /\ o.edited = opts.edited
    BY <1>4 DEF OptsType
  <1>6. opts' = o
    BY <1>1 DEF OptsType, Loads
  <1> HIDE DEF l, o
  <1>7. Typed'
    BY <1>1, <1>5, <1>6 DEF Typed
  <1>8. Stripped' /\ Edited'
    BY <1>1, <1>2, <1>5, <1>6 DEF Stripped, Edited
  <1>9. OwnEverywhere'
    <2> SUFFICES ASSUME ~failed', ~left' PROVE OwnEverywhere'
      BY DEF OwnEverywhere
    <2>1. OwnScreen /\ (\A d \in Devices : OwnRow(d)) /\ \A s \in Slots : OwnSlot(s)
      BY <1>1 DEF OwnEverywhere
    <2>2. OwnScreen'
      BY <1>1, <1>2, <1>3, <1>4, <1>5, <1>6, <2>1 DEF OwnScreen, OwnRow, Own
    <2>3. (\A d \in Devices : OwnRow(d)') /\ \A s \in Slots : OwnSlot(s)'
      BY <1>1, <2>1 DEF OwnRow, OwnSlot
    <2>4. QED  BY <2>2, <2>3 DEF OwnEverywhere
  <1>10. Settled'
    BY <1>1 DEF Settled, RowSettled, RowSave
  <1>11. QED  BY <1>7, <1>8, <1>9, <1>10 DEF Inv

LEMMA OptionsLoadedInv == ASSUME Inv, OptionsLoaded PROVE Inv'
PROOF
  <1> USE InvParts
  <1> DEFINE r == opts.load.restored
             b == [opts.load.body EXCEPT !.running = r]
             o == [opts EXCEPT !.loaded = TRUE, !.loading = FALSE, !.load = NoLoad]
  <1>1. /\ opts.load.phase = "got" /\ screen' = b /\ opts' = o /\ RowsReload(local)
        /\ UNCHANGED <<server, sel, cache, local, net, ops, faults, touched, failed, left>>
    BY DEF OptionsLoaded
  <1>2. sel \in Devices /\ local \in [Devices -> BOOLEAN]
    BY <1>1 DEF Edited, Typed
  <1>3. b \in Settings /\ b.ctl = opts.load.body.ctl /\ b.running = r
    BY DEF Loads, Settings
  <1>4. o \in OptsType /\ o.load = NoLoad /\ o.loaded /\ o.edited = opts.edited
    BY Defaults DEF OptsType
  <1> HIDE DEF b, o
  <1>5. /\ rows' \in [Devices -> RowType] /\ timer' \in [Devices -> TimerType]
        /\ upset' = (upset \cup {e \in Devices : timer[e].set \/ Saving(e)})
        /\ \A e \in Devices :
              /\ ~timer'[e].set /\ rows'[e].load = Loading(local[e]) /\ rows'[e].on
              /\ rows[e].on => /\ rows'[e].set = rows[e].set /\ rows'[e].loaded = rows[e].loaded
                               /\ rows'[e].loading = rows[e].loading
    BY <1>1, <1>2, RowsReloaded
  <1>6. \A e \in Devices : rows'[e].load.phase = "sent" /\ ~rows'[e].load.body.running
    BY <1>2, <1>5, LoadingTyped
  <1>7. Typed'
    BY <1>1, <1>3, <1>4, <1>5 DEF Typed
  <1>8. Stripped' /\ Edited'
    BY <1>1, <1>2, <1>4, <1>5, <1>6 DEF Stripped, Edited
  <1>9. OwnEverywhere'
    <2> SUFFICES ASSUME ~failed', ~left' PROVE OwnEverywhere'
      BY DEF OwnEverywhere
    <2>1. OwnScreen /\ (\A d \in Devices : OwnRow(d)) /\ \A s \in Slots : OwnSlot(s)
      BY <1>1 DEF OwnEverywhere
    <2>2. ASSUME NEW e \in Devices PROVE OwnRow(e)'
      BY <1>1, <1>5, <1>6, <2>1 DEF OwnRow, Own
    <2>3. OwnScreen'
      <3>1. rows[sel].on /\ rows'[sel].loaded = rows[sel].loaded
        BY <1>2, <1>5, <2>1 DEF OwnRow
      <3>2. QED  BY <1>1, <1>3, <1>4, <2>1, <3>1, Defaults DEF OwnScreen, Own
    <2>4. \A s \in Slots : OwnSlot(s)'
      BY <1>1, <2>1 DEF OwnSlot
    <2>5. QED  BY <2>2, <2>3, <2>4 DEF OwnEverywhere
  <1>10. Settled'
    <2>1. \A k \in Slots : SlotApart(k)
      BY <1>1 DEF SlotApart, Aged
    <2>2. QED  BY <1>1, <1>5, <1>6, <2>1, SettledReloaded DEF Settled
  <1>11. QED  BY <1>7, <1>8, <1>9, <1>10 DEF Inv

LEMMA OptionsLoadFailsInv == ASSUME Inv, OptionsLoadFails PROVE Inv'
PROOF
  <1> USE InvParts
  <1> DEFINE o == [opts EXCEPT !.loaded = FALSE, !.loading = FALSE, !.load = NoLoad]
  <1>1. /\ screen' = Default /\ opts' = o /\ failed' = TRUE
        /\ UNCHANGED <<server, sel, rows, timer, cache, local, net, ops, touched, upset, left>>
    BY DEF OptionsLoadFails
  <1>2. o \in OptsType /\ o.load = NoLoad /\ ~o.loaded /\ o.edited = opts.edited
    BY Defaults DEF OptsType
  <1> HIDE DEF o
  <1>3. Typed'
    BY <1>1, <1>2, Defaults DEF Typed
  <1>4. Stripped' /\ Edited'
    BY <1>1, <1>2, Defaults DEF Stripped, Edited
  <1>5. OwnEverywhere' /\ Settled'
    BY <1>1 DEF OwnEverywhere, Settled
  <1>6. QED  BY <1>3, <1>4, <1>5 DEF Inv

LEMMA RowFetchedInv == ASSUME Inv, NEW d \in Devices, RowFetched(d) PROVE Inv'
PROOF
  <1> USE InvParts
  <1> DEFINE b == Stored(d)
             l == [[rows[d].load EXCEPT !.phase = "got"] EXCEPT !.body = b]
             r == [rows[d] EXCEPT !.load = l]
  <1>1. /\ rows[d].load.phase = "sent"
        /\ rows' = [rows EXCEPT ![d].load.phase = "got", ![d].load.body = b]
        /\ UNCHANGED <<server, sel, screen, opts, timer, cache, local, net, ops, faults, touched,
                       upset, failed, left>>
    BY DEF RowFetched
  <1>2. b \in Settings /\ b.ctl = server.ctl[d] /\ ~b.running
    BY StoredTyped
  <1> HIDE DEF b
  <1>3. l \in Loads /\ l.phase = "got" /\ l.body = b
    BY <1>2 DEF RowType, Loads
  <1>4. rows' = [rows EXCEPT ![d] = r]
    BY <1>1 DEF Typed, RowType, Loads
  <1> HIDE DEF l
  <1>5. /\ r \in RowType /\ r.load = l /\ r.on = rows[d].on /\ r.set = rows[d].set
        /\ r.loaded = rows[d].loaded /\ r.loading = rows[d].loading
    BY <1>3 DEF RowType
  <1> HIDE DEF r
  <1>6. rows' \in [Devices -> RowType] /\ rows'[d] = r /\ \A e \in Devices \ {d} : rows'[e] = rows[e]
    BY <1>4, <1>5 DEF Typed
  <1>7. Typed'
    BY <1>1, <1>6 DEF Typed
  <1>8. Stripped' /\ Edited'
    BY <1>1, <1>2, <1>3, <1>5, <1>6 DEF Stripped, Edited
  <1>9. OwnEverywhere'
    <2> SUFFICES ASSUME ~failed', ~left' PROVE OwnEverywhere'
      BY DEF OwnEverywhere
    <2>1. OwnScreen /\ (\A e \in Devices : OwnRow(e)) /\ \A s \in Slots : OwnSlot(s)
      BY <1>1 DEF OwnEverywhere
    <2>2. ASSUME NEW e \in Devices PROVE OwnRow(e)'
      <3>1. /\ rows'[e].on = rows[e].on /\ rows'[e].loaded = rows[e].loaded
            /\ rows'[e].loading = rows[e].loading /\ rows'[e].set = rows[e].set
        BY <1>5, <1>6
      <3>2. OwnRow(e)
        BY <2>1
      <3>3. rows'[e].load.phase = "got" => Own(e, rows'[e].load.body)
        <4>1. CASE e = d
          <5>1. OwnRow(d) /\ rows'[d].load.body.ctl = server.ctl[d]
            BY <1>2, <1>3, <1>5, <1>6, <2>1
          <5>2. QED  BY <4>1, <5>1 DEF OwnRow, Own
        <4>2. CASE e # d
          BY <1>6, <3>2, <4>2 DEF OwnRow
        <4>3. QED  BY <4>1, <4>2
      <3>4. server' = server /\ timer' = timer /\ cache' = cache /\ local' = local
        BY <1>1
      <3>5. QED  BY <3>1, <3>2, <3>3, <3>4 DEF OwnRow, Own
    <2>3. OwnScreen' /\ \A s \in Slots : OwnSlot(s)'
      <3>1. \A e \in Devices : rows'[e].loaded = rows[e].loaded
        BY <1>5, <1>6
      <3>2. QED  BY <1>1, <2>1, <3>1 DEF OwnScreen, OwnSlot, Edited, Own
    <2>4. QED  BY <2>2, <2>3 DEF OwnEverywhere
  <1>10. Settled'
    <2> SUFFICES ASSUME ~failed, NEW e \in Devices, e \notin upset PROVE RowSettled(e)'
      BY <1>1 DEF Settled
    <2>1. RowSettled(e)
      BY DEF Settled
    <2>2. \A s \in Slots : RowSave(s, e)' <=> RowSave(s, e)
      BY <1>1 DEF RowSave
    <2>3. QED  BY <1>1, <1>2, <1>3, <1>5, <1>6, <2>1, <2>2 DEF RowSettled
  <1>11. QED  BY <1>7, <1>8, <1>9, <1>10 DEF Inv

LEMMA RowLoadedInv == ASSUME Inv, NEW d \in Devices, RowLoaded(d) PROVE Inv'
PROOF
  <1> USE InvParts
  <1> DEFINE b == rows[d].load.restored
             set == [rows[d].load.body EXCEPT !.running = b]
             r == [[[Row EXCEPT !.set = set] EXCEPT !.loaded = TRUE] EXCEPT !.loading = FALSE]
             t == [timer[d] EXCEPT !.fresh = FALSE]
  <1>1. /\ rows[d].load.phase = "got"
        /\ rows' = [rows EXCEPT ![d] = [Row EXCEPT !.set = set, !.loaded = TRUE, !.loading = FALSE]]
        /\ cache' = [cache EXCEPT ![d] = [on |-> TRUE, set |-> set]]
        /\ timer' = [timer EXCEPT ![d].fresh = FALSE]
        /\ net' = OutdatedRow(d)
        /\ UNCHANGED <<server, sel, screen, opts, local, ops, faults, touched, upset, failed, left>>
    BY DEF RowLoaded
  <1>2. set \in Settings /\ set.ctl = rows[d].load.body.ctl
    BY DEF RowType, Loads, Settings
  <1> HIDE DEF set
  <1>3. rows' = [rows EXCEPT ![d] = r]
    BY <1>1, <1>2, RowsTyped DEF RowType
  <1>4. r \in RowType /\ r.on /\ r.set = set /\ r.loaded /\ ~r.loading /\ r.load = NoLoad
    BY <1>2, RowsTyped DEF RowType
  <1>5. t \in TimerType /\ t.set = timer[d].set /\ t.body = timer[d].body
    BY DEF TimerType
  <1>6. timer' = [timer EXCEPT ![d] = t]
    BY <1>1 DEF Typed
  <1> HIDE DEF r, t
  <1>7. /\ rows' \in [Devices -> RowType] /\ rows'[d] = r
        /\ \A e \in Devices \ {d} : rows'[e] = rows[e] /\ timer'[e] = timer[e] /\ cache'[e] = cache[e]
        /\ timer' \in [Devices -> TimerType] /\ timer'[d] = t
        /\ cache' \in [Devices -> CacheType] /\ cache'[d].set = set
    <2>1. rows' \in [Devices -> RowType] /\ rows'[d] = r /\ \A e \in Devices \ {d} : rows'[e] = rows[e]
      BY <1>3, <1>4 DEF Typed
    <2>2. /\ timer' \in [Devices -> TimerType] /\ timer'[d] = t
          /\ \A e \in Devices \ {d} : timer'[e] = timer[e]
      BY <1>5, <1>6 DEF Typed
    <2> DEFINE c == [on |-> TRUE, set |-> set]
    <2>3. c \in CacheType /\ c.set = set
      BY <1>2 DEF CacheType
    <2>4. cache' = [cache EXCEPT ![d] = c]
      BY <1>1
    <2> HIDE DEF c
    <2>5. /\ cache' \in [Devices -> CacheType] /\ cache'[d].set = set
          /\ \A e \in Devices \ {d} : cache'[e] = cache[e]
      BY <2>3, <2>4 DEF Typed
    <2>6. QED  BY <2>1, <2>2, <2>5
  <1>8. net' \in [Slots -> SlotType] /\ \A k \in Slots : Aged(net'[k], net[k])
    BY <1>1, OutdatedSlots
  <1>9. Typed'
    BY <1>1, <1>7, <1>8 DEF Typed
  <1>10. Stripped' /\ Edited'
    <2>1. \A e \in Devices : (timer'[e].set <=> timer[e].set) /\ ~rows'[e].load.body.running
      BY <1>4, <1>5, <1>7, Defaults DEF Stripped
    <2>2. sel' = sel /\ opts' = opts /\ touched' = touched
      BY <1>1
    <2>3. QED  BY <1>8, <2>1, <2>2 DEF Stripped, Edited, Aged
  <1>11. OwnEverywhere'
    <2> SUFFICES ASSUME ~failed', ~left' PROVE OwnEverywhere'
      BY DEF OwnEverywhere
    <2>1. OwnScreen /\ (\A e \in Devices : OwnRow(e)) /\ \A s \in Slots : OwnSlot(s)
      BY <1>1 DEF OwnEverywhere
    <2>2. OwnRow(d)'
      <3>1. server' = server /\ local' = local /\ rows[d].load.phase = "got" /\ OwnRow(d)
        BY <1>1, <2>1
      <3>2. rows'[d].load.phase = "none"
        BY <1>4, <1>7, Defaults
      <3>3. QED  BY <1>2, <1>4, <1>5, <1>7, <3>1, <3>2 DEF OwnRow, Own
    <2>3. ASSUME NEW e \in Devices \ {d} PROVE OwnRow(e)'
      BY <1>1, <1>7, <2>1 DEF OwnRow, Own
    <2>4. \A e \in Devices : rows[e].loaded => rows'[e].loaded
      BY <1>4, <1>7
    <2>5. OwnScreen'
      BY <1>1, <2>1, <2>4 DEF OwnScreen, Edited, Own
    <2>6. \A s \in Slots : OwnSlot(s)'
      BY <1>8, <2>1 DEF OwnSlot, Aged, Own
    <2>7. QED  BY <2>2, <2>3, <2>5, <2>6 DEF OwnEverywhere
  <1>12. Settled'
    <2> SUFFICES ASSUME ~failed, NEW e \in Devices, e \notin upset PROVE RowSettled(e)'
      BY <1>1 DEF Settled
    <2>1. RowSettled(e)
      BY DEF Settled
    <2>2. CASE e # d
      <3>1. \A k \in Slots : SlotApart(k)
        BY <1>8 DEF SlotApart
      <3>2. QED  BY <1>1, <1>7, <2>1, <2>2, <3>1, SettledKept
    <2>3. CASE e = d
      <3>1. ~timer[d].set /\ \A s \in Slots : ~RowSave(s, d)
        BY <1>1, <2>1, <2>3 DEF RowSettled
      <3>2. \A s \in Slots : ~RowSave(s, d)'
        BY <1>8, <3>1 DEF RowSave, Aged
      <3>3. set.ctl = server.ctl[d]
        BY <1>1, <1>2, <2>1, <2>3 DEF RowSettled
      <3>4. QED  BY <1>1, <1>4, <1>5, <1>7, <2>3, <3>1, <3>2, <3>3, Defaults DEF RowSettled
    <2>4. QED  BY <2>2, <2>3
  <1>13. QED  BY <1>9, <1>10, <1>11, <1>12 DEF Inv

LEMMA RowLoadFailsInv == ASSUME Inv, NEW d \in Devices, RowLoadFails(d) PROVE Inv'
PROOF
  <1> USE InvParts
  <1> DEFINE l(e) == IF e = d THEN NoLoad ELSE rows[e].load
             r(e) == [rows[e] EXCEPT !.loaded = FALSE, !.loading = FALSE, !.load = l(e)]
  <1>1. /\ rows' = [e \in Devices |-> r(e)] /\ failed' = TRUE
        /\ UNCHANGED <<server, sel, screen, opts, timer, cache, local, net, ops, touched, upset, left>>
    BY DEF RowLoadFails
  <1>2. ASSUME NEW e \in Devices PROVE r(e) \in RowType /\ ~r(e).load.body.running
    <2>1. rows[e].load \in Loads /\ ~rows[e].load.body.running
      BY DEF RowType, Stripped
    <2>2. l(e) \in Loads /\ ~l(e).body.running
      BY <2>1, Defaults
    <2> HIDE DEF l
    <2>3. QED  BY <2>2 DEF RowType
  <1> HIDE DEF r
  <1>3. Typed'
    BY <1>1, <1>2 DEF Typed
  <1>4. Stripped' /\ Edited'
    BY <1>1, <1>2 DEF Stripped, Edited
  <1>5. OwnEverywhere' /\ Settled'
    BY <1>1 DEF OwnEverywhere, Settled
  <1>6. QED  BY <1>3, <1>4, <1>5 DEF Inv

-----------------------------------------------------------------------------
(* Edits and saves. *)
LEMMA EditOptionsInv == ASSUME Inv, EditOptions PROVE Inv'
PROOF
  <1> USE InvParts
  <1> DEFINE b == [screen EXCEPT !.opt = ops']
             o == [opts EXCEPT !.edited = TRUE]
  <1>1. /\ sel \in Devices /\ ops' \in 0..MaxOps /\ screen' = b /\ opts' = o
        /\ touched' = touched \cup {sel}
        /\ UNCHANGED <<server, sel, rows, timer, cache, local, faults, upset, failed, left>>
    BY Constants DEF EditOptions, Act, Typed
  <1>2. b \in Settings /\ b.ctl = screen.ctl /\ b.running = screen.running
    BY <1>1 DEF Settings
  <1>3. o \in OptsType /\ o.load = opts.load /\ o.loaded = opts.loaded
    BY DEF OptsType
  <1>4. \/ net' = net
        \/ \E s \in Slots : opts.loaded /\ Send(s, net, "options", sel, b, TRUE)
    BY <1>1 DEF EditOptions
  <1> HIDE DEF b, o
  <1>5. /\ net' \in [Slots -> SlotType]
        /\ \A k \in Slots :
             \/ net'[k] = net[k]
             \/ /\ net[k].phase = "free" /\ opts.loaded /\ net'[k].store = "options"
                /\ net'[k].dev = sel /\ net'[k].body = Plain(b)
    <2>1. CASE net' = net
      BY <2>1 DEF Typed
    <2>2. CASE net' # net
      <3>0. PICK yes \in BOOLEAN : yes = TRUE
        OBVIOUS
      <3>1. PICK s \in Slots : opts.loaded /\ Send(s, net, "options", sel, b, yes)
        BY <1>4, <2>2, <3>0
      <3>2. net \in [Slots -> SlotType]
        BY DEF Typed
      <3>3. /\ net' \in [Slots -> SlotType] /\ net[s].phase = "free"
            /\ \A k \in Slots \ {s} : net'[k] = net[k]
            /\ net'[s].phase = "sent" /\ net'[s].store = "options" /\ net'[s].dev = sel
            /\ net'[s].fresh = yes /\ net'[s].body = Plain(b)
        BY <1>1, <1>2, <3>1, <3>2, SendSlot
      <3>4. QED  BY <3>1, <3>3
    <2>3. QED  BY <2>1, <2>2
  <1>6. Plain(b) \in Settings /\ Plain(b).ctl = screen.ctl /\ ~Plain(b).running
    BY <1>2, PlainTyped
  <1>7. Typed'
    BY <1>1, <1>2, <1>3, <1>5 DEF Typed
  <1>8. Stripped'
    BY <1>1, <1>5, <1>6 DEF Stripped
  <1>9. Edited'
    BY <1>1, <1>3, <1>5 DEF Edited
  <1>10. OwnEverywhere'
    <2> SUFFICES ASSUME ~failed', ~left' PROVE OwnEverywhere'
      BY DEF OwnEverywhere
    <2>1. OwnScreen /\ (\A e \in Devices : OwnRow(e)) /\ \A s \in Slots : OwnSlot(s)
      BY <1>1 DEF OwnEverywhere
    <2>2. OwnScreen'
      BY <1>1, <1>2, <1>3, <2>1 DEF OwnScreen, Own
    <2>3. \A e \in Devices : OwnRow(e)'
      BY <1>1, <2>1 DEF OwnRow
    <2>4. ASSUME NEW k \in Slots PROVE OwnSlot(k)'
      BY <1>5, <1>6, <2>1 DEF OwnSlot, OwnScreen, Own
    <2>5. QED  BY <2>2, <2>3, <2>4 DEF OwnEverywhere
  <1>11. Settled'
    <2>1. \A k \in Slots : SlotApart(k)
      BY <1>5 DEF SlotApart, Aged
    <2>2. QED  BY <1>1, <2>1, SettledKept DEF Settled
  <1>12. QED  BY <1>7, <1>8, <1>9, <1>10, <1>11 DEF Inv

LEMMA EditRowInv == ASSUME Inv, NEW d \in Devices, EditRow(d) PROVE Inv'
PROOF
  <1> USE InvParts
  <1> DEFINE c == rows[d].set.ctl \cup {<<d, ops + 1>>}
             set == [rows[d].set EXCEPT !.ctl = c]
             r == [rows[d] EXCEPT !.set = set]
             t == [set |-> TRUE, body |-> set, fresh |-> TRUE]
             e == [on |-> TRUE, set |-> set]
  <1>1. /\ rows[d].on /\ ~rows[d].loading /\ ops + 1 \in 0..MaxOps /\ ops' = ops + 1
        /\ rows' = [rows EXCEPT ![d].set = set]
        /\ timer' = IF rows[d].loaded THEN [timer EXCEPT ![d] = t] ELSE timer
        /\ cache' = [cache EXCEPT ![d] = e]
        /\ touched' = touched \cup {d}
        /\ upset' = (IF Busy(d) THEN upset \cup {d} ELSE upset)
        /\ UNCHANGED <<server, sel, screen, opts, local, net, faults, failed, left>>
    BY Constants DEF EditRow, Act, Typed, QueuePersist
  <1>2. <<d, ops + 1>> \in Edits
    BY <1>1 DEF Edits
  <1>3. set \in Settings /\ set.ctl = c /\ set.running = rows[d].set.running
    BY <1>2 DEF Settings, RowType
  <1>4. rows' = [rows EXCEPT ![d] = r]
    BY <1>1 DEF Typed
  <1> HIDE DEF set
  <1>5. /\ r \in RowType /\ r.set = set /\ r.on = rows[d].on /\ r.loaded = rows[d].loaded
        /\ r.loading = rows[d].loading /\ r.load = rows[d].load
    BY <1>3 DEF RowType
  <1>6. t \in TimerType /\ t.set /\ t.body = set /\ e \in CacheType /\ e.set = set
    BY <1>3 DEF TimerType, CacheType
  <1> HIDE DEF r, t, e
  <1>7. rows' \in [Devices -> RowType] /\ rows'[d] = r /\ \A k \in Devices \ {d} : rows'[k] = rows[k]
    BY <1>4, <1>5 DEF Typed
  <1>8. /\ timer' \in [Devices -> TimerType] /\ timer'[d] = IF rows[d].loaded THEN t ELSE timer[d]
        /\ \A k \in Devices \ {d} : timer'[k] = timer[k]
    BY <1>1, <1>6 DEF Typed
  <1>9. cache' \in [Devices -> CacheType] /\ cache'[d] = e /\ \A k \in Devices \ {d} : cache'[k] = cache[k]
    BY <1>1, <1>6 DEF Typed
  <1>10. upset \subseteq upset' /\ upset' \subseteq Devices /\ (d \notin upset' => ~Busy(d))
    BY <1>1 DEF Typed
  <1>11. Typed'
    BY <1>1, <1>7, <1>8, <1>9, <1>10 DEF Typed
  <1>12. Stripped' /\ Edited'
    <2>1. \A k \in Devices : rows'[k].load = rows[k].load /\ (timer'[k].set => k = d \/ timer[k].set)
      BY <1>5, <1>7, <1>8
    <2>2. UNCHANGED <<sel, opts, net>> /\ touched' = touched \cup {d}
      BY <1>1
    <2>3. QED  BY <2>1, <2>2 DEF Stripped, Edited
  <1>13. OwnEverywhere'
    <2> SUFFICES ASSUME ~failed', ~left' PROVE OwnEverywhere'
      BY DEF OwnEverywhere
    <2>1. OwnScreen /\ (\A k \in Devices : OwnRow(k)) /\ \A s \in Slots : OwnSlot(s)
      BY <1>1 DEF OwnEverywhere
    <2>2. rows[d].loaded /\ Own(d, rows[d].set)
      BY <1>1, <2>1 DEF OwnRow
    <2>3. Own(d, set)
      BY <1>1, <1>3, <2>2 DEF Own
    <2>4. OwnRow(d)'
      <3>1. server' = server /\ local' = local /\ OwnRow(d)
        BY <1>1, <2>1
      <3>2. QED  BY <1>3, <1>5, <1>6, <1>7, <1>8, <1>9, <2>2, <2>3, <3>1 DEF OwnRow, Own
    <2>5. ASSUME NEW k \in Devices \ {d} PROVE OwnRow(k)'
      BY <1>1, <1>7, <1>8, <1>9, <2>1 DEF OwnRow
    <2>6. OwnScreen' /\ \A s \in Slots : OwnSlot(s)'
      <3>1. UNCHANGED <<sel, screen, opts, net>> /\ \A k \in Devices : rows'[k].loaded = rows[k].loaded
        BY <1>1, <1>5, <1>7
      <3>2. QED  BY <2>1, <3>1 DEF OwnScreen, OwnSlot, Edited
    <2>7. QED  BY <2>4, <2>5, <2>6 DEF OwnEverywhere
  <1>14. Settled'
    <2> SUFFICES ASSUME ~failed, NEW k \in Devices, k \notin upset' PROVE RowSettled(k)'
      BY <1>1 DEF Settled
    <2>1. RowSettled(k)
      BY <1>10 DEF Settled
    <2>2. CASE k # d
      <3>1. \A s \in Slots : SlotApart(s)
        BY <1>1 DEF SlotApart, Aged
      <3>2. server' = server
        BY <1>1
      <3>3. QED  BY <1>7, <1>8, <2>1, <2>2, <3>1, <3>2, SettledKept
    <2>3. CASE k = d
      <3>1. rows[d].load.phase = "none" /\ \A s \in Slots : ~RowSave(s, d)
        BY <1>10, <2>3 DEF Busy, Saving, RowSave
      <3>2. \A s \in Slots : ~RowSave(s, d)'
        BY <1>1, <3>1 DEF RowSave
      <3>3. ~rows[d].loaded => ~timer[d].set
        BY <2>1, <2>3 DEF RowSettled
      <3>4. QED  BY <1>5, <1>6, <1>7, <1>8, <2>3, <3>1, <3>2, <3>3 DEF RowSettled
    <2>4. QED  BY <2>2, <2>3
  <1>15. QED  BY <1>11, <1>12, <1>13, <1>14 DEF Inv

LEMMA SaveRowInv == ASSUME Inv, NEW d \in Devices, SaveRow(d) PROVE Inv'
PROOF
  <1> USE InvParts
  <1> DEFINE b == timer[d].body
             fresh == timer[d].fresh
  <1>1. PICK s \in Slots : Send(s, net, "rows", d, b, fresh)
    BY DEF SaveRow
  <1>2. /\ timer[d].set /\ timer' = [timer EXCEPT ![d] = NoTimer]
        /\ UNCHANGED <<server, sel, screen, opts, rows, cache, local, ops, faults, touched, upset,
                       failed, left>>
    BY DEF SaveRow
  <1>3. b \in Settings /\ fresh \in BOOLEAN /\ net \in [Slots -> SlotType]
    BY DEF TimerType, Typed
  <1>4. /\ net' \in [Slots -> SlotType] /\ net[s].phase = "free"
        /\ \A k \in Slots \ {s} : net'[k] = net[k]
        /\ net'[s].phase = "sent" /\ net'[s].store = "rows" /\ net'[s].dev = d
        /\ net'[s].body = Plain(b)
    BY <1>1, <1>3, SendSlot
  <1>5. Plain(b).ctl = b.ctl /\ ~Plain(b).running
    BY <1>3, PlainTyped
  <1> HIDE DEF b, fresh
  <1>6. /\ timer' \in [Devices -> TimerType] /\ ~timer'[d].set
        /\ \A k \in Devices \ {d} : timer'[k] = timer[k]
    BY <1>2, Defaults DEF Typed
  <1>7. Typed'
    BY <1>2, <1>4, <1>6 DEF Typed
  <1>8. Stripped' /\ Edited'
    BY <1>2, <1>4, <1>5, <1>6 DEF Stripped, Edited
  <1>9. OwnEverywhere'
    <2> SUFFICES ASSUME ~failed', ~left' PROVE OwnEverywhere'
      BY DEF OwnEverywhere
    <2>1. OwnScreen /\ (\A k \in Devices : OwnRow(k)) /\ \A k \in Slots : OwnSlot(k)
      BY <1>2 DEF OwnEverywhere
    <2>2. ASSUME NEW k \in Devices PROVE OwnRow(k)'
      BY <1>2, <1>6, <2>1 DEF OwnRow
    <2>3. OwnScreen'
      BY <1>2, <2>1 DEF OwnScreen
    <2>4. ASSUME NEW k \in Slots PROVE OwnSlot(k)'
      <3>1. Own(d, b)
        BY <1>2, <2>1 DEF OwnRow, b
      <3>2. QED  BY <1>4, <1>5, <2>1, <3>1 DEF OwnSlot, Own
    <2>5. QED  BY <2>2, <2>3, <2>4 DEF OwnEverywhere
  <1>10. Settled'
    <2> SUFFICES ASSUME ~failed, NEW k \in Devices, k \notin upset PROVE RowSettled(k)'
      BY <1>2 DEF Settled
    <2>1. RowSettled(k)
      BY DEF Settled
    <2>2. CASE k # d
      <3>1. \A j \in Slots : /\ RowSave(j, k)' <=> RowSave(j, k)
                             /\ RowSave(j, k) => net'[j] = net[j]
        BY <1>4, <2>2 DEF RowSave
      <3>2. QED  BY <1>2, <1>6, <2>1, <2>2, <3>1 DEF RowSettled
    <2>3. CASE k = d
      <3>1. /\ rows[d].loaded /\ b.ctl = rows[d].set.ctl /\ rows[d].load.phase = "none"
            /\ \A j \in Slots : ~RowSave(j, d)
        BY <1>2, <2>1, <2>3 DEF RowSettled, b
      <3>2. \A j \in Slots : RowSave(j, d)' <=> j = s
        BY <1>4, <3>1 DEF RowSave
      <3>3. QED  BY <1>2, <1>4, <1>5, <1>6, <2>3, <3>1, <3>2 DEF RowSettled
    <2>4. QED  BY <2>2, <2>3
  <1>11. QED  BY <1>7, <1>8, <1>9, <1>10 DEF Inv

LEMMA SaveArrivesInv == ASSUME Inv, NEW s \in Slots, SaveArrives(s) PROVE Inv'
PROOF
  <1> USE InvParts
  <1> DEFINE b == net[s].body
             n == [net[s] EXCEPT !.phase = "stored"]
             ctl == [server.ctl EXCEPT ![net[s].dev] = b.ctl]
  <1>0. PICK d \in Devices : d = net[s].dev
    BY DEF SaveArrives, Edited, Typed
  <1>1. /\ net[s].phase = "sent" /\ net' = [net EXCEPT ![s].phase = "stored"]
        /\ server' = [opt |-> b.opt, ctl |-> ctl]
        /\ upset' = (IF net[s].store = "options" /\ b.ctl # server.ctl[d]
                     THEN upset \cup {d} ELSE upset)
        /\ UNCHANGED <<sel, screen, opts, rows, timer, cache, local, ops, faults, touched, failed,
                       left>>
    BY <1>0 DEF SaveArrives
  <1>2. /\ n \in SlotType /\ n.phase = "stored" /\ n.store = net[s].store /\ n.dev = net[s].dev
        /\ n.body = net[s].body /\ n.fresh = net[s].fresh
    BY DEF SlotType
  <1>3. net' = [net EXCEPT ![s] = n]
    BY <1>1 DEF Typed
  <1> HIDE DEF n
  <1>4. net' \in [Slots -> SlotType] /\ net'[s] = n /\ \A k \in Slots \ {s} : net'[k] = net[k]
    BY <1>2, <1>3 DEF Typed
  <1>5. b \in Settings /\ b.ctl \in SUBSET Edits /\ b.opt \in 0..MaxOps
    BY DEF SlotType, Settings
  <1>6. /\ ctl \in [Devices -> SUBSET Edits] /\ ctl[d] = b.ctl
        /\ \A k \in Devices \ {d} : ctl[k] = server.ctl[k]
    BY <1>0, <1>5 DEF Typed, ServerType
  <1> HIDE DEF b, ctl
  <1>7. server' \in ServerType /\ server'.ctl = ctl
    BY <1>1, <1>5, <1>6 DEF ServerType
  <1>8. Typed'
    BY <1>1, <1>4, <1>7 DEF Typed
  <1>9. Stripped' /\ Edited'
    BY <1>1, <1>2, <1>4 DEF Stripped, Edited
  <1>10. OwnEverywhere'
    <2> SUFFICES ASSUME ~failed', ~left' PROVE OwnEverywhere'
      BY DEF OwnEverywhere
    <2>1. OwnScreen /\ (\A k \in Devices : OwnRow(k)) /\ \A k \in Slots : OwnSlot(k)
      BY <1>1 DEF OwnEverywhere
    <2>2. Own(d, b)
      BY <1>0, <1>1, <2>1 DEF OwnSlot, b
    <2>3. ASSUME NEW k \in Devices PROVE OwnRow(k)'
      BY <1>1, <1>6, <1>7, <2>1, <2>2 DEF OwnRow, Own
    <2>4. OwnScreen'
      BY <1>1, <2>1 DEF OwnScreen
    <2>5. ASSUME NEW k \in Slots PROVE OwnSlot(k)'
      BY <1>1, <1>2, <1>4, <2>1 DEF OwnSlot
    <2>6. QED  BY <2>3, <2>4, <2>5 DEF OwnEverywhere
  <1>11. Settled'
    <2> SUFFICES ASSUME ~failed, NEW k \in Devices, k \notin upset' PROVE RowSettled(k)'
      BY <1>1 DEF Settled
    <2>1. RowSettled(k)
      BY <1>1 DEF Settled
    <2>2. \A j \in Slots : /\ RowSave(j, k)' <=> RowSave(j, k)
                           /\ net'[j].body = net[j].body
                           /\ j # s => net'[j].phase = net[j].phase
      BY <1>1, <1>2, <1>4 DEF RowSave
    <2>3. CASE RowSave(s, k)
      <3>1. k = d /\ b.ctl = rows[k].set.ctl /\ ~timer[k].set /\ rows[k].load.phase = "none"
        BY <1>0, <2>1, <2>3 DEF RowSettled, RowSave, b
      <3>2. server'.ctl[k] = rows[k].set.ctl
        BY <1>6, <1>7, <3>1
      <3>3. QED  BY <1>1, <2>1, <2>2, <2>3, <3>1, <3>2 DEF RowSettled
    <2>4. CASE ~RowSave(s, k)
      <3>1. server'.ctl[k] = server.ctl[k]
        <4>1. CASE k # d
          BY <1>6, <1>7, <4>1
        <4>2. CASE k = d
          <5>1. net[s].store = "options"
            BY <1>0, <1>1, <2>4, <4>2 DEF RowSave, SlotType
          <5>2. QED  BY <1>1, <1>6, <1>7, <4>2, <5>1
        <4>3. QED  BY <4>1, <4>2
      <3>2. QED  BY <1>1, <2>1, <2>2, <2>4, <3>1 DEF RowSettled
    <2>5. QED  BY <2>3, <2>4
  <1>12. QED  BY <1>8, <1>9, <1>10, <1>11 DEF Inv

LEMMA SaveFailsInv == ASSUME Inv, NEW s \in Slots, SaveFails(s) PROVE Inv'
PROOF
  <1> USE InvParts
  <1>1. /\ net' = [net EXCEPT ![s] = FreeSlot] /\ failed' = TRUE
        /\ UNCHANGED <<server, sel, screen, opts, rows, timer, cache, local, ops, touched, upset,
                       left>>
    BY DEF SaveFails
  <1>2. /\ net' \in [Slots -> SlotType] /\ net'[s] = FreeSlot
        /\ \A k \in Slots \ {s} : net'[k] = net[k]
    BY <1>1, Defaults DEF Typed
  <1>3. Typed'
    BY <1>1, <1>2 DEF Typed
  <1>4. Stripped' /\ Edited'
    BY <1>1, <1>2, Defaults DEF Stripped, Edited
  <1>5. OwnEverywhere' /\ Settled'
    BY <1>1 DEF OwnEverywhere, Settled
  <1>6. QED  BY <1>3, <1>4, <1>5 DEF Inv

LEMMA SaveReturnsInv == ASSUME Inv, NEW s \in Slots, SaveReturns(s) PROVE Inv'
PROOF
  <1> USE InvParts
  <1> DEFINE q == net[s]
             r == [rows[q.dev] EXCEPT !.set = q.body]
  <1>0. PICK d \in Devices : d = q.dev
    BY DEF SaveReturns, Edited, Typed
  <1>1. /\ q.phase = "stored" /\ net' = [net EXCEPT ![s] = FreeSlot]
        /\ screen' = (IF q.store = "options" /\ q.fresh THEN q.body ELSE screen)
        /\ rows' = (IF q.store = "rows" /\ q.fresh THEN [rows EXCEPT ![d].set = q.body] ELSE rows)
        /\ UNCHANGED <<server, sel, opts, timer, cache, local, ops, faults, touched, upset, failed,
                       left>>
    BY <1>0 DEF SaveReturns
  <1>2. /\ net' \in [Slots -> SlotType] /\ net'[s] = FreeSlot
        /\ \A k \in Slots \ {s} : net'[k] = net[k]
    BY <1>1, Defaults DEF Typed
  <1>3. q.body \in Settings /\ ~q.body.running /\ screen' \in Settings
    BY <1>1 DEF SlotType, Stripped
  <1>4. /\ r \in RowType /\ r.set = q.body /\ r.on = rows[d].on /\ r.loaded = rows[d].loaded
        /\ r.loading = rows[d].loading /\ r.load = rows[d].load
    BY <1>0, <1>3 DEF RowType
  <1>5. /\ rows' \in [Devices -> RowType]
        /\ \A e \in Devices \ {d} : rows'[e] = rows[e]
        /\ rows'[d] = IF q.store = "rows" /\ q.fresh THEN r ELSE rows[d]
    <2>1. rows' = IF q.store = "rows" /\ q.fresh THEN [rows EXCEPT ![d] = r] ELSE rows
      BY <1>0, <1>1 DEF Typed
    <2> HIDE DEF r
    <2>2. QED  BY <1>4, <2>1 DEF Typed
  <1> HIDE DEF r
  <1>6. \A e \in Devices : /\ rows'[e].on = rows[e].on /\ rows'[e].loaded = rows[e].loaded
                           /\ rows'[e].loading = rows[e].loading /\ rows'[e].load = rows[e].load
    BY <1>4, <1>5
  <1>7. Typed'
    BY <1>1, <1>2, <1>3, <1>5 DEF Typed
  <1>8. Stripped' /\ Edited'
    BY <1>1, <1>2, <1>6, Defaults DEF Stripped, Edited
  <1>9. OwnEverywhere'
    <2> SUFFICES ASSUME ~failed', ~left' PROVE OwnEverywhere'
      BY DEF OwnEverywhere
    <2>1. OwnScreen /\ (\A e \in Devices : OwnRow(e)) /\ \A k \in Slots : OwnSlot(k)
      BY <1>1 DEF OwnEverywhere
    <2>2. Own(d, q.body)
      BY <1>0, <1>1, <2>1 DEF OwnSlot
    <2> HIDE DEF q
    <2>3. ASSUME NEW e \in Devices PROVE OwnRow(e)'
      <3>1. rows[e].loaded => Own(e, rows'[e].set)
        <4>1. rows[e].loaded => Own(e, rows[e].set)
          BY <2>1 DEF OwnRow
        <4>2. CASE e = d
          <5>1. rows'[d].set = q.body \/ rows'[d] = rows[d]
            BY <1>4, <1>5
          <5>2. QED  BY <2>2, <4>1, <4>2, <5>1
        <4>3. CASE e # d
          BY <1>5, <4>1, <4>3
        <4>4. QED  BY <4>2, <4>3
      <3>2. OwnRow(e)
        BY <2>1
      <3>3. /\ rows'[e].on = rows[e].on /\ rows'[e].loaded = rows[e].loaded
            /\ rows'[e].loading = rows[e].loading /\ rows'[e].load = rows[e].load
        BY <1>6
      <3>4. server' = server /\ timer' = timer /\ cache' = cache /\ local' = local
        BY <1>1
      <3>5. QED  BY <3>1, <3>2, <3>3, <3>4 DEF OwnRow, Own
    <2>4. OwnScreen'
      <3>1. opts.loaded => Own(sel, screen') /\ (screen'.running => rows[sel].loaded)
        <4>1. CASE q.store = "options" /\ q.fresh
          <5>1. sel = d
            BY <1>0, <1>1, <4>1 DEF Edited, q
          <5>2. QED  BY <1>1, <1>3, <2>2, <4>1, <5>1
        <4>2. CASE ~(q.store = "options" /\ q.fresh)
          BY <1>1, <2>1, <4>2 DEF OwnScreen
        <4>3. QED  BY <4>1, <4>2
      <3>2. QED  BY <1>1, <1>6, <2>1, <3>1 DEF OwnScreen, Edited, Own
    <2>5. ASSUME NEW k \in Slots PROVE OwnSlot(k)'
      BY <1>2, <2>1, Defaults DEF OwnSlot
    <2>6. QED  BY <2>3, <2>4, <2>5 DEF OwnEverywhere
  <1>10. Settled'
    <2> SUFFICES ASSUME ~failed, NEW k \in Devices, k \notin upset PROVE RowSettled(k)'
      BY <1>1 DEF Settled
    <2>1. RowSettled(k)
      BY DEF Settled
    <2>2. \A j \in Slots : /\ RowSave(j, k)' <=> (RowSave(j, k) /\ j # s)
                           /\ j # s => net'[j] = net[j]
      BY <1>2, Defaults DEF RowSave
    <2>3. CASE RowSave(s, k)
      <3>1. /\ k = d /\ q.body.ctl = rows[k].set.ctl /\ server.ctl[k] = rows[k].set.ctl
            /\ ~timer[k].set /\ rows[k].load.phase = "none"
        BY <1>0, <1>1, <2>1, <2>3 DEF RowSettled, RowSave
      <3>2. rows'[k].set.ctl = rows[k].set.ctl
        BY <1>4, <1>5, <3>1
      <3>3. QED  BY <1>1, <1>6, <2>1, <2>2, <3>1, <3>2 DEF RowSettled
    <2>4. CASE ~RowSave(s, k)
      <3>1. rows'[k] = rows[k]
        BY <1>0, <1>1, <1>5, <2>4 DEF RowSave
      <3>2. QED  BY <1>1, <2>1, <2>2, <2>4, <3>1, ZenonT(40) DEF RowSettled
    <2>5. QED  BY <2>3, <2>4
  <1>11. QED  BY <1>7, <1>8, <1>9, <1>10 DEF Inv

LEMMA SetRunningInv == ASSUME Inv, NEW d \in Devices, NEW b \in BOOLEAN, SetRunning(d, b) PROVE Inv'
PROOF
  <1> USE InvParts
  <1> DEFINE set == [rows[d].set EXCEPT !.running = b]
             r == [rows[d] EXCEPT !.set = set]
             e == [on |-> TRUE, set |-> rows'[d].set]
  <1>1. /\ b => rows[d].loaded
        /\ ~b => local[d]
        /\ ops' \in 0..MaxOps
    BY Constants DEF SetRunning, Act, Typed
  <1>2. /\ local' = [local EXCEPT ![d] = b]
        /\ rows' = (IF rows[d].on THEN [rows EXCEPT ![d].set.running = b] ELSE rows)
        /\ cache' = (IF rows[d].on THEN [cache EXCEPT ![d] = e] ELSE cache)
        /\ screen' = (IF sel = d THEN [screen EXCEPT !.running = b] ELSE screen)
        /\ upset' = (IF Busy(d) THEN upset \cup {d} ELSE upset)
        /\ UNCHANGED <<server, sel, opts, timer, net, faults, touched, failed, left>>
    BY DEF SetRunning
  <1>3. set \in Settings /\ set.ctl = rows[d].set.ctl /\ set.running = b
    BY DEF RowType, Settings
  <1>4. rows' = IF rows[d].on THEN [rows EXCEPT ![d] = r] ELSE rows
    BY <1>2 DEF Typed, RowType
  <1> HIDE DEF set
  <1>5. /\ r \in RowType /\ r.set = set /\ r.on = rows[d].on /\ r.loaded = rows[d].loaded
        /\ r.loading = rows[d].loading /\ r.load = rows[d].load
    BY <1>3 DEF RowType
  <1> HIDE DEF r
  <1>6. /\ rows' \in [Devices -> RowType] /\ rows'[d] = (IF rows[d].on THEN r ELSE rows[d])
        /\ \A k \in Devices \ {d} : rows'[k] = rows[k]
    BY <1>4, <1>5 DEF Typed
  <1>7. \A k \in Devices : /\ rows'[k].on = rows[k].on /\ rows'[k].loaded = rows[k].loaded
                           /\ rows'[k].loading = rows[k].loading /\ rows'[k].load = rows[k].load
                           /\ rows'[k].set.ctl = rows[k].set.ctl
    BY <1>3, <1>5, <1>6
  <1>8. e \in CacheType /\ e.set = rows'[d].set
    BY <1>6 DEF CacheType, RowType
  <1> HIDE DEF e
  <1>9. /\ cache' \in [Devices -> CacheType] /\ cache'[d] = (IF rows[d].on THEN e ELSE cache[d])
        /\ \A k \in Devices \ {d} : cache'[k] = cache[k]
    BY <1>2, <1>8 DEF Typed
  <1>10. /\ local' \in [Devices -> BOOLEAN] /\ local'[d] = b
         /\ \A k \in Devices \ {d} : local'[k] = local[k]
    BY <1>2 DEF Typed
  <1>11. /\ screen' \in Settings /\ screen'.ctl = screen.ctl
         /\ screen'.running => (IF sel = d THEN b ELSE screen.running)
    BY <1>2 DEF Settings
  <1>12. upset \subseteq upset' /\ upset' \subseteq Devices
    BY <1>2 DEF Typed
  <1>13. Typed'
    BY <1>1, <1>2, <1>6, <1>9, <1>10, <1>11, <1>12 DEF Typed
  <1>14. Stripped' /\ Edited'
    BY <1>2, <1>7 DEF Stripped, Edited
  <1>15. OwnEverywhere'
    <2> SUFFICES ASSUME ~failed', ~left' PROVE OwnEverywhere'
      BY DEF OwnEverywhere
    <2>1. OwnScreen /\ (\A k \in Devices : OwnRow(k)) /\ \A s \in Slots : OwnSlot(s)
      BY <1>2 DEF OwnEverywhere
    <2>2. rows[d].on /\ rows[d].loaded /\ Own(d, rows[d].set)
      BY <1>1, <2>1 DEF OwnRow
    <2>3. OwnRow(d)'
      <3>1. server' = server /\ timer' = timer /\ OwnRow(d)
        BY <1>2, <2>1
      <3>2. rows'[d].set.ctl = rows[d].set.ctl /\ rows'[d].loaded /\ rows'[d].on /\ rows'[d].load = rows[d].load
        BY <1>7, <2>2
      <3>3. cache'[d].set = rows'[d].set
        BY <1>8, <1>9, <2>2
      <3>4. QED  BY <2>2, <3>1, <3>2, <3>3 DEF OwnRow, Own
    <2>4. ASSUME NEW k \in Devices \ {d} PROVE OwnRow(k)'
      BY <1>2, <1>6, <1>9, <1>10, <2>1 DEF OwnRow
    <2>5. OwnScreen'
      BY <1>2, <1>7, <1>11, <2>1, <2>2 DEF OwnScreen, Edited, Own
    <2>6. \A s \in Slots : OwnSlot(s)'
      BY <1>2, <2>1 DEF OwnSlot
    <2>7. QED  BY <2>3, <2>4, <2>5, <2>6 DEF OwnEverywhere
  <1>16. Settled'
    <2> SUFFICES ASSUME ~failed, NEW k \in Devices, k \notin upset PROVE RowSettled(k)'
      BY <1>2, <1>12 DEF Settled
    <2>1. RowSettled(k)
      BY DEF Settled
    <2>2. (\A s \in Slots : SlotApart(s)) /\ server' = server /\ timer' = timer
      BY <1>2 DEF SlotApart, Aged
    <2>3. QED  BY <1>7, <2>1, <2>2, SettledKept
  <1>17. QED  BY <1>13, <1>14, <1>15, <1>16 DEF Inv

-----------------------------------------------------------------------------
LEMMA InitInv == Init => Inv
PROOF
  <1> SUFFICES ASSUME Init PROVE Inv
    OBVIOUS
  <1>0. PICK no \in BOOLEAN : no = FALSE
    OBVIOUS
  <1> DEFINE l == Loading(no)
             r == [Row EXCEPT !.load = l]
             ctl == [d \in Devices |-> {<<d, 0>>}]
  <1>1. l \in Loads /\ l.phase = "sent" /\ ~l.restored /\ ~l.body.running
    BY <1>0, LoadingTyped
  <1>2. /\ server = [opt |-> 0, ctl |-> ctl] /\ screen = Default
        /\ opts = [loaded |-> FALSE, edited |-> FALSE, loading |-> TRUE, load |-> l]
        /\ rows = [d \in Devices |-> r] /\ timer = [d \in Devices |-> NoTimer]
        /\ cache = [d \in Devices |-> [on |-> FALSE, set |-> Default]]
        /\ local = [d \in Devices |-> FALSE] /\ net = [s \in Slots |-> FreeSlot]
        /\ ops = 0 /\ touched = {} /\ upset = {} /\ failed = FALSE /\ left = FALSE
    BY <1>0 DEF Init
  <1>3. sel \in Devices
    <2>1. sel = CHOOSE d \in Devices : TRUE
      BY DEF Init
    <2>2. \E d \in Devices : TRUE
      BY Constants
    <2>3. QED  BY <2>1, <2>2, Zenon
  <1> HIDE DEF l
  <1>4. r \in RowType /\ r.on /\ r.loading /\ ~r.loaded /\ r.load = l
    BY <1>1, RowsTyped DEF RowType
  <1>5. opts \in OptsType /\ ~opts.loaded /\ ~opts.edited /\ opts.load = l
    BY <1>1, <1>2 DEF OptsType
  <1> HIDE DEF r
  <1>6. /\ ctl \in [Devices -> SUBSET Edits]
        /\ \A d \in Devices : ctl[d] = {<<d, 0>>} /\ <<d, 0>> \in {d} \X (0..MaxOps)
    BY Constants DEF Edits
  <1>7. server \in ServerType /\ server.ctl = ctl
    <2> HIDE DEF ctl
    <2>1. QED  BY <1>2, <1>6, Constants DEF ServerType
  <1> HIDE DEF ctl
  <1>8. Typed
    <2>1. [on |-> FALSE, set |-> Default] \in CacheType
      BY Defaults DEF CacheType
    <2>2. QED  BY <1>2, <1>3, <1>4, <1>5, <1>7, <2>1, Defaults, Constants DEF Typed
  <1>9. Stripped /\ Edited
    BY <1>1, <1>2, <1>3, <1>4, <1>5, Defaults DEF Stripped, Edited
  <1>10. OwnEverywhere
    <2>1. ASSUME NEW d \in Devices PROVE OwnRow(d)
      <3>1. rows[d] = r /\ timer[d] = NoTimer /\ local[d] = FALSE /\ server.ctl[d] = {<<d, 0>>}
        BY <1>2, <1>6, <1>7
      <3>2. ~cache[d].on
        BY <1>2
      <3>3. {<<d, 0>>} \subseteq {d} \X (0..MaxOps)
        BY <1>6
      <3>4. r.load.phase = "sent" /\ ~timer[d].set /\ ~local[d]
        BY <1>1, <1>4, <3>1, Defaults
      <3>5. QED  BY <1>4, <3>1, <3>2, <3>3, <3>4 DEF OwnRow
    <2>2. OwnScreen /\ \A s \in Slots : OwnSlot(s)
      BY <1>1, <1>2, <1>5, Defaults DEF OwnScreen, OwnSlot
    <2>3. QED  BY <2>1, <2>2 DEF OwnEverywhere
  <1>11. Settled
    BY <1>1, <1>2, <1>4, Defaults DEF Settled, RowSettled, RowSave
  <1>12. QED  BY <1>8, <1>9, <1>10, <1>11 DEF Inv

LEMMA StutterInv == ASSUME Inv, UNCHANGED vars PROVE Inv'
PROOF
  <1>1. Typed' /\ Stripped' /\ Edited'
    BY DEF vars, Inv, Typed, Stripped, Edited
  <1>2. OwnEverywhere'
    BY DEF vars, Inv, OwnEverywhere, OwnRow, OwnScreen, OwnSlot, Own
  <1>3. Settled'
    BY DEF vars, Inv, Settled, RowSettled, RowSave
  <1>4. QED  BY <1>1, <1>2, <1>3 DEF Inv

LEMMA StepInv == Inv /\ [Next]_vars => Inv'
PROOF
  <1> SUFFICES ASSUME Inv, [Next]_vars PROVE Inv'
    OBVIOUS
  <1>1. CASE Operator
    BY <1>1, RefreshInv, RefreshFailsInv, EditOptionsInv, SelectInv, EditRowInv, SetRunningInv
       DEF Operator
  <1>2. CASE Answers
    BY <1>2, OptionsFetchedInv, OptionsLoadedInv, OptionsLoadFailsInv, RowFetchedInv, RowLoadedInv,
       RowLoadFailsInv DEF Answers
  <1>3. CASE Saves
    BY <1>3, SaveRowInv, SaveArrivesInv, SaveFailsInv, SaveReturnsInv DEF Saves
  <1>4. CASE UNCHANGED vars
    BY <1>4, StutterInv
  <1>5. QED  BY <1>1, <1>2, <1>3, <1>4 DEF Next

(* The invariant holds in every state of every behaviour. *)
LEMMA Invariance == Spec => []Inv
PROOF BY InitInv, StepInv, PTL DEF Spec

(* The stores stay in their types, and nothing that is loaded or saved says *)
(* that a session runs (the stripping of `running' on every GET and PUT).   *)
THEOREM TypeCorrect == Spec => []TypeOK
PROOF
  <1>1. Inv => TypeOK
    BY DEF Inv, Typed, Stripped, TypeOK, ServerType, RowType, TimerType, CacheType, OptsType, SlotType
  <1>2. QED  BY <1>1, Invariance, PTL

(* However many devices are paired and however the operator goes from one   *)
(* to the next: as long as no request fails and no device is left before    *)
(* its settings have come, what is stored for a device are its own settings *)
(* (OptionsProvider's cache and persistDeviceIdRef, the rows' timers).      *)
THEOREM OwnIsKept == Spec => []OwnOnceLoaded
PROOF
  <1>1. Inv => OwnOnceLoaded
    BY DEF Inv, OwnEverywhere, OwnRow, OwnOnceLoaded, OwnSettings
  <1>2. QED  BY <1>1, Invariance, PTL

(* Every save goes back to an edit (flushPendingSaveForDevice,              *)
(* queuePersist), and a panel at rest shows what is stored for its device.  *)
THEOREM SavesAreTrue == Spec => []SavesTrue
PROOF
  <1>1. Inv => SavedOnlyAfterEdit
    BY DEF Inv, Edited, SavedOnlyAfterEdit
  <1>2. Inv => ShownIsStored
    <2> SUFFICES ASSUME Inv, NEW d \in Devices, rows[d].loaded, ~timer[d].set, ~Busy(d),
                        d \notin upset, ~failed
                 PROVE  rows[d].set.ctl = server.ctl[d]
      BY DEF ShownIsStored
    <2>1. RowSettled(d)
      BY DEF Inv, Settled
    <2>2. rows[d].load.phase = "none" /\ \A s \in Slots : ~RowSave(s, d)
      BY DEF Busy, Saving, RowSave
    <2>3. QED  BY <2>1, <2>2 DEF RowSettled
  <1>3. Inv => SavesTrue
    BY <1>1, <1>2 DEF SavesTrue
  <1>4. QED  BY <1>3, Invariance, PTL

-----------------------------------------------------------------------------
(***************************************************************************)
(* Live video.  FeedsInv adds to the types what is true of the addresses   *)
(* and the token request (TokensInv), of the device's record               *)
(* (DeviceRules), and of what the operator watches (MotionInv): as long as *)
(* no render is due the last one saw what there is, so that what a pass of *)
(* the effects leaves is put in terms of what that render saw.             *)
(***************************************************************************)

Places == Devices \cup {NoDevice}
FeedsType ==
  [mounted : BOOLEAN, visible : BOOLEAN, preview : BOOLEAN, sources : Nat,
   deadline : BOOLEAN, watch : BOOLEAN, grace : BOOLEAN, prev : Nat, prevKind : Kinds,
   prevFocus : Places, loaded : Nat, mint : Nat, first : Places]
HintType == [session : Nat, kind : Kinds, preview : BOOLEAN]
FlagsType == [notify : BOOLEAN, rehydrate : BOOLEAN, bump : BOOLEAN]
DeviceType ==
  [session : Nat, kind : Kinds, mode : Kinds, scene : BOOLEAN, running : BOOLEAN,
   command : {"idle", "manual", "recorded", "automatic"}]
SeenType ==
  [focus : Places, session : Nat, kind : Kinds, mode : Kinds, scene : BOOLEAN,
   running : BOOLEAN, pending : BOOLEAN, busy : BOOLEAN, hidden : BOOLEAN, signal : Places,
   visible : BOOLEAN, preview : BOOLEAN, sources : Nat, rehydrate : BOOLEAN]
StageType ==
  [f : FeedsType, hint : [Devices -> HintType], flags : FlagsType]
GhostType ==
  [sessions : Nat, acts : Nat, fails : Nat, watched : BOOLEAN, timedOut : BOOLEAN]

FeedsTyped ==
  /\ focus \in Places /\ signal \in Places /\ hidden \in BOOLEAN
  /\ dev \in [Devices -> DeviceType] /\ f \in FeedsType
  /\ hint \in [Devices -> HintType] /\ flags \in FlagsType /\ seen \in SeenType
  /\ ghost \in GhostType

(* A command or a running flag goes with a session of its mode; no session *)
(* is one that there has not been yet.                                     *)
DeviceRules(d) ==
  /\ Pending(dev[d]) => dev[d].mode = "manual" /\ dev[d].kind = "manual"
  /\ dev[d].command = "automatic" => dev[d].mode = "automatic" /\ dev[d].kind = "automatic"
  /\ dev[d].running => /\ dev[d].session # NoSession
                       /\ dev[d].mode = "automatic" /\ dev[d].kind = "automatic"
  /\ dev[d].session <= ghost.sessions /\ hint[d].session <= ghost.sessions

(* The addresses shown are those last loaded, and none without the feeds;  *)
(* a request for tokens, or what it brought, is for the session of the     *)
(* last render.                                                            *)
TokensInv ==
  /\ f.sources = f.loaded
  /\ f.sources # NoSession => f.visible
  /\ f.mint # NoSession => f.mint = seen.session /\ seen.visible
  /\ seen.session # NoSession => ~f.grace
  /\ f.mounted /\ f.visible /\ seen.visible /\ seen.session # NoSession
       => seen.session \in {f.mint, f.loaded}

(* What the last render saw is moving.                                     *)
MovingSeen(r) ==
  /\ r.session # NoSession
  /\ \/ r.kind = "manual" /\ r.pending
     \/ r.kind = "automatic" /\ r.running

(* The operator watches, and has not asked for the feeds to be hidden.     *)
Calm == ghost.watched /\ ~hidden

(* The device in focus has no hint for the session of r.                   *)
Forgotten(r) == hint[focus].session # r.session \/ hint[focus].kind # r.kind

(* What is watched and moved at the last render is shown, without a        *)
(* deadline; what moves by now is shown too, unless the device has no hint *)
(* of its session.                                                         *)
MotionInv ==
  /\ f.mounted => f.prevFocus = seen.focus
  /\ ghost.watched => f.mounted /\ focus = seen.focus
  /\ Calm /\ MovingSeen(seen) => f.visible /\ ~f.deadline
  /\ Calm /\ seen.session # NoSession /\ ~seen.visible => f.visible \/ Forgotten(seen)
  /\ Calm /\ Moving => f.visible \/ Forgotten(Focused)

-----------------------------------------------------------------------------
(* The hook's functions *)

(* A hint is kept or forgotten. *)
HintsKept(s, t) == \A d \in Devices : t.hint[d] = s.hint[d] \/ t.hint[d] = NoHint

(* What no function but the effects on focus and tokens touches. *)
Frame(s, t) ==
  /\ t.f.mounted = s.f.mounted /\ t.f.prevFocus = s.f.prevFocus /\ t.f.mint = s.f.mint

(* The feeds are hidden, with their addresses and their deadline. *)
Hidden(s, t) ==
  /\ ~t.f.visible /\ ~t.f.deadline /\ ~t.f.grace
  /\ t.f.sources = NoSession /\ t.f.loaded = NoSession
  /\ HintsKept(s, t)

(* The addresses and hints are left, and the feeds shown or left. *)
Left(s, t) ==
  /\ t.f.sources = s.f.sources /\ t.f.loaded = s.f.loaded /\ t.hint = s.hint
  /\ s.f.visible => t.f.visible

(* Neither is hidden nor gets a deadline. *)
Steady(s, t) == t.f.visible = s.f.visible /\ t.f.deadline = s.f.deadline
On(t) == t.f.visible /\ ~t.f.deadline

(* Hiding the feeds takes their addresses, their deadline and the grace    *)
(* away.                                                                   *)
LEMMA HideIs ==
  ASSUME NEW s \in StageType
  PROVE  Hide(s) \in StageType /\ Frame(s, Hide(s)) /\ Hidden(s, Hide(s))
<1> DEFINE g == [s.f EXCEPT !.deadline = FALSE, !.watch = FALSE, !.grace = FALSE,
                            !.loaded = NoSession, !.preview = FALSE, !.visible = FALSE,
                            !.sources = NoSession]
           h == IF s.f.first = NoDevice THEN s.hint ELSE [s.hint EXCEPT ![s.f.first] = NoHint]
<1>1. s.f \in FeedsType /\ s.hint \in [Devices -> HintType] /\ s.flags \in FlagsType
  BY DEF StageType
<1>2. Hide(s) = [f |-> g, hint |-> h, flags |-> s.flags]
  BY DEF Hide
<1>3. /\ g \in FeedsType /\ g.mounted = s.f.mounted /\ g.prevFocus = s.f.prevFocus
      /\ g.mint = s.f.mint /\ ~g.visible /\ ~g.deadline /\ ~g.grace
      /\ g.sources = NoSession /\ g.loaded = NoSession
  BY <1>1 DEF FeedsType, NoSession
<1>4. h \in [Devices -> HintType] /\ \A d \in Devices : h[d] = s.hint[d] \/ h[d] = NoHint
  <2>1. NoHint \in HintType
    BY DEF NoHint, HintType, Kinds, NoSession
  <2> QED BY <1>1, <2>1
<1> HIDE DEF g, h
<1> QED BY <1>1, <1>2, <1>3, <1>4 DEF StageType, Frame, Hidden, HintsKept

(* A deadline is taken away, or set, with the feeds left as they are.      *)
LEMMA PauseIs ==
  ASSUME NEW s \in StageType
  PROVE  /\ Pause(s) \in StageType /\ Frame(s, Pause(s)) /\ Left(s, Pause(s))
         /\ Pause(s).f.visible = s.f.visible /\ ~Pause(s).f.deadline
         /\ Pause(s).f.grace = s.f.grace
BY DEF StageType, FeedsType, Pause, Frame, Left

LEMMA ScheduleIs ==
  ASSUME NEW s \in StageType
  PROVE  /\ Schedule(s) \in StageType /\ Frame(s, Schedule(s))
         /\ Left(s, Schedule(s))
         /\ Schedule(s).f.visible = s.f.visible /\ Schedule(s).f.grace = s.f.grace
BY DEF StageType, FeedsType, Schedule, Frame, Left

(* Showing the feeds leaves their addresses and deadline as they are.      *)
LEMMA ShownIs ==
  ASSUME NEW s \in StageType, NEW p \in BOOLEAN
  PROVE  /\ Shown(s, p) \in StageType /\ Frame(s, Shown(s, p))
         /\ Left(s, Shown(s, p))
         /\ Shown(s, p).f.visible /\ Shown(s, p).f.deadline = s.f.deadline
         /\ Shown(s, p).f.grace = s.f.grace
BY DEF StageType, FeedsType, Shown, Frame, Left

-----------------------------------------------------------------------------
(* The effects *)

(* A session that has just changed ends the grace; a session that runs has *)
(* no deadline; only without a session are the feeds hidden.               *)
LEMMA SessionEffectIs ==
  ASSUME NEW s \in StageType, NEW r \in SeenType
  PROVE  LET t == SessionEffect(s, r) IN
         /\ t \in StageType /\ Frame(s, t)
         /\ Left(s, t) \/ (r.session = NoSession /\ Hidden(s, t))
         /\ r.session # NoSession =>
              /\ ~(r.kind = "automatic" /\ r.running) => Steady(s, t)
              /\ IF Changed(r, {"session", "kind", "running", "focus"})
                 THEN /\ ~t.f.grace
                      /\ r.kind = "automatic" /\ r.running => On(t)
                 ELSE flags.bump \/ t = s
         /\ r.session # NoSession /\ flags.bump => 
              ~t.f.grace /\ (r.kind = "automatic" /\ r.running => On(t))
<1> DEFINE p == [s EXCEPT !.f.prev = r.session, !.f.prevKind = r.kind]
           ended == [p EXCEPT !.f.grace = TRUE, !.f.visible = TRUE]
           here == [p EXCEPT !.f.grace = FALSE]
           t == SessionEffect(s, r)
<1>1. r.session \in Nat /\ r.kind \in Kinds
  BY DEF SeenType
<1>2. /\ p \in StageType /\ Frame(s, p) /\ Left(s, p) /\ Steady(s, p)
      /\ p.hint = s.hint
  BY <1>1 DEF StageType, FeedsType, Frame, Left, Steady
<1>3. t = IF ~(Changed(r, {"session", "kind", "running", "focus"}) \/ flags.bump) THEN s
     ELSE IF r.session # NoSession
     THEN IF r.kind = "automatic" /\ r.running THEN Pause(Shown(here, FALSE)) ELSE here
     ELSE IF s.f.prevKind = "automatic" /\ s.f.prev # NoSession THEN Schedule(ended)
     ELSE IF ~s.f.grace /\ s.f.prev # NoSession THEN Hide(p) ELSE p
  BY DEF SessionEffect
<1> HIDE DEF p, t
<1>4. /\ ended \in StageType /\ Frame(p, ended) /\ Left(p, ended)
      /\ here \in StageType /\ Frame(p, here) /\ Left(p, here) /\ Steady(p, here) /\ ~here.f.grace
  BY <1>2 DEF StageType, FeedsType, Frame, Left, Steady
<1> HIDE DEF ended, here
<1>5. Frame(s, s) /\ Left(s, s) /\ Steady(s, s)
  BY DEF Frame, Left, Steady
<1>6. /\ Frame(s, ended) /\ Left(s, ended)
      /\ Frame(s, here) /\ Left(s, here) /\ Steady(s, here)
  BY <1>2, <1>4 DEF Frame, Left, Steady
<1>7. CASE r.session # NoSession
  <2> DEFINE u == Shown(here, FALSE)
  <2>1. /\ u \in StageType /\ Frame(here, u) /\ Left(here, u) /\ u.f.visible
        /\ u.f.grace = here.f.grace
    BY <1>4, ShownIs
  <2> HIDE DEF u
  <2>2. /\ Pause(u) \in StageType /\ Frame(u, Pause(u)) /\ Left(u, Pause(u))
        /\ On(Pause(u)) /\ ~Pause(u).f.grace
    BY <1>4, <2>1, PauseIs DEF On
  <2>3. Frame(s, Pause(u)) /\ Left(s, Pause(u))
    BY <1>6, <2>1, <2>2 DEF Frame, Left
  <2> QED BY <1>3, <1>4, <1>5, <1>6, <1>7, <2>2, <2>3 DEF u, t
<1>8. CASE r.session = NoSession
  <2>1. /\ Schedule(ended) \in StageType /\ Frame(ended, Schedule(ended))
        /\ Left(ended, Schedule(ended))
    BY <1>4, ScheduleIs
  <2>2. Frame(s, Schedule(ended)) /\ Left(s, Schedule(ended))
    BY <1>6, <2>1 DEF Frame, Left
  <2>3. Hide(p) \in StageType /\ Frame(p, Hide(p)) /\ Hidden(p, Hide(p))
    BY <1>2, HideIs
  <2>4. Frame(s, Hide(p)) /\ Hidden(s, Hide(p))
    BY <1>2, <2>3 DEF Frame, Hidden, HintsKept
  <2> QED BY <1>2, <1>3, <1>5, <1>8, <2>1, <2>2, <2>3, <2>4 DEF t
<1> QED BY <1>7, <1>8 DEF t

(* A command that has just begun shows the feeds of a manual session.      *)
LEMMA CommandEffectIs ==
  ASSUME NEW s \in StageType, NEW r \in SeenType
  PROVE  LET t == CommandEffect(s, r) IN
         /\ t \in StageType /\ Frame(s, t) /\ Left(s, t) /\ t.f.grace = s.f.grace
         /\ r.session # NoSession /\ r.kind = "manual" /\ r.pending =>
              IF Changed(r, {"pending", "kind", "session"}) \/ flags.bump THEN On(t)
              ELSE t = s
         /\ r.kind # "manual" => t = s
<1> DEFINE t == CommandEffect(s, r)
           o == Pause(s)
           on == [o EXCEPT !.f.visible = TRUE]
           u == Shown(s, FALSE)
           n == [u EXCEPT !.flags.notify = FALSE]
<1>1. /\ o \in StageType /\ Frame(s, o) /\ Left(s, o) /\ ~o.f.deadline
      /\ o.f.grace = s.f.grace
  BY PauseIs
<1>2. /\ u \in StageType /\ Frame(s, u) /\ Left(s, u)
      /\ u.f.grace = s.f.grace
  BY ShownIs
<1>3. t = IF \/ ~(Changed(r, {"pending", "kind", "session"}) \/ flags.bump)
             \/ r.session = NoSession \/ r.kind # "manual" THEN s
          ELSE IF r.pending THEN on
          ELSE IF s.flags.notify THEN Schedule(n) ELSE s
  BY DEF CommandEffect
<1> HIDE DEF t, o, u
<1>4. /\ on \in StageType /\ Frame(s, on) /\ Left(s, on) /\ On(on) /\ on.f.grace = s.f.grace
  BY <1>1 DEF StageType, FeedsType, Frame, Left, On
<1>5. n \in StageType /\ Frame(s, n) /\ Left(s, n) /\ n.f.grace = s.f.grace
  BY <1>2 DEF StageType, FlagsType, Frame, Left
<1> HIDE DEF on, n
<1>6. /\ Schedule(n) \in StageType /\ Frame(n, Schedule(n))
      /\ Left(n, Schedule(n))
      /\ Schedule(n).f.grace = n.f.grace
  BY <1>5, ScheduleIs
<1>7. Frame(s, Schedule(n)) /\ Left(s, Schedule(n))
  BY <1>5, <1>6 DEF Frame, Left
<1>8. Frame(s, s) /\ Left(s, s)
  BY DEF Frame, Left
<1> QED BY <1>3, <1>4, <1>5, <1>6, <1>7, <1>8 DEF t

(* What writes no other hint than that of the session in focus. *)
HintsOf(s, t, r) ==
  \A d \in Devices : \/ t.hint[d] = s.hint[d]
                     \/ r.visible /\ t.hint[d] \in HintType /\ t.hint[d].session = r.session

(* Only a render that saw the feeds writes a hint, of the session it saw.  *)
LEMMA WriteHintIs ==
  ASSUME NEW s \in StageType, NEW r \in SeenType, r.focus # NoDevice
  PROVE  LET t == WriteHint(s, r) IN
         /\ t \in StageType /\ t.f = s.f /\ t.flags = s.flags /\ HintsOf(s, t, r)
         /\ ~r.visible => t = s
<1> DEFINE t == WriteHint(s, r)
           h == [session |-> r.session, kind |-> r.kind, preview |-> r.preview]
           w == [s EXCEPT !.hint[r.focus] = h]
<1>1. h \in HintType /\ h.session = r.session /\ r.focus \in Devices
  BY DEF HintType, SeenType, Places
<1>2. t = s \/ (r.visible /\ t = w)
  BY DEF WriteHint
<1> HIDE DEF h, t
<1>3. /\ w \in StageType /\ w.f = s.f /\ w.flags = s.flags
      /\ \A d \in Devices : w.hint[d] = s.hint[d] \/ w.hint[d] = h
  BY <1>1 DEF StageType
<1> HIDE DEF w
<1> QED BY <1>1, <1>2, <1>3 DEF HintsOf, t

RestoreKeys == {"running", "visible", "pending", "rehydrate", "kind", "session"}

(* A session with a hint gets its feeds back at the first render that sees *)
(* it; without one, nothing is shown.                                      *)
LEMMA RestoreIs ==
  ASSUME NEW s \in StageType, NEW r \in SeenType, r.focus # NoDevice
  PROVE  LET t == Restore(s, r) 
             matches == s.hint[r.focus].session = r.session /\ s.hint[r.focus].kind = r.kind IN
         /\ t \in StageType /\ Frame(s, t) /\ Left(s, t) /\ t.f.grace = s.f.grace
         /\ r.visible \/ r.session = NoSession => t = s
         /\ r.session # NoSession /\ ~r.visible /\ matches /\ Changed(r, RestoreKeys)
              => t.f.visible
         /\ ~matches =>
              t = s \/ (r.kind = "manual" /\ ~r.pending) \/ On(t)
<1> DEFINE t == Restore(s, r)
           h == s.hint[r.focus]
           matches == h.session = r.session /\ h.kind = r.kind
           again == r.kind = "manual" /\ r.rehydrate /\ s.flags.rehydrate
           p == [s EXCEPT !.flags.rehydrate = @ /\ ~again]
           a == Shown(p, TRUE)
           b == Shown(p, FALSE)
<1>1. p \in StageType /\ Frame(s, p) /\ Left(s, p) /\ p.f.grace = s.f.grace
  BY DEF StageType, FlagsType, Frame, Left
<1>2. t = IF \/ ~Changed(r, RestoreKeys) \/ r.visible \/ r.session = NoSession THEN s
          ELSE IF ~(matches \/ again) THEN s
          ELSE IF matches /\ h.preview THEN Schedule(a)
          ELSE IF (r.kind = "manual" /\ r.pending) \/ r.kind = "automatic" THEN Pause(b)
          ELSE Schedule(b)
  BY DEF Restore, RestoreKeys
<1>3. r.kind \in {"manual", "automatic"}
  BY DEF SeenType, Kinds
<1> HIDE DEF t, p, matches, again
<1>4. ASSUME NEW q \in BOOLEAN
      PROVE  /\ Shown(p, q) \in StageType /\ Frame(s, Shown(p, q))
             /\ Left(s, Shown(p, q))
             /\ Shown(p, q).f.visible /\ Shown(p, q).f.grace = s.f.grace
  BY <1>1, ShownIs DEF Frame, Left
<1>5. /\ a \in StageType /\ Frame(s, a) /\ Left(s, a) /\ a.f.visible /\ a.f.grace = s.f.grace
      /\ b \in StageType /\ Frame(s, b) /\ Left(s, b) /\ b.f.visible /\ b.f.grace = s.f.grace
  BY <1>4
<1> HIDE DEF a, b
<1>6. ASSUME NEW u \in StageType, Frame(s, u), Left(s, u), u.f.visible, u.f.grace = s.f.grace
      PROVE  /\ Schedule(u) \in StageType /\ Frame(s, Schedule(u))
             /\ Left(s, Schedule(u))
             /\ Schedule(u).f.visible /\ Schedule(u).f.grace = s.f.grace
             /\ Pause(u) \in StageType /\ Frame(s, Pause(u)) /\ Left(s, Pause(u))
             /\ On(Pause(u)) /\ Pause(u).f.grace = s.f.grace
  BY <1>6, PauseIs, ScheduleIs DEF Frame, Left, On
<1>7. Frame(s, s) /\ Left(s, s)
  BY DEF Frame, Left
<1>8. t \in StageType /\ Frame(s, t) /\ Left(s, t) /\ t.f.grace = s.f.grace
  BY <1>2, <1>5, <1>6, <1>7
<1>9. r.visible \/ r.session = NoSession => t = s
  BY <1>2
<1>10. r.session # NoSession /\ ~r.visible /\ matches /\ Changed(r, RestoreKeys)
         => t.f.visible
  BY <1>2, <1>5, <1>6 DEF On
<1>11. ~matches => t = s \/ (r.kind = "manual" /\ ~r.pending) \/ On(t)
  BY <1>2, <1>3, <1>5, <1>6
<1> QED BY <1>8, <1>9, <1>10, <1>11 DEF t, matches

(* After this effect, feeds of a session have its addresses or a request   *)
(* for them under way.                                                     *)
LEMMA LoadTokensIs ==
  ASSUME NEW s \in StageType, NEW r \in SeenType
  PROVE  LET t == LoadTokens(s, r) IN
         /\ t \in StageType /\ Left(s, t) /\ Steady(s, t) /\ t.f.grace = s.f.grace
         /\ t.f.mounted = s.f.mounted /\ t.f.prevFocus = s.f.prevFocus
         /\ IF Changed(r, {"visible", "session"})
            THEN /\ t.f.mint # NoSession => t.f.mint = r.session /\ r.visible
                 /\ ~s.f.grace /\ r.visible /\ r.session # NoSession
                      => r.session \in {t.f.mint, t.f.loaded}
            ELSE t = s
<1> DEFINE t == LoadTokens(s, r)
           p == Cancel(s)
           q == [p EXCEPT !.f.mint = r.session]
<1>1. t = IF ~Changed(r, {"visible", "session"}) THEN s
          ELSE IF ~s.f.grace /\ r.visible /\ r.session # NoSession /\ s.f.loaded # r.session
          THEN q ELSE p
  BY DEF LoadTokens
<1>2. /\ p \in StageType /\ Left(s, p) /\ Steady(s, p) /\ p.f.mint = NoSession
      /\ p.f.mounted = s.f.mounted /\ p.f.prevFocus = s.f.prevFocus /\ p.f.grace = s.f.grace
  BY DEF Cancel, StageType, FeedsType, Left, Steady, NoSession
<1> HIDE DEF p, t
<1>3. /\ q \in StageType /\ Left(s, q) /\ Steady(s, q) /\ q.f.mint = r.session
      /\ q.f.mounted = s.f.mounted /\ q.f.prevFocus = s.f.prevFocus /\ q.f.grace = s.f.grace
  BY <1>2 DEF SeenType, StageType, FeedsType, Left, Steady
<1> HIDE DEF q
<1>4. Left(s, s) /\ Steady(s, s)
  BY DEF Left, Steady
<1>5. p.f.loaded = s.f.loaded
  BY <1>2 DEF Left
<1> QED BY <1>1, <1>2, <1>3, <1>4, <1>5 DEF t

(* Feeds are hidden only when the focus has gone to another device,        *)
LEMMA FocusEffectIs ==
  ASSUME NEW s \in StageType, NEW r \in SeenType
  PROVE  LET t == FocusEffect(s, r) IN
         /\ t \in StageType /\ t.f.mounted = s.f.mounted /\ t.f.mint = s.f.mint
         /\ t.f.prevFocus = r.focus /\ (t = s \/ Hidden(s, t))
         /\ s.f.prevFocus = r.focus => t = s
<1> DEFINE p == [s EXCEPT !.f.prevFocus = r.focus]
<1>1. FocusEffect(s, r) = IF s.f.prevFocus = r.focus THEN s ELSE Hide(p)
  BY DEF FocusEffect
<1>2. /\ p \in StageType /\ p.f.mounted = s.f.mounted /\ p.f.mint = s.f.mint
      /\ p.f.prevFocus = r.focus /\ p.hint = s.hint
  BY DEF SeenType, StageType, FeedsType
<1> HIDE DEF p
<1>3. Hide(p) \in StageType /\ Frame(p, Hide(p)) /\ Hidden(p, Hide(p))
  BY <1>2, HideIs
<1>4. Hidden(s, Hide(p))
  BY <1>2, <1>3 DEF Hidden, HintsKept
<1> QED BY <1>1, <1>2, <1>3, <1>4 DEF Frame

(* or when the operator does not want them.                                *)
LEMMA HiddenEffectIs ==
  ASSUME NEW s \in StageType, NEW r \in SeenType
  PROVE  LET t == HiddenEffect(s, r) IN
         /\ t \in StageType /\ Frame(s, t) /\ (t = s \/ Hidden(s, t))
         /\ ~r.hidden => t = s
<1>1. HiddenEffect(s, r) = s \/ (r.hidden /\ HiddenEffect(s, r) = Hide(s))
  BY DEF HiddenEffect
<1>2. Frame(s, s)
  BY DEF Frame
<1> QED BY <1>1, <1>2, HideIs

(* The button shows feeds, and no more, when they can be started.          *)
LEMMA StartPreviewIs ==
  ASSUME NEW s \in StageType, NEW r \in SeenType
  PROVE  LET t == StartPreview(s, r) IN
         /\ t \in StageType /\ Frame(s, t) /\ Left(s, t) /\ t.f.grace = s.f.grace
         /\ ~CanStart(r) => t = s
         /\ t = s \/ t.f.visible
<1> DEFINE u == Shown(s, TRUE)
<1>1. /\ u \in StageType /\ Frame(s, u) /\ Left(s, u) /\ u.f.visible
      /\ u.f.grace = s.f.grace
  BY ShownIs
<1>2. \/ StartPreview(s, r) = s
      \/ CanStart(r) /\ StartPreview(s, r) = Schedule(u)
  BY DEF StartPreview
<1> HIDE DEF u
<1>3. /\ Schedule(u) \in StageType /\ Frame(u, Schedule(u))
      /\ Left(u, Schedule(u))
      /\ Schedule(u).f.visible /\ Schedule(u).f.grace = u.f.grace
  BY <1>1, ScheduleIs
<1>4. /\ Frame(s, s) /\ Left(s, s)
      /\ Frame(s, Schedule(u)) /\ Left(s, Schedule(u))
  BY <1>1, <1>3 DEF Frame, Left
<1> QED BY <1>1, <1>2, <1>3, <1>4

LEMMA ReadyEffectIs ==
  ASSUME NEW s \in StageType, NEW r \in SeenType
  PROVE  LET t == ReadyEffect(s, r) IN
         /\ t \in StageType /\ Frame(s, t) /\ Left(s, t) /\ t.f.grace = s.f.grace
         /\ ~CanStart(r) => t = s
         /\ t = s \/ (t.f.visible /\ ~(r.visible /\ r.sources # NoSession))
<1>1. \/ ReadyEffect(s, r) = s
      \/ /\ CanStart(r) /\ ~(r.visible /\ r.sources # NoSession)
         /\ ReadyEffect(s, r) = StartPreview(s, r)
  BY DEF ReadyEffect
<1>2. Frame(s, s) /\ Left(s, s)
  BY DEF Frame, Left
<1> QED BY <1>1, <1>2, StartPreviewIs

-----------------------------------------------------------------------------
(* One pass of the effects *)

(* What a render sees, by its fields. *)
LEMMA NowIs ==
  ASSUME FeedsTyped
  PROVE  /\ Now \in SeenType
         /\ Now.focus = focus /\ Now.session = Focused.session
         /\ Now.kind = Focused.kind
         /\ Now.mode = Focused.mode /\ Now.running = Focused.running
         /\ Now.pending = Pending(Focused)
         /\ Now.busy = CommandPending(Focused)
         /\ Now.hidden = hidden /\ Now.signal = signal /\ Now.visible = f.visible
         /\ Now.preview = f.preview /\ Now.sources = f.sources
         /\ MovingSeen(Now) = Moving
         /\ focus = NoDevice => Now.session = NoSession
         /\ focus # NoDevice => focus \in Devices /\ Focused = dev[focus]
<1>1. Focused \in DeviceType /\ (focus = NoDevice => Focused.session = NoSession)
  <2>1. Nothing \in DeviceType /\ Nothing.session = NoSession
    BY DEF Nothing, DeviceType, Kinds, NoSession
  <2>2. focus # NoDevice => focus \in Devices
    BY DEF FeedsTyped, Places
  <2> QED BY <2>1, <2>2 DEF Focused, FeedsTyped
<1>2. Pending(Focused) \in BOOLEAN /\ CommandPending(Focused) \in BOOLEAN
  <2>1. ASSUME NEW d PROVE Pending(d) \in BOOLEAN
    BY DEF Pending
  <2>2. ASSUME NEW d PROVE CommandPending(d) \in BOOLEAN
    <3>1. CASE d.mode = "manual"
      BY <2>1, <3>1 DEF CommandPending
    <3>2. CASE d.mode # "manual"
      BY <3>2 DEF CommandPending
    <3> QED BY <3>1, <3>2
  <2> QED BY <2>1, <2>2
<1>3. /\ Focused.session \in Nat /\ Focused.kind \in Kinds
      /\ Focused.mode \in Kinds
      /\ Focused.scene \in BOOLEAN /\ Focused.running \in BOOLEAN
  BY <1>1 DEF DeviceType
<1>4. /\ f.visible \in BOOLEAN /\ f.preview \in BOOLEAN /\ f.sources \in Nat
      /\ flags.rehydrate \in BOOLEAN
  BY DEF FeedsTyped, FeedsType, FlagsType
<1>5. focus # NoDevice => focus \in Devices /\ Focused = dev[focus]
  BY DEF FeedsTyped, Places, Focused
<1> HIDE DEF Focused, Pending, CommandPending
<1>6. Now \in SeenType
  BY <1>2, <1>3, <1>4 DEF Now, SeenType, FeedsTyped
<1>7. /\ Now.focus = focus /\ Now.session = Focused.session
      /\ Now.kind = Focused.kind
      /\ Now.mode = Focused.mode /\ Now.running = Focused.running
      /\ Now.pending = Pending(Focused)
      /\ Now.busy = CommandPending(Focused)
      /\ Now.hidden = hidden /\ Now.signal = signal /\ Now.visible = f.visible
      /\ Now.preview = f.preview /\ Now.sources = f.sources
  BY DEF Now
<1>8. MovingSeen(Now) = Moving
  BY <1>7 DEF MovingSeen, Moving
<1> QED BY <1>1, <1>5, <1>6, <1>7, <1>8

Start(r) ==
  [f |-> [f EXCEPT !.mounted = TRUE,
                   !.first = IF f.mounted THEN @ ELSE r.focus,
                   !.prevFocus = IF f.mounted THEN @ ELSE r.focus],
   hint |-> hint, flags |-> [flags EXCEPT !.bump = FALSE]]
Sessioned(r) == SessionEffect(Start(r), r)
Commanded(r) == CommandEffect(Sessioned(r), r)
Written(r) == WriteHint(Commanded(r), r)
Restored(r) == IF r.focus = NoDevice THEN Commanded(r) ELSE Restore(Written(r), r)
TokensLoaded(r) == LoadTokens(Restored(r), r)
Turned(r) == FocusEffect(TokensLoaded(r), r)
Closed(r) == HiddenEffect(Turned(r), r)

(* The stages of a pass, each named for the effect that it ends with.      *)
LEMMA EffectsAre == ASSUME NEW r PROVE Effects(r) = ReadyEffect(Closed(r), r)
BY DEF Effects, Closed, Turned, TokensLoaded, Restored, Written, Commanded, Sessioned, Start

(* The pass begins with what there is, the focus remembered at the first.  *)
LEMMA StartIs ==
  ASSUME FeedsTyped, NEW r \in SeenType
  PROVE  LET s == Start(r) IN
         /\ s \in StageType /\ s.f.mounted /\ s.hint = hint
         /\ s.f.prevFocus = (IF f.mounted THEN f.prevFocus ELSE r.focus)
         /\ s.f.visible = f.visible /\ s.f.deadline = f.deadline /\ s.f.grace = f.grace
         /\ s.f.sources = f.sources /\ s.f.loaded = f.loaded /\ s.f.mint = f.mint
<1>1. f \in FeedsType /\ r.focus \in Places /\ hint \in [Devices -> HintType]
  BY DEF FeedsTyped, SeenType
<1>2. [flags EXCEPT !.bump = FALSE] \in FlagsType
  BY DEF FeedsTyped, FlagsType
<1> DEFINE g == [f EXCEPT !.mounted = TRUE,
                   !.first = IF f.mounted THEN @ ELSE r.focus,
                   !.prevFocus = IF f.mounted THEN @ ELSE r.focus]
<1>3. /\ g \in FeedsType /\ g.mounted
      /\ g.prevFocus = (IF f.mounted THEN f.prevFocus ELSE r.focus)
      /\ g.visible = f.visible /\ g.deadline = f.deadline /\ g.grace = f.grace
      /\ g.sources = f.sources /\ g.loaded = f.loaded /\ g.mint = f.mint
  BY <1>1 DEF FeedsType
<1>4. Start(r) = [f |-> g, hint |-> hint, flags |-> [flags EXCEPT !.bump = FALSE]]
  BY DEF Start
<1> HIDE DEF g
<1> QED BY <1>1, <1>2, <1>3, <1>4 DEF StageType

(* The addresses are those last loaded, and held only while the feeds are shown. *)
Sourced(s) == s.f.sources = s.f.loaded /\ (s.f.sources # NoSession => s.f.visible)
HintsUpTo(s, n) == \A d \in Devices : s.hint[d].session <= n

(* Feeds without addresses of their own have none after hiding either.     *)
LEMMA SourcedKept ==
  ASSUME NEW s \in StageType, NEW t, Sourced(s), Left(s, t) \/ Hidden(s, t)
  PROVE  Sourced(t)
BY DEF Sourced, Left, Hidden

(* No hint is of a session that there has not been yet.                    *)
LEMMA HintsStay ==
  ASSUME NEW s, NEW t, NEW n \in Nat, HintsUpTo(s, n), Left(s, t) \/ Hidden(s, t)
  PROVE  HintsUpTo(t, n)
<1>1. NoHint.session <= n
  BY DEF NoHint, NoSession
<1> QED BY <1>1 DEF HintsUpTo, Left, Hidden, HintsKept

(* Until the tokens are loaded: nothing has hidden the feeds of a session. *)
LEMMA RestoredIs ==
  ASSUME FeedsTyped, TokensInv, NEW r \in SeenType, NEW n \in Nat,
         \A d \in Devices : hint[d].session <= n, r.session <= n
  PROVE  LET t == Restored(r) IN
         /\ t \in StageType /\ Frame(Start(r), t) /\ Sourced(t) /\ HintsUpTo(t, n)
         /\ r.session # NoSession =>
              t.f.loaded = f.loaded /\ ~t.f.grace /\ (f.visible => t.f.visible)
<1> DEFINE s == Start(r)  a == Sessioned(r)  b == Commanded(r)  w == Written(r)
           t == Restored(r)
<1>1. /\ s \in StageType /\ s.f.visible = f.visible /\ s.f.loaded = f.loaded
      /\ s.f.grace = f.grace /\ Sourced(s) /\ HintsUpTo(s, n)
  BY StartIs DEF Sourced, HintsUpTo, TokensInv
<1>2. /\ a \in StageType /\ Frame(s, a)
      /\ Left(s, a) \/ (r.session = NoSession /\ Hidden(s, a))
      /\ r.session # NoSession =>
           IF Changed(r, {"session", "kind", "running", "focus"}) \/ flags.bump
           THEN ~a.f.grace ELSE a = s
  BY <1>1, SessionEffectIs DEF Sessioned
<1>3. b \in StageType /\ Frame(a, b) /\ Left(a, b) /\ b.f.grace = a.f.grace
  BY <1>2, CommandEffectIs DEF Commanded
<1>4. r.session # NoSession => ~a.f.grace
  <2>1. ~Changed(r, {"session", "kind", "running", "focus"}) => seen.session = r.session
    BY DEF Changed
  <2> QED BY <1>1, <1>2, <2>1 DEF TokensInv
<1>5. Sourced(b) /\ HintsUpTo(b, n)
  BY <1>1, <1>2, <1>3, SourcedKept, HintsStay
<1>6. ASSUME r.focus # NoDevice
      PROVE  /\ t \in StageType /\ Frame(b, t) /\ Sourced(t) /\ HintsUpTo(t, n)
             /\ t.f.loaded = b.f.loaded /\ t.f.grace = b.f.grace
             /\ b.f.visible => t.f.visible
  <2>1. w \in StageType /\ w.f = b.f /\ HintsOf(b, w, r)
    BY <1>3, <1>6, WriteHintIs DEF Written
  <2>2. Sourced(w) /\ HintsUpTo(w, n)
    BY <1>5, <2>1 DEF Sourced, HintsUpTo, HintsOf
  <2>3. t \in StageType /\ Frame(w, t) /\ Left(w, t) /\ t.f.grace = w.f.grace
    BY <1>6, <2>1, RestoreIs DEF Restored
  <2>4. Sourced(t) /\ HintsUpTo(t, n)
    BY <2>1, <2>2, <2>3, SourcedKept, HintsStay
  <2> QED BY <2>1, <2>3, <2>4 DEF Frame, Left
<1>7. r.focus = NoDevice => t = b
  BY DEF Restored
<1> HIDE DEF s, a, b, w, t
<1>8. r.session # NoSession =>
        b.f.loaded = f.loaded /\ ~b.f.grace /\ (f.visible => b.f.visible)
  BY <1>1, <1>2, <1>3, <1>4 DEF Left
<1>9. Frame(s, b)
  BY <1>2, <1>3 DEF Frame
<1>10. Frame(s, t)
  BY <1>6, <1>7, <1>9 DEF Frame
<1> QED BY <1>3, <1>5, <1>6, <1>7, <1>8, <1>10 DEF s, t

(* Every effect keeps the addresses those of the tokens asked for. *)
LEMMA EffectsKeepTokens ==
  ASSUME FeedsTyped, TokensInv, NEW r, r = Now, NEW n \in Nat,
         \A d \in Devices : hint[d].session <= n, r.session <= n
  PROVE  LET t == Effects(r) IN
         /\ t \in StageType /\ t.f.mounted /\ t.f.prevFocus = r.focus
         /\ Sourced(t) /\ HintsUpTo(t, n)
         /\ t.f.mint # NoSession => t.f.mint = r.session /\ r.visible
         /\ r.session # NoSession => ~t.f.grace
         /\ t.f.visible /\ r.visible /\ r.session # NoSession
              => r.session \in {t.f.mint, t.f.loaded}
<1> DEFINE b == Restored(r)  c == TokensLoaded(r)  g == Turned(r)  h == Closed(r)
           t == Effects(r)
<1>1. /\ r \in SeenType /\ r.visible = f.visible /\ r.sources = f.sources
      /\ r.session \in Nat
  BY NowIs DEF SeenType
<1>2. /\ b \in StageType /\ b.f.mounted /\ b.f.mint = f.mint
      /\ Sourced(b) /\ HintsUpTo(b, n)
      /\ r.session # NoSession => b.f.loaded = f.loaded /\ ~b.f.grace
  BY <1>1, RestoredIs, StartIs DEF Frame
<1>3. /\ c \in StageType /\ Left(b, c) /\ c.f.mounted
      /\ c.f.grace = b.f.grace
      /\ IF Changed(r, {"visible", "session"})
         THEN /\ c.f.mint # NoSession => c.f.mint = r.session /\ r.visible
              /\ ~b.f.grace /\ r.visible /\ r.session # NoSession
                   => r.session \in {c.f.mint, c.f.loaded}
         ELSE c = b
  BY <1>1, <1>2, LoadTokensIs DEF TokensLoaded
<1>4. ~Changed(r, {"visible", "session"}) =>
        f.mounted /\ seen.visible = r.visible /\ seen.session = r.session
  BY DEF Changed
<1>5. /\ g \in StageType /\ g.f.mounted /\ g.f.mint = c.f.mint /\ g.f.prevFocus = r.focus
      /\ g = c \/ Hidden(c, g)
  BY <1>1, <1>3, FocusEffectIs DEF Turned
<1>6. h \in StageType /\ Frame(g, h) /\ (h = g \/ Hidden(g, h))
  BY <1>1, <1>5, HiddenEffectIs DEF Closed
<1>7. /\ t \in StageType /\ Frame(h, t) /\ Left(h, t) /\ t.f.grace = h.f.grace
      /\ t = h \/ (t.f.visible /\ ~(r.visible /\ r.sources # NoSession))
  BY <1>1, <1>6, ReadyEffectIs, EffectsAre
<1> HIDE DEF b, c, g, h, t
<1>8. c.f.mint # NoSession => c.f.mint = r.session /\ r.visible
  BY <1>2, <1>3, <1>4 DEF TokensInv
<1>9. r.session # NoSession => ~c.f.grace
  BY <1>2, <1>3
<1>10. r.visible /\ r.session # NoSession => r.session \in {c.f.mint, c.f.loaded}
  BY <1>1, <1>2, <1>3, <1>4 DEF TokensInv
<1>11. Sourced(c) /\ HintsUpTo(c, n)
  BY <1>2, <1>3, SourcedKept, HintsStay
<1>12. Sourced(g) /\ HintsUpTo(g, n)
  BY <1>3, <1>5, <1>11, SourcedKept, HintsStay
<1>13. Sourced(h) /\ HintsUpTo(h, n)
  BY <1>5, <1>6, <1>12, SourcedKept, HintsStay
<1>14. Sourced(t) /\ HintsUpTo(t, n)
  BY <1>6, <1>7, <1>13, SourcedKept, HintsStay
<1>15. t.f.mint = c.f.mint /\ t.f.mounted /\ t.f.prevFocus = r.focus
  BY <1>5, <1>6, <1>7 DEF Frame
<1>16. r.session # NoSession => ~t.f.grace
  BY <1>5, <1>6, <1>7, <1>9 DEF Hidden

(* What the focus or the option has hidden is shown again only when it had
   no addresses, so that its tokens are still under way. *)
<1>17. ASSUME t.f.visible, r.visible, r.session # NoSession
       PROVE  r.session \in {t.f.mint, t.f.loaded}
  <2>1. CASE h = c
    BY <1>7, <1>10, <1>15, <1>17, <2>1 DEF Left
  <2>2. CASE h # c
    <3>1. ~h.f.visible
      BY <1>5, <1>6, <2>2 DEF Hidden
    <3>2. f.sources = NoSession
      BY <1>1, <1>7, <1>17, <3>1
    <3>3. c.f.loaded = NoSession
      BY <1>2, <1>3, <1>17, <3>2 DEF TokensInv, Left
    <3> QED BY <1>10, <1>15, <1>17, <3>3
  <2> QED BY <2>1, <2>2
<1> QED BY <1>7, <1>8, <1>14, <1>15, <1>16, <1>17 DEF t

(* While the device of a watched command moves, no effect hides the feeds or
   gives them a deadline. *)
LEMMA EffectsKeepFeeds ==
  ASSUME FeedsTyped, TokensInv, MotionInv, Calm, NEW r, r = Now,
         focus # NoDevice => DeviceRules(focus), r.session # NoSession
  PROVE  LET t == Effects(r) IN
         /\ Moving => On(t)
         /\ ~r.visible => t.f.visible \/ t.hint[focus].session # r.session
                                      \/ t.hint[focus].kind # r.kind
<1> DEFINE s == Start(r)  a == Sessioned(r)  b == Commanded(r)  w == Written(r)
           c == Restored(r)  g == TokensLoaded(r)  t == Effects(r)
<1>1. /\ r \in SeenType /\ r.visible = f.visible /\ ~r.hidden /\ r.focus = focus
      /\ focus \in Devices /\ focus # NoDevice /\ Focused = dev[focus]
      /\ r.session = Focused.session /\ r.kind = Focused.kind
      /\ r.mode = Focused.mode /\ r.running = Focused.running
      /\ r.pending = Pending(Focused) /\ r.busy = CommandPending(Focused)
      /\ MovingSeen(r) = Moving
  BY NowIs DEF Calm
<1>2. f.mounted /\ f.prevFocus = r.focus
  BY <1>1 DEF Calm, MotionInv
<1>3. /\ s \in StageType /\ s.hint = hint /\ s.f.prevFocus = r.focus
      /\ s.f.visible = f.visible /\ s.f.deadline = f.deadline
  BY <1>1, <1>2, StartIs
<1>4. /\ a \in StageType /\ Frame(s, a) /\ Left(s, a)
      /\ ~(r.kind = "automatic" /\ r.running) => Steady(s, a)
      /\ r.kind = "automatic" /\ r.running =>
           IF Changed(r, {"session", "kind", "running", "focus"}) \/ flags.bump
           THEN On(a) ELSE a = s
  BY <1>1, <1>3, SessionEffectIs DEF Sessioned
<1>5. /\ b \in StageType /\ Frame(a, b) /\ Left(a, b)
      /\ r.kind = "manual" /\ r.pending =>
              IF Changed(r, {"pending", "kind", "session"}) \/ flags.bump THEN On(b)
              ELSE b = a
      /\ r.kind # "manual" => b = a
  BY <1>1, <1>4, CommandEffectIs DEF Commanded
<1>6. w \in StageType /\ w.f = b.f /\ (~r.visible => w.hint = b.hint)
  BY <1>1, <1>5, WriteHintIs DEF Written
<1>7. /\ c \in StageType /\ Frame(w, c) /\ Left(w, c)
      /\ r.visible => c = w
      /\ LET matches == w.hint[r.focus].session = r.session /\ w.hint[r.focus].kind = r.kind IN
         /\ ~r.visible /\ matches /\ Changed(r, RestoreKeys) => c.f.visible
         /\ ~matches => c = w \/ (r.kind = "manual" /\ ~r.pending) \/ On(c)
  BY <1>1, <1>6, RestoreIs DEF Restored
<1>8. g \in StageType /\ Left(c, g) /\ Steady(c, g) /\ g.f.prevFocus = c.f.prevFocus
  BY <1>1, <1>7, LoadTokensIs DEF TokensLoaded
<1>9. Turned(r) = g
  <2>1. g.f.prevFocus = r.focus
    BY <1>3, <1>4, <1>5, <1>6, <1>7, <1>8 DEF Frame
  <2> QED BY <1>1, <1>8, <2>1, FocusEffectIs DEF Turned
<1>10. Closed(r) = g
  BY <1>1, <1>8, <1>9, HiddenEffectIs DEF Closed
<1>11. t \in StageType /\ Left(g, t) /\ (~CanStart(r) => t = g)
  BY <1>1, <1>8, <1>10, ReadyEffectIs, EffectsAre
<1>12. hint = s.hint /\ s.hint = a.hint /\ a.hint = b.hint /\ w.hint = c.hint
       /\ c.hint = g.hint /\ g.hint = t.hint
  BY <1>3, <1>4, <1>5, <1>7, <1>8, <1>11 DEF Left
<1> HIDE DEF s, a, b, w, c, g, t
<1>13. ASSUME Moving PROVE On(t)
  <2>1. ~CanStart(r)
    <3>1. DeviceRules(focus)
      BY <1>1
    <3> QED BY <1>1, <1>13, <3>1 DEF CanStart, Moving, DeviceRules, Pending,
                                     CommandPending
  <2>2. MovingSeen(r)
    BY <1>1, <1>13
  <2>3. r.kind = "automatic" /\ r.running => On(b)
    <3> SUFFICES ASSUME r.kind = "automatic" /\ r.running PROVE On(b)
      OBVIOUS
    <3>1. ~Changed(r, {"session", "kind", "running", "focus"}) => MovingSeen(seen)
      BY <2>2 DEF Changed, MovingSeen
    <3>2. a = s => ~Changed(r, {"session", "kind", "running", "focus"}) \/ On(a)
      BY <1>4
    <3>3. MovingSeen(seen) => On(s)
      BY <1>3 DEF MotionInv, On
    <3> QED BY <1>4, <1>5, <3>1, <3>2, <3>3 DEF On
  <2>4. r.kind = "manual" /\ r.pending => On(b)
    <3> SUFFICES ASSUME r.kind = "manual" /\ r.pending PROVE On(b)
      OBVIOUS
    <3>1. ~Changed(r, {"pending", "kind", "session"}) => MovingSeen(seen)
      BY <2>2 DEF Changed, MovingSeen
    <3>2. MovingSeen(seen) => On(s)
      BY <1>3 DEF MotionInv, On
    <3>3. Steady(s, a)
      BY <1>4
    <3> QED BY <1>5, <3>1, <3>2, <3>3 DEF On, Steady
  <2>5. On(b)
    BY <2>2, <2>3, <2>4 DEF MovingSeen
  <2>6. On(w)
    BY <1>6, <2>5 DEF On
  <2>7. On(c)
    <3>1. CASE r.visible
      BY <1>7, <2>6, <3>1
    <3>2. CASE ~r.visible
      <4>1. Forgotten(r)
        BY <1>1, <1>13, <3>2 DEF MotionInv, Forgotten
      <4>2. ~(w.hint[r.focus].session = r.session /\ w.hint[r.focus].kind = r.kind)
        BY <1>1, <1>6, <1>12, <3>2, <4>1 DEF Forgotten
      <4> QED BY <1>7, <2>2, <2>6, <4>2 DEF MovingSeen
    <3> QED BY <3>1, <3>2
  <2> QED BY <1>8, <1>11, <2>1, <2>7 DEF On, Steady
<1>14. ASSUME ~r.visible
       PROVE  t.f.visible \/ t.hint[focus].session # r.session \/ t.hint[focus].kind # r.kind
  <2>1. t.hint = hint /\ w.hint = hint
    BY <1>6, <1>12, <1>14
  <2>2. CASE Changed(r, RestoreKeys)
    BY <1>1, <1>7, <1>8, <1>11, <1>14, <2>1, <2>2 DEF Left
  <2>3. CASE ~Changed(r, RestoreKeys)
    <3>1. ~seen.visible /\ seen.session = r.session /\ seen.kind = r.kind
      BY <1>14, <2>3 DEF Changed, RestoreKeys
    <3>2. Forgotten(seen)
      BY <1>1, <1>14, <3>1 DEF MotionInv
    <3> QED BY <2>1, <3>1, <3>2 DEF Forgotten
  <2> QED BY <2>2, <2>3
<1> QED BY <1>13, <1>14 DEF t

-----------------------------------------------------------------------------
(* The steps *)

AllRules == \A d \in Devices : DeviceRules(d)
FeedsInv == FeedsTyped /\ TokensInv /\ MotionInv /\ AllRules

LEMMA InitFeeds == FeedsInit => FeedsInv
<1> SUFFICES ASSUME FeedsInit PROVE FeedsInv
  OBVIOUS
<1>1. /\ Nothing \in DeviceType /\ Unmounted \in FeedsType /\ NoHint \in HintType
      /\ flags \in FlagsType
  BY DEF FeedsInit, Nothing, DeviceType, Kinds, NoSession, Unmounted,
         FeedsType, Places,
         NoHint, HintType, FlagsType
<1>2. /\ focus \in Places /\ signal \in Places /\ hidden \in BOOLEAN
      /\ dev \in [Devices -> DeviceType] /\ f \in FeedsType
      /\ hint \in [Devices -> HintType] /\ flags \in FlagsType
      /\ ghost \in GhostType
  BY <1>1 DEF FeedsInit, Places, GhostType
<1>3. seen \in SeenType /\ seen.session = NoSession
  <2>1. Focused = Nothing
    BY DEF FeedsInit, Focused
  <2>2. Pending(Nothing) = FALSE /\ CommandPending(Nothing) = FALSE
    BY DEF Pending, CommandPending, Nothing
  <2> QED BY <1>1, <1>2, <2>1, <2>2
          DEF FeedsInit, Now, SeenType, Nothing, FeedsType, FlagsType, DeviceType
<1>4. FeedsTyped
  BY <1>2, <1>3 DEF FeedsTyped
<1>5. TokensInv
  BY <1>3 DEF FeedsInit, TokensInv, Unmounted
<1>6. MotionInv
  BY DEF FeedsInit, MotionInv, Calm, Unmounted
<1>7. AllRules
  <2>1. ASSUME NEW d \in Devices PROVE DeviceRules(d)
    <3>1. dev[d] = Nothing /\ hint[d] = NoHint /\ ghost.sessions = 0
      BY DEF FeedsInit
    <3> QED BY <3>1 DEF DeviceRules, Nothing, NoHint, Pending, NoSession
  <2> QED BY <2>1 DEF AllRules
<1> QED BY <1>4, <1>5, <1>6, <1>7 DEF FeedsInv

(* Without a render due, the last one saw what there is.                   *)
LEMMA NotDue ==
  ASSUME ~Due
  PROVE  f.mounted /\ Now = seen
BY DEF Due

(* A render, with all its effects.                                         *)
LEMMA RenderStep ==
  ASSUME FeedsInv, Render
  PROVE  FeedsInv'
<1> PICK r \in {Now} : \E t \in {Effects(r)} :
           seen' = r /\ f' = t.f /\ hint' = t.hint /\ flags' = t.flags
  BY DEF Render
<1> DEFINE t == Effects(r)
<1>1. /\ seen' = r /\ f' = t.f /\ hint' = t.hint /\ flags' = t.flags
      /\ UNCHANGED <<focus, dev, hidden, signal, ghost>> /\ r = Now
  BY DEF Render
<1>2. /\ FeedsTyped /\ TokensInv /\ MotionInv /\ AllRules
      /\ ghost.sessions \in Nat
  BY DEF FeedsInv, FeedsTyped, GhostType
<1>3. /\ r \in SeenType /\ r.visible = f.visible /\ r.focus = focus
      /\ r.session = Focused.session /\ r.kind = Focused.kind
      /\ MovingSeen(r) = Moving
      /\ focus = NoDevice => r.session = NoSession
      /\ focus # NoDevice => focus \in Devices /\ Focused = dev[focus]
  BY <1>1, <1>2, NowIs
<1>4. /\ \A d \in Devices : hint[d].session <= ghost.sessions
      /\ r.session <= ghost.sessions
  <2>1. \A d \in Devices : DeviceRules(d)
    BY <1>2 DEF AllRules
  <2>2. \A d \in Devices : hint[d].session <= ghost.sessions /\ dev[d].session <= ghost.sessions
    BY <2>1 DEF DeviceRules
  <2> QED BY <1>2, <1>3, <2>2 DEF NoSession
<1>5. /\ t \in StageType /\ t.f.mounted /\ t.f.prevFocus = r.focus
      /\ Sourced(t) /\ HintsUpTo(t, ghost.sessions)
      /\ t.f.mint # NoSession => t.f.mint = r.session /\ r.visible
      /\ r.session # NoSession => ~t.f.grace
      /\ t.f.visible /\ r.visible /\ r.session # NoSession
           => r.session \in {t.f.mint, t.f.loaded}
  BY <1>1, <1>2, <1>4, EffectsKeepTokens
<1>6. Calm /\ r.session # NoSession =>
         /\ Moving => On(t)
         /\ ~r.visible => t.f.visible \/ t.hint[focus].session # r.session
                                      \/ t.hint[focus].kind # r.kind
  BY <1>1, <1>2, <1>3, EffectsKeepFeeds DEF AllRules
<1> HIDE DEF t
<1>7. FeedsTyped'
  BY <1>1, <1>2, <1>3, <1>5 DEF FeedsTyped, StageType
<1>8. TokensInv'
  BY <1>1, <1>5 DEF TokensInv, Sourced
<1>9. Focused' = Focused /\ Moving' = Moving /\ Calm' = Calm
  BY <1>1 DEF Focused, Moving, Calm
<1>10. MotionInv'
  <2>1. f'.mounted /\ f'.prevFocus = seen'.focus /\ focus' = seen'.focus
    BY <1>1, <1>3, <1>5
  <2>2. Calm' /\ MovingSeen(seen)' => f'.visible /\ ~f'.deadline
    <3>1. MovingSeen(seen)' = MovingSeen(r)
      BY <1>1 DEF MovingSeen
    <3> QED BY <1>1, <1>3, <1>6, <1>9, <3>1 DEF On, MovingSeen
  <2>3. Calm' /\ seen'.session # NoSession /\ ~seen'.visible => f'.visible \/ Forgotten(seen)'
    BY <1>1, <1>6, <1>9 DEF Forgotten
  <2>4. Calm' /\ Moving' => f'.visible
    BY <1>1, <1>3, <1>6, <1>9 DEF On, Moving
  <2> QED BY <2>1, <2>2, <2>3, <2>4 DEF MotionInv
<1>11. AllRules'
  BY <1>1, <1>2, <1>5 DEF AllRules, DeviceRules, HintsUpTo
<1> QED BY <1>7, <1>8, <1>10, <1>11 DEF FeedsInv

(* What is hidden stays hidden but for a hint that forgets it. *)
LEMMA HideThis ==
  ASSUME FeedsInv, NEW s \in StageType, s.f.mounted = f.mounted, 
         s.f.prevFocus = f.prevFocus, s.hint = hint, s.f.mint \in {f.mint, NoSession},
         Becomes(Hide(s))
  PROVE  /\ f' \in FeedsType /\ hint' \in [Devices -> HintType] /\ flags' \in FlagsType
         /\ f'.mounted = f.mounted /\ f'.prevFocus = f.prevFocus
         /\ ~f'.visible /\ ~f'.grace /\ f'.sources = NoSession /\ f'.loaded = NoSession
         /\ f'.mint \in {f.mint, NoSession}
         /\ \A d \in Devices : hint'[d] = hint[d] \/ hint'[d].session = NoSession
<1>1. Hide(s) \in StageType /\ Frame(s, Hide(s)) /\ Hidden(s, Hide(s))
  BY HideIs
<1>2. f' = Hide(s).f /\ hint' = Hide(s).hint /\ flags' = Hide(s).flags
  BY DEF Becomes
<1>3. NoHint.session = NoSession
  BY DEF NoHint
<1> QED BY <1>1, <1>2, <1>3 DEF StageType, Frame, Hidden, HintsKept

(* Only the hiding at a deadline uses the first device seen.               *)
LEMMA ThisIs ==
  ASSUME FeedsInv
  PROVE  /\ This \in StageType /\ This.f = f /\ This.hint = hint
         /\ This.flags = flags
         /\ Cancel(This) \in StageType /\ Cancel(This).hint = hint
         /\ Cancel(This).f.mounted = f.mounted
         /\ Cancel(This).f.prevFocus = f.prevFocus
         /\ Cancel(This).f.mint = NoSession
<1>1. This \in StageType /\ This.f = f /\ This.hint = hint /\ This.flags = flags
  BY DEF This, FeedsInv, FeedsTyped, StageType
<1> HIDE DEF This
<1> QED BY <1>1 DEF Cancel, StageType, FeedsType, NoSession

LEMMA DeadlineStep ==
  ASSUME FeedsInv, Deadline
  PROVE  FeedsInv'
<1>1. /\ FeedsTyped /\ TokensInv /\ MotionInv /\ AllRules /\ f.mounted /\ Now = seen
      /\ f.deadline
      /\ UNCHANGED <<focus, dev, hidden, signal, seen>> /\ Becomes(Hide(This))
      /\ ghost' = [ghost EXCEPT !.timedOut = TRUE]
  BY NotDue DEF FeedsInv, Deadline
<1>2. /\ f' \in FeedsType /\ hint' \in [Devices -> HintType] /\ flags' \in FlagsType
      /\ f'.mounted = f.mounted /\ f'.prevFocus = f.prevFocus
      /\ ~f'.visible /\ ~f'.grace /\ f'.sources = NoSession /\ f'.loaded = NoSession
      /\ f'.mint \in {f.mint, NoSession}
      /\ \A d \in Devices : hint'[d] = hint[d] \/ hint'[d].session = NoSession
  BY <1>1, ThisIs, HideThis
<1>3. /\ ghost' \in GhostType
      /\ ghost'.watched = ghost.watched /\ ghost'.sessions = ghost.sessions
      /\ ghost.sessions \in Nat
  BY <1>1 DEF FeedsTyped, GhostType
<1>4. FeedsTyped'
  BY <1>1, <1>2, <1>3 DEF FeedsTyped
<1>5. TokensInv'
  BY <1>1, <1>2 DEF TokensInv
<1>6. AllRules'
  BY <1>1, <1>2, <1>3 DEF AllRules, DeviceRules, NoSession
<1>7. MotionInv'
  <2>1. Calm' = Calm /\ MovingSeen(seen)' = MovingSeen(seen) /\ Moving' = Moving
    BY <1>1, <1>3 DEF Calm, MovingSeen, Moving, Focused
  <2>2. MovingSeen(seen) = Moving /\ seen.visible = f.visible
        /\ (seen.session # NoSession => focus \in Devices)
    BY <1>1, NowIs
  <2>3. ~(Calm /\ MovingSeen(seen))
    BY <1>1 DEF MotionInv
  <2>4. Calm' /\ seen'.session # NoSession /\ ~seen'.visible => f'.visible \/ Forgotten(seen)'
    <3>1. Calm /\ seen.session # NoSession /\ ~seen.visible => Forgotten(seen)
      BY <1>1, <2>2 DEF MotionInv
    <3> QED BY <1>1, <1>2, <2>1, <2>2, <3>1 DEF Forgotten
  <2> QED BY <1>1, <1>2, <1>3, <2>1, <2>2, <2>3, <2>4 DEF MotionInv
<1> QED BY <1>4, <1>5, <1>6, <1>7 DEF FeedsInv

LEMMA MintedStep ==
  ASSUME FeedsInv, Minted
  PROVE  FeedsInv'
<1>1. /\ FeedsTyped /\ TokensInv /\ MotionInv /\ AllRules /\ f.mounted /\ Now = seen
      /\ f.mint # NoSession
      /\ f' = [f EXCEPT !.loaded = f.mint, !.sources = f.mint, !.mint = NoSession]
      /\ UNCHANGED <<focus, dev, hidden, signal, hint, flags, seen, ghost>>
  BY NotDue DEF FeedsInv, Minted
<1>2. /\ f' \in FeedsType /\ f'.mounted = f.mounted /\ f'.prevFocus = f.prevFocus
      /\ f'.visible = f.visible /\ f'.deadline = f.deadline /\ f'.grace = f.grace
      /\ f'.sources = f.mint /\ f'.loaded = f.mint /\ f'.mint = NoSession
  BY <1>1 DEF FeedsTyped, FeedsType, NoSession
<1>3. seen.visible = f.visible
  BY <1>1, NowIs
<1>4. TokensInv'
  BY <1>1, <1>2, <1>3 DEF TokensInv
<1>5. FeedsTyped' /\ AllRules'
  BY <1>1, <1>2 DEF FeedsTyped, AllRules, DeviceRules
<1>6. MotionInv'
  BY <1>1, <1>2 DEF MotionInv, Calm, MovingSeen, Moving, Focused, Forgotten
<1> QED BY <1>4, <1>5, <1>6 DEF FeedsInv

LEMMA MintFailsStep ==
  ASSUME FeedsInv, MintFails
  PROVE  FeedsInv'
<1>1. /\ FeedsTyped /\ TokensInv /\ MotionInv /\ AllRules /\ f.mounted /\ Now = seen
      /\ UNCHANGED <<focus, dev, hidden, signal, seen>>
      /\ Becomes(Hide(Cancel(This)))
      /\ ghost' = [ghost EXCEPT !.watched = FALSE,
                            !.fails = IF Known(f.mint) THEN @ + 1 ELSE @]
  BY NotDue DEF FeedsInv, MintFails
<1>2. /\ f' \in FeedsType /\ hint' \in [Devices -> HintType] /\ flags' \in FlagsType
      /\ f'.mounted = f.mounted /\ f'.prevFocus = f.prevFocus
      /\ ~f'.visible /\ ~f'.grace /\ f'.sources = NoSession /\ f'.loaded = NoSession
      /\ f'.mint \in {f.mint, NoSession}
      /\ \A d \in Devices : hint'[d] = hint[d] \/ hint'[d].session = NoSession
  BY <1>1, ThisIs, HideThis
<1>3. /\ ghost' \in GhostType
      /\ ~ghost'.watched /\ ghost'.sessions = ghost.sessions /\ ghost.sessions \in Nat
  <2> DEFINE n == IF Known(f.mint) THEN ghost.fails + 1 ELSE ghost.fails
  <2>1. ghost' = [ghost EXCEPT !.watched = FALSE, !.fails = n]
    BY <1>1
  <2>2. n \in Nat
    BY <1>1 DEF FeedsTyped, GhostType
  <2> HIDE DEF n
  <2> QED BY <1>1, <2>1, <2>2 DEF FeedsTyped, GhostType
<1>4. FeedsTyped'
  BY <1>1, <1>2, <1>3 DEF FeedsTyped
<1>5. TokensInv'
  BY <1>1, <1>2 DEF TokensInv
<1>6. AllRules'
  BY <1>1, <1>2, <1>3 DEF AllRules, DeviceRules, NoSession
<1>7. MotionInv'
  BY <1>1, <1>2, <1>3 DEF MotionInv, Calm
<1> QED BY <1>4, <1>5, <1>6, <1>7 DEF FeedsInv

(* The steps of the rest of the page leave the hook alone, or what it holds. *)

(* An act of the operator counts, and watches what it begins.              *)
LEMMA ActsAre ==
  ASSUME FeedsInv, NEW watched \in BOOLEAN, Acts(watched)
  PROVE  /\ ~Due /\ ghost' \in GhostType
         /\ ghost'.sessions = ghost.sessions /\ ghost'.watched = watched
<1>1. ~Due /\ ghost' = [ghost EXCEPT !.acts = @ + 1, !.timedOut = FALSE, !.watched = watched]
  BY DEF Acts
<1> DEFINE n == ghost.acts + 1
<1>2. ghost \in GhostType /\ n \in Nat
  BY DEF FeedsInv, FeedsTyped, GhostType
<1>3. ghost' = [ghost EXCEPT !.acts = n, !.timedOut = FALSE, !.watched = watched]
  BY <1>1
<1> HIDE DEF n
<1> QED BY <1>1, <1>2, <1>3 DEF GhostType

LEMMA FocusStep ==
  ASSUME FeedsInv, NEW d \in Devices, Focus(d)
  PROVE  FeedsInv'
<1>1. /\ FeedsTyped /\ TokensInv /\ MotionInv /\ AllRules /\ focus' = d
      /\ UNCHANGED <<dev, hidden, signal, f, hint, flags, seen>>
      /\ ~ghost'.watched /\ ghost'.sessions = ghost.sessions
      /\ ghost' \in GhostType
  BY ActsAre DEF FeedsInv, Focus
<1> QED BY <1>1 DEF FeedsInv, FeedsTyped, Places, TokensInv, MotionInv, Calm, AllRules, DeviceRules

LEMMA PressStep ==
  ASSUME FeedsInv, NEW d \in Devices, Press(d)
  PROVE  FeedsInv'
<1>1. /\ FeedsTyped /\ TokensInv /\ MotionInv /\ AllRules /\ focus' = d
      /\ UNCHANGED <<dev, hidden, f, hint, flags, seen>> /\ signal' \in {signal, d}
      /\ ghost'.watched = (ghost.watched /\ focus = d) /\ ghost'.sessions = ghost.sessions
      /\ ghost' \in GhostType
  <2>1. (ghost.watched /\ focus = d) \in BOOLEAN
    OBVIOUS
  <2> QED BY <2>1, ActsAre DEF FeedsInv, Press
<1>2. FeedsTyped' /\ TokensInv' /\ AllRules'
  BY <1>1 DEF FeedsTyped, Places, TokensInv, AllRules, DeviceRules
<1>3. MotionInv'
  <2>1. CASE focus = d
    BY <1>1, <2>1 DEF MotionInv, Calm, MovingSeen, Moving, Focused, Forgotten
  <2>2. CASE focus # d
    BY <1>1, <2>2 DEF MotionInv, Calm
  <2> QED BY <2>1, <2>2
<1> QED BY <1>2, <1>3 DEF FeedsInv

LEMMA HideOptionStep ==
  ASSUME FeedsInv, HideOption
  PROVE  FeedsInv'
<1>1. /\ FeedsTyped /\ TokensInv /\ MotionInv /\ AllRules /\ hidden' \in BOOLEAN
      /\ UNCHANGED <<focus, dev, signal, f, hint, flags, seen>>
      /\ ~ghost'.watched /\ ghost'.sessions = ghost.sessions
      /\ ghost' \in GhostType
  <2> DEFINE n == ghost.acts + 1
  <2>1. ghost \in GhostType /\ n \in Nat /\ hidden \in BOOLEAN
    BY DEF FeedsInv, FeedsTyped, GhostType
  <2>2. ghost' = [ghost EXCEPT !.acts = n, !.watched = FALSE, !.timedOut = FALSE]
    BY DEF HideOption
  <2> HIDE DEF n
  <2>3. ghost' \in GhostType /\ ~ghost'.watched /\ ghost'.sessions = ghost.sessions
    BY <2>1, <2>2 DEF GhostType
  <2> QED BY <2>1, <2>3 DEF FeedsInv, HideOption
<1> QED BY <1>1 DEF FeedsInv, FeedsTyped, TokensInv, MotionInv, Calm, AllRules, DeviceRules

LEMMA ReloadStep ==
  ASSUME FeedsInv, Reload
  PROVE  FeedsInv'
<1>1. /\ FeedsTyped /\ TokensInv /\ MotionInv /\ AllRules
      /\ focus' = NoDevice /\ signal' = NoDevice /\ f' = Unmounted
      /\ flags' = [notify |-> FALSE, rehydrate |-> FALSE, bump |-> FALSE]
      /\ dev' = [d \in Devices |-> [dev[d] EXCEPT !.command = "idle"]]
      /\ UNCHANGED <<hidden, hint, seen>>
      /\ ~ghost'.watched /\ ghost'.sessions = ghost.sessions
      /\ ghost' \in GhostType
  BY ActsAre DEF FeedsInv, Reload
<1>2. Unmounted \in FeedsType /\ flags' \in FlagsType
  BY <1>1 DEF Unmounted, FeedsType, Places, Kinds, NoSession, FlagsType
<1>3. ASSUME NEW d \in Devices
      PROVE  /\ dev'[d] \in DeviceType /\ dev'[d].command = "idle"
             /\ dev'[d].session = dev[d].session /\ dev'[d].kind = dev[d].kind
             /\ dev'[d].mode = dev[d].mode /\ dev'[d].running = dev[d].running
  BY <1>1 DEF FeedsTyped, DeviceType
<1>4. dev' \in [Devices -> DeviceType]
  BY <1>1, <1>3
<1>5. FeedsTyped'
  BY <1>1, <1>2, <1>4 DEF FeedsTyped, Places
<1>6. TokensInv'
  BY <1>1 DEF TokensInv, Unmounted
<1>7. MotionInv'
  BY <1>1 DEF MotionInv, Calm, Unmounted
<1>8. AllRules'
  BY <1>1, <1>3 DEF AllRules, DeviceRules, Pending
<1> QED BY <1>5, <1>6, <1>7, <1>8 DEF FeedsInv

LEMMA RehydratedStep ==
  ASSUME FeedsInv, NEW d \in Devices, Rehydrated(d)
  PROVE  FeedsInv'
<1>1. /\ FeedsTyped /\ TokensInv /\ MotionInv /\ AllRules
      /\ UNCHANGED <<focus, dev, hidden, signal, f, hint, seen>>
      /\ flags' \in FlagsType
      /\ ghost'.watched = ghost.watched /\ ghost'.sessions = ghost.sessions
      /\ ghost' \in GhostType
  <2> DEFINE n == ghost.acts + 1
  <2>1. ghost \in GhostType /\ n \in Nat /\ flags \in FlagsType
    BY DEF FeedsInv, FeedsTyped, GhostType
  <2>2. /\ ghost' = [ghost EXCEPT !.acts = n]
        /\ flags' = [flags EXCEPT !.rehydrate = TRUE, !.bump = TRUE]
    BY DEF Rehydrated
  <2> HIDE DEF n
  <2>3. /\ ghost' \in GhostType /\ ghost'.watched = ghost.watched
        /\ ghost'.sessions = ghost.sessions
    BY <2>1, <2>2 DEF GhostType
  <2>4. flags' \in FlagsType
    BY <2>1, <2>2 DEF FlagsType
  <2> QED BY <2>3, <2>4 DEF FeedsInv, Rehydrated
<1>2. FeedsTyped' /\ TokensInv' /\ AllRules'
  BY <1>1 DEF FeedsTyped, TokensInv, AllRules, DeviceRules
<1>3. MotionInv'
  BY <1>1 DEF MotionInv, Calm, MovingSeen, Moving, Focused, Forgotten
<1> QED BY <1>2, <1>3 DEF FeedsInv

LEMMA StartFeedsStep ==
  ASSUME FeedsInv, StartFeeds
  PROVE  FeedsInv'
<1>1. /\ FeedsTyped /\ TokensInv /\ MotionInv /\ AllRules /\ f.mounted /\ Now = seen
      /\ CanStart(Now) /\ Becomes(StartPreview(This, Now))
      /\ UNCHANGED <<focus, dev, hidden, signal, seen>>
      /\ ghost'.watched = ghost.watched /\ ghost'.sessions = ghost.sessions
      /\ ghost' \in GhostType
  <2>1. ghost.watched \in BOOLEAN
    BY DEF FeedsInv, FeedsTyped, GhostType
  <2> QED BY <2>1, ActsAre, NotDue DEF FeedsInv, StartFeeds
<1>2. /\ Now \in SeenType /\ Now.visible = f.visible
      /\ MovingSeen(Now) = Moving
      /\ Now.session = Focused.session /\ Now.kind = Focused.kind
      /\ Now.mode = Focused.mode /\ Now.running = Focused.running
      /\ Now.pending = Pending(Focused)
      /\ Now.busy = CommandPending(Focused)
      /\ focus = NoDevice => Now.session = NoSession
      /\ focus # NoDevice => focus \in Devices /\ Focused = dev[focus]
  BY <1>1, NowIs
<1>3. /\ f' \in FeedsType /\ hint' = hint /\ flags' \in FlagsType
      /\ f'.mounted = f.mounted /\ f'.prevFocus = f.prevFocus /\ f'.mint = f.mint
      /\ f'.sources = f.sources /\ f'.loaded = f.loaded /\ f'.grace = f.grace
      /\ f.visible => f'.visible
  <2> DEFINE t == StartPreview(This, Now)
  <2>1. t \in StageType /\ Frame(This, t) /\ Left(This, t) /\ t.f.grace = This.f.grace
    BY <1>2, ThisIs, StartPreviewIs
  <2>2. f' = t.f /\ hint' = t.hint /\ flags' = t.flags
    BY <1>1 DEF Becomes
  <2> HIDE DEF t
  <2> QED BY <2>1, <2>2, ThisIs DEF StageType, Frame, Left
<1>4. FeedsTyped' /\ AllRules'
  BY <1>1, <1>3 DEF FeedsTyped, AllRules, DeviceRules
<1>5. TokensInv'
  BY <1>1, <1>2, <1>3 DEF TokensInv
<1>6. ~Moving
  <2>1. focus # NoDevice => DeviceRules(focus)
    BY <1>1, <1>2 DEF AllRules
  <2> QED BY <1>1, <1>2, <2>1 DEF Moving, CanStart, DeviceRules, Pending,
                                  CommandPending
<1>7. MotionInv'
  <2>1. Moving' = Moving /\ Calm' = Calm /\ MovingSeen(seen)' = MovingSeen(seen)
        /\ Forgotten(seen)' = Forgotten(seen)
    BY <1>1, <1>3 DEF Moving, Focused, Calm, MovingSeen, Forgotten
  <2> QED BY <1>1, <1>2, <1>3, <1>6, <2>1 DEF MotionInv
<1> QED BY <1>4, <1>5, <1>7 DEF FeedsInv

(* A step of one device keeps the invariant when the device keeps its rules, the
   command that is watched from now on finds the hook in order, and a device that
   moves from now on has its feeds shown or no hint that would show them. *)
RulesOf(x, n) ==
  /\ Pending(x) => x.mode = "manual" /\ x.kind = "manual"
  /\ x.command = "automatic" => x.mode = "automatic" /\ x.kind = "automatic"
  /\ x.running => x.session # NoSession /\ x.mode = "automatic" /\ x.kind = "automatic"
  /\ x.session <= n
MovingDevice(x) ==
  /\ x.session # NoSession
  /\ (x.kind = "manual" /\ Pending(x)) \/ (x.kind = "automatic" /\ x.running)
WatchedNow(watched) ==
  /\ watched => f.mounted /\ focus = seen.focus
  /\ watched /\ ~hidden /\ MovingSeen(seen) => f.visible /\ ~f.deadline
  /\ watched /\ ~hidden /\ seen.session # NoSession /\ ~seen.visible
       => f.visible \/ Forgotten(seen)
ShownOrForgotten(d, x) ==
  f.visible \/ hint[d].session # x.session \/ hint[d].kind # x.kind

(* A step that changes one device only, and keeps its rules, keeps the     *)
(* invariant, unless motion begins that the feeds do not show.             *)
LEMMA DeviceStep ==
  ASSUME FeedsInv, NEW d \in Devices, UNCHANGED <<focus, hidden, signal, f, hint, seen>>,
         dev' \in [Devices -> DeviceType], \A e \in Devices \ {d} : dev'[e] = dev[e],
         flags' \in FlagsType, ghost' \in GhostType, ghost.sessions <= ghost'.sessions,
         RulesOf(dev'[d], ghost'.sessions), WatchedNow(ghost'.watched),
         focus # d => (ghost'.watched => ghost.watched),
         focus = d /\ ghost'.watched /\ ~hidden /\ MovingDevice(dev'[d])
           => ShownOrForgotten(d, dev'[d])
  PROVE  FeedsInv'
<1>1. /\ FeedsTyped /\ TokensInv /\ MotionInv /\ AllRules
      /\ ghost.sessions \in Nat /\ ghost'.sessions \in Nat
      /\ \A e \in Devices : dev[e].session \in Nat /\ hint[e].session \in Nat
  BY DEF FeedsInv, FeedsTyped, GhostType, DeviceType, HintType
<1>2. FeedsTyped' /\ TokensInv'
  BY <1>1 DEF FeedsTyped, TokensInv
<1>3. AllRules'
  <2>1. ASSUME NEW e \in Devices PROVE DeviceRules(e)'
    <3>1. DeviceRules(e) /\ dev[e].session \in Nat /\ hint[e].session \in Nat
      BY <1>1 DEF AllRules
    <3>2. hint'[e].session <= ghost'.sessions
      BY <1>1, <3>1 DEF DeviceRules
    <3>3. CASE e = d
      BY <3>2, <3>3 DEF DeviceRules, RulesOf, Pending
    <3>4. CASE e # d
      BY <1>1, <3>1, <3>2, <3>4 DEF DeviceRules, Pending
    <3> QED BY <3>3, <3>4
  <2> QED BY <2>1 DEF AllRules
<1>4. MotionInv'
  <2>1. MovingSeen(seen)' = MovingSeen(seen) /\ Forgotten(seen)' = Forgotten(seen)
        /\ (Calm' => ghost'.watched /\ ~hidden)
    BY DEF MovingSeen, Forgotten, Calm
  <2>2. Calm' /\ Moving' => f.visible \/ Forgotten(Focused)'
    <3>1. CASE focus = d
      <4>1. Focused' = dev'[d] \/ focus = NoDevice
        BY <3>1 DEF Focused
      <4>2. focus # NoDevice
        BY <3>1, NoDeviceAssumption
      <4>3. Moving' => MovingDevice(dev'[d])
        BY <4>1, <4>2 DEF Moving, MovingDevice, Pending
      <4> QED BY <2>1, <3>1, <4>1, <4>2, <4>3 DEF ShownOrForgotten, Forgotten
    <3>2. CASE focus # d
      <4>1. Focused' = Focused
        <5>1. focus = NoDevice \/ focus \in Devices
          BY <1>1 DEF FeedsTyped, Places
        <5> QED BY <3>2, <5>1 DEF Focused
      <4>2. /\ Moving' = Moving /\ (Calm' => Calm)
            /\ Forgotten(Focused)' = Forgotten(Focused)
        BY <3>2, <4>1 DEF Moving, Forgotten, Calm
      <4> QED BY <1>1, <4>2 DEF MotionInv
    <3> QED BY <3>1, <3>2
  <2> QED BY <1>1, <2>1, <2>2 DEF MotionInv, WatchedNow, Calm
<1> QED BY <1>1, <1>2, <1>3, <1>4 DEF FeedsInv

(* What was watched and is not moving may be anything.                     *)
LEMMA WatchedStays ==
  ASSUME FeedsInv, NEW watched, watched => ghost.watched
  PROVE  WatchedNow(watched)
BY DEF FeedsInv, MotionInv, Calm, WatchedNow

(* What a device is, and what its feeds are when it is in focus. *)
LEMMA DeviceIs ==
  ASSUME FeedsInv, NEW d \in Devices
  PROVE  /\ dev \in [Devices -> DeviceType] /\ dev[d] \in DeviceType
         /\ RulesOf(dev[d], ghost.sessions) /\ hint[d].session <= ghost.sessions
         /\ ghost.sessions \in Nat /\ hint[d].session \in Nat /\ flags \in FlagsType
         /\ ghost \in GhostType
         /\ focus = d => Focused = dev[d]
         /\ focus = d /\ Calm /\ MovingDevice(dev[d]) => ShownOrForgotten(d, dev[d])
         /\ focus = d /\ Calm /\ ~Due /\ dev[d].session # NoSession
              => ShownOrForgotten(d, dev[d])
<1>1. /\ FeedsTyped /\ MotionInv /\ DeviceRules(d)
  BY DEF FeedsInv, AllRules
<1>2. /\ dev \in [Devices -> DeviceType] /\ dev[d] \in DeviceType
      /\ RulesOf(dev[d], ghost.sessions) /\ hint[d].session <= ghost.sessions
      /\ ghost.sessions \in Nat /\ hint[d].session \in Nat /\ flags \in FlagsType
      /\ ghost \in GhostType
  BY <1>1 DEF FeedsTyped, GhostType, HintType, DeviceRules, RulesOf
<1>3. focus = d => Focused = dev[d]
  BY NoDeviceAssumption DEF Focused
<1>4. ASSUME focus = d, Calm, MovingDevice(dev[d]) PROVE ShownOrForgotten(d, dev[d])
  BY <1>1, <1>3, <1>4 DEF MotionInv, MovingDevice, Moving, ShownOrForgotten, Forgotten
<1>5. ASSUME focus = d, Calm, ~Due, dev[d].session # NoSession
      PROVE  ShownOrForgotten(d, dev[d])
  <2>1. /\ seen.session = dev[d].session /\ seen.kind = dev[d].kind
        /\ seen.visible = f.visible
    BY <1>1, <1>3, <1>5, NotDue, NowIs
  <2> QED BY <1>1, <1>5, <2>1 DEF MotionInv, ShownOrForgotten, Forgotten
<1> QED BY <1>2, <1>3, <1>4, <1>5

LEMMA SceneOnStep ==
  ASSUME FeedsInv, NEW d \in Devices, SceneOn(d)
  PROVE  FeedsInv'
<1> DEFINE n == ghost.sessions + 1
           a == ghost.acts + 1
           x == [dev[d] EXCEPT !.session = n, !.kind = dev[d].mode, !.scene = TRUE]
<1>1. /\ dev \in [Devices -> DeviceType] /\ dev[d] \in DeviceType
      /\ RulesOf(dev[d], ghost.sessions) /\ hint[d].session <= ghost.sessions
      /\ ghost.sessions \in Nat /\ hint[d].session \in Nat /\ ghost \in GhostType
      /\ flags \in FlagsType
  BY DeviceIs
<1>2. n \in Nat /\ a \in Nat /\ n > ghost.sessions
  BY <1>1 DEF GhostType
<1>3. ghost' = [ghost EXCEPT !.acts = a, !.sessions = n, !.timedOut = FALSE]
  BY DEF SceneOn
<1> HIDE DEF a
<1>4. /\ ghost' \in GhostType /\ ghost'.sessions = n /\ ghost'.watched = ghost.watched
  BY <1>1, <1>2, <1>3 DEF GhostType
<1>5. /\ dev[d].session = NoSession
      /\ dev' = [dev EXCEPT ![d].session = n, ![d].kind = dev[d].mode, ![d].scene = TRUE]
      /\ UNCHANGED <<focus, hidden, signal, f, hint, flags, seen>>
  BY <1>4 DEF SceneOn
<1> HIDE DEF n
<1>6. dev' = [dev EXCEPT ![d] = x]
  BY <1>1, <1>5
<1>7. /\ x \in DeviceType /\ x.session = n /\ x.kind = dev[d].mode /\ x.mode = dev[d].mode
      /\ x.running = dev[d].running /\ x.command = dev[d].command
  BY <1>1, <1>2 DEF DeviceType
<1> HIDE DEF x
<1>8. dev' \in [Devices -> DeviceType] /\ dev'[d] = x /\ \A e \in Devices \ {d} : dev'[e] = dev[e]
  BY <1>1, <1>6, <1>7
<1>9. RulesOf(x, n)
  BY <1>1, <1>2, <1>5, <1>7 DEF RulesOf, Pending
<1>10. ShownOrForgotten(d, x)
  BY <1>1, <1>2, <1>7 DEF ShownOrForgotten
<1>11. WatchedNow(ghost'.watched)
  BY <1>4, WatchedStays
<1> QED BY <1>1, <1>2, <1>4, <1>5, <1>8, <1>9, <1>10, <1>11, DeviceStep

(* A device that does not move any more, and begins no command. *)
LEMMA RestingStep ==
  ASSUME FeedsInv, NEW d \in Devices, NEW x \in DeviceType, dev' = [dev EXCEPT ![d] = x],
         UNCHANGED <<focus, hidden, signal, f, hint, flags, seen>>,
         ghost' \in GhostType, ghost'.sessions = ghost.sessions,
         ghost'.watched = ghost.watched, x.session \in {dev[d].session, NoSession},
         ~x.running, ~MovingDevice(x), RulesOf(x, ghost.sessions)
  PROVE  FeedsInv'
<1>1. /\ dev \in [Devices -> DeviceType] /\ flags \in FlagsType /\ ghost.sessions \in Nat
  BY DeviceIs
<1>2. dev' \in [Devices -> DeviceType] /\ dev'[d] = x /\ \A e \in Devices \ {d} : dev'[e] = dev[e]
  BY <1>1
<1>3. WatchedNow(ghost'.watched)
  BY WatchedStays
<1> QED BY <1>1, <1>2, <1>3, DeviceStep

LEMMA SessionEndsStep ==
  ASSUME FeedsInv, NEW d \in Devices, SessionEnds(d)
  PROVE  FeedsInv'
<1> PICK scene \in BOOLEAN :
      dev' = [dev EXCEPT ![d].session = NoSession, ![d].running = FALSE, ![d].scene = scene]
  BY DEF SessionEnds
<1> DEFINE x == [dev[d] EXCEPT !.session = NoSession, !.running = FALSE, !.scene = scene]
<1>1. /\ dev \in [Devices -> DeviceType] /\ dev[d] \in DeviceType
      /\ RulesOf(dev[d], ghost.sessions) /\ ghost.sessions \in Nat /\ ghost \in GhostType
  BY DeviceIs
<1>2. /\ ghost' \in GhostType /\ ghost'.sessions = ghost.sessions
      /\ ghost'.watched = ghost.watched
      /\ UNCHANGED <<focus, hidden, signal, f, hint, flags, seen>>
  BY <1>1, ActsAre DEF SessionEnds, GhostType
<1>3. dev' = [dev EXCEPT ![d] = x]
  BY <1>1
<1>4. /\ x \in DeviceType /\ x.session = NoSession /\ x.kind = dev[d].kind
      /\ x.mode = dev[d].mode /\ ~x.running /\ x.command = dev[d].command
  BY <1>1 DEF DeviceType, NoSession
<1> HIDE DEF x
<1>5. RulesOf(x, ghost.sessions) /\ ~MovingDevice(x)
  BY <1>1, <1>4 DEF RulesOf, MovingDevice, Pending, NoSession
<1> QED BY <1>2, <1>3, <1>4, <1>5, RestingStep

LEMMA SwitchModeStep ==
  ASSUME FeedsInv, NEW d \in Devices, SwitchMode(d)
  PROVE  FeedsInv'
<1> PICK mode \in Kinds \ {dev[d].mode} :
      dev' = [dev EXCEPT ![d].mode = mode, ![d].running = FALSE]
  BY DEF SwitchMode
<1> DEFINE x == [dev[d] EXCEPT !.mode = mode, !.running = FALSE]
<1>1. /\ dev \in [Devices -> DeviceType] /\ dev[d] \in DeviceType
      /\ RulesOf(dev[d], ghost.sessions) /\ ghost.sessions \in Nat /\ ghost \in GhostType
  BY DeviceIs
<1>2. /\ ghost' \in GhostType /\ ghost'.sessions = ghost.sessions
      /\ ghost'.watched = ghost.watched /\ dev[d].command = "idle"
      /\ UNCHANGED <<focus, hidden, signal, f, hint, flags, seen>>
  BY <1>1, ActsAre DEF SwitchMode, GhostType
<1>3. dev' = [dev EXCEPT ![d] = x]
  BY <1>1
<1>4. /\ x \in DeviceType /\ x.session = dev[d].session /\ ~x.running
      /\ x.command = dev[d].command
  BY <1>1 DEF DeviceType
<1> HIDE DEF x
<1>5. RulesOf(x, ghost.sessions) /\ ~MovingDevice(x)
  BY <1>1, <1>2, <1>4 DEF RulesOf, MovingDevice, Pending
<1> QED BY <1>2, <1>3, <1>4, <1>5, RestingStep

LEMMA SyncModeStep ==
  ASSUME FeedsInv, NEW d \in Devices, SyncMode(d)
  PROVE  FeedsInv'
<1> DEFINE x == [dev[d] EXCEPT !.kind = dev[d].mode]
<1>1. /\ dev \in [Devices -> DeviceType] /\ dev[d] \in DeviceType
      /\ RulesOf(dev[d], ghost.sessions) /\ ghost.sessions \in Nat /\ ghost \in GhostType
  BY DeviceIs
<1>2. /\ dev[d].kind # dev[d].mode /\ dev' = [dev EXCEPT ![d].kind = dev[d].mode]
      /\ UNCHANGED <<focus, hidden, signal, f, hint, flags, seen, ghost>>
  BY DEF SyncMode
<1>3. dev' = [dev EXCEPT ![d] = x]
  BY <1>1, <1>2
<1>4. /\ x \in DeviceType /\ x.session = dev[d].session /\ x.running = dev[d].running
      /\ x.command = dev[d].command /\ x.mode = dev[d].mode
  BY <1>1 DEF DeviceType
<1> HIDE DEF x
<1>5. RulesOf(x, ghost.sessions) /\ ~MovingDevice(x) /\ ~x.running
  BY <1>1, <1>2, <1>4 DEF RulesOf, MovingDevice, Pending
<1> QED BY <1>1, <1>2, <1>3, <1>4, <1>5, RestingStep

LEMMA CommandStep ==
  ASSUME FeedsInv, NEW d \in Devices, Command(d)
  PROVE  FeedsInv'
<1> DEFINE still == ~dev[d].running /\ (f.visible \/ hint[d].session # dev[d].session)
           x == [dev[d] EXCEPT !.command = dev[d].mode]
<1>1. /\ dev \in [Devices -> DeviceType] /\ dev[d] \in DeviceType
      /\ RulesOf(dev[d], ghost.sessions) /\ ghost.sessions \in Nat /\ ghost \in GhostType
      /\ flags \in FlagsType /\ focus = d /\ Focused = dev[d]
      /\ Calm /\ ~Due => ShownOrForgotten(d, dev[d])
  <2>1. focus = d /\ dev[d].session # NoSession
    BY DEF Command
  <2> QED BY <2>1, DeviceIs
<1>2. /\ dev[d].command = "idle" /\ dev[d].session # NoSession /\ dev[d].kind = dev[d].mode
      /\ dev' = [dev EXCEPT ![d].command = dev[d].mode]
      /\ UNCHANGED <<focus, hidden, signal, f, hint, flags, seen>>
  BY DEF Command
<1>3. /\ ~Due /\ ghost' \in GhostType /\ ghost'.sessions = ghost.sessions
      /\ ghost'.watched = (ghost.watched \/ still)
  <2>1. Acts(ghost.watched \/ still)
    BY DEF Command
  <2>2. (ghost.watched \/ still) \in BOOLEAN
    OBVIOUS
  <2> HIDE DEF still
  <2> QED BY <2>1, <2>2, ActsAre
<1>4. dev' = [dev EXCEPT ![d] = x]
  BY <1>2
<1>5. /\ x \in DeviceType /\ x.session = dev[d].session /\ x.kind = dev[d].kind
      /\ x.mode = dev[d].mode /\ x.running = dev[d].running /\ x.command = dev[d].mode
  BY <1>1 DEF DeviceType, Kinds
<1> HIDE DEF x
<1>6. /\ dev' \in [Devices -> DeviceType] /\ dev'[d] = x
      /\ \A e \in Devices \ {d} : dev'[e] = dev[e]
  BY <1>1, <1>4, <1>5
<1>7. RulesOf(x, ghost.sessions)
  BY <1>1, <1>2, <1>5 DEF RulesOf, Pending, DeviceType, Kinds
<1>8. /\ f.mounted /\ Now = seen /\ seen.focus = focus /\ seen.session = dev[d].session
      /\ seen.kind = dev[d].kind /\ seen.visible = f.visible /\ MovingSeen(seen) = Moving
  BY <1>1, <1>3, NotDue, NowIs DEF FeedsInv
<1>9. ghost'.watched /\ ~hidden => ghost.watched \/ (~Moving /\ ShownOrForgotten(d, dev[d]))
  BY <1>1, <1>2, <1>3 DEF Moving, Pending, ShownOrForgotten
<1>10. WatchedNow(ghost'.watched)
  <2>1. WatchedNow(ghost.watched)
    BY WatchedStays
  <2>2. ShownOrForgotten(d, dev[d]) => f.visible \/ Forgotten(seen)
    BY <1>1, <1>8 DEF ShownOrForgotten, Forgotten
  <2> HIDE DEF still
  <2> QED BY <1>8, <1>9, <2>1, <2>2 DEF WatchedNow
<1>11. ghost'.watched /\ ~hidden => ShownOrForgotten(d, x)
  BY <1>1, <1>3, <1>5, <1>9 DEF Calm, ShownOrForgotten
<1> QED BY <1>1, <1>2, <1>3, <1>6, <1>7, <1>10, <1>11, DeviceStep

LEMMA RecordedStep ==
  ASSUME FeedsInv, NEW d \in Devices, Recorded(d)
  PROVE  FeedsInv'
<1> DEFINE x == [dev[d] EXCEPT !.command = "recorded"]
<1>1. /\ dev \in [Devices -> DeviceType] /\ dev[d] \in DeviceType
      /\ RulesOf(dev[d], ghost.sessions) /\ ghost.sessions \in Nat /\ ghost \in GhostType
      /\ flags \in FlagsType
      /\ focus = d /\ Calm /\ MovingDevice(dev[d]) => ShownOrForgotten(d, dev[d])
  BY DeviceIs
<1>2. /\ dev[d].command = "manual" /\ dev' = [dev EXCEPT ![d].command = "recorded"]
      /\ UNCHANGED <<focus, hidden, signal, f, hint, seen, ghost>>
      /\ flags' = IF focus = d THEN [flags EXCEPT !.notify = TRUE, !.bump = TRUE] ELSE flags
  BY DEF Recorded
<1>3. flags' \in FlagsType
  BY <1>1, <1>2 DEF FlagsType
<1>4. dev' = [dev EXCEPT ![d] = x]
  BY <1>2
<1>5. /\ x \in DeviceType /\ x.session = dev[d].session /\ x.kind = dev[d].kind
      /\ x.mode = dev[d].mode /\ x.running = dev[d].running /\ x.command = "recorded"
  BY <1>1 DEF DeviceType
<1> HIDE DEF x
<1>6. /\ dev' \in [Devices -> DeviceType] /\ dev'[d] = x
      /\ \A e \in Devices \ {d} : dev'[e] = dev[e]
  BY <1>1, <1>4, <1>5
<1>7. RulesOf(x, ghost.sessions)
  BY <1>1, <1>2, <1>5 DEF RulesOf, Pending
<1>8. MovingDevice(x) => MovingDevice(dev[d])
  BY <1>2, <1>5 DEF MovingDevice, Pending
<1>9. WatchedNow(ghost'.watched)
  BY <1>2, WatchedStays
<1>10. focus = d /\ ghost'.watched /\ ~hidden /\ MovingDevice(x) => ShownOrForgotten(d, x)
  BY <1>1, <1>2, <1>5, <1>8 DEF Calm, ShownOrForgotten
<1> QED BY <1>1, <1>2, <1>3, <1>6, <1>7, <1>9, <1>10, DeviceStep

LEMMA CommandReturnsStep ==
  ASSUME FeedsInv, NEW d \in Devices, CommandReturns(d)
  PROVE  FeedsInv'
<1> PICK running \in IF dev[d].command = "automatic" /\ dev[d].session # NoSession
                     THEN BOOLEAN ELSE {dev[d].running} :
      dev' = [dev EXCEPT ![d].command = "idle", ![d].running = running]
  BY DEF CommandReturns
<1> DEFINE x == [dev[d] EXCEPT !.command = "idle", !.running = running]
<1>1. /\ dev \in [Devices -> DeviceType] /\ dev[d] \in DeviceType
      /\ RulesOf(dev[d], ghost.sessions) /\ ghost.sessions \in Nat /\ ghost \in GhostType
      /\ flags \in FlagsType
      /\ focus = d /\ Calm /\ ~Due /\ dev[d].session # NoSession
           => ShownOrForgotten(d, dev[d])
  BY DeviceIs
<1>2. ~Due /\ UNCHANGED <<focus, hidden, signal, f, hint, flags, seen, ghost>>
  BY DEF CommandReturns
<1>3. /\ running \in BOOLEAN
      /\ running => \/ dev[d].running
                    \/ dev[d].command = "automatic" /\ dev[d].session # NoSession
  <2>1. dev[d].running \in BOOLEAN
    BY <1>1 DEF DeviceType
  <2>2. CASE dev[d].command = "automatic" /\ dev[d].session # NoSession
    BY <2>2
  <2>3. CASE ~(dev[d].command = "automatic" /\ dev[d].session # NoSession)
    <3>1. running \in {dev[d].running}
      BY <2>3
    <3> QED BY <2>1, <3>1
  <2> QED BY <2>2, <2>3
<1>4. dev' = [dev EXCEPT ![d] = x]
  BY <1>1
<1>5. /\ x \in DeviceType /\ x.session = dev[d].session /\ x.kind = dev[d].kind
      /\ x.mode = dev[d].mode /\ x.running = running /\ x.command = "idle"
  BY <1>1, <1>3 DEF DeviceType
<1> HIDE DEF x
<1>6. /\ dev' \in [Devices -> DeviceType] /\ dev'[d] = x
      /\ \A e \in Devices \ {d} : dev'[e] = dev[e]
  BY <1>1, <1>4, <1>5
<1>7. RulesOf(x, ghost.sessions)
  BY <1>1, <1>3, <1>5 DEF RulesOf, Pending
<1>8. WatchedNow(ghost'.watched)
  BY <1>2, WatchedStays
<1>9. focus = d /\ ghost'.watched /\ ~hidden /\ MovingDevice(x) => ShownOrForgotten(d, x)
  BY <1>1, <1>2, <1>5 DEF Calm, ShownOrForgotten, MovingDevice
<1> QED BY <1>1, <1>2, <1>6, <1>7, <1>8, <1>9, DeviceStep

(* Every step keeps the invariant.                                         *)
LEMMA NextFeeds == FeedsInv /\ [FeedsNext]_feedsVars => FeedsInv'
<1> SUFFICES ASSUME FeedsInv, [FeedsNext]_feedsVars PROVE FeedsInv'
  OBVIOUS
<1>1. ASSUME NEW d \in Devices, Device(d) PROVE FeedsInv'
  BY <1>1, FocusStep, SceneOnStep, SessionEndsStep, SwitchModeStep, SyncModeStep,
     CommandStep, RecordedStep, CommandReturnsStep, PressStep, RehydratedStep DEF Device
<1>2. CASE UNCHANGED feedsVars
  BY <1>2 DEF feedsVars, FeedsInv, FeedsTyped, TokensInv, MotionInv, Calm, MovingSeen,
              Moving,
              Focused, Forgotten, AllRules, DeviceRules
<1> QED BY <1>1, <1>2, RenderStep, DeadlineStep, MintedStep, MintFailsStep, StartFeedsStep,
           HideOptionStep, ReloadStep DEF FeedsNext

(* The invariant holds in every state of every behaviour.                  *)
LEMMA FeedsHold == FeedsSpec => []FeedsInv
BY InitFeeds, NextFeeds, PTL DEF FeedsSpec

(* However the operator changes focus, sessions end and begin and token    *)
(* requests are late: feeds that are shown, with no request under way, are *)
(* those of the session in focus (loadTokens in useSessionVideoSources,    *)
(* and its effect on focus).                                               *)
THEOREM FeedsAreSessions == FeedsSpec => []ShownIsSessions
<1>1. FeedsInv => ShownIsSessions
  <2> SUFFICES ASSUME FeedsInv PROVE ShownIsSessions
    OBVIOUS
  <2>1. FeedsTyped /\ TokensInv
    BY DEF FeedsInv
  <2>2. ASSUME ~Due, f.mint = NoSession, Focused.session # NoSession,
               f.sources # NoSession
        PROVE  f.sources = Focused.session
    <3>1. f.mounted /\ seen.visible = f.visible /\ seen.session = Focused.session
      BY <2>1, <2>2, NotDue, NowIs
    <3> QED BY <2>1, <2>2, <3>1 DEF TokensInv
  <2> QED BY <2>1, <2>2 DEF TokensInv, ShownIsSessions
<1> QED BY <1>1, FeedsHold, PTL

(* While the device in focus moves, and the operator has watched from the  *)
(* beginning, the feeds are shown and no deadline is set for them (the     *)
(* pause of the timer while a command is pending or a session runs).       *)
THEOREM MotionIsWatched == FeedsSpec => []MotionKeepsFeeds
<1>1. FeedsInv => MotionKeepsFeeds
  <2> SUFFICES ASSUME FeedsInv, ~Due, Moving, ghost.watched, ~hidden
               PROVE  f.visible /\ ~f.deadline
    BY DEF MotionKeepsFeeds
  <2>1. FeedsTyped /\ MotionInv
    BY DEF FeedsInv
  <2>2. MovingSeen(seen)
    BY <2>1, NotDue, NowIs
  <2> QED BY <2>1, <2>2 DEF MotionInv, Calm
<1> QED BY <1>1, FeedsHold, PTL
=============================================================================
