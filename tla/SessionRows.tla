---------------------------- MODULE SessionRows ----------------------------
(***************************************************************************)
(* The session record of one Sub and one device, as the operator UI keeps  *)
(* it: the row on the server, the copy that every browser tab holds        *)
(* (SessionProvider), the requests of the tabs, which the browser sends    *)
(* side by side and the server handles in any order, and the messages by   *)
(* which the tabs tell each other what they show (TabSyncProvider).        *)
(*                                                                         *)
(* A summary is abstracted to its kind, the number of strokes and bursts   *)
(* and the number of aborts it tells; the text between is what             *)
(* buildManualSessionSummary writes and parseManualInProgressSummary reads.*)
(***************************************************************************)
EXTENDS Naturals, Sequences, TLC

CONSTANTS Tabs,        \* browser tabs of one operator
          Calls,       \* places for requests under way, of all tabs
          MaxSessions, \* bound: ids the server hands out
          MaxDone,     \* bound: strokes, bursts and aborts done in one session
          MaxInbox,    \* bound: messages on their way to one tab
          MaxOps,      \* bound: operations the operator asks for
          Faults,      \* bound: requests that fail, answers lost, pages loaded again
          Nobody       \* waits for the requests of a page that is gone

ASSUME SessionRowsAssumption ==
  /\ MaxSessions \in Nat \ {0}
  /\ {MaxDone, MaxInbox, MaxOps, Faults} \subseteq Nat
  /\ Nobody \notin Tabs

VARIABLES rows,     \* the server's rows
          session,  \* per tab: sessionsByKeyRef, the row it shows
          starting, \* per tab: startingRef
          told,     \* per tab: sessionsBroadcastRef
          inbox,    \* per tab: device-session messages not yet handled
          applying, \* per tab: applyingSessionIdRef
          call,     \* requests under way
          done,     \* strokes and aborts the device has done, by id of the session: an
                    \* id that is used again goes on counting
          ops,      \* operations so far
          faults    \* failures so far

vars == <<rows, session, starting, told, inbox, applying, call, done, ops, faults>>

Ids == 1..MaxSessions
Modes == {"manual", "automatic"}
None == [id |-> 0]
NoRow == [mode |-> "none"]
Ask == [id |-> 0, mode |-> "ask"]  \* request-sync: a new page asks what the others show
Counts == [events : 0..MaxDone, aborts : 0..MaxDone]
Kinds == {"start", "progress", "noted", "final"}
Summaries == [kind : Kinds, events : 0..MaxDone, aborts : 0..MaxDone]
Sessions == [id : Ids, mode : Modes, events : 0..MaxDone, aborts : 0..MaxDone, started : BOOLEAN]
Snapshots == [id : Ids, mode : Modes]
Rows == [mode : Modes, sum : Summaries]
Entries == [id : Ids, mode : Modes, sum : Summaries]
Ops == {"free", "start", "mode", "progress", "end", "discard", "rehydrate", "reconcile", "apply"}
Steps == {"sent", "ok", "failed"}

-----------------------------------------------------------------------------
(* What a summary says. "noted" is `In progress, 1 abort.', which neither   *)
(* the server nor the UI takes for a session in progress.                   *)

InProgress(sum) == sum.kind \in {"start", "progress"}

ManualSummaryOneMore(s, goesOn) ==
  [kind |-> IF goesOn THEN "progress" ELSE "final",
   events |-> s.events, aborts |-> IF goesOn THEN s.aborts ELSE 1]

ManualSummary(s, goesOn) ==
  [kind |-> IF ~goesOn THEN "final" ELSE IF s.events > 0 THEN "progress" ELSE "noted",
   events |-> s.events, aborts |-> s.aborts]

(* The automatic result is put after what was done by hand. *)
FinalSummary(s) == ManualSummary(s, FALSE)

StartSummary == [kind |-> "start", events |-> 0, aborts |-> 0]

(* A request: what is asked about which row, and the copy read before. *)
Free == [op |-> "free", step |-> "ok", tab |-> Nobody, id |-> 0, mode |-> "manual",
         sum |-> StartSummary, cur |-> None, answer |-> None]

Rehydratable(e) == IF e.mode = "manual" THEN InProgress(e.sum) ELSE e.sum.kind = "start"

(* parseManualInProgressSummary: the counts come back, the measured time of *)
(* a single stroke does not always.                                         *)
Parsed(e) == IF e.mode = "manual" THEN [events |-> e.sum.events, aborts |-> e.sum.aborts]
                                  ELSE [events |-> 0, aborts |-> 0]

FromEntry(e) ==
  [id |-> e.id, mode |-> e.mode, started |-> FALSE,
   events |-> Parsed(e).events, aborts |-> Parsed(e).aborts]

(* The row in progress is one for the mode the device is shown in. *)
Fits(e, mode) == e # None /\ e.mode = mode /\ Rehydratable(e)

NewSession(i, mode) == [id |-> i, mode |-> mode, events |-> 0, aborts |-> 0, started |-> FALSE]

-----------------------------------------------------------------------------
(* The server's handlers, one transaction each. The answer may get lost. It *)
(* does not look whether a row to be updated or ended is still in progress. *)

Stored == {i \in Ids : rows[i] # NoRow}

Open == {i \in Stored : InProgress(rows[i].sum)}

(* One more than the largest id that is still stored. *)
IsNext(i) == /\ \A j \in Stored : j < i
             /\ i = 1 \/ i - 1 \in Stored

Full == MaxSessions \in Stored

Entry(i, row) == [id |-> i, mode |-> row.mode, sum |-> row.sum]

(* The row in progress that was started last. *)
IsActive(e) == \/ Open = {} /\ e = None
               \/ \E i \in Open : (\A j \in Open : j <= i) /\ e = Entry(i, rows[i])

Reply(c, e) ==
  /\ \/ /\ call' = [call EXCEPT ![c].step = "ok", ![c].answer = e]
        /\ UNCHANGED faults
     \/ /\ faults < Faults /\ faults' = faults + 1
        /\ call' = [call EXCEPT ![c].step = "failed"]
  /\ UNCHANGED <<session, starting, told, inbox, applying, done, ops>>

Asks(c, kinds) == call[c].step = "sent" /\ call[c].op \in kinds

StartSession(c) ==
  /\ Asks(c, {"start"})
  /\ \E i \in Ids :
       LET row == [mode |-> call[c].mode, sum |-> StartSummary] IN
       /\ IsNext(i)
       /\ rows' = [rows EXCEPT ![i] = row]
       /\ Reply(c, Entry(i, row))

UpdateSession(c) ==
  LET q == call[c] IN
  /\ Asks(c, {"mode", "progress"}) /\ q.id \in Stored
  /\ rows' = [rows EXCEPT ![q.id] = IF q.op = "mode" THEN [@ EXCEPT !.mode = q.mode]
                                                   ELSE [@ EXCEPT !.sum = q.sum]]
  /\ Reply(c, None)

EndSession(c) ==
  /\ Asks(c, {"end"}) /\ call[c].id \in Stored
  /\ rows' = [rows EXCEPT ![call[c].id].sum = call[c].sum]
  /\ Reply(c, None)

DeleteInProgressSession(c) ==
  /\ Asks(c, {"discard"}) /\ call[c].id \in Open
  /\ rows' = [rows EXCEPT ![call[c].id] = NoRow]
  /\ Reply(c, None)

GetActiveSession(c) ==
  /\ Asks(c, {"rehydrate", "reconcile", "apply"})
  /\ \E e \in {None} \cup {Entry(i, rows[i]) : i \in Open} : IsActive(e) /\ Reply(c, e)
  /\ UNCHANGED rows

(* No such row, a row to be discarded that is not in progress, or a fault   *)
(* before the request is handled.                                           *)
Refuse(c) ==
  LET q == call[c] IN
  /\ \/ Asks(c, Ops \ {"free"}) /\ faults < Faults /\ faults' = faults + 1
     \/ /\ \/ Asks(c, {"mode", "progress", "end"}) /\ q.id \notin Stored
           \/ Asks(c, {"discard"}) /\ q.id \notin Open
           \/ Asks(c, {"start"}) /\ Full
        /\ UNCHANGED faults
  /\ call' = [call EXCEPT ![c].step = "failed"]
  /\ UNCHANGED <<rows, session, starting, told, inbox, applying, done, ops>>

-----------------------------------------------------------------------------
(* Requests of a tab. *)

Request(c, t, q) ==
  /\ call[c].op = "free"
  /\ call' = [call EXCEPT ![c] = [q EXCEPT !.tab = t, !.step = "sent"]]

Asked == ops < MaxOps /\ ops' = ops + 1

Show(t, s) == session' = [session EXCEPT ![t] = s]

(* syncSessionFromRemote: a row replaces whatever is shown, no row clears it. *)
TakeOver(t, e) == Show(t, IF e = None THEN None ELSE FromEntry(e))

ModeChange(s, mode) == [Free EXCEPT !.op = "mode", !.id = s.id, !.mode = mode, !.cur = s]
Progress(s) == [Free EXCEPT !.op = "progress", !.id = s.id, !.sum = ManualSummary(s, TRUE)]
Ending(s) == [Free EXCEPT !.op = "end", !.id = s.id, !.sum = FinalSummary(s)]
Discard(s) == [Free EXCEPT !.op = "discard", !.id = s.id, !.mode = s.mode]
Fetch(i) == [Free EXCEPT !.op = "apply", !.id = i]

(* startSessionForDevice: another mode only changes the row that is there.  *)
Start(t, c, mode) ==
  /\ IF session[t] # None
     THEN /\ session[t].mode # mode
          /\ Request(c, t, ModeChange(session[t], mode))
          /\ UNCHANGED starting
     ELSE /\ ~starting[t]
          /\ Request(c, t, [Free EXCEPT !.op = "start", !.mode = mode])
          /\ starting' = [starting EXCEPT ![t] = TRUE]
  /\ Asked
  /\ UNCHANGED <<rows, session, told, inbox, applying, done, faults>>

(* syncActiveSessionModeForDevice. *)
SyncMode(t, c, mode) ==
  /\ session[t] # None /\ session[t].mode # mode
  /\ Request(c, t, ModeChange(session[t], mode))
  /\ Asked /\ UNCHANGED <<rows, session, starting, told, inbox, applying, done, faults>>

MarkStarted(t) ==
  /\ session[t] # None /\ ~session[t].started
  /\ Show(t, [session[t] EXCEPT !.started = TRUE])
  /\ Asked /\ UNCHANGED <<rows, starting, told, inbox, applying, call, done, faults>>

(* A stroke, a burst or an abort is done and its answer comes to the tab:   *)
(* the copy counts it at once, the row by a request.                        *)
Recorded(s, what) == IF what = "abort" THEN [s EXCEPT !.aborts = @ + 1]
                                       ELSE [s EXCEPT !.events = @ + 1]
Record(t, c, what) ==
  LET s == session[t]
      n == Recorded(s, what)
  IN /\ s # None /\ s.mode = "manual"
     /\ done[s.id].events + done[s.id].aborts < MaxDone
     /\ done' = [done EXCEPT ![s.id] = Recorded(@, what)]
     /\ Show(t, n)
     /\ Request(c, t, Progress(n))
     /\ Asked /\ UNCHANGED <<rows, starting, told, inbox, applying, faults>>

(* finalizeSessionFor: the end of a session, asked for with what the copy   *)
(* of the tab says now; endAutomaticSessionForDevice does so for automatic  *)
(* sessions only, endAllInProgressSessionsForSub for both.                  *)
Finalize(t, c) ==
  /\ session[t] # None
  /\ Request(c, t, Ending(session[t]))
  /\ Asked /\ UNCHANGED <<rows, session, starting, told, inbox, applying, done, faults>>

EndAutomatic(t, c) == session[t] # None /\ session[t].mode = "automatic" /\ Finalize(t, c)

EndAll(t, c) == Finalize(t, c)

(* endSessionForAccessoryForDevice: the scene is switched off. *)
Discards(s) == IF s.mode = "manual" THEN s.events = 0 /\ s.aborts = 0 ELSE ~s.started

Release(t, c) ==
  /\ session[t] # None
  /\ Request(c, t, IF Discards(session[t]) THEN Discard(session[t])
                                           ELSE Ending(session[t]))
  /\ Asked /\ UNCHANGED <<rows, session, starting, told, inbox, applying, done, faults>>

(* reconcileActiveSessionForMode and reconcileFromServer ask for the row in *)
(* progress; the one when a page is loaded, the other when it is shown.     *)
Rehydrate(t, c, mode) ==
  /\ session[t] = None
  /\ Request(c, t, [Free EXCEPT !.op = "rehydrate", !.mode = mode])
  /\ Asked /\ UNCHANGED <<rows, session, starting, told, inbox, applying, done, faults>>

Reconcile(t, c) ==
  /\ Request(c, t, [Free EXCEPT !.op = "reconcile", !.cur = session[t]])
  /\ Asked /\ UNCHANGED <<rows, session, starting, told, inbox, applying, done, faults>>

-----------------------------------------------------------------------------
(* Answers. *)

Close(c) == call' = [call EXCEPT ![c] = Free]

Returned(c, kinds) == call[c].step \in {"ok", "failed"} /\ call[c].op \in kinds /\ call[c].tab # Nobody

StartReturnsNoFinally(c) ==
  LET q == call[c] IN
  /\ Returned(c, {"start"})
  /\ IF q.step = "ok" THEN Show(q.tab, NewSession(q.answer.id, q.mode)) ELSE UNCHANGED session
  /\ starting' = [starting EXCEPT ![q.tab] = @ /\ q.step = "failed"]
  /\ Close(c)
  /\ UNCHANGED <<rows, told, inbox, applying, done, ops, faults>>

StartReturns(c) ==
  LET q == call[c] IN
  /\ Returned(c, {"start"})
  /\ starting' = [starting EXCEPT ![q.tab] = FALSE]
  /\ IF q.step = "ok" THEN Show(q.tab, NewSession(q.answer.id, q.mode)) ELSE UNCHANGED session
  /\ Close(c)
  /\ UNCHANGED <<rows, told, inbox, applying, done, ops, faults>>

(* What is set is the copy read before the request, with the new mode. *)
ModeReturns(c) ==
  LET q == call[c] IN
  /\ Returned(c, {"mode"})
  /\ IF q.step = "ok" THEN Show(q.tab, [q.cur EXCEPT !.mode = q.mode]) ELSE UNCHANGED session
  /\ Close(c)
  /\ UNCHANGED <<rows, starting, told, inbox, applying, done, ops, faults>>

ProgressReturns(c) ==
  /\ Returned(c, {"progress"})
  /\ Close(c)
  /\ UNCHANGED <<rows, session, starting, told, inbox, applying, done, ops, faults>>

(* The copy is cleared by device, whichever session it shows by now. *)
EndReturns(c) ==
  LET q == call[c] IN
  /\ Returned(c, {"end"})
  /\ IF q.step = "ok" THEN Show(q.tab, None) ELSE UNCHANGED session
  /\ Close(c)
  /\ UNCHANGED <<rows, starting, told, inbox, applying, done, ops, faults>>

(* A discard that fails becomes the end of the session shown by then, if it *)
(* still has that mode.                                                     *)
DiscardReturns(c) ==
  LET q == call[c]
      s == session[q.tab]
  IN /\ Returned(c, {"discard"})
     /\ IF q.step = "ok" THEN Show(q.tab, None) /\ Close(c)
        ELSE /\ UNCHANGED session
             /\ IF s # None /\ s.mode = q.mode
                THEN call' = [call EXCEPT ![c] = [Ending(s) EXCEPT !.tab = q.tab, !.step = "sent"]]
                ELSE Close(c)
     /\ UNCHANGED <<rows, starting, told, inbox, applying, done, ops, faults>>

RehydrateReturns(c) ==
  LET q == call[c] IN
  /\ Returned(c, {"rehydrate"})
  /\ IF /\ q.step = "ok" /\ Fits(q.answer, q.mode)
        /\ session[q.tab] = None /\ ~starting[q.tab]
     THEN Show(q.tab, FromEntry(q.answer))
     ELSE UNCHANGED session
  /\ Close(c)
  /\ UNCHANGED <<rows, starting, told, inbox, applying, done, ops, faults>>

-----------------------------------------------------------------------------
(* Between tabs. *)

SnapshotOf(s) == IF s = None THEN None ELSE [id |-> s.id, mode |-> s.mode]

(* The effect that runs after a tab has drawn a session of another id or    *)
(* mode; a change that came from another tab is told again.                 *)
Broadcast(t) ==
  /\ SnapshotOf(session[t]) # told[t]
  /\ \A u \in Tabs \ {t} : Len(inbox[u]) < MaxInbox
  /\ told' = [told EXCEPT ![t] = SnapshotOf(session[t])]
  /\ inbox' = [u \in Tabs |-> IF u = t THEN inbox[u] ELSE Append(inbox[u], told'[t])]
  /\ UNCHANGED <<rows, session, starting, applying, call, done, ops, faults>>

(* applySessionSnapshot up to its request. A message about the session that *)
(* is shown, or is being applied, is dropped.                               *)
Known(t, m) == \/ session[t] # None /\ session[t].id = m.id /\ m.mode # "manual"
               \/ applying[t] = m.id

Apply(t, c, m) ==
  /\ Request(c, t, Fetch(m.id))
  /\ applying' = [applying EXCEPT ![t] = m.id]

Receive(t, c) ==
  LET m == Head(inbox[t]) IN
  /\ inbox[t] # <<>> /\ m # Ask
  /\ inbox' = [inbox EXCEPT ![t] = Tail(@)]
  /\ \/ m = None /\ TakeOver(t, None) /\ UNCHANGED <<applying, call>>
     \/ m # None /\ Known(t, m) /\ UNCHANGED <<session, applying, call>>
     \/ m # None /\ ~Known(t, m) /\ Apply(t, c, m) /\ UNCHANGED session
  /\ UNCHANGED <<rows, starting, told, done, ops, faults>>

(* Its answer: the row, or nothing if the row in progress is another one.  *)
ApplyReturnsUnparsed(c) ==
  LET q == call[c] IN
  /\ Returned(c, {"apply"})
  /\ Show(q.tab, q.answer)
  /\ applying' = [applying EXCEPT ![q.tab] = 0]
  /\ Close(c)
  /\ UNCHANGED <<rows, starting, told, inbox, done, ops, faults>>

ApplyReturns(c) ==
  LET q == call[c] IN
  /\ Returned(c, {"apply"})
  /\ IF q.step = "ok"
     THEN TakeOver(q.tab, IF q.answer.id = q.id /\ Rehydratable(q.answer) THEN q.answer ELSE None)
     ELSE UNCHANGED session
  /\ applying' = [applying EXCEPT ![q.tab] = IF @ = q.id THEN 0 ELSE @]
  /\ Close(c)
  /\ UNCHANGED <<rows, starting, told, inbox, done, ops, faults>>

(* reconcileFromServer. *)
ReconcileReturns(c) ==
  LET q == call[c]
      e == q.answer
      m == SnapshotOf(e)
      follows == q.step = "ok" /\ e # None /\ e.id # q.cur.id /\ Rehydratable(e) /\ ~Known(q.tab, m)
  IN /\ Returned(c, {"reconcile"})
     /\ IF q.step = "ok" /\ e = None /\ q.cur # None /\ q.cur.mode # "manual"
        THEN TakeOver(q.tab, None) ELSE UNCHANGED session
     /\ IF follows
        THEN /\ call' = [call EXCEPT ![c] = [Fetch(e.id) EXCEPT !.tab = q.tab, !.step = "sent"]]
             /\ applying' = [applying EXCEPT ![q.tab] = e.id]
        ELSE Close(c) /\ UNCHANGED applying
     /\ UNCHANGED <<rows, starting, told, inbox, done, ops, faults>>

(* A page is loaded again: its copy is gone, nobody waits for its requests, *)
(* and it asks the other tabs for what they show.                           *)
Reload(t) ==
  /\ faults < Faults /\ faults' = faults + 1
  /\ \A u \in Tabs \ {t} : Len(inbox[u]) < MaxInbox
  /\ Show(t, None)
  /\ starting' = [starting EXCEPT ![t] = FALSE]
  /\ told' = [told EXCEPT ![t] = None]
  /\ applying' = [applying EXCEPT ![t] = 0]
  /\ inbox' = [u \in Tabs |-> IF u = t THEN <<>> ELSE Append(inbox[u], Ask)]
  /\ call' = [c \in Calls |-> IF call[c].tab = t THEN [call[c] EXCEPT !.tab = Nobody] ELSE call[c]]
  /\ UNCHANGED <<rows, done, ops>>

(* broadcastLocalState. *)
TellAgain(t) ==
  /\ inbox[t] # <<>> /\ Head(inbox[t]) = Ask
  /\ \A u \in Tabs \ {t} : Len(inbox[u]) < MaxInbox
  /\ inbox' = [u \in Tabs |->
                 IF u = t THEN Tail(inbox[u])
                 ELSE IF session[t] = None THEN inbox[u]
                 ELSE Append(inbox[u], SnapshotOf(session[t]))]
  /\ UNCHANGED <<rows, session, starting, told, applying, call, done, ops, faults>>

Unheard(c) ==
  /\ call[c].op # "free" /\ call[c].step # "sent" /\ call[c].tab = Nobody
  /\ Close(c)
  /\ UNCHANGED <<rows, session, starting, told, inbox, applying, done, ops, faults>>

-----------------------------------------------------------------------------
Init ==
  /\ rows = [i \in Ids |-> NoRow]
  /\ session = [t \in Tabs |-> None]
  /\ starting = [t \in Tabs |-> FALSE]
  /\ told = [t \in Tabs |-> None]
  /\ inbox = [t \in Tabs |-> <<>>]
  /\ applying = [t \in Tabs |-> 0]
  /\ call = [c \in Calls |-> Free]
  /\ done = [i \in Ids |-> [events |-> 0, aborts |-> 0]]
  /\ ops = 0 /\ faults = 0

Server(c) ==
  \/ StartSession(c) \/ UpdateSession(c) \/ EndSession(c) \/ DeleteInProgressSession(c)
  \/ GetActiveSession(c) \/ Refuse(c)

Answer(c) ==
  \/ StartReturns(c) \/ ModeReturns(c) \/ ProgressReturns(c) \/ EndReturns(c) \/ DiscardReturns(c)
  \/ RehydrateReturns(c) \/ ReconcileReturns(c) \/ ApplyReturns(c) \/ Unheard(c)

Operator(t, c) ==
  \/ \E mode \in Modes : Start(t, c, mode) \/ SyncMode(t, c, mode) \/ Rehydrate(t, c, mode)
  \/ \E what \in {"action", "abort"} : Record(t, c, what)
  \/ MarkStarted(t) \/ EndAutomatic(t, c) \/ EndAll(t, c) \/ Release(t, c) \/ Reconcile(t, c)

Next ==
  \/ \E c \in Calls : Server(c) \/ Answer(c)
  \/ \E t \in Tabs, c \in Calls : Operator(t, c) \/ Receive(t, c)
  \/ \E t \in Tabs : Broadcast(t) \/ TellAgain(t) \/ Reload(t)

Fairness ==
  /\ \A c \in Calls : WF_vars(Server(c)) /\ WF_vars(Answer(c))
  /\ \A t \in Tabs : /\ WF_vars(\E c \in Calls : Receive(t, c))
                      /\ WF_vars(Broadcast(t)) /\ WF_vars(TellAgain(t))

Spec == Init /\ [][Next]_vars /\ Fairness

Symmetry == Permutations(Tabs) \cup Permutations(Calls)

-----------------------------------------------------------------------------
TypeOK ==
  /\ rows \in [Ids -> Rows \cup {NoRow}]
  /\ session \in [Tabs -> Sessions \cup {None}]
  /\ starting \in [Tabs -> BOOLEAN]
  /\ told \in [Tabs -> Snapshots \cup {None}]
  /\ inbox \in [Tabs -> Seq(Snapshots \cup {None, Ask})]
  /\ applying \in [Tabs -> 0..MaxSessions]
  /\ call \in [Calls -> [op : Ops, step : Steps, tab : Tabs \cup {Nobody}, id : 0..MaxSessions,
                         mode : Modes, sum : Summaries, cur : Sessions \cup {None},
                         answer : Entries \cup {None}]]
  /\ done \in [Ids -> Counts]
  /\ ops \in 0..MaxOps /\ faults \in 0..Faults

(* Neither the history nor any tab ever tells more strokes, bursts and      *)
(* aborts of a session than the device has done in it, whatever requests,   *)
(* answers and messages overtake each other (buildManualSummary and         *)
(* buildSessionFromEntry, from whatever copy they start).                   *)
Within(n, i) == n.events <= done[i].events /\ n.aborts <= done[i].aborts

NeverOverstated ==
  /\ \A i \in Ids : rows[i] # NoRow => Within(rows[i].sum, i)
  /\ \A t \in Tabs : session[t] # None => Within(session[t], session[t].id)

(* A tab has one start under way or none, and startingRef tells which: it   *)
(* neither asks for two rows at a time nor refuses every later start.       *)
Starts(t) == {c \in Calls : call[c].op = "start" /\ call[c].tab = t}

OneStart == \A t \in Tabs : IF starting[t] THEN \E c \in Calls : Starts(t) = {c} ELSE Starts(t) = {}

(* Rows and tabs tell no more than happened, and begin one session each.    *)
RowsTrue == NeverOverstated /\ OneStart

(* A row is only discarded while nothing has been recorded in it: "Only     *)
(* in-progress sessions with no recorded activity can be discarded."        *)
DiscardedWasEmpty ==
  [][\A i \in Ids : rows[i] # NoRow /\ rows'[i] = NoRow =>
        rows[i].sum.events = 0 /\ rows[i].sum.aborts = 0]_vars

(* When the operator has stopped, the tabs come to rest: what one tab takes *)
(* over from another does not set the two of them going for ever.           *)
Quiet == /\ \A c \in Calls : call[c].op = "free"
         /\ \A t \in Tabs : inbox[t] = <<>> /\ told[t] = SnapshotOf(session[t])

TabsSettle == <>[]Quiet
=============================================================================
