------------------------- MODULE SessionRowsProofs -------------------------
(***************************************************************************)
(* What is true of the session rows in every state, however many tabs,     *)
(* requests, sessions and operations there are. The claim that no row and  *)
(* no tab overstates what the device did is not inductive: a tab shows     *)
(* what an answer says, and the server stores what a request says. The     *)
(* invariant therefore speaks of the requests too, from the moment they    *)
(* are asked to the moment their answer is heard: whatever a request could *)
(* still write into a row or into a tab is already covered by what was     *)
(* done (RequestTrue). What was done only grows, so no delay, loss or      *)
(* overtaking can make it false.                                           *)
(***************************************************************************)
EXTENDS SessionRows, TLAPS

(* The counts n tell no more of session i than d says was done. *)
Covered(n, i, d) == n.events <= d[i].events /\ n.aborts <= d[i].aborts

CallType == [op : Ops, step : Steps, tab : Tabs \cup {Nobody}, id : 0..MaxSessions,
             mode : Modes, sum : Summaries, cur : Sessions \cup {None},
             answer : Entries \cup {None}]

(* What a request may still write is true: its summary into a row, the copy *)
(* read before it or its answer into a tab.                                 *)
RequestTrue(q, d) ==
  /\ q.op \in {"progress", "end"} => q.id \in Ids /\ Covered(q.sum, q.id, d)
  /\ q.op = "mode" => q.cur # None /\ Covered(q.cur, q.cur.id, d)
  /\ q.op = "apply" => q.id \in Ids
  /\ q.op = "start" /\ q.step = "ok" => q.answer # None
  /\ q.answer # None => Covered(q.answer.sum, q.answer.id, d)

RowTrue(r, i, d) == r # NoRow => Covered(r.sum, i, d)

CopyTrue(s, d) == s # None => Covered(s, s.id, d)

RowsInv ==
  /\ rows \in [Ids -> Rows \cup {NoRow}]
  /\ \A i \in Ids : RowTrue(rows[i], i, done)

CopiesInv ==
  /\ session \in [Tabs -> Sessions \cup {None}]
  /\ \A t \in Tabs : CopyTrue(session[t], done)

DoneInv ==
  /\ done \in [Ids -> Counts]
  /\ \A i \in Ids : done[i].events + done[i].aborts <= MaxDone

CallInv ==
  /\ call \in [Calls -> CallType]
  /\ \A c \in Calls : RequestTrue(call[c], done)

TabsInv ==
  /\ starting \in [Tabs -> BOOLEAN]
  /\ told \in [Tabs -> Snapshots \cup {None}]
  /\ inbox \in [Tabs -> Seq(Snapshots \cup {None, Ask})]
  /\ applying \in [Tabs -> 0..MaxSessions]
  /\ ops \in 0..MaxOps /\ faults \in 0..Faults

AllTrue == RowsInv /\ CopiesInv /\ DoneInv /\ CallInv

Inv == AllTrue /\ TabsInv /\ OneStart

-----------------------------------------------------------------------------
(* The bounds are numbers. *)
LEMMA Bounds ==
  /\ MaxSessions \in Nat \ {0} /\ MaxDone \in Nat /\ MaxInbox \in Nat
  /\ MaxOps \in Nat /\ Faults \in Nat /\ Nobody \notin Tabs
  /\ Ids \subseteq 0..MaxSessions /\ 0 \notin Ids /\ 0 \in 0..MaxDone
PROOF BY SessionRowsAssumption DEF SessionRowsAssumption, Ids

(* A session is not None, nor is an entry or a snapshot; a row is not NoRow. *)
LEMMA Somethings ==
  /\ \A x \in Sessions \cup Entries \cup Snapshots : x # None /\ x.id \in Ids
  /\ None.id = 0 /\ Ask \notin Snapshots /\ Ask # None
PROOF BY Bounds DEF Sessions, Entries, Snapshots, None, Ask, Modes

LEMMA RowsAreRows == \A r \in Rows : r # NoRow
PROOF BY DEF Rows, NoRow, Modes

(* What an empty place holds. *)
LEMMA FreeTyped ==
  /\ Free \in CallType /\ Free.op = "free" /\ Free.cur = None /\ Free.answer = None
  /\ \A d : RequestTrue(Free, d)
PROOF
  <1>1. StartSummary \in Summaries
    BY Bounds DEF StartSummary, Summaries, Kinds
  <1>2. Free \in CallType
    BY <1>1, Bounds DEF Free, CallType, Ops, Steps, Modes
  <1>3. Free.op = "free" /\ Free.cur = None /\ Free.answer = None
    BY DEF Free
  <1>4. QED  BY <1>2, <1>3 DEF RequestTrue

(* What a summary tells is what the copy counts. *)
LEMMA SummaryTells ==
  ASSUME NEW s \in Sessions, NEW g \in BOOLEAN
  PROVE  /\ ManualSummary(s, g) \in Summaries
         /\ ManualSummary(s, g).events = s.events
         /\ ManualSummary(s, g).aborts = s.aborts
PROOF BY DEF ManualSummary, Summaries, Sessions, Kinds

(* The requests of a tab about the session s it shows, or by its id. *)
LEMMA AskedOfSession ==
  ASSUME NEW s \in Sessions, NEW mode \in Modes
  PROVE  /\ ModeChange(s, mode) \in CallType
         /\ ModeChange(s, mode).op = "mode" /\ ModeChange(s, mode).cur = s
         /\ ModeChange(s, mode).answer = None
         /\ Discard(s) \in CallType
         /\ Discard(s).op = "discard" /\ Discard(s).answer = None
PROOF
  <1>1. s.id \in 0..MaxSessions /\ s.mode \in Modes
    BY Bounds DEF Sessions
  <1>2. {"mode", "discard"} \subseteq Ops
    BY DEF Ops
  <1>3. QED  BY <1>1, <1>2, FreeTyped DEF ModeChange, Discard, CallType

LEMMA ToldOfSession ==
  ASSUME NEW s \in Sessions
  PROVE  /\ Progress(s) \in CallType
         /\ Progress(s).op = "progress" /\ Progress(s).answer = None
         /\ Progress(s).id = s.id
         /\ Progress(s).sum.events = s.events /\ Progress(s).sum.aborts = s.aborts
         /\ Ending(s) \in CallType
         /\ Ending(s).op = "end" /\ Ending(s).answer = None
         /\ Ending(s).id = s.id
         /\ Ending(s).sum.events = s.events /\ Ending(s).sum.aborts = s.aborts
PROOF
  <1> DEFINE p == ManualSummary(s, TRUE)
             f == ManualSummary(s, FALSE)
  <1>1. /\ p \in Summaries /\ p.events = s.events /\ p.aborts = s.aborts
        /\ f \in Summaries /\ f.events = s.events /\ f.aborts = s.aborts
    BY SummaryTells
  <1>2. /\ Progress(s) = [Free EXCEPT !.op = "progress", !.id = s.id, !.sum = p]
        /\ Ending(s) = [Free EXCEPT !.op = "end", !.id = s.id, !.sum = f]
    BY DEF Progress, Ending, FinalSummary
  <1> HIDE DEF p, f
  <1>3. s.id \in 0..MaxSessions
    BY Bounds DEF Sessions
  <1>4. {"progress", "end"} \subseteq Ops
    BY DEF Ops
  <1>5. QED  BY <1>1, <1>2, <1>3, <1>4, FreeTyped, ZenonT(40) DEF CallType

LEMMA AskedById ==
  ASSUME NEW i \in Ids
  PROVE  /\ Fetch(i) \in CallType
         /\ Fetch(i).op = "apply" /\ Fetch(i).id = i /\ Fetch(i).answer = None
PROOF
  <1>1. "apply" \in Ops /\ i \in 0..MaxSessions
    BY Bounds DEF Ops
  <1>2. QED  BY <1>1, FreeTyped DEF Fetch, CallType

(* ... and those that read: of the row in progress or of a new one. *)
LEMMA AskedOfServer ==
  ASSUME NEW op \in Ops, NEW mode \in Modes, NEW s \in Sessions \cup {None}
  PROVE  /\ [Free EXCEPT !.op = op, !.mode = mode] \in CallType
         /\ [Free EXCEPT !.op = op, !.mode = mode].op = op
         /\ [Free EXCEPT !.op = op, !.mode = mode].answer = None
         /\ [Free EXCEPT !.op = op, !.cur = s] \in CallType
         /\ [Free EXCEPT !.op = op, !.cur = s].op = op
         /\ [Free EXCEPT !.op = op, !.cur = s].answer = None
PROOF BY FreeTyped DEF CallType

(* A request that says nothing false says nothing false once it is sent. *)
LEMMA SentTrue ==
  ASSUME NEW q \in CallType, NEW t \in Tabs, NEW d,
         RequestTrue(q, d) \/ (q.op = "start" /\ q.answer = None)
  PROVE  LET n == [q EXCEPT !.tab = t, !.step = "sent"] IN
         n \in CallType /\ RequestTrue(n, d) /\ n.op = q.op /\ n.tab = t
PROOF
  <1> DEFINE n == [q EXCEPT !.tab = t, !.step = "sent"]
  <1>1. "sent" \in Steps
    BY DEF Steps
  <1>2. n \in CallType
    BY <1>1 DEF CallType
  <1>3. /\ n.op = q.op /\ n.tab = t /\ n.step = "sent" /\ n.id = q.id /\ n.sum = q.sum
        /\ n.cur = q.cur /\ n.answer = q.answer
    BY DEF CallType
  <1> HIDE DEF n
  <1>4. RequestTrue(n, d)
    BY <1>3 DEF RequestTrue
  <1>5. QED  BY <1>2, <1>3, <1>4 DEF n

(* What a row says when a tab takes it over. *)
LEMMA EntryTakenOver ==
  ASSUME NEW e \in Entries, NEW d \in [Ids -> Counts], Covered(e.sum, e.id, d)
  PROVE  /\ FromEntry(e) \in Sessions /\ FromEntry(e).id = e.id
         /\ Covered(FromEntry(e), e.id, d)
PROOF
  <1>1. e.id \in Ids /\ e.mode \in Modes /\ e.sum \in Summaries
    BY DEF Entries
  <1>2. d[e.id].events \in 0..MaxDone /\ d[e.id].aborts \in 0..MaxDone
    BY <1>1 DEF Counts
  <1>3. /\ Parsed(e).events \in 0..MaxDone /\ Parsed(e).events <= d[e.id].events
        /\ Parsed(e).aborts \in 0..MaxDone /\ Parsed(e).aborts <= d[e.id].aborts
    BY <1>1, <1>2, Bounds DEF Parsed, Covered, Summaries
  <1> HIDE DEF Parsed
  <1>4. QED  BY <1>1, <1>3 DEF FromEntry, Sessions, Covered

-----------------------------------------------------------------------------
(* What was done only grows, and what it covered stays covered. *)
Grows(d, e) == \A i \in Ids : d[i].events <= e[i].events /\ d[i].aborts <= e[i].aborts

LEMMA CoveredStays ==
  ASSUME NEW d \in [Ids -> Counts], NEW e \in [Ids -> Counts], Grows(d, e),
         NEW n, n.events \in 0..MaxDone, n.aborts \in 0..MaxDone,
         NEW i \in Ids, Covered(n, i, d)
  PROVE  Covered(n, i, e)
PROOF
  <1>1. /\ d[i].events \in 0..MaxDone /\ d[i].aborts \in 0..MaxDone
        /\ e[i].events \in 0..MaxDone /\ e[i].aborts \in 0..MaxDone
    BY DEF Counts
  <1>2. QED  BY <1>1, Bounds DEF Grows, Covered

LEMMA CopyStays ==
  ASSUME NEW d \in [Ids -> Counts], NEW e \in [Ids -> Counts], Grows(d, e),
         NEW s \in Sessions \cup {None}, CopyTrue(s, d)
  PROVE  CopyTrue(s, e)
PROOF
  <1> SUFFICES ASSUME s # None PROVE Covered(s, s.id, e)
    BY DEF CopyTrue
  <1>1. s.id \in Ids /\ s.events \in 0..MaxDone /\ s.aborts \in 0..MaxDone
    BY DEF Sessions
  <1>2. QED  BY <1>1, CoveredStays DEF CopyTrue

LEMMA SummaryStays ==
  ASSUME NEW d \in [Ids -> Counts], NEW e \in [Ids -> Counts], Grows(d, e),
         NEW s \in Summaries, NEW i \in Ids, Covered(s, i, d)
  PROVE  Covered(s, i, e)
PROOF BY CoveredStays DEF Summaries

LEMMA RequestStays ==
  ASSUME NEW d \in [Ids -> Counts], NEW e \in [Ids -> Counts], Grows(d, e),
         NEW q \in CallType, RequestTrue(q, d)
  PROVE  RequestTrue(q, e)
PROOF
  <1>0. q.sum \in Summaries /\ q.cur \in Sessions \cup {None} /\ q.answer \in Entries \cup {None}
    BY DEF CallType
  <1>1. ASSUME q.op \in {"progress", "end"} PROVE q.id \in Ids /\ Covered(q.sum, q.id, e)
    BY <1>0, <1>1, SummaryStays DEF RequestTrue
  <1>2. ASSUME q.op = "mode" PROVE q.cur # None /\ Covered(q.cur, q.cur.id, e)
    BY <1>0, <1>2, CopyStays DEF RequestTrue, CopyTrue
  <1>3. ASSUME q.answer # None PROVE Covered(q.answer.sum, q.answer.id, e)
    <2>1. q.answer.sum \in Summaries /\ q.answer.id \in Ids
      BY <1>0, <1>3 DEF Entries
    <2>2. QED  BY <2>1, <1>3, SummaryStays DEF RequestTrue
  <1>4. QED  BY <1>1, <1>2, <1>3 DEF RequestTrue

-----------------------------------------------------------------------------
(* One request changes. *)
LEMMA Placed ==
  ASSUME NEW c \in Calls, NEW q \in CallType, RequestTrue(q, done'),
         call \in [Calls -> CallType], \A k \in Calls : RequestTrue(call[k], done'),
         call' = [call EXCEPT ![c] = q]
  PROVE  CallInv'
PROOF BY DEF CallInv

(* A call is a start of the same tab before and after, or of none. *)
SameStart(q, r) == \A t \in Tabs :
  (q.op = "start" /\ q.tab = t) <=> (r.op = "start" /\ r.tab = t)

(* A call that stays one leaves every tab's starts as they are. *)
LEMMA StartsKept ==
  ASSUME NEW c \in Calls, NEW q, call \in [Calls -> CallType],
         call' = [call EXCEPT ![c] = q], starting' = starting, OneStart,
         SameStart(q, call[c])
  PROVE  OneStart'
PROOF
  <1>1. \A t \in Tabs : Starts(t)' = Starts(t)
    BY DEF Starts, SameStart
  <1>2. QED  BY <1>1 DEF OneStart

(* A place is used, or given back, by a request that does not start one. *)
LEMMA Requested ==
  ASSUME Inv, done' = done, NEW c \in Calls, NEW t \in Tabs, NEW q \in CallType,
         RequestTrue(q, done), q.op # "start", Request(c, t, q)
  PROVE  CallInv' /\ (starting' = starting => OneStart')
PROOF
  <1> DEFINE n == [q EXCEPT !.tab = t, !.step = "sent"]
  <1>1. n \in CallType /\ RequestTrue(n, done) /\ n.op = q.op /\ n.tab = t
    BY SentTrue
  <1>2. call' = [call EXCEPT ![c] = n] /\ call[c].op = "free"
    BY DEF Request
  <1> HIDE DEF n
  <1>3. CallInv'
    BY <1>1, <1>2, Placed DEF Inv, AllTrue, CallInv
  <1>4. ASSUME starting' = starting PROVE OneStart'
    BY <1>1, <1>2, <1>4, StartsKept DEF Inv, AllTrue, CallInv, SameStart
  <1>5. QED  BY <1>3, <1>4

LEMMA Closed ==
  ASSUME Inv, done' = done, NEW c \in Calls, Close(c)
  PROVE  /\ CallInv'
         /\ starting' = starting /\ (call[c].op # "start" \/ call[c].tab = Nobody) => OneStart'
PROOF
  <1>1. CallInv'
    BY FreeTyped, Placed DEF Inv, AllTrue, CallInv, Close
  <1>2. ASSUME starting' = starting, call[c].op # "start" \/ call[c].tab = Nobody PROVE OneStart'
    BY <1>2, FreeTyped, Bounds, StartsKept DEF Inv, AllTrue, CallInv, Close, SameStart
  <1>3. QED  BY <1>1, <1>2

(* A tab shows something else that is true. *)
LEMMA Shown ==
  ASSUME CopiesInv, done' = done, NEW t \in Tabs, NEW s \in Sessions \cup {None},
         CopyTrue(s, done), Show(t, s)
  PROVE  CopiesInv'
PROOF BY DEF CopiesInv, Show

-----------------------------------------------------------------------------
(* The server. *)
LEMMA Replied ==
  ASSUME Inv, NEW c \in Calls, NEW e \in Entries \cup {None}, Reply(c, e), call[c].step = "sent",
         e # None => Covered(e.sum, e.id, done), call[c].op = "start" => e # None
  PROVE  CopiesInv' /\ DoneInv' /\ CallInv' /\ TabsInv' /\ OneStart'
PROOF
  <1>0. /\ call \in [Calls -> CallType] /\ call[c] \in CallType /\ RequestTrue(call[c], done)
        /\ {"ok", "failed"} \subseteq Steps
    BY DEF Inv, AllTrue, CallInv, Steps
  <1>1. UNCHANGED <<session, starting, told, inbox, applying, done, ops>>
    BY DEF Reply
  <1>2. PICK q \in CallType : /\ call' = [call EXCEPT ![c] = q]
                             /\ RequestTrue(q, done) /\ q.op = call[c].op /\ q.tab = call[c].tab
    <2>1. CASE call' = [call EXCEPT ![c].step = "ok", ![c].answer = e]
      <3> DEFINE q == [call[c] EXCEPT !.step = "ok", !.answer = e]
      <3>1. call' = [call EXCEPT ![c] = q]
        BY <1>0, <2>1
      <3>2. q \in CallType
        BY <1>0 DEF CallType
      <3>3. /\ q.op = call[c].op /\ q.tab = call[c].tab /\ q.id = call[c].id /\ q.sum = call[c].sum
            /\ q.cur = call[c].cur /\ q.answer = e
        BY <1>0 DEF CallType
      <3> HIDE DEF q
      <3>4. RequestTrue(q, done)
        BY <1>0, <3>3 DEF RequestTrue
      <3>5. QED  BY <3>1, <3>2, <3>3, <3>4
    <2>2. CASE call' = [call EXCEPT ![c].step = "failed"]
      <3> DEFINE q == [call[c] EXCEPT !.step = "failed"]
      <3>1. call' = [call EXCEPT ![c] = q]
        BY <1>0, <2>2
      <3>2. q \in CallType
        BY <1>0 DEF CallType
      <3>3. /\ q.op = call[c].op /\ q.tab = call[c].tab /\ q.id = call[c].id /\ q.sum = call[c].sum
            /\ q.cur = call[c].cur /\ q.answer = call[c].answer /\ q.step = "failed"
        BY <1>0 DEF CallType
      <3> HIDE DEF q
      <3>4. RequestTrue(q, done)
        BY <1>0, <3>3 DEF RequestTrue
      <3>5. QED  BY <3>1, <3>2, <3>3, <3>4
    <2>3. QED  BY <2>1, <2>2 DEF Reply
  <1>3. CallInv'
    BY <1>0, <1>1, <1>2, Placed DEF Inv, AllTrue, CallInv
  <1>4. OneStart'
    <2>1. SameStart(q, call[c])
      BY <1>2 DEF SameStart
    <2>2. call' = [call EXCEPT ![c] = q] /\ starting' = starting /\ OneStart
      BY <1>1, <1>2 DEF Inv
    <2>3. QED  BY <1>0, <2>1, <2>2, StartsKept
  <1>5. CopiesInv' /\ DoneInv'
    BY <1>1 DEF Inv, AllTrue, CopiesInv, DoneInv
  <1>6. faults' \in 0..Faults
    BY Bounds DEF Reply, Inv, TabsInv
  <1>7. TabsInv'
    BY <1>1, <1>6 DEF Inv, TabsInv
  <1>8. QED  BY <1>3, <1>4, <1>5, <1>7

(* A row changes to one that is true, or goes. *)
LEMMA RowSet ==
  ASSUME RowsInv, done' = done, NEW i \in Ids, NEW r \in Rows \cup {NoRow}, RowTrue(r, i, done),
         rows' = [rows EXCEPT ![i] = r]
  PROVE  RowsInv'
PROOF BY DEF RowsInv

LEMMA StartSessionInv == ASSUME Inv, NEW c \in Calls, StartSession(c) PROVE Inv'
PROOF
  <1> DEFINE row == [mode |-> call[c].mode, sum |-> StartSummary]
  <1>1. PICK i \in Ids : rows' = [rows EXCEPT ![i] = row] /\ Reply(c, Entry(i, row))
    BY DEF StartSession
  <1>2. call[c] \in CallType /\ call[c].step = "sent" /\ done[i] \in Counts /\ done' = done
    BY <1>1 DEF Inv, AllTrue, CallInv, DoneInv, StartSession, Asks, Reply
  <1>3. StartSummary \in Summaries /\ Covered(StartSummary, i, done)
    BY <1>2, Bounds DEF StartSummary, Summaries, Kinds, Covered, Counts
  <1>4. row \in Rows /\ row.sum = StartSummary /\ row.mode \in Modes
    BY <1>2, <1>3 DEF Rows, CallType
  <1> HIDE DEF row
  <1>5. Entry(i, row) \in Entries /\ Entry(i, row).sum = StartSummary /\ Entry(i, row).id = i
    BY <1>3, <1>4 DEF Entry, Entries
  <1> DEFINE e == Entry(i, row)
  <1>6. /\ e \in Entries \cup {None} /\ e # None /\ Covered(e.sum, e.id, done)
        /\ Reply(c, e)
    BY <1>1, <1>3, <1>5, Somethings
  <1> HIDE DEF e
  <1>7. CopiesInv' /\ DoneInv' /\ CallInv' /\ TabsInv' /\ OneStart'
    BY <1>2, <1>6, Replied
  <1>8. RowsInv'
    BY <1>1, <1>2, <1>3, <1>4, RowSet DEF Inv, AllTrue, RowTrue
  <1>9. QED  BY <1>7, <1>8 DEF Inv, AllTrue

LEMMA RepliedNone ==
  ASSUME Inv, NEW c \in Calls, Reply(c, None), call[c].step = "sent", call[c].op # "start"
  PROVE  CopiesInv' /\ DoneInv' /\ CallInv' /\ TabsInv' /\ OneStart'
PROOF BY Replied

(* The row that is in progress was stored. *)
LEMMA StoredRow ==
  ASSUME RowsInv, NEW i \in Stored
  PROVE  /\ i \in Ids /\ rows[i] \in Rows
         /\ rows[i].mode \in Modes /\ rows[i].sum \in Summaries /\ Covered(rows[i].sum, i, done)
PROOF BY DEF RowsInv, RowTrue, Stored, Rows

LEMMA UpdateSessionInv == ASSUME Inv, NEW c \in Calls, UpdateSession(c) PROVE Inv'
PROOF
  <1> DEFINE i == call[c].id
             m == [rows[i] EXCEPT !.mode = call[c].mode]
             s == [rows[i] EXCEPT !.sum = call[c].sum]
  <1>1. /\ i \in Stored /\ call[c].op \in {"mode", "progress"} /\ call[c].step = "sent"
        /\ Reply(c, None) /\ rows' = [rows EXCEPT ![i] = IF call[c].op = "mode" THEN m ELSE s]
    BY DEF UpdateSession, Asks
  <1>2. call[c] \in CallType /\ RequestTrue(call[c], done) /\ RowsInv /\ done' = done
    BY <1>1 DEF Inv, AllTrue, CallInv, Reply
  <1>3. /\ i \in Ids /\ rows[i] \in Rows
        /\ Covered(rows[i].sum, i, done)
    BY <1>1, <1>2, StoredRow
  <1>4. m \in Rows /\ m.sum = rows[i].sum
    BY <1>2, <1>3 DEF Rows, CallType
  <1>5. s \in Rows /\ s.sum = call[c].sum
    BY <1>2, <1>3 DEF Rows, CallType
  <1>6. call[c].op # "mode" => Covered(call[c].sum, i, done)
    BY <1>1, <1>2 DEF RequestTrue
  <1> HIDE DEF m, s
  <1>7. RowsInv'
    BY <1>1, <1>2, <1>3, <1>4, <1>5, <1>6, RowSet DEF RowTrue
  <1>8. QED  BY <1>1, <1>7, RepliedNone DEF Inv, AllTrue

LEMMA EndSessionInv == ASSUME Inv, NEW c \in Calls, EndSession(c) PROVE Inv'
PROOF
  <1> DEFINE i == call[c].id
             s == [rows[i] EXCEPT !.sum = call[c].sum]
  <1>1. /\ i \in Stored /\ call[c].op = "end" /\ call[c].step = "sent" /\ Reply(c, None)
    BY DEF EndSession, Asks
  <1>2. call[c] \in CallType /\ RequestTrue(call[c], done) /\ RowsInv /\ done' = done
    BY <1>1 DEF Inv, AllTrue, CallInv, Reply
  <1>3. i \in Ids /\ rows[i] \in Rows
    BY <1>1, <1>2, StoredRow
  <1>4. rows' = [rows EXCEPT ![i] = s]
    BY <1>2, <1>3 DEF EndSession, RowsInv
  <1>5. s \in Rows /\ s.sum = call[c].sum
    BY <1>2, <1>3 DEF Rows, CallType
  <1>6. Covered(call[c].sum, i, done)
    BY <1>1, <1>2 DEF RequestTrue
  <1> HIDE DEF s
  <1>7. RowsInv'
    BY <1>2, <1>3, <1>4, <1>5, <1>6, RowSet DEF RowTrue
  <1>8. QED  BY <1>1, <1>7, RepliedNone DEF Inv, AllTrue

LEMMA DeleteInProgressSessionInv ==
  ASSUME Inv, NEW c \in Calls, DeleteInProgressSession(c) PROVE Inv'
PROOF
  <1>1. /\ call[c].id \in Ids /\ call[c].op = "discard" /\ call[c].step = "sent" /\ Reply(c, None)
        /\ rows' = [rows EXCEPT ![call[c].id] = NoRow] /\ done' = done
    BY DEF DeleteInProgressSession, Asks, Open, Stored, Reply
  <1>2. RowsInv'
    BY <1>1, RowSet DEF RowTrue, Inv, AllTrue
  <1>3. QED  BY <1>1, <1>2, RepliedNone DEF Inv, AllTrue

LEMMA GetActiveSessionInv == ASSUME Inv, NEW c \in Calls, GetActiveSession(c) PROVE Inv'
PROOF
  <1>1. PICK e \in {None} \cup {Entry(i, rows[i]) : i \in Open} : Reply(c, e)
    BY DEF GetActiveSession
  <1>2. /\ call[c].op # "start" /\ call[c].step = "sent" /\ RowsInv /\ rows' = rows /\ done' = done
    BY <1>1 DEF GetActiveSession, Asks, Inv, AllTrue, Reply
  <1>3. RowsInv'
    BY <1>2 DEF RowsInv
  <1>4. CASE e = None
    BY <1>1, <1>2, <1>3, <1>4, RepliedNone DEF Inv, AllTrue
  <1>5. CASE e # None
    <2>1. PICK i \in Open : e = Entry(i, rows[i])
      BY <1>5
    <2>2. i \in Stored
      BY DEF Open
    <2>3. /\ i \in Ids /\ rows[i] \in Rows /\ rows[i].mode \in Modes
          /\ rows[i].sum \in Summaries /\ Covered(rows[i].sum, i, done)
      BY <1>2, <2>2, StoredRow
    <2>4. e \in Entries /\ e.sum = rows[i].sum /\ e.id = i
      BY <2>1, <2>3 DEF Entry, Entries
    <2>5. Covered(e.sum, e.id, done)
      BY <2>3, <2>4
    <2>6. CopiesInv' /\ DoneInv' /\ CallInv' /\ TabsInv' /\ OneStart'
      BY <1>1, <1>2, <2>4, <2>5, Replied
    <2>7. QED  BY <1>3, <2>6 DEF Inv, AllTrue
  <1>6. QED  BY <1>4, <1>5

LEMMA RefuseInv == ASSUME Inv, NEW c \in Calls, Refuse(c) PROVE Inv'
PROOF
  <1> DEFINE q == [call[c] EXCEPT !.step = "failed"]
  <1>0. /\ call \in [Calls -> CallType] /\ call[c] \in CallType /\ RequestTrue(call[c], done)
        /\ "failed" \in Steps /\ call' = [call EXCEPT ![c].step = "failed"]
        /\ UNCHANGED <<rows, session, starting, told, inbox, applying, done, ops>>
    BY DEF Inv, AllTrue, CallInv, Steps, Refuse
  <1>1. call' = [call EXCEPT ![c] = q]
    BY <1>0
  <1>2. q \in CallType
    BY <1>0 DEF CallType
  <1>3. /\ q.op = call[c].op /\ q.tab = call[c].tab /\ q.id = call[c].id /\ q.sum = call[c].sum
        /\ q.cur = call[c].cur /\ q.answer = call[c].answer /\ q.step = "failed"
    BY <1>0 DEF CallType
  <1> HIDE DEF q
  <1>4. RequestTrue(q, done)
    BY <1>0, <1>3 DEF RequestTrue
  <1>5. CallInv'
    BY <1>0, <1>1, <1>2, <1>4, Placed DEF Inv, AllTrue, CallInv
  <1>6. OneStart'
    <2>1. SameStart(q, call[c])
      BY <1>3 DEF SameStart
    <2>2. starting' = starting /\ OneStart /\ call \in [Calls -> CallType]
      BY <1>0 DEF Inv
    <2>3. QED  BY <1>1, <2>1, <2>2, StartsKept
  <1>7. RowsInv' /\ CopiesInv' /\ DoneInv'
    BY <1>0 DEF Inv, AllTrue, RowsInv, CopiesInv, DoneInv
  <1>8. faults' \in 0..Faults
    BY Bounds DEF Refuse, Inv, TabsInv
  <1>9. TabsInv'
    BY <1>0, <1>8 DEF Inv, TabsInv
  <1>10. QED  BY <1>5, <1>6, <1>7, <1>9 DEF Inv, AllTrue

-----------------------------------------------------------------------------
(* The operator. *)

(* One more operation, which only asks for something. *)
LEMMA OnlyAsks ==
  ASSUME Inv, NEW c \in Calls, NEW t \in Tabs, NEW q \in CallType, RequestTrue(q, done),
         q.op # "start", Request(c, t, q), Asked,
         UNCHANGED <<rows, session, starting, told, inbox, applying, done, faults>>
  PROVE  Inv'
PROOF
  <1>1. CallInv' /\ OneStart'
    BY Requested
  <1>2. RowsInv' /\ CopiesInv' /\ DoneInv'
    BY DEF Inv, AllTrue, RowsInv, CopiesInv, DoneInv
  <1>3. ops' \in 0..MaxOps
    BY Bounds DEF Asked, Inv, TabsInv
  <1>4. TabsInv'
    BY <1>3 DEF Inv, TabsInv
  <1>5. QED  BY <1>1, <1>2, <1>4 DEF Inv, AllTrue

LEMMA CopyIsSession ==
  ASSUME Inv, NEW t \in Tabs, session[t] # None
  PROVE  /\ session[t] \in Sessions /\ session[t].id \in Ids
         /\ Covered(session[t], session[t].id, done)
PROOF BY DEF Inv, AllTrue, CopiesInv, CopyTrue, Sessions

LEMMA ModeAsked ==
  ASSUME Inv, NEW t \in Tabs, session[t] # None, NEW mode \in Modes
  PROVE  LET q == ModeChange(session[t], mode) IN
         q \in CallType /\ RequestTrue(q, done) /\ q.op # "start"
PROOF
  <1> DEFINE q == ModeChange(session[t], mode)
  <1>1. q \in CallType /\ q.op = "mode" /\ q.cur = session[t] /\ q.answer = None
    BY CopyIsSession, AskedOfSession
  <1> HIDE DEF q
  <1>2. RequestTrue(q, done)
    BY <1>1, CopyIsSession DEF RequestTrue
  <1>3. QED  BY <1>1, <1>2 DEF q

LEMMA EndAsked ==
  ASSUME Inv, NEW t \in Tabs, session[t] # None
  PROVE  LET q == Ending(session[t]) IN
         q \in CallType /\ RequestTrue(q, done) /\ q.op # "start"
PROOF
  <1> DEFINE q == Ending(session[t])
  <1>1. /\ q \in CallType /\ q.op = "end" /\ q.answer = None /\ q.id = session[t].id
        /\ q.sum.events = session[t].events /\ q.sum.aborts = session[t].aborts
    BY CopyIsSession, ToldOfSession
  <1> HIDE DEF q
  <1>2. RequestTrue(q, done)
    BY <1>1, CopyIsSession DEF RequestTrue, Covered
  <1>3. QED  BY <1>1, <1>2 DEF q

LEMMA DiscardAsked ==
  ASSUME Inv, NEW t \in Tabs, session[t] # None
  PROVE  LET q == Discard(session[t]) IN
         q \in CallType /\ RequestTrue(q, done) /\ q.op # "start"
PROOF
  <1> DEFINE q == Discard(session[t])
  <1>0. "manual" \in Modes
    BY DEF Modes
  <1>1. q \in CallType /\ q.op = "discard" /\ q.answer = None
    BY <1>0, CopyIsSession, AskedOfSession
  <1> HIDE DEF q
  <1>2. RequestTrue(q, done)
    BY <1>1 DEF RequestTrue
  <1>3. QED  BY <1>1, <1>2 DEF q

LEMMA ReadAsked ==
  ASSUME Inv, NEW t \in Tabs, NEW mode \in Modes
  PROVE  LET q == [Free EXCEPT !.op = "rehydrate", !.mode = mode]
             r == [Free EXCEPT !.op = "reconcile", !.cur = session[t]]
         IN /\ q \in CallType /\ RequestTrue(q, done) /\ q.op # "start"
            /\ r \in CallType /\ RequestTrue(r, done) /\ r.op # "start"
PROOF
  <1> DEFINE q == [Free EXCEPT !.op = "rehydrate", !.mode = mode]
             r == [Free EXCEPT !.op = "reconcile", !.cur = session[t]]
  <1>0. "rehydrate" \in Ops /\ "reconcile" \in Ops /\ session[t] \in Sessions \cup {None}
    BY DEF Ops, Inv, AllTrue, CopiesInv
  <1>1. /\ q \in CallType /\ q.op = "rehydrate" /\ q.answer = None
        /\ r \in CallType /\ r.op = "reconcile" /\ r.answer = None
    BY <1>0, AskedOfServer, ZenonT(40)
  <1> HIDE DEF q, r
  <1>2. RequestTrue(q, done) /\ RequestTrue(r, done)
    BY <1>1 DEF RequestTrue
  <1>3. QED  BY <1>1, <1>2 DEF q, r

LEMMA FetchAsked ==
  ASSUME NEW i \in Ids, NEW d
  PROVE  Fetch(i) \in CallType /\ RequestTrue(Fetch(i), d) /\ Fetch(i).op # "start"
PROOF BY AskedById DEF RequestTrue

(* A start is asked for: the tab had none under way. *)
LEMMA StartAsked ==
  ASSUME Inv, NEW t \in Tabs, NEW c \in Calls, NEW mode \in Modes, ~starting[t],
         Request(c, t, [Free EXCEPT !.op = "start", !.mode = mode]),
         starting' = [starting EXCEPT ![t] = TRUE], done' = done
  PROVE  CallInv' /\ OneStart'
PROOF
  <1> DEFINE q == [Free EXCEPT !.op = "start", !.mode = mode]
             n == [q EXCEPT !.tab = t, !.step = "sent"]
  <1>0. "start" \in Ops
    BY DEF Ops
  <1>1. q \in CallType /\ q.op = "start" /\ q.answer = None
    BY <1>0, AskedOfServer
  <1>2. call' = [call EXCEPT ![c] = n] /\ call[c].op = "free"
    BY DEF Request
  <1> HIDE DEF q
  <1>3. n \in CallType /\ RequestTrue(n, done) /\ n.op = "start" /\ n.tab = t
    BY <1>1, SentTrue
  <1> HIDE DEF n
  <1>4. CallInv'
    BY <1>2, <1>3, Placed DEF Inv, AllTrue, CallInv
  <1>5. call \in [Calls -> CallType] /\ OneStart /\ starting \in [Tabs -> BOOLEAN]
    BY DEF Inv, AllTrue, CallInv, TabsInv
  <1>6. Starts(t) = {}
    BY <1>5 DEF OneStart
  <1>7. Starts(t)' = {c}
    BY <1>2, <1>3, <1>5, <1>6 DEF Starts
  <1>8. \A u \in Tabs \ {t} : Starts(u)' = Starts(u)
    BY <1>2, <1>3, <1>5 DEF Starts
  <1>9. starting'[t] /\ \A u \in Tabs \ {t} : starting'[u] = starting[u]
    BY <1>5
  <1>10. OneStart'
    BY <1>5, <1>7, <1>8, <1>9 DEF OneStart
  <1>11. QED  BY <1>4, <1>10

LEMMA StartInv ==
  ASSUME Inv, NEW t \in Tabs, NEW c \in Calls, NEW mode \in Modes, Start(t, c, mode) PROVE Inv'
PROOF
  <1>1. CASE session[t] # None
    <2> DEFINE q == ModeChange(session[t], mode)
    <2>1. q \in CallType /\ RequestTrue(q, done) /\ q.op # "start"
      BY <1>1, ModeAsked
    <2>2. Request(c, t, q) /\ starting' = starting
      BY <1>1 DEF Start
    <2>3. Asked /\ UNCHANGED <<rows, session, told, inbox, applying, done, faults>>
      BY DEF Start
    <2> HIDE DEF q
    <2>4. QED  BY <2>1, <2>2, <2>3, OnlyAsks
  <1>2. CASE session[t] = None
    <2>1. /\ ~starting[t] /\ Request(c, t, [Free EXCEPT !.op = "start", !.mode = mode])
          /\ starting' = [starting EXCEPT ![t] = TRUE]
      BY <1>2 DEF Start
    <2>2. Asked /\ UNCHANGED <<rows, session, told, inbox, applying, done, faults>>
      BY DEF Start
    <2>3. CallInv' /\ OneStart'
      BY <2>1, <2>2, StartAsked
    <2>4. RowsInv' /\ CopiesInv' /\ DoneInv'
      BY <2>2 DEF Inv, AllTrue, RowsInv, CopiesInv, DoneInv
    <2>5. ops' \in 0..MaxOps
      BY <2>2, Bounds DEF Asked, Inv, TabsInv
    <2>6. TabsInv'
      BY <2>1, <2>2, <2>5 DEF Inv, TabsInv
    <2>7. QED  BY <2>3, <2>4, <2>6 DEF Inv, AllTrue
  <1>3. QED  BY <1>1, <1>2

LEMMA SyncModeInv ==
  ASSUME Inv, NEW t \in Tabs, NEW c \in Calls, NEW mode \in Modes, SyncMode(t, c, mode) PROVE Inv'
PROOF
  <1> DEFINE q == ModeChange(session[t], mode)
  <1>1. /\ session[t] # None /\ Request(c, t, q) /\ Asked
        /\ UNCHANGED <<rows, session, starting, told, inbox, applying, done, faults>>
    BY DEF SyncMode
  <1>2. q \in CallType /\ RequestTrue(q, done) /\ q.op # "start"
    BY <1>1, ModeAsked
  <1> HIDE DEF q
  <1>3. QED  BY <1>1, <1>2, OnlyAsks

LEMMA FinalizeInv == ASSUME Inv, NEW t \in Tabs, NEW c \in Calls, Finalize(t, c) PROVE Inv'
PROOF
  <1> DEFINE q == Ending(session[t])
  <1>1. /\ session[t] # None /\ Request(c, t, q) /\ Asked
        /\ UNCHANGED <<rows, session, starting, told, inbox, applying, done, faults>>
    BY DEF Finalize
  <1>2. q \in CallType /\ RequestTrue(q, done) /\ q.op # "start"
    BY <1>1, EndAsked
  <1> HIDE DEF q
  <1>3. QED  BY <1>1, <1>2, OnlyAsks

LEMMA ReleaseInv == ASSUME Inv, NEW t \in Tabs, NEW c \in Calls, Release(t, c) PROVE Inv'
PROOF
  <1> DEFINE q == IF Discards(session[t]) THEN Discard(session[t]) ELSE Ending(session[t])
  <1>1. /\ session[t] # None /\ Request(c, t, q) /\ Asked
        /\ UNCHANGED <<rows, session, starting, told, inbox, applying, done, faults>>
    BY DEF Release
  <1>2. q \in CallType /\ RequestTrue(q, done) /\ q.op # "start"
    <2>1. CASE Discards(session[t])
      BY <1>1, <2>1, DiscardAsked
    <2>2. CASE ~Discards(session[t])
      BY <1>1, <2>2, EndAsked
    <2>3. QED  BY <2>1, <2>2
  <1> HIDE DEF q
  <1>3. QED  BY <1>1, <1>2, OnlyAsks

LEMMA RehydrateInv ==
  ASSUME Inv, NEW t \in Tabs, NEW c \in Calls, NEW mode \in Modes, Rehydrate(t, c, mode) PROVE Inv'
PROOF
  <1> DEFINE q == [Free EXCEPT !.op = "rehydrate", !.mode = mode]
  <1>1. /\ Request(c, t, q) /\ Asked
        /\ UNCHANGED <<rows, session, starting, told, inbox, applying, done, faults>>
    BY DEF Rehydrate
  <1>2. q \in CallType /\ RequestTrue(q, done) /\ q.op # "start"
    BY ReadAsked
  <1> HIDE DEF q
  <1>3. QED  BY <1>1, <1>2, OnlyAsks

LEMMA ReconcileInv == ASSUME Inv, NEW t \in Tabs, NEW c \in Calls, Reconcile(t, c) PROVE Inv'
PROOF
  <1> DEFINE q == [Free EXCEPT !.op = "reconcile", !.cur = session[t]]
  <1>1. /\ Request(c, t, q) /\ Asked
        /\ UNCHANGED <<rows, session, starting, told, inbox, applying, done, faults>>
    BY DEF Reconcile
  <1>2. "manual" \in Modes
    BY DEF Modes
  <1>3. q \in CallType /\ RequestTrue(q, done) /\ q.op # "start"
    BY <1>2, ReadAsked
  <1> HIDE DEF q
  <1>4. QED  BY <1>1, <1>3, OnlyAsks

LEMMA MarkStartedInv == ASSUME Inv, NEW t \in Tabs, MarkStarted(t) PROVE Inv'
PROOF
  <1> DEFINE n == [session[t] EXCEPT !.started = TRUE]
  <1>1. /\ session[t] # None /\ Show(t, n) /\ Asked
        /\ UNCHANGED <<rows, starting, told, inbox, applying, call, done, faults>>
    BY DEF MarkStarted
  <1>2. session[t] \in Sessions /\ Covered(session[t], session[t].id, done)
    BY <1>1, CopyIsSession
  <1>3. n \in Sessions /\ n.id = session[t].id /\ n.events = session[t].events
        /\ n.aborts = session[t].aborts
    BY <1>2 DEF Sessions
  <1> HIDE DEF n
  <1>4. CopyTrue(n, done)
    BY <1>2, <1>3 DEF CopyTrue, Covered
  <1>5. CopiesInv'
    BY <1>1, <1>3, <1>4, Shown DEF Inv, AllTrue
  <1>6. RowsInv' /\ DoneInv' /\ CallInv'
    BY <1>1 DEF Inv, AllTrue, RowsInv, DoneInv, CallInv
  <1>7. OneStart'
    BY <1>1 DEF Inv, OneStart, Starts
  <1>8. ops' \in 0..MaxOps
    BY <1>1, Bounds DEF Asked, Inv, TabsInv
  <1>9. TabsInv'
    BY <1>1, <1>8 DEF Inv, TabsInv
  <1>10. QED  BY <1>5, <1>6, <1>7, <1>9 DEF Inv, AllTrue

(* What was recorded, is counted by the copy and by what was done alike. *)
LEMMA RecordInv ==
  ASSUME Inv, NEW t \in Tabs, NEW c \in Calls, NEW what, Record(t, c, what) PROVE Inv'
PROOF
  <1> DEFINE s == session[t]
             i == s.id
             n == Recorded(s, what)
             q == Progress(n)
  <1>1. /\ s # None /\ done[i].events + done[i].aborts < MaxDone
        /\ done' = [done EXCEPT ![i] = Recorded(@, what)]
        /\ Show(t, n) /\ Request(c, t, q) /\ Asked
        /\ UNCHANGED <<rows, starting, told, inbox, applying, faults>>
    BY DEF Record
  <1>2. s \in Sessions /\ i \in Ids /\ Covered(s, i, done)
    BY <1>1, CopyIsSession
  <1>3. done \in [Ids -> Counts] /\ DoneInv
    BY DEF Inv, AllTrue, DoneInv
  <1>4. done'[i] = Recorded(done[i], what) /\ \A j \in Ids \ {i} : done'[j] = done[j]
    BY <1>1, <1>2, <1>3
  <1>5. /\ done[i] \in Counts /\ done[i].events \in Nat /\ done[i].aborts \in Nat
        /\ s.events \in 0..MaxDone /\ s.aborts \in 0..MaxDone
    <2>1. done[i] \in Counts
      BY <1>2, <1>3
    <2>2. s.events \in 0..MaxDone /\ s.aborts \in 0..MaxDone
      BY <1>2 DEF Sessions
    <2> HIDE DEF s, i
    <2>3. QED  BY <2>1, <2>2, Bounds DEF Counts
  <1>6. /\ done'[i] \in Counts /\ done'[i].events + done'[i].aborts <= MaxDone
        /\ done[i].events <= done'[i].events /\ done[i].aborts <= done'[i].aborts
        /\ n \in Sessions /\ n.id = i /\ Covered(n, i, done')
    <2>1. CASE what = "abort"
      <3>1. done'[i] = [done[i] EXCEPT !.aborts = @ + 1] /\ n = [s EXCEPT !.aborts = @ + 1]
        BY <1>4, <2>1 DEF Recorded
      <3>2. /\ done'[i].events = done[i].events /\ done'[i].aborts = done[i].aborts + 1
            /\ n.events = s.events /\ n.aborts = s.aborts + 1 /\ n.id = i
        BY <1>2, <1>5, <3>1 DEF Counts, Sessions
      <3>3. done[i].aborts + 1 \in 0..MaxDone /\ s.aborts + 1 \in 0..MaxDone
        BY <1>1, <1>2, <1>5, Bounds DEF Covered
      <3>4. done'[i] \in Counts
        BY <1>5, <3>1, <3>3 DEF Counts
      <3>5. n \in Sessions
        BY <1>2, <3>1, <3>3 DEF Sessions
      <3> HIDE DEF n, s
      <3>6. QED  BY <1>1, <1>2, <1>5, <3>2, <3>4, <3>5, Bounds DEF Covered
    <2>2. CASE what # "abort"
      <3>1. done'[i] = [done[i] EXCEPT !.events = @ + 1] /\ n = [s EXCEPT !.events = @ + 1]
        BY <1>4, <2>2 DEF Recorded
      <3>2. /\ done'[i].aborts = done[i].aborts /\ done'[i].events = done[i].events + 1
            /\ n.aborts = s.aborts /\ n.events = s.events + 1 /\ n.id = i
        BY <1>2, <1>5, <3>1 DEF Counts, Sessions
      <3>3. done[i].events + 1 \in 0..MaxDone /\ s.events + 1 \in 0..MaxDone
        BY <1>1, <1>2, <1>5, Bounds DEF Covered
      <3>4. done'[i] \in Counts
        BY <1>5, <3>1, <3>3 DEF Counts
      <3>5. n \in Sessions
        BY <1>2, <3>1, <3>3 DEF Sessions
      <3> HIDE DEF n, s
      <3>6. QED  BY <1>1, <1>2, <1>5, <3>2, <3>4, <3>5, Bounds DEF Covered
    <2>3. QED  BY <2>1, <2>2
  <1> HIDE DEF n, s
  <1>7. DoneInv' /\ done' \in [Ids -> Counts]
    BY <1>1, <1>3, <1>4, <1>6 DEF DoneInv
  <1>8. Grows(done, done')
    <2>1. \A j \in Ids : done[j].events \in Nat /\ done[j].aborts \in Nat
      BY <1>3, Bounds DEF Counts
    <2>2. QED  BY <1>4, <1>6, <2>1 DEF Grows
  <1>9. RowsInv'
    <2>1. ASSUME NEW j \in Ids, rows[j] # NoRow PROVE Covered(rows[j].sum, j, done')
      <3>1. rows[j].sum \in Summaries /\ Covered(rows[j].sum, j, done)
        BY <2>1 DEF Inv, AllTrue, RowsInv, RowTrue, Rows
      <3>2. QED  BY <1>3, <1>7, <1>8, <3>1, SummaryStays
    <2>2. QED  BY <1>1, <2>1 DEF Inv, AllTrue, RowsInv, RowTrue
  <1>10. CopiesInv'
    <2>1. session \in [Tabs -> Sessions \cup {None}] /\ \A u \in Tabs : CopyTrue(session[u], done)
      BY DEF Inv, AllTrue, CopiesInv
    <2>2. session' = [session EXCEPT ![t] = n]
      BY <1>1 DEF Show
    <2>3. \A u \in Tabs : CopyTrue(session[u], done')
      BY <1>3, <1>7, <1>8, <2>1, CopyStays
    <2>4. CopyTrue(n, done')
      BY <1>6 DEF CopyTrue
    <2>5. QED  BY <1>6, <2>1, <2>2, <2>3, <2>4 DEF CopiesInv
  <1>11. /\ q \in CallType /\ q.op = "progress" /\ q.answer = None /\ q.id = i
         /\ q.sum.events = n.events /\ q.sum.aborts = n.aborts
    BY <1>6, ToldOfSession
  <1> HIDE DEF q
  <1>12. RequestTrue(q, done')
    BY <1>2, <1>6, <1>11 DEF RequestTrue, Covered
  <1> DEFINE m == [q EXCEPT !.tab = t, !.step = "sent"]
  <1>13. m \in CallType /\ RequestTrue(m, done') /\ m.op = "progress"
    BY <1>11, <1>12, SentTrue
  <1>14. call' = [call EXCEPT ![c] = m] /\ call[c].op = "free"
    BY <1>1 DEF Request
  <1> HIDE DEF m
  <1>15. call \in [Calls -> CallType] /\ \A k \in Calls : RequestTrue(call[k], done)
    BY DEF Inv, AllTrue, CallInv
  <1>16. \A k \in Calls : RequestTrue(call[k], done')
    BY <1>3, <1>7, <1>8, <1>15, RequestStays
  <1>17. CallInv'
    BY <1>13, <1>14, <1>15, <1>16, Placed
  <1>18. OneStart'
    <2>1. SameStart(m, call[c])
      BY <1>13, <1>14 DEF SameStart
    <2>2. starting' = starting /\ OneStart
      BY <1>1 DEF Inv
    <2>3. QED  BY <1>14, <1>15, <2>1, <2>2, StartsKept
  <1>19. ops' \in 0..MaxOps
    BY <1>1, Bounds DEF Asked, Inv, TabsInv
  <1>20. TabsInv'
    BY <1>1, <1>19 DEF Inv, TabsInv
  <1>21. QED  BY <1>7, <1>9, <1>10, <1>17, <1>18, <1>20 DEF Inv, AllTrue

-----------------------------------------------------------------------------
(* Answers. *)

(* The request is over, and the tab shows something true. *)
LEMMA Heard ==
  ASSUME Inv, NEW c \in Calls, Close(c), call[c].op # "start" \/ call[c].tab = Nobody, CopiesInv',
         applying' \in [Tabs -> 0..MaxSessions],
         UNCHANGED <<rows, starting, told, inbox, done, ops, faults>>
  PROVE  Inv'
PROOF
  <1>1. CallInv' /\ OneStart'
    BY Closed
  <1>2. RowsInv' /\ DoneInv'
    BY DEF Inv, AllTrue, RowsInv, DoneInv
  <1>3. TabsInv'
    BY DEF Inv, TabsInv
  <1>4. QED  BY <1>1, <1>2, <1>3 DEF Inv, AllTrue

LEMMA CopiesSame ==
  ASSUME Inv, session' = session, done' = done PROVE CopiesInv'
PROOF BY DEF Inv, AllTrue, CopiesInv

(* Whoever waits for an answer is a tab. *)
LEMMA WaitingTab ==
  ASSUME Inv, NEW c \in Calls, call[c].tab # Nobody
  PROVE  /\ call[c] \in CallType /\ RequestTrue(call[c], done) /\ call[c].tab \in Tabs
         /\ session[call[c].tab] \in Sessions \cup {None}
         /\ call[c].answer \in Entries \cup {None} /\ call[c].cur \in Sessions \cup {None}
         /\ call[c].mode \in Modes /\ done \in [Ids -> Counts]
         /\ applying \in [Tabs -> 0..MaxSessions]
PROOF
  <1>1. call[c] \in CallType /\ RequestTrue(call[c], done)
    BY DEF Inv, AllTrue, CallInv
  <1>2. /\ call[c].tab \in Tabs \cup {Nobody} /\ call[c].answer \in Entries \cup {None}
        /\ call[c].cur \in Sessions \cup {None} /\ call[c].mode \in Modes
    BY <1>1 DEF CallType
  <1>3. QED  BY <1>1, <1>2 DEF Inv, AllTrue, CopiesInv, DoneInv, TabsInv

(* A tab that shows nothing overstates nothing. *)
LEMMA ShownNone ==
  ASSUME Inv, done' = done, NEW t \in Tabs, Show(t, None) PROVE CopiesInv'
PROOF BY Shown DEF CopyTrue, Inv, AllTrue

LEMMA ShownEntry ==
  ASSUME Inv, done' = done, NEW t \in Tabs, NEW e \in Entries, Covered(e.sum, e.id, done),
         Show(t, FromEntry(e))
  PROVE  CopiesInv'
PROOF
  <1>1. done \in [Ids -> Counts] /\ CopiesInv
    BY DEF Inv, AllTrue, DoneInv
  <1> DEFINE s == FromEntry(e)
  <1>2. s \in Sessions /\ s.id = e.id /\ Covered(s, e.id, done)
    BY <1>1, EntryTakenOver
  <1>3. Show(t, s)
    OBVIOUS
  <1> HIDE DEF s
  <1>4. CopyTrue(s, done)
    BY <1>2 DEF CopyTrue
  <1>5. QED  BY <1>1, <1>2, <1>3, <1>4, Shown

LEMMA StartReturnsInv == ASSUME Inv, NEW c \in Calls, StartReturns(c) PROVE Inv'
PROOF
  <1>0. PICK t \in Tabs : t = call[c].tab
    BY WaitingTab DEF StartReturns, Returned
  <1>1. /\ call[c].op = "start" /\ t # Nobody /\ call[c].step \in {"ok", "failed"}
        /\ starting' = [starting EXCEPT ![t] = FALSE] /\ Close(c)
        /\ UNCHANGED <<rows, told, inbox, applying, done, ops, faults>>
    BY <1>0 DEF StartReturns, Returned
  <1>2. /\ call[c] \in CallType /\ RequestTrue(call[c], done) /\ t \in Tabs
        /\ call[c].answer \in Entries \cup {None} /\ call[c].mode \in Modes
        /\ done \in [Ids -> Counts]
    BY <1>0, <1>1, WaitingTab
  <1>3. CopiesInv'
    <2>1. CASE call[c].step = "ok"
      <3> DEFINE n == NewSession(call[c].answer.id, call[c].mode)
      <3>1. Show(t, n)
        BY <1>0, <2>1 DEF StartReturns
      <3>2. call[c].answer \in Entries
        BY <1>1, <1>2, <2>1 DEF RequestTrue
      <3>3. call[c].answer.id \in Ids
        BY <3>2 DEF Entries
      <3>4. n \in Sessions /\ n.id = call[c].answer.id /\ n.events = 0 /\ n.aborts = 0
        BY <1>2, <3>3, Bounds DEF NewSession, Sessions
      <3>5. done[call[c].answer.id].events \in Nat /\ done[call[c].answer.id].aborts \in Nat
        <4>1. done[call[c].answer.id] \in Counts
          BY <1>2, <3>3
        <4> HIDE DEF n
        <4>2. QED  BY <4>1, Bounds DEF Counts
      <3> HIDE DEF n
      <3>6. CopyTrue(n, done)
        BY <3>4, <3>5 DEF CopyTrue, Covered
      <3>7. QED  BY <1>1, <1>2, <3>1, <3>4, <3>6, Shown DEF Inv, AllTrue
    <2>2. CASE call[c].step # "ok"
      BY <1>1, <2>2, CopiesSame DEF StartReturns
    <2>3. QED  BY <2>1, <2>2
  <1>4. CallInv'
    BY <1>1, Closed
  <1>5. OneStart'
    <2>1. /\ call \in [Calls -> CallType] /\ OneStart /\ starting \in [Tabs -> BOOLEAN]
          /\ call' = [call EXCEPT ![c] = Free] /\ c \in Starts(t) /\ Free.op # "start"
      BY <1>0, <1>1, FreeTyped DEF Inv, AllTrue, CallInv, TabsInv, Close, Starts
    <2>2. starting[t]
      BY <1>2, <2>1 DEF OneStart
    <2>3. Starts(t) = {c}
      BY <1>2, <2>1, <2>2 DEF OneStart
    <2>4. Starts(t)' = {}
      BY <1>1, <1>2, <2>1, <2>3 DEF Starts
    <2>5. \A u \in Tabs \ {t} : Starts(u)' = Starts(u)
      BY <1>1, <2>1 DEF Starts
    <2>6. ~starting'[t] /\ \A u \in Tabs \ {t} : starting'[u] = starting[u]
      BY <1>1, <1>2, <2>1
    <2>7. QED  BY <1>2, <2>1, <2>4, <2>5, <2>6 DEF OneStart
  <1>6. RowsInv' /\ DoneInv' /\ TabsInv'
    <2>1. RowsInv' /\ DoneInv'
      BY <1>1 DEF Inv, AllTrue, RowsInv, DoneInv
    <2>2. TabsInv'
      BY <1>1 DEF Inv, TabsInv
    <2>3. QED  BY <2>1, <2>2
  <1>7. QED  BY <1>3, <1>4, <1>5, <1>6 DEF Inv, AllTrue

LEMMA ModeReturnsInv == ASSUME Inv, NEW c \in Calls, ModeReturns(c) PROVE Inv'
PROOF
  <1> DEFINE t == call[c].tab
             n == [call[c].cur EXCEPT !.mode = call[c].mode]
  <1>1. /\ call[c].op = "mode" /\ t # Nobody /\ Close(c)
        /\ UNCHANGED <<rows, starting, told, inbox, applying, done, ops, faults>>
    BY DEF ModeReturns, Returned
  <1>2. /\ RequestTrue(call[c], done) /\ t \in Tabs
        /\ call[c].cur \in Sessions \cup {None} /\ call[c].mode \in Modes
        /\ applying \in [Tabs -> 0..MaxSessions]
    BY <1>1, WaitingTab
  <1>3. call[c].cur \in Sessions /\ Covered(call[c].cur, call[c].cur.id, done)
    BY <1>1, <1>2 DEF RequestTrue
  <1>4. /\ n \in Sessions /\ n.id = call[c].cur.id /\ n.events = call[c].cur.events
        /\ n.aborts = call[c].cur.aborts
    BY <1>2, <1>3 DEF Sessions
  <1>5. CopiesInv'
    <2>1. CASE call[c].step = "ok"
      <3>1. Show(t, n)
        BY <2>1 DEF ModeReturns
      <3> HIDE DEF n
      <3>2. CopyTrue(n, done)
        BY <1>3, <1>4 DEF CopyTrue, Covered
      <3>3. QED  BY <1>1, <1>2, <1>4, <3>1, <3>2, Shown DEF Inv, AllTrue
    <2>2. CASE call[c].step # "ok"
      BY <1>1, <2>2, CopiesSame DEF ModeReturns
    <2>3. QED  BY <2>1, <2>2
  <1>6. QED  BY <1>1, <1>2, <1>5, Heard

LEMMA ProgressReturnsInv == ASSUME Inv, NEW c \in Calls, ProgressReturns(c) PROVE Inv'
PROOF
  <1>1. /\ call[c].op = "progress" /\ Close(c)
        /\ UNCHANGED <<rows, session, starting, told, inbox, applying, done, ops, faults>>
    BY DEF ProgressReturns, Returned
  <1>2. CopiesInv' /\ applying \in [Tabs -> 0..MaxSessions]
    BY <1>1, CopiesSame DEF Inv, TabsInv
  <1>3. QED  BY <1>1, <1>2, Heard

LEMMA EndReturnsInv == ASSUME Inv, NEW c \in Calls, EndReturns(c) PROVE Inv'
PROOF
  <1>1. /\ call[c].op = "end" /\ call[c].tab # Nobody /\ Close(c)
        /\ UNCHANGED <<rows, starting, told, inbox, applying, done, ops, faults>>
    BY DEF EndReturns, Returned
  <1>2. call[c].tab \in Tabs /\ applying \in [Tabs -> 0..MaxSessions]
    BY <1>1, WaitingTab
  <1>3. CopiesInv'
    BY <1>1, <1>2, ShownNone, CopiesSame DEF EndReturns
  <1>4. QED  BY <1>1, <1>2, <1>3, Heard

LEMMA RehydrateReturnsInv == ASSUME Inv, NEW c \in Calls, RehydrateReturns(c) PROVE Inv'
PROOF
  <1> DEFINE q == call[c]
  <1>1. /\ q.op = "rehydrate" /\ q.tab # Nobody /\ Close(c)
        /\ UNCHANGED <<rows, starting, told, inbox, applying, done, ops, faults>>
        /\ (Fits(q.answer, q.mode) /\ Show(q.tab, FromEntry(q.answer))) \/ session' = session
    BY DEF RehydrateReturns, Returned
  <1>2. /\ q.tab \in Tabs /\ RequestTrue(q, done) /\ q.answer \in Entries \cup {None}
        /\ applying \in [Tabs -> 0..MaxSessions]
    BY <1>1, WaitingTab
  <1>3. CopiesInv'
    <2>1. CASE Fits(q.answer, q.mode) /\ Show(q.tab, FromEntry(q.answer))
      <3>1. q.answer \in Entries /\ Covered(q.answer.sum, q.answer.id, done)
        BY <1>2, <2>1 DEF Fits, RequestTrue
      <3>2. QED  BY <1>1, <1>2, <2>1, <3>1, ShownEntry
    <2>2. CASE session' = session
      BY <1>1, <2>2, CopiesSame
    <2>3. QED  BY <1>1, <2>1, <2>2
  <1>4. QED  BY <1>1, <1>2, <1>3, Heard

LEMMA ApplyReturnsInv == ASSUME Inv, NEW c \in Calls, ApplyReturns(c) PROVE Inv'
PROOF
  <1> DEFINE q == call[c]
             e == IF q.answer.id = q.id /\ Rehydratable(q.answer) THEN q.answer ELSE None
  <1>1. /\ q.op = "apply" /\ q.tab # Nobody /\ Close(c)
        /\ UNCHANGED <<rows, starting, told, inbox, done, ops, faults>>
        /\ applying' = [applying EXCEPT ![q.tab] = IF @ = q.id THEN 0 ELSE @]
    BY DEF ApplyReturns, Returned
  <1>2. TakeOver(q.tab, e) \/ session' = session
    BY DEF ApplyReturns
  <1>3. /\ q.tab \in Tabs /\ RequestTrue(q, done) /\ q.answer \in Entries \cup {None}
        /\ applying \in [Tabs -> 0..MaxSessions]
    BY <1>1, WaitingTab
  <1>4. applying' \in [Tabs -> 0..MaxSessions]
    BY <1>1, <1>3, Bounds
  <1>5. CopiesInv'
    <2>1. CASE TakeOver(q.tab, e) /\ e = None
      BY <1>1, <1>3, <2>1, ShownNone DEF TakeOver
    <2>2. CASE TakeOver(q.tab, e) /\ e # None
      <3>1. e = q.answer
        BY <2>2
      <3>2. q.answer \in Entries /\ Covered(q.answer.sum, q.answer.id, done)
        BY <1>3, <2>2, <3>1 DEF RequestTrue
      <3>3. Show(q.tab, FromEntry(q.answer))
        BY <2>2, <3>1 DEF TakeOver
      <3>4. QED  BY <1>1, <1>3, <3>2, <3>3, ShownEntry
    <2>3. CASE session' = session
      BY <1>1, <2>3, CopiesSame
    <2>4. QED  BY <1>2, <2>1, <2>2, <2>3
  <1>6. QED  BY <1>1, <1>4, <1>5, Heard

LEMMA UnheardInv == ASSUME Inv, NEW c \in Calls, Unheard(c) PROVE Inv'
PROOF
  <1>1. /\ call[c].tab = Nobody /\ Close(c)
        /\ UNCHANGED <<rows, session, starting, told, inbox, applying, done, ops, faults>>
    BY DEF Unheard
  <1>2. CopiesInv' /\ applying \in [Tabs -> 0..MaxSessions]
    BY <1>1, CopiesSame DEF Inv, TabsInv
  <1>3. QED  BY <1>1, <1>2, Heard

LEMMA DiscardReturnsInv == ASSUME Inv, NEW c \in Calls, DiscardReturns(c) PROVE Inv'
PROOF
  <1>0. PICK t \in Tabs : t = call[c].tab
    BY WaitingTab DEF DiscardReturns, Returned
  <1>1. /\ call[c].op = "discard" /\ call[c].tab # Nobody
        /\ UNCHANGED <<rows, starting, told, inbox, applying, done, ops, faults>>
    BY DEF DiscardReturns, Returned
  <1>2. applying \in [Tabs -> 0..MaxSessions]
    BY <1>1, WaitingTab
  <1>3. CopiesInv'
    BY <1>0, <1>1, ShownNone, CopiesSame DEF DiscardReturns
  <1>4. CASE Close(c)
    BY <1>1, <1>2, <1>3, <1>4, Heard
  <1>5. CASE ~Close(c)
    <2> DEFINE e == Ending(session[t])
               n == [e EXCEPT !.tab = t, !.step = "sent"]
    <2>1. call' = [call EXCEPT ![c] = n] /\ session[t] # None
      BY <1>0, <1>5 DEF DiscardReturns
    <2>2. e \in CallType /\ RequestTrue(e, done) /\ e.op # "start"
      BY <2>1, EndAsked
    <2> HIDE DEF e
    <2>3. n \in CallType /\ RequestTrue(n, done) /\ n.op # "start"
      BY <2>2, SentTrue
    <2> HIDE DEF n
    <2>4. CallInv'
      BY <1>1, <2>1, <2>3, Placed DEF Inv, AllTrue, CallInv
    <2>5. OneStart'
      <3>1. SameStart(n, call[c])
        BY <1>1, <2>3 DEF SameStart
      <3>2. starting' = starting /\ OneStart /\ call \in [Calls -> CallType]
        BY <1>1 DEF Inv, AllTrue, CallInv
      <3>3. call' = [call EXCEPT ![c] = n]
        BY <2>1
      <3>4. QED  BY <3>1, <3>2, <3>3, StartsKept
    <2>6. RowsInv' /\ DoneInv'
      BY <1>1 DEF Inv, AllTrue, RowsInv, DoneInv
    <2>7. TabsInv'
      BY <1>1 DEF Inv, TabsInv
    <2>8. QED  BY <1>3, <2>4, <2>5, <2>6, <2>7 DEF Inv, AllTrue
  <1>6. QED  BY <1>4, <1>5

LEMMA ReconcileReturnsInv == ASSUME Inv, NEW c \in Calls, ReconcileReturns(c) PROVE Inv'
PROOF
  <1>0. PICK t \in Tabs : t = call[c].tab
    BY WaitingTab DEF ReconcileReturns, Returned
  <1>1. /\ call[c].op = "reconcile" /\ call[c].tab # Nobody
        /\ UNCHANGED <<rows, starting, told, inbox, done, ops, faults>>
    BY DEF ReconcileReturns, Returned
  <1>2. applying \in [Tabs -> 0..MaxSessions] /\ call[c].answer \in Entries \cup {None}
    BY <1>1, WaitingTab
  <1>3. CopiesInv'
    <2>1. TakeOver(t, None) \/ session' = session
      BY <1>0 DEF ReconcileReturns
    <2>2. QED  BY <1>1, <2>1, ShownNone, CopiesSame DEF TakeOver
  <1>4. CASE Close(c) /\ applying' = applying
    BY <1>1, <1>2, <1>3, <1>4, Heard
  <1>5. CASE ~(Close(c) /\ applying' = applying)
    <2> DEFINE e == call[c].answer
               f == Fetch(e.id)
               n == [f EXCEPT !.tab = t, !.step = "sent"]
    <2>1. /\ e # None /\ call' = [call EXCEPT ![c] = n]
          /\ applying' = [applying EXCEPT ![t] = e.id]
      BY <1>0, <1>5 DEF ReconcileReturns
    <2>2. e.id \in Ids
      BY <1>2, <2>1 DEF Entries
    <2>3. f \in CallType /\ RequestTrue(f, done) /\ f.op # "start"
      BY <2>2, FetchAsked
    <2> HIDE DEF f
    <2>4. n \in CallType /\ RequestTrue(n, done) /\ n.op # "start"
      BY <2>3, SentTrue
    <2> HIDE DEF n
    <2>5. CallInv'
      BY <1>1, <2>1, <2>4, Placed DEF Inv, AllTrue, CallInv
    <2>6. OneStart'
      <3>1. SameStart(n, call[c])
        BY <1>1, <2>4 DEF SameStart
      <3>2. starting' = starting /\ OneStart /\ call \in [Calls -> CallType]
        BY <1>1 DEF Inv, AllTrue, CallInv
      <3>3. call' = [call EXCEPT ![c] = n]
        BY <2>1
      <3>4. QED  BY <3>1, <3>2, <3>3, StartsKept
    <2>7. RowsInv' /\ DoneInv'
      BY <1>1 DEF Inv, AllTrue, RowsInv, DoneInv
    <2>8. applying' \in [Tabs -> 0..MaxSessions]
      BY <1>2, <2>1, <2>2, Bounds
    <2>9. TabsInv'
      BY <1>1, <2>8 DEF Inv, TabsInv
    <2>10. QED  BY <1>3, <2>5, <2>6, <2>7, <2>9 DEF Inv, AllTrue
  <1>6. QED  BY <1>4, <1>5

-----------------------------------------------------------------------------
(* Between tabs. *)
LEMMA SnapshotTyped ==
  ASSUME NEW s \in Sessions \cup {None} PROVE SnapshotOf(s) \in Snapshots \cup {None}
PROOF BY DEF SnapshotOf, Sessions, Snapshots

(* Only the messages between the tabs change. *)
LEMMA OnlyMessages ==
  ASSUME Inv, told' \in [Tabs -> Snapshots \cup {None}],
         inbox' \in [Tabs -> Seq(Snapshots \cup {None, Ask})],
         UNCHANGED <<rows, session, starting, applying, call, done, ops, faults>>
  PROVE  Inv'
PROOF
  <1>1. RowsInv' /\ CopiesInv' /\ DoneInv' /\ CallInv'
    BY DEF Inv, AllTrue, RowsInv, CopiesInv, DoneInv, CallInv
  <1>2. OneStart'
    BY DEF Inv, OneStart, Starts
  <1>3. TabsInv'
    BY DEF Inv, TabsInv
  <1>4. QED  BY <1>1, <1>2, <1>3 DEF Inv, AllTrue

LEMMA BroadcastInv == ASSUME Inv, NEW t \in Tabs, Broadcast(t) PROVE Inv'
PROOF
  <1> DEFINE M == Snapshots \cup {None, Ask}
             m == SnapshotOf(session[t])
  <1>1. m \in Snapshots \cup {None}
    BY SnapshotTyped DEF Inv, AllTrue, CopiesInv
  <1> HIDE DEF m
  <1>2. /\ told' = [told EXCEPT ![t] = m] /\ told \in [Tabs -> Snapshots \cup {None}]
        /\ inbox' = [u \in Tabs |-> IF u = t THEN inbox[u] ELSE Append(inbox[u], told'[t])]
        /\ inbox \in [Tabs -> Seq(M)]
        /\ UNCHANGED <<rows, session, starting, applying, call, done, ops, faults>>
    BY DEF Broadcast, m, Inv, TabsInv
  <1>3. told' \in [Tabs -> Snapshots \cup {None}] /\ told'[t] \in M
    BY <1>1, <1>2
  <1> HIDE DEF M
  <1>4. inbox' \in [Tabs -> Seq(M)]
    BY <1>2, <1>3
  <1>5. QED  BY <1>2, <1>3, <1>4, OnlyMessages DEF M

LEMMA TellAgainInv == ASSUME Inv, NEW t \in Tabs, TellAgain(t) PROVE Inv'
PROOF
  <1> DEFINE M == Snapshots \cup {None, Ask}
             m == SnapshotOf(session[t])
  <1>1. m \in M
    BY SnapshotTyped DEF Inv, AllTrue, CopiesInv
  <1> HIDE DEF m
  <1>2. /\ inbox' = [u \in Tabs |-> IF u = t THEN Tail(inbox[u])
                                    ELSE IF session[t] = None THEN inbox[u]
                                    ELSE Append(inbox[u], m)]
        /\ inbox \in [Tabs -> Seq(M)] /\ inbox[t] # <<>>
        /\ told' = told /\ told \in [Tabs -> Snapshots \cup {None}]
        /\ UNCHANGED <<rows, session, starting, applying, call, done, ops, faults>>
    BY DEF TellAgain, m, Inv, TabsInv
  <1> HIDE DEF M
  <1>3. inbox' \in [Tabs -> Seq(M)]
    <2>1. ASSUME NEW u \in Tabs PROVE inbox'[u] \in Seq(M)
      <3>1. inbox[u] \in Seq(M)
        BY <1>2
      <3>2. CASE u = t
        BY <1>2, <3>1, <3>2
      <3>3. CASE u # t
        BY <1>1, <1>2, <3>1, <3>3
      <3>4. QED  BY <3>2, <3>3
    <2>2. QED  BY <1>2, <2>1
  <1>4. QED  BY <1>2, <1>3, OnlyMessages DEF M

LEMMA ReceiveInv == ASSUME Inv, NEW t \in Tabs, NEW c \in Calls, Receive(t, c) PROVE Inv'
PROOF
  <1> DEFINE m == Head(inbox[t])
             M == Snapshots \cup {None, Ask}
  <1>1. /\ inbox[t] # <<>> /\ m # Ask /\ inbox' = [inbox EXCEPT ![t] = Tail(@)]
        /\ UNCHANGED <<rows, starting, told, done, ops, faults>>
    BY DEF Receive
  <1>2. /\ inbox \in [Tabs -> Seq(M)] /\ inbox[t] \in Seq(M)
        /\ applying \in [Tabs -> 0..MaxSessions]
    BY DEF Inv, TabsInv
  <1>3. inbox' \in [Tabs -> Seq(M)]
    <2> HIDE DEF M
    <2>1. Tail(inbox[t]) \in Seq(M)
      BY <1>1, <1>2
    <2>2. QED  BY <1>1, <1>2, <2>1
  <1>4. m \in Snapshots \cup {None}
    <2>1. m \in M
      <3> HIDE DEF M
      <3>1. QED  BY <1>1, <1>2
    <2>2. QED  BY <1>1, <2>1
  <1> HIDE DEF m, M
  <1>5. RowsInv' /\ DoneInv'
    BY <1>1 DEF Inv, AllTrue, RowsInv, DoneInv
  <1>6. ASSUME applying' \in [Tabs -> 0..MaxSessions] PROVE TabsInv'
    BY <1>1, <1>3, <1>6 DEF Inv, TabsInv, M
  <1>7. CASE ((m = None /\ TakeOver(t, None)) \/ UNCHANGED session) /\ UNCHANGED <<applying, call>>
    <2>1. CopiesInv'
      BY <1>1, <1>7, ShownNone, CopiesSame DEF TakeOver
    <2>2. CallInv' /\ OneStart'
      BY <1>1, <1>7 DEF Inv, AllTrue, CallInv, OneStart, Starts
    <2>3. QED  BY <1>2, <1>5, <1>6, <1>7, <2>1, <2>2 DEF Inv, AllTrue
  <1>8. CASE m # None /\ Apply(t, c, m) /\ UNCHANGED session
    <2>1. m.id \in Ids
      BY <1>4, <1>8 DEF Snapshots
    <2> DEFINE q == Fetch(m.id)
    <2>2. Request(c, t, q) /\ applying' = [applying EXCEPT ![t] = m.id]
      BY <1>8 DEF Apply
    <2>3. q \in CallType /\ RequestTrue(q, done) /\ q.op # "start"
      BY <2>1, FetchAsked
    <2> HIDE DEF q
    <2>4. CallInv' /\ OneStart'
      BY <1>1, <2>2, <2>3, Requested
    <2>5. CopiesInv'
      BY <1>1, <1>8, CopiesSame
    <2>6. applying' \in [Tabs -> 0..MaxSessions]
      BY <1>2, <2>1, <2>2, Bounds
    <2>7. QED  BY <1>5, <1>6, <2>4, <2>5, <2>6 DEF Inv, AllTrue
  <1>9. QED  BY <1>7, <1>8 DEF Receive, m

(* A page is loaded again: what it asked for goes on, and nobody waits. *)
LEMMA ReloadInv == ASSUME Inv, NEW t \in Tabs, Reload(t) PROVE Inv'
PROOF
  <1> DEFINE M == Snapshots \cup {None, Ask}
             g(k) == IF call[k].tab = t THEN [call[k] EXCEPT !.tab = Nobody] ELSE call[k]
  <1>1. /\ Show(t, None) /\ starting' = [starting EXCEPT ![t] = FALSE]
        /\ told' = [told EXCEPT ![t] = None] /\ applying' = [applying EXCEPT ![t] = 0]
        /\ inbox' = [u \in Tabs |-> IF u = t THEN <<>> ELSE Append(inbox[u], Ask)]
        /\ call' = [k \in Calls |-> g(k)]
        /\ rows' = rows /\ done' = done /\ ops' = ops
    BY DEF Reload
  <1>2. ASSUME NEW k \in Calls
        PROVE  /\ g(k) \in CallType /\ RequestTrue(g(k), done) /\ g(k).op = call[k].op
               /\ g(k).tab = IF call[k].tab = t THEN Nobody ELSE call[k].tab
    <2>1. call[k] \in CallType /\ RequestTrue(call[k], done)
      BY DEF Inv, AllTrue, CallInv
    <2> DEFINE n == [call[k] EXCEPT !.tab = Nobody]
    <2>2. n \in CallType
      BY <2>1 DEF CallType
    <2>3. /\ n.op = call[k].op /\ n.tab = Nobody /\ n.step = call[k].step /\ n.id = call[k].id
          /\ n.sum = call[k].sum /\ n.cur = call[k].cur /\ n.answer = call[k].answer
      BY <2>1 DEF CallType
    <2>4. g(k) = IF call[k].tab = t THEN n ELSE call[k]
      OBVIOUS
    <2> HIDE DEF n, g
    <2>5. RequestTrue(n, done)
      BY <2>1, <2>3 DEF RequestTrue
    <2>6. QED  BY <2>1, <2>2, <2>3, <2>4, <2>5
  <1> HIDE DEF g
  <1>3. CallInv'
    BY <1>1, <1>2 DEF CallInv
  <1>4. OneStart'
    <2>1. OneStart /\ starting \in [Tabs -> BOOLEAN] /\ Nobody \notin Tabs
      BY Bounds DEF Inv, TabsInv
    <2>2. Starts(t)' = {}
      BY <1>1, <1>2, <2>1 DEF Starts
    <2>3. \A u \in Tabs \ {t} : Starts(u)' = Starts(u)
      BY <1>1, <1>2, <2>1 DEF Starts
    <2>4. ~starting'[t] /\ \A u \in Tabs \ {t} : starting'[u] = starting[u]
      BY <1>1, <2>1
    <2>5. QED  BY <2>1, <2>2, <2>3, <2>4 DEF OneStart
  <1>5. RowsInv' /\ DoneInv'
    BY <1>1 DEF Inv, AllTrue, RowsInv, DoneInv
  <1>6. CopiesInv'
    BY <1>1, ShownNone
  <1>7. inbox' \in [Tabs -> Seq(M)]
    <2>1. inbox \in [Tabs -> Seq(M)] /\ Ask \in M
      BY DEF Inv, TabsInv
    <2> HIDE DEF M
    <2>2. QED  BY <1>1, <2>1
  <1>8. /\ starting' \in [Tabs -> BOOLEAN] /\ told' \in [Tabs -> Snapshots \cup {None}]
        /\ applying' \in [Tabs -> 0..MaxSessions]
    BY <1>1, Bounds DEF Inv, TabsInv
  <1>9. ops' \in 0..MaxOps /\ faults' \in 0..Faults
    BY <1>1, Bounds DEF Reload, Inv, TabsInv
  <1>10. TabsInv'
    BY <1>7, <1>8, <1>9 DEF TabsInv
  <1>11. QED  BY <1>3, <1>4, <1>5, <1>6, <1>10 DEF Inv, AllTrue

-----------------------------------------------------------------------------
LEMMA InitInv == Init => Inv
PROOF
  <1> SUFFICES ASSUME Init PROVE Inv
    OBVIOUS
  <1>1. DoneInv
    <2>1. [events |-> 0, aborts |-> 0] \in Counts
      BY Bounds DEF Counts
    <2>2. QED  BY <2>1, Bounds DEF Init, DoneInv
  <1>2. RowsInv /\ CopiesInv
    BY DEF Init, RowsInv, RowTrue, CopiesInv, CopyTrue
  <1>3. CallInv
    BY FreeTyped DEF Init, CallInv
  <1>4. TabsInv
    BY Bounds DEF Init, TabsInv
  <1>5. OneStart
    BY FreeTyped DEF Init, OneStart, Starts
  <1>6. QED  BY <1>1, <1>2, <1>3, <1>4, <1>5 DEF Inv, AllTrue

LEMMA ServerInv == ASSUME Inv, NEW c \in Calls, Server(c) PROVE Inv'
PROOF BY StartSessionInv, UpdateSessionInv, EndSessionInv, DeleteInProgressSessionInv,
         GetActiveSessionInv, RefuseInv DEF Server

LEMMA AnswerInv == ASSUME Inv, NEW c \in Calls, Answer(c) PROVE Inv'
PROOF BY StartReturnsInv, ModeReturnsInv, ProgressReturnsInv, EndReturnsInv, DiscardReturnsInv,
         RehydrateReturnsInv, ReconcileReturnsInv, ApplyReturnsInv, UnheardInv DEF Answer

LEMMA OperatorInv == ASSUME Inv, NEW t \in Tabs, NEW c \in Calls, Operator(t, c) PROVE Inv'
PROOF
  <1>1. ASSUME NEW mode \in Modes, Start(t, c, mode) \/ SyncMode(t, c, mode) \/ Rehydrate(t, c, mode)
        PROVE  Inv'
    BY <1>1, StartInv, SyncModeInv, RehydrateInv
  <1>2. ASSUME NEW what \in {"action", "abort"}, Record(t, c, what) PROVE Inv'
    BY <1>2, RecordInv
  <1>3. CASE MarkStarted(t)
    BY <1>3, MarkStartedInv
  <1>4. CASE EndAutomatic(t, c) \/ EndAll(t, c)
    BY <1>4, FinalizeInv DEF EndAutomatic, EndAll
  <1>5. CASE Release(t, c) \/ Reconcile(t, c)
    BY <1>5, ReleaseInv, ReconcileInv
  <1>6. QED  BY <1>1, <1>2, <1>3, <1>4, <1>5 DEF Operator

LEMMA StutterInv == ASSUME Inv, UNCHANGED vars PROVE Inv'
PROOF
  <1>1. RowsInv' /\ CopiesInv' /\ DoneInv' /\ CallInv'
    BY DEF vars, Inv, AllTrue, RowsInv, CopiesInv, DoneInv, CallInv
  <1>2. TabsInv' /\ OneStart'
    BY DEF vars, Inv, TabsInv, OneStart, Starts
  <1>3. QED  BY <1>1, <1>2 DEF Inv, AllTrue

LEMMA StepInv == Inv /\ [Next]_vars => Inv'
PROOF
  <1> SUFFICES ASSUME Inv, [Next]_vars PROVE Inv'
    OBVIOUS
  <1>1. ASSUME NEW c \in Calls, Server(c) \/ Answer(c) PROVE Inv'
    BY <1>1, ServerInv, AnswerInv
  <1>2. ASSUME NEW t \in Tabs, NEW c \in Calls, Operator(t, c) \/ Receive(t, c) PROVE Inv'
    BY <1>2, OperatorInv, ReceiveInv
  <1>3. ASSUME NEW t \in Tabs, Broadcast(t) \/ TellAgain(t) \/ Reload(t) PROVE Inv'
    BY <1>3, BroadcastInv, TellAgainInv, ReloadInv
  <1>4. CASE UNCHANGED vars
    BY <1>4, StutterInv
  <1>5. QED  BY <1>1, <1>2, <1>3, <1>4 DEF Next

(* The invariant holds in every state of every behaviour. *)
LEMMA Invariance == Spec => []Inv
PROOF BY InitInv, StepInv, PTL DEF Spec

(* Every row, copy, request and message is what its place may hold, in      *)
(* every state: an answer that is taken over when nothing was found, or a   *)
(* start answered without a row, would show here.                           *)
THEOREM TypeCorrect == Spec => []TypeOK
PROOF
  <1>1. Inv => TypeOK
    BY DEF Inv, AllTrue, RowsInv, CopiesInv, DoneInv, CallInv, CallType, TabsInv, TypeOK
  <1>2. QED  BY <1>1, Invariance, PTL

(* However many tabs, requests and sessions there are, and whatever fails,  *)
(* gets lost or overtakes: no row and no tab tells more strokes, bursts and *)
(* aborts than the device has done in that session (buildManualSummary,     *)
(* buildSessionFromEntry), and every tab has one start under way or none,   *)
(* as startingRef says.                                                     *)
THEOREM RowsAreTrue == Spec => []RowsTrue
PROOF
  <1>1. Inv => NeverOverstated
    BY DEF Inv, AllTrue, RowsInv, RowTrue, CopiesInv, CopyTrue, Covered, NeverOverstated, Within
  <1>2. Inv => RowsTrue
    BY <1>1 DEF Inv, RowsTrue
  <1>3. QED  BY <1>2, Invariance, PTL
=============================================================================
