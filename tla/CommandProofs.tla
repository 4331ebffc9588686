------------------------- MODULE CommandProofs ------------------------------
(***************************************************************************)
(* Proofs about CommandDispatch for any number of requests and             *)
(* connections, and about OperatorPanel for any number of handlers, clicks *)
(* and faults.                                                             *)
(*                                                                         *)
(* Inv is CommandDispatch's inductive invariant: besides the checked       *)
(* properties it says where the copies of an answer may be (Agree), that a *)
(* command is on its way at most once and only before it runs (OneCopy),   *)
(* that exactly the finished requests have a reply (Replied), and where an *)
(* answer that was heard in time is kept until it is returned (Kept).      *)
(***************************************************************************)
EXTENDS CommandDispatch, OperatorPanel, TLAPS

Agree == \A r \in Reqs : /\ pending[r] \in Outcomes => pending[r] = device[r]
                         /\ \A m \in acks : m.req = r => m.outcome = device[r]

Unsent == \A r \in Reqs :
            at[r] \in {"idle", "registered", "found"} =>
               device[r] = "unseen" /\ (\A m \in commands : m.req # r)

OneCopy == \A m \in commands : device[m.req] = "unseen" /\ m.conn = to[m.req]

Replied == \A r \in Reqs : (reply[r] # None) <=> (at[r] = "done")

Kept == \A r \in Reqs : heard[r] = "waiting" =>
          \/ at[r] = "waiting" /\ pending[r] = told[r] /\ told[r] \in Outcomes
          \/ at[r] = "done" /\ reply[r] = told[r]

Inv == /\ TypeOK
       /\ Agree /\ Truthful
       /\ Unsent /\ OneCopy /\ RefusedNeverRuns
       /\ PendingExact /\ Replied /\ Kept

-----------------------------------------------------------------------------
(* Each action preserves Inv; one step per conjunct.                       *)

LEMMA ResolveStep ==
  ASSUME Inv, NEW r \in Reqs, Resolve(r)
  PROVE  Inv'
<1>1. TypeOK'
  BY DEF Inv, TypeOK, LinkTypeOK, linkVars, Resolve, Return, Goto, Outcomes,
       Refusals, Replies, Steps
<1>2. Agree'
  BY DEF Inv, Agree, Resolve, Return, Goto
<1>3. Truthful'
  BY DEF Inv, TypeOK, Truthful, Resolve, Return, Goto, Outcomes
<1>4. Unsent'
  BY DEF Inv, TypeOK, Unsent, Resolve, Return, Goto
<1>5. OneCopy'
  BY DEF Inv, OneCopy, Resolve, Return, Goto
<1>6. RefusedNeverRuns'
  BY NoneAssumption DEF Inv, TypeOK, Unsent, PendingExact, RefusedNeverRuns,
       Resolve, Return, Goto, Outcomes
<1>7. PendingExact'
  BY DEF Inv, TypeOK, PendingExact, Resolve, Return, Goto
<1>8. Replied'
  BY NoneAssumption DEF Inv, TypeOK, Replied, Resolve, Return, Goto,
       Outcomes, Refusals, Replies, Steps
<1>9. Kept'
  BY DEF Inv, TypeOK, Kept, Resolve, Return, Goto
<1> QED
  BY <1>1, <1>2, <1>3, <1>4, <1>5, <1>6, <1>7, <1>8, <1>9 DEF Inv

LEMMA LookupStep ==
  ASSUME Inv, NEW r \in Reqs, Lookup(r)
  PROVE  Inv'
<1>1. TypeOK'
  BY DEF Inv, TypeOK, LinkTypeOK, linkVars, Lookup, Return, Goto, Outcomes,
       Refusals, Replies, Steps
<1>2. Agree'
  BY DEF Inv, Agree, Lookup, Return, Goto
<1>3. Truthful'
  BY DEF Inv, TypeOK, Truthful, Lookup, Return, Goto, Outcomes
<1>4. Unsent'
  BY DEF Inv, TypeOK, Unsent, Lookup, Return, Goto
<1>5. OneCopy'
  BY NoneAssumption DEF Inv, TypeOK, Unsent, PendingExact, OneCopy, Lookup,
       Return, Goto, Outcomes
<1>6. RefusedNeverRuns'
  BY NoneAssumption DEF Inv, TypeOK, Unsent, PendingExact, RefusedNeverRuns,
       Lookup, Return, Goto, Outcomes
<1>7. PendingExact'
  BY DEF Inv, TypeOK, PendingExact, Lookup, Return, Goto
<1>8. Replied'
  BY NoneAssumption DEF Inv, TypeOK, Replied, Lookup, Return, Goto, Outcomes,
       Refusals, Replies, Steps
<1>9. Kept'
  BY DEF Inv, TypeOK, Kept, Lookup, Return, Goto
<1> QED
  BY <1>1, <1>2, <1>3, <1>4, <1>5, <1>6, <1>7, <1>8, <1>9 DEF Inv

LEMMA SendStep ==
  ASSUME Inv, NEW r \in Reqs, Send(r)
  PROVE  Inv'
<1>1. TypeOK'
  BY DEF Inv, TypeOK, LinkTypeOK, linkVars, Send, Goto, Outcomes, Refusals,
       Replies, Steps
<1>2. Agree'
  BY DEF Inv, Agree, Send, Goto
<1>3. Truthful'
  BY DEF Inv, Truthful, Send, Goto
<1>4. Unsent'
  BY DEF Inv, Unsent, Send, Goto
<1>5. OneCopy'
  BY DEF Inv, OneCopy, Send, Goto
<1>6. RefusedNeverRuns'
  BY DEF Inv, RefusedNeverRuns, Send, Goto
<1>7. PendingExact'
  BY DEF Inv, PendingExact, Send, Goto
<1>8. Replied'
  BY DEF Inv, Replied, Send, Goto
<1>9. Kept'
  BY DEF Inv, Kept, Send, Goto
<1> QED
  BY <1>1, <1>2, <1>3, <1>4, <1>5, <1>6, <1>7, <1>8, <1>9 DEF Inv

LEMMA AwaitStep ==
  ASSUME Inv, NEW r \in Reqs, Await(r)
  PROVE  Inv'
<1>1. TypeOK'
  BY DEF Inv, TypeOK, LinkTypeOK, linkVars, Await, Goto, Outcomes, Refusals,
       Replies, Steps
<1>2. Agree'
  BY DEF Inv, TypeOK, Agree, Await, Goto, Outcomes
<1>3. Truthful'
  BY DEF Inv, Truthful, Await, Goto
<1>4. Unsent'
  BY DEF Inv, Unsent, Await, Goto
<1>5. OneCopy'
  BY DEF Inv, OneCopy, Await, Goto
<1>6. RefusedNeverRuns'
  BY DEF Inv, RefusedNeverRuns, Await, Goto
<1>7. PendingExact'
  BY DEF Inv, TypeOK, PendingExact, Await, Goto
<1>8. Replied'
  BY DEF Inv, Replied, Await, Goto
<1>9. Kept'
  BY DEF Inv, Kept, Await, Goto
<1> QED
  BY <1>1, <1>2, <1>3, <1>4, <1>5, <1>6, <1>7, <1>8, <1>9 DEF Inv

LEMMA ExpireStep ==
  ASSUME Inv, NEW r \in Reqs, Expire(r)
  PROVE  Inv'
<1>1. TypeOK'
  BY DEF Inv, TypeOK, LinkTypeOK, linkVars, Expire, Goto, Outcomes, Refusals,
       Replies, Steps
<1>2. Agree'
  BY DEF Inv, Agree, Expire, Goto
<1>3. Truthful'
  BY DEF Inv, Truthful, Expire, Goto
<1>4. Unsent'
  BY DEF Inv, Unsent, Expire, Goto
<1>5. OneCopy'
  BY DEF Inv, OneCopy, Expire, Goto
<1>6. RefusedNeverRuns'
  BY DEF Inv, RefusedNeverRuns, Expire, Goto
<1>7. PendingExact'
  BY DEF Inv, PendingExact, Expire, Goto
<1>8. Replied'
  BY DEF Inv, Replied, Expire, Goto
<1>9. Kept'
  BY DEF Inv, TypeOK, Kept, Expire, Goto, Outcomes
<1> QED
  BY <1>1, <1>2, <1>3, <1>4, <1>5, <1>6, <1>7, <1>8, <1>9 DEF Inv

LEMMA FinishStep ==
  ASSUME Inv, NEW r \in Reqs, Finish(r)
  PROVE  Inv'
<1>1. TypeOK'
  BY DEF Inv, TypeOK, LinkTypeOK, linkVars, Finish, Return, Outcomes,
       Refusals, Replies, Steps
<1>2. Agree'
  BY DEF Inv, TypeOK, Agree, Finish, Return, Outcomes
<1>3. Truthful'
  BY NoneAssumption DEF Inv, TypeOK, Agree, OneCopy, Truthful, PendingExact,
       Finish, Return, Outcomes
<1>4. Unsent'
  BY DEF Inv, TypeOK, Unsent, Finish, Return
<1>5. OneCopy'
  BY DEF Inv, OneCopy, Finish, Return
<1>6. RefusedNeverRuns'
  BY NoneAssumption DEF Inv, TypeOK, RefusedNeverRuns, Finish, Return,
       Outcomes, Refusals, Replies, Steps
<1>7. PendingExact'
  BY DEF Inv, TypeOK, PendingExact, Finish, Return
<1>8. Replied'
  BY NoneAssumption DEF Inv, TypeOK, Replied, Finish, Return, Outcomes,
       Refusals, Replies, Steps
<1>9. Kept'
  BY DEF Inv, TypeOK, Kept, Finish, Return
<1> QED
  BY <1>1, <1>2, <1>3, <1>4, <1>5, <1>6, <1>7, <1>8, <1>9 DEF Inv

LEMMA CancelStep ==
  ASSUME Inv, NEW r \in Reqs, Cancel(r)
  PROVE  Inv'
<1>1. TypeOK'
  BY DEF Inv, TypeOK, LinkTypeOK, linkVars, Cancel, Return, Outcomes,
       Refusals, Replies, Steps
<1>2. Agree'
  BY DEF Inv, Agree, Cancel, Return
<1>3. Truthful'
  BY DEF Inv, TypeOK, Truthful, Cancel, Return, Outcomes
<1>4. Unsent'
  BY DEF Inv, Unsent, Cancel, Return
<1>5. OneCopy'
  BY DEF Inv, OneCopy, Cancel, Return
<1>6. RefusedNeverRuns'
  BY NoneAssumption DEF Inv, TypeOK, Unsent, PendingExact, RefusedNeverRuns,
       Cancel, Return, Outcomes
<1>7. PendingExact'
  BY DEF Inv, PendingExact, Cancel, Return
<1>8. Replied'
  BY NoneAssumption DEF Inv, TypeOK, Replied, Cancel, Return, Outcomes,
       Refusals, Replies, Steps
<1>9. Kept'
  BY DEF Inv, Kept, Cancel, Return
<1> QED
  BY <1>1, <1>2, <1>3, <1>4, <1>5, <1>6, <1>7, <1>8, <1>9 DEF Inv

LEMMA ReceiveStep ==
  ASSUME Inv, NEW m \in commands, Receive(m)
  PROVE  Inv'
<1>1. TypeOK'
  BY DEF Inv, TypeOK, LinkTypeOK, linkVars, Receive, Outcomes, Refusals,
       Replies, Steps
<1>2. Agree'
  BY NoneAssumption DEF Inv, TypeOK, Agree, OneCopy, Truthful, PendingExact,
       Receive, Outcomes
<1>3. Truthful'
  BY NoneAssumption DEF Inv, TypeOK, Agree, OneCopy, Truthful, PendingExact,
       Receive, Outcomes
<1>4. Unsent'
  BY DEF Inv, Unsent, Receive
<1>5. OneCopy'
  BY DEF Inv, TypeOK, OneCopy, Receive
<1>6. RefusedNeverRuns'
  BY DEF Inv, RefusedNeverRuns, Receive
<1>7. PendingExact'
  BY DEF Inv, PendingExact, Receive
<1>8. Replied'
  BY DEF Inv, Replied, Receive
<1>9. Kept'
  BY DEF Inv, Kept, Receive
<1> QED
  BY <1>1, <1>2, <1>3, <1>4, <1>5, <1>6, <1>7, <1>8, <1>9 DEF Inv

LEMMA AnswerStep ==
  ASSUME Inv, NEW r \in Reqs, Answer(r)
  PROVE  Inv'
<1>1. TypeOK'
  BY DEF Inv, TypeOK, LinkTypeOK, linkVars, Answer, Outcomes, Refusals,
       Replies, Steps
<1>2. Agree'
  BY DEF Inv, TypeOK, Agree, Answer, Outcomes
<1>3. Truthful'
  BY DEF Inv, TypeOK, Truthful, Answer, Outcomes
<1>4. Unsent'
  BY DEF Inv, Unsent, Answer
<1>5. OneCopy'
  BY DEF Inv, OneCopy, Answer
<1>6. RefusedNeverRuns'
  BY DEF Inv, RefusedNeverRuns, Answer
<1>7. PendingExact'
  BY DEF Inv, PendingExact, Answer
<1>8. Replied'
  BY DEF Inv, Replied, Answer
<1>9. Kept'
  BY DEF Inv, Kept, Answer
<1> QED
  BY <1>1, <1>2, <1>3, <1>4, <1>5, <1>6, <1>7, <1>8, <1>9 DEF Inv

LEMMA AckCommandStep ==
  ASSUME Inv, NEW m \in acks, AckCommand(m)
  PROVE  Inv'
<1>1. TypeOK'
  BY DEF Inv, TypeOK, LinkTypeOK, linkVars, AckCommand, Complete, Outcomes,
       Refusals, Replies, Steps
<1>2. Agree'
  BY DEF Inv, Agree, AckCommand, Complete
<1>3. Truthful'
  BY NoneAssumption DEF Inv, TypeOK, Agree, OneCopy, Truthful, PendingExact,
       AckCommand, Complete, Outcomes
<1>4. Unsent'
  BY DEF Inv, Unsent, AckCommand, Complete
<1>5. OneCopy'
  BY DEF Inv, OneCopy, AckCommand, Complete
<1>6. RefusedNeverRuns'
  BY DEF Inv, RefusedNeverRuns, AckCommand, Complete
<1>7. PendingExact'
  BY DEF Inv, TypeOK, PendingExact, AckCommand, Complete, Outcomes
<1>8. Replied'
  BY DEF Inv, Replied, AckCommand, Complete
<1>9. Kept'
  BY NoneAssumption DEF Inv, TypeOK, Agree, OneCopy, Truthful, PendingExact,
       Kept, AckCommand, Complete, Outcomes
<1> QED
  BY <1>1, <1>2, <1>3, <1>4, <1>5, <1>6, <1>7, <1>8, <1>9 DEF Inv

LEMMA LinkTyped ==
  ASSUME LinkTypeOK, [LinkNext]_linkVars
  PROVE  LinkTypeOK'
BY ConnAssumption DEF LinkTypeOK, LinkNext, linkVars, Connect, DropLink,
     OnConnected, OnDisconnected, RemoveEntry, Scan, Stages

LEMMA ConnectionStep ==
  ASSUME Inv, Connection
  PROVE  Inv'
<1>1. TypeOK'
  BY LinkTyped DEF Inv, TypeOK, Connection
<1>2. Agree'
  BY DEF Inv, Connection, Agree
<1>3. Truthful'
  BY DEF Inv, Connection, Truthful
<1>4. Unsent'
  BY DEF Inv, Connection, Unsent
<1>5. OneCopy'
  BY DEF Inv, Connection, OneCopy
<1>6. RefusedNeverRuns'
  BY DEF Inv, Connection, RefusedNeverRuns
<1>7. PendingExact'
  BY DEF Inv, Connection, PendingExact
<1>8. Replied'
  BY DEF Inv, Connection, Replied
<1>9. Kept'
  BY DEF Inv, Connection, Kept
<1> QED
  BY <1>1, <1>2, <1>3, <1>4, <1>5, <1>6, <1>7, <1>8, <1>9 DEF Inv

LEMMA QuietStep ==
  ASSUME Inv, Revoke \/ UNCHANGED vars
  PROVE  Inv'
<1>1. UNCHANGED linkVars /\ active' \in BOOLEAN
       /\ UNCHANGED <<at, to, pending, commands, acks, device, reply, told, heard>>
  BY DEF Inv, TypeOK, Revoke, vars, reqVars
<1> QED
  BY <1>1 DEF Inv, TypeOK, LinkTypeOK, linkVars, Agree, Truthful, Unsent,
    OneCopy, RefusedNeverRuns, PendingExact, Replied, Kept

LEMMA InvInit ==
  ASSUME Init
  PROVE  Inv
<1>1. TypeOK
  BY DEF Init, TypeOK, LinkInit, LinkTypeOK, Stages, Steps
<1> QED
  BY <1>1, NoneAssumption DEF Init, Inv, Agree, Truthful, Unsent, OneCopy,
       RefusedNeverRuns,
    PendingExact, Replied, Kept, Outcomes, Refusals, Replies, Steps

LEMMA InvNext ==
  ASSUME Inv, [Next]_vars
  PROVE  Inv'
<1>1. ASSUME NEW r \in Reqs, Request(r) PROVE Inv'
  BY <1>1, ResolveStep, LookupStep, SendStep, AwaitStep, ExpireStep, FinishStep
     DEF Request
<1>2. ASSUME NEW r \in Reqs, Cancel(r) \/ Answer(r) PROVE Inv'
  BY <1>2, CancelStep, AnswerStep
<1>3. ASSUME NEW m \in commands, Receive(m) PROVE Inv'
  BY <1>3, ReceiveStep
<1>4. ASSUME NEW m \in acks, AckCommand(m) PROVE Inv'
  BY <1>4, AckCommandStep
<1> QED
  BY <1>1, <1>2, <1>3, <1>4, ConnectionStep, QuietStep DEF Next

LEMMA Invariance == Spec => []Inv
<1> QED
  BY InvInit, InvNext, PTL DEF Spec

(* Every variable keeps its type.                                          *)
THEOREM TypeCorrect == Spec => []TypeOK
<1>1. Inv => TypeOK
  BY DEF Inv
<1> QED
  BY <1>1, Invariance, PTL

(* Acknowledged responses and broadcasts carry what the device answered.   *)
THEOREM AnswersAreTrue == Spec => []Truthful
<1>1. Inv => Truthful
  BY DEF Inv
<1> QED
  BY <1>1, Invariance, PTL

(* A command reported as not delivered never runs.                         *)
THEOREM RefusalsAreFinal == Spec => []RefusedNeverRuns
<1>1. Inv => RefusedNeverRuns
  BY DEF Inv
<1> QED
  BY <1>1, Invariance, PTL

(* The acknowledgement table holds the waits under way and nothing else.   *)
THEOREM NoLeftovers == Spec => []PendingExact
<1>1. Inv => PendingExact
  BY DEF Inv
<1> QED
  BY <1>1, Invariance, PTL

(* What came in while the request waited is what its caller gets.          *)
THEOREM HeardAlwaysReturned == Spec => []HeardIsReturned
<1>1. Inv => HeardIsReturned
  BY DEF Inv, HeardIsReturned, Kept, Replied
<1> QED
  BY <1>1, Invariance, PTL

-----------------------------------------------------------------------------
(* The registry entry.  While no two handlers have met, a removal under    *)
(* way holds the entry itself, so it cannot hit another connection's.      *)
Holds == ~crossed => \A c \in Conns : conn[c] = "removing" => entry = c

LinkInv == LinkTypeOK /\ NoGhost /\ Holds /\ ListedUndisturbed

LEMMA LinkInvNext ==
  ASSUME LinkInv, [LinkNext]_linkVars
  PROVE  LinkInv'
<1>1. LinkTypeOK'
  BY LinkTyped DEF LinkInv
<1>2. ASSUME NEW c \in Conns, Connect(c)
      PROVE  NoGhost' /\ Holds' /\ ListedUndisturbed'
  BY <1>2 DEF LinkInv, LinkTypeOK, NoGhost, Holds, ListedUndisturbed, Connect
<1>3. ASSUME NEW c \in Conns, OnConnected(c)
      PROVE  NoGhost' /\ Holds' /\ ListedUndisturbed'
  BY <1>3 DEF LinkInv, LinkTypeOK, NoGhost, Holds, ListedUndisturbed,
       OnConnected, Crosses, Stages
<1>4. ASSUME NEW c \in Conns, OnDisconnected(c)
      PROVE  NoGhost' /\ Holds' /\ ListedUndisturbed'
  BY <1>4 DEF LinkInv, LinkTypeOK, NoGhost, Holds, ListedUndisturbed,
       OnDisconnected, Scan
<1>5. ASSUME NEW c \in Conns, RemoveEntry(c)
      PROVE  NoGhost' /\ Holds' /\ ListedUndisturbed'
  BY <1>5, ConnAssumption DEF LinkInv, LinkTypeOK, NoGhost, Holds,
       ListedUndisturbed, RemoveEntry, Conns
<1>6. ASSUME DropLink \/ UNCHANGED linkVars
      PROVE  NoGhost' /\ Holds' /\ ListedUndisturbed'
  BY <1>6 DEF LinkInv, NoGhost, Holds, ListedUndisturbed, DropLink, linkVars
<1> QED
  BY <1>1, <1>2, <1>3, <1>4, <1>5, <1>6 DEF LinkNext, LinkInv

LEMMA LinkInvariance == Spec => []LinkInv
<1>1. ASSUME LinkInit
      PROVE  LinkInv
  <2>1. LinkTypeOK
    BY <1>1 DEF LinkInit, LinkTypeOK, Stages
  <2>2. NoGhost /\ ListedUndisturbed
    BY <1>1 DEF LinkInit, NoGhost, ListedUndisturbed
  <2>3. Holds
    BY <1>1 DEF LinkInit, Holds
  <2> QED
    BY <2>1, <2>2, <2>3 DEF LinkInv
<1>2. [Next]_vars => [LinkNext]_linkVars
  BY DEF Next, vars, Connection, Revoke, Request, Resolve, Lookup, Send, Await,
     Expire, Finish, Cancel, Answer, Receive, AckCommand
<1> QED
  BY <1>1, <1>2, LinkInvNext, PTL DEF Spec, Init

(* A connection whose disconnect handler has finished is in no entry.      *)
THEOREM NoGhostEntries == Spec => []NoGhost
<1>1. LinkInv => NoGhost
  BY DEF LinkInv
<1> QED
  BY <1>1, LinkInvariance, PTL

(* Until two handlers meet an open connection is the one that is listed.   *)
THEOREM ListedUntilCrossed == Spec => []ListedUndisturbed
<1>1. LinkInv => ListedUndisturbed
  BY DEF LinkInv
<1> QED
  BY <1>1, LinkInvariance, PTL

-----------------------------------------------------------------------------
(* Refinement: each action maps to a step of the remote call or a stutter. *)

LEMMA CallInit ==
  ASSUME Init
  PROVE  Call!Init
BY DEF Init, Call!Init, executed, Outcomes

(* Steps after which no device has answered and nobody was told anything.  *)
LEMMA Stutters ==
  ASSUME UNCHANGED <<device, reply>>
  PROVE  UNCHANGED Call!callVars
BY DEF Call!callVars, executed

LEMMA ReplyMaps ==
  ASSUME Inv, NEW r \in Reqs, NEW what \in Replies, UNCHANGED device,
         at[r] # "done", Return(r, what),
         what \in Refusals => device[r] = "unseen",
         what \in Outcomes => what = device[r]
  PROVE  Call!Reply(r)
<1>1. reply[r] = None /\ UNCHANGED executed
  BY DEF Inv, Replied, executed
<1>2. reply' = [reply EXCEPT ![r] = what]
  BY DEF Return
<1>3. CASE what \in Refusals
  <2>1. executed[r] = None
    BY <1>3 DEF executed, Outcomes
  <2> QED
    BY <1>1, <1>2, <1>3, <2>1 DEF Call!Reply, Call!Refuse
<1>4. CASE what \notin Refusals
  <2>1. what \in {"timeout", executed[r]} \ {None}
    BY <1>4, NoneAssumption DEF executed, Replies, Outcomes
  <2> QED
    BY <1>1, <1>2, <2>1 DEF Call!Reply, Call!Return
<1> QED
  BY <1>3, <1>4

LEMMA AnswerMaps ==
  ASSUME Inv, NEW r \in Reqs, Answer(r)
  PROVE  Call!Execute(r)
<1>1. PICK o \in Outcomes : device' = [device EXCEPT ![r] = o]
  BY DEF Answer
<1>2. executed[r] = None /\ UNCHANGED reply
  BY DEF Answer, executed, Outcomes
<1>3. reply[r] \notin Refusals
  BY DEF Inv, RefusedNeverRuns, Answer
<1>4. executed' = [executed EXCEPT ![r] = o]
  BY <1>1 DEF Inv, TypeOK, executed, Outcomes
<1> QED
  BY <1>2, <1>3, <1>4 DEF Call!Execute

LEMMA CallNext ==
  ASSUME Inv, [Next]_vars
  PROVE  [Call!Next]_(Call!callVars)
<1>1. ASSUME NEW r \in Reqs, Request(r) \/ Cancel(r)
      PROVE  Call!Reply(r) \/ UNCHANGED <<device, reply>>
  <2>1. CASE Resolve(r)
    BY <2>1, ReplyMaps DEF Inv, Unsent, Resolve, Goto, Return, Replies,
         Refusals, Outcomes
  <2>2. CASE Lookup(r)
    BY <2>2, ReplyMaps DEF Inv, Unsent, Lookup, Goto, Return, Replies,
         Refusals, Outcomes
  <2>3. CASE Cancel(r)
    BY <2>3, ReplyMaps DEF Inv, Unsent, Cancel, Return, Replies, Refusals,
         Outcomes
  <2>4. CASE Finish(r)
    BY <2>4, ReplyMaps DEF Inv, Agree, Finish, Return, Replies, Refusals,
         Outcomes
  <2>5. CASE Send(r) \/ Await(r) \/ Expire(r)
    BY <2>5 DEF Send, Await, Expire, Goto
  <2> QED
    BY <1>1, <2>1, <2>2, <2>3, <2>4, <2>5 DEF Request
<1>2. ASSUME NEW m \in commands, Receive(m)
      PROVE  UNCHANGED Call!callVars
  BY <1>2 DEF Inv, TypeOK, OneCopy, Receive, executed, Call!callVars, Outcomes
<1>3. ASSUME \/ Connection \/ Revoke \/ UNCHANGED vars
             \/ \E m \in acks : AckCommand(m)
      PROVE  UNCHANGED <<device, reply>>
  BY <1>3 DEF Connection, Revoke, vars, reqVars, AckCommand
<1> QED
  BY <1>1, <1>2, <1>3, AnswerMaps, Stutters DEF Next, Call!Next

(* Whatever hub, network and device do, the dispatcher is the at-most-once *)
(* remote call RemoteCall describes.                                       *)
THEOREM DispatcherIsRemoteCall == Spec => ImplementsCall
<1> QED
  BY CallInit, CallNext, Invariance, PTL DEF Spec, ImplementsCall, Call!Spec

(* A revoked device gets no command from a request that begins afterwards. *)
THEOREM RevokedNeverReached == Spec => RevokedStaysOut
<1>1. ASSUME Inv, [Next]_vars, NEW r \in Reqs, ~active, at[r] = "idle"
      PROVE  at'[r] \in {"idle", "done"}
  BY <1>1 DEF Inv, TypeOK, Next, Request, Resolve, Lookup, Send, Await, Expire,
       Finish, Cancel, Answer, Receive, AckCommand, Connection, Revoke, vars,
       reqVars, Return, Goto
<1>2. Inv /\ [Next]_vars =>
        [\A r \in Reqs : (~active /\ at[r] = "idle") => at'[r] \in {"idle", "done"}]_vars
  BY <1>1
<1> QED
  BY <1>2, Invariance, PTL DEF Spec, RevokedStaysOut

(* Whatever order the hub's handlers run in, no registry entry outlives its *)
(* connection's disconnect handler, and until two handlers meet a device    *)
(* with an open connection is found under it (DeviceConnectionRegistry).    *)
THEOREM RegistryIsTrue == Spec => []RegistryTrue
<1>1. NoGhost /\ ListedUndisturbed => RegistryTrue
  BY DEF RegistryTrue
<1> QED
  BY <1>1, NoGhostEntries, ListedUntilCrossed, PTL

(* For any number of requests: what a caller reads is what the device       *)
(* answered, a refused command never runs, the table holds the waits under  *)
(* way, an answer heard is returned, and a revoked device is not reached    *)
(* (HardwareCommandDispatcher.DispatchAsync).                               *)
THEOREM CallsAreSound == Spec => CallsSound
<1>1. Spec => [](Truthful /\ RefusedNeverRuns /\ PendingExact /\ HeardIsReturned)
  BY AnswersAreTrue, RefusalsAreFinal, NoLeftovers, HeardAlwaysReturned, PTL
<1> QED
  BY <1>1, RevokedNeverReached DEF CallsSound

-----------------------------------------------------------------------------
(***************************************************************************)
(* The operator's panel, where commands come from.  Its types say that a   *)
(* command has one handler at most, which is inductive with them: only a   *)
(* click begins a handler, and its button is locked while there is one.    *)
(***************************************************************************)

(* What OperatorPanelAssumption says. *)
LEMMA PanelBounds == Panels \subseteq AllPanels /\ MaxOps \in Nat /\ Faults \in Nat
BY OperatorPanelAssumption

ModesOrNone == Modes \cup {"none"}
HandlerType ==
  [op : Kinds, step : HandlerSteps, reply : HandlerReplies, was : BOOLEAN, ran : BOOLEAN,
   want : ModesOrNone, view : Views]
ResyncType == [on : BOOLEAN, synced : BOOLEAN, push : {"idle", "sent"}]
PanelDeviceType ==
  [online : BOOLEAN, ready : BOOLEAN, scene : BOOLEAN, accessory : BOOLEAN,
   auto : {"idle", "running", "stopping"}, motion : {"none", "relay", "motor"}]

(* The handlers: one for each command that locks its button. *)
Handlers(h) ==
  /\ h \in [Slots -> HandlerType]
  /\ \A t \in Slots : h[t].op = "free" <=> h[t] = Free
  /\ \A t, u \in Slots : t # u /\ h[t].op = h[u].op => h[t].op \in {"free", "mode"}

(* A session and a motion exclude each other; a scene needs a ready device. *)
DeviceOK(x) ==
  x \in PanelDeviceType /\ (x.auto # "idle" => x.motion = "none") /\ (x.scene => x.ready)

(* The rest of the state.                                                  *)
Flags ==
  /\ panel \in AllPanels /\ session \in ModesOrNone /\ row \in ModesOrNone
  /\ mode \in ModesOrNone /\ scene \in BOOLEAN /\ accessory \in BOOLEAN
  /\ hint \in BOOLEAN /\ running \in BOOLEAN /\ motorRun \in BOOLEAN /\ seen \in BOOLEAN
  /\ notice \in BOOLEAN /\ missed \in BOOLEAN /\ ops \in 0..MaxOps /\ faults \in 0..Faults
  /\ resync \in ResyncType

(* The types, in their three parts, now and after a step.                  *)
LEMMA TypeParts == PanelTypeOK <=> Handlers(th) /\ DeviceOK(dev) /\ Flags
BY DEF PanelTypeOK, Handlers, DeviceOK, Flags, HandlerType, ModesOrNone, ResyncType,
       PanelDeviceType

LEMMA TypePartsNext == PanelTypeOK' <=> Handlers(th') /\ DeviceOK(dev') /\ Flags'
BY DEF PanelTypeOK, Handlers, DeviceOK, Flags, HandlerType, ModesOrNone, ResyncType,
       PanelDeviceType

LEMMA FreeTyped == Free \in HandlerType /\ Free.op = "free" /\ Free.step = "free"
                   /\ Free.reply = "none"
BY DEF Free, HandlerType, ModesOrNone, Kinds, HandlerSteps, HandlerReplies, Views

(* A handler goes on when it keeps its command, or is done. *)
GoesOn(a, b) == b \in HandlerType /\ (b = a \/ b = Free \/ (a # Free /\ b.op = a.op))

LEMMA HandlersGoOn ==
  ASSUME NEW h, NEW g, Handlers(h), g \in [Slots -> HandlerType],
         \A t \in Slots : GoesOn(h[t], g[t])
  PROVE  Handlers(g)
<1>1. \A t \in Slots : g[t].op = "free" <=> g[t] = Free
  BY FreeTyped DEF Handlers, GoesOn
<1>2. \A t \in Slots : g[t].op = h[t].op \/ g[t].op = "free"
  BY FreeTyped DEF GoesOn
<1> QED BY <1>1, <1>2 DEF Handlers

LEMMA OneGoesOn ==
  ASSUME NEW h, Handlers(h), NEW t \in Slots, NEW x, GoesOn(h[t], x)
  PROVE  Handlers([h EXCEPT ![t] = x])
<1> DEFINE g == [h EXCEPT ![t] = x]
<1>1. x \in HandlerType /\ h \in [Slots -> HandlerType]
  BY DEF GoesOn, Handlers
<1>2. g \in [Slots -> HandlerType] /\ g[t] = x /\ \A u \in Slots \ {t} : g[u] = h[u]
  BY <1>1
<1> HIDE DEF g
<1>3. \A u \in Slots : GoesOn(h[u], g[u])
  BY <1>1, <1>2 DEF GoesOn
<1> QED BY <1>2, <1>3, HandlersGoOn DEF g

(* A handler that is done, goes on, is answered or begins keeps the        *)
(* handlers in their type, with one for each command.                      *)
LEMMA DoneKeeps ==
  ASSUME Handlers(th), NEW t \in Slots, Done(t)
  PROVE  Handlers(th')
<1>1. GoesOn(th[t], Free)
  BY FreeTyped DEF GoesOn
<1> QED BY <1>1, OneGoesOn DEF Done

LEMMA GoKeeps ==
  ASSUME Handlers(th), NEW t \in Slots, th[t] # Free, NEW step \in HandlerSteps, Go(t,
         step)
  PROVE  Handlers(th')
<1> DEFINE x == [th[t] EXCEPT !.step = step, !.reply = "none"]
<1>1. th \in [Slots -> HandlerType] /\ th[t] \in HandlerType
  BY DEF Handlers
<1>2. th' = [th EXCEPT ![t] = x]
  BY <1>1 DEF Go
<1>3. x \in HandlerType /\ x.op = th[t].op
  BY <1>1 DEF HandlerType, HandlerReplies
<1> HIDE DEF x
<1> QED BY <1>2, <1>3, OneGoesOn DEF GoesOn

LEMMA AnswerKeeps ==
  ASSUME Handlers(th), NEW t \in Slots, th[t] # Free, NEW r \in HandlerReplies,
         Reply(t, r)
  PROVE  Handlers(th')
<1> DEFINE x == [th[t] EXCEPT !.reply = r]
<1>1. th \in [Slots -> HandlerType] /\ th[t] \in HandlerType
  BY DEF Handlers
<1>2. th' = [th EXCEPT ![t] = x]
  BY <1>1 DEF Reply
<1>3. x \in HandlerType /\ x.op = th[t].op
  BY <1>1 DEF HandlerType
<1> HIDE DEF x
<1> QED BY <1>2, <1>3, OneGoesOn DEF GoesOn

(* A new handler's command is not under way yet. *)
LEMMA BeginKeeps ==
  ASSUME Handlers(th), Flags, NEW t \in Slots, NEW op \in Kinds \ {"free"},
         NEW step \in HandlerSteps, Begin(t, op, step), op = "mode" \/ ~Pending({op})
  PROVE  Handlers(th') /\ ops' \in 0..MaxOps
<1> DEFINE x == [Free EXCEPT !.op = op, !.step = step, !.was = AutomaticActive,
                             !.ran = running, !.want = mode]
<1>1. /\ th \in [Slots -> HandlerType] /\ th[t] = Free /\ th' = [th EXCEPT ![t] = x]
      /\ ops < MaxOps /\ ops' = ops + 1
  BY DEF Begin, Handlers
<1>2. AutomaticActive \in BOOLEAN /\ running \in BOOLEAN /\ mode \in ModesOrNone
  BY DEF AutomaticActive, Flags
<1>3. x \in HandlerType /\ x.op = op
  BY <1>2, FreeTyped DEF HandlerType
<1> HIDE DEF x
<1>4. /\ th' \in [Slots -> HandlerType] /\ th'[t] = x
      /\ \A u \in Slots \ {t} : th'[u] = th[u]
  BY <1>1, <1>3
<1>5. \A u \in Slots : op # "mode" => th[u].op # op
  BY DEF Pending
<1>6. \A u \in Slots : th'[u].op = "free" <=> th'[u] = Free
  BY <1>3, <1>4, FreeTyped DEF Handlers
<1>7. ASSUME NEW u \in Slots, NEW v \in Slots, u # v, th'[u].op = th'[v].op
      PROVE  th'[u].op \in {"free", "mode"}
  BY <1>3, <1>4, <1>5, <1>7 DEF Handlers
<1>8. ops' \in 0..MaxOps
  BY <1>1, PanelBounds DEF Flags
<1> QED BY <1>4, <1>6, <1>7, <1>8 DEF Handlers

(* Every click begins a handler whose button is not locked by another: for *)
(* each command the button is disabled while it is pending.                *)
LEMMA ClickKeeps ==
  ASSUME PanelTypeOK, NEW t \in Slots, Click(t)
  PROVE  PanelTypeOK'
<1>1. Handlers(th) /\ DeviceOK(dev) /\ Flags
  BY TypeParts
<1>2. UNCHANGED <<panel, mode, accessory, session, row, hint, running, motorRun, seen,
                  resync, dev, notice, missed, faults>>
  BY DEF Click
<1>3. PushFirst \in HandlerSteps
  BY DEF PushFirst, HandlerSteps
<1>4. \E op \in Kinds \ {"free"} : \E step \in HandlerSteps :
        Begin(t, op, step) /\ (op = "mode" \/ ~Pending({op}))
  <2>1. CASE Stroke(t)
    <3>1. PICK op \in {"stroke", "burst"} : Begin(t, op, PushFirst)
      BY <2>1 DEF Stroke
    <3>2. ~Pending({op})
      BY <2>1 DEF Stroke, StrokeEnabled, Pending
    <3> QED BY <1>3, <3>1, <3>2 DEF Kinds
  <2>2. CASE MotorStart(t)
    <3>1. Begin(t, "motorRun", PushFirst) /\ ~Pending({"motorRun"})
      BY <2>2 DEF MotorStart, MotorStartEnabled, Pending
    <3> QED BY <1>3, <3>1 DEF Kinds
  <2>3. CASE MotorStop(t)
    <3>1. Begin(t, "motorStop", "cmd") /\ ~Pending({"motorStop"})
      BY <2>3 DEF MotorStop, MotorStopEnabled, Pending
    <3> QED BY <3>1 DEF Kinds, HandlerSteps
  <2>4. CASE ManualAbort(t)
    <3>1. Begin(t, "abortManual", "cmd") /\ ~Pending({"abortManual"})
      BY <2>4 DEF ManualAbort, ManualAbortEnabled, Pending, Aborts
    <3> QED BY <3>1 DEF Kinds, HandlerSteps
  <2>5. CASE Start(t)
    <3>1. Begin(t, "start", PushFirst) /\ ~Pending({"start"})
      BY <2>5 DEF Start, StartEnabled, Pending
    <3> QED BY <1>3, <3>1 DEF Kinds
  <2>6. CASE Stop(t)
    <3>1. Begin(t, "stop", "cmd") /\ ~Pending({"stop"})
      BY <2>6 DEF Stop, StopEnabled, Pending, Aborts
    <3> QED BY <3>1 DEF Kinds, HandlerSteps
  <2>7. CASE Abort(t)
    <3>1. Begin(t, "abort", "cmd") /\ ~Pending({"abort"})
      BY <2>7 DEF Abort, AbortEnabled, Pending, Aborts
    <3> QED BY <3>1 DEF Kinds, HandlerSteps
  <2>8. CASE SwitchToManual(t)
    BY <2>8 DEF SwitchToManual, Kinds, HandlerSteps
  <2>9. CASE SceneOn(t)
    <3>1. Begin(t, "sceneOn", "row") /\ ~Pending({"sceneOn"})
      BY <2>9 DEF SceneOn, SceneSwitchEnabled, Pending
    <3> QED BY <3>1 DEF Kinds, HandlerSteps
  <2>10. CASE SceneOff(t)
    <3>1. Begin(t, "sceneOff", "push") /\ ~Pending({"sceneOff"})
      BY <2>10 DEF SceneOff, SceneSwitchEnabled, Pending
    <3> QED BY <3>1 DEF Kinds, HandlerSteps
  <2>11. CASE Accessory(t)
    <3> DEFINE op == IF accessory THEN "accessoryOff" ELSE "accessoryOn"
    <3>1. Begin(t, op, "cmd")
      BY <2>11 DEF Accessory
    <3>2. op \in {"accessoryOn", "accessoryOff"}
      OBVIOUS
    <3> HIDE DEF op
    <3>3. ~Pending({op})
      BY <2>11, <3>2 DEF Accessory, AccessorySwitchEnabled, Pending
    <3> QED BY <3>1, <3>2, <3>3 DEF Kinds, HandlerSteps
  <2> QED BY <2>1, <2>2, <2>3, <2>4, <2>5, <2>6, <2>7, <2>8, <2>9, <2>10, <2>11 DEF Click
<1>5. Handlers(th') /\ ops' \in 0..MaxOps
  BY <1>1, <1>4, BeginKeeps
<1>6. scene' \in BOOLEAN
  BY <1>1 DEF Click, Flags, Stroke, MotorStart, MotorStop,
              ManualAbort, Start, Stop, Abort,
              SwitchToManual, SceneOn, SceneOff, Accessory
<1>7. DeviceOK(dev') /\ Flags'
  BY <1>1, <1>2, <1>5, <1>6 DEF Flags, DeviceOK
<1> QED BY <1>5, <1>7, TypePartsNext

(* The handlers of the panel that was drawn go on; those of a panel that is
   gone keep what its refs said last. *)
LEMMA ApplyModeKeeps ==
  ASSUME NEW h, Handlers(h), Flags, NEW next \in Modes, ApplyMode(h, next)
  PROVE  Handlers(th') /\ mode' \in ModesOrNone /\ motorRun' \in BOOLEAN
<1>1. h \in [Slots -> HandlerType]
  BY DEF Handlers
<1> DEFINE view == IF running \/ AutomaticActive THEN "pending" ELSE "over"
<1>2. view \in Views
  BY DEF Views
<1> HIDE DEF view
<1>3. th' = [t \in Slots |->
        IF mode = next \/ h[t].view # "live" \/ h[t].op = "free" THEN h[t]
        ELSE [h[t] EXCEPT !.view = view]]
  BY DEF ApplyMode, view
<1>4. ASSUME NEW t \in Slots
      PROVE  GoesOn(h[t], th'[t])
  <2>1. h[t] \in HandlerType /\ [h[t] EXCEPT !.view = view] \in HandlerType
        /\ [h[t] EXCEPT !.view = view].op = h[t].op
    BY <1>1, <1>2 DEF HandlerType
  <2>2. h[t].op # "free" => h[t] # Free
    BY DEF Handlers
  <2>3. th'[t] = h[t] \/ (h[t].op # "free" /\ th'[t] = [h[t] EXCEPT !.view = view])
    BY <1>3
  <2> QED BY <2>1, <2>2, <2>3 DEF GoesOn
<1>5. th' \in [Slots -> HandlerType]
  <2>1. \A t \in Slots : th'[t] \in HandlerType
    BY <1>4 DEF GoesOn
  <2> QED BY <1>3, <2>1
<1>6. Handlers(th')
  BY <1>4, <1>5, HandlersGoOn
<1>7. mode' \in ModesOrNone /\ motorRun' \in BOOLEAN
  BY DEF ApplyMode, ModesOrNone, Flags
<1> QED BY <1>6, <1>7

LEMMA SwitchModeKeeps ==
  ASSUME PanelTypeOK, NEW next \in Modes, SwitchMode(next)
  PROVE  PanelTypeOK'
<1>1. Handlers(th) /\ DeviceOK(dev) /\ Flags
  BY TypeParts
<1>2. Handlers(th') /\ mode' \in ModesOrNone /\ motorRun' \in BOOLEAN
  BY <1>1, ApplyModeKeeps DEF SwitchMode
<1>3. ops' \in 0..MaxOps
  BY <1>1, PanelBounds DEF SwitchMode, Flags
<1>4. DeviceOK(dev') /\ Flags'
  BY <1>1, <1>2, <1>3 DEF Flags, DeviceOK, SwitchMode
<1> QED BY <1>2, <1>4, TypePartsNext

(* Faults are counted up to their bound.                                   *)
LEMMA FaultCounts ==
  ASSUME Flags, Fault \/ UNCHANGED faults
  PROVE  faults' \in 0..Faults
BY PanelBounds DEF Flags, Fault

(* What a command leaves of the device: a motion or a session begins only  *)
(* when neither is under way, so that they exclude each other.             *)
LEMMA ExecutedTyped ==
  ASSUME DeviceOK(dev), NEW c
  PROVE  DeviceOK(Executed(c)[1]) /\ Executed(c)[2] \in HandlerReplies
<1> DEFINE e == Executed(c)
<1>1. dev \in PanelDeviceType
  BY DEF DeviceOK
<1>2. DeviceOK([dev EXCEPT !.accessory = FALSE])
  BY DEF DeviceOK, PanelDeviceType
<1>3. \/ e = <<dev, "refused">> \/ e = <<dev, "idle">>
      \/ Idle /\ e = <<[dev EXCEPT !.motion = "relay"], "moving">>
      \/ Idle /\ e = <<[dev EXCEPT !.motion = "motor"], "ok">>
      \/ Idle /\ e = <<[dev EXCEPT !.auto = "running"], "ok">>
      \/ e = <<[dev EXCEPT !.motion = "none"], "ok">>
      \/ dev.auto # "idle" /\ e = <<[dev EXCEPT !.auto = "stopping"], "ok">>
      \/ e = <<[dev EXCEPT !.auto = "idle", !.motion = "none"], "ok">>
      \/ dev.ready /\ e = <<[dev EXCEPT !.scene = TRUE], "ok">>
      \/ e = <<[dev EXCEPT !.scene = FALSE, !.accessory = FALSE], "ok">>
      \/ e = <<[dev EXCEPT !.accessory = TRUE], "ok">>
      \/ e = <<[dev EXCEPT !.accessory = FALSE], "ok">>
  BY DEF Executed, Motions
<1> HIDE DEF e
<1>4. ASSUME NEW x, NEW r \in HandlerReplies, e = <<x, r>>, DeviceOK(x)
      PROVE  DeviceOK(e[1]) /\ e[2] \in HandlerReplies
  BY <1>4
<1>5. {"ok", "moving", "refused", "idle"} \subseteq HandlerReplies
  BY DEF HandlerReplies
<1>6. Idle => /\ DeviceOK([dev EXCEPT !.motion = "relay"])
              /\ DeviceOK([dev EXCEPT !.motion = "motor"])
              /\ DeviceOK([dev EXCEPT !.auto = "running"])
  BY DEF Idle, DeviceOK, PanelDeviceType
<1>7. /\ DeviceOK([dev EXCEPT !.motion = "none"])
      /\ dev.auto # "idle" => DeviceOK([dev EXCEPT !.auto = "stopping"])
      /\ DeviceOK([dev EXCEPT !.auto = "idle", !.motion = "none"])
  BY DEF DeviceOK, PanelDeviceType
<1>8. /\ dev.ready => DeviceOK([dev EXCEPT !.scene = TRUE])
      /\ DeviceOK([dev EXCEPT !.scene = FALSE, !.accessory = FALSE])
      /\ DeviceOK([dev EXCEPT !.accessory = TRUE])
      /\ DeviceOK([dev EXCEPT !.accessory = FALSE])
  BY DEF DeviceOK, PanelDeviceType
<1> QED BY <1>3, <1>4, <1>5, <1>6, <1>7, <1>8 DEF e

(* The completion of a session, on its way or missed.                      *)
LEMMA EndedTyped ==
  ASSUME Flags, NEW b \in PanelDeviceType, NEW a, Ended(b, a)
  PROVE  notice' \in BOOLEAN /\ missed' \in BOOLEAN
BY DEF Ended, Flags, PanelDeviceType

(* The device handles a command, and cuts a motion short.                  *)
LEMMA HandleKeeps ==
  ASSUME PanelTypeOK, NEW t \in Slots, Handle(t)
  PROVE  PanelTypeOK'
<1>1. Handlers(th) /\ DeviceOK(dev) /\ Flags
  BY TypeParts
<1> DEFINE r == Executed(Sends(t))[2]
<1>2. /\ dev' = Executed(Sends(t))[1] /\ Ended(dev, dev') /\ Sent(t)
      /\ UNCHANGED <<panel, mode, scene, accessory, session, row, hint, running, motorRun,
                     seen, resync, ops>>
      /\ Fault \/ UNCHANGED faults
      /\ \E lost \in BOOLEAN :
           th' = [u \in Slots |-> IF u = t
                                  THEN [th[t] EXCEPT !.reply = IF lost THEN "lost" ELSE r]
                                  ELSE Interrupted(th[u], dev')]
  BY DEF Handle
<1>3. DeviceOK(dev') /\ r \in HandlerReplies
  BY <1>1, <1>2, ExecutedTyped
<1> HIDE DEF r
<1>4. PICK answered \in HandlerReplies :
        th' = [u \in Slots |-> IF u = t THEN [th[t] EXCEPT !.reply = answered]
                               ELSE Interrupted(th[u], dev')]
  BY <1>2, <1>3 DEF HandlerReplies
<1>5. ASSUME NEW u \in Slots
      PROVE  GoesOn(th[u], th'[u])
  <2>1. th[u] \in HandlerType
    BY <1>1 DEF Handlers
  <2>2. CASE u = t
    <3>1. th[u] # Free
      BY <1>2, <2>2, FreeTyped DEF Sent
    <3>2. th'[u] = [th[u] EXCEPT !.reply = answered]
      BY <1>4, <2>2
    <3> QED BY <2>1, <3>1, <3>2 DEF GoesOn, HandlerType
  <2>3. CASE u # t
    <3>1. th'[u] = Interrupted(th[u], dev')
      BY <1>4, <2>3
    <3>2. th'[u] = th[u] \/ (th[u].reply = "moving" /\ th'[u] = [th[u] EXCEPT !.reply = "refused"])
      BY <3>1 DEF Interrupted
    <3> QED BY <2>1, <3>2, FreeTyped DEF GoesOn, HandlerType, HandlerReplies
  <2> QED BY <2>2, <2>3
<1>6. th' \in [Slots -> HandlerType]
  <2>1. \A u \in Slots : th'[u] \in HandlerType
    BY <1>5 DEF GoesOn
  <2> QED BY <1>4, <2>1
<1>7. Handlers(th')
  BY <1>1, <1>5, <1>6, HandlersGoOn
<1>8. notice' \in BOOLEAN /\ missed' \in BOOLEAN /\ faults' \in 0..Faults
  BY <1>1, <1>2, EndedTyped, FaultCounts DEF DeviceOK
<1>9. Flags'
  BY <1>1, <1>2, <1>8 DEF Flags
<1> QED BY <1>3, <1>7, <1>9, TypePartsNext

LEMMA GiveUpKeeps ==
  ASSUME PanelTypeOK, NEW t \in Slots, GiveUp(t)
  PROVE  PanelTypeOK'
<1>1. Handlers(th) /\ DeviceOK(dev) /\ Flags
  BY TypeParts
<1>2. th[t] # Free
  BY FreeTyped DEF GiveUp, Sent
<1>3. Handlers(th')
  BY <1>1, <1>2, AnswerKeeps DEF GiveUp, HandlerReplies
<1>4. DeviceOK(dev') /\ Flags'
  BY <1>1 DEF GiveUp, Flags
<1> QED BY <1>3, <1>4, TypePartsNext

(* The motions that were answered as under way are answered now. *)
LEMMA MovingAnswered ==
  ASSUME Handlers(th), NEW r \in HandlerReplies,
         th' = [t \in Slots |-> IF th[t].reply = "moving" THEN [th[t] EXCEPT !.reply = r] ELSE th[t]]
  PROVE  Handlers(th')
<1>1. ASSUME NEW u \in Slots
      PROVE  GoesOn(th[u], th'[u])
  <2>1. th[u] \in HandlerType
    BY DEF Handlers
  <2>2. th'[u] = th[u] \/ (th[u].reply = "moving" /\ th'[u] = [th[u] EXCEPT !.reply = r])
    OBVIOUS
  <2> QED BY <2>1, <2>2, FreeTyped DEF GoesOn, HandlerType
<1>2. th' \in [Slots -> HandlerType]
  <2>1. \A u \in Slots : th'[u] \in HandlerType
    BY <1>1 DEF GoesOn
  <2> QED BY <2>1
<1> QED BY <1>1, <1>2, HandlersGoOn

(* What the device does by itself.                                         *)
LEMMA DeviceKeeps ==
  ASSUME PanelTypeOK,
         MotionDone \/ AutomaticDone \/ Press \/ Break
         \/ Reconnect \/ HandlePush
  PROVE  PanelTypeOK'
<1>1. Handlers(th) /\ DeviceOK(dev) /\ Flags /\ dev \in PanelDeviceType
  BY TypeParts DEF DeviceOK
<1>2. CASE MotionDone
  <2>1. Handlers(th')
    BY <1>1, <1>2, MovingAnswered DEF MotionDone, HandlerReplies
  <2>2. DeviceOK(dev')
    BY <1>1, <1>2 DEF MotionDone, DeviceOK, PanelDeviceType
  <2>3. Flags'
    BY <1>1, <1>2 DEF MotionDone, Flags
  <2> QED BY <2>1, <2>2, <2>3, TypePartsNext
<1>3. CASE AutomaticDone
  <2>1. DeviceOK(dev')
    BY <1>1, <1>3 DEF AutomaticDone, DeviceOK, PanelDeviceType
  <2>2. notice' \in BOOLEAN /\ missed' \in BOOLEAN
    BY <1>1, <1>3, EndedTyped DEF AutomaticDone
  <2>3. Handlers(th') /\ Flags'
    BY <1>1, <1>3, <2>2 DEF AutomaticDone, Flags
  <2> QED BY <2>1, <2>3, TypePartsNext
<1>4. CASE Press
  <2>1. DeviceOK(dev')
    BY <1>1, <1>4 DEF Press, DeviceOK, PanelDeviceType
  <2>2. Handlers(th') /\ Flags'
    BY <1>1, <1>4 DEF Press, Flags
  <2> QED BY <2>1, <2>2, TypePartsNext
<1>5. CASE Break
  <2>1. Handlers(th')
    BY <1>1, <1>5, MovingAnswered DEF Break, HandlerReplies
  <2>2. DeviceOK(dev')
    <3> DEFINE a == [dev EXCEPT !.online = FALSE]
               b == [Away EXCEPT !.auto = dev.auto, !.motion = dev.motion]
    <3>1. dev' \in {a, b, Away}
      BY <1>5 DEF Break
    <3>2. DeviceOK(a)
      BY <1>1 DEF DeviceOK, PanelDeviceType
    <3>3. DeviceOK(b)
      BY <1>1 DEF DeviceOK, PanelDeviceType, Away
    <3>4. DeviceOK(Away)
      BY DEF DeviceOK, PanelDeviceType, Away
    <3> HIDE DEF a, b
    <3> QED BY <3>1, <3>2, <3>3, <3>4
  <2>3. faults' \in 0..Faults
    BY <1>1, <1>5, FaultCounts DEF Break
  <2>4. missed' \in BOOLEAN /\ notice' \in BOOLEAN
    BY <1>5 DEF Break
  <2>5. Flags'
    BY <1>1, <1>5, <2>3, <2>4 DEF Break, Flags
  <2> QED BY <2>1, <2>2, <2>5, TypePartsNext
<1>6. CASE Reconnect
  <2>1. DeviceOK(dev')
    BY <1>1, <1>6 DEF Reconnect, DeviceOK, PanelDeviceType
  <2>2. Handlers(th') /\ Flags'
    BY <1>1, <1>6 DEF Reconnect, Flags
  <2> QED BY <2>1, <2>2, TypePartsNext
<1>7. CASE HandlePush
  <2>1. DeviceOK(dev')
    BY <1>1, <1>7, ExecutedTyped DEF HandlePush
  <2>2. faults' \in 0..Faults
    BY <1>1, <1>7, FaultCounts DEF HandlePush
  <2>3. resync' \in ResyncType
    <3>1. PICK done \in BOOLEAN : PushSettles(done)
      <4>1. (Executed("sceneOn")[2] = "ok") \in BOOLEAN
        OBVIOUS
      <4> QED BY <1>7, <4>1 DEF HandlePush
    <3> QED BY <1>1, <3>1 DEF PushSettles, Flags, ResyncType
  <2>4. Handlers(th') /\ Flags'
    BY <1>1, <1>7, <2>2, <2>3 DEF HandlePush, Flags
  <2> QED BY <2>1, <2>4, TypePartsNext
<1> QED BY <1>2, <1>3, <1>4, <1>5, <1>6, <1>7

(* A handler that has an answer, or waits for one, is not free. *)
LEMMA ReturnedBusy ==
  ASSUME NEW t \in Slots, NEW kinds, NEW steps, Returned(t, kinds, steps), "free" \notin steps
  PROVE  th[t] # Free /\ th[t].op \in kinds
BY FreeTyped DEF Returned

LEMMA RowTyped ==
  ASSUME Flags, NEW m \in ModesOrNone, RowBecomes(m)
  PROVE  session' \in ModesOrNone /\ row' \in ModesOrNone /\ faults' \in 0..Faults
BY FaultCounts DEF RowBecomes, Flags

LEMMA EndTyped ==
  ASSUME Flags, EndAutomatic
  PROVE  session' \in ModesOrNone /\ row' \in ModesOrNone /\ faults' \in 0..Faults
<1>1. "none" \in ModesOrNone
  BY DEF ModesOrNone
<1> QED BY <1>1, RowTyped DEF EndAutomatic, Flags

LEMMA RunningTyped ==
  ASSUME Flags, ClearRunning \/ UNCHANGED <<running, hint>>
  PROVE  running' \in BOOLEAN /\ hint' \in BOOLEAN
BY DEF ClearRunning, Flags

(* Each way a handler goes on keeps its command until it is done.          *)
LEMMA ContinueKeeps ==
  ASSUME PanelTypeOK, NEW t \in Slots, Continue(t)
  PROVE  PanelTypeOK'
<1>1. Handlers(th) /\ DeviceOK(dev) /\ Flags /\ th[t] \in HandlerType
  BY TypeParts DEF Handlers
<1>2. {"cmd", "row", "wait", "end", "release", "accessory"} \subseteq HandlerSteps
  BY DEF HandlerSteps
<1>3. CASE PushReturns(t)
  <2>1. th[t] # Free
    BY <1>3, ReturnedBusy DEF PushReturns
  <2>2. Handlers(th')
    BY <1>1, <1>2, <1>3, <2>1, GoKeeps, DoneKeeps DEF PushReturns
  <2>3. DeviceOK(dev') /\ Flags'
    BY <1>1, <1>3 DEF PushReturns, Flags
  <2> QED BY <2>2, <2>3, TypePartsNext
<1>4. CASE ManualReturns(t)
  <2>1. Handlers(th')
    BY <1>1, <1>4, DoneKeeps DEF ManualReturns
  <2>2. motorRun' \in BOOLEAN
    BY <1>1, <1>4 DEF ManualReturns, Flags
  <2>3. DeviceOK(dev') /\ Flags'
    BY <1>1, <1>4, <2>2 DEF ManualReturns, Flags
  <2> QED BY <2>1, <2>3, TypePartsNext
<1>5. CASE AccessoryReturns(t)
  <2>1. Handlers(th')
    BY <1>1, <1>5, DoneKeeps DEF AccessoryReturns
  <2>2. accessory' \in BOOLEAN
    BY <1>1, <1>5 DEF AccessoryReturns, Flags
  <2>3. DeviceOK(dev') /\ Flags'
    BY <1>1, <1>5, <2>2 DEF AccessoryReturns, Flags
  <2> QED BY <2>1, <2>3, TypePartsNext
<1>6. CASE StartReturns(t)
  <2>1. th[t] # Free
    BY <1>6, ReturnedBusy DEF StartReturns
  <2>2. Handlers(th')
    BY <1>1, <1>2, <1>6, <2>1, GoKeeps, DoneKeeps DEF StartReturns
  <2>3. DeviceOK(dev') /\ Flags'
    BY <1>1, <1>6 DEF StartReturns, Flags
  <2> QED BY <2>2, <2>3, TypePartsNext
<1>7. CASE EnsureSession(t)
  <2>1. Handlers(th')
    BY <1>1, <1>7, DoneKeeps DEF EnsureSession
  <2>2. session' \in ModesOrNone /\ row' \in ModesOrNone
    BY <1>1, <1>7 DEF EnsureSession, Flags, ModesOrNone, Modes
  <2>3. running' \in BOOLEAN /\ hint' \in BOOLEAN
    BY <1>1, <1>7 DEF EnsureSession, Flags
  <2>4. faults' \in 0..Faults
    BY <1>1, <1>7, FaultCounts DEF EnsureSession
  <2>5. DeviceOK(dev') /\ Flags'
    BY <1>1, <1>7, <2>2, <2>3, <2>4 DEF EnsureSession, Flags
  <2> QED BY <2>1, <2>5, TypePartsNext
<1>8. CASE StartSession(t)
  <2>1. th[t] # Free /\ th[t].want \in ModesOrNone
    BY <1>1, <1>8, FreeTyped DEF StartSession, HandlerType
  <2>2. Handlers(th')
    BY <1>1, <1>2, <1>8, <2>1, GoKeeps, DoneKeeps DEF StartSession
  <2>3. session' \in ModesOrNone /\ row' \in ModesOrNone /\ faults' \in 0..Faults
    BY <1>1, <1>8, <2>1, RowTyped DEF StartSession, Flags
  <2>4. DeviceOK(dev') /\ Flags'
    BY <1>1, <1>8, <2>3 DEF StartSession, Flags
  <2> QED BY <2>2, <2>4, TypePartsNext
<1>9. CASE StopReturns(t)
  <2>1. th[t] # Free
    BY <1>9, ReturnedBusy DEF StopReturns
  <2>2. Handlers(th')
    BY <1>1, <1>2, <1>9, <2>1, GoKeeps, DoneKeeps DEF StopReturns
  <2>3. running' \in BOOLEAN /\ hint' \in BOOLEAN
    BY <1>1, <1>9, RunningTyped DEF StopReturns, ClearRunningOf
  <2>4. DeviceOK(dev') /\ Flags'
    BY <1>1, <1>9, <2>3 DEF StopReturns, Flags
  <2> QED BY <2>2, <2>4, TypePartsNext
<1>10. CASE WaitOver(t)
  <2>1. Handlers(th')
    BY <1>1, <1>10, DoneKeeps DEF WaitOver
  <2>2. DeviceOK(dev') /\ Flags'
    BY <1>1, <1>10 DEF WaitOver, Flags
  <2> QED BY <2>1, <2>2, TypePartsNext
<1>11. CASE Deadline(t)
  <2>1. th[t] # Free
    BY <1>11, FreeTyped DEF Deadline
  <2>2. Handlers(th')
    BY <1>1, <1>2, <1>11, <2>1, GoKeeps DEF Deadline
  <2>3. running' \in BOOLEAN /\ hint' \in BOOLEAN
    BY <1>1, <1>11, RunningTyped DEF Deadline, ClearRunningOf
  <2>4. DeviceOK(dev') /\ Flags'
    BY <1>1, <1>11, <2>3 DEF Deadline, Flags
  <2> QED BY <2>2, <2>4, TypePartsNext
<1>12. CASE SwitchStopReturns(t)
  <2>1. th[t] # Free
    BY <1>12, ReturnedBusy DEF SwitchStopReturns
  <2>2. Handlers(th')
    <3> DEFINE step == IF th[t].reply = "ok" THEN "wait" ELSE "end"
    <3>1. step \in HandlerSteps /\ Go(t, step)
      BY <1>2, <1>12 DEF SwitchStopReturns
    <3> HIDE DEF step
    <3> QED BY <1>1, <2>1, <3>1, GoKeeps
  <2>3. running' \in BOOLEAN /\ hint' \in BOOLEAN
    BY <1>1, <1>12, RunningTyped DEF SwitchStopReturns
  <2>4. DeviceOK(dev') /\ Flags'
    BY <1>1, <1>12, <2>3 DEF SwitchStopReturns, Flags
  <2> QED BY <2>2, <2>4, TypePartsNext
<1>13. CASE End(t)
  <2>1. th[t] # Free
    BY <1>13, FreeTyped DEF End
  <2>2. session' \in ModesOrNone /\ row' \in ModesOrNone /\ faults' \in 0..Faults
    BY <1>1, <1>13, EndTyped DEF End
  <2>3. Handlers(th') /\ mode' \in ModesOrNone /\ motorRun' \in BOOLEAN
    <3>1. Handlers([th EXCEPT ![t] = Free])
      <4>1. GoesOn(th[t], Free)
        BY FreeTyped DEF GoesOn
      <4> QED BY <1>1, <4>1, OneGoesOn
    <3>2. "manual" \in Modes
      BY DEF Modes
    <3>3. CASE ApplyMode([th EXCEPT ![t] = Free], "manual")
      <4> DEFINE h == [th EXCEPT ![t] = Free]
      <4>1. Handlers(h) /\ ApplyMode(h, "manual")
        BY <3>1, <3>3
      <4> HIDE DEF h
      <4> QED BY <1>1, <3>2, <4>1, ApplyModeKeeps
    <3>4. CASE (Done(t) \/ Go(t, "release")) /\ UNCHANGED <<mode, motorRun>>
      BY <1>1, <1>2, <2>1, <3>4, DoneKeeps, GoKeeps DEF Flags
    <3> QED BY <1>13, <3>3, <3>4 DEF End
  <2>4. DeviceOK(dev') /\ Flags'
    BY <1>1, <1>13, <2>2, <2>3 DEF End, Flags
  <2> QED BY <2>3, <2>4, TypePartsNext
<1>14. CASE SceneOffReturns(t)
  <2>1. th[t] # Free
    BY <1>14, ReturnedBusy DEF SceneOffReturns
  <2>2. Handlers(th')
    <3> DEFINE step == IF th[t].was \/ th[t].ran THEN "cmd" ELSE "release"
    <3>1. step \in HandlerSteps /\ Go(t, step)
      BY <1>2, <1>14 DEF SceneOffReturns
    <3> HIDE DEF step
    <3> QED BY <1>1, <2>1, <3>1, GoKeeps
  <2>3. DeviceOK(dev') /\ Flags'
    BY <1>1, <1>14 DEF SceneOffReturns, Flags
  <2> QED BY <2>2, <2>3, TypePartsNext
<1>15. CASE Release(t)
  <2>1. th[t] # Free
    BY <1>15, FreeTyped DEF Release
  <2>2. Handlers(th') /\ scene' \in BOOLEAN
    BY <1>1, <1>2, <1>15, <2>1, GoKeeps, DoneKeeps DEF Release, Flags
  <2>3. session' \in ModesOrNone /\ row' \in ModesOrNone /\ faults' \in 0..Faults
    <3>1. "none" \in ModesOrNone
      BY DEF ModesOrNone
    <3> QED BY <1>1, <1>15, <3>1, RowTyped DEF Release, Flags
  <2>4. DeviceOK(dev') /\ Flags'
    BY <1>1, <1>15, <2>2, <2>3 DEF Release, Flags
  <2> QED BY <2>2, <2>4, TypePartsNext
<1>16. CASE AccessoryOffReturns(t)
  <2>1. Handlers(th')
    BY <1>1, <1>16, DoneKeeps DEF AccessoryOffReturns
  <2>2. DeviceOK(dev') /\ Flags'
    BY <1>1, <1>16 DEF AccessoryOffReturns, Flags
  <2> QED BY <2>1, <2>2, TypePartsNext
<1> QED BY <1>3, <1>4, <1>5, <1>6, <1>7, <1>8, <1>9, <1>10, <1>11, <1>12, <1>13, <1>14,
           <1>15, <1>16 DEF Continue

(* The effects of the tab, and a reload, which ends all handlers.          *)
LEMMA TabKeeps ==
  ASSUME PanelTypeOK,
         HubComplete \/ ClearStaleRunning \/ SyncMode
         \/ Poll \/ Rehydrate \/ ResyncEffect
           \/ Attempt \/ Reload
  PROVE  PanelTypeOK'
<1>1. Handlers(th) /\ DeviceOK(dev) /\ Flags /\ dev.online \in BOOLEAN
  BY TypeParts DEF DeviceOK, PanelDeviceType
<1>2. CASE HubComplete
  <2>1. running' \in BOOLEAN /\ hint' \in BOOLEAN
    BY <1>1, <1>2, RunningTyped DEF HubComplete
  <2>2. session' \in ModesOrNone /\ row' \in ModesOrNone /\ faults' \in 0..Faults
    BY <1>1, <1>2, EndTyped DEF HubComplete, Flags
  <2>3. notice' \in BOOLEAN /\ missed' \in BOOLEAN
    BY <1>1, <1>2 DEF HubComplete, Flags, Showing
  <2>4. Handlers(th') /\ DeviceOK(dev') /\ Flags'
    BY <1>1, <1>2, <2>1, <2>2, <2>3 DEF HubComplete, Flags
  <2> QED BY <2>4, TypePartsNext
<1>3. CASE ClearStaleRunning \/ Poll \/ SyncMode
  <2>1. CASE ClearStaleRunning
    <3>1. Handlers(th') /\ DeviceOK(dev') /\ Flags'
      BY <1>1, <2>1 DEF ClearStaleRunning, ClearRunning, Flags
    <3> QED BY <3>1, TypePartsNext
  <2>2. CASE Poll
    <3>1. Handlers(th') /\ DeviceOK(dev') /\ Flags'
      BY <1>1, <2>2 DEF Poll, Flags
    <3> QED BY <3>1, TypePartsNext
  <2>3. CASE SyncMode
    <3>1. Handlers(th') /\ DeviceOK(dev') /\ Flags'
      BY <1>1, <2>3 DEF SyncMode, Flags
    <3> QED BY <3>1, TypePartsNext
  <2> QED BY <1>3, <2>1, <2>2, <2>3
<1>4. CASE Rehydrate
  <2>1. running' \in BOOLEAN /\ session' \in ModesOrNone
    BY <1>1, <1>4 DEF Rehydrate, Flags
  <2>2. Handlers(th') /\ DeviceOK(dev') /\ Flags'
    BY <1>1, <1>4, <2>1 DEF Rehydrate, Flags
  <2> QED BY <2>2, TypePartsNext
<1>5. CASE ResyncEffect \/ Attempt
  <2>1. resync' \in ResyncType
    <3>1. Wanted \in BOOLEAN /\ resync \in ResyncType
      BY <1>1 DEF Wanted, Flags
    <3>2. CASE ResyncEffect
      <4>1. resync' = [on |-> Wanted, synced |-> FALSE,
                       push |-> IF Wanted THEN "sent" ELSE "idle"]
        BY <3>2 DEF ResyncEffect
      <4> QED BY <3>1, <4>1 DEF ResyncType
    <3>3. CASE Attempt
      <4>1. resync' = [resync EXCEPT !.push = "sent"]
        BY <3>3 DEF Attempt
      <4> QED BY <3>1, <4>1 DEF ResyncType
    <3> QED BY <1>5, <3>2, <3>3
  <2>2. Handlers(th') /\ DeviceOK(dev') /\ Flags'
    BY <1>1, <1>5, <2>1 DEF ResyncEffect, Attempt, Flags
  <2> QED BY <2>2, TypePartsNext
<1>6. CASE Reload
  <2>1. Handlers(th')
    BY <1>6, FreeTyped DEF Reload, Handlers
  <2>2. faults' \in 0..Faults
    BY <1>1, <1>6, FaultCounts DEF Reload
  <2>3. resync' \in ResyncType /\ missed' \in BOOLEAN
    BY <1>6 DEF Reload, ResyncType
  <2>4. DeviceOK(dev') /\ Flags'
    BY <1>1, <1>6, <2>2, <2>3 DEF Reload, Flags, ModesOrNone
  <2> QED BY <2>1, <2>4, TypePartsNext
<1> QED BY <1>2, <1>3, <1>4, <1>5, <1>6

(* Nothing is under way at first.                                          *)
LEMMA InitTyped == PanelInit => PanelTypeOK
<1> SUFFICES ASSUME PanelInit PROVE PanelTypeOK
  OBVIOUS
<1>1. Handlers(th)
  BY FreeTyped DEF PanelInit, Handlers
<1>2. scene \in BOOLEAN
  BY DEF PanelInit
<1>3. DeviceOK(dev)
  BY <1>2 DEF PanelInit, DeviceOK, PanelDeviceType, Away
<1>4. Flags
  <2>1. /\ panel \in AllPanels /\ session \in ModesOrNone
        /\ row \in ModesOrNone /\ mode \in ModesOrNone
    BY PanelBounds DEF PanelInit, ModesOrNone
  <2>2. resync \in ResyncType
    <3>1. resync = [on |-> scene, synced |-> scene, push |-> "idle"]
      BY DEF PanelInit
    <3> QED BY <1>2, <3>1 DEF ResyncType
  <2>3. ops \in 0..MaxOps /\ faults \in 0..Faults
    BY PanelBounds DEF PanelInit
  <2>4. /\ accessory \in BOOLEAN /\ hint \in BOOLEAN /\ running \in BOOLEAN /\ motorRun \in BOOLEAN
        /\ seen \in BOOLEAN /\ notice \in BOOLEAN /\ missed \in BOOLEAN
    BY DEF PanelInit
  <2> QED BY <1>2, <2>1, <2>2, <2>3, <2>4 DEF Flags
<1> QED BY <1>1, <1>3, <1>4, TypeParts

(* Every step keeps the types.                                             *)
LEMMA NextTyped == PanelTypeOK /\ [PanelNext]_panelVars => PanelTypeOK'
<1> SUFFICES ASSUME PanelTypeOK, [PanelNext]_panelVars PROVE PanelTypeOK'
  OBVIOUS
<1>1. CASE Operator
  BY <1>1, ClickKeeps, SwitchModeKeeps DEF Operator
<1>2. CASE Tab
  BY <1>2, ContinueKeeps, TabKeeps DEF Tab
<1>3. CASE Device
  BY <1>3, HandleKeeps, GiveUpKeeps, DeviceKeeps, TabKeeps DEF Device
<1>4. CASE Reload
  BY <1>4, TabKeeps
<1>5. CASE UNCHANGED panelVars
  <2>1. Handlers(th) /\ DeviceOK(dev) /\ Flags
    BY TypeParts
  <2>2. Handlers(th') /\ DeviceOK(dev') /\ Flags'
    BY <1>5, <2>1 DEF panelVars, Flags
  <2> QED BY <2>2, TypePartsNext
<1> QED BY <1>1, <1>2, <1>3, <1>4, <1>5 DEF PanelNext

(* However many handlers are under way: each command that locks its button *)
(* has one handler at most, so that no answer is taken for another's       *)
(* (HardwareCommandProvider's isCommandPending, and the buttons disabled   *)
(* by it); a session and a motion exclude each other on the device, whose  *)
(* scene is that of a device made ready; and the handlers, the flags and   *)
(* the device keep their types.                                            *)
THEOREM PanelTypeCorrect == PanelSpec => []PanelTypeOK
BY InitTyped, NextTyped, PTL DEF PanelSpec
=============================================================================
