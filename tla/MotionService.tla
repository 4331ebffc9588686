--------------------------- MODULE MotionService ----------------------------
(***************************************************************************)
(* What the device promises the sender of motion commands, with no relay,  *)
(* pulse or gap in sight: one motion at a time, every command answered,    *)
(* a stroke or burst when it is over, a session's stop once when it is     *)
(* accepted and once when the session has ended.                           *)
(* Module RelayExecution implements this specification.                    *)
(***************************************************************************)
EXTENDS Sequences

CONSTANTS Cmds,     \* correlation ids
          None,     \* no correlation id
          Idle,     \* nothing is running
          Session   \* an automatic session is running

VARIABLES running,  \* Idle, Session, or the stroke or burst that is running
          stopper,  \* the stop command the session will answer, or None
          asked,    \* the commands received so far
          acks      \* their answers, in order

mvars == <<running, stopper, asked, acks>>

Init ==
  /\ running = Idle /\ stopper = None
  /\ asked = {} /\ acks = [c \in Cmds |-> <<>>]

Receive(c) == c \notin asked /\ asked' = asked \cup {c}
Answer(as, c, ok) == [as EXCEPT ![c] = Append(@, ok)]

Refuse(c) ==
  /\ Receive(c)
  /\ acks' = Answer(acks, c, FALSE)
  /\ UNCHANGED <<running, stopper>>

AcceptMotion(c) ==
  /\ running = Idle
  /\ Receive(c)
  /\ running' = c
  /\ UNCHANGED <<stopper, acks>>

AcceptSession(c) ==
  /\ running = Idle
  /\ Receive(c)
  /\ running' = Session
  /\ acks' = Answer(acks, c, TRUE)
  /\ UNCHANGED stopper

AcceptStop(c) ==
  /\ running = Session /\ stopper = None
  /\ Receive(c)
  /\ stopper' = c
  /\ acks' = Answer(acks, c, TRUE)
  /\ UNCHANGED running

AcceptUpdate(c) ==
  /\ running = Session
  /\ Receive(c)
  /\ acks' = Answer(acks, c, TRUE)
  /\ UNCHANGED <<running, stopper>>

(* The answers given when what is running comes to its end. *)
Over(as, ok) ==
  IF running = Session
  THEN IF stopper = None THEN as ELSE Answer(as, stopper, ok)
  ELSE Answer(as, running, ok)

Complete ==
  /\ running \in Cmds
  /\ running' = Idle
  /\ acks' = Over(acks, TRUE)
  /\ UNCHANGED <<stopper, asked>>

EndSession == \E ok \in BOOLEAN :
  /\ running = Session
  /\ running' = Idle /\ stopper' = None
  /\ acks' = Over(acks, ok)
  /\ UNCHANGED asked

Abort(c) ==
  /\ running # Idle
  /\ Receive(c)
  /\ running' = Idle /\ stopper' = None
  /\ acks' = Over(Answer(acks, c, TRUE), FALSE)

Accept(c) == AcceptMotion(c) \/ AcceptSession(c) \/ AcceptStop(c) \/ AcceptUpdate(c)
Next == Complete \/ EndSession \/ \E c \in Cmds : Refuse(c) \/ Accept(c) \/ Abort(c)

(* A stroke or burst ends by itself; a session ends once it has been asked to. *)
Fairness == WF_mvars(Complete) /\ WF_mvars(stopper # None /\ EndSession)
Spec == Init /\ [][Next]_mvars
FairSpec == Spec /\ Fairness
=============================================================================
