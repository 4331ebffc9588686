--------------------------- MODULE RelayExecution ---------------------------
(***************************************************************************)
(* The relay side of the SomNet device: the relay controller, the three   *)
(* execution modes that drive it (single pulse, burst sequence, automatic *)
(* session), the execution context that lets one of them run at a time,   *)
(* and the branches of the command handler that start and stop them.      *)
(*                                                                         *)
(* Every action runs on the firmware's loop task, to completion.  Time is  *)
(* abstracted: a pulse, a delay or a gap that is running may be found      *)
(* elapsed by any later poll.  What the automatic program computes (is a   *)
(* burst due, has the end rule fired) is a free choice here; the choice is *)
(* made by the plan of module AutomaticSession.                            *)
(***************************************************************************)
EXTENDS Integers, Sequences, FiniteSets

CONSTANTS Cmds,            \* correlation ids, each used by one command
          None,            \* no correlation id
          MaxBurstStrokes  \* kMaxBurstStrokes

ASSUME BurstStrokesAssumption == MaxBurstStrokes \in Nat \ {0}
ASSUME NoneAssumption == None \notin Cmds
ASSUME LabelsAssumption == "idle" \notin Cmds /\ "session" \notin Cmds  \* of Running

VARIABLES relay,       \* RelayController.state_
          callback,    \* RelayController.onComplete_: which mode's callback
          activeMode,  \* ExecutionContext.activeMode_
          stroke,      \* SinglePulseMode
          burst,       \* BurstSequenceMode
          auto,        \* AutomaticSessionMode
          notices,     \* history: [started, completed] automatic sessions
          log          \* history: per command what was asked, fired and acked

vars == <<relay, callback, activeMode, stroke, burst, auto, notices, log>>

Modes == {"none", "single", "burst", "automatic"}
Callbacks == {"none", "stroke", "burst", "main", "intra"}
Kinds == {"none", "stroke", "burst", "start", "stop", "update", "abort"}

NoStroke == [active |-> FALSE, corr |-> None]
NoBurst == [active |-> FALSE, state |-> "Idle", target |-> 0, done |-> 0,
            corr |-> None]
NoSession == [active |-> FALSE, state |-> "Idle", burstsOn |-> FALSE,
              target |-> 0, done |-> 0, stop |-> None, pending |-> "none"]

NoCmd == [kind |-> "none", valid |-> FALSE, want |-> 0, fired |-> 0, acks |-> <<>>]

Init ==
  /\ relay = "Idle" /\ callback = "none" /\ activeMode = "none"
  /\ stroke = NoStroke /\ burst = NoBurst /\ auto = NoSession
  /\ notices = [started |-> 0, completed |-> 0]
  /\ log = [c \in Cmds |-> NoCmd]

-----------------------------------------------------------------------------
(* The relay controller. *)

Energise(cb) == relay' = "On" /\ callback' = cb
Release == relay' = "Idle" /\ callback' = "none"

(* Seeded fault: the burst mode reports itself idle. *)
IsActiveButBurst == \/ activeMode = "single" /\ stroke.active
                    \/ activeMode = "automatic" /\ auto.active

(* The execution context asks the mode it points at. *)
IsActive == \/ activeMode = "single" /\ stroke.active
            \/ activeMode = "burst" /\ burst.active
            \/ activeMode = "automatic" /\ auto.active

(* A start is refused when a mode runs, the payload does not validate, or the
   relay is still on (requestPulse fails). *)
Refused(valid) == IsActive \/ ~valid \/ relay = "On"

(* The history of command acknowledgements (CommandHandler::sendAck). *)
Asked(l, c, kind, valid, want) ==
  [l EXCEPT ![c] = [kind |-> kind, valid |-> valid, want |-> want,
                    fired |-> 0, acks |-> <<>>]]
Acked(l, c, ok) == [l EXCEPT ![c].acks = Append(@, ok)]
Fired(l, c) == [l EXCEPT ![c].fired = @ + 1]

Fresh(c) == log[c].kind = "none"
Reject(c, kind, valid, want) ==
  /\ log' = Acked(Asked(log, c, kind, valid, want), c, FALSE)
  /\ UNCHANGED <<relay, callback, activeMode, stroke, burst, auto, notices>>

-----------------------------------------------------------------------------
(* stroke: SinglePulseMode *)

Stroke(c) == \E valid \in BOOLEAN :
  /\ Fresh(c)
  /\ \/ Refused(valid) /\ Reject(c, "stroke", valid, 1)
     \/ /\ ~Refused(valid)
        /\ Energise("stroke")
        /\ stroke' = [active |-> TRUE, corr |-> c]
        /\ activeMode' = "single"
        /\ log' = Asked(log, c, "stroke", valid, 1)
        /\ UNCHANGED <<burst, auto, notices>>

StrokePulseDone ==
  /\ relay = "On" /\ callback = "stroke" /\ stroke.active
  /\ Release
  /\ stroke' = NoStroke
  /\ log' = Acked(Fired(log, stroke.corr), stroke.corr, TRUE)
  /\ UNCHANGED <<activeMode, burst, auto, notices>>

-----------------------------------------------------------------------------
(* burst: BurstSequenceMode *)

Burst(c) == \E valid \in BOOLEAN, n \in 1..MaxBurstStrokes :
  /\ Fresh(c)
  /\ \/ (Refused(valid) \/ burst.active) /\ Reject(c, "burst", valid, n)
     \/ /\ ~Refused(valid) /\ ~burst.active
        /\ Energise("burst")
        /\ burst' = [active |-> TRUE, state |-> "Pulse", target |-> n,
                     done |-> 0, corr |-> c]
        /\ activeMode' = "burst"
        /\ log' = Asked(log, c, "burst", valid, n)
        /\ UNCHANGED <<stroke, auto, notices>>

(* Seeded fault: off by one, a burst fires one stroke too many. *)
AllFiredOneMore(n) == n > burst.target
AllFired(n) == n >= burst.target

(* The count is compared before the delay is looked at; with a zero delay the
   next stroke starts inside the callback. *)
BurstPulseDone ==
  /\ relay = "On" /\ callback = "burst" /\ burst.active /\ burst.state = "Pulse"
  /\ LET n == burst.done + 1
         fired == Fired(log, burst.corr) IN
     \/ /\ AllFired(n)
        /\ Release
        /\ burst' = NoBurst
        /\ log' = Acked(fired, burst.corr, TRUE)
     \/ /\ ~AllFired(n)
        /\ log' = fired
        /\ \/ Energise("burst") /\ burst' = [burst EXCEPT !.done = n]
           \/ Release /\ burst' = [burst EXCEPT !.done = n, !.state = "Gap"]
  /\ UNCHANGED <<activeMode, stroke, auto, notices>>

BurstGapElapsed ==
  /\ activeMode = "burst" /\ burst.active /\ burst.state = "Gap"
  /\ relay = "Idle"
  /\ Energise("burst")
  /\ burst' = [burst EXCEPT !.state = "Pulse"]
  /\ UNCHANGED <<activeMode, stroke, auto, notices, log>>

-----------------------------------------------------------------------------
(* automatic-start, -stop, -update: AutomaticSessionMode *)

StartAutomatic(c) == \E valid, delayed, burstsOn \in BOOLEAN :
  /\ Fresh(c)
  /\ \/ (Refused(valid) \/ auto.active) /\ Reject(c, "start", valid, 0)
     \/ /\ ~Refused(valid) /\ ~auto.active
        /\ auto' = [NoSession EXCEPT !.active = TRUE, !.burstsOn = burstsOn,
                                     !.state = IF delayed THEN "StartDelay" ELSE "Pulse"]
        /\ IF delayed THEN UNCHANGED <<relay, callback>> ELSE Energise("main")
        /\ activeMode' = "automatic"
        /\ notices' = [notices EXCEPT !.started = @ + 1]
        /\ log' = Acked(Asked(log, c, "start", valid, 0), c, TRUE)
        /\ UNCHANGED <<stroke, burst>>

(* Seeded fault: a session that has ended in a callback still counts. *)
SessionRemembered == activeMode = "automatic"
SessionActive == activeMode = "automatic" /\ auto.active

StopAutomatic(c) ==
  /\ Fresh(c)
  /\ \/ (~SessionActive \/ auto.stop # None) /\ Reject(c, "stop", TRUE, 0)
     \/ /\ SessionActive /\ auto.stop = None
        /\ auto' = [auto EXCEPT !.stop = c]
        /\ log' = Acked(Asked(log, c, "stop", TRUE, 0), c, TRUE)
        /\ UNCHANGED <<relay, callback, activeMode, stroke, burst, notices>>

UpdateAutomatic(c) == \E valid \in BOOLEAN, next \in {"bursts", "plain"} :
  /\ Fresh(c)
  /\ \/ (~SessionActive \/ ~valid) /\ Reject(c, "update", valid, 0)
     \/ /\ SessionActive /\ valid
        /\ auto' = [auto EXCEPT !.pending = next]
        /\ log' = Acked(Asked(log, c, "update", valid, 0), c, TRUE)
        /\ UNCHANGED <<relay, callback, activeMode, stroke, burst, notices>>

(* The session after applyPendingUpdate.  A burst that is running when the new
   configuration has none is cancelled: its counters are cleared and the
   session waits for the next main stroke. *)
Updated(a) ==
  IF a.pending = "none" THEN a
  ELSE LET b == [a EXCEPT !.burstsOn = (a.pending = "bursts"), !.pending = "none"]
       IN IF ~b.burstsOn /\ b.state \in {"BurstPulse", "BurstGap"}
          THEN [b EXCEPT !.state = "WaitingGap", !.target = 0, !.done = 0]
          ELSE b

(* A wave or build-up program with nothing left to schedule cannot be created:
   the update ends the session. *)
UpdateMayFail(a) == a.pending # "none"

(* Seeded faults: the end of a session answers no stop, announces nothing. *)
FinishSessionSilently(ok, l) ==
  /\ auto' = NoSession
  /\ log' = l
  /\ notices' = [notices EXCEPT !.completed = @ + 1]
FinishSessionUnannounced(ok, l) ==
  /\ auto' = NoSession
  /\ log' = IF auto.stop = None THEN l ELSE Acked(l, auto.stop, ok)
  /\ UNCHANGED notices

(* finishSession: the stop that is waiting is answered and the session's own
   completion is announced. *)
FinishSession(ok, l) ==
  /\ auto' = NoSession
  /\ log' = IF auto.stop = None THEN l ELSE Acked(l, auto.stop, ok)
  /\ notices' = [notices EXCEPT !.completed = @ + 1]

Continue(a) == auto' = a /\ UNCHANGED <<notices, log>>
MainPulse(a) == Energise("main") /\ Continue([a EXCEPT !.state = "Pulse"])
IntraPulse(a) == Energise("intra") /\ Continue([a EXCEPT !.state = "BurstPulse"])
(* Seeded fault: a burst event starts with the count of the one before. *)
BeginBurstEventKeepsCount(a) == \E n \in 1..MaxBurstStrokes :
  IntraPulse([a EXCEPT !.target = n])
BeginBurstEvent(a) == \E n \in 1..MaxBurstStrokes :
  IntraPulse([a EXCEPT !.target = n, !.done = 0])
WaitForGap(a) == Release /\ Continue([a EXCEPT !.state = "WaitingGap"])
EndSession(ok) == Release /\ FinishSession(ok, log)

(* Seeded fault: the stop request is not looked at between strokes. *)
GoesOnRegardless(a) == TRUE
GoesOn(a) == a.stop = None

(* The checks made when a stroke or burst event leaves the relay idle: a
   requested stop or the end rule ends the session, else the gap begins. *)
StopEndOrWait(a) == EndSession(TRUE) \/ (GoesOn(a) /\ WaitForGap(a))

MainPulseDone ==
  /\ relay = "On" /\ callback = "main" /\ auto.active /\ auto.state = "Pulse"
  /\ \/ UpdateMayFail(auto) /\ EndSession(FALSE)
     \/ LET a == Updated(auto) IN
        \/ a.burstsOn /\ BeginBurstEvent(a)
        \/ StopEndOrWait(a)
  /\ UNCHANGED <<activeMode, stroke, burst>>

IntraPulseDone ==
  /\ relay = "On" /\ callback = "intra" /\ auto.active /\ auto.state = "BurstPulse"
  /\ \/ UpdateMayFail(auto) /\ EndSession(FALSE)
     \/ LET a == Updated([auto EXCEPT !.done = @ + 1]) IN
        \/ (a.state = "WaitingGap" \/ a.done >= a.target) /\ StopEndOrWait(a)
        \/ /\ a.state = "BurstPulse" /\ a.done < a.target
           /\ \/ IntraPulse(a)
              \/ Release /\ Continue([a EXCEPT !.state = "BurstGap"])
  /\ UNCHANGED <<activeMode, stroke, burst>>

-----------------------------------------------------------------------------
(* AutomaticSessionMode::poll, through ExecutionContext::poll, which forgets a
   mode its own poll has ended. *)

Forget == activeMode' = IF auto'.active THEN "automatic" ELSE "none"

(* A stop requested during the start delay is not looked at here. *)
StartDelayElapsed ==
  /\ SessionActive /\ auto.state = "StartDelay" /\ relay = "Idle"
  /\ \/ UpdateMayFail(auto) /\ EndSession(FALSE)
     \/ MainPulse(Updated(auto))
  /\ Forget
  /\ UNCHANGED <<stroke, burst>>

(* An update that cancels the burst does not keep this poll from firing the
   burst's next pulse. *)
BurstGapPoll ==
  /\ SessionActive /\ auto.state = "BurstGap" /\ relay = "Idle"
  /\ \/ UpdateMayFail(auto) /\ EndSession(FALSE)
     \/ IntraPulse(Updated(auto))
  /\ Forget
  /\ UNCHANGED <<stroke, burst>>

WaitingGapPoll ==
  /\ SessionActive /\ auto.state = "WaitingGap" /\ relay = "Idle"
  /\ \/ EndSession(TRUE)                         \* stop requested, or end rule
     \/ /\ GoesOn(auto)
        /\ \/ auto.burstsOn /\ BeginBurstEvent(auto)      \* wall-clock deadline
           \/ UpdateMayFail(auto) /\ EndSession(FALSE)
           \/ LET a == Updated(auto) IN
              \/ a.burstsOn /\ BeginBurstEvent(a)         \* instead of the stroke
              \/ MainPulse(a)
  /\ Forget
  /\ UNCHANGED <<stroke, burst>>

-----------------------------------------------------------------------------
(* abort: the running mode releases the relay if it holds it, answers its own
   command and is forgotten; then the abort itself is answered. *)

(* Seeded faults: abort leaves the relay to its timer, or forgets the answer. *)
AbortRelayNever(inPulse) == UNCHANGED <<relay, callback>>
AbortBurstUnanswered(asked) ==
  /\ activeMode = "burst" /\ burst.active
  /\ relay' = "Idle" /\ callback' = "none"
  /\ burst' = NoBurst /\ log' = asked
  /\ UNCHANGED <<stroke, auto, notices>>

AbortRelay(inPulse) ==
  IF inPulse THEN Release ELSE UNCHANGED <<relay, callback>>

AbortStroke(asked) ==
  /\ activeMode = "single" /\ stroke.active
  /\ AbortRelay(TRUE)
  /\ stroke' = NoStroke
  /\ log' = Acked(asked, stroke.corr, FALSE)
  /\ UNCHANGED <<burst, auto, notices>>

AbortBurst(asked) ==
  /\ activeMode = "burst" /\ burst.active
  /\ AbortRelay(burst.state = "Pulse")
  /\ burst' = NoBurst
  /\ log' = Acked(asked, burst.corr, FALSE)
  /\ UNCHANGED <<stroke, auto, notices>>

AbortSession(asked) ==
  /\ SessionActive
  /\ AbortRelay(auto.state \in {"Pulse", "BurstPulse"})
  /\ FinishSession(FALSE, asked)
  /\ UNCHANGED <<stroke, burst>>

Abort(c) ==
  /\ Fresh(c)
  /\ \/ ~IsActive /\ Reject(c, "abort", TRUE, 0)
     \/ /\ LET asked == Acked(Asked(log, c, "abort", TRUE, 0), c, TRUE)
           IN AbortStroke(asked) \/ AbortBurst(asked) \/ AbortSession(asked)
        /\ activeMode' = "none"

-----------------------------------------------------------------------------
RelayPoll == StrokePulseDone \/ BurstPulseDone \/ MainPulseDone \/ IntraPulseDone
(* Seeded faults: the loop does not poll the burst, or the session's gap. *)
ExecPollNoBurst == StartDelayElapsed \/ BurstGapPoll \/ WaitingGapPoll
ExecPollNoGap == BurstGapElapsed \/ StartDelayElapsed \/ BurstGapPoll
ExecPoll == BurstGapElapsed \/ StartDelayElapsed \/ BurstGapPoll \/ WaitingGapPoll
Command(c) == \/ Stroke(c) \/ Burst(c) \/ Abort(c)
              \/ StartAutomatic(c) \/ StopAutomatic(c) \/ UpdateAutomatic(c)

Next == RelayPoll \/ ExecPoll \/ \E c \in Cmds : Command(c)

(* main.cpp's loop() calls relay.poll() and execution.poll() on every turn;
   nothing obliges an operator to send a command. *)
Fairness == WF_vars(RelayPoll) /\ WF_vars(ExecPoll)
Spec == Init /\ [][Next]_vars
FairSpec == Spec /\ Fairness

-----------------------------------------------------------------------------
BurstStates == {"Idle", "Pulse", "Gap"}
SessionStates == {"Idle", "StartDelay", "WaitingGap", "Pulse", "BurstPulse", "BurstGap"}

CmdOrNone == Cmds \cup {None}
StrokeType == [active : BOOLEAN, corr : CmdOrNone]
BurstType == [active : BOOLEAN, state : BurstStates, target : 0..MaxBurstStrokes,
              done : 0..MaxBurstStrokes, corr : CmdOrNone]
SessionType == [active : BOOLEAN, state : SessionStates, burstsOn : BOOLEAN,
                target : 0..MaxBurstStrokes, done : 0..MaxBurstStrokes,
                stop : CmdOrNone, pending : {"none", "bursts", "plain"}]
CmdType == [kind : Kinds, valid : BOOLEAN, want : 0..MaxBurstStrokes,
            fired : Nat, acks : Seq(BOOLEAN)]
LogType == [Cmds -> CmdType]

(* Every variable has its type (the members of RelayController, the modes and
   ExecutionContext). *)
TypeOK ==
  /\ relay \in {"Idle", "On"} /\ callback \in Callbacks /\ activeMode \in Modes
  /\ stroke \in StrokeType /\ burst \in BurstType /\ auto \in SessionType
  /\ notices \in [started : Nat, completed : Nat]
  /\ log \in LogType

(* Whose pulse is on, by the mode's own bookkeeping. *)
Owner == CASE stroke.active -> "stroke"
           [] burst.active /\ burst.state = "Pulse" -> "burst"
           [] auto.active /\ auto.state = "Pulse" -> "main"
           [] auto.active /\ auto.state = "BurstPulse" -> "intra"
           [] OTHER -> "none"

(* The relay is energised exactly while the one running mode is in a pulse,
   and then it is that mode's callback that will end it: no pulse is left on
   with nobody to account for it, and no mode waits for a pulse that is not
   there.  In particular the "relay busy" branches are never taken. *)
RelayOwned ==
  /\ (relay = "On") <=> (Owner # "none")
  /\ callback = Owner

(* At most one mode is in motion and it is the one ExecutionContext would
   abort: IsActive, which looks only at activeMode_, does not miss any. *)
OneMotion ==
  /\ stroke.active => activeMode = "single" /\ ~burst.active /\ ~auto.active
  /\ burst.active => activeMode = "burst" /\ ~stroke.active /\ ~auto.active
  /\ auto.active => activeMode = "automatic" /\ ~stroke.active /\ ~burst.active

(* A success acknowledgement tells the truth about the relay: as many pulses
   ran to their end as the command asked for, and a refused command fired
   none. *)
SuccessFiredAll == \A c \in Cmds :
  log[c].kind \in {"stroke", "burst"} =>
    /\ log[c].fired <= log[c].want
    /\ log[c].acks = <<TRUE>> => log[c].fired = log[c].want

(* Every session that was started announces its completion exactly once,
   whichever of stop, end rule, abort or failed update ended it. *)
OneNoticePerSession ==
  notices.started = notices.completed + (IF auto.active THEN 1 ELSE 0)

(* A motion command with a valid payload is refused only when a motion is
   running: finished, failed and aborted motions leave nothing behind that
   keeps the device busy. *)
Settled == ~stroke.active /\ ~burst.active /\ ~auto.active
IdleDeviceAccepts == [][\A c \in Cmds :
  (/\ Settled /\ log[c].kind = "none" /\ log'[c].valid
   /\ log'[c].kind \in {"stroke", "burst", "start"}) => log'[c].acks # <<FALSE>>]_vars

(* Once a stop is requested the session neither waits for a whole gap nor
   starts another main stroke, except out of the start delay. *)
StopStartsNoMain == [][
  auto.stop # None /\ auto.state \notin {"StartDelay", "Pulse"} => auto'.state # "Pulse"]_vars

(* Each accepted stroke and burst is eventually answered, and a requested stop
   eventually ends the session. *)
MotionAnswered == \A c \in Cmds : log[c].kind \in {"stroke", "burst"} ~> log[c].acks # <<>>
StopEndsSession == (auto.stop # None) ~> ~auto.active

-----------------------------------------------------------------------------
(* The device, seen by the sender of commands, is a MotionService. *)
Running == CASE stroke.active -> stroke.corr
             [] burst.active -> burst.corr
             [] auto.active -> "session"
             [] OTHER -> "idle"
Service == INSTANCE MotionService WITH
  Idle <- "idle", Session <- "session",
  running <- Running, stopper <- auto.stop,
  asked <- {c \in Cmds : log[c].kind # "none"},
  acks <- [c \in Cmds |-> log[c].acks]

(* The relay belongs to one mode in a pulse, and one mode at most is in motion
   (RelayController, ExecutionContext). *)
RelaySafe == RelayOwned /\ OneMotion

(* Answers and notices tell what happened: success is all pulses fired, and
   each session is announced once when it begins and once when it is over. *)
AnswersTrue == SuccessFiredAll /\ OneNoticePerSession

(* An idle device takes a valid motion, and a stop lets no further main stroke
   begin. *)
StartsAndStops == IdleDeviceAccepts /\ StopStartsNoMain

(* Refinement: every step of relay, modes and handler is a step the promise
   allows, or none that the sender can see, and with the loop's fairness the
   motions end and stops are honoured.  With it, a stroke or burst is answered
   once and only when it is over, and an accepted automatic-stop twice: when it
   is requested and when the session ends. *)
ImplementsFairService == Service!FairSpec

(* Documents/09-ESP32-Phase-10-Checklist.md P10-D3 says of a stop: finish the
   current stroke or complete the current burst, then end.  So with a stop
   requested and neither in progress, no pulse starts. *)
StopFinishesCurrentOnly == [][
  (auto.stop # None /\ auto.state \notin {"Pulse", "BurstPulse", "BurstGap"})
    => auto'.state \notin {"Pulse", "BurstPulse"}]_vars
=============================================================================
