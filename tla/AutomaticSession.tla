-------------------------- MODULE AutomaticSession ---------------------------
(***************************************************************************)
(* One automatic session of the device's relay, with the burst schedule    *)
(* RelayExecution leaves open: main strokes, burst events, the start       *)
(* delay, gaps, updates, the end rules, stop and abort                     *)
(* (automatic_session_mode.cpp over BurstPlan).                            *)
(*                                                                         *)
(* A gap or a pulse may be found over by any later poll; only the time     *)
(* since the session's start is counted, because the end rule and the      *)
(* spread basis read it.  Stroke power, lengths and pauses are left out.   *)
(***************************************************************************)
EXTENDS BurstPlan

CONSTANTS StartConfigs,    \* the configurations an operator starts with
          UpdateConfigs,   \* the configurations an operator updates to
          NoConfig,        \* no update is queued
          Updates,         \* correlation ids of automatic-update commands
          MaxBurstStrokes, \* kMaxBurstStrokes
          MaxSession,      \* kMaxAutomaticSessionMs, in ticks
          MaxMains,        \* bound: main strokes that no rule counts
          MaxBursts        \* bound: burst events that have no slot

ASSUME ConfigsAssumption == StartConfigs \cup UpdateConfigs \subseteq ConfigType
ASSUME NoConfigAssumption == NoConfig \notin ConfigType
ASSUME UpdatesAssumption ==  \* other commands, and labels of RelayExecution
  Updates \cap {"start", "stop", "abort", "nobody", "idle", "session"} = {}
ASSUME BoundsAssumption ==
  /\ MaxBurstStrokes \in Nat \ {0} /\ MaxSession \in Nat
  /\ MaxMains \in Nat /\ MaxBursts \in Nat

VARIABLES session,  \* AutomaticSessionMode
          elapsed,  \* millis() - sessionStartMs_, in ticks
          result,   \* resultJson_ of the session that has ended
          asked     \* history: the commands accepted so far

vars == <<session, elapsed, result, asked>>

(* History fields of the session: "since" is what was done when the present
   plan was made, "midBurst" whether a burst event was running then. *)
Fresh == [strokes |-> 0, bursts |-> 0, updated |-> FALSE, midBurst |-> FALSE]

NoSession == [state |-> "Idle", config |-> NoConfig, pending |-> NoConfig,
              plan |-> NoPlan, strokes |-> 0, bursts |-> 0, target |-> 0,
              done |-> 0, stop |-> FALSE, since |-> Fresh]
NoResult == [reason |-> "none", byPoll |-> FALSE, last |-> NoSession]

Active == session.state # "Idle"

Init == session = NoSession /\ elapsed = 0 /\ result = NoResult /\ asked = {}

-----------------------------------------------------------------------------
(* Steps of a session s; "poll" tells where it ends, for the history. *)

Continue(s) == session' = s /\ UNCHANGED result
Finish(s, reason, poll) ==
  /\ session' = NoSession
  /\ result' = [reason |-> reason, byPoll |-> poll, last |-> s]

(* Seeded fault: the end rule is looked at a stroke too late. *)
ShouldEndLate(s) ==
  /\ s.config.end > 0
  /\ \/ s.config.rule = "strokes" /\ s.strokes > s.config.end
     \/ s.config.rule = "minutes" /\ elapsed >= s.config.end * MinuteTicks
(* Seeded fault: the session's time is never compared. *)
ShouldEndOnStrokes(s) ==
  s.config.end > 0 /\ s.config.rule = "strokes" /\ s.strokes >= s.config.end
ShouldEnd(s) ==
  /\ s.config.end > 0
  /\ \/ s.config.rule = "strokes" /\ s.strokes >= s.config.end
     \/ /\ s.config.rule = "minutes"
        /\ elapsed >= Smaller(s.config.end * MinuteTicks, MaxSession)

StopEndOrWait(s, poll) ==
  \/ s.stop /\ Finish(s, "manualStop", poll)
  \/ ~s.stop /\ ShouldEnd(s) /\ Finish(s, "endSession", poll)
  \/ ~s.stop /\ ~ShouldEnd(s) /\ Continue([s EXCEPT !.state = "WaitingGap"])

(* The bounds: a session that counts strokes needs none, nor does a plan that
   has a slot for every event. *)
MainsInBound(s) == s.config.rule = "strokes" \/ s.strokes < MaxMains
BurstsInBound(s) == Slotted(s.plan) \/ s.bursts < MaxBursts

MainPulse(s) == MainsInBound(s) /\ Continue([s EXCEPT !.state = "Pulse"])
IntraPulse(s) == Continue([s EXCEPT !.state = "BurstPulse"])
(* Seeded fault: a burst event starts with the count of the one before. *)
BeginBurstEventKeepsCount(s) == BurstsInBound(s) /\ \E n \in 1..MaxBurstStrokes :
  IntraPulse([s EXCEPT !.target = n])
BeginBurstEvent(s) == BurstsInBound(s) /\ \E n \in 1..MaxBurstStrokes :
  IntraPulse([s EXCEPT !.target = n, !.done = 0])

(* Seeded fault: a stop requested during a burst event is passed over. *)
FinishBurstEventGoesOn(s) ==
  Continue([s EXCEPT !.bursts = @ + 1, !.plan = Advance(@), !.state = "WaitingGap"])
FinishBurstEvent(s) == \E t \in {[s EXCEPT !.bursts = @ + 1, !.plan = Advance(@)]} :
  StopEndOrWait(t, FALSE)

-----------------------------------------------------------------------------
(* automatic-update: applyPendingUpdate *)

(* A table cannot be built without a gap, nor for what is left of the session
   when nothing is left; the session ends with an error. *)
UpdateFails(s) ==
  /\ s.pending # NoConfig
  /\ \/ s.pending.program = "gapless"
     \/ /\ s.pending.program = "table"
        /\ Remaining(s.pending, s.strokes, elapsed) = 0

InBurst(s) == s.state \in {"BurstPulse", "BurstGap"}

(* Seeded fault: bursts that are switched off run to their end. *)
UpdatedKeepsBurst(s) ==
  IF s.pending = NoConfig THEN s
  ELSE [s EXCEPT !.config = s.pending, !.pending = NoConfig,
         !.plan = Replan(s.pending, s.strokes, elapsed),
         !.since = [strokes |-> s.strokes, bursts |-> s.bursts,
                    updated |-> TRUE, midBurst |-> InBurst(s)]]
Updated(s) ==
  IF s.pending = NoConfig THEN s
  ELSE LET u == [s EXCEPT !.config = s.pending, !.pending = NoConfig,
                  !.plan = Replan(s.pending, s.strokes, elapsed),
                  !.since = [strokes |-> s.strokes, bursts |-> s.bursts,
                             updated |-> TRUE, midBurst |-> InBurst(s)]]
       IN IF InBurst(s) /\ ~u.config.burstsOn
          THEN [u EXCEPT !.state = "WaitingGap", !.target = 0, !.done = 0]
          ELSE u

-----------------------------------------------------------------------------
(* Commands.  One session is started; refused commands change nothing. *)

Ask(c) == c \notin asked /\ asked' = asked \cup {c}

Start == \E c \in StartConfigs, delayed \in BOOLEAN :
  /\ c.program # "gapless" /\ Ask("start")
  /\ Continue([NoSession EXCEPT !.config = c, !.plan = BuildPlan(c),
                 !.state = IF delayed THEN "StartDelay" ELSE "Pulse"])
  /\ UNCHANGED elapsed

RequestStop ==
  /\ Active /\ ~session.stop /\ Ask("stop")
  /\ Continue([session EXCEPT !.stop = TRUE])
  /\ UNCHANGED elapsed

(* A later update replaces one that is still queued. *)
QueueUpdate == \E u \in Updates, c \in UpdateConfigs :
  /\ Active /\ Ask(u)
  /\ Continue([session EXCEPT !.pending = c])
  /\ UNCHANGED elapsed

Abort ==
  /\ Active /\ Ask("abort")
  /\ Finish(session, "abort", TRUE)
  /\ UNCHANGED elapsed

-----------------------------------------------------------------------------
(* The relay's callbacks *)

(* Seeded fault: the end rule is applied before the burst that is due. *)
BurstAfterMainEndsFirst(s) == \E roll \in BOOLEAN :
  IF s.config.burstsOn /\ ~ShouldEnd(s) /\ DueAfterMain(s.plan, s.config, s.strokes, roll)
  THEN BeginBurstEvent(s) ELSE StopEndOrWait(s, FALSE)
BurstAfterMain(s) == \E roll \in BOOLEAN :
  IF s.config.burstsOn /\ DueAfterMain(s.plan, s.config, s.strokes, roll)
  THEN BeginBurstEvent(s) ELSE StopEndOrWait(s, FALSE)

MainPulseDone ==
  /\ session.state = "Pulse"
  /\ LET s == [session EXCEPT !.strokes = @ + 1] IN
     \/ UpdateFails(s) /\ Finish(s, "error", FALSE)
     \/ ~UpdateFails(s) /\ \E u \in {Updated(s)} : BurstAfterMain(u)
  /\ UNCHANGED <<elapsed, asked>>

(* An update that switches bursts off ends the event here; otherwise the event
   goes on, with the next pulse at once when the drawn delay is zero. *)
IntraPulseDone ==
  /\ session.state = "BurstPulse"
  /\ LET s == [session EXCEPT !.done = @ + 1] IN
     \/ UpdateFails(s) /\ Finish(s, "error", FALSE)
     \/ ~UpdateFails(s) /\ \E u \in {Updated(s)} :
        \/ u.state = "WaitingGap" /\ StopEndOrWait(u, FALSE)
        \/ u.state # "WaitingGap" /\ u.done >= u.target /\ FinishBurstEvent(u)
        \/ u.state # "WaitingGap" /\ u.done < u.target
           /\ (IntraPulse(u) \/ Continue([u EXCEPT !.state = "BurstGap"]))
  /\ UNCHANGED <<elapsed, asked>>

RelayPoll == MainPulseDone \/ IntraPulseDone

-----------------------------------------------------------------------------
(* AutomaticSessionMode::poll *)

StartDelayElapsed ==
  /\ session.state = "StartDelay"
  /\ \/ UpdateFails(session) /\ Finish(session, "error", TRUE)
     \/ ~UpdateFails(session) /\ \E s \in {Updated(session)} : MainPulse(s)
  /\ UNCHANGED <<elapsed, asked>>

(* The next pulse fires even when the update has just cancelled the burst. *)
BurstGapPoll ==
  /\ session.state = "BurstGap"
  /\ \/ UpdateFails(session) /\ Finish(session, "error", TRUE)
     \/ ~UpdateFails(session) /\ \E s \in {Updated(session)} : IntraPulse(s)
  /\ UNCHANGED <<elapsed, asked>>

(* Seeded fault: an update waits for the stroke that has not begun. *)
GapOverOldConfig ==
  \E roll \in BOOLEAN :
     IF session.config.burstsOn
        /\ DueBeforeMain(session.plan, session.config, session.strokes, roll)
     THEN BeginBurstEvent(session) ELSE MainPulse(session)
(* When the gap is over: a queued update, then a burst in place of the stroke
   if one is due, else the stroke. *)
GapOver ==
  \/ UpdateFails(session) /\ Finish(session, "error", TRUE)
  \/ ~UpdateFails(session) /\ \E s \in {Updated(session)}, roll \in BOOLEAN :
     IF s.config.burstsOn /\ DueBeforeMain(s.plan, s.config, s.strokes, roll)
     THEN BeginBurstEvent(s) ELSE MainPulse(s)

(* Seeded fault: the end rule comes before the deadline. *)
WaitingGapEndsFirst(s) ==
  \/ s.stop /\ Finish(s, "manualStop", TRUE)
  \/ ~s.stop /\ ShouldEnd(s) /\ Finish(s, "endSession", TRUE)
  \/ ~s.stop /\ ~ShouldEnd(s)
     /\ IF s.config.burstsOn /\ DueInGap(s.plan, elapsed)
        THEN BeginBurstEvent(s) ELSE GapOver
(* In this order: a stop, a burst deadline, the end rule, the gap's end. *)
WaitingGap(s) ==
  \/ s.stop /\ Finish(s, "manualStop", TRUE)
  \/ ~s.stop
     /\ IF s.config.burstsOn /\ DueInGap(s.plan, elapsed) THEN BeginBurstEvent(s)
        ELSE IF ShouldEnd(s) THEN Finish(s, "endSession", TRUE)
        ELSE GapOver

WaitingGapPoll ==
  /\ session.state = "WaitingGap"
  /\ WaitingGap(session)
  /\ UNCHANGED <<elapsed, asked>>

ExecPoll == StartDelayElapsed \/ BurstGapPoll \/ WaitingGapPoll

Tick ==
  /\ Active /\ session.state # "StartDelay" /\ elapsed < MaxSession
  /\ elapsed' = elapsed + 1
  /\ UNCHANGED <<session, result, asked>>

Next == \/ Start \/ RequestStop \/ QueueUpdate \/ Abort
        \/ RelayPoll \/ ExecPoll \/ Tick

(* The loop polls the relay and the session on every turn, and time goes on. *)
Fairness == WF_vars(RelayPoll) /\ WF_vars(ExecPoll) /\ WF_vars(Tick)
Spec == Init /\ [][Next]_vars
FairSpec == Spec /\ Fairness

-----------------------------------------------------------------------------
States == {"Idle", "StartDelay", "WaitingGap", "Pulse", "BurstPulse", "BurstGap"}
Reasons == {"none", "manualStop", "endSession", "abort", "error"}
PlanType == [kind : PlanKinds, instead : BOOLEAN, at : Seq(Nat), next : Nat,
             stride : Nat, trigger : Nat]
SessionType ==
  [state : States, config : ConfigType \cup {NoConfig},
   pending : ConfigType \cup {NoConfig}, plan : PlanType,
   strokes : Nat, bursts : Nat, target : 0..MaxBurstStrokes,
   done : 0..MaxBurstStrokes, stop : BOOLEAN,
   since : [strokes : Nat, bursts : Nat, updated : BOOLEAN, midBurst : BOOLEAN]]

(* Every variable has its type (the members of AutomaticSessionMode). *)
TypeOK ==
  /\ session \in SessionType /\ elapsed \in 0..MaxSession
  /\ result \in [reason : Reasons, byPoll : BOOLEAN, last : SessionType]
  /\ asked \subseteq {"start", "stop", "abort"} \cup Updates

(* Every burst event uses up one slot of the plan in force, also one that was
   running when the plan was made: a plan of n slots gives at most n events,
   however often callbacks, deadlines and updates interleave. *)
SlotPerBurst == Active /\ Slotted(session.plan) =>
  /\ session.plan.next = session.bursts - session.since.bursts
  /\ session.plan.next <= Len(session.plan.at)

(* n events spread over the strokes of an envelope: how many are due once m of
   them are done.  (The code computes the stroke of each event instead.) *)
DueBy(m, n, envelope) == Smaller(n, ((m + 1) * n - 1) \div envelope)

(* Documents/09-ESP32-Phase-10-Checklist.md P10-D21 and P11-D6: the events come
   evenly, after every envelope/n strokes, over the strokes that were left when
   the plan was made.  While a stroke runs or a gap is waited out, neither too
   few nor too many have run: no backlog, no burst ahead of its milestone.  In
   place of a stroke they come one stroke earlier, but for the session's first
   stroke, which is started without looking at the plan. *)
EvenlySpread ==
  LET p == session.plan
      ran == session.bursts - session.since.bursts
      due(m) == DueBy(m - session.since.strokes, Len(p.at),
                      session.config.end - session.since.strokes)
  IN p.kind = "milestones" /\ ~session.since.midBurst =>
     /\ ~p.instead /\ session.state \in {"WaitingGap", "Pulse"}
          => ran = due(session.strokes)
     /\ p.instead /\ session.state = "Pulse" /\ session.strokes > 0
          => ran = due(session.strokes + 1)

(* A session that ends after so many strokes does not run more of them than it
   was told, whatever bursts it runs and however often it is updated.  The one
   exception: an update that is applied when a gap is over is followed by a
   stroke without another look at the end rule. *)
MainsWithinEnd ==
  LET within(s) == s.config # NoConfig /\ s.config.rule = "strokes" /\ s.config.end > 0
        => s.strokes <= Larger(s.config.end, s.since.strokes + 1)
  IN within(session) /\ within(result.last)

(* BP-D3 and P10-D23: a session that its end rule ended has run every event it
   planned.  With a stroke rule that includes the event at the last stroke
   (in place of strokes only if there is a second one); with a time rule the one
   at the very end, unless a stroke or burst carries the session past it or it
   is told to go on for longer than any session may. *)
PlannedBurstsRun ==
  LET s == result.last IN
  result.reason = "endSession" /\ ~s.since.updated =>
    /\ s.plan.kind = "milestones" /\ (s.plan.instead => s.config.end > 1)
         => s.bursts = BurstCount(s.config.end, s.config.percent)
    /\ s.plan.kind = "deadlines" /\ result.byPoll
       /\ s.config.end * MinuteTicks <= MaxSession
         => s.bursts = BurstCount(s.config.end, s.config.percent)

(* A session uses its plan up slot by slot, and its strokes stay within its
   end rule. *)
PlanKept == SlotPerBurst /\ MainsWithinEnd
(* Bursts come evenly over the session, and all that were planned. *)
BurstsSpread == EvenlySpread /\ PlannedBurstsRun

(* Once an update has switched bursts off, no burst event begins; of the one
   that is running, at most the pulse that has started comes to its end. *)
BurstsOffIsFinal == [][
  Active /\ session' # NoSession /\ ~session.config.burstsOn /\ ~session'.config.burstsOn
    => /\ session'.state = "BurstPulse" => session.state = "BurstPulse" /\ session'.done = session.done
       /\ session'.state # "BurstGap"]_vars

(* P11-D1: an accepted update is in force before the next main stroke. *)
StrokesUseLatestConfig == [][
  session'.state = "Pulse" /\ session.state \notin {"Idle", "Pulse"}
    => /\ session'.pending = NoConfig
       /\ session.pending # NoConfig => session'.config = session.pending]_vars

(* What an update promises, for bursts and for strokes. *)
UpdatesHold == BurstsOffIsFinal /\ StrokesUseLatestConfig

(* A session with an end rule comes to its end by itself.  Not so one that
   counts strokes and puts bursts in their place by chance: nothing bounds the
   number of bursts between two strokes. *)
WillEnd == /\ Active /\ session.config.rule # "noAutoEnd" /\ session.config.end > 0
           /\ ~ /\ session.config.rule = "strokes" /\ session.config.burstsOn
                /\ session.config.basis = "chance" /\ session.config.instead
SessionEnds == WillEnd ~> ~WillEnd

-----------------------------------------------------------------------------
(* The relay, modes and handler of RelayExecution, with this session's commands
   and no other mode in use. *)
Commands == {"start", "stop", "abort"} \cup Updates
KindOf(c) == IF c \in Updates THEN "update" ELSE c
Answers(c) ==
  IF c = "stop" /\ ~Active
  THEN Append(<<TRUE>>, result.reason # "abort" /\ result.reason # "error")
  ELSE <<TRUE>>
Entry(c) == IF c \notin asked
            THEN [kind |-> "none", valid |-> FALSE, want |-> 0, fired |-> 0, acks |-> <<>>]
            ELSE [kind |-> KindOf(c), valid |-> TRUE, want |-> 0, fired |-> 0,
                  acks |-> Answers(c)]
HasBursts(c) == c # NoConfig /\ c.burstsOn

RelayOf(s) == IF s.state \in {"Pulse", "BurstPulse"} THEN "On" ELSE "Idle"
CallbackOf(s) == CASE s.state = "Pulse" -> "main"
                   [] s.state = "BurstPulse" -> "intra" [] OTHER -> "none"
AutoOf(s) ==
  [active |-> s.state # "Idle", state |-> s.state, burstsOn |-> HasBursts(s.config),
   target |-> s.target, done |-> s.done,
   stop |-> IF s.stop THEN "stop" ELSE "nobody",
   pending |-> IF s.pending = NoConfig THEN "none"
               ELSE IF s.pending.burstsOn THEN "bursts" ELSE "plain"]
ModeInUse == IF "start" \notin asked \/ (~Active /\ result.byPoll)
             THEN "none" ELSE "automatic"
Notices == [started |-> IF "start" \in asked THEN 1 ELSE 0,
            completed |-> IF "start" \in asked /\ ~Active THEN 1 ELSE 0]
Log == [c \in Commands |-> Entry(c)]

Coarse == INSTANCE RelayExecution WITH
  Cmds <- Commands, None <- "nobody",
  relay <- RelayOf(session), callback <- CallbackOf(session), activeMode <- ModeInUse,
  stroke <- [active |-> FALSE, corr |-> "nobody"],
  burst <- [active |-> FALSE, state |-> "Idle", target |-> 0, done |-> 0,
            corr |-> "nobody"],
  auto <- AutoOf(session), notices <- Notices, log <- Log

(* Refinement: with the schedule computed instead of chosen, every step of the
   session is one RelayExecution allows. *)
ImplementsRelay == Coarse!Spec
=============================================================================
