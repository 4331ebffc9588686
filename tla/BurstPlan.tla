------------------------------ MODULE BurstPlan ------------------------------
(***************************************************************************)
(* The burst schedule of an automatic session (automatic_burst_runtime.cpp *)
(* and the burst fields of AutomaticConfig): how many burst events a       *)
(* session gets, at which main strokes or at what time they are due, and   *)
(* how the schedule is rebuilt when the session is updated.  Pure          *)
(* operators; module AutomaticSession runs them.                           *)
(*                                                                         *)
(* Time is counted in ticks, MinuteTicks of them to a minute.  Random      *)
(* draws are parameters.  Deadlines beyond 2^31 ms are left out: a session *)
(* ends after 24 hours.                                                    *)
(***************************************************************************)
EXTENDS Integers, Sequences, FiniteSets

CONSTANTS MaxBurstEvents,  \* AutomaticBurstPlan::kMaxBurstEvents
          MinuteTicks      \* ticks in a minute

ASSUME MaxBurstEventsAssumption == MaxBurstEvents \in Nat \ {0}
ASSUME MinuteTicksAssumption == MinuteTicks \in Nat \ {0}

Rules == {"strokes", "minutes", "noAutoEnd"}
Bases == {"spread", "afterMain", "chance"}
PlanKinds == {"none", "milestones", "deadlines", "stride", "chance"}

(* A configuration that parseAutomaticConfig accepts, as far as the schedule
   tells them apart.  Its program computes each stroke, reads it from a table
   (wave, build-up), or is a table that cannot be built because it has no gap. *)
Programs == {"steady", "table", "gapless"}
ConfigType == [rule : Rules, end : Nat, program : Programs, burstsOn : BOOLEAN,
               percent : 0..100, basis : Bases, instead : BOOLEAN]

Larger(a, b) == IF a > b THEN a ELSE b
Smaller(a, b) == IF a < b THEN a ELSE b

RoundedShare(envelope, percent) == (envelope * percent + 50) \div 100
BurstCount(envelope, percent) ==
  Smaller(RoundedShare(envelope, percent), MaxBurstEvents)

Milestones(strokes, count) ==
  [k \in 1..count |-> Larger(1, (k * strokes) \div count)]
Deadlines(minutes, count) ==
  [k \in 1..count |-> (k * minutes * MinuteTicks) \div count]
Stride(percent) == (100 + percent \div 2) \div percent

(* Stroke-linked bases use milestones when the number of strokes is known and
   a stride when it is not; only the spread basis uses the clock. *)
PlanKind(c) ==
  IF ~c.burstsOn \/ c.percent = 0 THEN "none"
  ELSE IF c.basis = "chance" THEN "chance"
  ELSE IF c.rule = "noAutoEnd" THEN "stride"
  ELSE IF c.end = 0 THEN "none"
  ELSE IF c.rule = "minutes" /\ c.basis = "afterMain" THEN "stride"
  ELSE IF BurstCount(c.end, c.percent) = 0 THEN "none"
  ELSE IF c.rule = "strokes" THEN "milestones" ELSE "deadlines"

NoPlan == [kind |-> "none", instead |-> FALSE, at |-> <<>>, next |-> 0,
           stride |-> 0, trigger |-> 0]

(* buildAutomaticBurstPlan; "at" holds milestones, or deadlines in ticks. *)
BuildPlan(c) ==
  LET kind == PlanKind(c)
      count == BurstCount(c.end, c.percent)
      stride == IF kind = "stride" THEN Stride(c.percent) ELSE 0
  IN [kind |-> kind, instead |-> c.instead, next |-> 0,
      at |-> IF kind = "milestones" THEN Milestones(c.end, count)
             ELSE IF kind = "deadlines" THEN Deadlines(c.end, count) ELSE <<>>,
      stride |-> stride, trigger |-> stride]

(* Seeded fault: an update plans for the whole session again. *)
RemainingWhole(c, strokes, elapsed) == c.end
(* scheduleConfigForReplan: what is left of the session, in whole minutes. *)
Remaining(c, strokes, elapsed) ==
  IF c.rule = "strokes" THEN Larger(0, c.end - strokes)
  ELSE IF c.rule = "minutes" THEN Larger(0, c.end - elapsed \div MinuteTicks)
  ELSE c.end

(* buildAutomaticBurstPlanForReplan: the slots of the remaining envelope are
   moved behind what is done, and any that is already past is skipped. *)
Shift(plan, by) ==
  LET at == [k \in DOMAIN plan.at |-> plan.at[k] + by]
      past == {k \in DOMAIN at : at[k] <= by}
  IN [plan EXCEPT !.at = at, !.next = Cardinality(past)]
Replan(c, strokes, elapsed) ==
  LET p == BuildPlan([c EXCEPT !.end = Remaining(c, strokes, elapsed)]) IN
  IF p.kind = "milestones" THEN Shift(p, strokes)
  ELSE IF p.kind = "deadlines" THEN Shift(p, elapsed)
  ELSE IF p.kind = "stride"
       THEN [p EXCEPT !.trigger = @ * (strokes \div p.stride + 1)]
  ELSE p

(* Is a burst due at main stroke n?  For the chance basis "roll" is whether
   esp_random() % 100 fell below the percentage. *)
Slotted(plan) == plan.kind \in {"milestones", "deadlines"}
HasSlot(plan) == plan.next < Len(plan.at)
Slot(plan) == plan.at[plan.next + 1]
DueAt(plan, c, n, roll) ==
  \/ plan.kind = "milestones" /\ HasSlot(plan) /\ n >= Slot(plan)
  \/ plan.kind = "stride" /\ n >= plan.trigger
  \/ plan.kind = "chance" /\ (c.percent = 100 \/ roll)

DueAfterMain(plan, c, strokes, roll) ==
  ~plan.instead /\ DueAt(plan, c, strokes, roll)
DueBeforeMain(plan, c, strokes, roll) ==
  plan.instead /\ DueAt(plan, c, strokes + 1, roll)

DueInGap(plan, elapsed) ==
  plan.kind = "deadlines" /\ HasSlot(plan) /\ elapsed >= Slot(plan)

(* Seeded fault: the slot of a burst that was run stays open. *)
AdvanceStuck(plan) == plan
Advance(plan) ==
  IF Slotted(plan) /\ HasSlot(plan)
  THEN [plan EXCEPT !.next = @ + 1]
  ELSE IF plan.kind = "stride" THEN [plan EXCEPT !.trigger = @ + plan.stride]
  ELSE plan
=============================================================================
