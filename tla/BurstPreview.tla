---------------------------- MODULE BurstPreview ----------------------------
(***************************************************************************)
(* The burst schedule as the operator's page plans it (relayBurstPlan.ts   *)
(* and burstPlacement.ts): what the burst placement of the form means, the *)
(* plan drawn from it, when a burst is due and what a burst looks like.    *)
(* Pure operators; module PatternGraph draws the preview with them.        *)
(*                                                                         *)
(* The device plans its bursts itself, in another language (BurstPlan).    *)
(* PlansAgree says that both plan the same bursts for the same form.       *)
(***************************************************************************)
EXTENDS Integers, Sequences

CONSTANTS MaxBurstEvents,  \* MAX_BURST_EVENTS
          MinuteMs         \* milliseconds in a minute

ASSUME MaxBurstEventsAssumption == MaxBurstEvents \in Nat \ {0}
ASSUME MinuteMsAssumption == MinuteMs \in Nat \ {0}

AtLeast(a, b) == IF a > b THEN a ELSE b
AtMost(a, b) == IF a < b THEN a ELSE b

(* The placements in the form; stored settings may also hold the older names
   without a main timing, or a name that is not known. *)
InsteadOf == {"insteadOfSessionSpread", "insteadOfAfterMainStroke",
              "insteadOfChanceAfterMainStroke"}
MainPlus == {"mainPlusSessionSpread", "mainPlusAfterMainStroke",
             "mainPlusChanceAfterMainStroke"}
Bare == {"sessionSpread", "afterMainStroke", "chanceAfterMainStroke"}
DefaultBurstPlacement == "mainPlusSessionSpread"

ResolveBurstPlacement(placement) ==
  IF placement \in InsteadOf \cup MainPlus \cup Bare THEN placement
  ELSE DefaultBurstPlacement
BurstInsteadOfMain(placement) == placement \in InsteadOf
BurstBasis(placement) ==
  IF placement \in {"afterMainStroke", "mainPlusAfterMainStroke",
                    "insteadOfAfterMainStroke"} THEN "afterMain"
  ELSE IF placement \in {"chanceAfterMainStroke", "mainPlusChanceAfterMainStroke",
                         "insteadOfChanceAfterMainStroke"} THEN "chance"
  ELSE "spread"

PercentOfEnvelope(envelope, percent) ==
  IF envelope <= 0 \/ percent <= 0 THEN 0
  ELSE (envelope * percent + 50) \div 100

(* Seeded fault: half a stroke too many before the first burst. *)
BurstCadenceStrideUp(percent) == (200 + 2 * percent) \div (2 * percent)
(* (100 + percent / 2) / percent in floating point, rounded down. *)
BurstCadenceStride(percent) == (200 + percent) \div (2 * percent)

EmptyPlan == [kind |-> "none", instead |-> FALSE, at |-> <<>>, next |-> 0,
              stride |-> 0, trigger |-> 0]

SlotPlan(kind, at) == [EmptyPlan EXCEPT !.kind = kind, !.at = at]
StrokeMilestonePlan(strokes, percent) ==
  LET count == AtMost(MaxBurstEvents, PercentOfEnvelope(strokes, percent)) IN
  IF count <= 0 THEN EmptyPlan
  ELSE SlotPlan("milestones",
                [k \in 1..count |-> AtLeast(1, (k * strokes) \div count)])
WallClockPlan(minutes, percent) ==
  LET count == AtMost(MaxBurstEvents, PercentOfEnvelope(minutes, percent)) IN
  IF count <= 0 THEN EmptyPlan
  ELSE SlotPlan("deadlines",
                [k \in 1..count |-> (k * (minutes * MinuteMs)) \div count])
CadenceStridePlan(percent) ==
  LET stride == BurstCadenceStride(percent) IN
  IF percent <= 0 THEN EmptyPlan
  ELSE [EmptyPlan EXCEPT !.kind = "stride", !.stride = stride, !.trigger = stride]

(* buildRelayBurstPlan *)
BuildRelayBurstPlan(form) ==
  LET placement == ResolveBurstPlacement(form.burstPlacement)
      basis == BurstBasis(placement)
      ending == IF form.endSessionMode = "noAutoEnd" THEN "noAutoEnd"
                ELSE IF form.endSessionValue > 0 THEN form.endSessionMode
                ELSE "none"
      plan ==
        IF basis = "chance" THEN [EmptyPlan EXCEPT !.kind = "chance"]
        ELSE IF ending = "strokes"
        THEN StrokeMilestonePlan(form.endSessionValue, form.burstPercent)
        ELSE IF ending = "noAutoEnd" \/ (ending = "minutes" /\ basis = "afterMain")
        THEN CadenceStridePlan(form.burstPercent)
        ELSE IF ending = "minutes"
        THEN WallClockPlan(form.endSessionValue, form.burstPercent)
        ELSE EmptyPlan
  IN IF ~form.burstsOn \/ form.burstPercent <= 0 THEN EmptyPlan
     ELSE [plan EXCEPT !.instead = BurstInsteadOfMain(placement)]

Active(plan) == plan.kind # "none"
SlotOpen(plan) == plan.next < Len(plan.at)
NextSlot(plan) == plan.at[plan.next + 1]

(* Is a burst due at main stroke n?  "hit" is the chance drawn for stroke n. *)
BurstDue(plan, n, hit) ==
  \/ plan.kind = "milestones" /\ SlotOpen(plan) /\ n >= NextSlot(plan)
  \/ plan.kind = "stride" /\ n >= plan.trigger
  \/ plan.kind = "chance" /\ hit

(* shouldPreviewBurstAfterMainStroke, ...BeforeMainStroke: a chance burst is
   looked for after the stroke whatever the placement. *)
PreviewBurstAfter(plan, mains, hit) ==
  (~plan.instead \/ plan.kind = "chance") /\ BurstDue(plan, mains, hit)
PreviewBurstBefore(plan, mains, hit) ==
  plan.instead /\ BurstDue(plan, mains + 1, hit)

TriggerInWaitingGap(plan, elapsedMs) ==
  plan.kind = "deadlines" /\ SlotOpen(plan) /\ elapsedMs >= NextSlot(plan)

AdvanceBurstPlan(plan) ==
  IF SlotOpen(plan) THEN [plan EXCEPT !.next = @ + 1]
  ELSE [plan EXCEPT !.trigger = @ + plan.stride]

(* Burst power is relative to the band of the main power. *)
ResolveBurstEffectivePower(relative, form) ==
  LET low == AtMost(form.minimumPower, form.maximumPower)
      high == AtLeast(form.minimumPower, form.maximumPower)
  IN low + ((high - low) * AtMost(100, AtLeast(0, relative))) \div 100

(* The burst settings of a form as the device reads them. *)
DevicePlan == INSTANCE BurstPlan WITH MinuteTicks <- MinuteMs
DeviceConfig(form) ==
  LET placement == ResolveBurstPlacement(form.burstPlacement)
  IN [rule |-> form.endSessionMode, end |-> form.endSessionValue,
      program |-> "steady", burstsOn |-> form.burstsOn,
      percent |-> form.burstPercent, basis |-> BurstBasis(placement),
      instead |-> BurstInsteadOfMain(placement)]

(* The page and the device plan the same bursts for a form: at the same
   strokes or times, the same number of them (relayBurstPlan.ts against
   automatic_burst_runtime.cpp). *)
PlanAgrees(form) ==
  LET page == BuildRelayBurstPlan(form)
      device == DevicePlan!BuildPlan(DeviceConfig(form))
  IN /\ page.kind = device.kind
     /\ Active(page) => page = device
=============================================================================
