---------------------------- MODULE PatternGraph ----------------------------
(***************************************************************************)
(* The pattern graph of a device on the operator's page: the form of the   *)
(* automatic program with its edits, the preview drawn from it before a    *)
(* start (relayPowerSchedule.ts, motorSpeedSchedule.ts), and the recording *)
(* of what the device reports during a run (the segment stores, the hub    *)
(* listener and the graph panels).                                         *)
(*                                                                         *)
(* A preview is drawn beat by beat.  A point is <<milliseconds, level>>.   *)
(* The random draws come from a hash of the form, one per kind of draw and *)
(* index: here from the bits of a seed, and a draw is the low or the high  *)
(* end of its range.  Segments are reported over a link that may lose one. *)
(***************************************************************************)
EXTENDS ProgramForm, SequencesExt

CONSTANTS FirstForms,    \* forms stored on the server
          Edits,         \* what the operator may enter: key -> values
          StrokeMs,      \* [low, high]: the shortest and the longest stroke
          Duty,          \* [low, high]: the motor's duty band
          RampMs, MicroHoldMs, WaveSteps,
          PreviewSec,    \* the preview of a session without an end
          MaxSegments,   \* MAX_SEGMENTS of a motor preview
          SeedBits,      \* bound: bits of a seed
          MaxRuns, MaxReports, MaxLost, \* bounds: runs, segments of a run, losses
          RunForms,      \* bound: the stored forms a run starts with
          RunEdits       \* bound: the fields edited once there was a run

ASSUME FormsAssumption ==
  /\ \A stored \in FirstForms : Storable(stored)
  /\ \A key \in DOMAIN Edits : \A value \in Edits[key] : Enterable(key, value)
ASSUME TimesAssumption ==
  /\ StrokeMs \in [low : Int, high : Int] /\ Duty \in [low : Int, high : Int]
  /\ RampMs \in Nat /\ MicroHoldMs \in Nat
  /\ WaveSteps \in Nat \ {0} /\ PreviewSec \in Nat \ {0}

VARIABLES form, seed,
          drawing,   \* the preview that is being drawn
          recording, \* the segment store and the fingerprint: [print, segments]
          device,    \* [run, on, reported]
          wire,      \* segments on their way to this page
          missed     \* history: segments lost, and whether a run's first was

vars == <<form, seed, drawing, recording, device, wire, missed>>

Drawn(low, high, n) == IF seed[n % SeedBits] THEN high ELSE low
ChanceOf(n) ==
  form.burstPercent >= 100 \/ (form.burstPercent > 0 /\ seed[n % SeedBits])

Rounded(a, b) == (2 * a + b) \div (2 * b)
Low == AtMost(form.minimumPower, form.maximumPower)
High == AtLeast(form.minimumPower, form.maximumPower)
PulseMs(power) ==
  StrokeMs.low + Rounded((StrokeMs.high - StrokeMs.low) * power, 100)

(* automaticHorizonSec of either schedule, in milliseconds. *)
Horizon ==
  IF form.endSessionMode = "minutes"
  THEN AtLeast(1000, form.endSessionValue * MinuteMs)
  ELSE IF form.endSessionMode = "strokes"
  THEN AtLeast(30000, form.endSessionValue *
         ((form.minimumGap + form.maximumGap) * 500 + PulseMs(form.maximumPower)))
  ELSE PreviewSec * 1000

Timed == form.endSessionMode = "minutes" /\ form.endSessionValue > 0

-----------------------------------------------------------------------------
(* The main strokes of a relay's program: [power, gap] of stroke i. *)

(* Fractions n/d.  The seed shifts the phase of a table by a third. *)
Shift == IF seed[0] THEN 1 ELSE 0
Lerp(from, to, n, d) == from + Rounded((to - from) * AtMost(n, d), d)
Triangle(n, d) ==
  LET m == n % d IN IF 2 * m < d THEN 2 * m ELSE 2 * d - 2 * m

(* estimateStrokeCount, its nominal gap in half seconds. *)
TableStrokes(halves) ==
  IF form.endSessionMode = "strokes" /\ form.endSessionValue > 0
  THEN form.endSessionValue
  ELSE IF Timed THEN (form.endSessionValue * 120) \div halves + 1
  ELSE (2 * PreviewSec) \div AtLeast(2, halves)
Table == form.automaticMode \in {"powerWave", "powerAndTimingWave", "buildUp"}
TableCount ==
  TableStrokes(IF form.automaticMode = "powerWave" THEN 2 * form.maximumGap
               ELSE form.minimumGap + form.maximumGap)

WaveSec == IF Timed THEN form.endSessionValue * 120
           ELSE AtLeast(2, TableCount * form.maximumGap)
WavePhase(elapsed) == 3 * elapsed + Shift * WaveSec  \* over 3 * WaveSec
WaveGap(elapsed) ==
  LET d == 3 * WaveSec IN
  Lerp(form.minimumGap, form.maximumGap, d - Triangle(WavePhase(elapsed), d), d)
WaveElapsed ==
  LET at[i \in 0..TableCount] ==
        IF i = 0 THEN 0 ELSE at[i - 1] + WaveGap(at[i - 1])
  IN at
WavePower(elapsed) ==
  Lerp(form.minimumPower, form.maximumPower,
       Triangle(WavePhase(elapsed), 3 * WaveSec), 3 * WaveSec)

TableRow(i) ==
  IF form.automaticMode = "buildUp"
  THEN LET last == TableCount - 1
           n == IF last > 0 THEN 3 * i + Shift * last ELSE Shift
           d == IF last > 0 THEN 3 * last ELSE 3
       IN [power |-> Lerp(form.minimumPower, form.maximumPower, n, d),
           gap |-> Lerp(form.maximumGap, form.minimumGap, n, d)]
  ELSE IF form.automaticMode = "powerWave"
  THEN [power |-> WavePower(i * form.maximumGap), gap |-> form.maximumGap]
  ELSE [power |-> WavePower(WaveElapsed[i]), gap |-> WaveGap(WaveElapsed[i])]

RandomRow(i) ==
  [power |-> IF form.automaticMode = "randomTimingOnly" THEN High
             ELSE Drawn(Low, High, i),
   gap |-> IF form.automaticMode = "randomPowerOnly" THEN form.maximumGap
           ELSE Drawn(form.minimumGap, form.maximumGap, i + 1)]

(* resolveStrokeRow; a table that is used up goes on at the maximum. *)
StrokeRow(i) ==
  IF Table /\ i < TableCount THEN TableRow(i)
  ELSE IF form.automaticMode \in {"randomPowerOnly", "randomTimingOnly",
                                  "randomPowerAndTiming"} THEN RandomRow(i)
  ELSE [power |-> form.maximumPower, gap |-> form.maximumGap]

-----------------------------------------------------------------------------
(* What a burst looks like.  Draws of event e, stroke k of it. *)

PreviewBurstStrokes(e) == Drawn(form.burstStrokesMin, form.burstStrokesMax, e + 1)
PreviewBurstPower(e, k) ==
  IF PowerMirrored(form.burstStyle) THEN form.burstPowerMax
  ELSE Drawn(form.burstPowerMin, form.burstPowerMax, e + 10 + k)
PreviewBurstDelay(e, k) ==
  IF DelayMirrored(form.burstStyle) THEN form.burstDelayMax
  ELSE Drawn(form.burstDelayMin, form.burstDelayMax, e + 20 + k)

(* resolveMotorBurstGraphSpeedPercent: through the duty and back. *)
MotorBurstSpeed(relative) ==
  LET span == Duty.high - Duty.low IN
  IF span <= 0 THEN 100
  ELSE Between((100 * ((span * Between(relative, 0, 100)) \div 100)) \div span, 0, 100)

-----------------------------------------------------------------------------
(* Drawing.  A drawing d has points, the time and the level reached, the
   index of the next stroke, the main strokes and the bursts drawn, the burst
   plan, and where the loop is: at a beat, in a cluster of "left" strokes that
   returns to "back", waiting for the next stroke, or at its end. *)

(* pushPoint *)
Push(points, p) ==
  IF points # <<>> /\ Last(points) = p THEN points ELSE Append(points, p)
PushTwo(points, p, q) == Push(Push(points, p), q)
PushThree(points, p, q, r) == Push(PushTwo(points, p, q), r)

Reached(d, points, t, level) == [d EXCEPT !.points = points, !.t = t, !.level = level]
Hold(d, ms) ==
  LET end == AtMost(d.t + ms, Horizon)
  IN Reached(d, Push(d.points, <<end, d.level>>), end, d.level)
Ramp(d, to, ms) ==
  LET end == AtMost(d.t + ms, Horizon)
  IN Reached(d, PushTwo(d.points, <<d.t, d.level>>, <<end, to>>), end, to)
(* A change of level at once, held to the end. *)
Jump(d, to, end) ==
  Reached(d, PushThree(d.points, <<d.t, d.level>>, <<d.t, to>>, <<end, to>>), end, to)

(* Seeded fault: the last stroke is drawn to its end. *)
StrokePulsePast(d, power) == Jump(d, power, d.t + AtLeast(1, PulseMs(power)))
(* appendStrokePulse, appendGapInterval *)
StrokePulse(d, power) ==
  Jump(d, power, AtMost(d.t + AtLeast(1, PulseMs(power)), Horizon))
GapInterval(d, ms) == Jump(d, 0, AtMost(d.t + AtLeast(0, ms), Horizon))

(* resolveMotorSegmentTargetRampMs, with the option in the form as "ramp":
   -1 the whole segment, 0 at once, otherwise milliseconds. *)
TargetRamp == IF form.automaticMode \in {"powerWave", "buildUp"} THEN -1 ELSE form.ramp
(* transitionRampSec *)
TransitionMs(durationMs) ==
  IF TargetRamp = 0 THEN 1
  ELSE AtMost(durationMs, AtLeast(1, IF TargetRamp > 0 THEN TargetRamp ELSE RampMs))

Relay == form.kind = "relay"
NoDrawing == [at |-> "none"]

AtBeat(d) ==
  [d EXCEPT !.at = IF d.t < Horizon /\ (Relay \/ d.index < MaxSegments)
                   THEN "beat" ELSE "end"]
Cluster(d, back) ==
  [d EXCEPT !.at = "cluster", !.left = PreviewBurstStrokes(d.bursts), !.back = back]

(* buildRelayAutomaticPowerSchedule, buildMotorAutomaticSpeedSchedule: the
   start.  A motor at a set speed is drawn at once, without its bursts. *)
DelayMs == 1000 * AtLeast(0, form.delayBeforeStart)
FirstRampMs == AtLeast(1, IF form.ramp < 0 THEN RampMs ELSE form.ramp)
SetSpeed == ~Relay /\ form.automaticMode = "periodic"
Fresh ==
  LET d == [at |-> "beat", t |-> DelayMs, level |-> 0, index |-> 0, mains |-> 0,
            bursts |-> 0, left |-> 0, back |-> "beat", gap |-> 0,
            points |-> Push(<<<<0, 0>>>>, <<DelayMs, 0>>),
            plan |-> BuildRelayBurstPlan(form)]
  IN IF SetSpeed
     THEN [d EXCEPT !.points = PushThree(@, <<DelayMs, 0>>, <<DelayMs + FirstRampMs, High>>,
                                         <<Horizon, High>>),
                    !.at = "end", !.t = Horizon, !.level = High]
     ELSE AtBeat(d)

Draw ==
  /\ drawing.at = "none" /\ device.run = 0
  /\ seed' \in [0..SeedBits - 1 -> BOOLEAN]
  /\ drawing' = Fresh
  /\ UNCHANGED <<form, recording, device, wire, missed>>

Drawing(d) ==
  /\ drawing' = d
  /\ UNCHANGED <<form, seed, recording, device, wire, missed>>

(* Seeded fault: the chance of the stroke before is taken again. *)
BurstFirstStale(d) == PreviewBurstBefore(d.plan, d.mains, ChanceOf(d.mains))
BurstFirst(d) == PreviewBurstBefore(d.plan, d.mains, ChanceOf(d.mains + 1))
BurstAfter(d) == PreviewBurstAfter(d.plan, d.mains, ChanceOf(d.mains))

BurstInstead ==
  LET d == drawing IN
  /\ d.at = "beat" /\ BurstFirst(d)
  /\ Drawing(Cluster([d EXCEPT !.gap = 1000 * StrokeRow(d.index).gap],
                     IF Relay THEN "skip" ELSE "count"))

(* The relay's main stroke; a burst may follow at once. *)
MainStroke ==
  LET d == drawing
      row == StrokeRow(d.index)
      p == [StrokePulse(d, row.power) EXCEPT !.mains = @ + 1, !.gap = 1000 * row.gap]
  IN /\ d.at = "beat" /\ Relay /\ ~BurstFirst(d)
     /\ Drawing(IF BurstAfter(p)
                THEN Cluster(p, "gap") ELSE [p EXCEPT !.at = "gap"])

(* How long a segment of the motor is, and to what speed it goes. *)
SegmentMs(i) ==
  1000 * IF form.automaticMode = "randomSpeedAndTiming"
         THEN Drawn(form.minimumGap, form.maximumGap, i + 1) ELSE form.maximumGap
Wave(step) == IF 2 * step < WaveSteps THEN step ELSE WaveSteps - step
SegmentSpeed(i, elapsed) ==
  IF form.automaticMode = "powerWave"
  THEN Low + (2 * Wave(i % WaveSteps) * (High - Low)) \div WaveSteps
  ELSE IF form.automaticMode = "buildUp"
  THEN Low + (AtMost(elapsed, Horizon) * (High - Low)) \div Horizon
  ELSE Drawn(Low, High, i + 2)
(* appendMotorProgramSegment *)
ProgramSegment(d, to, ms) ==
  LET end == AtMost(d.t + ms, Horizon)
      reached == d.level + Rounded((to - d.level) * (end - d.t), ms)
      ramp == IF TargetRamp = 0 THEN 0 ELSE AtMost(TransitionMs(ms), end - d.t)
  IN IF TargetRamp < 0 THEN Ramp(d, reached, ms)
     ELSE Hold(Ramp(d, to, ramp), end - d.t - ramp)
Segment ==
  LET d == drawing
      to == SegmentSpeed(d.index, d.t - DelayMs)
      p == [ProgramSegment(d, to, SegmentMs(d.index))
              EXCEPT !.mains = @ + 1, !.index = @ + 1]
  IN /\ d.at = "beat" /\ ~Relay /\ ~BurstFirst(d)
     /\ Drawing(IF BurstAfter(p)
                THEN Cluster(p, "beat") ELSE AtBeat(p))

(* A stroke of a burst: appendBurstCluster, appendMotorBurstCluster. *)
BurstStroke(d) ==
  LET k == PreviewBurstStrokes(d.bursts) - d.left
      power == PreviewBurstPower(d.bursts, k)
      delay == 1000 * PreviewBurstDelay(d.bursts, k)
      s == IF Relay
           THEN StrokePulse(d, ResolveBurstEffectivePower(power, form))
           ELSE Hold(Ramp(d, MotorBurstSpeed(power), TransitionMs(1000 * form.maximumGap)),
                     MicroHoldMs)
  IN IF d.left = 1 \/ s.t >= Horizon THEN s
     ELSE IF Relay THEN GapInterval(s, delay) ELSE Hold(s, delay)
ClusterStroke ==
  LET d == drawing IN
  /\ d.at = "cluster" /\ d.left > 0 /\ d.t < Horizon
  /\ Drawing([BurstStroke(d) EXCEPT !.left = @ - 1])

(* The burst is done and the plan moves on; a burst instead of a main stroke
   is a beat of its own, which a motor counts as a main stroke too. *)
ClusterDone ==
  LET d == drawing
      p == [d EXCEPT !.bursts = @ + 1, !.plan = AdvanceBurstPlan(@), !.left = 0,
                     !.at = d.back]
  IN /\ d.at = "cluster" /\ (d.left = 0 \/ d.t >= Horizon)
     /\ Drawing(
          IF d.back = "skip" THEN
            LET q == [p EXCEPT !.index = @ + 1]
            IN IF q.t >= Horizon THEN [q EXCEPT !.at = "end"]
               ELSE AtBeat(GapInterval(q, q.gap))
          ELSE IF d.back = "count"
          THEN AtBeat([p EXCEPT !.index = @ + 1, !.mains = @ + 1])
          ELSE IF d.back = "beat" THEN AtBeat(p)
          ELSE p)

(* The gap after a main stroke, from here to "gap"; bursts that are due by
   the clock run in it. *)
GapBegins ==
  LET d == drawing IN
  /\ d.at = "gap"
  /\ Drawing(IF d.t >= Horizon THEN [d EXCEPT !.at = "end"]
             ELSE [d EXCEPT !.at = "wait", !.gap = AtMost(d.t + @, Horizon)])

Elapsed(d) == AtLeast(0, d.t - 1000 * form.delayBeforeStart)
ClockBurst(d) == d.t < d.gap /\ TriggerInWaitingGap(d.plan, Elapsed(d))
WaitingBurst ==
  /\ drawing.at = "wait" /\ ClockBurst(drawing)
  /\ Drawing(Cluster(drawing, "wait"))

(* Seeded fault: the strokes are counted before the gap has passed. *)
LastBeatEarly(d) ==
  form.endSessionMode = "strokes" /\ d.index + 1 >= form.endSessionValue
LastBeat(d) == form.endSessionMode = "strokes" /\ d.index >= form.endSessionValue
GapEnds ==
  LET d == drawing
      p == [GapInterval(d, d.gap - d.t) EXCEPT !.index = @ + 1]
  IN /\ d.at = "wait" /\ ~ClockBurst(d)
     /\ Drawing(IF LastBeat(p) THEN [p EXCEPT !.at = "end"] ELSE AtBeat(p))

(* The last point; a motor's preview is left as it is. *)
Finish ==
  LET d == drawing IN
  /\ d.at = "end"
  /\ Drawing([d EXCEPT !.at = "drawn",
       !.points = IF Relay /\ Last(@)[1] # Horizon
                  THEN Push(@, <<Horizon, d.level>>) ELSE @])

(* The panel has the schedule and shows it. *)
Show ==
  /\ drawing.at = "drawn"
  /\ drawing' = NoDrawing /\ seed' = [n \in 0..SeedBits - 1 |-> FALSE]
  /\ UNCHANGED <<form, recording, device, wire, missed>>

Preview == Draw \/ BurstInstead \/ MainStroke \/ Segment \/ ClusterStroke
           \/ ClusterDone \/ GapBegins \/ WaitingBurst \/ GapEnds \/ Finish \/ Show

-----------------------------------------------------------------------------
(* The form and the recording. *)

NoPrint == [kind |-> "none"]
NoRecording == [print |-> NoPrint, segments |-> <<>>]

(* relayAutomaticGraphRecordingActive for the form that is shown. *)
UsingLive == recording.print = form /\ recording.segments # <<>>

(* A change of the form drops the recording of the old one, in the store's
   setter or in the panel's effect. *)
Shows(new) ==
  /\ form' = new
  /\ recording' = IF new = form THEN recording ELSE NoRecording

Edit ==
  /\ drawing.at = "none"
  /\ \E key \in DOMAIN Edits : \E value \in Edits[key] :
       /\ device.run > 0 => key \in RunEdits
       /\ Editable(form, key, value)
       /\ key = "delayBeforeStart" => ~device.on
       /\ Shows(Update(form, key, value))
  /\ UNCHANGED <<seed, drawing, device, wire, missed>>

(* The settings are read again and another page has changed them. *)
Reload ==
  /\ drawing.at = "none"
  /\ \E stored \in FirstForms :
       stored.kind = form.kind /\ Shows(Normalize(stored))
  /\ UNCHANGED <<seed, drawing, device, wire, missed>>

RunBegins ==
  device' = [run |-> device.run + 1, on |-> TRUE, reported |-> 0]
(* handleStart begins a recording before it knows the device's answer. *)
MayRun ==
  /\ drawing.at = "none" /\ device.run < MaxRuns
  /\ device.run = 0 => \E stored \in RunForms : form = Normalize(stored)
Start ==
  /\ MayRun
  /\ recording' = [print |-> form, segments |-> <<>>]
  /\ \/ ~device.on /\ RunBegins
     \/ UNCHANGED device
  /\ UNCHANGED <<form, seed, drawing, wire, missed>>
(* A run that is started on another page. *)
StartElsewhere ==
  /\ MayRun /\ ~device.on
  /\ RunBegins
  /\ UNCHANGED <<form, seed, drawing, recording, wire, missed>>

(* A segment lasts a second: strokes and gaps in turn. *)
Report ==
  /\ device.on /\ device.reported < MaxReports
  /\ wire' = Append(wire, [run |-> device.run, index |-> device.reported])
  /\ device' = [device EXCEPT !.reported = @ + 1]
  /\ UNCHANGED <<form, seed, drawing, recording, missed>>
RunEnds ==
  /\ device.on
  /\ device' = [device EXCEPT !.on = FALSE]
  /\ UNCHANGED <<form, seed, drawing, recording, wire, missed>>
Lose ==
  /\ wire # <<>> /\ missed.lost < MaxLost
  /\ missed' = [lost |-> missed.lost + 1,
                first |-> missed.first \/ Head(wire).index = 0]
  /\ wire' = Tail(wire)
  /\ UNCHANGED <<form, seed, drawing, recording, device>>

(* Seeded fault: the first segment of a run does not clear the store. *)
ResetNever(r) == r
(* resetRelayAutomaticSegmentEvents, on a segment with index 0. *)
Reset(r) == [r EXCEPT !.segments = <<>>]
(* A segment takes its place in the order of time, and that of the one recorded
   at the same time. *)
Record(r, s) ==
  LET n == Len(r.segments)
      earlier == Cardinality({k \in 1..n : r.segments[k].index < s.index})
      later == Cardinality({k \in 1..n : r.segments[k].index > s.index})
  IN [r EXCEPT !.segments =
        SubSeq(@, 1, earlier) \o <<s>> \o SubSeq(@, n - later + 1, n)]
Receive ==
  /\ wire # <<>>
  /\ LET s == Head(wire) IN
     recording' = Record(IF s.index = 0 THEN Reset(recording) ELSE recording, s)
  /\ wire' = Tail(wire)
  /\ UNCHANGED <<form, seed, drawing, device, missed>>

(* buildRelayPowerScheduleFromLiveSegments and the motor's.  Segment i starts
   after i seconds: strokes and gaps in turn, or a motor's jumps and ramps. *)
StartMs(s) == 1000 * s.index
EndMs(s) == StartMs(s) + IF Relay \/ s.index % 2 = 1 THEN 1000 ELSE 40
Target(index) == IF index % 2 = 0 THEN High ELSE 0
LiveSegment(d, s) ==
  LET from == <<StartMs(s), IF Relay THEN d.level ELSE Target(s.index + 1)>>
      to == <<StartMs(s), Target(s.index)>>
      opened == IF Relay => StartMs(s) > d.t THEN Push(d.points, from) ELSE d.points
      jumps == IF Relay THEN Target(s.index) # d.level ELSE EndMs(s) - StartMs(s) <= 50
      points == IF jumps THEN PushTwo(opened, from, to) ELSE opened
  IN Reached(d, Push(points, <<EndMs(s), Target(s.index)>>), EndMs(s), Target(s.index))
LiveHorizon ==
  Max({AtLeast(1000, Horizon)} \cup {EndMs(s) : s \in ToSet(recording.segments)})
(* The graph after each segment. *)
LiveDrawings ==
  LET first == StartMs(Head(recording.segments))
      after[n \in 0..Len(recording.segments)] ==
        IF n = 0
        THEN [points |-> IF first > 0 THEN Push(<<<<0, 0>>>>, <<first, 0>>) ELSE <<<<0, 0>>>>,
              t |-> first, level |-> 0]
        ELSE LiveSegment(after[n - 1], recording.segments[n])
  IN after
LiveGraph ==
  LET d == LiveDrawings[Len(recording.segments)]
  IN IF d.t < LiveHorizon
     THEN Push(d.points, <<LiveHorizon, Last(d.points)[2]>>) ELSE d.points

Run == Edit \/ Reload \/ Start \/ StartElsewhere \/ Report \/ RunEnds \/ Lose
       \/ Receive

-----------------------------------------------------------------------------
Init ==
  /\ \E stored \in FirstForms : form = Normalize(stored)
  /\ seed = [n \in 0..SeedBits - 1 |-> FALSE]
  /\ drawing = NoDrawing /\ recording = NoRecording /\ wire = <<>>
  /\ device = [run |-> 0, on |-> FALSE, reported |-> 0]
  /\ missed = [lost |-> 0, first |-> FALSE]

Next == Preview \/ Run
Spec == Init /\ [][Next]_vars

-----------------------------------------------------------------------------
(* What the start sends is what the form shows: the command's payload is
   normalised again (buildAutomaticStartPayload), and that changes nothing;
   and whatever was edited in whatever order, the form is one the device can
   run: programs that need an end have one, no range is empty, and a motor at
   a set speed bursts in timed sessions only. *)
SentIsShown == Normalize(form) = form /\ FormRules(form)

(* The page and the device plan the same bursts. *)
PlansAgree == PlanAgrees(form)

(* The points of a preview are in the order of time, none is past the
   horizon, and a level is off or within the band of the form; unless the
   delay before the start, with the first ramp of a motor at a set speed, is
   longer than what is shown. *)
InOrder(points) ==
  \A i \in 1..Len(points) - 1 : points[i][1] <= points[i + 1][1]
Fits == DelayMs + (IF SetSpeed THEN FirstRampMs ELSE 0) <= Horizon
WellDrawn ==
  (drawing.at # "none" /\ Fits) =>
    /\ InOrder(drawing.points)
    /\ Last(drawing.points)[1] <= Horizon
    /\ \A i \in DOMAIN drawing.points :
         drawing.points[i][2] \in {0} \cup IF Relay THEN Low..High ELSE 0..100

(* Every burst of a preview is on its beat, and none is left out: as many as
   the plan has for the strokes drawn, never before its time by the clock, and
   a beat with a burst instead of the main stroke has no main stroke.  A
   preview of a number of strokes shows that number. *)
SlotsUpTo(plan, n) == Cardinality({k \in DOMAIN plan.at : plan.at[k] <= n})
Upcoming(d) == d.mains + IF d.plan.instead /\ Relay THEN 1 ELSE 0
BurstsOnTheirBeats ==
  LET d == drawing IN
  d.at = "beat" =>
    /\ d.plan.kind = "milestones" =>
         d.bursts \in SlotsUpTo(d.plan, d.mains)..SlotsUpTo(d.plan, Upcoming(d))
    /\ d.plan.kind = "stride" =>
         d.bursts \in (d.mains \div d.plan.stride)..(Upcoming(d) \div d.plan.stride)
    /\ d.plan.kind = "deadlines" => d.bursts <= SlotsUpTo(d.plan, Elapsed(d))
    /\ Relay => d.index = d.mains + IF d.plan.instead /\ d.plan.kind # "deadlines"
                                    THEN d.bursts ELSE 0
StrokesShown ==
  (/\ drawing.at = "end" /\ Relay
   /\ form.endSessionMode = "strokes" /\ form.endSessionValue > 0) =>
    /\ drawing.mains <= form.endSessionValue
    /\ (drawing.t < Horizon /\ ~drawing.plan.instead) =>
         drawing.mains = form.endSessionValue

(* Claims of the page that the preview does not keep.  "Each main opportunity
   has a chance of a burst cluster" (describeRelayBurstScheduleHint): with a
   burst instead of the main stroke the next beat draws the same chance, so
   after one hit no main stroke is shown any more. *)
ChanceEachBeat ==
  (/\ drawing.at = "end" /\ Relay /\ drawing.plan.kind = "chance"
   /\ drawing.index >= SeedBits /\ form.burstPercent < 100
   /\ \E n \in DOMAIN seed : ~seed[n]) => drawing.mains > 0
(* The delay before the start is part of what is shown. *)
DelayShown ==
  drawing.at = "drawn" => InOrder(drawing.points)

(* The preview keeps to time and band, to the plan of its bursts, and to the
   number of strokes the form asks for (buildRelayPowerSchedule,
   buildMotorSpeedSchedule). *)
PreviewTrue == WellDrawn /\ BurstsOnTheirBeats /\ StrokesShown

(* The graph of a run shows segments of one run only, so its points are in the
   order of time and end at its horizon; unless the first segment of a run was
   lost on the way (recordRelayAutomaticSegment). *)
OneRunShown ==
  (UsingLive /\ ~missed.first) =>
    /\ \A s, x \in ToSet(recording.segments) : s.run = x.run
    /\ InOrder(LiveGraph) /\ Last(LiveGraph)[1] = LiveHorizon
=============================================================================
