----------------------- MODULE AutomaticSessionProofs ------------------------
(***************************************************************************)
(* Proofs about AutomaticSession, for every set of configurations and      *)
(* every bound: bursts use up the slots of their plan one by one and come  *)
(* evenly, a session does not run more main strokes than it was told,      *)
(* updates are kept, and each of its steps is one RelayExecution allows.   *)
(***************************************************************************)
EXTENDS AutomaticSession, FiniteSetTheorems, TLAPS

-----------------------------------------------------------------------------
(* Arithmetic of the schedule *)

(* Division by a positive number gives a natural number, and at least one if
   the divisor is not the larger of the two. *)
LEMMA Division ==
  ASSUME NEW a \in Nat, NEW b \in Nat \ {0}
  PROVE  a \div b \in Nat /\ (b <= a => a \div b >= 1)
  BY SMTT(20)

(* A percentage of an envelope, rounded, is no more than the envelope. *)
LEMMA ShareWithin ==
  ASSUME NEW envelope \in Nat, NEW percent \in 0..100
  PROVE  BurstCount(envelope, percent) \in 0..envelope
<1> DEFINE a == envelope * percent + 50
<1>1. a \in Nat /\ a <= 100 * envelope + 50
  <2>1. envelope * percent \in Nat /\ envelope * percent <= envelope * 100
    BY SMTT(20)
  <2> QED BY <2>1
<1>2. a \div 100 \in Nat /\ a \div 100 <= envelope
  <2> HIDE DEF a
  <2> QED BY <1>1, SMTT(20)
<1> QED BY <1>2, MaxBurstEventsAssumption DEF BurstCount, RoundedShare, Smaller

(* Milestones and deadlines are not before the first stroke or tick. *)
LEMMA SlotsAhead ==
  ASSUME NEW end \in Nat \ {0}, NEW count \in 1..end
  PROVE  /\ Milestones(end, count) \in Seq(Nat)
         /\ Len(Milestones(end, count)) = count
         /\ \A k \in 1..count : Milestones(end, count)[k] >= 1
         /\ Deadlines(end, count) \in Seq(Nat)
         /\ Len(Deadlines(end, count)) = count
         /\ \A k \in 1..count : Deadlines(end, count)[k] >= 1
<1>1. ASSUME NEW k \in 1..count
      PROVE  /\ Larger(1, (k * end) \div count) \in Nat \ {0}
             /\ (k * end * MinuteTicks) \div count \in Nat \ {0}
  <2>1. k * end \in Nat
    BY SMTT(20)
  <2>2. k * end * MinuteTicks \in Nat /\ k * end * MinuteTicks >= count
    <3>1. k * end >= count
      <4>1. k * end >= 1 * end BY SMTT(20)
      <4> QED BY <4>1
    <3> DEFINE n == k * end
    <3> HIDE DEF n
    <3>2. n \in Nat /\ n >= count BY <2>1, <3>1 DEF n
    <3>3. n * MinuteTicks \in Nat /\ n * MinuteTicks >= n * 1
      BY <3>2, MinuteTicksAssumption, SMTT(20)
    <3> QED BY <3>2, <3>3 DEF n
  <2>3. (k * end) \div count \in Nat
    BY <2>1, Division
  <2>4. (k * end * MinuteTicks) \div count \in Nat /\ (k * end * MinuteTicks) \div count >= 1
    BY <2>2, Division
  <2> QED BY <2>3, <2>4 DEF Larger
<1>2. /\ \A k \in 1..count : Larger(1, (k * end) \div count) \in Nat \ {0}
      /\ \A k \in 1..count : (k * end * MinuteTicks) \div count \in Nat \ {0}
  BY <1>1
<1>3. ASSUME NEW f, f = [k \in 1..count |-> f[k]], \A k \in 1..count : f[k] \in Nat \ {0}
      PROVE  f \in Seq(Nat) /\ Len(f) = count /\ \A k \in 1..count : f[k] >= 1
  <2>1. f \in [1..count -> Nat]
    BY <1>3
  <2>2. f \in Seq(Nat) /\ DOMAIN f = 1..count
    BY <2>1
  <2> QED BY <1>3, <2>2
<1>4. Milestones(end, count) = [k \in 1..count |-> Larger(1, (k * end) \div count)]
  BY DEF Milestones
<1>5. Deadlines(end, count) = [k \in 1..count |-> (k * end * MinuteTicks) \div count]
  BY DEF Deadlines
<1>6. \A k \in 1..count : Milestones(end, count)[k] \in Nat \ {0} /\ Deadlines(end, count)[k] \in Nat \ {0}
  BY <1>2, <1>4, <1>5
<1>7. /\ Milestones(end, count) = [k \in 1..count |-> Milestones(end, count)[k]]
      /\ Deadlines(end, count) = [k \in 1..count |-> Deadlines(end, count)[k]]
  BY <1>4, <1>5
<1> HIDE DEF Milestones, Deadlines
<1> QED BY <1>3, <1>6, <1>7

(* Rounding down is the upper adjoint of multiplying. *)
LEMMA Floors ==
  ASSUME NEW a \in Nat, NEW n \in Nat \ {0}, NEW x \in Nat
  PROVE  a \div n \in Nat /\ (x <= a \div n <=> x * n <= a)
<1> DEFINE q == a \div n
<1>1. q \in Nat /\ q * n \in Nat /\ q * n <= a /\ a < q * n + n
  BY SMTT(20)
<1> HIDE DEF q
<1>2. x <= q => x * n <= q * n
  BY <1>1, SMTT(20)
<1>3. q + 1 <= x => (q + 1) * n <= x * n
  BY <1>1, SMTT(20)
<1>4. (q + 1) * n = q * n + n /\ x * n \in Nat
  BY <1>1, SMTT(20)
<1> DEFINE qn == q * n
           xn == x * n
<1>5. /\ qn \in Nat /\ xn \in Nat /\ qn <= a /\ a < qn + n
      /\ x <= q => xn <= qn
      /\ q + 1 <= x => qn + n <= xn
  BY <1>1, <1>2, <1>3, <1>4
<1> HIDE DEF qn, xn
<1>6. x <= q <=> xn <= a
  BY <1>1, <1>5
<1> QED BY <1>1, <1>6 DEF q, xn

(* Of count events spread over left strokes, m are due after x strokes exactly
   if the m-th milestone is not beyond x. *)
LEMMA MilestoneDue ==
  ASSUME NEW left \in Nat \ {0}, NEW count \in Nat \ {0}, NEW x \in Nat,
         NEW m \in 1..count
  PROVE  (m * left) \div count <= x <=> m <= DueBy(x, count, left)
<1> DEFINE a == m * left
           b == (x + 1) * count
<1>1. a \in Nat /\ b \in Nat /\ b >= 1
  BY SMTT(20)
<1>2. a \div count \in Nat /\ (x + 1 <= a \div count <=> b <= a)
  <2>1. \A c \in Nat, n \in Nat \ {0}, y \in Nat : c \div n \in Nat /\ (y <= c \div n <=> y * n <= c)
    BY Floors
  <2> HIDE DEF a
  <2> QED BY <1>1, <2>1
<1>3. (b - 1) \div left \in Nat /\ (m <= (b - 1) \div left <=> a <= b - 1)
  <2>1. \A c \in Nat, n \in Nat \ {0}, y \in Nat : c \div n \in Nat /\ (y <= c \div n <=> y * n <= c)
    BY Floors
  <2> HIDE DEF b
  <2>2. b - 1 \in Nat /\ m \in Nat
    BY <1>1
  <2> QED BY <2>1, <2>2
<1>4. DueBy(x, count, left) = Smaller(count, (b - 1) \div left)
  BY DEF DueBy
<1> DEFINE d == a \div count
           e == (b - 1) \div left
<1>5. d \in Nat /\ e \in Nat /\ (x + 1 <= d <=> b <= a) /\ (m <= e <=> a <= b - 1)
  BY <1>2, <1>3
<1> HIDE DEF a, b, d, e
<1>6. d <= x <=> m <= Smaller(count, e)
  BY <1>1, <1>5 DEF Smaller
<1> QED BY <1>4, <1>6 DEF a, d, e

(* How the number of events that are due grows with the strokes done: from
   none, at most by one with each stroke, to all of them. *)
LEMMA DueByGrows ==
  ASSUME NEW left \in Nat \ {0}, NEW count \in 1..left, NEW x \in Nat
  PROVE  /\ DueBy(x, count, left) \in 0..count
         /\ DueBy(0, count, left) = 0
         /\ DueBy(x, count, left) <= DueBy(x + 1, count, left)
         /\ DueBy(x + 1, count, left) <= DueBy(x, count, left) + 1
         /\ x >= left => DueBy(x, count, left) = count
<1>1. \A c \in Nat, y \in Nat : c \div left \in Nat /\ (y <= c \div left <=> y * left <= c)
  BY Floors
<1> DEFINE b == (x + 1) * count - 1
           q == b \div left
           r == (b + count) \div left
<1>2. b \in Nat /\ b + count \in Nat
  BY SMTT(20)
<1>3. (x + 1 + 1) * count - 1 = b + count /\ (0 + 1) * count - 1 = count - 1
  BY SMTT(20)
<1>4. x >= left => count * left <= b
  <2> SUFFICES ASSUME x >= left PROVE count * left <= b
    OBVIOUS
  <2>1. (left + 1) * count <= (x + 1) * count
    BY SMTT(20)
  <2>2. (left + 1) * count = count * left + count
    BY SMTT(20)
  <2>3. (x + 1) * count \in Nat /\ count * left \in Nat
    BY SMTT(20)
  <2> QED BY <2>1, <2>2, <2>3
<1> HIDE DEF b
<1>5. /\ q \in Nat /\ r \in Nat
      /\ \A y \in Nat : (y <= q <=> y * left <= b) /\ (y <= r <=> y * left <= b + count)
  BY <1>1, <1>2
<1> HIDE DEF q, r
<1>6. q <= r
  <2>1. q * left <= b /\ q * left \in Nat
    BY <1>5, SMTT(20)
  <2>2. q * left <= b + count
    BY <1>2, <2>1
  <2> QED BY <1>5, <2>2
<1>7. r <= q + 1
  <2>1. CASE r = 0
    BY <1>5, <2>1
  <2>2. CASE r # 0
    <3>1. r - 1 \in Nat /\ r * left <= b + count
      BY <1>5, <2>2
    <3>2. (r - 1) * left = r * left - left /\ r * left \in Nat
      BY <1>5, SMTT(20)
    <3>3. (r - 1) * left <= b
      BY <1>2, <3>1, <3>2
    <3>4. r - 1 <= q
      BY <1>5, <3>1, <3>3
    <3> QED BY <1>5, <3>4
  <2> QED BY <2>1, <2>2
<1>8. x >= left => count <= q
  BY <1>4, <1>5
<1>9. (count - 1) \div left = 0
  <2>1. count - 1 \in Nat /\ ~(1 * left <= count - 1)
    OBVIOUS
  <2>2. (count - 1) \div left \in Nat /\ ~(1 <= (count - 1) \div left)
    BY <1>1, <2>1
  <2> DEFINE z == (count - 1) \div left
  <2> HIDE DEF z
  <2>3. z \in Nat /\ ~(1 <= z)
    BY <2>2 DEF z
  <2>4. z = 0
    BY <2>3
  <2> QED BY <2>4 DEF z
<1>10. /\ DueBy(x, count, left) = Smaller(count, q)
       /\ DueBy(x + 1, count, left) = Smaller(count, r)
       /\ DueBy(0, count, left) = Smaller(count, 0)
  BY <1>3, <1>9 DEF DueBy, q, r, b
<1> QED BY <1>5, <1>6, <1>7, <1>8, <1>10 DEF Smaller

-----------------------------------------------------------------------------
(* Plans *)

(* A plan that was just built: typed, at its first slot, and if it has slots
   then at least one, each still ahead. *)
Ready(p) ==
  /\ p \in PlanType /\ p.next = 0
  /\ Slotted(p) => Len(p.at) > 0
Ahead(p) == \A k \in 1..Len(p.at) : p.at[k] >= 1

LEMMA BuildPlanReady ==
  ASSUME NEW c \in ConfigType
  PROVE  /\ Ready(BuildPlan(c)) /\ Ahead(BuildPlan(c))
         /\ BuildPlan(c).kind = "stride" => BuildPlan(c).stride \in Nat \ {0}
<1> DEFINE kind == PlanKind(c)
           count == BurstCount(c.end, c.percent)
           stride == IF kind = "stride" THEN Stride(c.percent) ELSE 0
           at == IF kind = "milestones" THEN Milestones(c.end, count)
                 ELSE IF kind = "deadlines" THEN Deadlines(c.end, count) ELSE <<>>
<1>1. c.end \in Nat /\ c.percent \in 0..100 /\ c.instead \in BOOLEAN
  BY DEF ConfigType
<1>2. kind \in PlanKinds
  BY DEF PlanKind, PlanKinds
<1>3. kind \in {"milestones", "deadlines"} => c.end # 0 /\ count # 0
  BY DEF PlanKind
<1>4. stride \in Nat /\ (kind = "stride" => stride # 0)
  <2>1. CASE kind = "stride"
    <3>1. c.percent # 0
      BY <2>1 DEF PlanKind
    <3>2. c.percent \div 2 \in Nat
      BY <1>1, Division
    <3>3. 100 + c.percent \div 2 \in Nat /\ c.percent <= 100 + c.percent \div 2
      BY <1>1, <3>2
    <3>4. \A a \in Nat, b \in Nat \ {0} : b <= a => a \div b \in Nat /\ a \div b >= 1
      BY Division
    <3>5. Stride(c.percent) = (100 + c.percent \div 2) \div c.percent
      BY DEF Stride
    <3> DEFINE a == 100 + c.percent \div 2
    <3>6. a \in Nat /\ c.percent \in Nat \ {0} /\ c.percent <= a
      BY <1>1, <3>1, <3>3
    <3> HIDE DEF a
    <3>7. a \div c.percent \in Nat /\ a \div c.percent >= 1
      BY <3>4, <3>6
    <3> QED BY <2>1, <3>5, <3>7 DEF a
  <2>2. CASE kind # "stride"
    BY <2>2
  <2> QED BY <2>1, <2>2
<1>5. at \in Seq(Nat) /\ (\A k \in 1..Len(at) : at[k] >= 1)
      /\ (kind \in {"milestones", "deadlines"} => Len(at) > 0)
  <2>1. CASE kind \in {"milestones", "deadlines"}
    <3>1. count \in 0..c.end
      BY <1>1, ShareWithin
    <3> HIDE DEF kind, count
    <3>2. c.end \in Nat \ {0} /\ count \in 1..c.end
      BY <1>1, <1>3, <2>1, <3>1
    <3>3. at \in {Milestones(c.end, count), Deadlines(c.end, count)}
      BY <2>1
    <3>4. \A f \in {Milestones(c.end, count), Deadlines(c.end, count)} :
            f \in Seq(Nat) /\ Len(f) = count /\ \A k \in 1..count : f[k] >= 1
      BY <3>2, SlotsAhead
    <3> HIDE DEF at
    <3> QED BY <3>2, <3>3, <3>4
  <2>2. CASE kind \notin {"milestones", "deadlines"}
    BY <2>2
  <2> QED BY <2>1, <2>2
<1>6. BuildPlan(c) = [kind |-> kind, instead |-> c.instead, next |-> 0, at |-> at,
                      stride |-> stride, trigger |-> stride]
  BY DEF BuildPlan
<1> HIDE DEF kind, count, stride, at
<1> QED BY <1>1, <1>2, <1>4, <1>5, <1>6 DEF Ready, Ahead, Slotted, PlanType

(* Replanning moves the slots behind what is done, so that none is past. *)
LEMMA ShiftReady ==
  ASSUME NEW p \in PlanType, Ready(p), Ahead(p), Slotted(p), NEW by \in Nat
  PROVE  Ready(Shift(p, by))
<1> DEFINE at == [k \in DOMAIN p.at |-> p.at[k] + by]
           past == {k \in DOMAIN at : at[k] <= by}
<1>1. DOMAIN p.at = 1..Len(p.at) /\ Len(p.at) \in Nat /\ p.at \in [1..Len(p.at) -> Nat]
  BY DEF PlanType
<1>2. at \in [1..Len(p.at) -> Nat]
  BY <1>1
<1>3. at \in Seq(Nat) /\ Len(at) = Len(p.at)
  BY <1>1, <1>2
<1>4. past = {}
  BY <1>1 DEF Ahead
<1>5. Cardinality(past) = 0
  BY <1>4, FS_EmptySet
<1>6. Shift(p, by) = [p EXCEPT !.at = at, !.next = 0]
  BY <1>5 DEF Shift
<1> HIDE DEF at
<1> QED BY <1>3, <1>6 DEF Ready, PlanType, Slotted

LEMMA ReplanReady ==
  ASSUME NEW c \in ConfigType, NEW strokes \in Nat, NEW time \in Nat
  PROVE  Ready(Replan(c, strokes, time))
<1> DEFINE left == [c EXCEPT !.end = Remaining(c, strokes, time)]
           p == BuildPlan(left)
<1>1. Remaining(c, strokes, time) \in Nat
  <2>1. time \div MinuteTicks \in Nat
    BY Division, MinuteTicksAssumption
  <2> QED BY <2>1 DEF Remaining, Larger, ConfigType
<1>2. left \in ConfigType
  BY <1>1 DEF ConfigType
<1>3. Ready(p) /\ Ahead(p) /\ (p.kind = "stride" => p.stride \in Nat \ {0})
  BY <1>2, BuildPlanReady
<1> HIDE DEF p
<1>4. CASE Slotted(p)
  <2>1. p \in PlanType
    BY <1>3 DEF Ready
  <2>2. Replan(c, strokes, time) = Shift(p, IF p.kind = "milestones" THEN strokes ELSE time)
    BY <1>4 DEF Replan, Slotted, p
  <2> QED BY <1>3, <1>4, <2>1, <2>2, ShiftReady
<1>5. CASE p.kind = "stride"
  <2>1. strokes \div p.stride \in Nat
    BY <1>3, <1>5, Division
  <2>2. p.trigger \in Nat
    BY <1>3 DEF Ready, PlanType
  <2>3. p.trigger * (strokes \div p.stride + 1) \in Nat
    BY <2>1, <2>2, SMTT(20)
  <2>4. Replan(c, strokes, time) =
          [p EXCEPT !.trigger = p.trigger * (strokes \div p.stride + 1)]
    BY <1>5 DEF Replan, p
  <2> DEFINE t == p.trigger * (strokes \div p.stride + 1)
  <2> HIDE DEF t
  <2> QED BY <1>3, <1>5, <2>3, <2>4 DEF t, Ready, PlanType, Slotted
<1>6. CASE ~Slotted(p) /\ p.kind # "stride"
  <2>1. Replan(c, strokes, time) = p
    BY <1>6 DEF Replan, p, Slotted
  <2> QED BY <1>3, <2>1
<1> QED BY <1>4, <1>5, <1>6

-----------------------------------------------------------------------------
(* The inductive invariant, of a session s that is running.  Besides the two
   checked properties, taken for one session (SlotsUsed, StrokesWithin), it says
   that an event that runs has a slot of its own (Reserved), that its count has
   not been reached (Counted), and that a stroke that runs is one the session
   may still have (Placed, Short). *)

SlotsUsed(s) == Slotted(s.plan) =>
  /\ s.plan.next = s.bursts - s.since.bursts
  /\ s.plan.next <= Len(s.plan.at)
Reserved(s) == InBurst(s) /\ Slotted(s.plan) => HasSlot(s.plan)

CountsStrokes(s) == s.config.rule = "strokes" /\ s.config.end > 0
StrokesWithin(s) == CountsStrokes(s) =>
  s.strokes <= Larger(s.config.end, s.since.strokes + 1)
Short(s) == CountsStrokes(s) =>
  s.strokes < Larger(s.config.end, s.since.strokes + 1)

Counted(s) ==
  /\ s.state = "BurstPulse" => s.done < s.target \/ (s.target = 0 /\ s.done = 0)
  /\ s.state = "BurstGap" => s.done < s.target

Typed(s) == s \in SessionType /\ s.config \in ConfigType /\ s.state # "Idle"
Sound(s) == Typed(s) /\ SlotsUsed(s) /\ StrokesWithin(s)
Placed(s) == /\ s.state = "Pulse" => Short(s)
             /\ s.state = "StartDelay" => s.strokes = 0
Good(s) == Sound(s) /\ Reserved(s) /\ Counted(s) /\ Placed(s)

GoodResult(r) == /\ r \in [reason : Reasons, byPoll : BOOLEAN, last : SessionType]
                 /\ r.last.config \in ConfigType => StrokesWithin(r.last)

Inv == /\ elapsed \in 0..MaxSession
       /\ asked \subseteq {"start", "stop", "abort"} \cup Updates
       /\ session = NoSession \/ Good(session)
       /\ GoodResult(result)

(* What a step of the session leaves. *)
After == /\ session' = NoSession \/ Good(session')
         /\ GoodResult(result')

-----------------------------------------------------------------------------
(* The parts of a step *)

LEMMA NoSessionTyped ==
  NoSession \in SessionType /\ NoSession.config = NoConfig /\ NoSession.state = "Idle"
<1>1. NoPlan \in PlanType /\ Fresh \in [strokes : Nat, bursts : Nat, updated : BOOLEAN, midBurst : BOOLEAN]
  BY DEF NoPlan, PlanType, PlanKinds, Fresh
<1> QED BY <1>1, BoundsAssumption DEF NoSession, SessionType, States

(* A session that ends leaves its result as it was. *)
LEMMA FinishLeaves ==
  ASSUME NEW s, Sound(s), NEW reason \in Reasons, NEW poll \in BOOLEAN,
         Finish(s, reason, poll)
  PROVE  After
  BY DEF Finish, After, GoodResult, Sound, Typed

(* One that goes on is as good as what it was continued with. *)
LEMMA ContinueLeaves ==
  ASSUME NEW s, Good(s), GoodResult(result), Continue(s)
  PROVE  After
  BY DEF Continue, After

(* An update keeps the session sound; the strokes done so far become the base
   that the new plan and the next stroke are measured from. *)
LEMMA UpdatedSound ==
  ASSUME Inv, NEW s, Sound(s)
  PROVE  /\ Sound(Updated(s)) /\ (Reserved(s) => Reserved(Updated(s)))
         /\ Updated(s).strokes = s.strokes
         /\ \/ Updated(s) = s
            \/ /\ Short(Updated(s))
               /\ Slotted(Updated(s).plan) => HasSlot(Updated(s).plan)
         /\ \/ /\ Updated(s).state = s.state
               /\ Updated(s).target = s.target /\ Updated(s).done = s.done
            \/ /\ InBurst(s) /\ Updated(s).state = "WaitingGap"
               /\ Updated(s).target = 0 /\ Updated(s).done = 0
<1>1. CASE s.pending = NoConfig
  BY <1>1 DEF Updated
<1>2. CASE s.pending # NoConfig
  <2> DEFINE p == Replan(s.pending, s.strokes, elapsed)
             since == [strokes |-> s.strokes, bursts |-> s.bursts,
                       updated |-> TRUE, midBurst |-> InBurst(s)]
             u == [s EXCEPT !.config = s.pending, !.pending = NoConfig,
                            !.plan = p, !.since = since]
             w == [u EXCEPT !.state = "WaitingGap", !.target = 0, !.done = 0]
  <2>1. s.pending \in ConfigType /\ s.strokes \in Nat /\ s.bursts \in Nat /\ elapsed \in Nat
    BY <1>2 DEF Sound, Typed, SessionType, Inv
  <2>2. Ready(p)
    BY <2>1, ReplanReady
  <2>3. since \in [strokes : Nat, bursts : Nat, updated : BOOLEAN, midBurst : BOOLEAN]
    BY <2>1 DEF InBurst
  <2>4. Updated(s) = IF InBurst(s) /\ ~u.config.burstsOn THEN w ELSE u
    BY <1>2, Zenon DEF Updated
  <2> HIDE DEF p, since
  <2>5. Typed(u) /\ Typed(w)
    <3>1. s \in SessionType /\ p \in PlanType
      BY <2>2 DEF Sound, Typed, Ready
    <3>2. u \in SessionType
      BY <2>1, <2>3, <3>1 DEF SessionType
    <3>3. u.config = s.pending /\ u.state = s.state
      BY <3>1 DEF SessionType
    <3> HIDE DEF u
    <3> DEFINE v == [u EXCEPT !.state = "WaitingGap"]
               x == [v EXCEPT !.target = 0]
    <3>4. 0 \in 0..MaxBurstStrokes /\ "WaitingGap" \in States
      BY BoundsAssumption DEF States
    <3>5. v \in SessionType
      BY <3>2, <3>4 DEF SessionType
    <3>6. x \in SessionType
      <4> HIDE DEF v
      <4> QED BY <3>4, <3>5 DEF SessionType
    <3>7. w \in SessionType
      <4>1. w = [x EXCEPT !.done = 0] OBVIOUS
      <4> HIDE DEF x, w
      <4> QED BY <3>4, <3>6, <4>1 DEF SessionType
    <3>8. w.config = s.pending /\ w.state = "WaitingGap"
      BY <3>2, <3>3 DEF SessionType
    <3> QED BY <2>1, <3>2, <3>3, <3>7, <3>8 DEF Sound, Typed
  <2>6. u.plan = p /\ w.plan = p /\ u.since = since /\ w.since = since
    BY DEF Sound, Typed, SessionType
  <2>7. u.bursts = s.bursts /\ w.bursts = s.bursts /\ u.strokes = s.strokes /\ w.strokes = s.strokes
    BY DEF Sound, Typed, SessionType
  <2>8. since.bursts = s.bursts /\ since.strokes = s.strokes
    BY DEF since
  <2>9. SlotsUsed(u) /\ SlotsUsed(w)
       /\ (Slotted(u.plan) => HasSlot(u.plan)) /\ (Slotted(w.plan) => HasSlot(w.plan))
    BY <2>1, <2>2, <2>6, <2>7, <2>8 DEF SlotsUsed, HasSlot, Ready
  <2>10. u.config = s.pending /\ w.config = s.pending
    BY DEF Sound, Typed, SessionType
  <2>11. /\ Short(u) /\ StrokesWithin(u)
         /\ Short(w) /\ StrokesWithin(w)
    <3>1. s.pending.end \in Nat
      BY <2>1 DEF ConfigType
    <3> QED BY <2>1, <2>6, <2>7, <2>8, <2>10, <3>1
        DEF Short, StrokesWithin, CountsStrokes, Larger
  <2>12. /\ u.state = s.state /\ u.target = s.target /\ u.done = s.done
         /\ w.state = "WaitingGap" /\ w.target = 0 /\ w.done = 0
    BY DEF Sound, Typed, SessionType
  <2> HIDE DEF u, w
  <2> QED BY <1>2, <2>4, <2>5, <2>7, <2>9, <2>11, <2>12 DEF Sound, Reserved
<1> QED BY <1>1, <1>2

(* Where only the state changes, what is sound stays so. *)
LEMMA StateSet ==
  ASSUME NEW s, Sound(s), NEW st \in States \ {"Idle"}
  PROVE  LET w == [s EXCEPT !.state = st] IN
         /\ Sound(w) /\ w.state = st /\ w.strokes = s.strokes /\ w.plan = s.plan
         /\ w.done = s.done /\ w.target = s.target
         /\ Short(s) => Short(w)
<1> DEFINE w == [s EXCEPT !.state = st]
<1>1. s \in SessionType /\ s.config \in ConfigType
  BY DEF Sound, Typed
<1>2. w \in SessionType
  BY <1>1 DEF SessionType
<1>3. /\ w.state = st /\ w.config = s.config /\ w.plan = s.plan /\ w.since = s.since
      /\ w.strokes = s.strokes /\ w.bursts = s.bursts
      /\ w.done = s.done /\ w.target = s.target
  BY <1>1 DEF SessionType
<1> HIDE DEF w
<1>4. Typed(w)
  BY <1>1, <1>2, <1>3 DEF Typed
<1>5. SlotsUsed(w)
  BY <1>3 DEF SlotsUsed, Sound
<1>6. StrokesWithin(w) /\ (Short(s) => Short(w))
  BY <1>3 DEF StrokesWithin, Short, CountsStrokes, Sound
<1> QED BY <1>3, <1>4, <1>5, <1>6 DEF w, Sound

LEMMA StopEndOrWaitLeaves ==
  ASSUME NEW s, Sound(s), NEW poll \in BOOLEAN, GoodResult(result),
         StopEndOrWait(s, poll)
  PROVE  After
<1>1. ASSUME NEW reason \in {"manualStop", "endSession"}, Finish(s, reason, poll)
      PROVE  After
  BY <1>1, FinishLeaves DEF Reasons
<1>2. CASE Continue([s EXCEPT !.state = "WaitingGap"])
  <2>1. Good([s EXCEPT !.state = "WaitingGap"])
    BY StateSet DEF States, Good, Reserved, InBurst, Counted, Placed
  <2> QED BY <1>2, <2>1, ContinueLeaves
<1> QED BY <1>1, <1>2 DEF StopEndOrWait

LEMMA MainPulseLeaves ==
  ASSUME NEW s, Sound(s), Short(s), GoodResult(result), MainPulse(s)
  PROVE  After
<1>1. Good([s EXCEPT !.state = "Pulse"])
  BY StateSet DEF States, Good, Reserved, InBurst, Counted, Placed
<1> QED BY <1>1, ContinueLeaves DEF MainPulse

LEMMA IntraPulseLeaves ==
  ASSUME NEW s, Sound(s), GoodResult(result), IntraPulse(s),
         Slotted(s.plan) => HasSlot(s.plan),
         s.done < s.target \/ (s.target = 0 /\ s.done = 0)
  PROVE  After
<1>1. Good([s EXCEPT !.state = "BurstPulse"])
  BY StateSet DEF States, Good, Reserved, InBurst, Counted, Placed
<1> QED BY <1>1, ContinueLeaves DEF IntraPulse

LEMMA BeginBurstEventLeaves ==
  ASSUME NEW s, Sound(s), GoodResult(result), BeginBurstEvent(s),
         Slotted(s.plan) => HasSlot(s.plan)
  PROVE  After
<1>1. PICK n \in 1..MaxBurstStrokes : IntraPulse([s EXCEPT !.target = n, !.done = 0])
  BY DEF BeginBurstEvent
<1> DEFINE b == [s EXCEPT !.target = n, !.done = 0]
<1>2. s \in SessionType /\ 0 \in 0..MaxBurstStrokes /\ n \in 0..MaxBurstStrokes /\ 0 < n
  BY BoundsAssumption DEF Sound, Typed
<1>3. b \in SessionType
  BY <1>2 DEF SessionType
<1>4. /\ b.state = s.state /\ b.config = s.config /\ b.plan = s.plan
      /\ b.since = s.since /\ b.strokes = s.strokes /\ b.bursts = s.bursts
      /\ b.target = n /\ b.done = 0
  BY <1>2 DEF SessionType
<1> HIDE DEF b
<1>5. Sound(b)
  BY <1>3, <1>4 DEF Sound, Typed, SlotsUsed, StrokesWithin, CountsStrokes
<1> QED BY <1>1, <1>2, <1>4, <1>5, IntraPulseLeaves DEF b

(* The event that ends uses up its slot. *)
LEMMA FinishedSound ==
  ASSUME NEW s, Sound(s), Reserved(s), InBurst(s)
  PROVE  LET t == [s EXCEPT !.bursts = @ + 1, !.plan = Advance(@)] IN
         /\ Sound(t) /\ t.state = s.state /\ t.config = s.config
         /\ t.pending = s.pending /\ t.stop = s.stop
         /\ t.target = s.target /\ t.done = s.done
<1> DEFINE p == Advance(s.plan)
           t == [s EXCEPT !.bursts = @ + 1, !.plan = p]
<1>1. s \in SessionType /\ s.plan \in PlanType
  BY DEF Sound, Typed, SessionType
<1>2. /\ p \in PlanType
      /\ Slotted(p) <=> Slotted(s.plan)
      /\ Slotted(s.plan) => p.next = s.plan.next + 1 /\ p.at = s.plan.at
  <2>1. CASE Slotted(s.plan)
    <3>1. p = [s.plan EXCEPT !.next = s.plan.next + 1]
      BY <2>1 DEF Advance, Reserved
    <3> HIDE DEF p
    <3>2. s.plan.next + 1 \in Nat
      BY <1>1 DEF PlanType
    <3>3. p \in PlanType
      BY <1>1, <3>1, <3>2 DEF PlanType
    <3>4. p.kind = s.plan.kind /\ p.next = s.plan.next + 1 /\ p.at = s.plan.at
      BY <1>1, <3>1 DEF PlanType
    <3> QED BY <2>1, <3>3, <3>4 DEF Slotted
  <2>2. CASE s.plan.kind = "stride"
    <3>1. p = [s.plan EXCEPT !.trigger = s.plan.trigger + s.plan.stride]
      BY <2>2 DEF Advance, Slotted
    <3> HIDE DEF p
    <3>2. s.plan.trigger + s.plan.stride \in Nat
      BY <1>1 DEF PlanType
    <3>3. p \in PlanType
      BY <1>1, <3>1, <3>2 DEF PlanType
    <3>4. p.kind = "stride"
      BY <1>1, <2>2, <3>1 DEF PlanType
    <3> QED BY <2>2, <3>3, <3>4 DEF Slotted
  <2>3. CASE ~Slotted(s.plan) /\ s.plan.kind # "stride"
    BY <1>1, <2>3 DEF Advance
  <2> QED BY <2>1, <2>2, <2>3
<1> HIDE DEF p
<1>3. t \in SessionType
  <2> DEFINE v == [s EXCEPT !.bursts = s.bursts + 1]
  <2>1. s.bursts + 1 \in Nat
    BY <1>1 DEF SessionType
  <2>2. v \in SessionType
    BY <1>1, <2>1 DEF SessionType
  <2>3. t = [v EXCEPT !.plan = p]
    OBVIOUS
  <2> HIDE DEF v, t
  <2> QED BY <1>2, <2>2, <2>3 DEF SessionType
<1>4. /\ t.config = s.config /\ t.plan = p /\ t.since = s.since
      /\ t.strokes = s.strokes /\ t.bursts = s.bursts + 1 /\ t.state = s.state
      /\ t.pending = s.pending /\ t.stop = s.stop /\ t.target = s.target /\ t.done = s.done
  BY <1>1 DEF SessionType
<1>6. s.plan.next \in Nat /\ Len(s.plan.at) \in Nat /\ s.bursts \in Nat /\ s.since.bursts \in Nat
  BY <1>1 DEF SessionType, PlanType
<1> HIDE DEF t
<1>7. SlotsUsed(t)
  <2> SUFFICES ASSUME Slotted(t.plan)
               PROVE  t.plan.next = t.bursts - t.since.bursts /\ t.plan.next <= Len(t.plan.at)
    BY DEF SlotsUsed
  <2>1. Slotted(s.plan) /\ t.plan.next = s.plan.next + 1 /\ t.plan.at = s.plan.at
    BY <1>2, <1>4
  <2>2. s.plan.next = s.bursts - s.since.bursts /\ s.plan.next < Len(s.plan.at)
    BY <2>1 DEF SlotsUsed, Sound, Reserved, HasSlot
  <2>3. t.bursts = s.bursts + 1 /\ t.since.bursts = s.since.bursts
    BY <1>4
  <2> QED BY <1>6, <2>1, <2>2, <2>3
<1>8. Sound(t)
  BY <1>3, <1>4, <1>7 DEF Sound, Typed, StrokesWithin, CountsStrokes
<1> QED BY <1>4, <1>8 DEF t, p

LEMMA FinishBurstEventLeaves ==
  ASSUME NEW s, Sound(s), Reserved(s), InBurst(s), GoodResult(result),
         FinishBurstEvent(s)
  PROVE  After
<1> DEFINE t == [s EXCEPT !.bursts = @ + 1, !.plan = Advance(@)]
<1>1. StopEndOrWait(t, FALSE)
  BY DEF FinishBurstEvent
<1>2. Sound(t)
  BY FinishedSound
<1> HIDE DEF t
<1> QED BY <1>1, <1>2, StopEndOrWaitLeaves

(* A main stroke, and a pulse of a burst event, that has come to its end. *)
LEMMA StrokeCounted ==
  ASSUME Inv, session.state = "Pulse"
  PROVE  LET s == [session EXCEPT !.strokes = @ + 1] IN
         /\ Sound(s) /\ s.state = "Pulse" /\ s.config = session.config
         /\ s.pending = session.pending /\ s.stop = session.stop
         /\ s.target = session.target /\ s.done = session.done
<1> DEFINE s == [session EXCEPT !.strokes = session.strokes + 1]
<1>1. Good(session) /\ session \in SessionType
  BY NoSessionTyped DEF Inv, Good, Sound, Typed
<1>2. session.strokes + 1 \in Nat
  BY <1>1 DEF SessionType
<1>3. s \in SessionType
  BY <1>1, <1>2 DEF SessionType
<1>4. /\ s.config = session.config /\ s.plan = session.plan /\ s.since = session.since
      /\ s.strokes = session.strokes + 1 /\ s.bursts = session.bursts
      /\ s.state = "Pulse" /\ s.pending = session.pending /\ s.stop = session.stop
      /\ s.target = session.target /\ s.done = session.done
  BY <1>1 DEF SessionType
<1> HIDE DEF s
<1>5. StrokesWithin(s)
  <2>1. session.config \in ConfigType
    BY <1>1 DEF Good, Sound, Typed
  <2>2. session.config.end \in Nat /\ session.strokes \in Nat /\ session.since.strokes \in Nat
    BY <1>1, <2>1 DEF ConfigType, SessionType
  <2> QED BY <1>1, <1>4, <2>2 DEF Good, Placed, Short, StrokesWithin, CountsStrokes, Larger
<1>6. Sound(s)
  BY <1>1, <1>3, <1>4, <1>5 DEF Good, Sound, Typed, SlotsUsed
<1> QED BY <1>4, <1>6 DEF s

LEMMA PulseCounted ==
  ASSUME Inv, session.state = "BurstPulse"
  PROVE  LET s == [session EXCEPT !.done = @ + 1] IN
         /\ Sound(s) /\ Reserved(s) /\ s.state = "BurstPulse"
         /\ s.config = session.config /\ s.pending = session.pending
         /\ s.stop = session.stop /\ s.target = session.target
         /\ s.done = session.done + 1
<1> DEFINE s == [session EXCEPT !.done = session.done + 1]
<1>1. Good(session) /\ session \in SessionType
  BY NoSessionTyped DEF Inv, Good, Sound, Typed
<1>2. session.done + 1 \in 0..MaxBurstStrokes
  <2>1. session.done \in 0..MaxBurstStrokes /\ session.target \in 0..MaxBurstStrokes
    BY <1>1 DEF SessionType
  <2> QED BY <1>1, <2>1, BoundsAssumption DEF Good, Counted
<1>3. s \in SessionType
  BY <1>1, <1>2 DEF SessionType
<1>4. /\ s.config = session.config /\ s.plan = session.plan /\ s.since = session.since
      /\ s.strokes = session.strokes /\ s.bursts = session.bursts
      /\ s.state = "BurstPulse" /\ s.pending = session.pending /\ s.stop = session.stop
      /\ s.target = session.target /\ s.done = session.done + 1
  BY <1>1 DEF SessionType
<1> HIDE DEF s
<1>5. Sound(s) /\ Reserved(s)
  BY <1>1, <1>3, <1>4 DEF Good, Sound, Typed, SlotsUsed, Reserved, InBurst, StrokesWithin, CountsStrokes
<1> QED BY <1>4, <1>5 DEF s

-----------------------------------------------------------------------------
(* The actions *)

LEMMA MainPulseDoneStep ==
  ASSUME Inv, MainPulseDone
  PROVE  Inv'
<1> SUFFICES After
  BY DEF Inv, After, MainPulseDone
<1> DEFINE s == [session EXCEPT !.strokes = @ + 1]
<1>5. \/ Finish(s, "error", FALSE)
      \/ BurstAfterMain(Updated(s))
  BY DEF MainPulseDone
<1>7. Sound(s)
  BY StrokeCounted DEF MainPulseDone
<1> HIDE DEF s
<1>8. GoodResult(result)
  BY DEF Inv
<1>9. CASE Finish(s, "error", FALSE)
  BY <1>7, <1>9, FinishLeaves DEF Reasons
<1>10. CASE BurstAfterMain(Updated(s))
  <2> DEFINE u == Updated(s)
  <2>1. Sound(u)
    BY <1>7, UpdatedSound
  <2> HIDE DEF u
  <2>2. CASE StopEndOrWait(u, FALSE)
    BY <1>8, <2>1, <2>2, StopEndOrWaitLeaves
  <2>3. CASE BeginBurstEvent(u) /\ \E roll \in BOOLEAN : DueAfterMain(u.plan, u.config, u.strokes, roll)
    <3>1. Slotted(u.plan) => HasSlot(u.plan)
      BY <2>3 DEF DueAfterMain, DueAt, Slotted
    <3> QED BY <1>8, <2>1, <2>3, <3>1, BeginBurstEventLeaves
  <2> QED BY <1>10, <2>2, <2>3 DEF BurstAfterMain, u
<1> QED BY <1>5, <1>9, <1>10

LEMMA IntraPulseDoneStep ==
  ASSUME Inv, IntraPulseDone
  PROVE  Inv'
<1> SUFFICES After
  BY DEF Inv, After, IntraPulseDone
<1> DEFINE s == [session EXCEPT !.done = @ + 1]
           u == Updated(s)
<1>5. \/ Finish(s, "error", FALSE)
      \/ u.state = "WaitingGap" /\ StopEndOrWait(u, FALSE)
      \/ u.state # "WaitingGap" /\ FinishBurstEvent(u)
      \/ u.state # "WaitingGap" /\ u.done < u.target
         /\ (IntraPulse(u) \/ Continue([u EXCEPT !.state = "BurstGap"]))
  BY DEF IntraPulseDone
<1>6. Sound(s) /\ Reserved(s) /\ s.state = "BurstPulse"
  BY PulseCounted DEF IntraPulseDone
<1> HIDE DEF s, u
<1>7. Sound(u) /\ Reserved(u) /\ (u.state # "WaitingGap" => InBurst(u))
  BY <1>6, UpdatedSound DEF u, InBurst
<1>8. GoodResult(result)
  BY DEF Inv
<1>9. CASE Finish(s, "error", FALSE)
  BY <1>6, <1>9, FinishLeaves DEF Reasons
<1>10. CASE StopEndOrWait(u, FALSE)
  BY <1>7, <1>8, <1>10, StopEndOrWaitLeaves
<1>11. CASE u.state # "WaitingGap" /\ FinishBurstEvent(u)
  BY <1>7, <1>8, <1>11, FinishBurstEventLeaves
<1>12. CASE u.state # "WaitingGap" /\ u.done < u.target /\ IntraPulse(u)
  BY <1>7, <1>8, <1>12, IntraPulseLeaves DEF Reserved
<1>13. CASE u.state # "WaitingGap" /\ u.done < u.target
            /\ Continue([u EXCEPT !.state = "BurstGap"])
  <2>1. Good([u EXCEPT !.state = "BurstGap"])
    BY <1>7, <1>13, StateSet DEF States, Good, Reserved, InBurst, Counted, Placed
  <2> QED BY <1>8, <1>13, <2>1, ContinueLeaves
<1> QED BY <1>5, <1>9, <1>10, <1>11, <1>12, <1>13

LEMMA StartDelayElapsedStep ==
  ASSUME Inv, StartDelayElapsed
  PROVE  Inv'
<1> SUFFICES After
  BY DEF Inv, After, StartDelayElapsed
<1> DEFINE u == Updated(session)
<1>1. Good(session) /\ session.state = "StartDelay"
  BY NoSessionTyped DEF Inv, StartDelayElapsed
<1>2. Sound(session) /\ GoodResult(result)
  BY <1>1 DEF Inv, Good
<1>3. Finish(session, "error", TRUE) \/ MainPulse(u)
  BY DEF StartDelayElapsed
<1>4. Short(session)
  <2>1. session.config.end \in Nat /\ session.strokes = 0 /\ session.since.strokes \in Nat
    BY <1>1 DEF Good, Placed, Sound, Typed, ConfigType, SessionType
  <2> QED BY <2>1 DEF Short, CountsStrokes, Larger
<1>5. Sound(u) /\ Short(u)
  BY <1>2, <1>4, UpdatedSound
<1> HIDE DEF u
<1>6. CASE Finish(session, "error", TRUE)
  BY <1>2, <1>6, FinishLeaves DEF Reasons
<1>7. CASE MainPulse(u)
  BY <1>2, <1>5, <1>7, MainPulseLeaves
<1> QED BY <1>3, <1>6, <1>7

LEMMA BurstGapPollStep ==
  ASSUME Inv, BurstGapPoll
  PROVE  Inv'
<1> SUFFICES After
  BY DEF Inv, After, BurstGapPoll
<1> DEFINE u == Updated(session)
<1>1. Good(session) /\ session.state = "BurstGap"
  BY NoSessionTyped DEF Inv, BurstGapPoll
<1>2. Sound(session) /\ GoodResult(result)
  BY <1>1 DEF Inv, Good
<1>3. Finish(session, "error", TRUE) \/ IntraPulse(u)
  BY DEF BurstGapPoll
<1>4. Sound(u) /\ (Slotted(u.plan) => HasSlot(u.plan))
  BY <1>1, <1>2, UpdatedSound DEF Good, Reserved, InBurst
<1>5. u.done < u.target \/ (u.target = 0 /\ u.done = 0)
  BY <1>1, <1>2, UpdatedSound DEF Good, Counted
<1> HIDE DEF u
<1>6. CASE Finish(session, "error", TRUE)
  BY <1>2, <1>6, FinishLeaves DEF Reasons
<1>7. CASE IntraPulse(u)
  BY <1>2, <1>4, <1>5, <1>7, IntraPulseLeaves
<1> QED BY <1>3, <1>6, <1>7

LEMMA WaitingGapPollStep ==
  ASSUME Inv, WaitingGapPoll
  PROVE  Inv'
<1> SUFFICES After
  BY DEF Inv, After, WaitingGapPoll
<1> DEFINE u == Updated(session)
<1>1. Good(session) /\ session.state = "WaitingGap"
  BY NoSessionTyped DEF Inv, WaitingGapPoll
<1>2. Sound(session) /\ GoodResult(result)
  BY <1>1 DEF Inv, Good
<1>3. ASSUME NEW reason \in Reasons, Finish(session, reason, TRUE)
      PROVE  After
  BY <1>2, <1>3, FinishLeaves
<1>4. CASE DueInGap(session.plan, elapsed) /\ BeginBurstEvent(session)
  <2>1. Slotted(session.plan) => HasSlot(session.plan)
    BY <1>4 DEF DueInGap
  <2> QED BY <1>2, <1>4, <2>1, BeginBurstEventLeaves
<1>5. CASE ~ShouldEnd(session) /\ GapOver
  <2>1. Short(session)
    <3>1. session.config.end \in Nat /\ session.strokes \in Nat /\ session.since.strokes \in Nat
      BY <1>2 DEF Sound, Typed, ConfigType, SessionType
    <3> QED BY <1>5, <3>1 DEF Short, CountsStrokes, ShouldEnd, Larger
  <2>2. Sound(u) /\ Short(u)
    BY <1>2, <2>1, UpdatedSound
  <2>3. \/ Finish(session, "error", TRUE)
        \/ MainPulse(u)
        \/ BeginBurstEvent(u) /\ \E roll \in BOOLEAN : DueBeforeMain(u.plan, u.config, u.strokes, roll)
    BY <1>5 DEF GapOver
  <2> HIDE DEF u
  <2>4. CASE Finish(session, "error", TRUE)
    BY <1>3, <2>4 DEF Reasons
  <2>5. CASE MainPulse(u)
    BY <1>2, <2>2, <2>5, MainPulseLeaves
  <2>6. CASE BeginBurstEvent(u) /\ \E roll \in BOOLEAN : DueBeforeMain(u.plan, u.config, u.strokes, roll)
    <3>1. Slotted(u.plan) => HasSlot(u.plan)
      BY <2>6 DEF DueBeforeMain, DueAt, Slotted
    <3> QED BY <1>2, <2>2, <2>6, <3>1, BeginBurstEventLeaves
  <2> QED BY <2>3, <2>4, <2>5, <2>6
<1>6. \/ \E reason \in {"manualStop", "endSession"} : Finish(session, reason, TRUE)
      \/ DueInGap(session.plan, elapsed) /\ BeginBurstEvent(session)
      \/ ~ShouldEnd(session) /\ GapOver
  BY DEF WaitingGapPoll, WaitingGap
<1> QED BY <1>3, <1>4, <1>5, <1>6 DEF Reasons

LEMMA StartStep ==
  ASSUME Inv, Start
  PROVE  Inv'
<1>1. PICK c \in StartConfigs, delayed \in BOOLEAN :
        Continue([NoSession EXCEPT !.config = c, !.plan = BuildPlan(c),
                    !.state = IF delayed THEN "StartDelay" ELSE "Pulse"])
  BY DEF Start
<1> DEFINE p == BuildPlan(c)
           st == IF delayed THEN "StartDelay" ELSE "Pulse"
           s == [NoSession EXCEPT !.config = c, !.plan = p, !.state = st]
<1>2. c \in ConfigType
  BY ConfigsAssumption
<1>3. Ready(p)
  BY <1>2, BuildPlanReady
<1>4. st \in {"StartDelay", "Pulse"}
  OBVIOUS
<1>5. session' = s /\ UNCHANGED result
  BY <1>1 DEF Continue
<1> HIDE DEF p, st
<1>6. s \in SessionType
  <2>1. NoSession \in SessionType /\ p \in PlanType /\ st \in States
    BY <1>3, <1>4, NoSessionTyped DEF Ready, States
  <2> DEFINE v == [NoSession EXCEPT !.config = c]
             w == [v EXCEPT !.plan = p]
  <2>2. v \in SessionType
    BY <1>2, <2>1 DEF SessionType
  <2> HIDE DEF v
  <2>3. w \in SessionType
    BY <2>1, <2>2 DEF SessionType
  <2>4. s = [w EXCEPT !.state = st]
    BY DEF v
  <2> HIDE DEF w, s
  <2> QED BY <2>1, <2>3, <2>4 DEF SessionType
<1>7. /\ s.config = c /\ s.plan = p /\ s.state = st /\ s.strokes = 0 /\ s.bursts = 0
      /\ s.since.strokes = 0 /\ s.since.bursts = 0
  BY DEF NoSession, Fresh
<1> HIDE DEF s
<1>8. Typed(s) /\ SlotsUsed(s)
  <2>1. Len(p.at) \in Nat
    BY <1>3 DEF Ready, PlanType
  <2> QED BY <1>2, <1>3, <1>4, <1>6, <1>7, <2>1 DEF Typed, SlotsUsed, Ready
<1>9. StrokesWithin(s) /\ Short(s)
  BY <1>2, <1>7 DEF StrokesWithin, Short, CountsStrokes, Larger, ConfigType
<1>10. Good(s)
  BY <1>4, <1>7, <1>8, <1>9 DEF Good, Sound, Reserved, InBurst, Counted, Placed
<1> QED BY <1>5, <1>10 DEF Inv, Start, Ask

(* A request only sets a flag or queues a configuration. *)
LEMMA RequestKept ==
  ASSUME NEW s, Good(s), NEW w \in SessionType,
         /\ w.state = s.state /\ w.config = s.config /\ w.plan = s.plan
         /\ w.strokes = s.strokes /\ w.bursts = s.bursts /\ w.since = s.since
         /\ w.target = s.target /\ w.done = s.done
  PROVE  Good(w)
BY DEF Good, Sound, Typed, SlotsUsed, StrokesWithin, CountsStrokes, Reserved,
       InBurst, Counted, Placed, Short

LEMMA RequestStep ==
  ASSUME Inv, RequestStop \/ QueueUpdate
  PROVE  Inv'
<1>1. Good(session) /\ session \in SessionType
  <2>1. Active
    BY DEF RequestStop, QueueUpdate
  <2>2. session # NoSession
    BY <2>1, NoSessionTyped DEF Active
  <2> QED BY <2>2 DEF Inv, Good, Sound, Typed
<1>2. CASE RequestStop
  <2> DEFINE w == [session EXCEPT !.stop = TRUE]
  <2>1. w \in SessionType
    BY <1>1 DEF SessionType
  <2>2. Good(w)
    BY <1>1, <2>1, RequestKept DEF SessionType
  <2> QED BY <1>2, <2>2 DEF Inv, RequestStop, Ask, Continue
<1>3. CASE QueueUpdate
  <2>1. PICK c \in UpdateConfigs, x \in Updates :
          Ask(x) /\ Continue([session EXCEPT !.pending = c]) /\ UNCHANGED elapsed
    BY <1>3 DEF QueueUpdate
  <2> DEFINE w == [session EXCEPT !.pending = c]
  <2>2. w \in SessionType
    <3>1. c \in ConfigType \cup {NoConfig}
      BY ConfigsAssumption
    <3> QED BY <1>1, <3>1 DEF SessionType
  <2>3. Good(w)
    BY <1>1, <2>2, RequestKept DEF SessionType
  <2> QED BY <2>1, <2>3 DEF Inv, Ask, Continue
<1> QED BY <1>2, <1>3

LEMMA AbortStep ==
  ASSUME Inv, Abort
  PROVE  Inv'
<1>1. Sound(session)
  BY NoSessionTyped DEF Inv, Abort, Active, Good
<1>2. After
  BY <1>1, FinishLeaves DEF Abort, Reasons
<1> QED BY <1>2 DEF Inv, After, Abort, Ask

-----------------------------------------------------------------------------
(* The theorems *)

LEMMA InitInv == Init => Inv
<1> SUFFICES ASSUME Init PROVE Inv
  OBVIOUS
<1>1. result = NoResult /\ NoResult.last = NoSession /\ NoResult.last.config = NoConfig
  BY NoSessionTyped DEF Init, NoResult
<1>2. GoodResult(result)
  BY <1>1, NoSessionTyped, NoConfigAssumption DEF GoodResult, NoResult, Reasons
<1> QED BY <1>2, BoundsAssumption DEF Init, Inv

LEMMA NextInv == Inv /\ [Next]_vars => Inv'
<1> SUFFICES ASSUME Inv, [Next]_vars PROVE Inv'
  OBVIOUS
<1>1. CASE Tick
  BY <1>1, BoundsAssumption DEF Inv, Tick
<1>2. CASE UNCHANGED vars
  BY <1>2 DEF Inv, vars
<1> QED BY <1>1, <1>2, MainPulseDoneStep, IntraPulseDoneStep, StartDelayElapsedStep,
           BurstGapPollStep, WaitingGapPollStep, StartStep, RequestStep, AbortStep
        DEF Next, RelayPoll, ExecPoll

(* The invariant holds in every state of every session. *)
LEMMA Invariance == Spec => []Inv
BY InitInv, NextInv, PTL DEF Spec

(* Every variable keeps its type, and the count of a burst event stays within
   its target however updates cut the event short
   (AutomaticSessionMode::applyPendingUpdate, startNextBurstPulse). *)
THEOREM TypeCorrect == Spec => []TypeOK
<1>1. Inv => TypeOK
  BY NoSessionTyped DEF Inv, TypeOK, GoodResult, Good, Sound, Typed
<1> QED BY <1>1, Invariance, PTL

(* Each burst event uses up one slot of the plan in force, for every
   configuration, percentage and sequence of updates (advanceBurstPlan,
   buildAutomaticBurstPlanForReplan). *)
THEOREM OneSlotEach == Spec => []SlotPerBurst
<1>1. Inv => SlotPerBurst
  BY NoSessionTyped DEF Inv, SlotPerBurst, Active, Good, Sound, SlotsUsed
<1> QED BY <1>1, Invariance, PTL

(* No session runs more main strokes than it was told, but for the one that
   follows an update (AutomaticSessionMode::poll, shouldEndSession). *)
THEOREM MainsStayWithin == Spec => []MainsWithinEnd
<1>1. Inv => MainsWithinEnd
  <2> SUFFICES ASSUME Inv PROVE MainsWithinEnd
    OBVIOUS
  <2>1. session.config # NoConfig => StrokesWithin(session)
    BY NoSessionTyped DEF Inv, Good, Sound
  <2>2. result.last.config # NoConfig => StrokesWithin(result.last)
    BY DEF Inv, GoodResult, SessionType
  <2> QED BY <2>1, <2>2 DEF MainsWithinEnd, StrokesWithin, CountsStrokes
<1> QED BY <1>1, Invariance, PTL

(* The plan is kept: a slot for each burst event and the end of the session
   where it was told, for every configuration and sequence of updates. *)
THEOREM PlanIsKept == Spec => []PlanKept
<1>1. SlotPerBurst /\ MainsWithinEnd => PlanKept
  BY DEF PlanKept
<1> QED BY <1>1, OneSlotEach, MainsStayWithin, PTL

-----------------------------------------------------------------------------
(* The spread of a session s over its strokes: how many events of the plan in
   force have run, and how many are due once n strokes are done. *)

Ran(s) == s.bursts - s.since.bursts
Due(s, n) ==
  DueBy(n - s.since.strokes, Len(s.plan.at), s.config.end - s.since.strokes)

(* Milestones spread over what was left of a session that counts its strokes
   when the plan p was made for configuration c. *)
SpreadOver(p, c, from) ==
  LET left == c.end - from
      count == Len(p.at)
  IN /\ c.rule = "strokes" /\ c.burstsOn
     /\ count \in 1..left
     /\ \A k \in 1..count : p.at[k] = from + (k * left) \div count
Planned(s) ==
  /\ s.plan.kind = "milestones" =>
       SpreadOver(s.plan, s.config, s.since.strokes) /\ s.since.strokes <= s.strokes
  /\ s.plan.kind = "deadlines" => s.config.rule = "minutes" /\ s.config.burstsOn
  /\ ~s.since.updated =>
       /\ s.since.strokes = 0 /\ s.since.bursts = 0 /\ ~s.since.midBurst
       /\ Slotted(s.plan) => Len(s.plan.at) = BurstCount(s.config.end, s.config.percent)
       /\ s.plan.kind = "deadlines" =>
            \A k \in 1..Len(s.plan.at) : s.plan.at[k] <= s.config.end * MinuteTicks

(* How far the events may be behind or ahead between strokes, while a stroke
   runs, while an event runs, and when a stroke has just come to its end. *)
Spaced(s) == s.plan.kind = "milestones" /\ ~s.since.midBurst
KeepsUp(s) == /\ Ran(s) <= Due(s, s.strokes + 1)
              /\ s.strokes > 1 => Ran(s) >= Due(s, s.strokes)
AtGap(s) == Spaced(s) =>
  IF s.plan.instead THEN KeepsUp(s) ELSE Ran(s) = Due(s, s.strokes)
AtStroke(s) ==
  /\ AtGap(s)
  /\ Spaced(s) /\ s.plan.instead /\ s.strokes > 0 => Ran(s) >= Due(s, s.strokes + 1)
AtBurst(s) == Spaced(s) =>
  IF s.plan.instead
  THEN /\ Ran(s) + 1 <= Due(s, s.strokes + 1)
       /\ s.strokes > 1 => Ran(s) >= Due(s, s.strokes)
  ELSE Ran(s) + 1 = Due(s, s.strokes)
AfterStroke(s) == Spaced(s) =>
  IF s.plan.instead THEN KeepsUp(s)
  ELSE Ran(s) <= Due(s, s.strokes) /\ Due(s, s.strokes) <= Ran(s) + 1

OnTime(s) ==
  /\ s.state \in {"StartDelay", "WaitingGap"} => AtGap(s)
  /\ s.state = "Pulse" => AtStroke(s)
  /\ InBurst(s) => AtBurst(s)
AllRun(r) ==
  r.reason = "endSession" /\ ~r.last.since.updated =>
    /\ r.last.plan.kind = "milestones" /\ (r.last.plan.instead => r.last.config.end > 1)
         => r.last.bursts = BurstCount(r.last.config.end, r.last.config.percent)
    /\ r.last.plan.kind = "deadlines" /\ r.byPoll
       /\ r.last.config.end * MinuteTicks <= MaxSession
         => r.last.bursts = BurstCount(r.last.config.end, r.last.config.percent)

Paced == /\ session = NoSession \/ (Planned(session) /\ OnTime(session))
         /\ AllRun(result)
PacedInv == Inv /\ Paced
PacedAfter == /\ session' = NoSession \/ (Planned(session') /\ OnTime(session'))
              /\ AllRun(result')

(* What is read of a session to tell its pace. *)
SamePace(s, w) ==
  /\ w.config = s.config /\ w.plan = s.plan /\ w.since = s.since
  /\ w.strokes = s.strokes /\ w.bursts = s.bursts

LEMMA PaceKept ==
  ASSUME NEW s, NEW w, SamePace(s, w)
  PROVE  /\ Planned(s) => Planned(w)
         /\ AtGap(s) => AtGap(w)
         /\ AtStroke(s) => AtStroke(w)
         /\ AtBurst(s) => AtBurst(w)
BY DEF SamePace, Planned, SpreadOver, AtGap, AtStroke, AtBurst, Spaced, KeepsUp, Ran, Due

(* A milestone is due exactly if fewer events have run than are due. *)
LEMMA SpreadFacts ==
  ASSUME NEW s, Sound(s), Planned(s), s.plan.kind = "milestones",
         NEW n \in Nat, n >= s.since.strokes
  PROVE  /\ s.config.rule = "strokes" /\ s.config.burstsOn
         /\ s.strokes \in Nat /\ s.since.strokes \in Nat /\ s.since.strokes <= s.strokes
         /\ Ran(s) \in 0..Len(s.plan.at)
         /\ Due(s, n) \in Nat /\ Due(s, n + 1) \in Nat
         /\ Due(s, n) <= Len(s.plan.at)
         /\ Due(s, n) <= Due(s, n + 1) /\ Due(s, n + 1) <= Due(s, n) + 1
         /\ n = s.since.strokes => Due(s, n) = 0
         /\ n >= s.config.end => Due(s, n) = Len(s.plan.at)
         /\ \A roll \in BOOLEAN :
              DueAt(s.plan, s.config, n, roll) <=> Ran(s) < Due(s, n)
<1> DEFINE from == s.since.strokes
           end == s.config.end
           count == Len(s.plan.at)
           left == end - from
           x == n - from
<1>1. /\ s.config.rule = "strokes" /\ s.config.burstsOn
      /\ count \in 1..left /\ from <= s.strokes
  BY DEF Planned, SpreadOver
<1>2. \A k \in 1..count : s.plan.at[k] = from + (k * left) \div count
  BY DEF Planned, SpreadOver
<1>3. /\ from \in Nat /\ s.strokes \in Nat /\ end \in Nat
      /\ s.bursts \in Nat /\ s.since.bursts \in Nat /\ s.plan.next \in Nat /\ count \in Nat
  BY DEF Sound, Typed, SessionType, PlanType, ConfigType
<1>4. s.plan.next = Ran(s) /\ s.plan.next <= count
  BY DEF Sound, SlotsUsed, Slotted, Ran
<1>5. /\ Due(s, n) = DueBy(x, count, left)
      /\ Due(s, n + 1) = DueBy((n + 1) - from, count, left)
  BY DEF Due
<1>6. n >= from /\ s.since.strokes = from /\ s.config.end = end
  OBVIOUS
<1> HIDE DEF from, end, count
<1>7. left \in Nat \ {0} /\ x \in Nat /\ x + 1 \in Nat /\ (n + 1) - from = x + 1
  BY <1>1, <1>3, <1>6
<1>8. (n = from => x = 0) /\ (n >= end => x >= left) /\ n = from + x
  BY <1>3
<1> HIDE DEF left, x
<1>9. ASSUME NEW m \in 1..count
      PROVE  n >= s.plan.at[m] <=> m <= DueBy(x, count, left)
  <2>1. s.plan.at[m] = from + (m * left) \div count
    BY <1>2
  <2>2. m * left \in Nat
    BY <1>3, <1>7, SMTT(20)
  <2> DEFINE a == m * left
             d == a \div count
  <2>3. count \in Nat \ {0} /\ a \in Nat
    BY <1>3, <2>2
  <2>4. d <= x <=> m <= DueBy(x, count, left)
    BY <1>7, <2>3, MilestoneDue
  <2> HIDE DEF a
  <2>5. d \in Nat
    BY <2>3, Division
  <2>6. s.plan.at[m] = from + d
    BY <2>1 DEF a
  <2> HIDE DEF d
  <2> QED BY <1>3, <1>7, <1>8, <2>4, <2>5, <2>6
<1>10. /\ DueBy(x, count, left) \in 0..count
       /\ DueBy(0, count, left) = 0
       /\ DueBy(x, count, left) <= DueBy(x + 1, count, left)
       /\ DueBy(x + 1, count, left) <= DueBy(x, count, left) + 1
       /\ x >= left => DueBy(x, count, left) = count
       /\ DueBy(x + 1, count, left) \in 0..count
  BY <1>1, <1>7, DueByGrows
<1>11. Due(s, n + 1) = DueBy(x + 1, count, left)
  BY <1>5, <1>7
<1>12. ASSUME NEW roll \in BOOLEAN
       PROVE  DueAt(s.plan, s.config, n, roll) <=> Ran(s) < Due(s, n)
  <2>1. DueAt(s.plan, s.config, n, roll)
          <=> s.plan.next < count /\ n >= s.plan.at[s.plan.next + 1]
    BY DEF DueAt, HasSlot, Slot, count
  <2>2. s.plan.next < count => s.plan.next + 1 \in 1..count
    BY <1>3
  <2>3. s.plan.next < count =>
          (n >= s.plan.at[s.plan.next + 1] <=> s.plan.next + 1 <= DueBy(x, count, left))
    BY <1>9, <2>2
  <2> QED BY <1>3, <1>4, <1>5, <1>10, <2>1, <2>3
<1>13. Ran(s) \in 0..count
  BY <1>3, <1>4
<1>14. Len(s.plan.at) = count
  BY DEF count
<1>15. /\ Due(s, n) \in 0..count /\ Due(s, n + 1) \in 0..count
       /\ Due(s, n) <= Due(s, n + 1) /\ Due(s, n + 1) <= Due(s, n) + 1
  BY <1>5, <1>10, <1>11
<1>16. n = s.since.strokes => Due(s, n) = 0
  BY <1>5, <1>6, <1>8, <1>10
<1>17. n >= s.config.end => Due(s, n) = Len(s.plan.at)
  BY <1>5, <1>6, <1>8, <1>10, <1>14
<1>18. s.since.strokes \in Nat /\ s.since.strokes <= s.strokes
  BY <1>1, <1>3, <1>6
<1> QED BY <1>1, <1>3, <1>12, <1>13, <1>14, <1>15, <1>16, <1>17, <1>18

-----------------------------------------------------------------------------
(* The plans *)

(* A session's first plan is spread over all of it. *)
LEMMA BuildPlanSpread ==
  ASSUME NEW c \in ConfigType
  PROVE  /\ BuildPlan(c).kind = "milestones" => SpreadOver(BuildPlan(c), c, 0)
         /\ BuildPlan(c).kind = "deadlines" =>
              /\ c.rule = "minutes" /\ c.burstsOn
              /\ \A k \in 1..Len(BuildPlan(c).at) : BuildPlan(c).at[k] <= c.end * MinuteTicks
         /\ Slotted(BuildPlan(c)) => Len(BuildPlan(c).at) = BurstCount(c.end, c.percent)
<1> DEFINE p == BuildPlan(c)
           count == BurstCount(c.end, c.percent)
<1>1. p.kind = PlanKind(c)
  BY DEF BuildPlan
<1>2. c.end \in Nat /\ c.percent \in 0..100 /\ c.rule \in Rules
  BY DEF ConfigType
<1>3. Slotted(p) => /\ c.burstsOn /\ c.end # 0 /\ count # 0
                    /\ p.kind = "milestones" => c.rule = "strokes"
                    /\ p.kind = "deadlines" => c.rule = "minutes"
  BY <1>1, <1>2 DEF PlanKind, Slotted, Rules
<1>4. count \in 0..c.end
  BY <1>2, ShareWithin
<1>5. /\ p.kind = "milestones" => p.at = Milestones(c.end, count)
      /\ p.kind = "deadlines" => p.at = Deadlines(c.end, count)
  BY DEF BuildPlan
<1> HIDE DEF p, count
<1>6. ASSUME Slotted(p)
      PROVE  c.end \in Nat \ {0} /\ count \in 1..c.end /\ Len(p.at) = count
  <2>1. c.end \in Nat \ {0} /\ count \in 1..c.end
    BY <1>2, <1>3, <1>4, <1>6
  <2>2. Len(Milestones(c.end, count)) = count /\ Len(Deadlines(c.end, count)) = count
    BY <2>1, SlotsAhead
  <2> QED BY <1>5, <1>6, <2>1, <2>2 DEF Slotted
<1>7. ASSUME p.kind = "milestones"
      PROVE  SpreadOver(p, c, 0)
  <2>1. c.end \in Nat \ {0} /\ count \in 1..c.end /\ Len(p.at) = count
    BY <1>6, <1>7 DEF Slotted
  <2>2. ASSUME NEW k \in 1..count
        PROVE  p.at[k] = 0 + (k * c.end) \div count
    <3>1. k * c.end \in Nat /\ 1 * c.end <= k * c.end
      BY <2>1, SMTT(20)
    <3> DEFINE a == k * c.end
    <3>2. a \in Nat /\ count \in Nat \ {0} /\ count <= a
      BY <2>1, <3>1
    <3> HIDE DEF a
    <3>3. a \div count \in Nat /\ a \div count >= 1
      BY <3>2, Division
    <3>4. p.at[k] = Larger(1, a \div count)
      BY <1>5, <1>7, <2>1 DEF Milestones, a
    <3> DEFINE d == a \div count
    <3>5. d \in Nat /\ d >= 1 /\ p.at[k] = Larger(1, d)
      BY <3>3, <3>4
    <3> HIDE DEF d
    <3>6. p.at[k] = d /\ d = 0 + d
      BY <3>5 DEF Larger
    <3> QED BY <3>6 DEF d, a
  <2>3. c.end - 0 = c.end
    BY <2>1
  <2> QED BY <1>3, <1>7, <2>1, <2>2, <2>3 DEF SpreadOver, Slotted
<1>8. ASSUME p.kind = "deadlines", NEW k \in 1..count
      PROVE  p.at[k] <= c.end * MinuteTicks
  <2>1. c.end \in Nat \ {0} /\ count \in 1..c.end
    BY <1>6, <1>8 DEF Slotted
  <2> DEFINE e == c.end * MinuteTicks
             a == k * c.end * MinuteTicks
             d == a \div count
  <2>2. e \in Nat
    BY <2>1, MinuteTicksAssumption, SMTT(20)
  <2>3. a = k * e
    BY <2>1, MinuteTicksAssumption, SMTT(20)
  <2>4. p.at[k] = d
    BY <1>5, <1>8, <2>1 DEF Deadlines
  <2> HIDE DEF e
  <2>5. a \in Nat /\ a <= count * e /\ a < (e + 1) * count
    <3>1. k * e \in Nat /\ k * e <= count * e
      BY <2>1, <2>2, SMTT(20)
    <3>2. (e + 1) * count = count * e + count /\ count * e \in Nat
      BY <2>1, <2>2, SMTT(20)
    <3> QED BY <2>1, <2>3, <3>1, <3>2
  <2> HIDE DEF a
  <2>6. count \in Nat \ {0} /\ e + 1 \in Nat
    BY <2>1, <2>2
  <2>7. d \in Nat /\ (e + 1 <= d <=> (e + 1) * count <= a)
    BY <2>5, <2>6, Floors
  <2> DEFINE f == (e + 1) * count
  <2>8. f \in Nat /\ a \in Nat /\ a < f /\ d \in Nat /\ (e + 1 <= d <=> f <= a)
    BY <2>5, <2>6, <2>7, SMTT(20)
  <2> HIDE DEF d, f
  <2>9. d <= e
    BY <2>2, <2>8
  <2> QED BY <2>4, <2>9 DEF e
<1> QED BY <1>3, <1>6, <1>7, <1>8 DEF p, count, Slotted

(* The plan that an update makes is spread over what is left. *)
LEMMA ReplanSpread ==
  ASSUME NEW c \in ConfigType, NEW strokes \in Nat, NEW time \in Nat
  PROVE  LET p == Replan(c, strokes, time) IN
         /\ p.kind = "milestones" => SpreadOver(p, c, strokes)
         /\ p.kind = "deadlines" => c.rule = "minutes" /\ c.burstsOn
<1> DEFINE rest == Remaining(c, strokes, time)
           left == [c EXCEPT !.end = rest]
           b == BuildPlan(left)
           p == Replan(c, strokes, time)
<1>1. rest \in Nat
  <2>1. time \div MinuteTicks \in Nat
    BY Division, MinuteTicksAssumption
  <2> QED BY <2>1 DEF Remaining, Larger, ConfigType
<1>2. left \in ConfigType /\ left.end = rest /\ left.rule = c.rule /\ left.burstsOn = c.burstsOn
  BY <1>1 DEF ConfigType
<1>3. Ready(b) /\ Ahead(b)
  BY <1>2, BuildPlanReady
<1>4. /\ b.kind = "milestones" => SpreadOver(b, left, 0)
      /\ b.kind = "deadlines" => left.rule = "minutes" /\ left.burstsOn
  BY <1>2, BuildPlanSpread
<1>5. p = IF b.kind = "milestones" THEN Shift(b, strokes)
          ELSE IF b.kind = "deadlines" THEN Shift(b, time)
          ELSE IF b.kind = "stride"
               THEN [b EXCEPT !.trigger = b.trigger * (strokes \div b.stride + 1)]
          ELSE b
  BY DEF Replan
<1> HIDE DEF b, p
<1>6. \A by \in Nat : Shift(b, by).kind = b.kind
                      /\ Shift(b, by).at = [k \in DOMAIN b.at |-> b.at[k] + by]
  BY <1>3 DEF Shift, Ready, PlanType
<1>7. p.kind = b.kind
  BY <1>3, <1>5, <1>6 DEF Ready, PlanType
<1>8. ASSUME b.kind = "milestones"
      PROVE  SpreadOver(p, c, strokes)
  <2> DEFINE count == Len(b.at)
  <2>1. /\ c.rule = "strokes" /\ c.burstsOn /\ count \in 1..(rest - 0)
        /\ \A k \in 1..count : b.at[k] = 0 + (k * (rest - 0)) \div count
    BY <1>2, <1>4, <1>8 DEF SpreadOver
  <2>2. c.end \in Nat /\ rest = Larger(0, c.end - strokes)
    BY <2>1 DEF ConfigType, Remaining
  <2> HIDE DEF rest
  <2>3. rest - 0 = rest /\ rest = c.end - strokes
    BY <1>1, <2>1, <2>2 DEF Larger
  <2>4. DOMAIN b.at = 1..count /\ count \in Nat
    BY <1>3 DEF Ready, PlanType
  <2>5. p.at = [k \in 1..count |-> b.at[k] + strokes]
    BY <1>5, <1>6, <1>8, <2>4
  <2>6. Len(p.at) = count
    BY <2>4, <2>5
  <2>7. ASSUME NEW k \in 1..count
        PROVE  p.at[k] = strokes + (k * rest) \div count
    <3>1. k * rest \in Nat
      BY <1>1, <2>4, SMTT(20)
    <3> DEFINE a == k * rest
               d == a \div count
    <3>2. a \in Nat /\ count \in Nat \ {0}
      BY <2>1, <2>4, <3>1
    <3>3. b.at[k] = 0 + d
      BY <2>1, <2>3
    <3> HIDE DEF a
    <3>4. d \in Nat
      BY <3>2, Division
    <3> HIDE DEF d
    <3>5. p.at[k] = strokes + d
      BY <2>5, <3>3, <3>4
    <3> QED BY <3>5 DEF d, a
  <2> QED BY <2>1, <2>3, <2>6, <2>7 DEF SpreadOver
<1> QED BY <1>2, <1>4, <1>7, <1>8 DEF p

-----------------------------------------------------------------------------
(* The pace of a session, step by step *)

(* An update that is applied makes the plan anew from what is done; while an
   event runs, the slots are no longer spread from where the session is. *)
LEMMA UpdatedPaced ==
  ASSUME Inv, NEW s, Sound(s), Planned(s)
  PROVE  LET u == Updated(s) IN
         /\ Planned(u)
         /\ \/ u = s
            \/ /\ u.since.updated /\ u.since.midBurst = InBurst(s)
               /\ u.since.strokes = u.strokes /\ u.since.bursts = u.bursts
<1>1. CASE s.pending = NoConfig
  BY <1>1 DEF Updated
<1>2. CASE s.pending # NoConfig
  <2> DEFINE p == Replan(s.pending, s.strokes, elapsed)
             since == [strokes |-> s.strokes, bursts |-> s.bursts,
                       updated |-> TRUE, midBurst |-> InBurst(s)]
             u == [s EXCEPT !.config = s.pending, !.pending = NoConfig,
                            !.plan = p, !.since = since]
             w == [u EXCEPT !.state = "WaitingGap", !.target = 0, !.done = 0]
  <2>1. s.pending \in ConfigType /\ s.strokes \in Nat /\ s.bursts \in Nat /\ elapsed \in Nat
    BY <1>2 DEF Sound, Typed, SessionType, Inv
  <2>2. /\ p.kind = "milestones" => SpreadOver(p, s.pending, s.strokes)
        /\ p.kind = "deadlines" => s.pending.rule = "minutes" /\ s.pending.burstsOn
    BY <2>1, ReplanSpread
  <2>3. Updated(s) = IF InBurst(s) /\ ~u.config.burstsOn THEN w ELSE u
    BY <1>2, Zenon DEF Updated
  <2>4. /\ since.strokes = s.strokes /\ since.bursts = s.bursts
        /\ since.updated = TRUE /\ since.midBurst = InBurst(s)
    OBVIOUS
  <2> HIDE DEF p, since
  <2>5. /\ u.config = s.pending /\ u.plan = p /\ u.since = since
        /\ u.strokes = s.strokes /\ u.bursts = s.bursts
        /\ w.config = s.pending /\ w.plan = p /\ w.since = since
        /\ w.strokes = s.strokes /\ w.bursts = s.bursts
    BY DEF Sound, Typed, SessionType
  <2> HIDE DEF u, w
  <2>6. Planned(u) /\ Planned(w)
    BY <2>1, <2>2, <2>4, <2>5 DEF Planned
  <2> QED BY <2>3, <2>4, <2>5, <2>6
<1> QED BY <1>1, <1>2

(* Right after an update between strokes nothing is due and nothing has run. *)
LEMMA UpdateRestarts ==
  ASSUME NEW s, Sound(s), Planned(s),
         s.since.strokes = s.strokes, s.since.bursts = s.bursts
  PROVE  AtGap(s) /\ AfterStroke(s)
<1> SUFFICES ASSUME Spaced(s) PROVE KeepsUp(s) /\ Ran(s) = Due(s, s.strokes)
                                   /\ Due(s, s.strokes) \in Nat
  BY DEF AtGap, AfterStroke
<1>1. s.strokes \in Nat /\ s.bursts \in Nat
  BY DEF Sound, Typed, SessionType
<1>2. /\ Due(s, s.strokes) = 0 /\ Due(s, s.strokes + 1) \in Nat
  BY <1>1, SpreadFacts DEF Spaced
<1>3. Ran(s) = 0
  BY <1>1 DEF Ran
<1> QED BY <1>2, <1>3 DEF KeepsUp

LEMMA FinishPaced ==
  ASSUME NEW s, NEW reason, reason # "endSession", NEW poll, Finish(s, reason, poll)
  PROVE  PacedAfter
BY DEF Finish, PacedAfter, AllRun

LEMMA ContinuePaced ==
  ASSUME NEW s, Planned(s), OnTime(s), AllRun(result), Continue(s)
  PROVE  PacedAfter
BY DEF Continue, PacedAfter

(* At the end of a session that counts its strokes, all events have run. *)
LEMMA AllRunAtEnd ==
  ASSUME NEW s, Sound(s), Planned(s), AtGap(s), ShouldEnd(s), ~s.since.updated,
         s.plan.kind = "milestones", s.plan.instead => s.config.end > 1
  PROVE  s.bursts = BurstCount(s.config.end, s.config.percent)
<1>1. /\ s.since.bursts = 0 /\ ~s.since.midBurst /\ Slotted(s.plan)
      /\ Len(s.plan.at) = BurstCount(s.config.end, s.config.percent)
  BY DEF Planned, Slotted
<1>2. s.strokes \in Nat /\ s.bursts \in Nat /\ s.config.end \in Nat
  BY DEF Sound, Typed, SessionType, ConfigType
<1>3. s.since.strokes <= s.strokes
  BY DEF Planned
<1>4. s.config.rule = "strokes"
  BY <1>2, <1>3, SpreadFacts
<1>5. s.strokes >= s.config.end
  BY <1>4 DEF ShouldEnd
<1>6. Due(s, s.strokes) = Len(s.plan.at) /\ Ran(s) \in 0..Len(s.plan.at)
  BY <1>2, <1>3, <1>5, SpreadFacts
<1>7. Len(s.plan.at) \in Nat
  BY DEF Sound, Typed, SessionType, PlanType
<1>8. Ran(s) = Len(s.plan.at)
  <2>1. CASE s.plan.instead
    <3>1. s.strokes > 1
      BY <1>2, <1>5, <2>1
    <3>2. Ran(s) >= Due(s, s.strokes)
      BY <1>1, <2>1, <3>1 DEF AtGap, Spaced, KeepsUp
    <3> QED BY <1>6, <1>7, <3>2
  <2>2. CASE ~s.plan.instead
    BY <1>1, <1>6, <2>2 DEF AtGap, Spaced
  <2> QED BY <2>1, <2>2
<1> QED BY <1>1, <1>2, <1>8 DEF Ran

LEMMA EndPaced ==
  ASSUME NEW s, Sound(s), Planned(s), AtGap(s), ShouldEnd(s),
         Finish(s, "endSession", FALSE)
  PROVE  PacedAfter
<1>1. result'.last = s /\ result'.byPoll = FALSE /\ session' = NoSession
  BY DEF Finish
<1>2. AllRun(result')
  BY <1>1, AllRunAtEnd DEF AllRun
<1> QED BY <1>1, <1>2 DEF PacedAfter

(* A poll ends the session by its clock only when no deadline is left. *)
LEMMA EndByPollPaced ==
  ASSUME Inv, NEW s, Sound(s), Planned(s), AtGap(s), ShouldEnd(s),
         ~(s.config.burstsOn /\ DueInGap(s.plan, elapsed)),
         Finish(s, "endSession", TRUE)
  PROVE  PacedAfter
<1>1. result'.last = s /\ session' = NoSession
  BY DEF Finish
<1>2. ASSUME ~s.since.updated, s.plan.kind = "deadlines",
             s.config.end * MinuteTicks <= MaxSession
      PROVE  s.bursts = BurstCount(s.config.end, s.config.percent)
  <2>1. /\ s.config.rule = "minutes" /\ s.config.burstsOn /\ s.since.bursts = 0
        /\ Len(s.plan.at) = BurstCount(s.config.end, s.config.percent)
        /\ \A k \in 1..Len(s.plan.at) : s.plan.at[k] <= s.config.end * MinuteTicks
    BY <1>2 DEF Planned, Slotted
  <2>2. /\ s.config.end \in Nat /\ s.bursts \in Nat /\ s.plan.next \in Nat
        /\ Len(s.plan.at) \in Nat /\ s.plan.at \in Seq(Nat) /\ elapsed \in Nat
    BY DEF Sound, Typed, SessionType, PlanType, ConfigType, Inv
  <2> DEFINE e == s.config.end * MinuteTicks
  <2>3. e \in Nat
    BY <2>2, MinuteTicksAssumption, SMTT(20)
  <2>4. elapsed >= e
    <3>1. elapsed >= Smaller(e, MaxSession)
      BY <2>1 DEF ShouldEnd
    <3>2. e <= MaxSession
      BY <1>2
    <3> HIDE DEF e
    <3> QED BY <2>3, <3>1, <3>2, BoundsAssumption DEF Smaller
  <2>5. s.plan.next < Len(s.plan.at) => s.plan.at[s.plan.next + 1] <= e
                                        /\ s.plan.at[s.plan.next + 1] \in Nat
    <3>1. s.plan.next < Len(s.plan.at) => s.plan.next + 1 \in 1..Len(s.plan.at)
      BY <2>2
    <3> QED BY <2>1, <2>2, <3>1
  <2> HIDE DEF e
  <2>6. ~(s.plan.next < Len(s.plan.at))
    <3> DEFINE slot == s.plan.at[s.plan.next + 1]
    <3>1. ~(s.plan.next < Len(s.plan.at) /\ elapsed >= slot)
      BY <1>2, <2>1 DEF DueInGap, HasSlot, Slot
    <3>2. s.plan.next < Len(s.plan.at) => slot \in Nat /\ slot <= e
      BY <2>5
    <3> HIDE DEF slot
    <3> QED BY <2>2, <2>3, <2>4, <3>1, <3>2
  <2>7. s.plan.next = s.bursts - s.since.bursts /\ s.plan.next <= Len(s.plan.at)
    BY <1>2 DEF Sound, SlotsUsed, Slotted
  <2> QED BY <2>1, <2>2, <2>6, <2>7
<1>3. AllRun(result')
  BY <1>1, <1>2, AllRunAtEnd DEF AllRun
<1> QED BY <1>1, <1>3 DEF PacedAfter

LEMMA StatePaced ==
  ASSUME NEW s, Sound(s), Planned(s), NEW st \in States \ {"Idle"}
  PROVE  LET w == [s EXCEPT !.state = st] IN
         /\ Planned(w) /\ w.state = st
         /\ AtGap(s) => AtGap(w)
         /\ AtStroke(s) => AtStroke(w)
         /\ AtBurst(s) => AtBurst(w)
<1> DEFINE w == [s EXCEPT !.state = st]
<1>1. SamePace(s, w) /\ w.state = st
  BY DEF Sound, Typed, SessionType, SamePace
<1> HIDE DEF w
<1> QED BY <1>1, PaceKept DEF w

LEMMA StopEndOrWaitPaced ==
  ASSUME NEW s, Sound(s), Planned(s), AtGap(s), AllRun(result), StopEndOrWait(s, FALSE)
  PROVE  PacedAfter
<1> DEFINE w == [s EXCEPT !.state = "WaitingGap"]
<1>1. Planned(w) /\ OnTime(w)
  BY StatePaced DEF States, OnTime, InBurst
<1> HIDE DEF w
<1>2. \/ Finish(s, "manualStop", FALSE)
      \/ ShouldEnd(s) /\ Finish(s, "endSession", FALSE)
      \/ Continue(w)
  BY DEF StopEndOrWait, w
<1> QED BY <1>1, <1>2, FinishPaced, EndPaced, ContinuePaced

LEMMA MainPulsePaced ==
  ASSUME NEW s, Sound(s), Planned(s), AtStroke(s), AllRun(result), MainPulse(s)
  PROVE  PacedAfter
<1> DEFINE w == [s EXCEPT !.state = "Pulse"]
<1>1. Planned(w) /\ OnTime(w)
  BY StatePaced DEF States, OnTime, InBurst
<1> QED BY <1>1, ContinuePaced DEF MainPulse

LEMMA IntraPulsePaced ==
  ASSUME NEW s, Sound(s), Planned(s), AtBurst(s), AllRun(result),
         NEW st \in {"BurstPulse", "BurstGap"}, Continue([s EXCEPT !.state = st])
  PROVE  PacedAfter
<1> DEFINE w == [s EXCEPT !.state = st]
<1>1. Planned(w) /\ OnTime(w)
  BY StatePaced DEF States, OnTime, InBurst
<1> HIDE DEF w
<1> QED BY <1>1, ContinuePaced DEF w

LEMMA BeginBurstPaced ==
  ASSUME NEW s, Sound(s), Planned(s), AtBurst(s), AllRun(result), BeginBurstEvent(s)
  PROVE  PacedAfter
<1>1. PICK n \in 1..MaxBurstStrokes : IntraPulse([s EXCEPT !.target = n, !.done = 0])
  BY DEF BeginBurstEvent
<1> DEFINE b == [s EXCEPT !.target = n, !.done = 0]
           w == [b EXCEPT !.state = "BurstPulse"]
<1>2. SamePace(s, w) /\ w.state = "BurstPulse"
  BY DEF Sound, Typed, SessionType, SamePace
<1>3. Continue(w)
  BY <1>1 DEF IntraPulse
<1> HIDE DEF w
<1>4. Planned(w) /\ OnTime(w)
  BY <1>2, PaceKept DEF OnTime, InBurst
<1> QED BY <1>3, <1>4, ContinuePaced

(* An event that has run was the one that was due. *)
LEMMA FinishBurstPaced ==
  ASSUME NEW s, Sound(s), Reserved(s), InBurst(s), Planned(s), AtBurst(s),
         AllRun(result), FinishBurstEvent(s)
  PROVE  PacedAfter
<1> DEFINE p == Advance(s.plan)
           t == [s EXCEPT !.bursts = @ + 1, !.plan = Advance(@)]
<1>1. StopEndOrWait(t, FALSE)
  BY DEF FinishBurstEvent
<1>2. Sound(t) /\ t.config = s.config
  BY FinishedSound
<1>3. s \in SessionType /\ s.plan \in PlanType
  BY DEF Sound, Typed, SessionType
<1>4. p.kind = s.plan.kind /\ p.instead = s.plan.instead /\ p.at = s.plan.at
  BY <1>3 DEF PlanType, Advance
<1> HIDE DEF p
<1>5. /\ t.plan = p /\ t.since = s.since
      /\ t.strokes = s.strokes /\ t.bursts = s.bursts + 1
  BY <1>3 DEF SessionType, p
<1> HIDE DEF t
<1>6. Planned(t)
  BY <1>2, <1>4, <1>5 DEF Planned, SpreadOver, Slotted
<1>7. AtGap(t)
  <2> SUFFICES ASSUME Spaced(t)
               PROVE  IF t.plan.instead THEN KeepsUp(t) ELSE Ran(t) = Due(t, t.strokes)
    BY DEF AtGap
  <2>1. Spaced(s) /\ (t.plan.instead <=> s.plan.instead) /\ s.plan.kind = "milestones"
    BY <1>4, <1>5 DEF Spaced
  <2>2. s.bursts \in Nat /\ s.since.bursts \in Nat /\ s.strokes \in Nat
    BY <1>3 DEF SessionType
  <2>3. s.since.strokes <= s.strokes
    BY <2>1 DEF Planned
  <2>4. Due(s, s.strokes) \in Nat /\ Due(s, s.strokes + 1) \in Nat
    BY <2>1, <2>2, <2>3, SpreadFacts
  <2>5. Ran(t) = Ran(s) + 1 /\ Ran(s) \in Int
    BY <1>5, <2>2 DEF Ran
  <2>6. Due(t, t.strokes) = Due(s, s.strokes) /\ Due(t, t.strokes + 1) = Due(s, s.strokes + 1)
    BY <1>2, <1>4, <1>5 DEF Due
  <2> QED BY <1>5, <2>1, <2>4, <2>5, <2>6 DEF AtBurst, KeepsUp
<1> QED BY <1>1, <1>2, <1>6, <1>7, StopEndOrWaitPaced

-----------------------------------------------------------------------------
(* The actions keep the pace *)

LEMMA MainPulseDonePaced ==
  ASSUME PacedInv, MainPulseDone
  PROVE  PacedAfter
<1> DEFINE s == [session EXCEPT !.strokes = @ + 1]
           u == Updated(s)
<1>1. /\ Inv /\ Good(session) /\ session.state = "Pulse"
      /\ Planned(session) /\ AtStroke(session) /\ AllRun(result)
  BY NoSessionTyped DEF MainPulseDone, PacedInv, Paced, Inv, OnTime
<1>2. Finish(s, "error", FALSE) \/ BurstAfterMain(u)
  BY DEF MainPulseDone
<1>3. Sound(s) /\ s.state = "Pulse"
  BY <1>1, StrokeCounted
<1>4. Sound(session) /\ session.strokes \in Nat
  BY <1>1 DEF Good, Sound, Typed, SessionType
<1>5. /\ s.config = session.config /\ s.plan = session.plan /\ s.since = session.since
      /\ s.strokes = session.strokes + 1 /\ s.bursts = session.bursts
  BY <1>4 DEF Sound, Typed, SessionType
<1> HIDE DEF s
<1>6. Planned(s)
  <2>1. session.since.strokes \in Nat
    BY <1>4 DEF Sound, Typed, SessionType
  <2> QED BY <1>1, <1>4, <1>5, <2>1 DEF Planned, SpreadOver
<1>7. AfterStroke(s)
  <2> SUFFICES ASSUME Spaced(s)
               PROVE  IF s.plan.instead THEN KeepsUp(s)
                      ELSE Ran(s) <= Due(s, s.strokes) /\ Due(s, s.strokes) <= Ran(s) + 1
    BY DEF AfterStroke
  <2>1. Spaced(session) /\ session.plan.kind = "milestones"
    BY <1>5 DEF Spaced
  <2>2. session.since.strokes \in Nat /\ session.since.strokes <= session.strokes
    BY <1>1, <1>4, <2>1, SpreadFacts DEF Planned
  <2>3. /\ \A n \in Nat : Due(s, n) = Due(session, n)
        /\ Ran(s) = Ran(session)
    BY <1>5 DEF Due, Ran
  <2> DEFINE n == session.strokes
             d == Due(session, n)
             e == Due(session, n + 1)
             f == Due(session, (n + 1) + 1)
  <2>4. d \in Nat /\ e \in Nat /\ d <= e /\ e <= d + 1 /\ Ran(session) \in Int
    BY <1>1, <1>4, <2>1, <2>2, SpreadFacts
  <2>5. f \in Nat /\ e <= f
    <3>1. n + 1 \in Nat /\ n + 1 >= session.since.strokes
      BY <1>4, <2>2
    <3> QED BY <1>1, <1>4, <2>1, <3>1, SpreadFacts
  <2>6. Due(s, s.strokes) = e /\ Due(s, s.strokes + 1) = f
    BY <1>4, <1>5, <2>3
  <2>7. session.plan.instead => /\ Ran(session) <= e
                                /\ n > 0 => Ran(session) >= e
    BY <1>1, <2>1 DEF AtStroke, AtGap, KeepsUp
  <2>8. ~session.plan.instead => Ran(session) = d
    BY <1>1, <2>1 DEF AtStroke, AtGap
  <2> HIDE DEF d, e, f
  <2>9. s.strokes > 1 => n > 0
    BY <1>4, <1>5
  <2> QED BY <1>5, <2>3, <2>4, <2>5, <2>6, <2>7, <2>8, <2>9 DEF KeepsUp
<1>8. Sound(u) /\ Planned(u)
  BY <1>1, <1>3, <1>6, UpdatedSound, UpdatedPaced
<1>9. AfterStroke(u)
  <2>1. u = s \/ (u.since.strokes = u.strokes /\ u.since.bursts = u.bursts)
    BY <1>1, <1>3, <1>6, UpdatedPaced
  <2> HIDE DEF u
  <2> QED BY <1>7, <1>8, <2>1, UpdateRestarts
<1> HIDE DEF u
<1>10. u.strokes \in Nat /\ u.since.strokes \in Nat /\ u.plan.instead \in BOOLEAN
  BY <1>8 DEF Sound, Typed, SessionType, PlanType
<1>11. ASSUME Spaced(u)
       PROVE  /\ u.config.burstsOn /\ Ran(u) \in Int /\ Due(u, u.strokes) \in Nat
              /\ \A roll \in BOOLEAN :
                   DueAt(u.plan, u.config, u.strokes, roll) <=> Ran(u) < Due(u, u.strokes)
  <2>1. u.plan.kind = "milestones" /\ u.strokes >= u.since.strokes
    BY <1>8, <1>10, <1>11 DEF Spaced, Planned
  <2> QED BY <1>8, <1>10, <2>1, SpreadFacts
<1>12. PICK roll \in BOOLEAN :
         \/ Finish(s, "error", FALSE)
         \/ DueAfterMain(u.plan, u.config, u.strokes, roll) /\ BeginBurstEvent(u)
         \/ ~(u.config.burstsOn /\ DueAfterMain(u.plan, u.config, u.strokes, roll))
            /\ StopEndOrWait(u, FALSE)
  BY <1>2 DEF BurstAfterMain
<1>13. CASE Finish(s, "error", FALSE)
  BY <1>13, FinishPaced
<1>14. CASE DueAfterMain(u.plan, u.config, u.strokes, roll) /\ BeginBurstEvent(u)
  <2>1. AtBurst(u)
    BY <1>9, <1>11, <1>14 DEF DueAfterMain, AtBurst, AfterStroke
  <2> QED BY <1>1, <1>8, <1>14, <2>1, BeginBurstPaced
<1>15. CASE ~(u.config.burstsOn /\ DueAfterMain(u.plan, u.config, u.strokes, roll))
            /\ StopEndOrWait(u, FALSE)
  <2>1. AtGap(u)
    BY <1>9, <1>11, <1>15 DEF DueAfterMain, AtGap, AfterStroke
  <2> QED BY <1>1, <1>8, <1>15, <2>1, StopEndOrWaitPaced
<1> QED BY <1>12, <1>13, <1>14, <1>15

LEMMA IntraPulseDonePaced ==
  ASSUME PacedInv, IntraPulseDone
  PROVE  PacedAfter
<1> DEFINE s == [session EXCEPT !.done = @ + 1]
           u == Updated(s)
<1>1. /\ Inv /\ Good(session) /\ session.state = "BurstPulse"
      /\ Planned(session) /\ AtBurst(session) /\ AllRun(result)
  BY NoSessionTyped DEF IntraPulseDone, PacedInv, Paced, Inv, OnTime, InBurst
<1>2. \/ Finish(s, "error", FALSE)
      \/ u.state = "WaitingGap" /\ StopEndOrWait(u, FALSE)
      \/ u.state # "WaitingGap" /\ FinishBurstEvent(u)
      \/ \E st \in {"BurstPulse", "BurstGap"} : Continue([u EXCEPT !.state = st])
  BY DEF IntraPulseDone, IntraPulse
<1>3. Sound(s) /\ Reserved(s) /\ s.state = "BurstPulse"
  BY <1>1, PulseCounted
<1>4. SamePace(session, s)
  BY <1>1 DEF Good, Sound, Typed, SessionType, SamePace
<1> HIDE DEF s
<1>5. Planned(s) /\ AtBurst(s)
  BY <1>1, <1>4, PaceKept
<1>6. /\ Sound(u) /\ Planned(u) /\ Reserved(u)
      /\ u.state # "WaitingGap" => InBurst(u)
  BY <1>1, <1>3, <1>5, UpdatedSound, UpdatedPaced DEF InBurst
<1>7. u = s \/ ~Spaced(u)
  BY <1>1, <1>3, <1>5, UpdatedPaced DEF InBurst, Spaced
<1> HIDE DEF u
<1>8. AtBurst(u)
  BY <1>5, <1>7 DEF AtBurst
<1>9. u.state = "WaitingGap" => AtGap(u)
  BY <1>3, <1>7 DEF AtGap
<1> QED BY <1>1, <1>2, <1>6, <1>8, <1>9, FinishPaced, StopEndOrWaitPaced,
           FinishBurstPaced, IntraPulsePaced

LEMMA StartDelayElapsedPaced ==
  ASSUME PacedInv, StartDelayElapsed
  PROVE  PacedAfter
<1> DEFINE u == Updated(session)
<1>1. /\ Inv /\ Good(session) /\ session.state = "StartDelay"
      /\ Planned(session) /\ AtGap(session) /\ AllRun(result)
  BY NoSessionTyped DEF StartDelayElapsed, PacedInv, Paced, Inv, OnTime
<1>2. Finish(session, "error", TRUE) \/ MainPulse(u)
  BY DEF StartDelayElapsed
<1>3. Sound(session) /\ session.strokes = 0
  BY <1>1 DEF Good, Placed
<1>4. Sound(u) /\ Planned(u) /\ u.strokes = 0
  BY <1>1, <1>3, UpdatedSound, UpdatedPaced
<1>5. AtGap(u)
  <2>1. u = session \/ (u.since.strokes = u.strokes /\ u.since.bursts = u.bursts)
    BY <1>1, <1>3, UpdatedPaced
  <2> HIDE DEF u
  <2> QED BY <1>1, <1>4, <2>1, UpdateRestarts
<1> HIDE DEF u
<1>6. AtStroke(u)
  BY <1>4, <1>5 DEF AtStroke
<1> QED BY <1>1, <1>2, <1>4, <1>6, FinishPaced, MainPulsePaced

LEMMA BurstGapPollPaced ==
  ASSUME PacedInv, BurstGapPoll
  PROVE  PacedAfter
<1> DEFINE u == Updated(session)
<1>1. /\ Inv /\ Good(session) /\ session.state = "BurstGap"
      /\ Planned(session) /\ AtBurst(session) /\ AllRun(result)
  BY NoSessionTyped DEF BurstGapPoll, PacedInv, Paced, Inv, OnTime, InBurst
<1>2. Finish(session, "error", TRUE) \/ Continue([u EXCEPT !.state = "BurstPulse"])
  BY DEF BurstGapPoll, IntraPulse
<1>3. Sound(session) /\ InBurst(session)
  BY <1>1 DEF Good, InBurst
<1>4. Sound(u) /\ Planned(u)
  BY <1>1, <1>3, UpdatedSound, UpdatedPaced
<1>5. u = session \/ ~Spaced(u)
  BY <1>1, <1>3, UpdatedPaced DEF Spaced
<1> HIDE DEF u
<1>6. AtBurst(u)
  BY <1>1, <1>5 DEF AtBurst
<1> QED BY <1>1, <1>2, <1>4, <1>6, FinishPaced, IntraPulsePaced

(* When a gap is over, an event in place of the stroke runs if one is due, and
   else the stroke. *)
LEMMA GapOverPaced ==
  ASSUME Inv, AllRun(result), Sound(session), Planned(session), AtGap(session),
         session.state = "WaitingGap", GapOver
  PROVE  PacedAfter
<1> DEFINE u == Updated(session)
<1>1. Sound(u) /\ Planned(u)
  BY UpdatedSound, UpdatedPaced
<1>2. AtGap(u)
  <2>1. u = session \/ (u.since.strokes = u.strokes /\ u.since.bursts = u.bursts)
    BY UpdatedPaced
  <2> HIDE DEF u
  <2> QED BY <1>1, <2>1, UpdateRestarts
<1>3. PICK roll \in BOOLEAN :
        \/ Finish(session, "error", TRUE)
        \/ DueBeforeMain(u.plan, u.config, u.strokes, roll) /\ BeginBurstEvent(u)
        \/ ~(u.config.burstsOn /\ DueBeforeMain(u.plan, u.config, u.strokes, roll))
           /\ MainPulse(u)
  BY DEF GapOver
<1> HIDE DEF u
<1>4. u.strokes \in Nat /\ u.since.strokes \in Nat /\ u.plan.instead \in BOOLEAN
  BY <1>1 DEF Sound, Typed, SessionType, PlanType
<1>5. ASSUME Spaced(u)
      PROVE  /\ u.config.burstsOn /\ Ran(u) \in Int /\ Due(u, u.strokes + 1) \in Nat
             /\ DueAt(u.plan, u.config, u.strokes + 1, roll)
                  <=> Ran(u) < Due(u, u.strokes + 1)
  <2>1. u.plan.kind = "milestones" /\ u.strokes + 1 \in Nat
        /\ u.strokes + 1 >= u.since.strokes
    BY <1>1, <1>4, <1>5 DEF Spaced, Planned
  <2> QED BY <1>1, <2>1, SpreadFacts
<1>6. CASE Finish(session, "error", TRUE)
  BY <1>6, FinishPaced
<1>7. CASE DueBeforeMain(u.plan, u.config, u.strokes, roll) /\ BeginBurstEvent(u)
  <2>1. AtBurst(u)
    BY <1>2, <1>5, <1>7 DEF DueBeforeMain, AtBurst, AtGap, KeepsUp
  <2> QED BY <1>1, <1>7, <2>1, BeginBurstPaced
<1>8. CASE ~(u.config.burstsOn /\ DueBeforeMain(u.plan, u.config, u.strokes, roll))
           /\ MainPulse(u)
  <2>1. AtStroke(u)
    BY <1>2, <1>5, <1>8 DEF DueBeforeMain, AtStroke
  <2> QED BY <1>1, <1>8, <2>1, MainPulsePaced
<1> QED BY <1>3, <1>6, <1>7, <1>8

LEMMA WaitingGapPollPaced ==
  ASSUME PacedInv, WaitingGapPoll
  PROVE  PacedAfter
<1>1. /\ Inv /\ Sound(session) /\ session.state = "WaitingGap"
      /\ Planned(session) /\ AtGap(session) /\ AllRun(result)
  BY NoSessionTyped DEF WaitingGapPoll, PacedInv, Paced, Inv, OnTime, Good
<1>2. \/ Finish(session, "manualStop", TRUE)
      \/ DueInGap(session.plan, elapsed) /\ BeginBurstEvent(session)
      \/ /\ ~(session.config.burstsOn /\ DueInGap(session.plan, elapsed))
         /\ ShouldEnd(session) /\ Finish(session, "endSession", TRUE)
      \/ GapOver
  BY DEF WaitingGapPoll, WaitingGap
<1>3. DueInGap(session.plan, elapsed) => AtBurst(session)
  BY DEF DueInGap, AtBurst, Spaced
<1> QED BY <1>1, <1>2, <1>3, FinishPaced, BeginBurstPaced, EndByPollPaced, GapOverPaced

LEMMA StartPaced ==
  ASSUME PacedInv, Start
  PROVE  PacedAfter
<1>1. PICK c \in StartConfigs, delayed \in BOOLEAN :
        Continue([NoSession EXCEPT !.config = c, !.plan = BuildPlan(c),
                    !.state = IF delayed THEN "StartDelay" ELSE "Pulse"])
  BY DEF Start
<1> DEFINE p == BuildPlan(c)
           st == IF delayed THEN "StartDelay" ELSE "Pulse"
           s == [NoSession EXCEPT !.config = c, !.plan = p, !.state = st]
<1>2. c \in ConfigType
  BY ConfigsAssumption
<1>3. /\ p.kind = "milestones" => SpreadOver(p, c, 0)
      /\ p.kind = "deadlines" =>
           /\ c.rule = "minutes" /\ c.burstsOn
           /\ \A k \in 1..Len(p.at) : p.at[k] <= c.end * MinuteTicks
      /\ Slotted(p) => Len(p.at) = BurstCount(c.end, c.percent)
  BY <1>2, BuildPlanSpread
<1>4. st \in {"StartDelay", "Pulse"}
  OBVIOUS
<1> HIDE DEF p, st
<1>5. /\ s.config = c /\ s.plan = p /\ s.state = st /\ s.strokes = 0 /\ s.bursts = 0
      /\ s.since = Fresh
  BY DEF NoSession
<1>6. /\ Fresh.strokes = 0 /\ Fresh.bursts = 0 /\ Fresh.updated = FALSE
      /\ Fresh.midBurst = FALSE
  BY DEF Fresh
<1>7. Continue(s)
  BY <1>1 DEF p, st
<1>8. Inv' /\ session' = s
  BY <1>7, StartStep DEF PacedInv, Continue
<1> HIDE DEF s
<1>9. Sound(s)
  <2>1. s.state # "Idle"
    BY <1>4, <1>5
  <2>2. session' # NoSession
    BY <1>8, <2>1, NoSessionTyped
  <2> QED BY <1>8, <2>2 DEF Inv, Good
<1>10. Planned(s)
  BY <1>3, <1>5, <1>6 DEF Planned
<1>11. AtGap(s)
  BY <1>5, <1>6, <1>9, <1>10, UpdateRestarts
<1>12. OnTime(s)
  BY <1>4, <1>5, <1>11 DEF OnTime, InBurst, AtStroke
<1> QED BY <1>7, <1>10, <1>12, ContinuePaced DEF PacedInv, Paced

(* A request changes nothing that the pace is told by. *)
LEMMA RequestPaced ==
  ASSUME PacedInv, RequestStop \/ QueueUpdate
  PROVE  PacedAfter
<1>1. /\ session \in SessionType /\ Planned(session) /\ OnTime(session) /\ AllRun(result)
  BY NoSessionTyped DEF PacedInv, Paced, Inv, Good, Sound, Typed, RequestStop, QueueUpdate, Active
<1>2. SamePace(session, session') /\ session'.state = session.state /\ result' = result
  BY <1>1 DEF RequestStop, QueueUpdate, Continue, SessionType, SamePace
<1>3. Planned(session') /\ OnTime(session')
  BY <1>1, <1>2, PaceKept DEF OnTime, InBurst
<1> QED BY <1>1, <1>2, <1>3 DEF PacedAfter

LEMMA InitPaced == Init => PacedInv
BY InitInv, NoSessionTyped DEF Init, PacedInv, Paced, AllRun, NoResult

LEMMA NextPaced == PacedInv /\ [Next]_vars => PacedInv'
<1> SUFFICES ASSUME PacedInv, [Next]_vars PROVE PacedInv'
  OBVIOUS
<1>1. Inv'
  BY NextInv DEF PacedInv
<1>2. CASE Tick
  BY <1>1, <1>2 DEF Tick, PacedInv, Paced
<1>3. CASE UNCHANGED vars
  BY <1>1, <1>3 DEF vars, PacedInv, Paced
<1>4. CASE Abort
  <2>1. PacedAfter
    BY <1>4, FinishPaced DEF Abort
  <2> QED BY <1>1, <2>1 DEF PacedAfter, PacedInv, Paced
<1>5. CASE PacedAfter
  BY <1>1, <1>5 DEF PacedAfter, PacedInv, Paced
<1> QED BY <1>2, <1>3, <1>4, <1>5, MainPulseDonePaced, IntraPulseDonePaced,
           StartDelayElapsedPaced, BurstGapPollPaced, WaitingGapPollPaced,
           StartPaced, RequestPaced
        DEF Next, RelayPoll, ExecPoll

(* Bursts come evenly over the strokes of a session, no event late and none
   early, and one that its end rule ends has run them all: for every
   configuration, percentage and sequence of updates (buildAutomaticBurstPlan,
   shouldStartBurstBeforeMain, AutomaticSessionMode::poll). *)
THEOREM BurstsAreSpread == Spec => []BurstsSpread
<1>1. Spec => []PacedInv
  BY InitPaced, NextPaced, PTL DEF Spec
<1>2. PacedInv => EvenlySpread
  <2> SUFFICES ASSUME PacedInv, Spaced(session)
               PROVE  /\ ~session.plan.instead /\ session.state \in {"WaitingGap", "Pulse"}
                           => Ran(session) = Due(session, session.strokes)
                      /\ session.plan.instead /\ session.state = "Pulse" /\ session.strokes > 0
                           => Ran(session) = Due(session, session.strokes + 1)
    BY DEF EvenlySpread, Spaced, Ran, Due
  <2>1. session # NoSession
    BY DEF Spaced, NoSession, NoPlan
  <2>2. Sound(session) /\ Planned(session) /\ OnTime(session)
    BY <2>1 DEF PacedInv, Paced, Inv, Good
  <2>3. session.strokes \in Nat /\ session.strokes >= session.since.strokes
    BY <2>2 DEF Sound, Typed, SessionType, Planned, Spaced
  <2>4. Due(session, session.strokes + 1) \in Nat /\ Ran(session) \in Int
    BY <2>2, <2>3, SpreadFacts DEF Spaced
  <2> QED BY <2>2, <2>4 DEF OnTime, AtStroke, AtGap, KeepsUp
<1>3. PacedInv => PlannedBurstsRun
  BY DEF PacedInv, Paced, AllRun, PlannedBurstsRun
<1> QED BY <1>1, <1>2, <1>3, PTL DEF BurstsSpread

-----------------------------------------------------------------------------
(* Updates *)

(* What an update leaves of a session, field by field. *)
LEMMA UpdatedFields ==
  ASSUME Inv, NEW s, Sound(s)
  PROVE  LET cut == s.pending # NoConfig /\ InBurst(s) /\ ~s.pending.burstsOn IN
         /\ Updated(s).pending = NoConfig
         /\ Updated(s).config = IF s.pending = NoConfig THEN s.config ELSE s.pending
         /\ Updated(s).stop = s.stop
         /\ Updated(s).state = IF cut THEN "WaitingGap" ELSE s.state
         /\ Updated(s).target = IF cut THEN 0 ELSE s.target
         /\ Updated(s).done = IF cut THEN 0 ELSE s.done
<1>1. CASE s.pending = NoConfig
  BY <1>1 DEF Updated
<1>2. CASE s.pending # NoConfig
  <2> DEFINE p == Replan(s.pending, s.strokes, elapsed)
             since == [strokes |-> s.strokes, bursts |-> s.bursts,
                       updated |-> TRUE, midBurst |-> InBurst(s)]
             u == [s EXCEPT !.config = s.pending, !.pending = NoConfig,
                            !.plan = p, !.since = since]
             w == [u EXCEPT !.state = "WaitingGap", !.target = 0, !.done = 0]
  <2>1. Updated(s) = IF InBurst(s) /\ ~u.config.burstsOn THEN w ELSE u
    BY <1>2, Zenon DEF Updated
  <2> HIDE DEF p, since
  <2>2. /\ u.config = s.pending /\ u.pending = NoConfig /\ u.stop = s.stop
        /\ u.state = s.state /\ u.target = s.target /\ u.done = s.done
        /\ w.config = s.pending /\ w.pending = NoConfig /\ w.stop = s.stop
        /\ w.state = "WaitingGap" /\ w.target = 0 /\ w.done = 0
    BY DEF Sound, Typed, SessionType
  <2> HIDE DEF u, w
  <2> QED  BY <1>2, <2>1, <2>2
<1> QED  BY <1>1, <1>2

(* A burst event runs only where bursts are on, but for the one pulse that an
   update could not take back: its event is over with it. *)
Lit(s) ==
  /\ s.state = "BurstGap" => s.config.burstsOn
  /\ s.state = "BurstPulse" => s.config.burstsOn \/ s.target = 0

(* What a step may do once bursts are off. *)
OffIsFinal(t) ==
  Active /\ t # NoSession /\ ~session.config.burstsOn /\ ~t.config.burstsOn
    => /\ t.state = "BurstPulse" => session.state = "BurstPulse" /\ t.done = session.done
       /\ t.state # "BurstGap"
LatestConfig(t) ==
  t.state = "Pulse" /\ session.state \notin {"Idle", "Pulse"}
    => /\ t.pending = NoConfig
       /\ session.pending # NoConfig => t.config = session.pending
Holds(t) == Lit(t) /\ OffIsFinal(t) /\ LatestConfig(t)

(* A session that pauses or is over. *)
LEMMA PauseHolds ==
  ASSUME NEW t, t = NoSession \/ t.state \in {"WaitingGap", "StartDelay"}
  PROVE  Holds(t)
BY NoSessionTyped DEF Holds, Lit, OffIsFinal, LatestConfig

LEMMA FinishHolds ==
  ASSUME NEW s, NEW reason, NEW poll, Finish(s, reason, poll)
  PROVE  Holds(session')
BY PauseHolds DEF Finish

LEMMA StopEndOrWaitHolds ==
  ASSUME NEW s, Sound(s), NEW poll, StopEndOrWait(s, poll)
  PROVE  Holds(session')
<1>1. [s EXCEPT !.state = "WaitingGap"].state = "WaitingGap"
  BY DEF Sound, Typed, SessionType
<1> QED  BY <1>1, FinishHolds, PauseHolds DEF StopEndOrWait, Continue

(* A burst event that ends leaves the session, its slot used up, to its end. *)
LEMMA FinishBurstHolds ==
  ASSUME NEW s, Sound(s), FinishBurstEvent(s)
  PROVE  Holds(session')
<1> DEFINE t == [s EXCEPT !.bursts = @ + 1, !.plan = Advance(@)]
<1>1. StopEndOrWait(t, FALSE)
  BY DEF FinishBurstEvent
<1>2. [t EXCEPT !.state = "WaitingGap"].state = "WaitingGap"
  BY DEF Sound, Typed, SessionType
<1> HIDE DEF t
<1> QED  BY <1>1, <1>2, FinishHolds, PauseHolds DEF StopEndOrWait, Continue

LEMMA MainPulseHolds ==
  ASSUME Inv, NEW s, Sound(s), MainPulse(s),
         s.pending = NoConfig /\ (session.pending # NoConfig => s.config = session.pending)
  PROVE  Holds(session')
<1>1. session' = [s EXCEPT !.state = "Pulse"]
  BY DEF MainPulse, Continue
<1>2. session'.state = "Pulse" /\ session'.pending = s.pending /\ session'.config = s.config
  BY <1>1 DEF Sound, Typed, SessionType
<1> QED  BY <1>2 DEF Holds, Lit, OffIsFinal, LatestConfig

(* A burst event begins only where bursts are on. *)
LEMMA BeginBurstHolds ==
  ASSUME NEW s, Sound(s), BeginBurstEvent(s), s.config.burstsOn
  PROVE  Holds(session')
<1>1. PICK n \in 1..MaxBurstStrokes :
        session' = [[s EXCEPT !.target = n, !.done = 0] EXCEPT !.state = "BurstPulse"]
  BY DEF BeginBurstEvent, IntraPulse, Continue
<1>2. session'.state = "BurstPulse" /\ session'.config = s.config
  BY <1>1 DEF Sound, Typed, SessionType
<1> QED  BY <1>2 DEF Holds, Lit, OffIsFinal, LatestConfig

(* What was asked, and in which order: nothing before the session's start, and
   of a session that runs the stop it was asked for. *)
Ordered ==
  /\ "start" \notin asked => asked = {} /\ session = NoSession
  /\ Active => (session.stop <=> "stop" \in asked)

LEMMA StartHolds ==
  ASSUME Ordered, Start
  PROVE  Holds(session')
<1>1. PICK c \in StartConfigs, delayed \in BOOLEAN :
        session' = [NoSession EXCEPT !.config = c, !.plan = BuildPlan(c),
                      !.state = IF delayed THEN "StartDelay" ELSE "Pulse"]
  BY DEF Start, Continue
<1>2. session'.state \in {"StartDelay", "Pulse"}
  BY <1>1 DEF NoSession
<1>3. session.state = "Idle"
  BY NoSessionTyped DEF Ordered, Start, Ask
<1> QED  BY <1>2, <1>3 DEF Holds, Lit, OffIsFinal, LatestConfig, Active

LEMMA RequestHolds ==
  ASSUME Inv, Active => Lit(session), RequestStop \/ QueueUpdate
  PROVE  Holds(session')
<1>1. /\ Active
      /\ \/ session' = [session EXCEPT !.stop = TRUE]
         \/ \E c : session' = [session EXCEPT !.pending = c]
  BY DEF RequestStop, QueueUpdate, Continue
<1>2. session \in SessionType
  BY NoSessionTyped DEF Inv, Good, Sound, Typed
<1>3. /\ session'.state = session.state /\ session'.config = session.config
      /\ session'.target = session.target /\ session'.done = session.done
  BY <1>1, <1>2 DEF SessionType
<1>4. session.state # "Idle"
  BY <1>1 DEF Active
<1> QED  BY <1>1, <1>3, <1>4 DEF Holds, Lit, OffIsFinal, LatestConfig

LEMMA MainPulseDoneHolds ==
  ASSUME Inv, MainPulseDone
  PROVE  Holds(session')
<1> DEFINE s == [session EXCEPT !.strokes = @ + 1]
           u == Updated(s)
<1>1. Sound(s)
  BY StrokeCounted DEF MainPulseDone
<1>2. Finish(s, "error", FALSE) \/ BurstAfterMain(u)
  BY DEF MainPulseDone
<1> HIDE DEF s
<1>3. Sound(u)
  BY <1>1, UpdatedSound
<1> HIDE DEF u
<1>4. CASE Finish(s, "error", FALSE)
  BY <1>4, FinishHolds
<1>5. CASE BurstAfterMain(u)
  BY <1>3, <1>5, BeginBurstHolds, StopEndOrWaitHolds DEF BurstAfterMain
<1> QED  BY <1>2, <1>4, <1>5

LEMMA StateHeld ==
  ASSUME NEW s, Sound(s), NEW st
  PROVE  LET w == [s EXCEPT !.state = st] IN
         /\ w.state = st /\ w.config = s.config /\ w.pending = s.pending
         /\ w.stop = s.stop /\ w.target = s.target /\ w.done = s.done
BY DEF Sound, Typed, SessionType

LEMMA IntraPulseDoneHolds ==
  ASSUME Inv, Lit(session), IntraPulseDone
  PROVE  Holds(session')
<1> DEFINE s == [session EXCEPT !.done = @ + 1]
           u == Updated(s)
<1>1. /\ Sound(s) /\ s.state = "BurstPulse" /\ s.config = session.config
      /\ s.pending = session.pending /\ s.target = session.target
      /\ s.done = session.done + 1 /\ session.state = "BurstPulse"
  BY PulseCounted DEF IntraPulseDone
<1>2. \/ Finish(s, "error", FALSE)
      \/ StopEndOrWait(u, FALSE)
      \/ FinishBurstEvent(u)
      \/ u.state # "WaitingGap" /\ u.done < u.target
         /\ (IntraPulse(u) \/ Continue([u EXCEPT !.state = "BurstGap"]))
  BY DEF IntraPulseDone
<1> HIDE DEF s
<1>3. Sound(u)
  BY <1>1, UpdatedSound
<1>4. /\ u.config = IF s.pending = NoConfig THEN s.config ELSE s.pending
      /\ u.state # "WaitingGap" /\ s.pending # NoConfig => s.pending.burstsOn
      /\ u.state # "WaitingGap" => u.target = s.target /\ u.done = s.done
  BY <1>1, UpdatedFields DEF InBurst
<1> HIDE DEF u
<1>5. CASE Finish(s, "error", FALSE)
  BY <1>5, FinishHolds
<1>6. CASE StopEndOrWait(u, FALSE)
  BY <1>3, <1>6, StopEndOrWaitHolds
<1>7. CASE FinishBurstEvent(u)
  BY <1>3, <1>7, FinishBurstHolds
<1>8. CASE u.state # "WaitingGap" /\ u.done < u.target
           /\ (IntraPulse(u) \/ Continue([u EXCEPT !.state = "BurstGap"]))
  <2>1. s.done \in Nat /\ session.done \in Nat
    BY <1>1, NoSessionTyped DEF Inv, Good, Sound, Typed, SessionType
  <2>2. u.config.burstsOn
    BY <1>1, <1>4, <1>8, <2>1 DEF Lit
  <2>3. PICK st \in {"BurstPulse", "BurstGap"} : session' = [u EXCEPT !.state = st]
    BY <1>8 DEF IntraPulse, Continue
  <2>4. session'.config = u.config /\ session'.state \in {"BurstPulse", "BurstGap"}
    BY <1>3, <2>3, StateHeld
  <2> QED  BY <2>2, <2>4 DEF Holds, Lit, OffIsFinal, LatestConfig
<1> QED  BY <1>2, <1>5, <1>6, <1>7, <1>8

LEMMA StartDelayElapsedHolds ==
  ASSUME Inv, StartDelayElapsed
  PROVE  Holds(session')
<1> DEFINE u == Updated(session)
<1>1. Sound(session)
  BY NoSessionTyped DEF Inv, StartDelayElapsed, Good
<1>2. Finish(session, "error", TRUE) \/ MainPulse(u)
  BY DEF StartDelayElapsed
<1>3. Sound(u) /\ u.pending = NoConfig /\ (session.pending # NoConfig => u.config = session.pending)
  BY <1>1, UpdatedSound, UpdatedFields
<1> HIDE DEF u
<1> QED  BY <1>2, <1>3, FinishHolds, MainPulseHolds

(* The one pulse that bursts switched off do not take back. *)
LEMMA BurstGapPollHolds ==
  ASSUME Inv, Lit(session), BurstGapPoll
  PROVE  Holds(session')
<1> DEFINE u == Updated(session)
<1>1. Sound(session) /\ session.state = "BurstGap" /\ session.config.burstsOn
  BY NoSessionTyped DEF Inv, BurstGapPoll, Good, Lit
<1>2. Finish(session, "error", TRUE) \/ IntraPulse(u)
  BY DEF BurstGapPoll
<1>3. Sound(u) /\ (u.config.burstsOn \/ u.target = 0)
  BY <1>1, UpdatedSound, UpdatedFields DEF InBurst
<1> HIDE DEF u
<1>4. CASE IntraPulse(u)
  <2>1. session' = [u EXCEPT !.state = "BurstPulse"]
    BY <1>4 DEF IntraPulse, Continue
  <2>2. /\ session'.state = "BurstPulse" /\ session'.config = u.config
        /\ session'.target = u.target
    BY <1>3, <2>1, StateHeld
  <2> QED  BY <1>1, <1>3, <2>2 DEF Holds, Lit, OffIsFinal, LatestConfig
<1> QED  BY <1>2, <1>4, FinishHolds

LEMMA WaitingGapPollHolds ==
  ASSUME Inv, WaitingGapPoll
  PROVE  Holds(session')
<1> DEFINE u == Updated(session)
<1>1. Sound(session)
  BY NoSessionTyped DEF Inv, WaitingGapPoll, Good
<1>2. \/ \E reason \in Reasons : Finish(session, reason, TRUE)
      \/ session.config.burstsOn /\ BeginBurstEvent(session)
      \/ u.config.burstsOn /\ BeginBurstEvent(u)
      \/ MainPulse(u)
  BY DEF WaitingGapPoll, WaitingGap, GapOver, Reasons
<1>3. Sound(u) /\ u.pending = NoConfig /\ (session.pending # NoConfig => u.config = session.pending)
  BY <1>1, UpdatedSound, UpdatedFields
<1> HIDE DEF u
<1> QED  BY <1>1, <1>2, <1>3, FinishHolds, MainPulseHolds, BeginBurstHolds

LEMMA StepsHold ==
  ASSUME Inv, Ordered, Active => Lit(session), Next
  PROVE  Holds(session')
<1>1. CASE Tick
  BY <1>1 DEF Tick, Active, Holds, Lit, OffIsFinal, LatestConfig
<1>2. CASE Abort
  BY <1>2, FinishHolds DEF Abort
<1>3. CASE IntraPulseDone \/ BurstGapPoll
  <2>1. Lit(session)
    BY <1>3 DEF IntraPulseDone, BurstGapPoll, Active
  <2> QED  BY <1>3, <2>1, IntraPulseDoneHolds, BurstGapPollHolds
<1> QED  BY <1>1, <1>2, <1>3, StartHolds, RequestHolds, MainPulseDoneHolds,
            StartDelayElapsedHolds, WaitingGapPollHolds
         DEF Next, RelayPoll, ExecPoll

-----------------------------------------------------------------------------
(* The session as RelayExecution sees it *)

LEMMA AutoSame ==
  ASSUME NEW s, NEW t, s.state # "Idle", t.state # "Idle",
         t.config = s.config, t.pending = s.pending, t.stop = s.stop,
         t.target = s.target, t.done = s.done
  PROVE  AutoOf(t) = [AutoOf(s) EXCEPT !.state = t.state]
BY DEF AutoOf

LEMMA AutoStopped ==
  ASSUME NEW s, NEW t, t.state = s.state, t.config = s.config, t.pending = s.pending,
         t.target = s.target, t.done = s.done, t.stop
  PROVE  AutoOf(t) = [AutoOf(s) EXCEPT !.stop = "stop"]
BY DEF AutoOf

LEMMA AutoQueued ==
  ASSUME NEW s, NEW t, t.state = s.state, t.config = s.config, t.stop = s.stop,
         t.target = s.target, t.done = s.done, t.pending # NoConfig
  PROVE  AutoOf(t) = [AutoOf(s) EXCEPT !.pending = IF t.pending.burstsOn THEN "bursts" ELSE "plain"]
BY DEF AutoOf

LEMMA AutoBegun ==
  ASSUME NEW s, NEW t, t.state = s.state, t.config = s.config, t.stop = s.stop,
         t.pending = s.pending
  PROVE  AutoOf(t) = [AutoOf(s) EXCEPT !.target = t.target, !.done = t.done]
<1> DEFINE act == s.state # "Idle"
           on == HasBursts(s.config)
           stop == IF s.stop THEN "stop" ELSE "nobody"
           pending == IF s.pending = NoConfig THEN "none"
                      ELSE IF s.pending.burstsOn THEN "bursts" ELSE "plain"
           a == AutoOf(s)
           b == [a EXCEPT !.target = t.target]
<1>1. /\ a = [active |-> act, state |-> s.state, burstsOn |-> on, target |-> s.target,
              done |-> s.done, stop |-> stop, pending |-> pending]
      /\ AutoOf(t) = [active |-> act, state |-> s.state, burstsOn |-> on, target |-> t.target,
                      done |-> t.done, stop |-> stop, pending |-> pending]
  BY DEF AutoOf
<1> HIDE DEF act, on, stop, pending, a
<1>2. [a EXCEPT !.target = t.target, !.done = t.done] = [b EXCEPT !.done = t.done]
  OBVIOUS
<1>3. b = [active |-> act, state |-> s.state, burstsOn |-> on, target |-> t.target,
           done |-> s.done, stop |-> stop, pending |-> pending]
  BY <1>1
<1> HIDE DEF b
<1>4. [b EXCEPT !.done = t.done] = AutoOf(t)
  BY <1>1, <1>3
<1> QED  BY <1>2, <1>4 DEF a

LEMMA AutoCounted ==
  ASSUME NEW s, NEW t, t.state = s.state, t.config = s.config, t.stop = s.stop,
         t.pending = s.pending, t.target = s.target, t.done = s.done + 1
  PROVE  AutoOf(t) = [AutoOf(s) EXCEPT !.done = @ + 1]
BY DEF AutoOf

LEMMA NoAuto == AutoOf(NoSession) = Coarse!NoSession
BY NoSessionTyped DEF AutoOf, HasBursts, NoSession, Coarse!NoSession

(* An update is the same seen from there. *)
LEMMA AutoUpdated ==
  ASSUME Inv, NEW s, Sound(s)
  PROVE  /\ AutoOf(Updated(s)) = Coarse!Updated(AutoOf(s))
         /\ Updated(s).stop = s.stop /\ Updated(s).state # "Idle"
         /\ HasBursts(Updated(s).config) <=> Updated(s).config.burstsOn
<1> DEFINE u == Updated(s)
           cut == s.pending # NoConfig /\ InBurst(s) /\ ~s.pending.burstsOn
<1>1. /\ u.pending = NoConfig /\ u.stop = s.stop
      /\ u.config = IF s.pending = NoConfig THEN s.config ELSE s.pending
      /\ u.state = IF cut THEN "WaitingGap" ELSE s.state
      /\ u.target = IF cut THEN 0 ELSE s.target
      /\ u.done = IF cut THEN 0 ELSE s.done
  BY UpdatedFields
<1>2. /\ s.state # "Idle" /\ s.config # NoConfig
      /\ s.pending # NoConfig => s.pending.burstsOn \in BOOLEAN
      /\ s.config.burstsOn \in BOOLEAN
  BY NoConfigAssumption DEF Sound, Typed, SessionType, ConfigType
<1> HIDE DEF u
<1>3. CASE s.pending = NoConfig
  <2>1. AutoOf(u) = AutoOf(s)
    BY <1>1, <1>3 DEF AutoOf
  <2>2. Coarse!Updated(AutoOf(s)) = AutoOf(s)
    BY <1>3 DEF Coarse!Updated, AutoOf
  <2> QED  BY <1>1, <1>2, <1>3, <2>1, <2>2 DEF u, HasBursts
<1>4. CASE s.pending # NoConfig
  <2> DEFINE a == AutoOf(s)
             on == s.pending.burstsOn
             stop == IF s.stop THEN "stop" ELSE "nobody"
             act == s.state # "Idle"
             b == [active |-> act, state |-> s.state, burstsOn |-> on,
                   target |-> s.target, done |-> s.done,
                   stop |-> stop, pending |-> "none"]
  <2>1. on \in BOOLEAN /\ (a.pending = "bursts") = on /\ a.pending # "none"
    <3>1. on \in BOOLEAN
      BY <1>2, <1>4
    <3> HIDE DEF on
    <3>2. a.pending = IF on THEN "bursts" ELSE "plain"
      BY <1>4 DEF AutoOf, on
    <3> HIDE DEF a
    <3>3. CASE on = TRUE
      BY <3>2, <3>3
    <3>4. CASE on = FALSE
      BY <3>2, <3>4
    <3> QED  BY <3>1, <3>3, <3>4
  <2>2. [a EXCEPT !.burstsOn = on, !.pending = "none"] = b
    <3> DEFINE pending == IF s.pending = NoConfig THEN "none"
                          ELSE IF s.pending.burstsOn THEN "bursts" ELSE "plain"
               was == HasBursts(s.config)
    <3>2. a = [active |-> act, state |-> s.state, burstsOn |-> was, target |-> s.target,
               done |-> s.done, stop |-> stop, pending |-> pending]
      BY DEF AutoOf
    <3> HIDE DEF on, a, stop, pending, was, act
    <3> DEFINE d == [a EXCEPT !.burstsOn = on]
    <3>3. d = [active |-> act, state |-> s.state, burstsOn |-> on, target |-> s.target,
               done |-> s.done, stop |-> stop, pending |-> pending]
      BY <3>2
    <3>4. [a EXCEPT !.burstsOn = on, !.pending = "none"] = [d EXCEPT !.pending = "none"]
      OBVIOUS
    <3> HIDE DEF d
    <3>5. [d EXCEPT !.pending = "none"] = b
      BY <3>3
    <3> QED  BY <3>4, <3>5
  <2>3. Coarse!Updated(a) =
          IF ~b.burstsOn /\ b.state \in {"BurstPulse", "BurstGap"}
          THEN [b EXCEPT !.state = "WaitingGap", !.target = 0, !.done = 0] ELSE b
    <3> HIDE DEF a, b, on
    <3> QED  BY <2>1, <2>2 DEF Coarse!Updated
  <2>4. AutoOf(u) = [active |-> act, state |-> u.state, burstsOn |-> on,
             target |-> u.target, done |-> u.done,
             stop |-> stop, pending |-> "none"]
    BY <1>1, <1>2, <1>4 DEF AutoOf, HasBursts
  <2>5. cut <=> ~b.burstsOn /\ b.state \in {"BurstPulse", "BurstGap"}
    BY <1>4 DEF InBurst
  <2> HIDE DEF a, cut
  <2>6. ASSUME cut PROVE Coarse!Updated(a) = AutoOf(u)
    <3>1. [b EXCEPT !.state = "WaitingGap", !.target = 0, !.done = 0]
            = [active |-> act, state |-> "WaitingGap", burstsOn |-> on,
               target |-> 0, done |-> 0, stop |-> stop, pending |-> "none"]
      <4> HIDE DEF on, stop, act
      <4> DEFINE d == [b EXCEPT !.state = "WaitingGap"]
                 e == [d EXCEPT !.target = 0]
      <4>1. d = [active |-> act, state |-> "WaitingGap", burstsOn |-> on,
                 target |-> s.target, done |-> s.done, stop |-> stop, pending |-> "none"]
        OBVIOUS
      <4> HIDE DEF b
      <4>2. [b EXCEPT !.state = "WaitingGap", !.target = 0, !.done = 0]
              = [e EXCEPT !.done = 0]
        OBVIOUS
      <4> HIDE DEF d
      <4>3. e = [active |-> act, state |-> "WaitingGap", burstsOn |-> on,
                 target |-> 0, done |-> s.done, stop |-> stop, pending |-> "none"]
        BY <4>1
      <4> HIDE DEF e
      <4> QED  BY <4>2, <4>3
    <3> HIDE DEF b, on, stop, act
    <3> QED  BY <1>1, <2>3, <2>4, <2>5, <2>6, <3>1
  <2>7. ASSUME ~cut PROVE Coarse!Updated(a) = AutoOf(u)
    <3>1. AutoOf(u) = b
      <4> HIDE DEF on, stop, act
      <4> QED  BY <1>1, <2>4, <2>7
    <3> HIDE DEF b
    <3> QED  BY <2>3, <2>5, <2>7, <3>1
  <2>8. Coarse!Updated(a) = AutoOf(u)
    BY <2>6, <2>7
  <2> QED  BY <1>1, <1>2, <1>4, <2>8 DEF a, u, HasBursts
<1> QED  BY <1>3, <1>4

(* A session that goes on changes no answer and no notice. *)
LEMMA ContinueIs ==
  ASSUME Ordered, Active, NEW t, t.state # "Idle", Continue(t), UNCHANGED asked
  PROVE  Coarse!Continue(AutoOf(t)) /\ ModeInUse = "automatic" /\ UNCHANGED ModeInUse
<1>1. session' = t /\ Active' /\ "start" \in asked /\ UNCHANGED <<asked, result>>
  BY NoSessionTyped DEF Continue, Active, Ordered
<1>2. ASSUME NEW c \in Commands PROVE Entry(c)' = Entry(c)
  BY <1>1 DEF Entry, Answers
<1>3. UNCHANGED <<Log, Notices, ModeInUse>> /\ ModeInUse = "automatic"
  BY <1>1, <1>2 DEF Log, Notices, ModeInUse
<1> QED  BY <1>1, <1>3 DEF Coarse!Continue

(* One that is over is answered to the stop that waits, and announced. *)
LEMMA FinishIs ==
  ASSUME Ordered, Active, NEW s, NEW reason, NEW poll, Finish(s, reason, poll),
         UNCHANGED asked, NEW ok \in BOOLEAN, ok <=> reason \notin {"abort", "error"}
  PROVE  Coarse!EndSession(ok)
<1>1. /\ session' = NoSession /\ ~Active' /\ "start" \in asked /\ UNCHANGED asked
      /\ result'.reason = reason
  BY NoSessionTyped DEF Finish, Active, Ordered
<1>2. Coarse!Release /\ AutoOf(session)' = Coarse!NoSession
  BY <1>1, NoAuto, NoSessionTyped DEF Coarse!Release, RelayOf, CallbackOf
<1>3. Notices' = [Notices EXCEPT !.completed = @ + 1]
  BY <1>1 DEF Notices
<1>4. ASSUME NEW c \in Commands, ~(c = "stop" /\ session.stop)
      PROVE  Entry(c)' = Entry(c)
  BY <1>1, <1>4 DEF Entry, Answers, Ordered
<1>5. CASE ~session.stop
  <2>1. Log' = Log
    BY <1>4, <1>5 DEF Log
  <2>2. AutoOf(session).stop = "nobody"
    BY <1>5 DEF AutoOf
  <2> QED  BY <1>2, <1>3, <2>1, <2>2 DEF Coarse!EndSession, Coarse!FinishSession
<1>6. CASE session.stop
  <2> DEFINE one == <<TRUE>>
             two == Append(one, ok)
  <2>1. "stop" \in asked /\ Answers("stop") = one /\ Answers("stop")' = two
    <3>1. (result'.reason # "abort" /\ result'.reason # "error") = ok
      <4>1. CASE ok = TRUE
        BY <1>1, <4>1
      <4>2. CASE ok = FALSE
        BY <1>1, <4>2
      <4> QED  BY <4>1, <4>2
    <3> DEFINE good == result'.reason # "abort" /\ result'.reason # "error"
    <3>2. "stop" \in asked /\ Answers("stop") = one /\ Answers("stop")' = Append(one, good)
      BY <1>1, <1>6 DEF Answers, Ordered
    <3> HIDE DEF good
    <3>3. good = ok
      BY <3>1 DEF good
    <3> QED  BY <3>2, <3>3
  <2> HIDE DEF one, two
  <2>6. Entry("stop").acks = one /\ Entry("stop")' = [Entry("stop") EXCEPT !.acks = two]
    <3> DEFINE yes == TRUE
    <3>1. /\ Entry("stop") = [kind |-> KindOf("stop"), valid |-> yes, want |-> 0,
                              fired |-> 0, acks |-> one]
          /\ Entry("stop")' = [kind |-> KindOf("stop"), valid |-> yes, want |-> 0,
                               fired |-> 0, acks |-> two]
      BY <1>1, <2>1 DEF Entry
    <3> HIDE DEF yes
    <3> QED  BY <3>1
  <2>3. Log' = [Log EXCEPT !["stop"] = [Log["stop"] EXCEPT !.acks = Append(@, ok)]]
    BY <1>4, <2>6 DEF Log, Commands, two
  <2>4. AutoOf(session).stop = "stop"
    BY <1>6 DEF AutoOf
  <2>5. Log' = Coarse!Acked(Log, "stop", ok)
    BY <2>3 DEF Coarse!Acked
  <2> QED  BY <1>2, <1>3, <2>4, <2>5 DEF Coarse!EndSession, Coarse!FinishSession
<1> QED  BY <1>5, <1>6

(* Where a session ends the loop tells whether its mode is forgotten. *)
ModeAfter(poll) == ModeInUse' = IF ~Active' /\ poll THEN "none" ELSE "automatic"

LEMMA FinishMode ==
  ASSUME Ordered, Active, NEW s, NEW reason, NEW poll, Finish(s, reason, poll), UNCHANGED asked
  PROVE  ModeAfter(poll)
<1>1. "start" \in asked' /\ ~Active' /\ result'.byPoll = poll
  BY NoSessionTyped DEF Finish, Active, Ordered
<1> QED  BY <1>1 DEF ModeAfter, ModeInUse

LEMMA ContinueMode ==
  ASSUME Ordered, Active, NEW t, t.state # "Idle", Continue(t), UNCHANGED asked, NEW poll
  PROVE  ModeAfter(poll)
BY ContinueIs DEF ModeAfter, Continue, Active

LEMMA FinishEnds ==
  ASSUME Ordered, Active, NEW s, NEW reason \in {"manualStop", "endSession"}, NEW poll,
         Finish(s, reason, poll), UNCHANGED asked
  PROVE  Coarse!EndSession(TRUE)
<1>1. PICK ok \in BOOLEAN : ok = TRUE
  OBVIOUS
<1>2. Coarse!EndSession(ok)
  BY <1>1, FinishIs
<1> QED  BY <1>1, <1>2

LEMMA FinishFails ==
  ASSUME Ordered, Active, NEW s, NEW poll, Finish(s, "error", poll), UNCHANGED asked
  PROVE  Coarse!EndSession(FALSE)
<1>1. PICK ok \in BOOLEAN : ok = FALSE
  OBVIOUS
<1>2. Coarse!EndSession(ok)
  BY <1>1, FinishIs
<1> QED  BY <1>1, <1>2

(* A command that is accepted is asked and answered at once. *)
AskedFor(c) == [kind |-> KindOf(c), valid |-> TRUE, want |-> 0, fired |-> 0, acks |-> <<TRUE>>]
LogWith(c) == Coarse!Acked(Coarse!Asked(Log, c, KindOf(c), TRUE, 0), c, TRUE)

LEMMA LogWithIs ==
  ASSUME NEW c \in Commands
  PROVE  LogWith(c) = [d \in Commands |-> IF d = c THEN AskedFor(c) ELSE Entry(d)]
<1> DEFINE yes == TRUE
           e == [kind |-> KindOf(c), valid |-> yes, want |-> 0, fired |-> 0, acks |-> <<>>]
           l == [Log EXCEPT ![c] = e]
           one == <<TRUE>>
<1>1. Append(<<>>, yes) = one
  OBVIOUS
<1>2. LogWith(c) = [l EXCEPT ![c].acks = Append(@, yes)]
  BY DEF LogWith, Coarse!Asked, Coarse!Acked
<1>3. AskedFor(c) = [kind |-> KindOf(c), valid |-> yes, want |-> 0, fired |-> 0, acks |-> one]
  BY DEF AskedFor
<1> HIDE DEF yes, one
<1>4. [e EXCEPT !.acks = Append(@, yes)] = AskedFor(c)
  BY <1>1, <1>3
<1> HIDE DEF e
<1>5. l = [d \in Commands |-> IF d = c THEN e ELSE Entry(d)]
  BY DEF Log
<1> HIDE DEF l
<1>6. l[c] = e
  BY <1>5
<1>7. LogWith(c) = [l EXCEPT ![c] = [e EXCEPT !.acks = Append(@, yes)]]
  BY <1>2, <1>6
<1> QED  BY <1>4, <1>5, <1>7

LEMMA AskIs ==
  ASSUME NEW c \in Commands, Ask(c), Answers(c)' = <<TRUE>>,
         \A d \in asked : Answers(d)' = Answers(d)
  PROVE  /\ Log' = LogWith(c) /\ Coarse!Fresh(c)
<1>1. ASSUME NEW d \in Commands
      PROVE  Entry(d)' = IF d = c THEN AskedFor(c) ELSE Entry(d)
  <2>1. asked' = asked \cup {c}
    BY DEF Ask
  <2>2. CASE d = c
    BY <2>1, <2>2 DEF Entry, AskedFor
  <2>3. CASE d # c /\ d \in asked
    BY <2>1, <2>3 DEF Entry
  <2>4. CASE d # c /\ d \notin asked
    BY <2>1, <2>4 DEF Entry
  <2> QED  BY <2>2, <2>3, <2>4
<1>2. Log[c].kind = "none"
  BY DEF Log, Ask, Entry
<1> QED  BY <1>1, <1>2, LogWithIs DEF Log, Coarse!Fresh

-----------------------------------------------------------------------------
(* The actions *)

Steps == Coarse!Next \/ UNCHANGED Coarse!vars

LEMMA RequestStopIs ==
  ASSUME Inv, Ordered, RequestStop
  PROVE  Steps
<1> DEFINE t == [session EXCEPT !.stop = TRUE]
<1>1. Active /\ ~session.stop /\ Ask("stop") /\ Continue(t) /\ session \in SessionType
  BY NoSessionTyped DEF RequestStop, Inv, Good, Sound, Typed
<1>2. /\ t.state = session.state /\ t.config = session.config /\ t.stop
      /\ t.target = session.target /\ t.done = session.done /\ t.pending = session.pending
  BY <1>1 DEF SessionType
<1> HIDE DEF t
<1>3. session' = t /\ Active' /\ "start" \in asked /\ asked' = asked \cup {"stop"}
  BY <1>1, <1>2, NoSessionTyped DEF Continue, Active, Ordered, Ask
<1>4. Log' = LogWith("stop") /\ Coarse!Fresh("stop")
  <2>1. \A d : Answers(d)' = <<TRUE>> /\ Answers(d) = <<TRUE>>
    BY <1>1, <1>3 DEF Answers
  <2> QED  BY <1>1, <2>1, AskIs DEF Commands
<1>5. KindOf("stop") = "stop"
  BY UpdatesAssumption DEF KindOf
<1>6. UNCHANGED <<RelayOf(session), CallbackOf(session), ModeInUse, Notices>>
      /\ ModeInUse = "automatic"
  BY <1>1, <1>2, <1>3 DEF RelayOf, CallbackOf, ModeInUse, Notices
<1>7. /\ AutoOf(session).active /\ AutoOf(session).stop = "nobody"
      /\ AutoOf(session)' = [AutoOf(session) EXCEPT !.stop = "stop"]
  <2>1. AutoOf(session).active /\ AutoOf(session).stop = "nobody"
    BY <1>1 DEF AutoOf, Active
  <2>2. AutoOf(t) = [AutoOf(session) EXCEPT !.stop = "stop"]
    BY <1>2, AutoStopped
  <2> QED  BY <1>3, <2>1, <2>2
<1>8. Coarse!StopAutomatic("stop")
  BY <1>4, <1>5, <1>6, <1>7 DEF LogWith, Coarse!StopAutomatic, Coarse!SessionActive
<1> QED  BY <1>8 DEF Steps, Coarse!Next, Coarse!Command, Commands

LEMMA QueueUpdateIs ==
  ASSUME Inv, Ordered, QueueUpdate
  PROVE  Steps
<1>1. PICK u \in Updates, c \in UpdateConfigs :
        Active /\ Ask(u) /\ Continue([session EXCEPT !.pending = c])
  BY DEF QueueUpdate
<1> DEFINE t == [session EXCEPT !.pending = c]
           next == IF c.burstsOn THEN "bursts" ELSE "plain"
<1>2. /\ t.state = session.state /\ t.config = session.config /\ t.stop = session.stop
      /\ t.target = session.target /\ t.done = session.done /\ t.pending = c
  BY NoSessionTyped DEF Inv, Good, Sound, Typed, SessionType
<1>3. c # NoConfig
  BY ConfigsAssumption, NoConfigAssumption
<1> HIDE DEF t
<1>4. session' = t /\ Active' /\ "start" \in asked /\ asked' = asked \cup {u}
  BY <1>1, <1>2, NoSessionTyped DEF Continue, Active, Ordered, Ask, t
<1>5. Log' = LogWith(u) /\ Coarse!Fresh(u)
  <2>1. \A d : Answers(d)' = <<TRUE>> /\ Answers(d) = <<TRUE>>
    BY <1>1, <1>4 DEF Answers
  <2> QED  BY <1>1, <2>1, AskIs DEF Commands
<1>6. KindOf(u) = "update"
  BY DEF KindOf
<1>7. UNCHANGED <<RelayOf(session), CallbackOf(session), ModeInUse, Notices>>
      /\ ModeInUse = "automatic"
  BY <1>1, <1>2, <1>4 DEF RelayOf, CallbackOf, ModeInUse, Notices
<1>8. AutoOf(session).active /\ AutoOf(session)' = [AutoOf(session) EXCEPT !.pending = next]
  <2>1. AutoOf(session).active
    BY <1>1 DEF AutoOf, Active
  <2>2. AutoOf(t) = [AutoOf(session) EXCEPT !.pending = IF t.pending.burstsOn THEN "bursts" ELSE "plain"]
    BY <1>2, <1>3, AutoQueued
  <2> QED  BY <1>2, <1>4, <2>1, <2>2
<1>9. Coarse!UpdateAutomatic(u)
  <2>1. PICK valid \in BOOLEAN : valid = TRUE
    OBVIOUS
  <2>2. Log' = Coarse!Acked(Coarse!Asked(Log, u, "update", valid, 0), u, TRUE)
    BY <1>5, <1>6, <2>1 DEF LogWith
  <2>3. next \in {"bursts", "plain"}
    OBVIOUS
  <2> HIDE DEF next
  <2> QED  BY <1>5, <1>7, <1>8, <2>1, <2>2, <2>3
           DEF Coarse!UpdateAutomatic, Coarse!SessionActive
<1> QED  BY <1>9 DEF Steps, Coarse!Next, Coarse!Command, Commands

LEMMA StartIs ==
  ASSUME Inv, Ordered, Start
  PROVE  Steps
<1>1. PICK c \in StartConfigs, delayed \in BOOLEAN :
        /\ Ask("start")
        /\ Continue([NoSession EXCEPT !.config = c, !.plan = BuildPlan(c),
                        !.state = IF delayed THEN "StartDelay" ELSE "Pulse"])
  BY DEF Start
<1> DEFINE st == IF delayed THEN "StartDelay" ELSE "Pulse"
<1>2. /\ session'.state = st /\ session'.config = c /\ session'.target = 0
      /\ session'.done = 0 /\ ~session'.stop /\ session'.pending = NoConfig
  BY <1>1 DEF Continue, NoSession
<1>3. /\ session = NoSession /\ asked = {} /\ asked' = {"start"} /\ ~Active /\ Active'
  BY <1>1, <1>2, NoSessionTyped DEF Ordered, Ask, Active
<1>4. Log' = LogWith("start") /\ Coarse!Fresh("start")
  <2>1. Answers("start")' = <<TRUE>>
    BY DEF Answers
  <2> QED  BY <1>1, <1>3, <2>1, AskIs DEF Commands
<1>5. KindOf("start") = "start"
  BY UpdatesAssumption DEF KindOf
<1>6. /\ RelayOf(session) = "Idle" /\ ModeInUse = "none" /\ ModeInUse' = "automatic"
      /\ CallbackOf(session) = "none" /\ AutoOf(session) = Coarse!NoSession
      /\ ~AutoOf(session).active
  BY <1>3, NoAuto, NoSessionTyped DEF RelayOf, CallbackOf, ModeInUse, Coarse!NoSession
<1>7. Notices' = [Notices EXCEPT !.started = @ + 1]
  BY <1>3 DEF Notices
<1>8. PICK on \in BOOLEAN : on = c.burstsOn
  BY ConfigsAssumption DEF ConfigType
<1>9. AutoOf(session)' = [Coarse!NoSession EXCEPT !.active = TRUE, !.burstsOn = on, !.state = st]
  <2>1. HasBursts(c) = on
    BY <1>8, ConfigsAssumption, NoConfigAssumption DEF HasBursts
  <2> DEFINE yes == TRUE
             no == FALSE
             a == Coarse!NoSession
             b == [a EXCEPT !.active = yes]
             d == [b EXCEPT !.burstsOn = on]
  <2>2. (session'.state # "Idle") = yes
    BY <1>2
  <2>3. AutoOf(session)' = [active |-> yes, state |-> st, burstsOn |-> on, target |-> 0,
                            done |-> 0, stop |-> "nobody", pending |-> "none"]
    BY <1>2, <2>1, <2>2 DEF AutoOf
  <2>4. [a EXCEPT !.active = yes, !.burstsOn = on, !.state = st] = [d EXCEPT !.state = st]
    <3> HIDE DEF a, yes, st
    <3> QED  OBVIOUS
  <2>8. a = [active |-> no, state |-> "Idle", burstsOn |-> no, target |-> 0,
             done |-> 0, stop |-> "nobody", pending |-> "none"]
    BY DEF Coarse!NoSession
  <2> HIDE DEF yes, no, st, a
  <2>5. b = [active |-> yes, state |-> "Idle", burstsOn |-> no, target |-> 0,
             done |-> 0, stop |-> "nobody", pending |-> "none"]
    BY <2>8
  <2> HIDE DEF b
  <2>6. d = [active |-> yes, state |-> "Idle", burstsOn |-> on, target |-> 0,
             done |-> 0, stop |-> "nobody", pending |-> "none"]
    BY <2>5
  <2> HIDE DEF d
  <2>7. [d EXCEPT !.state = st] = AutoOf(session)'
    BY <2>3, <2>6
  <2> QED  BY <2>4, <2>7 DEF yes, a
<1>10. IF delayed THEN UNCHANGED <<RelayOf(session), CallbackOf(session)>>
       ELSE Coarse!Energise("main")
  BY <1>2, <1>6 DEF RelayOf, CallbackOf, Coarse!Energise
<1>11. Coarse!StartAutomatic("start")
  <2>1. PICK valid \in BOOLEAN : valid = TRUE
    OBVIOUS
  <2>2. Log' = Coarse!Acked(Coarse!Asked(Log, "start", "start", valid, 0), "start", TRUE)
    BY <1>4, <1>5, <2>1 DEF LogWith
  <2>3. ~Coarse!Refused(valid)
    BY <1>6, <2>1 DEF Coarse!Refused, Coarse!IsActive
  <2> QED  BY <1>4, <1>6, <1>7, <1>9, <1>10, <2>2, <2>3 DEF Coarse!StartAutomatic
<1> QED  BY <1>11 DEF Steps, Coarse!Next, Coarse!Command, Commands

LEMMA AbortIs ==
  ASSUME Inv, Ordered, Abort
  PROVE  Steps
<1>1. /\ Active /\ Ask("abort") /\ session' = NoSession /\ "start" \in asked
      /\ result'.reason = "abort" /\ result'.byPoll
  BY NoSessionTyped DEF Abort, Finish, Ordered, Active
<1>2. ~Active' /\ asked' = asked \cup {"abort"} /\ "abort" \notin asked
  BY <1>1, NoSessionTyped DEF Active, Ask
<1>3. KindOf("abort") = "abort"
  BY UpdatesAssumption DEF KindOf
<1>4. AutoOf(session)' = Coarse!NoSession
  BY <1>1, NoAuto
<1>5. Notices' = [Notices EXCEPT !.completed = @ + 1]
  BY <1>1, <1>2 DEF Notices
<1>6. /\ RelayOf(session)' = "Idle" /\ CallbackOf(session)' = "none"
      /\ ModeInUse = "automatic" /\ ModeInUse' = "none"
      /\ AutoOf(session).active /\ AutoOf(session).state = session.state
  BY <1>1, <1>2, NoSessionTyped DEF RelayOf, CallbackOf, ModeInUse, AutoOf, Active
<1>7. session.state \notin {"Pulse", "BurstPulse"}
        => RelayOf(session) = "Idle" /\ CallbackOf(session) = "none"
  BY DEF RelayOf, CallbackOf
<1>8. Coarse!AbortRelay(AutoOf(session).state \in {"Pulse", "BurstPulse"})
  <2> DEFINE held == AutoOf(session).state \in {"Pulse", "BurstPulse"}
  <2>1. IF held THEN Coarse!Release ELSE UNCHANGED <<RelayOf(session), CallbackOf(session)>>
    BY <1>6, <1>7 DEF Coarse!Release
  <2> QED  BY <2>1 DEF Coarse!AbortRelay
<1>9. Log["abort"].kind = "none"
  BY <1>2 DEF Log, Entry, Commands
<1>10. Coarse!FinishSession(FALSE, LogWith("abort"))
  <2> DEFINE m == LogWith("abort")
             no == FALSE
             one == <<TRUE>>
             two == Append(one, no)
  <2>1. m = [d \in Commands |-> IF d = "abort" THEN AskedFor("abort") ELSE Entry(d)]
    BY LogWithIs DEF Commands
  <2>2. ASSUME NEW d \in Commands, ~(d = "stop" /\ session.stop)
        PROVE  Entry(d)' = IF d = "abort" THEN AskedFor("abort") ELSE Entry(d)
    <3>1. CASE d = "abort"
      <4>1. Answers("abort")' = <<TRUE>>
        BY DEF Answers
      <4> QED  BY <1>2, <3>1, <4>1 DEF Entry, AskedFor
    <3>2. CASE d # "abort" /\ d \in asked
      <4>1. d # "stop"
        BY <1>1, <2>2, <3>2 DEF Ordered
      <4>2. Answers(d)' = <<TRUE>> /\ Answers(d) = <<TRUE>>
        BY <4>1 DEF Answers
      <4> QED  BY <1>2, <3>2, <4>2 DEF Entry
    <3>3. CASE d # "abort" /\ d \notin asked
      BY <1>2, <3>3 DEF Entry
    <3> QED  BY <3>1, <3>2, <3>3
  <2>3. CASE ~session.stop
    <3>1. Log' = m
      BY <2>1, <2>2, <2>3 DEF Log
    <3>2. AutoOf(session).stop = "nobody"
      BY <2>3 DEF AutoOf
    <3> QED  BY <1>4, <1>5, <3>1, <3>2 DEF Coarse!FinishSession
  <2>4. CASE session.stop
    <3>1. "stop" \in asked /\ Answers("stop") = one
      BY <1>1, <2>4 DEF Ordered, Answers
    <3>2. Answers("stop")' = two
      <4>1. (result'.reason # "abort" /\ result'.reason # "error") = no
        BY <1>1
      <4> DEFINE good == result'.reason # "abort" /\ result'.reason # "error"
      <4>2. Answers("stop")' = Append(one, good)
        BY <1>2 DEF Answers
      <4> HIDE DEF good, no
      <4>3. good = no
        BY <4>1 DEF good
      <4> QED  BY <4>2, <4>3
    <3> HIDE DEF no, one, two
    <3>3. m["stop"] = Entry("stop")
      BY <2>1 DEF Commands
    <3>4. Entry("stop").acks = one /\ Entry("stop")' = [Entry("stop") EXCEPT !.acks = two]
      <4> DEFINE yes == TRUE
      <4>1. /\ Entry("stop") = [kind |-> KindOf("stop"), valid |-> yes, want |-> 0,
                                fired |-> 0, acks |-> one]
            /\ Entry("stop")' = [kind |-> KindOf("stop"), valid |-> yes, want |-> 0,
                                 fired |-> 0, acks |-> two]
        BY <1>2, <3>1, <3>2 DEF Entry
      <4> HIDE DEF yes
      <4> QED  BY <4>1
    <3>5. Log' = [m EXCEPT !["stop"] = [m["stop"] EXCEPT !.acks = Append(@, no)]]
      <4> HIDE DEF m
      <4>1. [m["stop"] EXCEPT !.acks = Append(@, no)] = Entry("stop")'
        BY <3>3, <3>4 DEF two
      <4>2. ASSUME NEW d \in Commands
            PROVE  Entry(d)' = IF d = "stop" THEN Entry("stop")' ELSE m[d]
        BY <2>1, <2>2
      <4> QED  BY <2>1, <4>1, <4>2 DEF Log
    <3>6. Log' = Coarse!Acked(m, "stop", no)
      <4> HIDE DEF m
      <4> QED  BY <3>5 DEF Coarse!Acked
    <3>7. AutoOf(session).stop = "stop"
      BY <2>4 DEF AutoOf
    <3> HIDE DEF m
    <3>8. Coarse!FinishSession(no, m)
      BY <1>4, <1>5, <3>6, <3>7 DEF Coarse!FinishSession
    <3> QED  BY <3>8 DEF no, m
  <2> QED  BY <2>3, <2>4
<1>11. Coarse!AbortSession(LogWith("abort"))
  BY <1>6, <1>8, <1>10 DEF Coarse!AbortSession, Coarse!SessionActive
<1>12. Coarse!Abort("abort")
  BY <1>3, <1>6, <1>9, <1>11 DEF Coarse!Abort, Coarse!Fresh, LogWith
<1> QED  BY <1>12 DEF Steps, Coarse!Next, Coarse!Command, Commands

-----------------------------------------------------------------------------
(* The polls *)

LEMMA MainPulseIs ==
  ASSUME Ordered, Active, NEW u, Sound(u), MainPulse(u), UNCHANGED asked
  PROVE  Coarse!MainPulse(AutoOf(u)) /\ \A poll \in BOOLEAN : ModeAfter(poll)
<1> DEFINE t == [u EXCEPT !.state = "Pulse"]
<1>1. Continue(t)
  BY DEF MainPulse
<1>2. /\ t.state = "Pulse" /\ t.config = u.config /\ t.pending = u.pending
      /\ t.stop = u.stop /\ t.target = u.target /\ t.done = u.done /\ u.state # "Idle"
  BY StateHeld DEF Sound, Typed
<1> HIDE DEF t
<1>3. AutoOf(t) = [AutoOf(u) EXCEPT !.state = "Pulse"]
  BY <1>2, AutoSame
<1>4. Coarse!Energise("main")
  BY <1>1, <1>2 DEF Continue, Coarse!Energise, RelayOf, CallbackOf
<1>5. Coarse!Continue(AutoOf(t)) /\ \A poll \in BOOLEAN : ModeAfter(poll)
  BY <1>1, <1>2, ContinueIs, ContinueMode
<1> QED  BY <1>3, <1>4, <1>5 DEF Coarse!MainPulse

LEMMA IntraPulseIs ==
  ASSUME Ordered, Active, NEW u, Sound(u), IntraPulse(u), UNCHANGED asked
  PROVE  Coarse!IntraPulse(AutoOf(u)) /\ \A poll \in BOOLEAN : ModeAfter(poll)
<1> DEFINE t == [u EXCEPT !.state = "BurstPulse"]
<1>1. Continue(t)
  BY DEF IntraPulse
<1>2. /\ t.state = "BurstPulse" /\ t.config = u.config /\ t.pending = u.pending
      /\ t.stop = u.stop /\ t.target = u.target /\ t.done = u.done /\ u.state # "Idle"
  BY StateHeld DEF Sound, Typed
<1> HIDE DEF t
<1>3. AutoOf(t) = [AutoOf(u) EXCEPT !.state = "BurstPulse"]
  BY <1>2, AutoSame
<1>4. Coarse!Energise("intra")
  BY <1>1, <1>2 DEF Continue, Coarse!Energise, RelayOf, CallbackOf
<1>5. Coarse!Continue(AutoOf(t)) /\ \A poll \in BOOLEAN : ModeAfter(poll)
  BY <1>1, <1>2, ContinueIs, ContinueMode
<1> QED  BY <1>3, <1>4, <1>5 DEF Coarse!IntraPulse

LEMMA BeginBurstIs ==
  ASSUME Ordered, Active, NEW u, Sound(u), BeginBurstEvent(u), UNCHANGED asked
  PROVE  Coarse!BeginBurstEvent(AutoOf(u)) /\ \A poll \in BOOLEAN : ModeAfter(poll)
<1>1. PICK n \in 1..MaxBurstStrokes : IntraPulse([u EXCEPT !.target = n, !.done = 0])
  BY DEF BeginBurstEvent
<1> DEFINE b == [u EXCEPT !.target = n, !.done = 0]
<1>2. u \in SessionType /\ 0 \in 0..MaxBurstStrokes /\ n \in 0..MaxBurstStrokes
  BY BoundsAssumption DEF Sound, Typed
<1>3. b \in SessionType
  BY <1>2 DEF SessionType
<1>4. /\ b.state = u.state /\ b.config = u.config /\ b.plan = u.plan
      /\ b.since = u.since /\ b.strokes = u.strokes /\ b.bursts = u.bursts
      /\ b.target = n /\ b.done = 0 /\ b.pending = u.pending /\ b.stop = u.stop
  BY <1>2 DEF SessionType
<1> HIDE DEF b
<1>5. Sound(b)
  BY <1>3, <1>4 DEF Sound, Typed, SlotsUsed, StrokesWithin, CountsStrokes
<1>6. Coarse!IntraPulse(AutoOf(b)) /\ \A poll \in BOOLEAN : ModeAfter(poll)
  BY <1>1, <1>5, IntraPulseIs DEF b
<1>7. AutoOf(b) = [AutoOf(u) EXCEPT !.target = n, !.done = 0]
  BY <1>4, AutoBegun
<1> QED  BY <1>6, <1>7 DEF Coarse!BeginBurstEvent

LEMMA StopEndOrWaitIs ==
  ASSUME Ordered, Active, NEW u, Sound(u), NEW poll, StopEndOrWait(u, poll), UNCHANGED asked
  PROVE  Coarse!StopEndOrWait(AutoOf(u)) /\ ModeAfter(poll)
<1>1. CASE \E reason \in {"manualStop", "endSession"} : Finish(u, reason, poll)
  BY <1>1, FinishEnds, FinishMode DEF Coarse!StopEndOrWait
<1>2. CASE ~u.stop /\ Continue([u EXCEPT !.state = "WaitingGap"])
  <2> DEFINE t == [u EXCEPT !.state = "WaitingGap"]
  <2>1. Continue(t)
    BY <1>2
  <2>2. /\ t.state = "WaitingGap" /\ t.config = u.config /\ t.pending = u.pending
        /\ t.stop = u.stop /\ t.target = u.target /\ t.done = u.done /\ u.state # "Idle"
    BY StateHeld DEF Sound, Typed
  <2> HIDE DEF t
  <2>3. AutoOf(t) = [AutoOf(u) EXCEPT !.state = "WaitingGap"]
    BY <2>2, AutoSame
  <2>4. Coarse!Release
    BY <2>1, <2>2 DEF Continue, Coarse!Release, RelayOf, CallbackOf
  <2>5. Coarse!Continue(AutoOf(t)) /\ ModeAfter(poll)
    BY <2>1, <2>2, ContinueIs, ContinueMode
  <2>6. AutoOf(u).stop = "nobody"
    BY <1>2 DEF AutoOf
  <2> QED  BY <2>3, <2>4, <2>5, <2>6 DEF Coarse!StopEndOrWait, Coarse!GoesOn, Coarse!WaitForGap
<1> QED  BY <1>1, <1>2 DEF StopEndOrWait

LEMMA FailMayHappen ==
  ASSUME NEW s, UpdateFails(s)
  PROVE  Coarse!UpdateMayFail(AutoOf(s))
BY DEF UpdateFails, Coarse!UpdateMayFail, AutoOf

(* A pulse that ends leaves the session's mode in use, a poll of the session
   forgets it where it ended. *)
LEMMA ModeOfRelay == ModeAfter(FALSE) => ModeInUse' = "automatic"
BY DEF ModeAfter

LEMMA ModeOfPoll == ModeAfter(TRUE) => Coarse!Forget
BY DEF ModeAfter, Coarse!Forget, AutoOf, Active

(* What RelayExecution knows of a session that runs. *)
LEMMA SeenActive ==
  ASSUME Ordered, Active
  PROVE  /\ AutoOf(session).active /\ AutoOf(session).state = session.state
         /\ ModeInUse = "automatic" /\ Coarse!SessionActive
         /\ session.state = "Pulse" => RelayOf(session) = "On" /\ CallbackOf(session) = "main"
         /\ session.state = "BurstPulse" => RelayOf(session) = "On" /\ CallbackOf(session) = "intra"
         /\ session.state \notin {"Pulse", "BurstPulse"} => RelayOf(session) = "Idle"
<1>1. "start" \in asked
  BY NoSessionTyped DEF Ordered, Active
<1>2. ModeInUse = "automatic"
  BY <1>1 DEF ModeInUse
<1>3. AutoOf(session).active /\ AutoOf(session).state = session.state
  BY DEF AutoOf, Active
<1> QED  BY <1>2, <1>3 DEF Coarse!SessionActive, RelayOf, CallbackOf

LEMMA MainPulseDoneIs ==
  ASSUME Inv, Ordered, MainPulseDone
  PROVE  Coarse!MainPulseDone
<1> DEFINE s == [session EXCEPT !.strokes = @ + 1]
           u == Updated(s)
<1>1. session.state = "Pulse" /\ Active /\ UNCHANGED asked
  BY DEF MainPulseDone, Active
<1>2. /\ Sound(s) /\ s.state = "Pulse" /\ s.config = session.config
      /\ s.pending = session.pending /\ s.stop = session.stop
      /\ s.target = session.target /\ s.done = session.done
  BY <1>1, StrokeCounted
<1>3. \/ UpdateFails(s) /\ Finish(s, "error", FALSE)
      \/ BurstAfterMain(u)
  BY DEF MainPulseDone
<1> HIDE DEF s
<1>4. AutoOf(s) = AutoOf(session)
  BY <1>1, <1>2 DEF AutoOf
<1>5. /\ AutoOf(u) = Coarse!Updated(AutoOf(session)) /\ Sound(u)
      /\ AutoOf(u).burstsOn <=> u.config.burstsOn
  BY <1>2, <1>4, AutoUpdated, UpdatedSound DEF AutoOf
<1> HIDE DEF u
<1>6. /\ \/ Coarse!UpdateMayFail(AutoOf(session)) /\ Coarse!EndSession(FALSE)
         \/ AutoOf(u).burstsOn /\ Coarse!BeginBurstEvent(AutoOf(u))
         \/ Coarse!StopEndOrWait(AutoOf(u))
      /\ ModeAfter(FALSE)
  <2>1. CASE UpdateFails(s) /\ Finish(s, "error", FALSE)
    BY <1>1, <1>4, <2>1, FailMayHappen, FinishFails, FinishMode
  <2>2. CASE u.config.burstsOn /\ BeginBurstEvent(u)
    BY <1>1, <1>5, <2>2, BeginBurstIs
  <2>3. CASE StopEndOrWait(u, FALSE)
    BY <1>1, <1>5, <2>3, StopEndOrWaitIs
  <2> QED  BY <1>3, <2>1, <2>2, <2>3 DEF BurstAfterMain
<1> QED  BY <1>1, <1>5, <1>6, SeenActive, ModeOfRelay DEF Coarse!MainPulseDone

LEMMA IntraPulseDoneIs ==
  ASSUME Inv, Ordered, IntraPulseDone
  PROVE  Coarse!IntraPulseDone
<1> DEFINE s == [session EXCEPT !.done = @ + 1]
           u == Updated(s)
<1>1. session.state = "BurstPulse" /\ Active /\ UNCHANGED asked
  BY DEF IntraPulseDone, Active
<1>2. /\ Sound(s) /\ Reserved(s) /\ s.state = "BurstPulse" /\ s.config = session.config
      /\ s.pending = session.pending /\ s.stop = session.stop
      /\ s.target = session.target /\ s.done = session.done + 1
  BY <1>1, PulseCounted
<1>3. \/ UpdateFails(s) /\ Finish(s, "error", FALSE)
      \/ u.state = "WaitingGap" /\ StopEndOrWait(u, FALSE)
      \/ u.state # "WaitingGap" /\ u.done >= u.target /\ FinishBurstEvent(u)
      \/ u.state # "WaitingGap" /\ u.done < u.target
         /\ (IntraPulse(u) \/ Continue([u EXCEPT !.state = "BurstGap"]))
  BY DEF IntraPulseDone
<1> HIDE DEF s
<1>4. AutoOf(s) = [AutoOf(session) EXCEPT !.done = @ + 1]
  BY <1>1, <1>2, AutoCounted
<1>5. /\ AutoOf(u) = Coarse!Updated(AutoOf(s)) /\ Sound(u) /\ Reserved(u)
      /\ u.state \in {"WaitingGap", "BurstPulse"}
  BY <1>2, AutoUpdated, UpdatedSound
<1>6. /\ AutoOf(u).state = u.state /\ AutoOf(u).done = u.done
      /\ AutoOf(u).target = u.target
  BY DEF AutoOf
<1>7. Coarse!UpdateMayFail(AutoOf(s)) => Coarse!UpdateMayFail(AutoOf(session))
  BY <1>2 DEF Coarse!UpdateMayFail, AutoOf
<1> HIDE DEF u
<1> DEFINE a == AutoOf(u)
<1>8. /\ \/ Coarse!UpdateMayFail(AutoOf(session)) /\ Coarse!EndSession(FALSE)
         \/ (a.state = "WaitingGap" \/ a.done >= a.target) /\ Coarse!StopEndOrWait(a)
         \/ /\ a.state = "BurstPulse" /\ a.done < a.target
            /\ \/ Coarse!IntraPulse(a)
               \/ Coarse!Release /\ Coarse!Continue([a EXCEPT !.state = "BurstGap"])
      /\ ModeAfter(FALSE)
  <2>1. CASE UpdateFails(s) /\ Finish(s, "error", FALSE)
    BY <1>1, <1>7, <2>1, FailMayHappen, FinishFails, FinishMode
  <2>2. CASE u.state = "WaitingGap" /\ StopEndOrWait(u, FALSE)
    BY <1>1, <1>5, <1>6, <2>2, StopEndOrWaitIs
  <2>3. CASE u.state # "WaitingGap" /\ u.done >= u.target /\ FinishBurstEvent(u)
    <3> DEFINE t == [u EXCEPT !.bursts = @ + 1, !.plan = Advance(@)]
    <3>1. StopEndOrWait(t, FALSE)
      BY <2>3 DEF FinishBurstEvent
    <3>2. /\ Sound(t) /\ t.state = u.state /\ t.config = u.config
          /\ t.pending = u.pending /\ t.stop = u.stop
          /\ t.target = u.target /\ t.done = u.done
      BY <1>5, <2>3, FinishedSound DEF InBurst
    <3> HIDE DEF t
    <3>3. AutoOf(t) = a
      BY <3>2 DEF AutoOf
    <3> QED  BY <1>1, <1>6, <2>3, <3>1, <3>2, <3>3, StopEndOrWaitIs
  <2>4. CASE u.state # "WaitingGap" /\ u.done < u.target /\ IntraPulse(u)
    BY <1>1, <1>5, <1>6, <2>4, IntraPulseIs
  <2>5. CASE u.state # "WaitingGap" /\ u.done < u.target
             /\ Continue([u EXCEPT !.state = "BurstGap"])
    <3> DEFINE t == [u EXCEPT !.state = "BurstGap"]
    <3>1. /\ t.state = "BurstGap" /\ t.config = u.config /\ t.pending = u.pending
          /\ t.stop = u.stop /\ t.target = u.target /\ t.done = u.done
      BY <1>5, StateHeld
    <3>2. Continue(t)
      BY <2>5
    <3> HIDE DEF t
    <3>3. AutoOf(t) = [a EXCEPT !.state = "BurstGap"]
      BY <1>5, <3>1, AutoSame
    <3>4. Coarse!Release
      BY <3>1, <3>2 DEF Continue, Coarse!Release, RelayOf, CallbackOf
    <3>5. Coarse!Continue(AutoOf(t)) /\ ModeAfter(FALSE)
      BY <1>1, <3>1, <3>2, ContinueIs, ContinueMode
    <3> QED  BY <1>5, <1>6, <2>5, <3>3, <3>4, <3>5
  <2> QED  BY <1>3, <2>1, <2>2, <2>3, <2>4, <2>5
<1> HIDE DEF a
<1>9. a = Coarse!Updated([AutoOf(session) EXCEPT !.done = @ + 1])
  BY <1>4, <1>5 DEF a
<1> QED  BY <1>1, <1>8, <1>9, SeenActive, ModeOfRelay DEF Coarse!IntraPulseDone

LEMMA StartDelayElapsedIs ==
  ASSUME Inv, Ordered, StartDelayElapsed
  PROVE  Coarse!StartDelayElapsed
<1> DEFINE u == Updated(session)
<1>1. session.state = "StartDelay" /\ Active /\ UNCHANGED asked /\ Sound(session)
  BY NoSessionTyped DEF StartDelayElapsed, Active, Inv, Good
<1>2. \/ UpdateFails(session) /\ Finish(session, "error", TRUE)
      \/ MainPulse(u)
  BY DEF StartDelayElapsed
<1>3. AutoOf(u) = Coarse!Updated(AutoOf(session)) /\ Sound(u)
  BY <1>1, AutoUpdated, UpdatedSound
<1> HIDE DEF u
<1>4. /\ \/ Coarse!UpdateMayFail(AutoOf(session)) /\ Coarse!EndSession(FALSE)
         \/ Coarse!MainPulse(AutoOf(u))
      /\ ModeAfter(TRUE)
  BY <1>1, <1>2, <1>3, FailMayHappen, FinishFails, FinishMode, MainPulseIs
<1> QED  BY <1>1, <1>3, <1>4, SeenActive, ModeOfPoll DEF Coarse!StartDelayElapsed

LEMMA BurstGapPollIs ==
  ASSUME Inv, Ordered, BurstGapPoll
  PROVE  Coarse!BurstGapPoll
<1> DEFINE u == Updated(session)
<1>1. session.state = "BurstGap" /\ Active /\ UNCHANGED asked /\ Sound(session)
  BY NoSessionTyped DEF BurstGapPoll, Active, Inv, Good
<1>2. \/ UpdateFails(session) /\ Finish(session, "error", TRUE)
      \/ IntraPulse(u)
  BY DEF BurstGapPoll
<1>3. AutoOf(u) = Coarse!Updated(AutoOf(session)) /\ Sound(u)
  BY <1>1, AutoUpdated, UpdatedSound
<1> HIDE DEF u
<1>4. /\ \/ Coarse!UpdateMayFail(AutoOf(session)) /\ Coarse!EndSession(FALSE)
         \/ Coarse!IntraPulse(AutoOf(u))
      /\ ModeAfter(TRUE)
  BY <1>1, <1>2, <1>3, FailMayHappen, FinishFails, FinishMode, IntraPulseIs
<1> QED  BY <1>1, <1>3, <1>4, SeenActive, ModeOfPoll DEF Coarse!BurstGapPoll

LEMMA WaitingGapPollIs ==
  ASSUME Inv, Ordered, WaitingGapPoll
  PROVE  Coarse!WaitingGapPoll
<1> DEFINE u == Updated(session)
           a == AutoOf(session)
<1>1. session.state = "WaitingGap" /\ Active /\ UNCHANGED asked /\ Sound(session)
  BY NoSessionTyped DEF WaitingGapPoll, Active, Inv, Good
<1>2. \/ \E reason \in {"manualStop", "endSession"} : Finish(session, reason, TRUE)
      \/ /\ ~session.stop
         /\ \/ session.config.burstsOn /\ BeginBurstEvent(session)
            \/ UpdateFails(session) /\ Finish(session, "error", TRUE)
            \/ u.config.burstsOn /\ BeginBurstEvent(u)
            \/ MainPulse(u)
  BY DEF WaitingGapPoll, WaitingGap, GapOver
<1>3. /\ AutoOf(u) = Coarse!Updated(a) /\ Sound(u)
      /\ AutoOf(u).burstsOn <=> u.config.burstsOn
  BY <1>1, AutoUpdated, UpdatedSound DEF AutoOf
<1>4. a.burstsOn <=> session.config.burstsOn
  BY <1>1, NoConfigAssumption DEF AutoOf, HasBursts, Sound, Typed
<1>5. ~session.stop => Coarse!GoesOn(a)
  BY DEF Coarse!GoesOn, AutoOf
<1> HIDE DEF u, a
<1>6. /\ \/ Coarse!EndSession(TRUE)
         \/ /\ Coarse!GoesOn(a)
            /\ \/ a.burstsOn /\ Coarse!BeginBurstEvent(a)
               \/ Coarse!UpdateMayFail(a) /\ Coarse!EndSession(FALSE)
               \/ AutoOf(u).burstsOn /\ Coarse!BeginBurstEvent(AutoOf(u))
               \/ Coarse!MainPulse(AutoOf(u))
      /\ ModeAfter(TRUE)
  <2>1. CASE \E reason \in {"manualStop", "endSession"} : Finish(session, reason, TRUE)
    BY <1>1, <2>1, FinishEnds, FinishMode
  <2>2. CASE ~session.stop /\ session.config.burstsOn /\ BeginBurstEvent(session)
    BY <1>1, <1>4, <1>5, <2>2, BeginBurstIs DEF a
  <2>3. CASE ~session.stop /\ UpdateFails(session) /\ Finish(session, "error", TRUE)
    BY <1>1, <1>5, <2>3, FailMayHappen, FinishFails, FinishMode DEF a
  <2>4. CASE ~session.stop /\ u.config.burstsOn /\ BeginBurstEvent(u)
    BY <1>1, <1>3, <1>5, <2>4, BeginBurstIs
  <2>5. CASE ~session.stop /\ MainPulse(u)
    BY <1>1, <1>3, <1>5, <2>5, MainPulseIs
  <2> QED  BY <1>2, <2>1, <2>2, <2>3, <2>4, <2>5
<1> QED  BY <1>1, <1>3, <1>6, SeenActive, ModeOfPoll DEF a, Coarse!WaitingGapPoll

LEMMA TickIs ==
  ASSUME Tick
  PROVE  UNCHANGED Coarse!vars
<1>1. UNCHANGED <<session, result, asked>>
  BY DEF Tick
<1> QED  BY <1>1 DEF Coarse!vars, RelayOf, CallbackOf, AutoOf, HasBursts, ModeInUse,
            Notices, Log, Entry, Answers, Active

LEMMA NextIs ==
  ASSUME Inv, Ordered, [Next]_vars
  PROVE  Steps
<1>1. CASE RelayPoll
  BY <1>1, MainPulseDoneIs, IntraPulseDoneIs DEF RelayPoll, Steps, Coarse!Next, Coarse!RelayPoll
<1>2. CASE ExecPoll
  BY <1>2, StartDelayElapsedIs, BurstGapPollIs, WaitingGapPollIs
     DEF ExecPoll, Steps, Coarse!Next, Coarse!ExecPoll
<1>3. CASE UNCHANGED vars
  BY <1>3 DEF vars, Steps, Coarse!vars, RelayOf, CallbackOf, AutoOf, HasBursts, ModeInUse,
            Notices, Log, Entry, Answers, Active
<1>4. CASE Tick
  BY <1>4, TickIs DEF Steps
<1> QED  BY <1>1, <1>2, <1>3, <1>4, StartIs, RequestStopIs, QueueUpdateIs, AbortIs DEF Next

-----------------------------------------------------------------------------
(* The order of the commands is kept. *)

(* What a poll makes of a session keeps its stop request, unless it is over. *)
LEMMA StopHeld ==
  ASSUME NEW u, Sound(u),
         \/ MainPulse(u) \/ IntraPulse(u) \/ BeginBurstEvent(u)
         \/ Continue([u EXCEPT !.state = "BurstGap"])
         \/ \E poll \in BOOLEAN : StopEndOrWait(u, poll)
  PROVE  session' = NoSession \/ session'.stop = u.stop
<1>1. CASE \E st \in States : session' = [u EXCEPT !.state = st]
  BY <1>1, StateHeld
<1>2. CASE BeginBurstEvent(u)
  <2>1. PICK n \in 1..MaxBurstStrokes :
          session' = [[u EXCEPT !.target = n, !.done = 0] EXCEPT !.state = "BurstPulse"]
    BY <1>2 DEF BeginBurstEvent, IntraPulse, Continue
  <2> QED  BY <2>1 DEF Sound, Typed, SessionType
<1>3. CASE session' = NoSession
  BY <1>3
<1>4. \/ BeginBurstEvent(u) \/ session' = NoSession
      \/ session' \in {[u EXCEPT !.state = "Pulse"], [u EXCEPT !.state = "BurstPulse"],
                       [u EXCEPT !.state = "BurstGap"], [u EXCEPT !.state = "WaitingGap"]}
  BY DEF MainPulse, IntraPulse, Continue, StopEndOrWait, Finish
<1> QED  BY <1>1, <1>2, <1>3, <1>4 DEF States

LEMMA StopKept ==
  ASSUME Inv, RelayPoll \/ ExecPoll
  PROVE  session' = NoSession \/ session'.stop = session.stop
<1>1. ASSUME NEW s, NEW reason, NEW poll, Finish(s, reason, poll)
      PROVE  session' = NoSession
  BY <1>1 DEF Finish
<1>2. CASE MainPulseDone
  <2> DEFINE s == [session EXCEPT !.strokes = @ + 1]
             u == Updated(s)
  <2>1. Sound(s) /\ s.stop = session.stop
    BY <1>2, StrokeCounted DEF MainPulseDone
  <2>2. Finish(s, "error", FALSE) \/ BeginBurstEvent(u) \/ StopEndOrWait(u, FALSE)
    BY <1>2 DEF MainPulseDone, BurstAfterMain
  <2> HIDE DEF s
  <2>3. Sound(u) /\ u.stop = session.stop
    BY <2>1, UpdatedSound, AutoUpdated
  <2> HIDE DEF u
  <2> QED  BY <1>1, <2>2, <2>3, StopHeld
<1>3. CASE IntraPulseDone
  <2> DEFINE s == [session EXCEPT !.done = @ + 1]
             u == Updated(s)
             t == [u EXCEPT !.bursts = @ + 1, !.plan = Advance(@)]
  <2>1. Sound(s) /\ Reserved(s) /\ s.stop = session.stop /\ s.state = "BurstPulse"
    BY <1>3, PulseCounted DEF IntraPulseDone
  <2>2. \/ Finish(s, "error", FALSE) \/ StopEndOrWait(u, FALSE)
        \/ u.state # "WaitingGap" /\ StopEndOrWait(t, FALSE)
        \/ IntraPulse(u) \/ Continue([u EXCEPT !.state = "BurstGap"])
    BY <1>3 DEF IntraPulseDone, FinishBurstEvent
  <2> HIDE DEF s
  <2>3. /\ Sound(u) /\ Reserved(u) /\ u.stop = session.stop
        /\ u.state # "WaitingGap" => InBurst(u)
    BY <2>1, UpdatedSound, AutoUpdated DEF InBurst
  <2> HIDE DEF u
  <2>4. u.state # "WaitingGap" => Sound(t) /\ t.stop = u.stop
    BY <2>3, FinishedSound
  <2> HIDE DEF t
  <2> QED  BY <1>1, <2>2, <2>3, <2>4, StopHeld
<1>4. CASE ExecPoll
  <2> DEFINE u == Updated(session)
  <2>1. Sound(session)
    BY <1>4, NoSessionTyped DEF Inv, Good, ExecPoll, StartDelayElapsed, BurstGapPoll, WaitingGapPoll
  <2>2. \/ \E reason, poll : Finish(session, reason, poll)
        \/ BeginBurstEvent(session) \/ BeginBurstEvent(u) \/ MainPulse(u) \/ IntraPulse(u)
    BY <1>4 DEF ExecPoll, StartDelayElapsed, BurstGapPoll, WaitingGapPoll, WaitingGap, GapOver
  <2>3. Sound(u) /\ u.stop = session.stop
    BY <2>1, UpdatedSound, AutoUpdated
  <2> HIDE DEF u
  <2> QED  BY <1>1, <2>1, <2>2, <2>3, StopHeld
<1> QED  BY <1>2, <1>3, <1>4 DEF RelayPoll

LEMMA OrderedNext ==
  ASSUME Inv, Ordered, [Next]_vars
  PROVE  Ordered'
<1>1. Active => "start" \in asked /\ session \in SessionType
  BY NoSessionTyped DEF Ordered, Active, Inv, Good, Sound, Typed
<1>2. CASE RelayPoll \/ ExecPoll
  <2>1. Active /\ UNCHANGED asked
    BY <1>2 DEF RelayPoll, ExecPoll, MainPulseDone, IntraPulseDone, StartDelayElapsed,
                BurstGapPoll, WaitingGapPoll, Active
  <2> QED  BY <1>1, <1>2, <2>1, StopKept, NoSessionTyped DEF Ordered, Active
<1>3. CASE Start
  <2>1. asked = {} /\ asked' = {"start"} /\ ~session'.stop
    BY <1>3 DEF Start, Ask, Ordered, Continue, NoSession
  <2> QED  BY <2>1 DEF Ordered
<1>4. CASE RequestStop
  <2>1. /\ Active /\ asked' = asked \cup {"stop"} /\ session' = [session EXCEPT !.stop = TRUE]
    BY <1>4 DEF RequestStop, Ask, Continue
  <2>2. session'.stop
    BY <1>1, <2>1 DEF SessionType
  <2> QED  BY <1>1, <2>1, <2>2 DEF Ordered
<1>5. CASE QueueUpdate
  <2>1. PICK u \in Updates, c \in UpdateConfigs :
          Active /\ asked' = asked \cup {u} /\ session' = [session EXCEPT !.pending = c]
    BY <1>5 DEF QueueUpdate, Ask, Continue
  <2>2. session'.stop = session.stop /\ u # "stop"
    BY <1>1, <2>1, UpdatesAssumption DEF SessionType
  <2> QED  BY <1>1, <2>1, <2>2 DEF Ordered
<1>6. CASE Abort
  <2>1. Active /\ asked' = asked \cup {"abort"} /\ session' = NoSession
    BY <1>6 DEF Abort, Ask, Finish
  <2> QED  BY <1>1, <2>1, NoSessionTyped DEF Ordered, Active
<1>7. CASE Tick \/ UNCHANGED vars
  <2>1. UNCHANGED <<session, asked>>
    BY <1>7 DEF Tick, vars
  <2> QED  BY <2>1 DEF Ordered, Active
<1> QED  BY <1>2, <1>3, <1>4, <1>5, <1>6, <1>7 DEF Next

(* Besides Inv: bursts run only where they are on, and commands come in order. *)
StrongInv == Inv /\ Ordered /\ (Active => Lit(session))

LEMMA InitStrong == Init => StrongInv
BY InitInv, NoSessionTyped DEF Init, StrongInv, Ordered, Active

LEMMA NextStrong == StrongInv /\ [Next]_vars => StrongInv'
<1> SUFFICES ASSUME StrongInv, [Next]_vars PROVE StrongInv'
  OBVIOUS
<1>1. Inv' /\ Ordered'
  BY NextInv, OrderedNext DEF StrongInv
<1>2. CASE Next
  <2>1. Holds(session')
    BY <1>2, StepsHold DEF StrongInv
  <2> QED  BY <1>1, <2>1 DEF StrongInv, Holds
<1>3. CASE UNCHANGED vars
  BY <1>1, <1>3 DEF StrongInv, vars, Active
<1> QED  BY <1>2, <1>3

LEMMA StrongInvariance == Spec => []StrongInv
BY InitStrong, NextStrong, PTL DEF Spec

(* Updates hold, for every set of configurations: bursts that an update has
   switched off do not come back, and a stroke runs under the newest accepted
   configuration (applyPendingUpdate, startNextBurstPulse, P11-D1). *)
THEOREM UpdatesKeepTheirWord == Spec => UpdatesHold
<1>1. StrongInv /\ [Next]_vars
        => /\ [Active /\ session' # NoSession /\ ~session.config.burstsOn /\ ~session'.config.burstsOn
                => /\ session'.state = "BurstPulse"
                        => session.state = "BurstPulse" /\ session'.done = session.done
                   /\ session'.state # "BurstGap"]_vars
           /\ [session'.state = "Pulse" /\ session.state \notin {"Idle", "Pulse"}
                => /\ session'.pending = NoConfig
                   /\ session.pending # NoConfig => session'.config = session.pending]_vars
  BY StepsHold DEF StrongInv, Holds, OffIsFinal, LatestConfig, Active
<1> QED  BY <1>1, StrongInvariance, PTL DEF Spec, UpdatesHold, BurstsOffIsFinal, StrokesUseLatestConfig

(* Every session is one that RelayExecution allows, for every set of
   configurations and updates: what that module promises of the relay, of the
   answers to stop and of the notices holds with the schedule computed
   (AutomaticSessionMode over RelayController and ExecutionContext). *)
THEOREM SessionRefinesRelay == Spec => ImplementsRelay
<1>1. Init => Coarse!Init
  <2> SUFFICES ASSUME Init PROVE Coarse!Init
    OBVIOUS
  <2>1. session = NoSession /\ asked = {} /\ ~Active
    BY NoSessionTyped DEF Init, Active
  <2>2. /\ RelayOf(session) = "Idle" /\ CallbackOf(session) = "none" /\ ModeInUse = "none"
        /\ AutoOf(session) = Coarse!NoSession /\ Notices = [started |-> 0, completed |-> 0]
    BY <2>1, NoAuto, NoSessionTyped DEF RelayOf, CallbackOf, ModeInUse, Notices
  <2>3. Log = [c \in Commands |-> Coarse!NoCmd]
    BY <2>1 DEF Log, Entry, Coarse!NoCmd
  <2> QED  BY <2>2, <2>3 DEF Coarse!Init, Coarse!NoStroke, Coarse!NoBurst
<1>2. StrongInv /\ [Next]_vars => [Coarse!Next]_Coarse!vars
  BY NextIs DEF StrongInv, Steps
<1> QED  BY <1>1, <1>2, StrongInvariance, PTL DEF Spec, ImplementsRelay, Coarse!Spec
=============================================================================
