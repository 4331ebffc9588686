------------------------- MODULE PatternGraphProofs -------------------------
(***************************************************************************)
(* Proofs about PatternGraph, for every set of stored forms, every edit    *)
(* the page offers, every length of stroke and every bound: the form that  *)
(* is shown is the form that is sent, the page plans the bursts that the   *)
(* device will run, and a preview keeps to time, band and plan.            *)
(*                                                                         *)
(* The first two follow from one invariant: the form is normal, which is   *)
(* to say that each stage of Normalize leaves it as it is.  A stage        *)
(* changes only fields of its own, establishes their rules, and is the     *)
(* identity on a form that keeps them: that is what the first lemmas say.  *)
(*                                                                         *)
(* The preview has an invariant of its own, PreviewInv: the pen is at the  *)
(* last point (OnTime); the bursts drawn are those the plan has given, and *)
(* none was drawn before it was due (Counted); between bursts none is due  *)
(* (NoneDue), and in one the plan's next slot is the very stroke at hand   *)
(* (BurstOf); and the index, the main strokes and the bursts that took the *)
(* place of one add up (Indexed, Unended).                                 *)
(*                                                                         *)
(* The recording has LiveInv: the segments recorded, those on their way    *)
(* and the one that is reported next are one line, in which each follows   *)
(* the one before it in its run unless it is the first of a run (GoesOn).  *)
(***************************************************************************)
EXTENDS PatternGraph, FiniteSetTheorems, WellFoundedInduction, TLAPS

-----------------------------------------------------------------------------
(* The stages *)

PowerRules(f) ==
  /\ f.burstPowerMax \in 0..100 /\ f.burstPowerMin \in 0..f.burstPowerMax
  /\ PowerMirrored(f.burstStyle) => f.burstPowerMin = f.burstPowerMax
  /\ ~PowerMirrored(f.burstStyle) =>
       f.burstPowerMin >= 1 \/ (f.kind = "motor" /\ f.burstPowerMax = 0)
DelayRules(f) ==
  /\ f.burstDelayMax \in 0..300 /\ f.burstDelayMin \in 0..f.burstDelayMax
  /\ DelayMirrored(f.burstStyle) => f.burstDelayMin = f.burstDelayMax
  /\ ~DelayMirrored(f.burstStyle) => f.burstDelayMin >= 1
StrokeRules(f) ==
  f.burstStrokesMax \in 1..100 /\ f.burstStrokesMin \in 1..f.burstStrokesMax
SetSpeedRules(f) ==
  (f.kind = "motor" /\ f.automaticMode = "periodic" /\ f.burstsOn) =>
    f.endSessionMode = "minutes" /\ BurstBasis(f.burstPlacement) = "spread"
BurstRules(f) ==
  /\ f.burstPercent \in 0..100 /\ f.burstPlacement \in Placements
  /\ PowerRules(f) /\ DelayRules(f) /\ StrokeRules(f) /\ SetSpeedRules(f)

(* Two forms agree but for some fields. *)
Same(f, g, changed) == \A k \in DOMAIN f \ changed : g[k] = f[k]

(* What setting the two fields of a band does to a form. *)
Banded(f, g, min, max, lo, hi) ==
  /\ g \in FormType /\ g[min] = lo /\ g[max] = hi
  /\ Same(f, g, {min, max})
  /\ (f[min] = lo /\ f[max] = hi) => g = f

LEMMA BandFields ==
  ASSUME NEW f \in FormType
  PROVE  /\ f.burstPowerMin \in Int /\ f.burstPowerMax \in Int
         /\ f.burstDelayMin \in Int /\ f.burstDelayMax \in Int
         /\ f.burstStrokesMin \in Int /\ f.burstStrokesMax \in Int
         /\ f.kind \in Kinds
         /\ {"kind", "burstStyle"} \subseteq DOMAIN f
  BY DEF FormType

(* The power band of a burst. *)
LEMMA BurstPowerKept ==
  ASSUME NEW f \in FormType
  PROVE  /\ BurstPowerNormal(f) \in FormType
         /\ PowerRules(BurstPowerNormal(f))
         /\ Same(f, BurstPowerNormal(f), {"burstPowerMin", "burstPowerMax"})
         /\ PowerRules(f) => BurstPowerNormal(f) = f
<1>1. CASE PowerMirrored(f.burstStyle)
  <2> DEFINE v == Between(f.burstPowerMax, 0, 100)
  <2>1. BurstPowerNormal(f) = [f EXCEPT !["burstPowerMin"] = v, !["burstPowerMax"] = v]
    BY <1>1 DEF BurstPowerNormal, Mirror
  <2>2. v \in 0..100 /\ (f.burstPowerMax \in 0..100 => v = f.burstPowerMax)
    BY BandFields DEF Between, AtMost, AtLeast
  <2> HIDE DEF v
  <2>3. Banded(f, BurstPowerNormal(f), "burstPowerMin", "burstPowerMax", v, v)
    BY <2>1, <2>2 DEF FormType, Banded, Same
  <2> HIDE DEF PowerMirrored
  <2> QED  BY <1>1, <2>2, <2>3, BandFields DEF Banded, Same, PowerRules
<1>2. CASE ~PowerMirrored(f.burstStyle)
  <2> DEFINE low == IF f.kind = "relay" THEN 1 ELSE 0
             hi == Between(f.burstPowerMax, low, 100)
             v == Between(f.burstPowerMin, 1, 100)
             lo == AtMost(v, hi)
  <2>1. BurstPowerNormal(f) = [f EXCEPT !["burstPowerMin"] = lo, !["burstPowerMax"] = hi]
    BY <1>2 DEF BurstPowerNormal, LowerMinimum
  <2>2. /\ hi \in low..100 /\ (f.burstPowerMax \in low..100 => hi = f.burstPowerMax)
        /\ v \in 1..100 /\ (f.burstPowerMin \in 1..100 => v = f.burstPowerMin)
    BY BandFields DEF Between, AtMost, AtLeast
  <2> HIDE DEF v, hi
  <2>3. /\ lo \in 0..hi /\ (lo >= 1 \/ hi = 0)
        /\ f.burstPowerMin \in 1..hi => lo = f.burstPowerMin
        /\ hi = 0 => lo = 0
    BY <2>2, BandFields DEF AtMost
  <2> HIDE DEF lo
  <2>4. Banded(f, BurstPowerNormal(f), "burstPowerMin", "burstPowerMax", lo, hi)
    BY <2>1, <2>2, <2>3 DEF FormType, Banded, Same
  <2> HIDE DEF PowerMirrored
  <2> QED  BY <1>2, <2>2, <2>3, <2>4, BandFields DEF Banded, Same, PowerRules, Kinds
<1> QED  BY <1>1, <1>2

(* The delays within a burst. *)
LEMMA BurstDelayKept ==
  ASSUME NEW f \in FormType
  PROVE  /\ BurstDelayNormal(f) \in FormType
         /\ DelayRules(BurstDelayNormal(f))
         /\ Same(f, BurstDelayNormal(f), {"burstDelayMin", "burstDelayMax"})
         /\ DelayRules(f) => BurstDelayNormal(f) = f
<1>1. CASE DelayMirrored(f.burstStyle)
  <2> DEFINE v == Between(f.burstDelayMax, 0, 300)
  <2>1. BurstDelayNormal(f) = [f EXCEPT !["burstDelayMin"] = v, !["burstDelayMax"] = v]
    BY <1>1 DEF BurstDelayNormal, Mirror
  <2>2. v \in 0..300 /\ (f.burstDelayMax \in 0..300 => v = f.burstDelayMax)
    BY BandFields DEF Between, AtMost, AtLeast
  <2> HIDE DEF v
  <2>3. Banded(f, BurstDelayNormal(f), "burstDelayMin", "burstDelayMax", v, v)
    BY <2>1, <2>2 DEF FormType, Banded, Same
  <2> HIDE DEF DelayMirrored
  <2> QED  BY <1>1, <2>2, <2>3, BandFields DEF Banded, Same, DelayRules
<1>2. CASE ~DelayMirrored(f.burstStyle) /\ f.kind = "relay"
  <2> DEFINE hi == Between(f.burstDelayMax, 1, 300)
             v  == Between(f.burstDelayMin, 1, 300)
             lo == AtMost(v, hi)
  <2>1. BurstDelayNormal(f) = [f EXCEPT !["burstDelayMin"] = lo, !["burstDelayMax"] = hi]
    BY <1>2 DEF BurstDelayNormal, LowerMinimum
  <2>2. /\ hi \in 1..300 /\ (f.burstDelayMax \in 1..300 => hi = f.burstDelayMax)
        /\ v \in 1..300 /\ (f.burstDelayMin \in 1..300 => v = f.burstDelayMin)
    BY BandFields, SMTT(20) DEF Between, AtMost, AtLeast
  <2> HIDE DEF v, hi
  <2>3. lo \in 1..hi /\ (f.burstDelayMin \in 1..hi => lo = f.burstDelayMin)
    BY <2>2, BandFields DEF AtMost
  <2> HIDE DEF lo
  <2>4. Banded(f, BurstDelayNormal(f), "burstDelayMin", "burstDelayMax", lo, hi)
    BY <2>1, <2>2, <2>3 DEF FormType, Banded, Same
  <2> HIDE DEF DelayMirrored
  <2> QED  BY <1>2, <2>2, <2>3, <2>4, BandFields DEF Banded, Same, DelayRules
<1>3. CASE ~DelayMirrored(f.burstStyle) /\ f.kind # "relay"
  <2> DEFINE lo == Between(f.burstDelayMin, 1, 300)
             v  == Between(f.burstDelayMax, 0, 300)
             hi == AtLeast(v, lo)
  <2>1. BurstDelayNormal(f) = [f EXCEPT !["burstDelayMin"] = lo, !["burstDelayMax"] = hi]
    BY <1>3 DEF BurstDelayNormal, RaiseMaximum
  <2>2. /\ lo \in 1..300 /\ (f.burstDelayMin \in 1..300 => lo = f.burstDelayMin)
        /\ v \in 0..300 /\ (f.burstDelayMax \in 0..300 => v = f.burstDelayMax)
    BY BandFields, SMTT(20) DEF Between, AtMost, AtLeast
  <2> HIDE DEF v, lo
  <2>3. hi \in lo..300 /\ (f.burstDelayMax \in lo..300 => hi = f.burstDelayMax)
    BY <2>2, BandFields DEF AtLeast
  <2> HIDE DEF hi
  <2>4. Banded(f, BurstDelayNormal(f), "burstDelayMin", "burstDelayMax", lo, hi)
    BY <2>1, <2>2, <2>3 DEF FormType, Banded, Same
  <2> HIDE DEF DelayMirrored
  <2> QED  BY <1>3, <2>2, <2>3, <2>4, BandFields, SMTT(20) DEF Banded, Same, DelayRules
<1> QED  BY <1>1, <1>2, <1>3

(* The number of strokes of a burst. *)
LEMMA BurstStrokesKept ==
  ASSUME NEW f \in FormType
  PROVE  LET g == LowerMinimum(f, "burstStrokesMin", "burstStrokesMax", 1, 1, 100) IN
         /\ g \in FormType
         /\ StrokeRules(g)
         /\ Same(f, g, {"burstStrokesMin", "burstStrokesMax"})
         /\ StrokeRules(f) => g = f
<1> DEFINE g == LowerMinimum(f, "burstStrokesMin", "burstStrokesMax", 1, 1, 100)
           hi == Between(f.burstStrokesMax, 1, 100)
           v  == Between(f.burstStrokesMin, 1, 100)
           lo == AtMost(v, hi)
<1>1. g = [f EXCEPT !["burstStrokesMin"] = lo, !["burstStrokesMax"] = hi]
  BY DEF LowerMinimum
<1>2. /\ hi \in 1..100 /\ (f.burstStrokesMax \in 1..100 => hi = f.burstStrokesMax)
      /\ v \in 1..100 /\ (f.burstStrokesMin \in 1..100 => v = f.burstStrokesMin)
  BY BandFields DEF Between, AtMost, AtLeast
<1> HIDE DEF v, hi, g
<1>3. lo \in 1..hi /\ (f.burstStrokesMin \in 1..hi => lo = f.burstStrokesMin)
  BY <1>2, BandFields DEF AtMost
<1> HIDE DEF lo
<1>4. Banded(f, g, "burstStrokesMin", "burstStrokesMax", lo, hi)
  BY <1>1, <1>2, <1>3 DEF FormType, Banded, Same
<1>5. /\ g \in FormType /\ StrokeRules(g)
      /\ Same(f, g, {"burstStrokesMin", "burstStrokesMax"})
      /\ StrokeRules(f) => g = f
  BY <1>2, <1>3, <1>4, BandFields DEF Banded, StrokeRules
<1> QED  BY <1>5 DEF g

(* Placements, and their spread variants, stay what they are. *)
LEMMA PlacementsResolve ==
  ASSUME NEW p
  PROVE  /\ ResolveBurstPlacement(p) \in Placements
         /\ p \in Placements => ResolveBurstPlacement(p) = p
<1>1. p \in Placements <=> p \in InsteadOf \cup MainPlus \cup Bare
  BY DEF Placements
<1>2. DefaultBurstPlacement \in Placements
  BY DEF Placements, DefaultBurstPlacement, MainPlus
<1> QED  BY <1>1, <1>2 DEF ResolveBurstPlacement
(* A placement spread over the session. *)
LEMMA SpreadOnlyKept ==
  ASSUME NEW p \in Placements
  PROVE  /\ SpreadOnly(p) \in Placements
         /\ BurstBasis(SpreadOnly(p)) = "spread"
         /\ BurstBasis(p) = "spread" => SpreadOnly(p) = p
<1>1. /\ "insteadOfSessionSpread" \in Placements
      /\ "mainPlusSessionSpread" \in Placements
  BY DEF Placements, InsteadOf, MainPlus
<1>2. /\ BurstBasis("insteadOfSessionSpread") = "spread"
      /\ BurstBasis("mainPlusSessionSpread") = "spread"
  BY DEF BurstBasis
<1> QED  BY <1>1, <1>2 DEF SpreadOnly
(* Bursts of a motor at a set speed. *)
LEMMA SetSpeedKept ==
  ASSUME NEW f \in FormType
  PROVE  LET g == MotorPeriodicBurstRules(f) IN
         /\ g \in FormType
         /\ SetSpeedRules(g)
         /\ Same(f, g, {"burstPlacement", "endSessionMode"})
         /\ g.endSessionMode \in {f.endSessionMode, "minutes"}
         /\ f.burstPlacement \in Placements => g.burstPlacement \in Placements
         /\ SetSpeedRules(f) /\ f.burstPlacement \in Placements => g = f
<1> DEFINE g == MotorPeriodicBurstRules(f)
           p == SpreadOnly(ResolveBurstPlacement(f.burstPlacement))
<1>1. /\ p \in Placements /\ BurstBasis(p) = "spread"
      /\ (f.burstPlacement \in Placements /\ BurstBasis(f.burstPlacement) = "spread")
           => p = f.burstPlacement
  BY PlacementsResolve, SpreadOnlyKept
<1>2. CASE f.kind = "motor" /\ f.automaticMode = "periodic" /\ f.burstsOn
  <2>1. g = [f EXCEPT !.endSessionMode = "minutes", !.burstPlacement = p]
    BY <1>2 DEF MotorPeriodicBurstRules, FormType, EndModes
  <2> HIDE DEF g, p
  <2>2. /\ g \in FormType /\ g.endSessionMode = "minutes" /\ g.burstPlacement = p
        /\ Same(f, g, {"burstPlacement", "endSessionMode"})
    BY <1>1, <2>1 DEF FormType, EndModes, Same
  <2>3. ASSUME f.endSessionMode = "minutes", p = f.burstPlacement PROVE g = f
    BY <2>1, <2>3 DEF FormType, EndModes
  <2> QED  BY <1>1, <1>2, <2>2, <2>3 DEF SetSpeedRules, g
<1>3. CASE ~(f.kind = "motor" /\ f.automaticMode = "periodic" /\ f.burstsOn)
  BY <1>3 DEF MotorPeriodicBurstRules, FormType, EndModes, SetSpeedRules, Same
<1> QED  BY <1>2, <1>3

(* All stages of the burst fields, one after the other. *)
LEMMA BurstFieldsKept ==
  ASSUME NEW f \in FormType
  PROVE  /\ NormalizeBurstFields(f) \in FormType
         /\ BurstRules(NormalizeBurstFields(f))
         /\ Same(f, NormalizeBurstFields(f), BurstFields \cup {"endSessionMode"})
         /\ NormalizeBurstFields(f).endSessionMode \in {f.endSessionMode, "minutes"}
         /\ BurstRules(f) => NormalizeBurstFields(f) = f
         /\ SetSpeedRules(f) => NormalizeBurstFields(f).endSessionMode = f.endSessionMode
         /\ (SetSpeedRules(f) /\ f.burstPlacement \in Placements)
              => NormalizeBurstFields(f).burstPlacement = f.burstPlacement
<1> DEFINE percent == Between(f.burstPercent, 0, 100)
           placement == ResolveBurstPlacement(f.burstPlacement)
           a == [f EXCEPT !.burstPercent = percent, !.burstPlacement = placement]
           b == BurstPowerNormal(a)
           c == BurstDelayNormal(b)
           d == LowerMinimum(c, "burstStrokesMin", "burstStrokesMax", 1, 1, 100)
           e == MotorPeriodicBurstRules(d)
<1>1. NormalizeBurstFields(f) = e
  BY DEF NormalizeBurstFields
<1>0. /\ percent \in 0..100 /\ placement \in Placements
      /\ f.burstPercent \in 0..100 => percent = f.burstPercent
      /\ f.burstPlacement \in Placements => placement = f.burstPlacement
  BY PlacementsResolve DEF FormType, EndModes, Between, AtMost, AtLeast
<1> HIDE DEF percent, placement
<1>2. /\ a \in FormType /\ a.burstPercent \in 0..100 /\ a.burstPlacement = placement
      /\ a.burstPlacement \in Placements
      /\ Same(f, a, {"burstPercent", "burstPlacement"})
  <2>1. percent \in Int
    BY <1>0
  <2>2. a \in FormType /\ a.burstPercent = percent /\ a.burstPlacement = placement
    BY <1>0, <2>1 DEF FormType, EndModes
  <2>3. Same(f, a, {"burstPercent", "burstPlacement"})
    BY DEF FormType, EndModes, Same
  <2> QED  BY <1>0, <2>2, <2>3
<1>3. BurstRules(f) => a = f
  BY <1>0 DEF FormType, EndModes, BurstRules
<1> HIDE DEF a
<1>4. /\ b \in FormType /\ PowerRules(b)
      /\ Same(a, b, {"burstPowerMin", "burstPowerMax"})
      /\ PowerRules(a) => b = a
  BY <1>2, BurstPowerKept
<1> HIDE DEF b
<1>5. /\ c \in FormType /\ DelayRules(c)
      /\ Same(b, c, {"burstDelayMin", "burstDelayMax"})
      /\ DelayRules(b) => c = b
  BY <1>4, BurstDelayKept
<1> HIDE DEF c
<1>6. /\ d \in FormType /\ StrokeRules(d)
      /\ Same(c, d, {"burstStrokesMin", "burstStrokesMax"})
      /\ StrokeRules(c) => d = c
  BY <1>5, BurstStrokesKept
<1> HIDE DEF d
<1>7. /\ e \in FormType /\ SetSpeedRules(e)
      /\ Same(d, e, {"burstPlacement", "endSessionMode"})
      /\ e.endSessionMode \in {d.endSessionMode, "minutes"}
      /\ d.burstPlacement \in Placements => e.burstPlacement \in Placements
      /\ SetSpeedRules(d) /\ d.burstPlacement \in Placements => e = d
  BY <1>6, SetSpeedKept
<1> HIDE DEF e
<1>8. d.burstPlacement \in Placements
  BY <1>2, <1>4, <1>5, <1>6 DEF Same, FormType, EndModes
<1>9. BurstRules(e)
  BY <1>2, <1>4, <1>5, <1>6, <1>7, <1>8
  DEF Same, FormType, EndModes, BurstRules, PowerRules, DelayRules, StrokeRules
<1>10. Same(f, e, BurstFields \cup {"endSessionMode"})
  BY <1>2, <1>4, <1>5, <1>6, <1>7 DEF Same, FormType, EndModes, BurstFields
<1>11. e.endSessionMode \in {f.endSessionMode, "minutes"}
  BY <1>2, <1>4, <1>5, <1>6, <1>7 DEF Same, FormType, EndModes
<1>12. BurstRules(f) => e = f
  BY <1>3, <1>4, <1>5, <1>6, <1>7, <1>8 DEF BurstRules
<1>13. SetSpeedRules(f) => e.endSessionMode = f.endSessionMode
  <2> SUFFICES ASSUME SetSpeedRules(f) PROVE e.endSessionMode = f.endSessionMode
    OBVIOUS
  <2>1. /\ d.kind = f.kind /\ d.automaticMode = f.automaticMode
        /\ d.burstsOn = f.burstsOn /\ d.endSessionMode = f.endSessionMode
        /\ e.kind = f.kind /\ e.automaticMode = f.automaticMode /\ e.burstsOn = f.burstsOn
    BY <1>2, <1>4, <1>5, <1>6, <1>7 DEF Same, FormType, EndModes
  <2>2. CASE f.kind = "motor" /\ f.automaticMode = "periodic" /\ f.burstsOn
    BY <1>7, <2>1, <2>2 DEF SetSpeedRules
  <2>3. CASE ~(f.kind = "motor" /\ f.automaticMode = "periodic" /\ f.burstsOn)
    BY <1>7, <1>8, <2>1, <2>3 DEF SetSpeedRules
  <2> QED  BY <2>2, <2>3
<1>14. (SetSpeedRules(f) /\ f.burstPlacement \in Placements)
         => e.burstPlacement = f.burstPlacement
  <2> SUFFICES ASSUME SetSpeedRules(f), f.burstPlacement \in Placements
               PROVE  e.burstPlacement = f.burstPlacement
    OBVIOUS
  <2>1. /\ d.kind = f.kind /\ d.automaticMode = f.automaticMode
        /\ d.burstsOn = f.burstsOn /\ d.endSessionMode = f.endSessionMode
        /\ d.burstPlacement = f.burstPlacement
    BY <1>0, <1>2, <1>4, <1>5, <1>6 DEF Same, FormType, EndModes
  <2>2. e = d
    BY <1>7, <1>8, <2>1 DEF SetSpeedRules
  <2> QED  BY <2>1, <2>2
<1> QED  BY <1>1, <1>7, <1>9, <1>10, <1>11, <1>12, <1>13, <1>14

ModeRules(f) ==
  /\ f.automaticMode \in Modes(f.kind)
  /\ f.automaticMode \in NeedsEnd(f.kind) => f.endSessionMode # "noAutoEnd"
  /\ (f.kind = "motor" /\ f.automaticMode = "periodic") =>
       BurstBasis(f.burstPlacement) = "spread"

(* The choice of a program. *)
LEMMA ModeChangeKept ==
  ASSUME NEW f \in FormType, NEW m \in Modes(f.kind)
  PROVE  LET g == ModeChange(f, m) IN
         /\ g \in FormType /\ g.automaticMode = m
         /\ ModeRules(g) /\ SetSpeedRules(g)
         /\ Same(f, g, {"automaticMode", "endSessionMode", "burstPlacement"})
         /\ g.endSessionMode \in {f.endSessionMode, "minutes"}
         /\ f.burstPlacement \in Placements => g.burstPlacement \in Placements
         /\ f.kind = "motor" => g.burstPlacement \in Placements
         /\ (/\ m = f.automaticMode /\ ModeRules(f) /\ SetSpeedRules(f)
             /\ f.burstPlacement \in Placements) => g = f
<1> DEFINE p == ResolveBurstPlacement(f.burstPlacement)
           q == IF f.kind = "relay" THEN f.burstPlacement
                ELSE IF m = "periodic" THEN SpreadOnly(p) ELSE p
           end == IF m \in NeedsEnd(f.kind) /\ f.endSessionMode = "noAutoEnd"
                  THEN "minutes" ELSE f.endSessionMode
           h == [f EXCEPT !.automaticMode = m, !.endSessionMode = end, !.burstPlacement = q]
           g == ModeChange(f, m)
<1>1. g = MotorPeriodicBurstRules(h)
  BY DEF ModeChange, FormType, EndModes
<1>2. /\ q \in Placements \cup {"unknown"}
      /\ f.burstPlacement \in Placements => q \in Placements
      /\ (f.kind = "motor" /\ m = "periodic") => BurstBasis(q) = "spread"
      /\ f.kind = "motor" => q \in Placements
      /\ (/\ f.burstPlacement \in Placements
          /\ (f.kind = "motor" /\ m = "periodic") => BurstBasis(f.burstPlacement) = "spread")
           => q = f.burstPlacement
  BY PlacementsResolve, SpreadOnlyKept DEF FormType, EndModes, Kinds
<1>3. m \in RelayModes \cup MotorModes
  BY DEF Modes
<1>4. end \in {"minutes", "strokes", "noAutoEnd"} /\ end \in {f.endSessionMode, "minutes"}
      /\ (m \in NeedsEnd(f.kind) => end # "noAutoEnd")
      /\ ((m \in NeedsEnd(f.kind) => f.endSessionMode # "noAutoEnd") => end = f.endSessionMode)
  BY DEF FormType, EndModes
<1> HIDE DEF q, end
<1>5. /\ h \in FormType /\ h.automaticMode = m /\ h.endSessionMode = end
      /\ h.burstPlacement = q
      /\ Same(f, h, {"automaticMode", "endSessionMode", "burstPlacement"})
  BY <1>2, <1>3, <1>4 DEF FormType, EndModes, Same
<1>6. (m = f.automaticMode /\ end = f.endSessionMode /\ q = f.burstPlacement) => h = f
  BY DEF FormType, EndModes
<1> HIDE DEF h
<1>7. /\ g \in FormType /\ SetSpeedRules(g)
      /\ Same(h, g, {"burstPlacement", "endSessionMode"})
      /\ g.endSessionMode \in {h.endSessionMode, "minutes"}
      /\ h.burstPlacement \in Placements => g.burstPlacement \in Placements
      /\ SetSpeedRules(h) /\ h.burstPlacement \in Placements => g = h
  BY <1>1, <1>5, SetSpeedKept
<1>8. BurstBasis(g.burstPlacement) = "spread" \/ ~(f.kind = "motor" /\ m = "periodic")
  <2> SUFFICES ASSUME f.kind = "motor", m = "periodic"
               PROVE  BurstBasis(g.burstPlacement) = "spread"
    OBVIOUS
  <2>1. h.kind = "motor" /\ h.automaticMode = "periodic"
        /\ BurstBasis(h.burstPlacement) = "spread"
    BY <1>2, <1>5 DEF Same, FormType, EndModes
  <2>2. CASE h.burstsOn
    <3>1. g.kind = "motor" /\ g.automaticMode = "periodic" /\ g.burstsOn
      BY <1>5, <1>7, <2>1, <2>2 DEF Same, FormType, EndModes
    <3> QED  BY <1>7, <3>1 DEF SetSpeedRules
  <2>3. CASE ~h.burstsOn
    BY <1>1, <2>1, <2>3 DEF MotorPeriodicBurstRules
  <2> QED  BY <2>2, <2>3
<1>9. Same(f, g, {"automaticMode", "endSessionMode", "burstPlacement"})
  BY <1>5, <1>7 DEF Same, FormType, EndModes
<1>10. g.automaticMode = m /\ g.kind = f.kind
       /\ g.endSessionMode \in {f.endSessionMode, "minutes"}
       /\ (m \in NeedsEnd(f.kind) => g.endSessionMode # "noAutoEnd")
  BY <1>4, <1>5, <1>7 DEF Same, FormType, EndModes
<1>11. ModeRules(g)
  BY <1>8, <1>10 DEF ModeRules
<1>12. ASSUME m = f.automaticMode, ModeRules(f), SetSpeedRules(f),
              f.burstPlacement \in Placements
       PROVE  g = f
  BY <1>2, <1>4, <1>6, <1>7, <1>12 DEF ModeRules
<1> QED  BY <1>2, <1>5, <1>7, <1>9, <1>10, <1>11, <1>12

-----------------------------------------------------------------------------
(* Normal forms *)

MotorRules(f) ==
  f.kind = "motor" =>
    /\ f.maximumGap <= 3600
    /\ 0 <= f.minimumPower /\ f.minimumPower <= 100
    /\ 0 <= f.maximumPower /\ f.maximumPower <= 100
    /\ 0 <= f.delayBeforeStart /\ f.delayBeforeStart <= 3600
    /\ 1 <= f.endSessionValue /\ f.endSessionValue <= 1440
    /\ f.endSessionMode # "strokes"
Normal(f) ==
  /\ f \in FormType
  /\ ModeRules(f) /\ BurstRules(f) /\ MotorRules(f)
  /\ 1 <= f.minimumGap /\ f.minimumGap <= f.maximumGap

(* A relay's program stored for a motor becomes one of the motor's. *)
LEMMA MotorModeKept ==
  ASSUME NEW m \in RelayModes \cup MotorModes
  PROVE  MotorMode(m) \in MotorModes /\ (m \in MotorModes => MotorMode(m) = m)
  BY DEF MotorMode, RelayModes, MotorModes

(* With the program's rules in force, the burst stages give a normal form. *)
LEMMA BurstStepKeeps ==
  ASSUME NEW f \in FormType, ModeRules(f), SetSpeedRules(f),
         1 <= f.minimumGap, f.minimumGap <= f.maximumGap,
         MotorRules(f),
         (f.kind = "motor" /\ f.automaticMode = "periodic") => f.burstPlacement \in Placements
  PROVE  /\ Normal(NormalizeBurstFields(f))
         /\ NormalizeBurstFields(f).kind = f.kind
<1> DEFINE g == NormalizeBurstFields(f)
<1>1. /\ g \in FormType /\ BurstRules(g)
      /\ Same(f, g, BurstFields \cup {"endSessionMode"})
      /\ g.endSessionMode = f.endSessionMode
  BY BurstFieldsKept
<1>2. (f.kind = "motor" /\ f.automaticMode = "periodic")
        => BurstBasis(g.burstPlacement) = "spread"
  BY <1>1, BurstFieldsKept DEF ModeRules
<1> HIDE DEF g
<1>3. /\ g.kind = f.kind /\ g.automaticMode = f.automaticMode
      /\ g.minimumGap = f.minimumGap /\ g.maximumGap = f.maximumGap
      /\ g.minimumPower = f.minimumPower /\ g.maximumPower = f.maximumPower
      /\ g.delayBeforeStart = f.delayBeforeStart /\ g.endSessionValue = f.endSessionValue
  BY <1>1 DEF Same, FormType, EndModes, BurstFields
<1> QED  BY <1>1, <1>2, <1>3 DEF Normal, ModeRules, MotorRules, g

(* The whole of Normalize, for a relay. *)
LEMMA RelayFormNormal ==
  ASSUME NEW f, Storable(f), f.kind = "relay"
  PROVE  /\ Normal(NormalizeAutomatic(f)) /\ NormalizeAutomatic(f).kind = "relay"
         /\ Normal(f) => NormalizeAutomatic(f) = f
<1> DEFINE g == ModeChange(f, f.automaticMode)
           top == AtLeast(1, g.maximumGap)
           bottom == AtMost(AtLeast(1, g.minimumGap), top)
           h == [g EXCEPT !.minimumGap = bottom, !.maximumGap = top]
<1>1. f \in FormType /\ f.automaticMode \in Modes(f.kind)
  BY DEF Storable, Modes
<1>2. /\ g \in FormType /\ ModeRules(g) /\ SetSpeedRules(g)
      /\ Same(f, g, {"automaticMode", "endSessionMode", "burstPlacement"})
      /\ (ModeRules(f) /\ SetSpeedRules(f) /\ f.burstPlacement \in Placements) => g = f
  BY <1>1, ModeChangeKept
<1>3. NormalizeAutomatic(f) = NormalizeBurstFields(h)
  BY DEF NormalizeAutomatic
<1> HIDE DEF g
<1>4. g.kind = "relay"
  BY <1>1, <1>2 DEF Same, FormType, EndModes
<1>5. /\ top \in Int /\ bottom \in Int /\ 1 <= bottom /\ bottom <= top
      /\ (1 <= g.minimumGap /\ g.minimumGap <= g.maximumGap)
           => (top = g.maximumGap /\ bottom = g.minimumGap)
  BY <1>2 DEF FormType, EndModes, AtLeast, AtMost
<1> HIDE DEF top, bottom
<1>6. /\ h \in FormType /\ h.kind = "relay" /\ 1 <= h.minimumGap /\ h.minimumGap <= h.maximumGap
      /\ h.automaticMode = g.automaticMode /\ h.endSessionMode = g.endSessionMode
      /\ h.burstPlacement = g.burstPlacement
  <2>2. h \in FormType /\ h.minimumGap = bottom /\ h.maximumGap = top
    BY <1>2, <1>5 DEF FormType, EndModes
  <2>3. /\ h.kind = g.kind /\ h.automaticMode = g.automaticMode
        /\ h.endSessionMode = g.endSessionMode /\ h.burstPlacement = g.burstPlacement
    BY <1>2 DEF FormType, EndModes
  <2> QED  BY <1>4, <1>5, <2>2, <2>3
<1>7. ASSUME top = g.maximumGap, bottom = g.minimumGap PROVE h = g
  BY <1>2, <1>7 DEF FormType, EndModes
<1> HIDE DEF h
<1>8. ModeRules(h) /\ SetSpeedRules(h) /\ MotorRules(h)
  BY <1>2, <1>4, <1>6 DEF ModeRules, SetSpeedRules, MotorRules
<1>9. Normal(NormalizeBurstFields(h)) /\ NormalizeBurstFields(h).kind = "relay"
  BY <1>6, <1>8, BurstStepKeeps
<1>10. ASSUME Normal(f) PROVE NormalizeBurstFields(h) = f
  <2>1. g = f
    BY <1>2, <1>10 DEF Normal, BurstRules
  <2>2. h = f
    BY <1>5, <1>7, <1>10, <2>1 DEF Normal
  <2> QED  BY <1>1, <1>10, <2>2, BurstFieldsKept DEF Normal
<1> QED  BY <1>3, <1>9, <1>10

(* And for a motor. *)
LEMMA MotorFormNormal ==
  ASSUME NEW f, Storable(f), f.kind = "motor"
  PROVE  /\ Normal(NormalizeMotorAutomatic(f)) /\ NormalizeMotorAutomatic(f).kind = "motor"
         /\ Normal(f) => NormalizeMotorAutomatic(f) = f
<1> DEFINE m == MotorMode(f.automaticMode)
           g == ModeChange(f, m)
           a == Between(g.minimumGap, 1, 3600)
           b == Between(g.maximumGap, 1, 3600)
           low == AtMost(a, b)
           high == AtLeast(a, b)
           p == Between(g.minimumPower, 0, 100)
           q == Between(g.maximumPower, 0, 100)
           delay == Between(g.delayBeforeStart, 0, 3600)
           end == IF g.endSessionMode = "strokes" THEN "noAutoEnd" ELSE g.endSessionMode
           value == Between(g.endSessionValue, 1, 1440)
           h == [g EXCEPT !.minimumGap = low, !.maximumGap = high,
                          !.minimumPower = p, !.maximumPower = q,
                          !.delayBeforeStart = delay, !.endSessionMode = end,
                          !.endSessionValue = value]
<1>1. f \in FormType /\ m \in Modes(f.kind)
      /\ (f.automaticMode \in MotorModes => m = f.automaticMode)
  BY MotorModeKept DEF Storable, Modes, FormType, EndModes
<1>2. m \in NeedsEnd("motor") => f.endSessionMode # "strokes"
  BY DEF Storable
<1> HIDE DEF m
<1>3. /\ g \in FormType /\ ModeRules(g) /\ SetSpeedRules(g) /\ g.automaticMode = m
      /\ Same(f, g, {"automaticMode", "endSessionMode", "burstPlacement"})
      /\ g.endSessionMode \in {f.endSessionMode, "minutes"}
      /\ (/\ m = f.automaticMode /\ ModeRules(f) /\ SetSpeedRules(f)
          /\ f.burstPlacement \in Placements) => g = f
  BY <1>1, ModeChangeKept
<1>4. NormalizeMotorAutomatic(f) = NormalizeBurstFields(h)
  BY DEF NormalizeMotorAutomatic, m
<1>5. (f.kind = "motor" /\ m = "periodic") => g.burstPlacement \in Placements
  BY <1>1, ModeChangeKept
<1> HIDE DEF g
<1>6. g.kind = "motor"
  BY <1>1, <1>3 DEF Same, FormType, EndModes
<1>7. /\ low \in Int /\ high \in Int /\ 1 <= low /\ low <= high /\ high <= 3600
      /\ p \in Int /\ q \in Int /\ delay \in Int /\ value \in Int
      /\ 0 <= p /\ p <= 100 /\ 0 <= q /\ q <= 100
      /\ 0 <= delay /\ delay <= 3600 /\ 1 <= value /\ value <= 1440
  <2>1. /\ g.minimumGap \in Int /\ g.maximumGap \in Int /\ g.minimumPower \in Int
        /\ g.maximumPower \in Int /\ g.delayBeforeStart \in Int /\ g.endSessionValue \in Int
    BY <1>3 DEF FormType, EndModes
  <2>2. a \in Int /\ b \in Int /\ 1 <= a /\ a <= 3600 /\ 1 <= b /\ b <= 3600
    <3>1. a \in Int /\ 1 <= a /\ a <= 3600
      BY <2>1 DEF Between, AtLeast, AtMost
    <3>2. b \in Int /\ 1 <= b /\ b <= 3600
      BY <2>1 DEF Between, AtLeast, AtMost
    <3> QED  BY <3>1, <3>2
  <2>3. /\ p \in Int /\ q \in Int /\ delay \in Int /\ value \in Int
        /\ 0 <= p /\ p <= 100 /\ 0 <= q /\ q <= 100
        /\ 0 <= delay /\ delay <= 3600 /\ 1 <= value /\ value <= 1440
    <3>1. p \in Int /\ 0 <= p /\ p <= 100
      BY <2>1 DEF Between, AtLeast, AtMost
    <3>2. q \in Int /\ 0 <= q /\ q <= 100
      BY <2>1 DEF Between, AtLeast, AtMost
    <3>3. delay \in Int /\ 0 <= delay /\ delay <= 3600
      BY <2>1 DEF Between, AtLeast, AtMost
    <3>4. value \in Int /\ 1 <= value /\ value <= 1440
      BY <2>1 DEF Between, AtLeast, AtMost
    <3> QED  BY <3>1, <3>2, <3>3, <3>4
  <2> HIDE DEF a, b
  <2>4. low \in Int /\ high \in Int /\ 1 <= low /\ low <= high /\ high <= 3600
    BY <2>2 DEF AtLeast, AtMost
  <2> QED  BY <2>3, <2>4
<1>8. ASSUME 1 <= g.minimumGap, g.minimumGap <= g.maximumGap, MotorRules(g)
      PROVE  /\ low = g.minimumGap /\ high = g.maximumGap /\ p = g.minimumPower
             /\ q = g.maximumPower /\ delay = g.delayBeforeStart
             /\ value = g.endSessionValue /\ end = g.endSessionMode
  <2>1. /\ g.minimumGap \in Int /\ g.maximumGap \in Int /\ g.minimumPower \in Int
        /\ g.maximumPower \in Int /\ g.delayBeforeStart \in Int /\ g.endSessionValue \in Int
        /\ 1 <= g.minimumGap /\ g.minimumGap <= 3600
        /\ 1 <= g.maximumGap /\ g.maximumGap <= 3600
        /\ 0 <= g.minimumPower /\ g.minimumPower <= 100
        /\ 0 <= g.maximumPower /\ g.maximumPower <= 100
        /\ 0 <= g.delayBeforeStart /\ g.delayBeforeStart <= 3600
        /\ 1 <= g.endSessionValue /\ g.endSessionValue <= 1440
    <3>1. /\ g.minimumGap \in Int /\ g.maximumGap \in Int /\ g.minimumPower \in Int
          /\ g.maximumPower \in Int /\ g.delayBeforeStart \in Int /\ g.endSessionValue \in Int
      BY <1>3 DEF FormType, EndModes
    <3> QED  BY <1>6, <1>8, <3>1 DEF MotorRules
  <2>2. a = g.minimumGap /\ b = g.maximumGap /\ p = g.minimumPower /\ q = g.maximumPower
        /\ delay = g.delayBeforeStart /\ value = g.endSessionValue
    <3>1. a = g.minimumGap
      BY <2>1 DEF Between, AtLeast, AtMost
    <3>2. b = g.maximumGap
      BY <2>1 DEF Between, AtLeast, AtMost
    <3>3. p = g.minimumPower
      BY <2>1 DEF Between, AtLeast, AtMost
    <3>4. q = g.maximumPower
      BY <2>1 DEF Between, AtLeast, AtMost
    <3>5. delay = g.delayBeforeStart
      BY <2>1 DEF Between, AtLeast, AtMost
    <3>6. value = g.endSessionValue
      BY <2>1 DEF Between, AtLeast, AtMost
    <3> QED  BY <3>1, <3>2, <3>3, <3>4, <3>5, <3>6
  <2>3. low = a /\ high = b
    BY <1>8, <2>1, <2>2 DEF AtLeast, AtMost
  <2>4. end = g.endSessionMode
    BY <1>6, <1>8 DEF MotorRules
  <2> QED  BY <2>2, <2>3, <2>4
<1>9. /\ end \in {"minutes", "noAutoEnd"}
      /\ m \in NeedsEnd("motor") => end # "noAutoEnd"
      /\ g.endSessionMode = "minutes" => end = "minutes"
  BY <1>2, <1>3, <1>6 DEF FormType, EndModes, ModeRules
<1> HIDE DEF low, high, p, q, delay, end, value
<1>10. value \in Nat
  BY <1>7
<1>11. /\ h \in FormType /\ h.kind = "motor" /\ h.minimumGap = low /\ h.maximumGap = high
       /\ h.automaticMode = m /\ h.endSessionMode = end /\ h.minimumPower = p
       /\ h.maximumPower = q /\ h.delayBeforeStart = delay /\ h.endSessionValue = value
       /\ h.burstPlacement = g.burstPlacement /\ h.burstsOn = g.burstsOn
  <2>1. end \in {"minutes", "strokes", "noAutoEnd"} /\ low \in Int /\ high \in Int
        /\ p \in Int /\ q \in Int /\ delay \in Int /\ value \in Nat /\ g \in FormType
    BY <1>3, <1>7, <1>9, <1>10
  <2>2. h \in FormType
    BY <2>1 DEF FormType, EndModes
  <2>3. /\ h.minimumGap = low /\ h.maximumGap = high /\ h.endSessionMode = end
        /\ h.minimumPower = p /\ h.maximumPower = q
        /\ h.delayBeforeStart = delay /\ h.endSessionValue = value
    BY <2>1 DEF FormType, EndModes
  <2>4. /\ h.kind = g.kind /\ h.automaticMode = g.automaticMode
        /\ h.burstPlacement = g.burstPlacement /\ h.burstsOn = g.burstsOn
    BY <2>1 DEF FormType, EndModes
  <2> QED  BY <1>3, <1>6, <2>2, <2>3, <2>4
<1>12. ASSUME low = g.minimumGap, high = g.maximumGap, p = g.minimumPower,
              q = g.maximumPower, delay = g.delayBeforeStart,
              value = g.endSessionValue, end = g.endSessionMode
       PROVE  h = g
  BY <1>3, <1>12 DEF FormType, EndModes
<1> HIDE DEF h
<1>13. ModeRules(h) /\ SetSpeedRules(h) /\ MotorRules(h)
  BY <1>3, <1>6, <1>7, <1>9, <1>11 DEF ModeRules, SetSpeedRules, MotorRules
<1>14. Normal(NormalizeBurstFields(h)) /\ NormalizeBurstFields(h).kind = "motor"
  BY <1>1, <1>5, <1>7, <1>11, <1>13, BurstStepKeeps
<1>15. ASSUME Normal(f) PROVE NormalizeBurstFields(h) = f
  <2>1. g = f
    BY <1>1, <1>3, <1>15 DEF Normal, BurstRules, ModeRules, Modes
  <2>2. h = f
    BY <1>8, <1>12, <1>15, <2>1 DEF Normal
  <2> QED  BY <1>1, <1>15, <2>2, BurstFieldsKept DEF Normal
<1> QED  BY <1>4, <1>14, <1>15

(* Normalize brings every stored form to a normal one, and a normal one stays
   as it is. *)
LEMMA NormalizeNormal ==
  ASSUME NEW f, Storable(f)
  PROVE  /\ Normal(Normalize(f)) /\ Normalize(f).kind = f.kind
         /\ Normal(f) => Normalize(f) = f
<1>1. f.kind \in {"relay", "motor"}
  BY DEF Storable, FormType, Kinds
<1> QED  BY <1>1, RelayFormNormal, MotorFormNormal DEF Normalize

(* A normal form can be stored and read again. *)
LEMMA NormalStorable ==
  ASSUME NEW f, Normal(f)
  PROVE  Storable(f)
<1>1. f \in FormType /\ f.automaticMode \in Modes(f.kind) /\ MotorRules(f)
  BY DEF Normal, ModeRules
<1>2. f.kind = "relay" => f.automaticMode \in RelayModes
  BY <1>1 DEF Modes
<1> QED  BY <1>1, <1>2 DEF Storable, MotorRules

(* A normal form keeps the rules of the page. *)
LEMMA NormalKeepsRules ==
  ASSUME NEW f, Normal(f)
  PROVE  FormRules(f)
<1>1. /\ f.minimumGap \in 1..f.maximumGap
      /\ f.burstPowerMin <= f.burstPowerMax /\ f.burstPowerMax \in 0..100
      /\ f.burstDelayMin <= f.burstDelayMax /\ f.burstDelayMax \in 0..300
      /\ f.burstStrokesMin \in 1..f.burstStrokesMax
  BY DEF Normal, BurstRules, PowerRules, DelayRules, StrokeRules, FormType
<1>2. /\ f.automaticMode \in Modes(f.kind)
      /\ f.automaticMode \in NeedsEnd(f.kind) => f.endSessionMode # "noAutoEnd"
      /\ f.burstPercent \in 0..100 /\ f.burstPlacement \in Placements
  BY DEF Normal, BurstRules, ModeRules
<1>3. f.kind = "motor" =>
        /\ f.endSessionMode # "strokes"
        /\ (f.automaticMode = "periodic" /\ f.burstsOn) =>
             /\ f.endSessionMode = "minutes" /\ BurstBasis(f.burstPlacement) = "spread"
  BY DEF Normal, MotorRules, BurstRules, SetSpeedRules
<1> QED  BY <1>1, <1>2, <1>3 DEF FormRules

(* An entry of the page keeps the form's type and the fields it is not for. *)
LEMMA EnteredTyped ==
  ASSUME NEW f \in FormType, NEW key, NEW value, Enterable(key, value)
  PROVE  /\ [f EXCEPT ![key] = value] \in FormType
         /\ [f EXCEPT ![key] = value].kind = f.kind
         /\ [f EXCEPT ![key] = value].automaticMode =
               IF key = "automaticMode" THEN value ELSE f.automaticMode
         /\ [f EXCEPT ![key] = value].endSessionMode =
               IF key = "endSessionMode" THEN value ELSE f.endSessionMode
<1>1. CASE key \in Amounts /\ value \in Int
  BY <1>1 DEF FormType, Amounts
<1>2. CASE key = "endSessionValue" /\ value \in Nat
  BY <1>2 DEF FormType
<1>3. CASE key = "automaticMode" /\ value \in RelayModes \cup MotorModes
  BY <1>3 DEF FormType
<1>4. CASE key = "endSessionMode" /\ value \in EndModes
  BY <1>4 DEF FormType
<1>5. CASE key = "burstsOn" /\ value \in BOOLEAN
  BY <1>5 DEF FormType
<1>6. CASE key = "burstPlacement" /\ value \in Placements
  BY <1>6 DEF FormType
<1>7. CASE key = "burstStyle" /\ value \in BurstStyles
  BY <1>7 DEF FormType
<1> QED  BY <1>1, <1>2, <1>3, <1>4, <1>5, <1>6, <1>7 DEF Enterable

(* So does every edit that the page offers. *)
LEMMA UpdateNormal ==
  ASSUME NEW f, Normal(f), NEW key, NEW value, Enterable(key, value), Editable(f, key, value)
  PROVE  Normal(Update(f, key, value))
<1>1. f \in FormType /\ Storable(f) /\ MotorRules(f)
  BY NormalStorable DEF Normal
<1>2. CASE key = "automaticMode"
  <2> DEFINE g == ModeChange(f, value)
  <2>1. value \in Modes(f.kind)
    BY <1>2 DEF Editable, BurstFields
  <2>2. /\ g \in FormType /\ g.automaticMode = value
        /\ Same(f, g, {"automaticMode", "endSessionMode", "burstPlacement"})
        /\ g.endSessionMode \in {f.endSessionMode, "minutes"}
    BY <1>1, <2>1, ModeChangeKept
  <2> HIDE DEF g
  <2>3. g.kind = f.kind
    BY <1>1, <2>2 DEF Same, FormType
  <2>4. Storable(g)
    BY <1>1, <2>1, <2>2, <2>3 DEF Storable, Modes, MotorRules
  <2>5. Update(f, key, value) = Normalize(g)
    BY <1>2 DEF Update, g
  <2> QED  BY <2>4, <2>5, NormalizeNormal
<1>3. CASE key # "automaticMode"
  <2> DEFINE g == [f EXCEPT ![key] = value]
  <2>1. /\ g \in FormType /\ g.kind = f.kind /\ g.automaticMode = f.automaticMode
        /\ g.endSessionMode = IF key = "endSessionMode" THEN value ELSE f.endSessionMode
    BY <1>1, <1>3, EnteredTyped
  <2>2. Update(f, key, value) = Normalize(g)
    BY <1>3 DEF Update
  <2>3. (key = "endSessionMode" /\ value = "strokes") => f.kind = "relay"
    BY DEF Editable, EndOffered, BurstFields
  <2> HIDE DEF g
  <2>4. Storable(g)
    BY <1>1, <2>1, <2>3 DEF Storable, MotorRules, FormType, Kinds
  <2> QED  BY <2>2, <2>4, NormalizeNormal
<1> QED  BY <1>2, <1>3

-----------------------------------------------------------------------------
(* Two plans *)

(* The page rounds (100 + p / 2) / p down in floating point, the device in
   integers. *)
LEMMA StridesAgree ==
  ASSUME NEW p \in Nat \ {0}
  PROVE  BurstCadenceStride(p) = DevicePlan!Stride(p)
  BY SMTT(30) DEF BurstCadenceStride, DevicePlan!Stride

(* The plans of the two, case by case of the end and the placement. *)
LEMMA PlansAgreeNormal ==
  ASSUME NEW f, Normal(f)
  PROVE  PlanAgrees(f)
<1> DEFINE page == BuildRelayBurstPlan(f)
           c == DeviceConfig(f)
           onDevice == DevicePlan!BuildPlan(c)
           percent == f.burstPercent
           end == f.endSessionValue
           basis == BurstBasis(f.burstPlacement)
           count == PercentOfEnvelope(end, percent)
<1>1. /\ percent \in 0..100 /\ end \in Nat /\ f.burstsOn \in BOOLEAN
      /\ f.endSessionMode \in EndModes
      /\ ResolveBurstPlacement(f.burstPlacement) = f.burstPlacement
  BY PlacementsResolve DEF Normal, BurstRules, FormType
<1>2. /\ c.rule = f.endSessionMode /\ c.end = end /\ c.burstsOn = f.burstsOn
      /\ c.percent = percent /\ c.basis = basis
      /\ c.instead = BurstInsteadOfMain(f.burstPlacement)
  BY <1>1 DEF DeviceConfig
<1>3. basis \in {"afterMain", "chance", "spread"}
  BY DEF BurstBasis
<1>4. ASSUME percent > 0, end > 0
      PROVE  /\ AtMost(MaxBurstEvents, count) = DevicePlan!BurstCount(end, percent)
             /\ AtMost(MaxBurstEvents, count) \in Nat
  <2> DEFINE n == end * percent + 50
  <2>1. n \in Nat
    BY <1>1, SMTT(20)
  <2>2. count = n \div 100 /\ DevicePlan!RoundedShare(end, percent) = n \div 100
    BY <1>1, <1>4 DEF PercentOfEnvelope, DevicePlan!RoundedShare
  <2> HIDE DEF n, count
  <2>3. n \div 100 \in Nat
    BY <2>1
  <2> QED
    BY <2>2, <2>3, MaxBurstEventsAssumption
       DEF AtMost, DevicePlan!BurstCount, DevicePlan!Smaller
<1> DEFINE N == AtMost(MaxBurstEvents, count)
<1>5. ASSUME N \in Nat
      PROVE  /\ [k \in 1..N |-> AtLeast(1, (k * end) \div N)] = DevicePlan!Milestones(end, N)
             /\ [k \in 1..N |-> (k * (end * MinuteMs)) \div N] = DevicePlan!Deadlines(end, N)
  <2>1. ASSUME NEW k \in 1..N
        PROVE  k * (end * MinuteMs) = k * end * MinuteMs
    <3>1. k \in Int /\ end \in Int /\ MinuteMs \in Int
      BY <1>1, <1>5, MinuteMsAssumption
    <3> HIDE DEF end, N
    <3> QED  BY <3>1, SMTT(20)
  <2> HIDE DEF N, end
  <2> QED
    BY <2>1 DEF AtLeast, DevicePlan!Milestones, DevicePlan!Deadlines, DevicePlan!Larger
<1> HIDE DEF N
<1>6. ASSUME percent > 0
      PROVE  BurstCadenceStride(percent) = DevicePlan!Stride(percent)
  BY <1>1, <1>6, StridesAgree
<1>7. PlanAgrees(f) <=> (page.kind = onDevice.kind /\ (page.kind # "none" => page = onDevice))
  BY DEF PlanAgrees, Active
<1> DEFINE instead == BurstInsteadOfMain(f.burstPlacement)
           Plan(kind, at, stride) ==
             [kind |-> kind, instead |-> instead, at |-> at, next |-> 0,
              stride |-> stride, trigger |-> stride]
<1>8. CASE ~f.burstsOn \/ percent = 0
  <2>1. page = EmptyPlan
    BY <1>1, <1>8 DEF BuildRelayBurstPlan
  <2>2. onDevice.kind = "none"
    BY <1>2, <1>8 DEF DevicePlan!BuildPlan, DevicePlan!PlanKind
  <2> QED  BY <1>7, <2>1, <2>2 DEF EmptyPlan
<1>9. CASE f.burstsOn /\ percent > 0 /\ basis = "chance"
  <2>1. page = Plan("chance", <<>>, 0)
    <3>1. page = [[EmptyPlan EXCEPT !.kind = "chance"] EXCEPT !.instead = instead]
      BY <1>1, <1>9 DEF BuildRelayBurstPlan
    <3> QED  BY <3>1 DEF EmptyPlan
  <2>2. onDevice = Plan("chance", <<>>, 0)
    BY <1>1, <1>2, <1>9 DEF DevicePlan!BuildPlan, DevicePlan!PlanKind
  <2> QED  BY <1>7, <2>1, <2>2
<1>10. CASE /\ f.burstsOn /\ percent > 0 /\ basis # "chance"
            /\ \/ f.endSessionMode = "noAutoEnd"
               \/ f.endSessionMode = "minutes" /\ basis = "afterMain" /\ end > 0
  <2> DEFINE stride == BurstCadenceStride(percent)
  <2>1. page = Plan("stride", <<>>, stride)
    <3>1. page = [CadenceStridePlan(percent) EXCEPT !.instead = instead]
      BY <1>1, <1>10 DEF BuildRelayBurstPlan
    <3>2. CadenceStridePlan(percent) =
            [EmptyPlan EXCEPT !.kind = "stride", !.stride = stride, !.trigger = stride]
      BY <1>1, <1>10 DEF CadenceStridePlan
    <3> QED  BY <3>1, <3>2 DEF EmptyPlan
  <2>2. onDevice = Plan("stride", <<>>, DevicePlan!Stride(percent))
    BY <1>1, <1>2, <1>10 DEF DevicePlan!BuildPlan, DevicePlan!PlanKind
  <2> QED  BY <1>6, <1>7, <1>10, <2>1, <2>2
<1>11. CASE f.burstsOn /\ percent > 0 /\ basis # "chance"
             /\ f.endSessionMode # "noAutoEnd" /\ end = 0
  <2>1. page.kind = "none"
    BY <1>1, <1>11 DEF BuildRelayBurstPlan, EmptyPlan
  <2>2. onDevice.kind = "none"
    BY <1>1, <1>2, <1>11 DEF DevicePlan!BuildPlan, DevicePlan!PlanKind
  <2> QED  BY <1>7, <2>1, <2>2
<1>12. CASE f.burstsOn /\ percent > 0 /\ basis # "chance"
             /\ f.endSessionMode = "strokes" /\ end > 0
  <2>1. N \in Nat /\ N = DevicePlan!BurstCount(end, percent)
    BY <1>4, <1>12 DEF N
  <2>2. CASE N = 0
    <3>1. page.kind = "none"
      BY <1>1, <1>12, <2>2 DEF BuildRelayBurstPlan, StrokeMilestonePlan, EmptyPlan, N
    <3>2. onDevice.kind = "none"
      BY <1>1, <1>2, <1>12, <2>1, <2>2 DEF DevicePlan!BuildPlan, DevicePlan!PlanKind
    <3> QED  BY <1>7, <3>1, <3>2
  <2>3. CASE N > 0
    <3>1. page = Plan("milestones", [k \in 1..N |-> AtLeast(1, (k * end) \div N)], 0)
      <4>1. page = [StrokeMilestonePlan(end, percent) EXCEPT !.instead = instead]
        BY <1>1, <1>12 DEF BuildRelayBurstPlan
      <4>2. StrokeMilestonePlan(end, percent) =
              SlotPlan("milestones", [k \in 1..N |-> AtLeast(1, (k * end) \div N)])
        BY <2>1, <2>3 DEF StrokeMilestonePlan, N
      <4> QED  BY <4>1, <4>2 DEF SlotPlan, EmptyPlan
    <3>2. onDevice = Plan("milestones", DevicePlan!Milestones(end, N), 0)
      BY <1>1, <1>2, <1>12, <2>1, <2>3 DEF DevicePlan!BuildPlan, DevicePlan!PlanKind
    <3> QED  BY <1>5, <1>7, <2>1, <3>1, <3>2
  <2> QED  BY <2>1, <2>2, <2>3
<1>13. CASE f.burstsOn /\ percent > 0 /\ basis = "spread"
             /\ f.endSessionMode = "minutes" /\ end > 0
  <2>1. N \in Nat /\ N = DevicePlan!BurstCount(end, percent)
    BY <1>4, <1>13 DEF N
  <2>2. CASE N = 0
    <3>1. page.kind = "none"
      BY <1>1, <1>13, <2>2 DEF BuildRelayBurstPlan, WallClockPlan, EmptyPlan, N
    <3>2. onDevice.kind = "none"
      BY <1>1, <1>2, <1>13, <2>1, <2>2 DEF DevicePlan!BuildPlan, DevicePlan!PlanKind
    <3> QED  BY <1>7, <3>1, <3>2
  <2>3. CASE N > 0
    <3>1. page = Plan("deadlines", [k \in 1..N |-> (k * (end * MinuteMs)) \div N], 0)
      <4>1. page = [WallClockPlan(end, percent) EXCEPT !.instead = instead]
        BY <1>1, <1>13 DEF BuildRelayBurstPlan
      <4>2. WallClockPlan(end, percent) =
              SlotPlan("deadlines", [k \in 1..N |-> (k * (end * MinuteMs)) \div N])
        BY <2>1, <2>3 DEF WallClockPlan, N
      <4> QED  BY <4>1, <4>2 DEF SlotPlan, EmptyPlan
    <3>2. onDevice = Plan("deadlines", DevicePlan!Deadlines(end, N), 0)
      BY <1>1, <1>2, <1>13, <2>1, <2>3 DEF DevicePlan!BuildPlan, DevicePlan!PlanKind
    <3> QED  BY <1>5, <1>7, <2>1, <3>1, <3>2
  <2> QED  BY <2>1, <2>2, <2>3
<1> QED  BY <1>1, <1>3, <1>8, <1>9, <1>10, <1>11, <1>12, <1>13 DEF EndModes

-----------------------------------------------------------------------------
(* The page *)

FormNormal == Normal(form)

LEMMA InitNormal == Init => FormNormal
  BY FormsAssumption, NormalizeNormal DEF Init, FormNormal

LEMMA ShowsNormal ==
  ASSUME NEW new, Normal(new), Shows(new)
  PROVE  FormNormal'
  BY DEF Shows, FormNormal

(* Drawing a preview does not touch the form. *)
LEMMA PreviewKeepsForm == Preview => UNCHANGED form
  BY DEF Preview, Draw, Drawing, BurstInstead, MainStroke, Segment, ClusterStroke,
     ClusterDone, GapBegins, WaitingBurst, GapEnds, Finish, Show

LEMMA NextNormal == FormNormal /\ [Next]_vars => FormNormal'
<1> SUFFICES ASSUME FormNormal, [Next]_vars PROVE FormNormal'
  OBVIOUS
<1>1. CASE Preview
  BY <1>1, PreviewKeepsForm DEF FormNormal
<1>2. CASE Edit
  <2>1. PICK key \in DOMAIN Edits : \E value \in Edits[key] :
          Editable(form, key, value) /\ Shows(Update(form, key, value))
    BY <1>2 DEF Edit
  <2>2. PICK value \in Edits[key] :
          Editable(form, key, value) /\ Shows(Update(form, key, value))
    BY <2>1
  <2>3. Normal(Update(form, key, value))
    BY <2>2, FormsAssumption, UpdateNormal DEF FormNormal
  <2> QED  BY <2>2, <2>3, ShowsNormal
<1>3. CASE Reload
  <2>1. PICK stored \in FirstForms : Shows(Normalize(stored))
    BY <1>3 DEF Reload
  <2>2. Normal(Normalize(stored))
    BY FormsAssumption, NormalizeNormal
  <2> QED  BY <2>1, <2>2, ShowsNormal
<1>4. CASE Start \/ StartElsewhere \/ Report \/ RunEnds \/ Lose \/ Receive
  BY <1>4 DEF Start, StartElsewhere, Report, RunEnds, Lose, Receive, FormNormal
<1>5. CASE UNCHANGED vars
  BY <1>5 DEF vars, FormNormal
<1> QED  BY <1>1, <1>2, <1>3, <1>4, <1>5 DEF Next, Run

LEMMA AlwaysNormal == Spec => []FormNormal
  BY InitNormal, NextNormal, PTL DEF Spec

(* However the form is edited, reloaded and run, what a start sends is what it
   shows, and it keeps the rules of the page (automaticFieldRules.ts,
   motorAutomaticFieldRules.ts, burstFieldRules.ts,
   buildAutomaticStartPayload). *)
THEOREM SentAlwaysShown == Spec => []SentIsShown
<1>1. FormNormal => SentIsShown
  BY NormalStorable, NormalizeNormal, NormalKeepsRules DEF SentIsShown, FormNormal
<1> QED  BY <1>1, AlwaysNormal, PTL

(* For every form the page can show, with any percentages, ends and bounds,
   the page and the device plan the same bursts (relayBurstPlan.ts against
   automatic_burst_runtime.cpp). *)
THEOREM PlansAlwaysAgree == Spec => []PlansAgree
<1>1. FormNormal => PlansAgree
  BY PlansAgreeNormal DEF PlansAgree, FormNormal
<1> QED  BY <1>1, AlwaysNormal, PTL

-----------------------------------------------------------------------------

(* Division and lines *)

(* A quotient by what is at or below it. *)
LEMMA Quotient ==
  ASSUME NEW a \in Int, NEW n \in Nat \ {0}
  PROVE  /\ a \div n \in Int
         /\ \A x \in Int : (x <= a \div n <=> x * n <= a)
<1> DEFINE q == a \div n
<1>1. q \in Int /\ q * n \in Int /\ q * n <= a /\ a < q * n + n
  BY SMTT(20)
<1> HIDE DEF q
<1>2. ASSUME NEW x \in Int PROVE x <= q <=> x * n <= a
  <2>1. x <= q => x * n <= q * n
    BY <1>1, SMTT(20)
  <2>2. q + 1 <= x => (q + 1) * n <= x * n
    BY <1>1, SMTT(20)
  <2>3. (q + 1) * n = q * n + n /\ x * n \in Int
    BY <1>1, SMTT(20)
  <2> DEFINE qn == q * n
             xn == x * n
  <2>4. /\ x <= q => xn <= qn
        /\ q + 1 <= x => qn + n <= xn
        /\ qn \in Int /\ xn \in Int /\ qn <= a /\ a < qn + n
    BY <1>1, <2>1, <2>2, <2>3
  <2> HIDE DEF qn, xn
  <2>5. x <= q <=> xn <= a
    BY <1>1, <2>4
  <2> QED BY <2>5 DEF xn
<1> QED BY <1>1, <1>2 DEF q

(* A share m of n of a span is within the span. *)
LEMMA ShareOf ==
  ASSUME NEW span \in Nat, NEW n \in Nat \ {0}, NEW m \in 0..n
  PROVE  /\ m * span \in Nat /\ m * span <= n * span
         /\ (m * span) \div n \in 0..span
<1>1. m * span \in Nat /\ n * span \in Nat /\ m * span <= n * span
  BY SMTT(20)
<1> DEFINE a == m * span
<1>2. (n * span) = span * n /\ (span + 1) * n = span * n + n /\ 0 * n = 0
  BY SMTT(20)
<1>3. a \div n \in Int /\ (0 <= a \div n <=> 0 * n <= a)
      /\ (span + 1 <= a \div n <=> (span + 1) * n <= a)
  BY <1>1, Quotient
<1> DEFINE d == a \div n
           s == span * n
<1>4. a <= s /\ 0 <= a /\ a \in Int /\ s \in Int /\ d \in Int
      /\ (0 <= d <=> 0 <= a) /\ (span + 1 <= d <=> s + n <= a)
  BY <1>1, <1>2, <1>3
<1> HIDE DEF a, d, s
<1>5. d \in 0..span
  BY <1>4
<1> QED BY <1>1, <1>5 DEF d, a

(* A point on a line from one level to another is between the two. *)
LEMMA RoundedBetween ==
  ASSUME NEW from \in Int, NEW to \in Int, NEW n \in Nat \ {0}, NEW m \in 0..n
  PROVE  /\ from <= to => from + Rounded((to - from) * m, n) \in from..to
         /\ to <= from => from + Rounded((to - from) * m, n) \in to..from
<1> DEFINE p == (to - from) * m
           c == to - from
           cn == c * n
           q == (2 * p + n) \div (2 * n)
<1>1. p \in Int /\ cn \in Int /\ c \in Int /\ 2 * n \in Nat \ {0}
  BY SMTT(20)
<1>2. (0 <= c => 0 <= p /\ p <= cn) /\ (c <= 0 => cn <= p /\ p <= 0)
  <2>1. 0 <= c => 0 <= p /\ p <= cn
    BY SMTT(20)
  <2>2. c <= 0 => cn <= p /\ p <= 0
    BY SMTT(20)
  <2> QED BY <2>1, <2>2
<1>3. /\ c * (2 * n) = 2 * cn /\ (c + 1) * (2 * n) = 2 * cn + 2 * n
      /\ 0 * (2 * n) = 0 /\ 1 * (2 * n) = 2 * n
  BY SMTT(20)
<1> HIDE DEF p, c, cn
<1>4. 2 * p + n \in Int
  BY <1>1
<1>5. /\ q \in Int
      /\ 0 <= q <=> 0 <= 2 * p + n
      /\ 1 <= q <=> 2 * n <= 2 * p + n
      /\ c <= q <=> 2 * cn <= 2 * p + n
      /\ c + 1 <= q <=> 2 * cn + 2 * n <= 2 * p + n
  <2>1. q \in Int /\ \A x \in Int : (x <= q <=> x * (2 * n) <= 2 * p + n)
    BY <1>1, <1>4, Quotient
  <2> HIDE DEF q
  <2>2. /\ 0 <= q <=> 0 * (2 * n) <= 2 * p + n
        /\ 1 <= q <=> 1 * (2 * n) <= 2 * p + n
        /\ c <= q <=> c * (2 * n) <= 2 * p + n
        /\ c + 1 <= q <=> (c + 1) * (2 * n) <= 2 * p + n
    BY <1>1, <2>1
  <2> QED BY <1>3, <2>1, <2>2
<1>6. Rounded(p, n) = q
  BY DEF Rounded
<1> HIDE DEF q
<1>7. (0 <= c => q \in 0..c) /\ (c <= 0 => q \in c..0)
  BY <1>1, <1>2, <1>5
<1>8. (from <= to => from + q \in from..to) /\ (to <= from => from + q \in to..from)
  BY <1>5, <1>7 DEF c
<1> QED BY <1>6, <1>8 DEF p

(* A line stays between its ends, whichever is the lower. *)
LEMMA LerpBetween ==
  ASSUME NEW from \in Int, NEW to \in Int, NEW n \in Nat, NEW d \in Nat \ {0}
  PROVE  /\ from <= to => Lerp(from, to, n, d) \in from..to
         /\ to <= from => Lerp(from, to, n, d) \in to..from
         /\ Lerp(from, to, n, d) \in Int
<1> DEFINE m == AtMost(n, d)
<1>1. m \in 0..d
  BY DEF AtMost
<1>2. Lerp(from, to, n, d) = from + Rounded((to - from) * m, d)
  BY DEF Lerp
<1> HIDE DEF m
<1>3. /\ from <= to => from + Rounded((to - from) * m, d) \in from..to
      /\ to <= from => from + Rounded((to - from) * m, d) \in to..from
  BY <1>1, RoundedBetween
<1> DEFINE r == from + Rounded((to - from) * m, d)
<1>4. (from <= to => r \in from..to) /\ (to <= from => r \in to..from)
  BY <1>3
<1> HIDE DEF r
<1> QED BY <1>2, <1>4 DEF r

(* A triangle wave stays within its period. *)
LEMMA TriangleWithin ==
  ASSUME NEW n \in Int, NEW d \in Nat \ {0}
  PROVE  Triangle(n, d) \in 0..d
<1>1. n % d \in 0..d - 1
  OBVIOUS
<1> DEFINE m == n % d
<1>2. m \in 0..d - 1
  BY <1>1
<1> HIDE DEF m
<1>3. (IF 2 * m < d THEN 2 * m ELSE 2 * d - 2 * m) \in 0..d
  BY <1>2
<1> QED BY <1>3 DEF Triangle, m

(* A set of natural numbers has a least one. *)
LEMMA Least ==
  ASSUME NEW T \in SUBSET Nat, T # {}
  PROVE  \E x \in T : \A y \in T : x <= y
<1> DEFINE R == {pair \in Nat \X Nat : pair[1] < pair[2]}
<1>1. IsWellFoundedOn(R, Nat)
  BY NatLessThanWellFounded DEF OpToRel
<1>2. \A x, y \in Nat : y < x => <<y, x>> \in R
  OBVIOUS
<1> HIDE DEF R
<1>3. T \subseteq Nat /\ T # {}
  OBVIOUS
<1>4. \E x \in T : \A y \in T : ~(<<y, x>> \in R)
  BY <1>1, <1>3, WFMin
<1>5. ASSUME NEW x \in T, \A y \in T : ~(<<y, x>> \in R), NEW y \in T
      PROVE  x <= y
  <2>1. ~(y < x)
    BY <1>2, <1>5
  <2> QED BY <2>1
<1> QED BY <1>4, <1>5

-----------------------------------------------------------------------------
(* The form of a preview *)

(* The levels a preview may show. *)
Levels == {0} \cup IF Relay THEN Low..High ELSE 0..100

(* The types of the fields that a preview reads. *)
LEMMA FormFields ==
  ASSUME FormNormal
  PROVE  /\ form.minimumPower \in Int /\ form.maximumPower \in Int
         /\ form.minimumGap \in Nat \ {0} /\ form.maximumGap \in Nat \ {0}
         /\ form.minimumGap <= form.maximumGap
         /\ form.endSessionValue \in Nat /\ form.endSessionMode \in EndModes
         /\ form.delayBeforeStart \in Int /\ form.ramp \in Int
         /\ form.burstPowerMin \in Int /\ form.burstPowerMax \in Int
         /\ form.burstDelayMin \in Nat /\ form.burstDelayMax \in Nat
         /\ form.burstStrokesMin \in Nat /\ form.burstStrokesMax \in Nat
<1>1. /\ form.burstPowerMin \in Int /\ form.burstPowerMax \in Int
      /\ form.burstDelayMin \in Nat /\ form.burstDelayMax \in Nat
      /\ form.burstStrokesMin \in Nat /\ form.burstStrokesMax \in Nat
  BY DEF FormNormal, Normal, BurstRules, PowerRules, DelayRules, StrokeRules
<1>2. form \in FormType /\ 1 <= form.minimumGap /\ form.minimumGap <= form.maximumGap
  BY DEF FormNormal, Normal
<1> QED BY <1>1, <1>2 DEF FormType

(* The band of the form; a motor's is within 0..100. *)
LEMMA FormLevels ==
  ASSUME FormNormal
  PROVE  /\ Low \in Int /\ High \in Int /\ Low <= High
         /\ form.minimumPower \in Low..High /\ form.maximumPower \in Low..High
         /\ ~Relay => Low \in 0..100 /\ High \in 0..100
         /\ Levels \subseteq Int /\ 0 \in Levels
         /\ Relay => Low..High \subseteq Levels
         /\ ~Relay => Levels = 0..100
<1>1. form.minimumPower \in Int /\ form.maximumPower \in Int
  BY FormFields
<1>2. ~Relay => form.minimumPower \in 0..100 /\ form.maximumPower \in 0..100
  BY DEF Relay, FormNormal, Normal, MotorRules, FormType, Kinds
<1>3. /\ Low \in Int /\ High \in Int /\ Low <= High
      /\ form.minimumPower \in Low..High /\ form.maximumPower \in Low..High
      /\ ~Relay => Low \in 0..100 /\ High \in 0..100
  BY <1>1, <1>2 DEF Low, High, AtMost, AtLeast
<1> QED BY <1>3 DEF Levels

(* How long a stroke is. *)
LEMMA PulseTyped ==
  ASSUME NEW power \in Int
  PROVE  PulseMs(power) \in Int
<1> DEFINE a == (StrokeMs.high - StrokeMs.low) * power
<1>1. StrokeMs.low \in Int /\ StrokeMs.high \in Int
  BY TimesAssumption
<1>2. a \in Int
  BY <1>1, SMTT(20)
<1>3. PulseMs(power) = StrokeMs.low + Rounded(a, 100)
  BY DEF PulseMs
<1> HIDE DEF a
<1>4. Rounded(a, 100) \in Int
  BY <1>2 DEF Rounded
<1> QED BY <1>1, <1>3, <1>4

(* The times of a preview. *)
LEMMA TimesTyped ==
  ASSUME FormNormal
  PROVE  Horizon \in Nat \ {0} /\ DelayMs \in Nat /\ FirstRampMs \in Nat
<1>1. DelayMs \in Nat /\ FirstRampMs \in Nat
  BY FormFields, TimesAssumption DEF DelayMs, FirstRampMs, AtLeast
<1> DEFINE end == form.endSessionValue
           pulse == PulseMs(form.maximumPower)
           gaps == (form.minimumGap + form.maximumGap) * 500 + pulse
           minutes == end * MinuteMs
           strokes == end * gaps
<1>2. end \in Nat /\ gaps \in Int
  <2>1. pulse \in Int
    BY FormFields, PulseTyped
  <2> HIDE DEF pulse
  <2> QED BY <2>1, FormFields
<1>3. Horizon = IF form.endSessionMode = "minutes" THEN AtLeast(1000, minutes)
                ELSE IF form.endSessionMode = "strokes" THEN AtLeast(30000, strokes)
                ELSE PreviewSec * 1000
  BY DEF Horizon
<1> HIDE DEF gaps
<1>4. minutes \in Int /\ strokes \in Int
  BY <1>2, MinuteMsAssumption, SMTT(20)
<1> HIDE DEF end, minutes, strokes
<1>5. Horizon \in Nat \ {0}
  BY <1>3, <1>4, TimesAssumption DEF AtLeast
<1> QED BY <1>1, <1>5

-----------------------------------------------------------------------------
(* The rows of a relay's program *)

(* The length of a table, and of its wave. *)
LEMMA StrokesTyped ==
  ASSUME FormNormal
  PROVE  TableCount \in Int /\ WaveSec \in Nat \ {0}
<1>1. /\ form.minimumGap \in Nat \ {0} /\ form.maximumGap \in Nat \ {0}
      /\ form.endSessionValue \in Nat
  BY FormFields
<1>2. ASSUME NEW h \in Nat \ {0} PROVE TableStrokes(h) \in Int
  <2>1. /\ (form.endSessionValue * 120) \div h \in Int
        /\ (2 * PreviewSec) \div AtLeast(2, h) \in Int
    <3>1. form.endSessionValue * 120 \in Int /\ 2 * PreviewSec \in Int
      BY <1>1, TimesAssumption
    <3>2. AtLeast(2, h) \in Nat \ {0}
      BY DEF AtLeast
    <3> QED BY <3>1, <3>2, Quotient
  <2> QED BY <1>1, <2>1 DEF TableStrokes
<1>3. TableCount \in Int
  BY <1>1, <1>2 DEF TableCount
<1>4. TableCount * form.maximumGap \in Int
  BY <1>1, <1>3, SMTT(20)
<1>5. WaveSec \in Nat \ {0}
  <2> DEFINE w == TableCount * form.maximumGap
  <2>1. AtLeast(2, w) \in Nat \ {0}
    BY <1>4 DEF AtLeast
  <2>2. Timed => form.endSessionValue * 120 \in Nat \ {0}
    BY <1>1 DEF Timed
  <2> QED BY <2>1, <2>2 DEF WaveSec
<1> QED BY <1>3, <1>5

(* The seed moves a table by a third or not at all. *)
LEMMA ShiftIs == Shift \in {0, 1}
BY DEF Shift

(* A gap and a power of the wave. *)
LEMMA WaveTyped ==
  ASSUME FormNormal, NEW e \in Int
  PROVE  WaveGap(e) \in Int /\ WavePower(e) \in Low..High
<1> DEFINE d == 3 * WaveSec
           phase == WavePhase(e)
           n == Triangle(phase, d)
<1>1. WaveSec \in Nat \ {0}
  BY StrokesTyped
<1>2. d \in Nat \ {0} /\ phase \in Int
  <2>1. Shift * WaveSec = 0 \/ Shift * WaveSec = WaveSec
    BY <1>1, ShiftIs
  <2> QED BY <1>1, <2>1 DEF WavePhase
<1>3. /\ WaveGap(e) = Lerp(form.minimumGap, form.maximumGap, d - n, d)
      /\ WavePower(e) = Lerp(form.minimumPower, form.maximumPower, n, d)
  BY DEF WaveGap, WavePower
<1> HIDE DEF d, phase
<1>4. n \in 0..d
  BY <1>2, TriangleWithin
<1> HIDE DEF n
<1>5. n \in Nat /\ d - n \in Nat
  BY <1>2, <1>4
<1>6. Lerp(form.minimumGap, form.maximumGap, d - n, d) \in Int
  <2> DEFINE k == d - n
  <2>1. k \in Nat /\ form.minimumGap \in Int /\ form.maximumGap \in Int
    BY <1>5, FormFields
  <2> HIDE DEF k
  <2>2. Lerp(form.minimumGap, form.maximumGap, k, d) \in Int
    BY <1>2, <2>1, LerpBetween
  <2> QED BY <2>2 DEF k
<1>7. Lerp(form.minimumPower, form.maximumPower, n, d) \in Low..High
  <2> DEFINE r == Lerp(form.minimumPower, form.maximumPower, n, d)
  <2>1. /\ form.minimumPower <= form.maximumPower => r \in form.minimumPower..form.maximumPower
        /\ form.maximumPower <= form.minimumPower => r \in form.maximumPower..form.minimumPower
    BY <1>2, <1>5, FormFields, LerpBetween
  <2> HIDE DEF r
  <2>2. r \in Low..High
    BY <2>1, FormFields, FormLevels
  <2> QED BY <2>2 DEF r
<1> QED BY <1>3, <1>6, <1>7

(* The time at which the strokes of a wave begin is a number of seconds. *)
WaveStep(at, i) == IF i = 0 THEN 0 ELSE at[i - 1] + WaveGap(at[i - 1])

(* The table of the times at which the wave is looked at exists, by induction on
   its length. *)
LEMMA WaveExists ==
  ASSUME FormNormal, NEW n \in Nat
  PROVE  \E at \in [0..n -> Int] : at = [i \in 0..n |-> WaveStep(at, i)]
<1> DEFINE Wave1(m) == \E at \in [0..m -> Int] : \A i \in 0..m : at[i] = WaveStep(at, i)
           T == {m \in Nat : ~Wave1(m)}
<1>1. T = {}
  <2> SUFFICES ASSUME T # {} PROVE FALSE
    OBVIOUS
  <2>1. T \in SUBSET Nat
    OBVIOUS
  <2> HIDE DEF T
  <2>2. PICK m \in T : \A y \in T : m <= y
    BY <2>1, Least
  <2> USE DEF T
  <2>3. m \in Nat /\ ~Wave1(m)
    OBVIOUS
  <2>4. CASE m = 0
    <3> DEFINE at == [i \in 0..0 |-> 0]
    <3>1. at \in [0..m -> Int] /\ \A i \in 0..m : at[i] = WaveStep(at, i)
      BY <2>4 DEF WaveStep
    <3> QED BY <2>3, <3>1
  <2>5. CASE m # 0
    <3>1. m - 1 \in Nat /\ ~(m <= m - 1)
      BY <2>3, <2>5
    <3>2. Wave1(m - 1)
      BY <2>2, <3>1
    <3>3. PICK f \in [0..m - 1 -> Int] : \A i \in 0..m - 1 : f[i] = WaveStep(f, i)
      BY <3>2
    <3> DEFINE v == f[m - 1] + WaveGap(f[m - 1])
               at == [i \in 0..m |-> IF i = m THEN v ELSE f[i]]
    <3>4. v \in Int
      <4> DEFINE w == f[m - 1]
      <4>1. w \in Int
        BY <3>1, <3>3
      <4> HIDE DEF w
      <4>2. WaveGap(w) \in Int
        BY <4>1, WaveTyped
      <4> QED BY <4>1, <4>2 DEF w
    <3> HIDE DEF v
    <3>5. at \in [0..m -> Int] /\ at[m] = v /\ \A i \in 0..m - 1 : at[i] = f[i]
      BY <2>3, <3>1, <3>3, <3>4
    <3> HIDE DEF at
    <3>6. ASSUME NEW i \in 0..m PROVE at[i] = WaveStep(at, i)
      <4>1. CASE i = m
        <5>1. at[m - 1] = f[m - 1]
          BY <3>1, <3>5
        <5> QED BY <2>5, <3>5, <4>1, <5>1 DEF WaveStep, v
      <4>2. CASE i # m
        <5>1. i \in 0..m - 1 /\ (i # 0 => i - 1 \in 0..m - 1)
          BY <2>3, <4>2
        <5>2. at[i] = f[i] /\ (i # 0 => at[i - 1] = f[i - 1]) /\ f[i] = WaveStep(f, i)
          BY <3>3, <3>5, <5>1
        <5> QED BY <5>2 DEF WaveStep
      <4> QED BY <4>1, <4>2
    <3> QED BY <2>3, <3>5, <3>6
  <2> QED BY <2>4, <2>5
<1>2. Wave1(n)
  BY <1>1
<1>3. PICK at \in [0..n -> Int] : \A i \in 0..n : at[i] = WaveStep(at, i)
  BY <1>2
<1>4. at = [i \in 0..n |-> WaveStep(at, i)]
  BY <1>3
<1> QED BY <1>4

(* So its rows are what WaveElapsed says. *)
LEMMA WaveElapsedTyped ==
  ASSUME FormNormal, NEW i \in Nat, i < TableCount
  PROVE  WaveElapsed[i] \in Int
<1> DEFINE N == TableCount
           at == WaveElapsed
<1>1. N \in Nat
  BY StrokesTyped
<1>2. at = [k \in 0..N |-> WaveStep(at, k)]
  <2>1. at = CHOOSE f : f = [k \in 0..N |-> IF k = 0 THEN 0 ELSE f[k - 1] + WaveGap(f[k - 1])]
    BY DEF WaveElapsed
  <2>2. \E f : f = [k \in 0..N |-> IF k = 0 THEN 0 ELSE f[k - 1] + WaveGap(f[k - 1])]
    BY <1>1, WaveExists DEF WaveStep
  <2> HIDE DEF at, N
  <2> QED BY <2>1, <2>2 DEF WaveStep
<1> HIDE DEF at, N
<1> DEFINE T == {k \in Nat : k <= N /\ at[k] \notin Int}
<1>3. T = {}
  <2> SUFFICES ASSUME T # {} PROVE FALSE
    OBVIOUS
  <2>1. T \in SUBSET Nat
    OBVIOUS
  <2> HIDE DEF T
  <2>2. PICK m \in T : \A y \in T : m <= y
    BY <2>1, Least
  <2>3. m \in Nat /\ m <= N /\ at[m] \notin Int
    BY DEF T
  <2>4. at[m] = WaveStep(at, m)
    BY <1>1, <1>2, <2>3
  <2>5. m # 0
    BY <2>3, <2>4 DEF WaveStep
  <2>6. m - 1 \in Nat /\ m - 1 <= N /\ ~(m <= m - 1)
    BY <1>1, <2>3, <2>5
  <2>7. at[m - 1] \in Int
    BY <2>2, <2>6 DEF T
  <2>8. WaveGap(at[m - 1]) \in Int
    BY <2>7, WaveTyped
  <2> QED BY <2>3, <2>4, <2>5, <2>7, <2>8 DEF WaveStep
<1> QED BY <1>1, <1>3 DEF N, at

(* A line between the two powers of the form stays in the band. *)
LEMMA PowersBetween ==
  ASSUME FormNormal, NEW n \in Nat, NEW d \in Nat \ {0}
  PROVE  Lerp(form.minimumPower, form.maximumPower, n, d) \in Low..High
<1> DEFINE r == Lerp(form.minimumPower, form.maximumPower, n, d)
<1>1. /\ form.minimumPower <= form.maximumPower => r \in form.minimumPower..form.maximumPower
      /\ form.maximumPower <= form.minimumPower => r \in form.maximumPower..form.minimumPower
  BY FormFields, LerpBetween
<1> HIDE DEF r
<1>2. r \in Low..High
  BY <1>1, FormFields, FormLevels
<1> QED BY <1>2 DEF r

(* The power of a table's row is in the band. *)
LEMMA TableRowIn ==
  ASSUME FormNormal, NEW i \in Nat, i < TableCount
  PROVE  TableRow(i).power \in Low..High /\ TableRow(i).gap \in Int
<1>1. CASE form.automaticMode = "buildUp"
  <2> DEFINE last == TableCount - 1
             n == IF last > 0 THEN 3 * i + Shift * last ELSE Shift
             d == IF last > 0 THEN 3 * last ELSE 3
  <2>1. last \in Int
    BY StrokesTyped
  <2>2. TableRow(i) = [power |-> Lerp(form.minimumPower, form.maximumPower, n, d),
                       gap |-> Lerp(form.maximumGap, form.minimumGap, n, d)]
    BY <1>1 DEF TableRow
  <2> HIDE DEF last
  <2>3. Shift * last = 0 \/ Shift * last = last
    BY <2>1, ShiftIs
  <2>4. n \in Nat /\ d \in Nat \ {0}
    BY <2>1, <2>3, ShiftIs
  <2> HIDE DEF n, d
  <2>5. form.minimumGap \in Int /\ form.maximumGap \in Int
    BY FormFields
  <2>6. Lerp(form.maximumGap, form.minimumGap, n, d) \in Int
    BY <2>4, <2>5, LerpBetween
  <2>7. Lerp(form.minimumPower, form.maximumPower, n, d) \in Low..High
    BY <2>4, PowersBetween
  <2> QED BY <2>2, <2>6, <2>7
<1>2. CASE form.automaticMode = "powerWave"
  <2> DEFINE e == i * form.maximumGap
  <2>1. e \in Int /\ form.maximumGap \in Int
    BY FormFields, SMTT(20)
  <2> HIDE DEF e
  <2>2. WavePower(e) \in Low..High
    BY <2>1, WaveTyped
  <2>3. TableRow(i) = [power |-> WavePower(e), gap |-> form.maximumGap]
    BY <1>2 DEF TableRow, e
  <2> QED BY <2>1, <2>2, <2>3
<1>3. CASE form.automaticMode \notin {"buildUp", "powerWave"}
  <2> DEFINE e == WaveElapsed[i]
  <2>1. e \in Int
    BY WaveElapsedTyped
  <2>2. TableRow(i) = [power |-> WavePower(e), gap |-> WaveGap(e)]
    BY <1>3 DEF TableRow
  <2> HIDE DEF e
  <2>3. WavePower(e) \in Low..High /\ WaveGap(e) \in Int
    BY <2>1, WaveTyped
  <2> QED BY <2>2, <2>3
<1> QED BY <1>1, <1>2, <1>3

(* The power of a stroke is within the band, whatever the program. *)
LEMMA StrokeRowIn ==
  ASSUME FormNormal, NEW i \in Nat
  PROVE  StrokeRow(i).power \in Low..High /\ StrokeRow(i).gap \in Int
<1>1. CASE Table /\ i < TableCount
  BY <1>1, TableRowIn DEF StrokeRow
<1>2. RandomRow(i).power \in Low..High /\ RandomRow(i).gap \in Int
  <2>1. RandomRow(i).power \in {Low, High}
    BY DEF RandomRow, Drawn
  <2>2. RandomRow(i).gap \in {form.minimumGap, form.maximumGap}
    BY DEF RandomRow, Drawn
  <2> QED BY <2>1, <2>2, FormFields, FormLevels
<1>3. CASE ~(Table /\ i < TableCount)
  <2>1. StrokeRow(i) = RandomRow(i)
        \/ StrokeRow(i) = [power |-> form.maximumPower, gap |-> form.maximumGap]
    BY <1>3 DEF StrokeRow
  <2> QED BY <1>2, <2>1, FormFields, FormLevels
<1> QED BY <1>1, <1>3

(* The power of a burst is in the band, and a motor's speed a percentage. *)
LEMMA BurstLevels ==
  ASSUME FormNormal, NEW power \in Int
  PROVE  /\ ResolveBurstEffectivePower(power, form) \in Low..High
         /\ MotorBurstSpeed(power) \in 0..100
<1>1. ResolveBurstEffectivePower(power, form) \in Low..High
  <2> DEFINE m == AtMost(100, AtLeast(0, power))
             span == High - Low
             s == (m * span) \div 100
  <2>1. m \in 0..100 /\ span \in Nat
    BY FormLevels DEF AtMost, AtLeast
  <2> HIDE DEF m, span
  <2>2. s \in 0..span /\ span * m = m * span
    <3>1. s \in 0..span
      BY <2>1, ShareOf
    <3>2. span * m = m * span
      BY <2>1, SMTT(20)
    <3> QED BY <3>1, <3>2
  <2>3. ResolveBurstEffectivePower(power, form) = Low + (span * m) \div 100
    BY DEF ResolveBurstEffectivePower, Low, High, m, span
  <2>4. ResolveBurstEffectivePower(power, form) = Low + s
    BY <2>2, <2>3
  <2> HIDE DEF s
  <2> QED BY <2>1, <2>2, <2>4, FormLevels DEF span
<1>2. MotorBurstSpeed(power) \in 0..100
  <2> DEFINE span == Duty.high - Duty.low
             m == Between(power, 0, 100)
             s == (span * m) \div 100
             r == (100 * s) \div span
  <2>1. span \in Int
    BY TimesAssumption
  <2>2. m \in Int
    BY DEF Between, AtMost, AtLeast
  <2>3. MotorBurstSpeed(power) = IF span <= 0 THEN 100 ELSE Between(r, 0, 100)
    BY DEF MotorBurstSpeed
  <2> HIDE DEF span, m
  <2>4. span * m \in Int
    BY <2>1, <2>2, SMTT(20)
  <2>5. s \in Int
    BY <2>4, Quotient
  <2> HIDE DEF s
  <2>6. CASE span > 0
    <3>1. 100 * s \in Int /\ span \in Nat \ {0}
      BY <2>1, <2>5, <2>6
    <3>2. r \in Int
      BY <3>1, Quotient
    <3> HIDE DEF r
    <3>3. Between(r, 0, 100) \in 0..100
      BY <3>2 DEF Between, AtMost, AtLeast
    <3> QED BY <2>1, <2>3, <2>6, <3>3
  <2> QED BY <2>1, <2>3, <2>6
<1> QED BY <1>1, <1>2

(* What is drawn for a stroke of a burst. *)
LEMMA BurstDrawn ==
  ASSUME FormNormal, NEW e, NEW k
  PROVE  /\ PreviewBurstPower(e, k) \in Int
         /\ PreviewBurstDelay(e, k) \in Nat
         /\ PreviewBurstStrokes(e) \in Nat
BY FormFields DEF PreviewBurstPower, PreviewBurstDelay, PreviewBurstStrokes, Drawn

(* A motor's segment goes to a speed within the band. *)
LEMMA SegmentSpeedIn ==
  ASSUME FormNormal, ~Relay, NEW i \in Nat, NEW elapsed \in Nat
  PROVE  SegmentSpeed(i, elapsed) \in 0..100
<1> DEFINE span == High - Low
<1>0. span \in Nat /\ Low \in 0..100 /\ High \in 0..100 /\ Low + span = High
  BY FormLevels
<1>1. CASE form.automaticMode = "powerWave"
  <2> DEFINE m == 2 * Wave(i % WaveSteps)
             s == (m * span) \div WaveSteps
  <2>1. WaveSteps \in Nat \ {0}
    BY TimesAssumption
  <2>2. i % WaveSteps \in 0..WaveSteps - 1
    BY <2>1
  <2>3. m \in 0..WaveSteps
    <3> DEFINE step == i % WaveSteps
    <3>1. step \in 0..WaveSteps - 1
      BY <2>2
    <3> HIDE DEF step
    <3>2. Wave(step) \in Int /\ 2 * Wave(step) \in 0..WaveSteps
      BY <2>1, <3>1 DEF Wave
    <3> QED BY <3>2 DEF step
  <2>4. SegmentSpeed(i, elapsed) = Low + s
    BY <1>1 DEF SegmentSpeed
  <2> HIDE DEF m, span
  <2>5. s \in 0..span
    BY <1>0, <2>1, <2>3, ShareOf
  <2> HIDE DEF s
  <2> QED BY <1>0, <2>4, <2>5
<1>2. CASE form.automaticMode = "buildUp"
  <2> DEFINE m == AtMost(elapsed, Horizon)
             s == (m * span) \div Horizon
  <2>1. Horizon \in Nat \ {0}
    BY TimesTyped
  <2>2. m \in 0..Horizon
    BY <2>1 DEF AtMost
  <2>3. SegmentSpeed(i, elapsed) = Low + s
    BY <1>2 DEF SegmentSpeed
  <2> HIDE DEF m, span
  <2>4. s \in 0..span
    BY <1>0, <2>1, <2>2, ShareOf
  <2> HIDE DEF s
  <2> QED BY <1>0, <2>3, <2>4
<1>3. CASE form.automaticMode \notin {"powerWave", "buildUp"}
  <2>1. SegmentSpeed(i, elapsed) \in {Low, High}
    BY <1>3 DEF SegmentSpeed, Drawn
  <2> QED BY <1>0, <2>1
<1> QED BY <1>1, <1>2, <1>3

-----------------------------------------------------------------------------
(* Points *)

PlanType == [kind : {"none", "milestones", "deadlines", "stride", "chance"},
             instead : BOOLEAN, at : Seq(Nat), next : Nat, stride : Nat, trigger : Nat]
Backs == {"beat", "gap", "wait", "skip", "count"}
DrawType == [at : Backs \cup {"cluster", "end", "drawn"}, t : Int,
             level : Levels, index : Nat, mains : Nat, bursts : Nat, left : Int,
             back : Backs, gap : Int,
             points : Seq(Int \X Levels), plan : PlanType]

(* The points are in the order of time and end at t. *)
OnPaper(points, t) ==
  /\ points \in Seq(Int \X Levels) /\ points # <<>>
  /\ InOrder(points) /\ Last(points)[1] = t
OnTime(d) == d.t \in DelayMs..Horizon /\ OnPaper(d.points, d.t)

(* From d the pen moves on to r, and nothing else has changed. *)
SameBeat(d, r) ==
  /\ r.at = d.at /\ r.index = d.index /\ r.mains = d.mains /\ r.bursts = d.bursts
  /\ r.left = d.left /\ r.back = d.back /\ r.gap = d.gap /\ r.plan = d.plan
Moves(d, r) == r \in DrawType /\ OnTime(r) /\ r.t >= d.t /\ SameBeat(d, r)

(* A point at or after the last one keeps the points in the order of time. *)
LEMMA PushOn ==
  ASSUME NEW points, NEW t \in Int, OnPaper(points, t),
         NEW x \in Int, NEW level \in Levels, t <= x
  PROVE  OnPaper(Push(points, <<x, level>>), x)
<1> DEFINE p == <<x, level>>
           n == Len(points)
           new == Append(points, p)
<1>1. /\ points \in Seq(Int \X Levels) /\ n \in Nat \ {0}
      /\ p \in Int \X Levels /\ p[1] = x
  BY DEF OnPaper
<1>2. points[n][1] = t /\ \A i \in 1..n - 1 : points[i][1] <= points[i + 1][1]
  BY DEF OnPaper, Last, InOrder
<1>3. CASE Last(points) = p
  <2>1. Push(points, p) = points
    BY <1>3 DEF Push, OnPaper
  <2> QED BY <1>1, <1>3, <2>1 DEF OnPaper
<1>4. CASE Last(points) # p
  <2>1. Push(points, p) = new
    BY <1>4 DEF Push
  <2> HIDE DEF p
  <2>2. /\ new \in Seq(Int \X Levels) /\ Len(new) = n + 1 /\ new[n + 1] = p
        /\ \A i \in 1..n : new[i] = points[i]
    BY <1>1
  <2> HIDE DEF n, new
  <2>3. ASSUME NEW i \in 1..n PROVE new[i][1] <= new[i + 1][1]
    <3>1. CASE i = n
      BY <1>1, <1>2, <2>2, <3>1
    <3>2. CASE i # n
      <4>1. i \in 1..n - 1 /\ i + 1 \in 1..n
        BY <1>1, <3>2
      <4> QED BY <1>2, <2>2, <4>1
    <3> QED BY <3>1, <3>2
  <2>4. InOrder(new) /\ Last(new)[1] = x /\ new # <<>>
    BY <1>1, <2>2, <2>3 DEF InOrder, Last
  <2> QED BY <2>1, <2>2, <2>4 DEF OnPaper, p
<1> QED BY <1>3, <1>4

(* The pen is moved, and nothing else changes. *)
LEMMA ReachedMoves ==
  ASSUME NEW d \in DrawType, OnTime(d), NEW t \in Int, d.t <= t, t <= Horizon,
         NEW points, OnPaper(points, t), NEW level \in Levels, FormNormal
  PROVE  LET r == Reached(d, points, t, level)
         IN Moves(d, r) /\ r.t = t /\ r.level = level
<1> DEFINE r == Reached(d, points, t, level)
<1>1. /\ r \in DrawType /\ r.points = points /\ r.t = t /\ r.level = level
      /\ SameBeat(d, r)
  BY DEF Reached, DrawType, SameBeat, OnPaper
<1> HIDE DEF r
<1>2. t \in DelayMs..Horizon
  BY TimesTyped DEF OnTime
<1>3. d.t \in Int
  BY DEF DrawType
<1>4. OnTime(r) /\ r.t >= d.t
  BY <1>1, <1>2, <1>3 DEF OnTime
<1> QED BY <1>1, <1>4 DEF Moves, r

(* The pen is somewhere between the delay and the horizon. *)
LEMMA PenAt ==
  ASSUME NEW d \in DrawType, OnTime(d), FormNormal
  PROVE  /\ d.t \in Int /\ DelayMs <= d.t /\ d.t <= Horizon /\ Horizon \in Int /\ DelayMs \in Nat
         /\ d.level \in Levels /\ OnPaper(d.points, d.t)
BY TimesTyped DEF OnTime, DrawType

(* A level held, a ramp, a jump, a stroke and a gap: the pen never goes back and
   never past the horizon. *)
LEMMA HoldMoves ==
  ASSUME NEW d \in DrawType, OnTime(d), FormNormal, NEW ms \in Nat
  PROVE  Moves(d, Hold(d, ms))
<1> DEFINE end == AtMost(d.t + ms, Horizon)
<1>1. Hold(d, ms) = Reached(d, Push(d.points, <<end, d.level>>), end, d.level)
  BY DEF Hold
<1>2. end \in Int /\ d.t <= end /\ end <= Horizon
  BY PenAt DEF AtMost
<1> HIDE DEF end
<1>3. OnPaper(Push(d.points, <<end, d.level>>), end)
  BY <1>2, PenAt, PushOn
<1> QED BY <1>1, <1>2, <1>3, PenAt, ReachedMoves

LEMMA RampMoves ==
  ASSUME NEW d \in DrawType, OnTime(d), FormNormal, NEW ms \in Nat, NEW to \in Levels
  PROVE  /\ Moves(d, Ramp(d, to, ms)) /\ Ramp(d, to, ms).t = AtMost(d.t + ms, Horizon)
         /\ Ramp(d, to, ms).level = to
<1> DEFINE end == AtMost(d.t + ms, Horizon)
           one == Push(d.points, <<d.t, d.level>>)
           two == Push(one, <<end, to>>)
<1>1. Ramp(d, to, ms) = Reached(d, two, end, to)
  BY DEF Ramp, PushTwo
<1>2. end \in Int /\ d.t <= end /\ end <= Horizon
  BY PenAt DEF AtMost
<1> HIDE DEF end
<1>3. OnPaper(one, d.t)
  BY PenAt, PushOn
<1> HIDE DEF one
<1>4. OnPaper(two, end)
  BY <1>2, <1>3, PenAt, PushOn
<1> HIDE DEF two
<1>5. Moves(d, Reached(d, two, end, to)) /\ Reached(d, two, end, to).t = end
      /\ Reached(d, two, end, to).level = to
  BY <1>2, <1>4, ReachedMoves
<1> QED BY <1>1, <1>5 DEF end

LEMMA JumpMoves ==
  ASSUME NEW d \in DrawType, OnTime(d), FormNormal, NEW to \in Levels,
         NEW end \in Int, d.t <= end, end <= Horizon
  PROVE  Moves(d, Jump(d, to, end))
<1> DEFINE one == Push(d.points, <<d.t, d.level>>)
           two == Push(one, <<d.t, to>>)
           three == Push(two, <<end, to>>)
<1>1. Jump(d, to, end) = Reached(d, three, end, to)
  BY DEF Jump, PushThree, PushTwo
<1>2. OnPaper(one, d.t)
  BY PenAt, PushOn
<1> HIDE DEF one
<1>3. OnPaper(two, d.t)
  BY <1>2, PenAt, PushOn
<1> HIDE DEF two
<1>4. OnPaper(three, end)
  BY <1>3, PenAt, PushOn
<1> HIDE DEF three
<1> QED BY <1>1, <1>4, ReachedMoves

LEMMA StrokePulseMoves ==
  ASSUME NEW d \in DrawType, OnTime(d), FormNormal, Relay, NEW power \in Low..High
  PROVE  Moves(d, StrokePulse(d, power))
<1> DEFINE end == AtMost(d.t + AtLeast(1, PulseMs(power)), Horizon)
<1>1. power \in Levels /\ power \in Int
  BY FormLevels
<1>2. PulseMs(power) \in Int
  BY <1>1, PulseTyped
<1>3. end \in Int /\ d.t <= end /\ end <= Horizon
  BY <1>2, PenAt DEF AtMost, AtLeast
<1>4. StrokePulse(d, power) = Jump(d, power, end)
  BY DEF StrokePulse
<1> HIDE DEF end
<1> QED BY <1>1, <1>3, <1>4, JumpMoves

LEMMA GapMoves ==
  ASSUME NEW d \in DrawType, OnTime(d), FormNormal, NEW ms \in Int
  PROVE  Moves(d, GapInterval(d, ms))
<1> DEFINE end == AtMost(d.t + AtLeast(0, ms), Horizon)
<1>1. end \in Int /\ d.t <= end /\ end <= Horizon
  BY PenAt DEF AtMost, AtLeast
<1>2. GapInterval(d, ms) = Jump(d, 0, end)
  BY DEF GapInterval
<1> HIDE DEF end
<1> QED BY <1>1, <1>2, FormLevels, JumpMoves

(* Two moves, one after the other. *)
LEMMA MovesOn ==
  ASSUME NEW d, NEW r, NEW s, d.t \in Int, Moves(d, r), Moves(r, s)
  PROVE  Moves(d, s)
BY DEF Moves, SameBeat, DrawType

(* A motor's segment. *)
LEMMA TransitionTyped ==
  ASSUME FormNormal, NEW ms \in Nat
  PROVE  TransitionMs(ms) \in Nat
<1>1. TargetRamp \in Int
  BY FormFields DEF TargetRamp
<1> QED BY <1>1, TimesAssumption DEF TransitionMs, AtMost, AtLeast

(* A segment of a motor's program. *)
LEMMA SegmentMoves ==
  ASSUME NEW d \in DrawType, OnTime(d), FormNormal, ~Relay,
         NEW to \in 0..100, NEW ms \in Nat \ {0}
  PROVE  Moves(d, ProgramSegment(d, to, ms))
<1> DEFINE end == AtMost(d.t + ms, Horizon)
           m == end - d.t
           reached == d.level + Rounded((to - d.level) * m, ms)
           ramp == IF TargetRamp = 0 THEN 0 ELSE AtMost(TransitionMs(ms), m)
           r == Ramp(d, to, ramp)
<1>1. /\ d.t \in Int /\ d.level \in 0..100 /\ Levels = 0..100 /\ d.t <= Horizon /\ Horizon \in Int
  BY PenAt, FormLevels
<1>2. m \in 0..ms /\ end \in Int
  BY <1>1 DEF AtMost
<1>3. ProgramSegment(d, to, ms) =
        IF TargetRamp < 0 THEN Ramp(d, reached, ms) ELSE Hold(r, m - ramp)
  BY DEF ProgramSegment
<1> HIDE DEF end
<1>4. CASE TargetRamp < 0
  <2>1. /\ d.level <= to => reached \in d.level..to
        /\ to <= d.level => reached \in to..d.level
    <3> DEFINE level == d.level
               x == level + Rounded((to - level) * m, ms)
    <3>1. level \in Int /\ to \in Int
      BY <1>1
    <3> HIDE DEF level, m
    <3>2. (level <= to => x \in level..to) /\ (to <= level => x \in to..level)
      BY <1>2, <3>1, RoundedBetween
    <3> QED BY <3>2 DEF level
  <2> HIDE DEF reached, m
  <2>2. reached \in Levels
    BY <1>1, <2>1
  <2>3. Moves(d, Ramp(d, reached, ms))
    BY <2>2, RampMoves
  <2> QED BY <1>3, <1>4, <2>3
<1>5. CASE ~(TargetRamp < 0)
  <2>1. ramp \in Nat /\ m - ramp \in Nat
    BY <1>2, TransitionTyped DEF AtMost
  <2> HIDE DEF ramp, m
  <2>2. Moves(d, r)
    BY <1>1, <2>1, RampMoves
  <2> HIDE DEF r
  <2> DEFINE k == m - ramp
  <2>3. k \in Nat
    BY <2>1
  <2>4. ProgramSegment(d, to, ms) = Hold(r, k)
    BY <1>3, <1>5
  <2> HIDE DEF k
  <2>5. Moves(r, Hold(r, k))
    BY <2>2, <2>3, HoldMoves DEF Moves
  <2> QED BY <1>1, <2>2, <2>4, <2>5, MovesOn
<1> QED BY <1>4, <1>5

(* A stroke of a burst, with the delay to the next. *)
LEMMA BurstStrokeMoves ==
  ASSUME NEW d \in DrawType, OnTime(d), FormNormal
  PROVE  Moves(d, BurstStroke(d))
<1> DEFINE k == PreviewBurstStrokes(d.bursts) - d.left
           power == PreviewBurstPower(d.bursts, k)
           delay == 1000 * PreviewBurstDelay(d.bursts, k)
           ms == TransitionMs(1000 * form.maximumGap)
           level == ResolveBurstEffectivePower(power, form)
           ramp == Ramp(d, MotorBurstSpeed(power), ms)
           s == IF Relay THEN StrokePulse(d, level) ELSE Hold(ramp, MicroHoldMs)
           paused == IF Relay THEN GapInterval(s, delay) ELSE Hold(s, delay)
<1>1. BurstStroke(d) = s \/ BurstStroke(d) = paused
  BY DEF BurstStroke
<1>2. power \in Int /\ delay \in Nat
  <2> HIDE DEF k
  <2> QED BY BurstDrawn
<1> HIDE DEF power, delay
<1>3. ms \in Nat
  <2> DEFINE x == 1000 * form.maximumGap
  <2>1. x \in Nat
    BY FormFields
  <2> HIDE DEF x
  <2>2. TransitionMs(x) \in Nat
    BY <2>1, TransitionTyped
  <2> QED BY <2>2 DEF x
<1> HIDE DEF ms
<1>4. d.t \in Int
  BY PenAt
<1>5. Moves(d, s)
  <2>1. CASE Relay
    <3>1. level \in Low..High
      BY <1>2, BurstLevels
    <3> HIDE DEF level
    <3>2. Moves(d, StrokePulse(d, level))
      BY <2>1, <3>1, StrokePulseMoves
    <3> QED BY <2>1, <3>2
  <2>2. CASE ~Relay
    <3>1. MotorBurstSpeed(power) \in Levels
      BY <1>2, <2>2, BurstLevels, FormLevels
    <3>2. Moves(d, ramp)
      BY <1>3, <3>1, RampMoves
    <3> HIDE DEF ramp
    <3>3. Moves(ramp, Hold(ramp, MicroHoldMs))
      BY <3>2, TimesAssumption, HoldMoves DEF Moves
    <3>4. Moves(d, Hold(ramp, MicroHoldMs))
      BY <1>4, <3>2, <3>3, MovesOn
    <3> QED BY <2>2, <3>4
  <2> QED BY <2>1, <2>2
<1> HIDE DEF s
<1>6. s \in DrawType /\ OnTime(s)
  BY <1>5 DEF Moves
<1>7. Moves(s, paused)
  <2>1. Moves(s, GapInterval(s, delay))
    BY <1>2, <1>6, GapMoves
  <2>2. Moves(s, Hold(s, delay))
    BY <1>2, <1>6, HoldMoves
  <2> QED BY <2>1, <2>2
<1> HIDE DEF paused
<1>8. Moves(d, paused)
  BY <1>4, <1>5, <1>7, MovesOn
<1> QED BY <1>1, <1>5, <1>8

-----------------------------------------------------------------------------
(* The plan of a preview *)

Slots == {"milestones", "deadlines"}
PlanOk(p) ==
  /\ p.next <= Len(p.at)
  /\ p.kind = "milestones" => \A j, k \in 1..Len(p.at) : j < k => p.at[j] < p.at[k]
  /\ p.kind = "stride" => p.stride >= 1
  /\ p.kind \notin Slots => p.at = <<>>

(* What a plan is before the first burst. *)
PlanNew(p) ==
  /\ p \in PlanType /\ PlanOk(p) /\ p.next = 0
  /\ p.kind = "milestones" => \A k \in 1..Len(p.at) : p.at[k] >= 1
  /\ p.kind = "stride" => p.trigger = p.stride

(* A plan without bursts. *)
LEMMA EmptyFields ==
  /\ EmptyPlan \in PlanType /\ EmptyPlan.kind = "none" /\ EmptyPlan.at = <<>>
  /\ EmptyPlan.next = 0 /\ Len(EmptyPlan.at) = 0
<1>1. <<>> \in Seq(Nat) /\ Len(<<>>) = 0
  OBVIOUS
<1> QED BY <1>1 DEF EmptyPlan, PlanType

(* A plan without bursts, and one by chance. *)
LEMMA EmptyNew == PlanNew(EmptyPlan) /\ PlanNew([EmptyPlan EXCEPT !.kind = "chance"])
BY EmptyFields DEF PlanNew, PlanOk, PlanType, Slots

(* A plan with strokes or times for its bursts. *)
LEMMA SlotsNew ==
  ASSUME NEW kind \in Slots, NEW n \in Nat, NEW f \in [1..n -> Nat],
         kind = "milestones" =>
           /\ \A k \in 1..n : f[k] >= 1
           /\ \A j, k \in 1..n : j < k => f[j] < f[k]
  PROVE  PlanNew(SlotPlan(kind, f))
<1>1. f \in Seq(Nat) /\ Len(f) = n
  OBVIOUS
<1> DEFINE p == SlotPlan(kind, f)
<1>2. p.kind = kind /\ p.at = f /\ p.next = 0 /\ p \in PlanType
  BY <1>1, EmptyFields DEF SlotPlan, PlanType, Slots
<1> HIDE DEF p
<1>3. kind \in {"milestones", "deadlines"}
  BY DEF Slots
<1> QED BY <1>1, <1>2, <1>3 DEF PlanNew, PlanOk, Slots, p

(* No more bursts are planned than there are strokes. *)
LEMMA EnvelopeShare ==
  ASSUME NEW envelope \in Nat, NEW percent \in 0..100
  PROVE  PercentOfEnvelope(envelope, percent) \in 0..envelope
<1> DEFINE a == envelope * percent
           b == a + 50
           q == b \div 100
<1>1. a \in Nat /\ a <= envelope * 100
  BY SMTT(20)
<1> HIDE DEF a
<1>2. b \in Int /\ 0 * 100 <= b /\ ~((envelope + 1) * 100 <= b)
  BY <1>1
<1> HIDE DEF b
<1>3. /\ q \in Int
      /\ 0 <= q <=> 0 * 100 <= b
      /\ envelope + 1 <= q <=> (envelope + 1) * 100 <= b
  BY <1>2, Quotient
<1> HIDE DEF q
<1>4. q \in 0..envelope
  BY <1>2, <1>3
<1> QED BY <1>4 DEF PercentOfEnvelope, q, b, a

(* Spread over the strokes of a session: each burst at a stroke of its own. *)
LEMMA MilestonesNew ==
  ASSUME NEW strokes \in Nat, NEW percent \in 0..100
  PROVE  PlanNew(StrokeMilestonePlan(strokes, percent))
<1> DEFINE n == AtMost(MaxBurstEvents, PercentOfEnvelope(strokes, percent))
           f == [k \in 1..n |-> AtLeast(1, (k * strokes) \div n)]
<1>1. n \in 0..strokes
  <2> DEFINE m == PercentOfEnvelope(strokes, percent)
  <2>1. m \in 0..strokes
    BY EnvelopeShare
  <2> HIDE DEF m
  <2>2. AtMost(MaxBurstEvents, m) \in 0..strokes
    BY <2>1, MaxBurstEventsAssumption DEF AtMost
  <2> QED BY <2>2 DEF m
<1>2. StrokeMilestonePlan(strokes, percent) =
        IF n <= 0 THEN EmptyPlan ELSE SlotPlan("milestones", f)
  BY DEF StrokeMilestonePlan
<1> HIDE DEF n
<1>3. ASSUME n > 0 PROVE PlanNew(SlotPlan("milestones", f))
  <2>1. ASSUME NEW k \in 1..n
        PROVE  /\ (k * strokes) \div n \in Nat /\ (k * strokes) \div n >= 1
               /\ f[k] = (k * strokes) \div n
    <3> DEFINE a == k * strokes
               q == a \div n
    <3>1. k * n <= a /\ a \in Int
      BY <1>1, <2>1, SMTT(20)
    <3>2. k \in Int /\ n \in Nat \ {0}
      BY <1>1, <1>3, <2>1
    <3>3. f[k] = AtLeast(1, q)
      OBVIOUS
    <3> HIDE DEF a, f
    <3>4. q \in Int /\ (k <= q <=> k * n <= a)
      BY <3>1, <3>2, Quotient
    <3> HIDE DEF q
    <3>5. q \in Nat /\ q >= 1
      BY <3>1, <3>2, <3>4, <2>1
    <3>6. AtLeast(1, q) = q
      BY <3>5 DEF AtLeast
    <3> QED BY <3>3, <3>5, <3>6 DEF q, a
  <2>2. ASSUME NEW j \in 1..n, NEW k \in 1..n, j < k
        PROVE  (j * strokes) \div n < (k * strokes) \div n
    <3> DEFINE a == j * strokes
               b == k * strokes
               q == a \div n
               r == b \div n
    <3>1. a \in Int /\ b \in Int /\ a + strokes <= b
      <4>1. a \in Int /\ b \in Int
        BY <1>1, <2>2, SMTT(20)
      <4>2. (j + 1) * strokes = j * strokes + strokes
        BY <1>1, <2>2, SMTT(20)
      <4>3. (j + 1) * strokes <= k * strokes
        BY <1>1, <2>2, SMTT(20)
      <4> QED BY <4>1, <4>2, <4>3
    <3>2. n \in Nat \ {0} /\ n <= strokes
      BY <1>1, <1>3
    <3> HIDE DEF a, b
    <3>3. q \in Int /\ r \in Int /\ (q <= q <=> q * n <= a) /\ (q + 1 <= r <=> (q + 1) * n <= b)
      <4>1. q \in Int /\ \A x \in Int : (x <= q <=> x * n <= a)
        BY <3>1, <3>2, Quotient
      <4>2. r \in Int /\ \A x \in Int : (x <= r <=> x * n <= b)
        BY <3>1, <3>2, Quotient
      <4> HIDE DEF q, r
      <4> QED BY <4>1, <4>2
    <3> HIDE DEF q, r
    <3>4. (q + 1) * n = q * n + n /\ q * n \in Int
      BY <3>2, <3>3, SMTT(20)
    <3> DEFINE qn == q * n
    <3>5. qn <= a /\ (q + 1 <= r <=> qn + n <= b) /\ qn \in Int
      BY <3>3, <3>4
    <3> HIDE DEF qn
    <3>6. q < r
      BY <3>1, <3>2, <3>3, <3>5
    <3> QED BY <3>6 DEF q, r, a, b
  <2>3. f \in [1..n -> Nat]
    <3>1. \A k \in 1..n : f[k] \in Nat
      BY <2>1
    <3> QED BY <3>1
  <2>4. \A k \in 1..n : f[k] >= 1
    BY <2>1
  <2>5. \A j, k \in 1..n : j < k => f[j] < f[k]
    <3> HIDE DEF f
    <3> QED BY <2>1, <2>2
  <2> HIDE DEF f
  <2> QED BY <1>1, <2>3, <2>4, <2>5, SlotsNew DEF Slots
<1> QED BY <1>1, <1>2, <1>3, EmptyNew

(* Spread over the minutes of a session. *)
LEMMA DeadlinesNew ==
  ASSUME NEW minutes \in Nat, NEW percent \in 0..100
  PROVE  PlanNew(WallClockPlan(minutes, percent))
<1> DEFINE n == AtMost(MaxBurstEvents, PercentOfEnvelope(minutes, percent))
           f == [k \in 1..n |-> (k * (minutes * MinuteMs)) \div n]
<1>1. n \in Nat
  <2> DEFINE m == PercentOfEnvelope(minutes, percent)
  <2>1. m \in 0..minutes
    BY EnvelopeShare
  <2> HIDE DEF m
  <2>2. AtMost(MaxBurstEvents, m) \in Nat
    BY <2>1, MaxBurstEventsAssumption DEF AtMost
  <2> QED BY <2>2 DEF m
<1>2. WallClockPlan(minutes, percent) =
        IF n <= 0 THEN EmptyPlan ELSE SlotPlan("deadlines", f)
  BY DEF WallClockPlan
<1> HIDE DEF n
<1>3. ASSUME n > 0 PROVE PlanNew(SlotPlan("deadlines", f))
  <2>1. ASSUME NEW k \in 1..n PROVE (k * (minutes * MinuteMs)) \div n \in Nat
    <3> DEFINE w == minutes * MinuteMs
               a == k * w
               q == a \div n
    <3>1. w \in Nat
      BY MinuteMsAssumption, SMTT(20)
    <3> HIDE DEF w
    <3>2. a \in Nat
      BY <3>1, SMTT(20)
    <3> HIDE DEF a
    <3>3. n \in Nat \ {0} /\ a \in Int /\ 0 * n = 0
      BY <1>1, <1>3, <3>2
    <3>4. q \in Int /\ (0 <= q <=> 0 * n <= a)
      BY <3>3, Quotient
    <3> HIDE DEF q
    <3>5. q \in Nat
      BY <3>2, <3>3, <3>4
    <3> QED BY <3>5 DEF q, a, w
  <2>2. f \in [1..n -> Nat]
    BY <2>1
  <2> HIDE DEF f
  <2> QED BY <1>1, <2>2, SlotsNew DEF Slots
<1> QED BY <1>1, <1>2, <1>3, EmptyNew

(* Every so many strokes. *)
LEMMA StrideNew ==
  ASSUME NEW percent \in 0..100
  PROVE  PlanNew(CadenceStridePlan(percent))
<1> DEFINE s == BurstCadenceStride(percent)
           p == [EmptyPlan EXCEPT !.kind = "stride", !.stride = s, !.trigger = s]
<1>1. percent > 0 => s \in Nat /\ s >= 1
  <2> SUFFICES ASSUME percent > 0 PROVE s \in Nat /\ s >= 1
    OBVIOUS
  <2> DEFINE a == 200 + percent
             b == 2 * percent
             q == a \div b
  <2>1. a \in Int /\ b \in Nat \ {0} /\ 1 * b <= a
    OBVIOUS
  <2>2. s = q
    BY DEF BurstCadenceStride
  <2> HIDE DEF a, b, s
  <2>3. q \in Int /\ (1 <= q <=> 1 * b <= a)
    BY <2>1, Quotient
  <2> HIDE DEF q
  <2> QED BY <2>1, <2>2, <2>3
<1>2. CadenceStridePlan(percent) = IF percent <= 0 THEN EmptyPlan ELSE p
  BY DEF CadenceStridePlan
<1> HIDE DEF s
<1>3. ASSUME percent > 0 PROVE PlanNew(p)
  <2>1. /\ p \in PlanType /\ p.kind = "stride" /\ p.next = 0 /\ p.at = <<>>
        /\ p.stride = s /\ p.trigger = s /\ Len(p.at) = 0
    BY <1>1, <1>3, EmptyFields DEF PlanType
  <2> HIDE DEF p
  <2>2. s >= 1
    BY <1>1, <1>3
  <2> QED BY <2>1, <2>2 DEF PlanNew, PlanOk, Slots
<1> QED BY <1>2, <1>3, EmptyNew

(* The plan of the form that is shown. *)
LEMMA PlanBuilt ==
  ASSUME FormNormal
  PROVE  PlanNew(BuildRelayBurstPlan(form))
<1> DEFINE placement == ResolveBurstPlacement(form.burstPlacement)
           instead == BurstInsteadOfMain(placement)
<1>1. form.burstPercent \in 0..100 /\ form.endSessionValue \in Nat
  BY FormFields DEF FormNormal, Normal, BurstRules
<1>2. PICK p : /\ p \in {EmptyPlan, [EmptyPlan EXCEPT !.kind = "chance"],
                         StrokeMilestonePlan(form.endSessionValue, form.burstPercent),
                         CadenceStridePlan(form.burstPercent),
                         WallClockPlan(form.endSessionValue, form.burstPercent)}
               /\ \/ BuildRelayBurstPlan(form) = EmptyPlan
                  \/ BuildRelayBurstPlan(form) = [p EXCEPT !.instead = instead]
  BY DEF BuildRelayBurstPlan
<1>3. PlanNew(p)
  BY <1>1, <1>2, EmptyNew, MilestonesNew, StrideNew, DeadlinesNew
<1>4. instead \in BOOLEAN
  BY DEF BurstInsteadOfMain
<1> HIDE DEF instead
<1>5. PlanNew([p EXCEPT !.instead = instead])
  BY <1>3, <1>4 DEF PlanNew, PlanOk, PlanType
<1> QED BY <1>2, <1>5, EmptyNew

-----------------------------------------------------------------------------
(* The invariant of a preview *)

(* The bursts drawn are the bursts the plan has given, and none of them was
   drawn before its time. *)
Counted(d) ==
  LET p == d.plan IN
  /\ p.kind = "none" => d.bursts = 0
  /\ p.kind \in Slots => d.bursts = p.next
  /\ p.kind = "milestones" => \A k \in 1..p.next : p.at[k] <= Upcoming(d)
  /\ p.kind = "deadlines" => \A k \in 1..p.next : p.at[k] <= Elapsed(d)
  /\ p.kind = "stride" => /\ p.trigger = p.stride * (d.bursts + 1)
                          /\ p.stride * d.bursts <= Upcoming(d)

(* None is left out. *)
NoneDue(d) ==
  LET p == d.plan IN
  /\ p.kind = "milestones" => \A k \in p.next + 1..Len(p.at) : d.mains < p.at[k]
  /\ p.kind = "stride" => d.mains < p.trigger

(* A burst that is drawn is the one that is due: at main stroke n, before,
   after or instead of it, or by the clock. *)
DueFor(p, n) ==
  /\ p.kind \in {"milestones", "stride", "chance"}
  /\ p.kind = "milestones" => SlotOpen(p) /\ NextSlot(p) = n
  /\ p.kind = "stride" => p.trigger = n
BurstOf(d, back) ==
  LET p == d.plan IN
  \/ /\ back = "wait" /\ Relay
     /\ p.kind = "deadlines" /\ SlotOpen(p) /\ NextSlot(p) <= Elapsed(d)
  \/ /\ back = IF Relay THEN "skip" ELSE "count"
     /\ p.instead /\ DueFor(p, d.mains + 1)
  \/ /\ back = IF Relay THEN "gap" ELSE "beat"
     /\ ~p.instead /\ DueFor(p, d.mains)
InBurst(d) == BurstOf(d, d.back)

(* Every beat of a relay but the one it is at is a main stroke, or the burst
   in the place of one; and the strokes asked for are not passed. *)
Skips(d) == IF d.plan.instead /\ d.plan.kind # "deadlines" THEN d.bursts ELSE 0
Passing(d) == d.at \in {"gap", "wait"} \/ (d.at = "cluster" /\ d.back \in {"gap", "wait"})
Indexed(d) ==
  /\ Passing(d) => Relay
  /\ Relay => d.index + (IF Passing(d) THEN 1 ELSE 0) = d.mains + Skips(d)
Asked == Relay /\ form.endSessionMode = "strokes" /\ form.endSessionValue > 0
Unended(d) ==
  Asked => d.mains + (IF Passing(d) THEN 0 ELSE 1) <= form.endSessionValue

Paced(d) ==
  /\ Counted(d) /\ Indexed(d) /\ Unended(d)
  /\ IF d.at = "cluster" THEN InBurst(d) ELSE NoneDue(d)

AllShown(d) ==
  Asked => /\ d.mains <= form.endSessionValue
           /\ (d.t < Horizon /\ ~d.plan.instead) => d.mains = form.endSessionValue

Working(d) == d.at \in {"beat", "cluster", "gap", "wait"}
Ended(d) ==
  /\ d.at = "end" => AllShown(d)
  /\ (d.at = "drawn" /\ Fits) =>
       d.points # <<>> /\ InOrder(d.points) /\ Last(d.points)[1] <= Horizon

PreviewInv(d) ==
  /\ d \in DrawType /\ PlanOk(d.plan)
  /\ Working(d) => Fits /\ Paced(d)
  /\ Fits /\ d.at # "drawn" => OnTime(d)
  /\ Ended(d)
DrawingInv == drawing.at # "none" => PreviewInv(drawing)

-----------------------------------------------------------------------------
(* What the invariant says of a preview that is shown *)

(* Slots that are counted in their order. *)
LEMMA SlotsCounted ==
  ASSUME NEW p \in PlanType, p.next <= Len(p.at), NEW n \in Int
  PROVE  /\ (\A k \in 1..p.next : p.at[k] <= n) => p.next <= SlotsUpTo(p, n)
         /\ (\A k \in p.next + 1..Len(p.at) : n < p.at[k]) => SlotsUpTo(p, n) <= p.next
         /\ SlotsUpTo(p, n) \in Nat
<1> DEFINE S == {k \in DOMAIN p.at : p.at[k] <= n}
<1>1. /\ p.at \in Seq(Nat) /\ p.next \in Nat /\ Len(p.at) \in Nat
      /\ DOMAIN p.at = 1..Len(p.at)
      /\ \A k \in 1..Len(p.at) : p.at[k] \in Nat
  BY DEF PlanType
<1>2. /\ IsFiniteSet(1..Len(p.at)) /\ IsFiniteSet(1..p.next)
      /\ Cardinality(1..p.next) = p.next
  <2> DEFINE m == p.next
             l == Len(p.at)
  <2>1. m \in Nat /\ l \in Nat
    BY <1>1
  <2> HIDE DEF m, l
  <2>2. IsFiniteSet(1..l) /\ IsFiniteSet(1..m)
    BY <2>1, FS_Interval
  <2>3. Cardinality(1..m) = IF 1 > m THEN 0 ELSE m - 1 + 1
    BY <2>1, FS_Interval
  <2> QED BY <2>1, <2>2, <2>3 DEF m, l
<1>3. S \in SUBSET (1..Len(p.at))
  BY <1>1
<1>4. IsFiniteSet(S) /\ Cardinality(S) \in Nat
  BY <1>2, <1>3, FS_Subset, FS_CardinalityType
<1>5. SlotsUpTo(p, n) = Cardinality(S)
  BY DEF SlotsUpTo
<1>6. ASSUME \A k \in 1..p.next : p.at[k] <= n
      PROVE  p.next <= Cardinality(S)
  <2>1. 1..p.next \in SUBSET S
    BY <1>1, <1>6
  <2> HIDE DEF S
  <2>2. Cardinality(1..p.next) <= Cardinality(S)
    BY <1>4, <2>1, FS_Subset
  <2> QED BY <1>2, <2>2
<1>7. ASSUME \A k \in p.next + 1..Len(p.at) : n < p.at[k]
      PROVE  Cardinality(S) <= p.next
  <2>1. S \in SUBSET (1..p.next)
    <3> SUFFICES ASSUME NEW k \in S PROVE k \in 1..p.next
      OBVIOUS
    <3>1. k \in 1..Len(p.at) /\ p.at[k] <= n /\ p.at[k] \in Nat
      BY <1>1
    <3>2. ~(k \in p.next + 1..Len(p.at))
      BY <1>7, <3>1
    <3> QED BY <1>1, <3>1, <3>2
  <2> HIDE DEF S
  <2>2. Cardinality(S) <= Cardinality(1..p.next)
    BY <1>2, <2>1, FS_Subset
  <2> QED BY <1>2, <2>2
<1> HIDE DEF S
<1> QED BY <1>4, <1>5, <1>6, <1>7

(* At a stride of s there are as many bursts as strides in the strokes. *)
LEMMA StridesCounted ==
  ASSUME NEW s \in Nat, s >= 1, NEW b \in Nat, NEW m \in Nat, NEW n \in Nat,
         s * b <= n, m < s * (b + 1)
  PROVE  b \in (m \div s)..(n \div s)
<1> DEFINE q == m \div s
           r == n \div s
<1>1. s \in Nat \ {0} /\ b + 1 \in Int /\ b * s = s * b /\ (b + 1) * s = s * (b + 1)
      /\ s * b \in Int /\ s * (b + 1) \in Int
  BY SMTT(20)
<1>2. /\ q \in Int /\ (b + 1 <= q <=> (b + 1) * s <= m)
      /\ r \in Int /\ (b <= r <=> b * s <= n)
  BY <1>1, Quotient
<1> HIDE DEF q, r
<1> DEFINE x == s * b
           y == s * (b + 1)
<1>3. (b + 1 <= q <=> y <= m) /\ (b <= r <=> x <= n) /\ x <= n /\ m < y /\ x \in Int /\ y \in Int
  BY <1>1, <1>2
<1> HIDE DEF x, y
<1>4. b \in q..r
  BY <1>2, <1>3
<1> QED BY <1>4 DEF q, r

(* The stroke that is looked at, and the time since the start. *)
LEMMA UpcomingIs ==
  ASSUME NEW d \in DrawType
  PROVE  /\ Upcoming(d) \in Nat /\ d.mains <= Upcoming(d)
         /\ Upcoming(d) = IF d.plan.instead /\ Relay THEN d.mains + 1 ELSE d.mains
BY DEF Upcoming, DrawType

LEMMA ElapsedIs ==
  ASSUME FormNormal, NEW d \in DrawType, NEW e \in DrawType, d.t <= e.t
  PROVE  Elapsed(d) \in Nat /\ Elapsed(e) \in Nat /\ Elapsed(d) <= Elapsed(e)
<1>1. d.t \in Int /\ e.t \in Int /\ form.delayBeforeStart \in Int
  BY FormFields DEF DrawType
<1> QED BY <1>1 DEF Elapsed, AtLeast

(* The invariant says what PreviewTrue says, and more. *)
LEMMA InvShown ==
  ASSUME FormNormal, DrawingInv
  PROVE  PreviewTrue
<1> DEFINE d == drawing
           p == d.plan
<1>1. WellDrawn
  <2> SUFFICES ASSUME d.at # "none", Fits
               PROVE  /\ InOrder(d.points) /\ Last(d.points)[1] <= Horizon
                      /\ \A i \in DOMAIN d.points : d.points[i][2] \in Levels
    BY DEF WellDrawn, Levels
  <2>1. PreviewInv(d)
    BY DEF DrawingInv
  <2> HIDE DEF d
  <2>2. d \in DrawType /\ d.points \in Seq(Int \X Levels)
    BY <2>1 DEF PreviewInv, DrawType
  <2>3. \A i \in DOMAIN d.points : d.points[i][2] \in Levels
    BY <2>2
  <2>4. InOrder(d.points) /\ Last(d.points)[1] <= Horizon
    <3>1. CASE d.at = "drawn"
      BY <2>1, <3>1 DEF PreviewInv, Ended
    <3>2. CASE d.at # "drawn"
      BY <2>1, <3>2, TimesTyped DEF PreviewInv, OnTime, OnPaper
    <3> QED BY <3>1, <3>2
  <2> QED BY <2>3, <2>4
<1>2. BurstsOnTheirBeats
  <2> SUFFICES ASSUME d.at = "beat"
               PROVE  /\ p.kind = "milestones" =>
                           d.bursts \in SlotsUpTo(p, d.mains)..SlotsUpTo(p, Upcoming(d))
                      /\ p.kind = "stride" =>
                           d.bursts \in (d.mains \div p.stride)..(Upcoming(d) \div p.stride)
                      /\ p.kind = "deadlines" => d.bursts <= SlotsUpTo(p, Elapsed(d))
                      /\ Relay => d.index = d.mains + Skips(d)
    BY DEF BurstsOnTheirBeats, Skips
  <2>1. PreviewInv(d) /\ Working(d)
    BY DEF DrawingInv, Working
  <2> HIDE DEF d
  <2>2. d \in DrawType /\ PlanOk(p) /\ Counted(d) /\ NoneDue(d) /\ Indexed(d)
    BY <2>1 DEF PreviewInv, Paced
  <2>3. /\ p \in PlanType /\ p.next <= Len(p.at) /\ d.mains \in Nat /\ d.bursts \in Nat
        /\ Upcoming(d) \in Nat /\ Elapsed(d) \in Nat
    <3>1. p.next <= Len(p.at)
      BY <2>2 DEF PlanOk
    <3>2. /\ p \in PlanType /\ d.mains \in Nat /\ d.bursts \in Nat
          /\ d.t \in Int /\ d.t <= d.t
      BY <2>2 DEF DrawType
    <3>3. Upcoming(d) \in Nat /\ Elapsed(d) \in Nat
      BY <2>2, <3>2, UpcomingIs, ElapsedIs
    <3> QED BY <3>1, <3>2, <3>3
  <2> DEFINE Index == Relay => d.index = d.mains + Skips(d)
  <2>0. Index
    <3>1. ~Passing(d)
      BY DEF Passing
    <3>2. d.index \in Nat
      BY <2>2 DEF DrawType
    <3> QED BY <2>2, <3>1, <3>2 DEF Indexed
  <2> HIDE DEF Index
  <2>4. CASE p.kind = "milestones"
    <3>1. /\ d.bursts = p.next /\ \A k \in 1..p.next : p.at[k] <= Upcoming(d)
          /\ \A k \in p.next + 1..Len(p.at) : d.mains < p.at[k]
      BY <2>2, <2>4 DEF Counted, NoneDue, Slots
    <3> HIDE DEF p
    <3>2. p.next <= SlotsUpTo(p, Upcoming(d)) /\ SlotsUpTo(p, Upcoming(d)) \in Nat
      BY <2>3, <3>1, SlotsCounted
    <3>3. SlotsUpTo(p, d.mains) <= p.next /\ SlotsUpTo(p, d.mains) \in Nat
      BY <2>3, <3>1, SlotsCounted
    <3>4. d.bursts \in SlotsUpTo(p, d.mains)..SlotsUpTo(p, Upcoming(d))
      BY <2>3, <3>1, <3>2, <3>3
    <3> QED BY <2>0, <2>4, <3>4 DEF Index, p
  <2>5. CASE p.kind = "deadlines"
    <3>1. d.bursts = p.next /\ \A k \in 1..p.next : p.at[k] <= Elapsed(d)
      BY <2>2, <2>5 DEF Counted, Slots
    <3> HIDE DEF p
    <3>2. p.next <= SlotsUpTo(p, Elapsed(d))
      BY <2>3, <3>1, SlotsCounted
    <3> QED BY <2>0, <2>5, <3>1, <3>2 DEF Index, p
  <2>6. CASE p.kind = "stride"
    <3>1. /\ p.stride * d.bursts <= Upcoming(d) /\ d.mains < p.stride * (d.bursts + 1)
          /\ p.stride \in Nat /\ p.stride >= 1
      BY <2>2, <2>3, <2>6 DEF Counted, NoneDue, PlanOk, PlanType
    <3> HIDE DEF p
    <3>2. d.bursts \in (d.mains \div p.stride)..(Upcoming(d) \div p.stride)
      BY <2>3, <3>1, StridesCounted
    <3> QED BY <2>0, <2>6, <3>2 DEF Index, p
  <2>7. CASE p.kind \notin {"milestones", "deadlines", "stride"}
    BY <2>0, <2>7 DEF Index
  <2> QED BY <2>4, <2>5, <2>6, <2>7
<1>3. StrokesShown
  BY DEF DrawingInv, PreviewInv, Ended, AllShown, Asked, StrokesShown
<1> QED BY <1>1, <1>2, <1>3 DEF PreviewTrue

-----------------------------------------------------------------------------
(* Bursts and the plan *)

(* The fields of a plan and of a drawing. *)
LEMMA PlanFields ==
  ASSUME NEW p \in PlanType
  PROVE  /\ p.at \in Seq(Nat) /\ p.next \in Nat /\ p.stride \in Nat /\ p.trigger \in Nat
         /\ Len(p.at) \in Nat /\ DOMAIN p.at = 1..Len(p.at) /\ p.instead \in BOOLEAN
         /\ p.kind \in {"none", "milestones", "deadlines", "stride", "chance"}
         /\ \A k \in 1..Len(p.at) : p.at[k] \in Nat
BY DEF PlanType

LEMMA DrawFields ==
  ASSUME NEW d \in DrawType
  PROVE  /\ d.t \in Int /\ d.mains \in Nat /\ d.bursts \in Nat /\ d.index \in Nat
         /\ d.left \in Int /\ d.gap \in Int /\ d.plan \in PlanType /\ d.level \in Levels
         /\ d.points \in Seq(Int \X Levels)
         /\ d.back \in Backs
BY DEF DrawType

(* The burst that is found is the one for the stroke that is looked at. *)
LEMMA DueFrom ==
  ASSUME NEW d \in DrawType, NoneDue(d), NEW hit, BurstDue(d.plan, d.mains + 1, hit)
  PROVE  DueFor(d.plan, d.mains + 1)
<1> DEFINE p == d.plan
           m == d.mains
<1>1. p \in PlanType /\ m \in Nat
  BY DrawFields
<1>2. /\ p.kind = "milestones" => \A k \in p.next + 1..Len(p.at) : m < p.at[k]
      /\ p.kind = "stride" => m < p.trigger
      /\ BurstDue(p, m + 1, hit)
  BY DEF NoneDue
<1> SUFFICES DueFor(p, m + 1)
  OBVIOUS
<1> HIDE DEF p, m
<1>3. CASE p.kind = "milestones"
  <2>1. p.next < Len(p.at) /\ m + 1 >= p.at[p.next + 1]
    BY <1>2, <1>3 DEF BurstDue, SlotOpen, NextSlot
  <2>2. p.next + 1 \in p.next + 1..Len(p.at) /\ p.next + 1 \in 1..Len(p.at)
    BY <1>1, <2>1, PlanFields
  <2>3. m < p.at[p.next + 1] /\ p.at[p.next + 1] \in Nat
    BY <1>1, <1>2, <1>3, <2>2, PlanFields
  <2>4. p.at[p.next + 1] = m + 1
    BY <1>1, <2>1, <2>3
  <2> QED BY <1>3, <2>1, <2>4 DEF DueFor, SlotOpen, NextSlot
<1>4. CASE p.kind = "stride"
  <2>1. m + 1 >= p.trigger /\ m < p.trigger /\ p.trigger \in Nat
    BY <1>1, <1>2, <1>4, PlanFields DEF BurstDue
  <2> QED BY <1>1, <1>4, <2>1 DEF DueFor
<1>5. CASE p.kind \notin {"milestones", "stride"}
  BY <1>2, <1>5 DEF BurstDue, DueFor
<1> QED BY <1>3, <1>4, <1>5

(* And when none is found, none is due. *)
LEMMA NotDue ==
  ASSUME NEW d \in DrawType, PlanOk(d.plan), NEW hit, ~BurstDue(d.plan, d.mains, hit)
  PROVE  NoneDue(d)
<1> DEFINE p == d.plan
           m == d.mains
<1>1. p \in PlanType /\ m \in Nat
  BY DrawFields
<1>2. PlanOk(p) /\ ~BurstDue(p, m, hit)
  OBVIOUS
<1> SUFFICES /\ p.kind = "milestones" => \A k \in p.next + 1..Len(p.at) : m < p.at[k]
             /\ p.kind = "stride" => m < p.trigger
  BY DEF NoneDue
<1> HIDE DEF p, m
<1>3. ASSUME p.kind = "milestones", NEW k \in p.next + 1..Len(p.at)
      PROVE  m < p.at[k]
  <2>1. p.next < Len(p.at) /\ p.next + 1 \in 1..Len(p.at) /\ k \in 1..Len(p.at)
    BY <1>1, PlanFields
  <2>2. m < p.at[p.next + 1]
    BY <1>1, <1>2, <1>3, <2>1, PlanFields DEF BurstDue, SlotOpen, NextSlot
  <2>3. p.next + 1 < k => p.at[p.next + 1] < p.at[k]
    BY <1>2, <1>3, <2>1 DEF PlanOk
  <2> QED BY <1>1, <2>1, <2>2, <2>3, PlanFields
<1>4. p.kind = "stride" => m < p.trigger
  BY <1>1, <1>2, PlanFields DEF BurstDue
<1> QED BY <1>3, <1>4

(* The plan after a burst that was due. *)
LEMMA AdvanceTyped ==
  ASSUME NEW p \in PlanType, PlanOk(p)
  PROVE  LET q == AdvanceBurstPlan(p) IN
         /\ q \in PlanType /\ PlanOk(q)
         /\ q.kind = p.kind /\ q.instead = p.instead /\ q.at = p.at /\ q.stride = p.stride
         /\ SlotOpen(p) => q.next = p.next + 1
         /\ ~SlotOpen(p) => q.next = p.next /\ q.trigger = p.trigger + p.stride
<1> DEFINE q == AdvanceBurstPlan(p)
<1>1. /\ q \in PlanType
      /\ q.kind = p.kind /\ q.instead = p.instead /\ q.at = p.at /\ q.stride = p.stride
      /\ SlotOpen(p) => q.next = p.next + 1
      /\ ~SlotOpen(p) => q.next = p.next /\ q.trigger = p.trigger + p.stride
  BY DEF AdvanceBurstPlan, PlanType
<1> HIDE DEF q
<1>2. PlanOk(q)
  BY <1>1, PlanFields DEF PlanOk, SlotOpen
<1> QED BY <1>1, <1>2 DEF q

(* Bursts that were in time still are when strokes and time have gone on. *)
LEMMA CountedKept ==
  ASSUME FormNormal, NEW d \in DrawType, NEW e \in DrawType, Counted(d), PlanOk(d.plan),
         e.plan = d.plan, e.bursts = d.bursts, d.mains <= e.mains, d.t <= e.t
  PROVE  Counted(e)
<1>1. Upcoming(d) \in Nat /\ Upcoming(e) \in Nat /\ Upcoming(d) <= Upcoming(e)
  BY UpcomingIs, DrawFields
<1>2. Elapsed(d) \in Nat /\ Elapsed(e) \in Nat /\ Elapsed(d) <= Elapsed(e)
  BY ElapsedIs
<1> DEFINE p == d.plan
<1>3. p \in PlanType /\ p.next <= Len(p.at) /\ PlanOk(p)
  BY DrawFields DEF PlanOk
<1>4. /\ p.kind = "none" => d.bursts = 0
      /\ p.kind \in Slots => d.bursts = p.next
      /\ p.kind = "milestones" => \A k \in 1..p.next : p.at[k] <= Upcoming(d)
      /\ p.kind = "deadlines" => \A k \in 1..p.next : p.at[k] <= Elapsed(d)
      /\ p.kind = "stride" => /\ p.trigger = p.stride * (d.bursts + 1)
                              /\ p.stride * d.bursts <= Upcoming(d)
  BY DEF Counted
<1>5. e.plan = p
  OBVIOUS
<1> HIDE DEF p
<1>6. /\ p.kind = "milestones" => \A k \in 1..p.next : p.at[k] <= Upcoming(e)
      /\ p.kind = "deadlines" => \A k \in 1..p.next : p.at[k] <= Elapsed(e)
  <2>1. \A k \in 1..p.next : k \in 1..Len(p.at) /\ p.at[k] \in Nat
    BY <1>3, PlanFields
  <2> QED BY <1>1, <1>2, <1>4, <2>1
<1>7. p.kind = "stride" => p.stride * e.bursts <= Upcoming(e)
  <2> DEFINE x == p.stride * d.bursts
  <2>1. x \in Int
    BY <1>3, PlanFields, DrawFields, SMTT(20)
  <2> HIDE DEF x
  <2>2. p.kind = "stride" => x <= Upcoming(d)
    BY <1>4 DEF x
  <2>3. p.kind = "stride" => x <= Upcoming(e)
    BY <1>1, <2>1, <2>2
  <2> QED BY <2>3 DEF x
<1> QED BY <1>4, <1>5, <1>6, <1>7 DEF Counted

(* A burst that was due is drawn, and the plan moves on. *)
DueNow(d, n) ==
  \/ DueFor(d.plan, n)
  \/ d.plan.kind = "deadlines" /\ SlotOpen(d.plan) /\ NextSlot(d.plan) <= Elapsed(d)

(* Then it is counted, in time, and no other one is due. *)
LEMMA BurstCounted ==
  ASSUME FormNormal, NEW d \in DrawType, NEW e \in DrawType, PlanOk(d.plan), Counted(d),
         e.plan = AdvanceBurstPlan(d.plan), e.bursts = d.bursts + 1,
         d.mains <= e.mains, d.t <= e.t,
         NEW n \in Nat, e.mains <= n, n <= Upcoming(e), DueNow(d, n)
  PROVE  PlanOk(e.plan) /\ Counted(e) /\ NoneDue(e)
<1> DEFINE p == d.plan
           q == e.plan
           up == Upcoming(e)
           at == Elapsed(e)
           b == d.bursts
           m == e.mains
<1>1. /\ p \in PlanType /\ PlanOk(p) /\ b \in Nat /\ m \in Nat
      /\ up \in Nat /\ at \in Nat /\ n <= up /\ m <= n
      /\ Upcoming(d) \in Nat /\ Upcoming(d) <= up /\ Elapsed(d) \in Nat /\ Elapsed(d) <= at
  <2>1. e.plan.instead = d.plan.instead
    BY DrawFields, AdvanceTyped
  <2>2. Upcoming(d) \in Nat /\ Upcoming(e) \in Nat /\ Upcoming(d) <= Upcoming(e)
    BY <2>1, DrawFields, UpcomingIs
  <2>3. Elapsed(d) \in Nat /\ Elapsed(e) \in Nat /\ Elapsed(d) <= Elapsed(e)
    BY ElapsedIs
  <2> QED BY <2>2, <2>3, DrawFields
<1>2. /\ q \in PlanType /\ PlanOk(q)
      /\ q.kind = p.kind /\ q.at = p.at /\ q.stride = p.stride
      /\ SlotOpen(p) => q.next = p.next + 1
      /\ ~SlotOpen(p) => q.next = p.next /\ q.trigger = p.trigger + p.stride
  BY <1>1, AdvanceTyped
<1>3. /\ p.kind = "none" => b = 0
      /\ p.kind \in Slots => b = p.next
      /\ p.kind = "milestones" => \A k \in 1..p.next : p.at[k] <= Upcoming(d)
      /\ p.kind = "deadlines" => \A k \in 1..p.next : p.at[k] <= Elapsed(d)
      /\ p.kind = "stride" => p.trigger = p.stride * (b + 1)
  BY DEF Counted
<1>4. DueFor(p, n) \/ (p.kind = "deadlines" /\ SlotOpen(p) /\ NextSlot(p) <= Elapsed(d))
  BY DEF DueNow
<1>5. e.bursts = b + 1
  OBVIOUS
<1> SUFFICES /\ q.kind = "none" => b + 1 = 0
             /\ q.kind \in Slots => b + 1 = q.next
             /\ q.kind = "milestones" => \A k \in 1..q.next : q.at[k] <= up
             /\ q.kind = "deadlines" => \A k \in 1..q.next : q.at[k] <= at
             /\ q.kind = "stride" => /\ q.trigger = q.stride * ((b + 1) + 1)
                                     /\ q.stride * (b + 1) <= up
             /\ q.kind = "milestones" => \A k \in q.next + 1..Len(q.at) : m < q.at[k]
             /\ q.kind = "stride" => m < q.trigger
  BY <1>2, <1>5 DEF Counted, NoneDue
<1>6. Upcoming(d) \in Nat /\ Elapsed(d) \in Nat
  BY <1>1
<1> DEFINE before == Upcoming(d)
           past == Elapsed(d)
<1> HIDE DEF p, q, up, at, b, m, before, past
<1>7. CASE p.kind = "milestones"
  <2>1. /\ p.next < Len(p.at) /\ p.at[p.next + 1] = n /\ q.next = p.next + 1
        /\ p.next \in Nat /\ Len(p.at) \in Nat
    BY <1>1, <1>2, <1>4, <1>7, PlanFields DEF DueFor, SlotOpen, NextSlot
  <2>2. b + 1 = q.next
    BY <1>3, <1>7, <2>1 DEF Slots
  <2>3. ASSUME NEW k \in 1..q.next PROVE q.at[k] <= up
    <3>1. CASE k = p.next + 1
      BY <1>1, <1>2, <2>1, <3>1
    <3>2. CASE k # p.next + 1
      <4>1. k \in 1..p.next /\ k \in 1..Len(p.at)
        BY <2>1, <3>2
      <4>2. p.at[k] <= before /\ p.at[k] \in Nat
        BY <1>1, <1>3, <1>7, <4>1, PlanFields DEF before
      <4>3. before \in Nat /\ before <= up
        BY <1>1 DEF before
      <4> QED BY <1>1, <1>2, <4>2, <4>3
    <3> QED BY <3>1, <3>2
  <2>4. ASSUME NEW k \in q.next + 1..Len(q.at) PROVE m < q.at[k]
    <3>1. k \in 1..Len(p.at) /\ p.next + 1 \in 1..Len(p.at) /\ p.next + 1 < k
      BY <1>2, <2>1
    <3>2. p.at[p.next + 1] < p.at[k] /\ p.at[k] \in Nat
      BY <1>1, <1>7, <3>1, PlanFields DEF PlanOk
    <3> QED BY <1>1, <1>2, <2>1, <3>2
  <2> QED BY <1>2, <1>7, <2>2, <2>3, <2>4
<1>8. CASE p.kind = "deadlines"
  <2>1. /\ p.next < Len(p.at) /\ p.at[p.next + 1] <= past /\ q.next = p.next + 1
        /\ p.next \in Nat /\ Len(p.at) \in Nat
    BY <1>1, <1>2, <1>4, <1>8, PlanFields DEF DueFor, SlotOpen, NextSlot, past
  <2>2. b + 1 = q.next
    BY <1>3, <1>8, <2>1 DEF Slots
  <2>3. ASSUME NEW k \in 1..q.next PROVE q.at[k] <= at
    <3>1. k \in 1..Len(p.at) /\ (k = p.next + 1 \/ k \in 1..p.next)
      BY <2>1
    <3>2. p.at[k] <= past /\ p.at[k] \in Nat
      BY <1>1, <1>3, <1>8, <2>1, <3>1, PlanFields DEF past
    <3>3. past \in Nat /\ past <= at
      BY <1>1 DEF past
    <3> QED BY <1>1, <1>2, <3>2, <3>3
  <2> QED BY <1>2, <1>8, <2>2, <2>3
<1>9. CASE p.kind = "stride"
  <2>1. p.trigger = n /\ p.stride \in Nat /\ p.stride >= 1 /\ p.at = <<>>
    BY <1>1, <1>4, <1>9, PlanFields DEF DueFor, PlanOk, Slots
  <2>2. ~SlotOpen(p)
    BY <1>1, <2>1, PlanFields DEF SlotOpen
  <2>3. q.trigger = n + p.stride /\ n = p.stride * (b + 1)
    BY <1>2, <1>3, <1>9, <2>1, <2>2
  <2> DEFINE s == p.stride
  <2>4. s * ((b + 1) + 1) = s * (b + 1) + s
    BY <1>1, <2>1, SMTT(20)
  <2>5. m < q.trigger
    BY <1>1, <2>1, <2>3
  <2>6. q.trigger = q.stride * ((b + 1) + 1) /\ q.stride * (b + 1) <= up
    BY <1>1, <1>2, <2>3, <2>4
  <2> QED BY <1>2, <1>9, <2>5, <2>6 DEF Slots
<1>10. CASE p.kind \in {"none", "chance"}
  BY <1>2, <1>4, <1>10 DEF DueFor, Slots
<1> QED BY <1>1, <1>7, <1>8, <1>9, <1>10, PlanFields

-----------------------------------------------------------------------------
(* The steps of a preview *)

(* Of what is drawn nothing has changed. *)
Alike(d, e) ==
  /\ e.t = d.t /\ e.points = d.points /\ e.index = d.index /\ e.mains = d.mains
  /\ e.bursts = d.bursts /\ e.plan = d.plan

(* What is said of the drawing stays true. *)
LEMMA AlikeKept ==
  ASSUME FormNormal, NEW d \in DrawType, NEW e \in DrawType, Alike(d, e), PlanOk(d.plan)
  PROVE  /\ PlanOk(e.plan) /\ (Counted(d) => Counted(e)) /\ (NoneDue(d) => NoneDue(e))
         /\ (OnTime(d) => OnTime(e)) /\ Skips(e) = Skips(d) /\ Upcoming(e) = Upcoming(d)
         /\ \A back : BurstOf(d, back) => BurstOf(e, back)
<1>1. Counted(d) => Counted(e)
  BY CountedKept, DrawFields DEF Alike
<1>2. /\ PlanOk(e.plan) /\ (NoneDue(d) => NoneDue(e)) /\ (OnTime(d) => OnTime(e))
      /\ Skips(e) = Skips(d) /\ Upcoming(e) = Upcoming(d)
  BY DEF Alike, NoneDue, OnTime, Skips, Upcoming
<1>3. Elapsed(e) = Elapsed(d)
  BY DEF Alike, Elapsed
<1>4. ASSUME NEW back, BurstOf(d, back) PROVE BurstOf(e, back)
  BY <1>3, <1>4 DEF Alike, BurstOf
<1> QED BY <1>1, <1>2, <1>4

(* Only the place in the loop changes. *)
LEMMA TurnedTo ==
  ASSUME NEW p \in DrawType, NEW x \in Backs \cup {"cluster", "end", "drawn"}
  PROVE  LET e == [p EXCEPT !.at = x]
         IN e \in DrawType /\ Alike(p, e) /\ e.at = x /\ e.back = p.back
BY DEF DrawType, Alike

(* What a beat needs. *)
Ready(p) ==
  /\ p \in DrawType /\ PlanOk(p.plan) /\ Counted(p) /\ NoneDue(p)
  /\ p.t < Horizon => Fits
  /\ Fits => OnTime(p)
  /\ Relay => p.index = p.mains + Skips(p)
  /\ Asked => p.mains + 1 <= form.endSessionValue

(* The loop goes on to the next beat or ends. *)
LEMMA BeatKept ==
  ASSUME FormNormal, NEW p, Ready(p)
  PROVE  PreviewInv(AtBeat(p))
<1> DEFINE x == IF p.t < Horizon /\ (Relay \/ p.index < MaxSegments) THEN "beat" ELSE "end"
           e == [p EXCEPT !.at = x]
<1>1. p \in DrawType /\ PlanOk(p.plan) /\ Counted(p) /\ NoneDue(p)
  BY DEF Ready
<1>2. AtBeat(p) = e
  BY DEF AtBeat
<1>3. /\ x \in {"beat", "end"} /\ (x = "beat" => p.t < Horizon)
      /\ x = "end" /\ Relay => ~(p.t < Horizon)
  <2>1. CASE p.t < Horizon /\ (Relay \/ p.index < MaxSegments)
    BY <2>1
  <2>2. CASE ~(p.t < Horizon /\ (Relay \/ p.index < MaxSegments))
    BY <2>2
  <2> QED BY <2>1, <2>2
<1> HIDE DEF x
<1>4. e \in DrawType /\ Alike(p, e) /\ e.at = x
  <2>1. x \in Backs \cup {"cluster", "end", "drawn"}
    BY <1>3 DEF Backs
  <2> QED BY <1>1, <2>1, TurnedTo
<1> HIDE DEF e
<1>5. /\ PlanOk(e.plan) /\ Counted(e) /\ NoneDue(e) /\ (OnTime(p) => OnTime(e))
      /\ Skips(e) = Skips(p)
  BY <1>1, <1>4, AlikeKept
<1>6. Working(e) => Fits /\ e.at = "beat"
  BY <1>4, <1>3 DEF Working, Ready
<1>7. e.at = "beat" => Indexed(e) /\ Unended(e)
  <2> SUFFICES ASSUME e.at = "beat" PROVE Indexed(e) /\ Unended(e)
    OBVIOUS
  <2>1. ~Passing(e)
    BY DEF Passing
  <2>2. p.index \in Nat /\ p.mains \in Nat /\ e.index = p.index /\ e.mains = p.mains
    BY <1>1, <1>4, DrawFields DEF Alike
  <2> QED BY <1>5, <2>1, <2>2 DEF Ready, Indexed, Unended
<1>8. Working(e) => Fits /\ Paced(e)
  BY <1>5, <1>6, <1>7 DEF Paced
<1>9. Ended(e)
  <2>1. ASSUME e.at = "end", Asked PROVE e.mains <= form.endSessionValue /\ ~(e.t < Horizon)
    <3>1. Relay /\ e.t = p.t /\ e.mains = p.mains /\ x = "end"
      BY <1>4, <2>1 DEF Asked, Alike
    <3>2. p.mains \in Nat /\ form.endSessionValue \in Nat /\ p.mains + 1 <= form.endSessionValue
      BY <1>1, <2>1, DrawFields, FormFields DEF Ready
    <3> QED BY <1>3, <3>1, <3>2
  <2> QED BY <1>4, <1>3, <2>1 DEF Ended, AllShown
<1>10. Fits /\ e.at # "drawn" => OnTime(e)
  BY <1>5 DEF Ready
<1> QED BY <1>4, <1>2, <1>5, <1>8, <1>9, <1>10 DEF PreviewInv

(* What a preview that is worked on keeps. *)
LEMMA AtWork ==
  ASSUME FormNormal, NEW d, PreviewInv(d), Working(d)
  PROVE  /\ d \in DrawType /\ PlanOk(d.plan) /\ Fits /\ OnTime(d) /\ Counted(d)
         /\ Indexed(d) /\ Unended(d)
         /\ d.at = "cluster" => BurstOf(d, d.back)
         /\ d.at # "cluster" => NoneDue(d)
BY DEF PreviewInv, Working, Paced, InBurst

(* And what makes one. *)
LEMMA WorkKept ==
  ASSUME NEW d \in DrawType, PlanOk(d.plan), Fits, OnTime(d), Counted(d),
         Indexed(d), Unended(d), Working(d),
         d.at = "cluster" => BurstOf(d, d.back),
         d.at # "cluster" => NoneDue(d)
  PROVE  PreviewInv(d)
BY DEF PreviewInv, Working, Paced, InBurst, Ended

(* What a burst begins with. *)
LEMMA ClusterFields ==
  ASSUME FormNormal, NEW p \in DrawType,
         NEW back \in Backs
  PROVE  LET e == Cluster(p, back)
         IN e \in DrawType /\ Alike(p, e) /\ e.at = "cluster" /\ e.back = back
<1>1. PreviewBurstStrokes(p.bursts) \in Int
  BY BurstDrawn
<1> QED BY <1>1 DEF Cluster, DrawType, Alike

(* A burst begins. *)
LEMMA ClusterKept ==
  ASSUME FormNormal, NEW p \in DrawType, PlanOk(p.plan), Fits, OnTime(p), Counted(p),
         NEW back \in Backs, BurstOf(p, back),
         Relay => p.index + (IF back \in {"gap", "wait"} THEN 1 ELSE 0) = p.mains + Skips(p),
         Asked => p.mains + (IF back \in {"gap", "wait"} THEN 0 ELSE 1) <= form.endSessionValue
  PROVE  PreviewInv(Cluster(p, back))
<1> DEFINE e == Cluster(p, back)
<1>1. e \in DrawType /\ Alike(p, e) /\ e.at = "cluster" /\ e.back = back
  BY ClusterFields
<1> HIDE DEF e
<1>2. /\ PlanOk(e.plan) /\ Counted(e) /\ OnTime(e) /\ Skips(e) = Skips(p)
      /\ BurstOf(e, e.back)
  BY <1>1, AlikeKept
<1>3. Passing(e) <=> back \in {"gap", "wait"}
  BY <1>1 DEF Passing
<1>4. Indexed(e) /\ Unended(e)
  <2>1. back \in {"gap", "wait"} => Relay
    BY DEF BurstOf
  <2> QED BY <1>1, <1>2, <1>3, <2>1 DEF Indexed, Unended, Alike
<1>5. PreviewInv(e)
  BY <1>1, <1>2, <1>4, WorkKept DEF Working
<1> QED BY <1>5 DEF e

(* A burst before or instead of a main stroke. *)
LEMMA BurstInsteadKept ==
  ASSUME FormNormal, NEW d, PreviewInv(d), d.at = "beat", BurstFirst(d)
  PROVE  PreviewInv(Cluster([d EXCEPT !.gap = 1000 * StrokeRow(d.index).gap],
                            IF Relay THEN "skip" ELSE "count"))
<1> DEFINE g == 1000 * StrokeRow(d.index).gap
           p == [d EXCEPT !.gap = g]
           back == IF Relay THEN "skip" ELSE "count"
<1>1. Working(d) /\ ~Passing(d)
  BY DEF Working, Passing
<1>2. /\ d \in DrawType /\ PlanOk(d.plan) /\ Fits /\ OnTime(d) /\ Counted(d)
      /\ Indexed(d) /\ Unended(d) /\ NoneDue(d)
  BY <1>1, AtWork
<1>3. g \in Int
  <2>1. StrokeRow(d.index).gap \in Int
    BY <1>2, DrawFields, StrokeRowIn
  <2> QED BY <2>1
<1> HIDE DEF g
<1>4. p \in DrawType /\ Alike(d, p)
  BY <1>2, <1>3 DEF DrawType, Alike
<1> HIDE DEF p
<1>5. d.plan.instead /\ DueFor(d.plan, d.mains + 1)
  <2>1. d.plan.instead /\ BurstDue(d.plan, d.mains + 1, ChanceOf(d.mains + 1))
    BY DEF BurstFirst, PreviewBurstBefore
  <2> QED BY <1>2, <2>1, DueFrom
<1>6. /\ back \in {"skip", "count"}
      /\ BurstOf(d, back)
  BY <1>5 DEF BurstOf
<1> HIDE DEF back
<1>7. /\ PlanOk(p.plan) /\ OnTime(p) /\ Counted(p) /\ BurstOf(p, back) /\ Skips(p) = Skips(d)
  BY <1>2, <1>4, <1>6, AlikeKept
<1>8. /\ Relay => p.index + 0 = p.mains + Skips(p)
      /\ Asked => p.mains + 1 <= form.endSessionValue
  BY <1>1, <1>2, <1>4, <1>7 DEF Indexed, Unended, Alike
<1>9. PreviewInv(Cluster(p, back))
  <2>1. back \in Backs /\ back \notin {"gap", "wait"}
    BY <1>6 DEF Backs
  <2> QED BY <1>2, <1>4, <1>7, <1>8, <2>1, ClusterKept
<1> QED BY <1>9 DEF p, back, g

(* After a main stroke, with or without a burst that follows at once. *)
LEMMA StruckBurst ==
  ASSUME FormNormal, NEW d \in DrawType, NoneDue(d), ~BurstFirst(d),
         NEW p \in DrawType, p.mains = d.mains + 1, p.plan = d.plan, PlanOk(p.plan)
  PROVE  /\ BurstAfter(p) => ~p.plan.instead /\ DueFor(p.plan, p.mains)
         /\ ~BurstAfter(p) => NoneDue(p)
<1> DEFINE hit == ChanceOf(d.mains + 1)
<1>1. ~(d.plan.instead /\ BurstDue(d.plan, d.mains + 1, hit))
  BY DEF BurstFirst, PreviewBurstBefore
<1>2. BurstAfter(p) <=> /\ ~d.plan.instead \/ d.plan.kind = "chance"
                        /\ BurstDue(d.plan, d.mains + 1, hit)
  BY DEF BurstAfter, PreviewBurstAfter
<1> HIDE DEF hit
<1>3. ASSUME BurstAfter(p) PROVE ~p.plan.instead /\ DueFor(p.plan, p.mains)
  BY <1>1, <1>2, <1>3, DueFrom
<1>4. ASSUME ~BurstAfter(p) PROVE NoneDue(p)
  <2>1. ~BurstDue(p.plan, p.mains, hit)
    BY <1>1, <1>2, <1>4
  <2> QED BY <2>1, NotDue
<1> QED BY <1>3, <1>4

(* A drawing after its main stroke, and with the burst that follows. *)
Struck(d) ==
  [StrokePulse(d, StrokeRow(d.index).power)
     EXCEPT !.mains = @ + 1, !.gap = 1000 * StrokeRow(d.index).gap]
AfterStroke(d) ==
  IF BurstAfter(Struck(d)) THEN Cluster(Struck(d), "gap") ELSE [Struck(d) EXCEPT !.at = "gap"]

(* The main stroke of a relay. *)
LEMMA MainStrokeKept ==
  ASSUME FormNormal, NEW d, PreviewInv(d), d.at = "beat", Relay, ~BurstFirst(d)
  PROVE  PreviewInv(AfterStroke(d))
<1> DEFINE row == StrokeRow(d.index)
           s == StrokePulse(d, row.power)
           g == 1000 * row.gap
           p == [s EXCEPT !.mains = @ + 1, !.gap = g]
           e == [p EXCEPT !.at = "gap"]
<1>1. Working(d) /\ ~Passing(d)
  BY DEF Working, Passing
<1>2. /\ d \in DrawType /\ PlanOk(d.plan) /\ Fits /\ OnTime(d) /\ Counted(d)
      /\ Indexed(d) /\ Unended(d) /\ NoneDue(d)
  BY <1>1, AtWork
<1>3. row.power \in Low..High /\ row.gap \in Int
  BY <1>2, DrawFields, StrokeRowIn
<1> HIDE DEF row
<1>4. Moves(d, s) /\ g \in Int
  BY <1>2, <1>3, StrokePulseMoves
<1> HIDE DEF s, g
<1>5. s \in DrawType /\ OnTime(s) /\ s.t >= d.t /\ SameBeat(d, s)
  BY <1>4 DEF Moves
<1>6. /\ p \in DrawType /\ p.mains = s.mains + 1 /\ p.t = s.t /\ p.points = s.points
      /\ p.index = s.index /\ p.bursts = s.bursts /\ p.plan = s.plan
  <2>1. s.mains + 1 \in Nat
    BY <1>5, DrawFields
  <2> QED BY <1>4, <1>5, <2>1 DEF DrawType
<1> HIDE DEF p
<1>7. /\ p.mains = d.mains + 1 /\ p.index = d.index /\ p.bursts = d.bursts /\ p.plan = d.plan
      /\ p.t >= d.t /\ OnTime(p) /\ Skips(p) = Skips(d)
  BY <1>5, <1>6 DEF SameBeat, OnTime, Skips
<1>8. Counted(p) /\ PlanOk(p.plan)
  <2>1. d.mains <= p.mains /\ d.t <= p.t
    BY <1>2, <1>6, <1>7, DrawFields
  <2> QED BY <1>2, <1>6, <1>7, <2>1, CountedKept
<1>9. /\ p.index + 1 = p.mains + Skips(p)
      /\ Asked => p.mains + 0 <= form.endSessionValue
  <2>1. d.index = d.mains + Skips(d) /\ Skips(d) \in Nat
    BY <1>1, <1>2, DrawFields DEF Indexed, Skips
  <2>2. Asked => d.mains + 1 <= form.endSessionValue
    BY <1>1, <1>2 DEF Unended
  <2> QED BY <1>2, <1>7, <2>1, <2>2, DrawFields
<1>10. CASE BurstAfter(p)
  <2>1. BurstOf(p, "gap")
    BY <1>2, <1>6, <1>7, <1>8, <1>10, StruckBurst DEF BurstOf
  <2>2. PreviewInv(Cluster(p, "gap"))
    BY <1>2, <1>6, <1>7, <1>8, <1>9, <2>1, ClusterKept DEF Backs
  <2> QED BY <1>10, <2>2 DEF p, s, g, row, AfterStroke, Struck
<1>11. CASE ~BurstAfter(p)
  <2>1. NoneDue(p)
    BY <1>2, <1>6, <1>7, <1>8, <1>11, StruckBurst
  <2>2. e \in DrawType /\ Alike(p, e) /\ e.at = "gap"
    BY <1>6, TurnedTo DEF Backs
  <2> HIDE DEF e
  <2>3. PlanOk(e.plan) /\ Counted(e) /\ NoneDue(e) /\ OnTime(e) /\ Skips(e) = Skips(p)
    BY <1>6, <1>7, <1>8, <2>1, <2>2, AlikeKept
  <2>4. Passing(e) /\ Working(e)
    BY <2>2 DEF Passing, Working
  <2>5. p.mains \in Int
    BY <1>6, DrawFields
  <2>6. Indexed(e) /\ Unended(e)
    BY <1>9, <2>2, <2>3, <2>4, <2>5 DEF Indexed, Unended, Alike
  <2>7. PreviewInv(e)
    BY <1>2, <2>2, <2>3, <2>4, <2>6, WorkKept
  <2> QED BY <1>11, <2>7 DEF e, p, s, g, row, AfterStroke, Struck
<1> QED BY <1>10, <1>11 DEF p, s, g, row, AfterStroke, Struck

(* A segment of a motor, with or without a burst that follows. *)
LEMMA SegmentKept ==
  ASSUME FormNormal, NEW d, PreviewInv(d), d.at = "beat", ~Relay, ~BurstFirst(d)
  PROVE  LET to == SegmentSpeed(d.index, d.t - DelayMs)
             p == [ProgramSegment(d, to, SegmentMs(d.index))
                     EXCEPT !.mains = @ + 1, !.index = @ + 1]
         IN PreviewInv(IF BurstAfter(p) THEN Cluster(p, "beat") ELSE AtBeat(p))
<1> DEFINE to == SegmentSpeed(d.index, d.t - DelayMs)
           ms == SegmentMs(d.index)
           s == ProgramSegment(d, to, ms)
           p == [s EXCEPT !.mains = @ + 1, !.index = @ + 1]
<1>1. Working(d)
  BY DEF Working
<1>2. /\ d \in DrawType /\ PlanOk(d.plan) /\ Fits /\ OnTime(d) /\ Counted(d) /\ NoneDue(d)
  BY <1>1, AtWork
<1>3. to \in 0..100
  <2> DEFINE elapsed == d.t - DelayMs
             i == d.index
  <2>1. elapsed \in Nat /\ i \in Nat
    BY <1>2, PenAt, DrawFields
  <2> HIDE DEF elapsed, i
  <2>2. SegmentSpeed(i, elapsed) \in 0..100
    BY <2>1, SegmentSpeedIn
  <2> QED BY <2>2 DEF elapsed, i
<1>4. ms \in Nat \ {0}
  <2> DEFINE gap == IF form.automaticMode = "randomSpeedAndTiming"
                    THEN Drawn(form.minimumGap, form.maximumGap, d.index + 1)
                    ELSE form.maximumGap
  <2>1. gap \in Nat \ {0}
    BY FormFields DEF Drawn
  <2>2. ms = 1000 * gap
    BY DEF SegmentMs
  <2> HIDE DEF gap, ms
  <2> QED BY <2>1, <2>2
<1> HIDE DEF to, ms
<1>5. s \in DrawType /\ OnTime(s) /\ s.t >= d.t /\ SameBeat(d, s)
  BY <1>2, <1>3, <1>4, SegmentMoves DEF Moves
<1> HIDE DEF s
<1>6. /\ p \in DrawType /\ p.mains = s.mains + 1 /\ p.t = s.t /\ p.points = s.points
      /\ p.bursts = s.bursts /\ p.plan = s.plan
  <2>1. s.mains + 1 \in Nat /\ s.index + 1 \in Nat
    BY <1>5, DrawFields
  <2> QED BY <1>5, <2>1 DEF DrawType
<1> HIDE DEF p
<1>7. /\ p.mains = d.mains + 1 /\ p.bursts = d.bursts /\ p.plan = d.plan
      /\ p.t >= d.t /\ OnTime(p)
  BY <1>5, <1>6 DEF SameBeat, OnTime
<1>8. Counted(p) /\ PlanOk(p.plan)
  <2>1. d.mains <= p.mains /\ d.t <= p.t
    BY <1>2, <1>6, <1>7, DrawFields
  <2> QED BY <1>2, <1>6, <1>7, <2>1, CountedKept
<1>9. ~Asked
  BY DEF Asked
<1>10. CASE BurstAfter(p)
  <2>1. BurstOf(p, "beat")
    BY <1>2, <1>6, <1>7, <1>8, <1>10, StruckBurst DEF BurstOf
  <2>2. PreviewInv(Cluster(p, "beat"))
    BY <1>2, <1>6, <1>7, <1>8, <1>9, <2>1, ClusterKept DEF Backs
  <2> QED BY <1>10, <2>2 DEF p, s, ms, to
<1>11. CASE ~BurstAfter(p)
  <2>1. NoneDue(p)
    BY <1>2, <1>6, <1>7, <1>8, <1>11, StruckBurst
  <2>2. Ready(p)
    BY <1>2, <1>6, <1>7, <1>8, <1>9, <2>1 DEF Ready
  <2>3. PreviewInv(AtBeat(p))
    BY <2>2, BeatKept
  <2> QED BY <1>11, <2>3 DEF p, s, ms, to
<1> QED BY <1>10, <1>11 DEF p, s, ms, to

(* Time goes on in a burst that is drawn. *)
LEMMA BurstGoesOn ==
  ASSUME FormNormal, NEW d \in DrawType, NEW e \in DrawType, e.t >= d.t,
         e.plan = d.plan, e.mains = d.mains, NEW back, BurstOf(d, back)
  PROVE  BurstOf(e, back)
<1>1. Elapsed(d) \in Nat /\ Elapsed(e) \in Nat /\ Elapsed(d) <= Elapsed(e)
  <2>1. d.t <= e.t
    BY DrawFields
  <2> QED BY <2>1, ElapsedIs
<1>2. CASE /\ back = "wait" /\ Relay /\ d.plan.kind = "deadlines" /\ SlotOpen(d.plan)
           /\ NextSlot(d.plan) <= Elapsed(d)
  <2>1. NextSlot(d.plan) \in Nat
    <3> DEFINE p == d.plan
    <3>1. p \in PlanType /\ SlotOpen(p)
      BY <1>2, DrawFields
    <3> HIDE DEF p
    <3>2. p.next + 1 \in 1..Len(p.at)
      BY <3>1, PlanFields DEF SlotOpen
    <3>3. NextSlot(p) \in Nat
      BY <3>1, <3>2, PlanFields DEF NextSlot
    <3> QED BY <3>3 DEF p
  <2>2. NextSlot(d.plan) <= Elapsed(e)
    BY <1>1, <1>2, <2>1
  <2> QED BY <1>2, <2>2 DEF BurstOf
<1> QED BY <1>2 DEF BurstOf

(* A stroke of a burst. *)
LEMMA ClusterStrokeKept ==
  ASSUME FormNormal, NEW d, PreviewInv(d), d.at = "cluster"
  PROVE  PreviewInv([BurstStroke(d) EXCEPT !.left = @ - 1])
<1> DEFINE s == BurstStroke(d)
           e == [s EXCEPT !.left = @ - 1]
<1>1. Working(d)
  BY DEF Working
<1>2. /\ d \in DrawType /\ PlanOk(d.plan) /\ Fits /\ OnTime(d) /\ Counted(d)
      /\ Indexed(d) /\ Unended(d) /\ BurstOf(d, d.back)
  BY <1>1, AtWork
<1>3. s \in DrawType /\ OnTime(s) /\ s.t >= d.t /\ SameBeat(d, s)
  BY <1>2, BurstStrokeMoves DEF Moves
<1> HIDE DEF s
<1>4. e \in DrawType /\ Alike(s, e) /\ e.at = s.at /\ e.back = s.back
  <2>1. s.left - 1 \in Int
    BY <1>3, DrawFields
  <2> QED BY <1>3, <2>1 DEF DrawType, Alike
<1> HIDE DEF e
<1>5. /\ e.at = "cluster" /\ e.back = d.back /\ e.t >= d.t /\ e.plan = d.plan
      /\ e.mains = d.mains /\ e.index = d.index /\ e.bursts = d.bursts
  BY <1>3, <1>4 DEF SameBeat, Alike
<1>6. OnTime(e) /\ PlanOk(e.plan) /\ Skips(e) = Skips(d) /\ (Passing(e) <=> Passing(d))
  BY <1>2, <1>3, <1>4, <1>5 DEF OnTime, Alike, Skips, Passing
<1>7. Counted(e)
  <2>1. d.mains <= e.mains /\ d.t <= e.t
    BY <1>2, <1>4, <1>5, DrawFields
  <2> QED BY <1>2, <1>4, <1>5, <2>1, CountedKept
<1>8. BurstOf(e, e.back)
  BY <1>2, <1>4, <1>5, BurstGoesOn
<1>9. Indexed(e) /\ Unended(e) /\ Working(e)
  BY <1>2, <1>5, <1>6 DEF Indexed, Unended, Working
<1>10. PreviewInv(e)
  BY <1>2, <1>4, <1>5, <1>6, <1>7, <1>8, <1>9, WorkKept
<1> QED BY <1>10 DEF e, s

(* A preview that has reached its horizon ends. *)
LEMMA EndKept ==
  ASSUME FormNormal, NEW d \in DrawType, PlanOk(d.plan), OnTime(d), d.t >= Horizon,
         Asked => d.mains <= form.endSessionValue
  PROVE  PreviewInv([d EXCEPT !.at = "end"])
<1> DEFINE e == [d EXCEPT !.at = "end"]
<1>1. e \in DrawType /\ Alike(d, e) /\ e.at = "end"
  BY TurnedTo
<1> HIDE DEF e
<1>2. OnTime(e) /\ PlanOk(e.plan)
  BY <1>1, AlikeKept
<1>3. ~(e.t < Horizon) /\ e.mains = d.mains
  BY <1>1, PenAt DEF Alike
<1>4. Ended(e)
  BY <1>1, <1>3 DEF Ended, AllShown
<1>5. PreviewInv(e)
  BY <1>1, <1>2, <1>4 DEF PreviewInv, Working
<1> QED BY <1>5 DEF e

(* The relay's gap begins, and a burst that is due by the clock runs in it. *)
LEMMA GapBeginsKept ==
  ASSUME FormNormal, NEW d, PreviewInv(d), d.at = "gap"
  PROVE  /\ d.t >= Horizon => PreviewInv([d EXCEPT !.at = "end"])
         /\ PreviewInv([d EXCEPT !.at = "wait", !.gap = AtMost(d.t + @, Horizon)])
<1> DEFINE g == AtMost(d.t + d.gap, Horizon)
           e == [d EXCEPT !.at = "wait", !.gap = g]
           f == [d EXCEPT !.at = "end"]
<1>1. Working(d) /\ Passing(d)
  BY DEF Working, Passing
<1>2. /\ d \in DrawType /\ PlanOk(d.plan) /\ Fits /\ OnTime(d) /\ Counted(d)
      /\ Indexed(d) /\ Unended(d) /\ NoneDue(d)
  BY <1>1, AtWork
<1>3. ASSUME d.t >= Horizon PROVE PreviewInv(f)
  <2>1. Asked => d.mains <= form.endSessionValue
    BY <1>1, <1>2, DrawFields DEF Unended
  <2> QED BY <1>2, <1>3, <2>1, EndKept
<1>4. PreviewInv(e)
  <2>1. g \in Int
    BY <1>2, PenAt, DrawFields DEF AtMost
  <2> HIDE DEF g
  <2>2. e \in DrawType /\ Alike(d, e) /\ e.at = "wait"
    BY <1>2, <2>1 DEF DrawType, Alike, Backs
  <2> HIDE DEF e
  <2>3. OnTime(e) /\ PlanOk(e.plan) /\ Counted(e) /\ NoneDue(e) /\ Skips(e) = Skips(d)
    BY <1>2, <2>2, AlikeKept
  <2>4. Passing(e) /\ Working(e)
    BY <2>2 DEF Passing, Working
  <2>5. Indexed(e) /\ Unended(e)
    BY <1>1, <1>2, <2>2, <2>3, <2>4 DEF Indexed, Unended, Alike
  <2> QED BY <1>2, <2>2, <2>3, <2>4, <2>5, WorkKept
<1> QED BY <1>3, <1>4

(* What the burst that is drawn was due for, by where it returns to. *)
LEMMA BurstDone ==
  ASSUME FormNormal, NEW d, PreviewInv(d), d.at = "cluster"
  PROVE  LET p == [d EXCEPT !.bursts = @ + 1, !.plan = AdvanceBurstPlan(@), !.left = 0,
                            !.at = d.back]
         IN /\ p \in DrawType /\ p.t = d.t /\ p.points = d.points /\ p.index = d.index
            /\ p.mains = d.mains /\ p.bursts = d.bursts + 1 /\ p.gap = d.gap /\ p.at = d.back
            /\ p.plan = AdvanceBurstPlan(d.plan) /\ p.back = d.back
            /\ p.plan.kind = d.plan.kind /\ p.plan.instead = d.plan.instead
            /\ PlanOk(p.plan) /\ OnTime(p)
            /\ d.back \in Backs
<1> DEFINE q == AdvanceBurstPlan(d.plan)
           p == [d EXCEPT !.bursts = @ + 1, !.plan = q, !.left = 0, !.at = d.back]
<1>1. Working(d)
  BY DEF Working
<1>2. d \in DrawType /\ PlanOk(d.plan) /\ OnTime(d)
  BY <1>1, AtWork
<1>3. /\ q \in PlanType /\ PlanOk(q) /\ q.kind = d.plan.kind /\ q.instead = d.plan.instead
      /\ d.bursts + 1 \in Nat /\ d.back \in Backs
  BY <1>2, DrawFields, AdvanceTyped
<1> HIDE DEF q
<1>4. /\ p \in DrawType /\ p.t = d.t /\ p.points = d.points /\ p.index = d.index
      /\ p.mains = d.mains /\ p.bursts = d.bursts + 1 /\ p.gap = d.gap /\ p.at = d.back
      /\ p.plan = q /\ p.back = d.back
  <2>1. d.back \in Backs \cup {"cluster", "end", "drawn"} /\ 0 \in Int
    BY <1>3
  <2> DEFINE b == d.bursts + 1
  <2>2. p = [d EXCEPT !.bursts = b, !.plan = q, !.left = 0, !.at = d.back] /\ b \in Nat
    BY <1>3
  <2> HIDE DEF b, p
  <2>3. p \in DrawType
    BY <1>2, <1>3, <2>1, <2>2 DEF DrawType
  <2>4. /\ p.t = d.t /\ p.points = d.points /\ p.index = d.index /\ p.mains = d.mains
        /\ p.bursts = b /\ p.gap = d.gap /\ p.at = d.back /\ p.plan = q /\ p.back = d.back
    BY <1>2, <2>2 DEF DrawType
  <2> QED BY <2>3, <2>4 DEF b
<1> HIDE DEF p
<1>5. OnTime(p)
  BY <1>2, <1>4 DEF OnTime
<1>6. p \in DrawType /\ p.t = d.t /\ p.points = d.points /\ p.index = d.index
      /\ p.mains = d.mains /\ p.bursts = d.bursts + 1 /\ p.gap = d.gap /\ p.at = d.back
      /\ p.plan = AdvanceBurstPlan(d.plan) /\ p.back = d.back
      /\ p.plan.kind = d.plan.kind /\ p.plan.instead = d.plan.instead
      /\ PlanOk(p.plan) /\ OnTime(p)
  BY <1>3, <1>4, <1>5 DEF q
<1> QED BY <1>3, <1>6 DEF p, q

(* A burst is done and counted, and the loop goes on where it was left. *)
LEMMA ClusterDoneKept ==
  ASSUME FormNormal, NEW d, PreviewInv(d), d.at = "cluster"
  PROVE  LET p == [d EXCEPT !.bursts = @ + 1, !.plan = AdvanceBurstPlan(@), !.left = 0,
                            !.at = d.back]
         IN PreviewInv(
              IF d.back = "skip" THEN
                LET q == [p EXCEPT !.index = @ + 1]
                IN IF q.t >= Horizon THEN [q EXCEPT !.at = "end"]
                   ELSE AtBeat(GapInterval(q, q.gap))
              ELSE IF d.back = "count"
              THEN AtBeat([p EXCEPT !.index = @ + 1, !.mains = @ + 1])
              ELSE IF d.back = "beat" THEN AtBeat(p)
              ELSE p)
<1> DEFINE p == [d EXCEPT !.bursts = @ + 1, !.plan = AdvanceBurstPlan(@), !.left = 0,
                          !.at = d.back]
<1>1. Working(d)
  BY DEF Working
<1>2. /\ d \in DrawType /\ PlanOk(d.plan) /\ Fits /\ OnTime(d) /\ Counted(d)
      /\ Indexed(d) /\ Unended(d) /\ BurstOf(d, d.back)
  BY <1>1, AtWork
<1>3. /\ p \in DrawType /\ p.t = d.t /\ p.points = d.points /\ p.index = d.index
      /\ p.mains = d.mains /\ p.bursts = d.bursts + 1 /\ p.gap = d.gap /\ p.at = d.back
      /\ p.plan = AdvanceBurstPlan(d.plan) /\ p.back = d.back
      /\ p.plan.kind = d.plan.kind /\ p.plan.instead = d.plan.instead
      /\ PlanOk(p.plan) /\ OnTime(p) /\ d.back \in Backs
  BY BurstDone
<1> HIDE DEF p
<1>4. /\ d.mains \in Nat /\ d.bursts \in Nat /\ d.index \in Nat /\ d.t \in Int /\ d.gap \in Int
      /\ d.t <= p.t
  BY <1>2, <1>3, DrawFields
<1>5. Asked => Relay
  BY DEF Asked
<1>6. ASSUME d.back \in {"beat", "gap", "wait"}
      PROVE  /\ Counted(p) /\ NoneDue(p)
             /\ d.back = "beat" => ~Relay
             /\ d.back \in {"gap", "wait"} => Relay /\ Skips(d) = 0 /\ Skips(p) = 0
  <2>1. DueNow(d, d.mains)
    BY <1>2, <1>6 DEF BurstOf, DueNow
  <2>2. d.mains <= Upcoming(p) /\ p.mains <= d.mains /\ d.mains <= p.mains
    BY <1>3, <1>4, UpcomingIs
  <2>3. Counted(p) /\ NoneDue(p)
    BY <1>2, <1>3, <1>4, <2>1, <2>2, BurstCounted
  <2> QED BY <1>2, <1>3, <1>6, <2>3 DEF BurstOf, Skips
<1>7. CASE d.back = "skip"
  <2> DEFINE q == [p EXCEPT !.index = @ + 1]
             r == GapInterval(q, q.gap)
  <2>1. Relay /\ p.plan.instead /\ DueFor(d.plan, d.mains + 1) /\ p.plan.kind # "deadlines"
    BY <1>2, <1>3, <1>7 DEF BurstOf, DueFor
  <2>2. /\ q \in DrawType /\ q.t = p.t /\ q.points = p.points /\ q.index = p.index + 1
        /\ q.mains = p.mains /\ q.bursts = p.bursts /\ q.plan = p.plan /\ q.gap = p.gap
    <3>1. p.index + 1 \in Nat
      BY <1>3, <1>4
    <3> QED BY <1>3, <3>1 DEF DrawType
  <2> HIDE DEF q
  <2>3. OnTime(q)
    BY <1>3, <2>2 DEF OnTime
  <2>4. q.mains <= d.mains + 1 /\ d.mains + 1 <= Upcoming(q) /\ d.mains <= q.mains /\ d.t <= q.t
    BY <1>3, <1>4, <2>1, <2>2, UpcomingIs
  <2>5. Counted(q) /\ NoneDue(q) /\ PlanOk(q.plan)
    <3>1. DueNow(d, d.mains + 1) /\ d.mains + 1 \in Nat
      BY <1>4, <2>1 DEF DueNow
    <3>2. q.plan = AdvanceBurstPlan(d.plan) /\ q.bursts = d.bursts + 1
      BY <1>3, <2>2
    <3> HIDE DEF p
    <3> QED BY <1>2, <2>2, <2>4, <3>1, <3>2, BurstCounted
  <2>6. Asked => d.mains + 1 <= form.endSessionValue
    <3>1. ~Passing(d)
      BY <1>7 DEF Passing
    <3> QED BY <1>2, <3>1 DEF Unended
  <2>7. ASSUME q.t >= Horizon PROVE PreviewInv([q EXCEPT !.at = "end"])
    <3>1. Asked => q.mains <= form.endSessionValue
      BY <1>3, <1>4, <2>2, <2>6, FormFields
    <3> QED BY <2>2, <2>3, <2>5, <2>7, <3>1, EndKept
  <2>8. PreviewInv(AtBeat(r))
    <3>1. q.gap \in Int
      BY <2>2, DrawFields
    <3>2. r \in DrawType /\ OnTime(r) /\ r.t >= q.t /\ SameBeat(q, r)
      BY <2>2, <2>3, <3>1, GapMoves DEF Moves
    <3> HIDE DEF r
    <3>3. /\ r.mains = d.mains /\ r.index = d.index + 1 /\ r.bursts = d.bursts + 1
          /\ r.plan = q.plan
      BY <1>3, <2>2, <3>2 DEF SameBeat
    <3>4. Counted(r) /\ NoneDue(r) /\ PlanOk(r.plan)
      <4>1. q.mains <= r.mains /\ q.t <= r.t
        BY <2>2, <3>2, DrawFields DEF SameBeat
      <4>2. Counted(r)
        BY <2>2, <2>5, <3>2, <4>1, CountedKept DEF SameBeat
      <4> QED BY <2>5, <3>2, <4>2 DEF SameBeat, NoneDue
    <3>5. r.index = r.mains + Skips(r)
      <4>1. ~Passing(d) /\ Skips(d) = d.bursts /\ Skips(r) = d.bursts + 1
        BY <1>3, <1>7, <2>1, <2>2, <3>3 DEF Passing, Skips
      <4>2. d.index + 0 = d.mains + d.bursts
        BY <1>2, <2>1, <4>1 DEF Indexed
      <4> QED BY <1>4, <3>3, <4>1, <4>2
    <3>6. Ready(r)
      BY <1>2, <2>6, <3>2, <3>3, <3>4, <3>5 DEF Ready
    <3> QED BY <3>6, BeatKept
  <2> QED BY <1>7, <2>7, <2>8 DEF q, r, p
<1>8. CASE d.back = "count"
  <2> DEFINE q == [p EXCEPT !.index = @ + 1, !.mains = @ + 1]
  <2>1. ~Relay /\ DueFor(d.plan, d.mains + 1)
    BY <1>2, <1>8 DEF BurstOf
  <2>2. /\ q \in DrawType /\ q.t = p.t /\ q.points = p.points
        /\ q.mains = p.mains + 1 /\ q.bursts = p.bursts /\ q.plan = p.plan
    <3>1. p.index + 1 \in Nat /\ p.mains + 1 \in Nat
      BY <1>3, <1>4
    <3> QED BY <1>3, <3>1 DEF DrawType
  <2> HIDE DEF q
  <2>3. OnTime(q)
    BY <1>3, <2>2 DEF OnTime
  <2>4. q.mains <= d.mains + 1 /\ d.mains + 1 <= Upcoming(q) /\ d.mains <= q.mains /\ d.t <= q.t
    BY <1>3, <1>4, <2>2, UpcomingIs
  <2>5. Counted(q) /\ NoneDue(q) /\ PlanOk(q.plan)
    <3>1. DueNow(d, d.mains + 1) /\ d.mains + 1 \in Nat
      BY <1>4, <2>1 DEF DueNow
    <3>2. q.plan = AdvanceBurstPlan(d.plan) /\ q.bursts = d.bursts + 1
      BY <1>3, <2>2
    <3> QED BY <1>2, <2>2, <2>4, <3>1, <3>2, BurstCounted
  <2>6. Ready(q)
    BY <1>2, <1>5, <2>1, <2>2, <2>3, <2>5 DEF Ready
  <2>7. PreviewInv(AtBeat(q))
    BY <2>6, BeatKept
  <2> QED BY <1>8, <2>7 DEF q, p
<1>9. CASE d.back = "beat"
  <2>1. Ready(p)
    BY <1>2, <1>3, <1>5, <1>6, <1>9 DEF Ready
  <2>2. PreviewInv(AtBeat(p))
    BY <2>1, BeatKept
  <2> QED BY <1>9, <2>2 DEF p
<1>10. CASE d.back \in {"gap", "wait"}
  <2>1. Passing(d) /\ Passing(p) /\ Working(p) /\ p.at # "cluster"
    BY <1>3, <1>10 DEF Passing, Working
  <2>2. Indexed(p) /\ Unended(p)
    BY <1>2, <1>3, <1>6, <1>10, <2>1 DEF Indexed, Unended
  <2>3. PreviewInv(p)
    BY <1>2, <1>3, <1>6, <1>10, <2>1, <2>2, WorkKept
  <2> QED BY <1>10, <2>3 DEF p
<1> QED BY <1>3, <1>7, <1>8, <1>9, <1>10 DEF Backs, p

(* A burst in the gap, by the clock. *)
LEMMA WaitingBurstKept ==
  ASSUME FormNormal, NEW d, PreviewInv(d), d.at = "wait", ClockBurst(d)
  PROVE  PreviewInv(Cluster(d, "wait"))
<1>1. Working(d) /\ Passing(d)
  BY DEF Working, Passing
<1>2. /\ d \in DrawType /\ PlanOk(d.plan) /\ Fits /\ OnTime(d) /\ Counted(d)
      /\ Indexed(d) /\ Unended(d)
  BY <1>1, AtWork
<1>3. /\ d.plan.kind = "deadlines" /\ SlotOpen(d.plan) /\ Elapsed(d) >= NextSlot(d.plan)
      /\ Relay
  BY <1>1, <1>2 DEF ClockBurst, TriggerInWaitingGap, Indexed
<1>4. NextSlot(d.plan) \in Nat /\ Elapsed(d) \in Nat
  <2> DEFINE p == d.plan
  <2>1. p \in PlanType /\ SlotOpen(p)
    BY <1>2, <1>3, DrawFields
  <2> HIDE DEF p
  <2>2. p.next + 1 \in 1..Len(p.at)
    BY <2>1, PlanFields DEF SlotOpen
  <2>3. NextSlot(p) \in Nat
    BY <2>1, <2>2, PlanFields DEF NextSlot
  <2> QED BY <1>2, <2>3, ElapsedIs, DrawFields DEF p
<1>5. BurstOf(d, "wait") /\ "wait" \in Backs
  BY <1>3, <1>4 DEF BurstOf, Backs
<1>6. /\ Relay => d.index + 1 = d.mains + Skips(d)
      /\ Asked => d.mains + 0 <= form.endSessionValue
  BY <1>1, <1>2 DEF Indexed, Unended
<1> QED BY <1>2, <1>5, <1>6, ClusterKept

(* The gap ends: the next beat, or all the strokes asked for are drawn. *)
LEMMA GapEndsKept ==
  ASSUME FormNormal, NEW d, PreviewInv(d), d.at = "wait"
  PROVE  LET p == [GapInterval(d, d.gap - d.t) EXCEPT !.index = @ + 1]
         IN PreviewInv(IF LastBeat(p) THEN [p EXCEPT !.at = "end"] ELSE AtBeat(p))
<1> DEFINE ms == d.gap - d.t
           s == GapInterval(d, ms)
           p == [s EXCEPT !.index = @ + 1]
           e == [p EXCEPT !.at = "end"]
           last == form.endSessionValue
<1>1. Working(d) /\ Passing(d)
  BY DEF Working, Passing
<1>2. /\ d \in DrawType /\ PlanOk(d.plan) /\ Fits /\ OnTime(d) /\ Counted(d)
      /\ Indexed(d) /\ Unended(d) /\ NoneDue(d)
  BY <1>1, AtWork
<1>3. ms \in Int
  BY <1>2, DrawFields
<1> HIDE DEF ms
<1>4. s \in DrawType /\ OnTime(s) /\ s.t >= d.t /\ SameBeat(d, s)
  BY <1>2, <1>3, GapMoves DEF Moves
<1> HIDE DEF s
<1>5. /\ p \in DrawType /\ p.mains = s.mains /\ p.t = s.t /\ p.points = s.points
      /\ p.index = s.index + 1 /\ p.bursts = s.bursts /\ p.plan = s.plan
  <2>1. s.index + 1 \in Nat
    BY <1>4, DrawFields
  <2> QED BY <1>4, <2>1 DEF DrawType
<1> HIDE DEF p
<1>6. /\ p.mains = d.mains /\ p.index = d.index + 1 /\ p.bursts = d.bursts /\ p.plan = d.plan
      /\ p.t >= d.t /\ OnTime(p) /\ Skips(p) = Skips(d) /\ NoneDue(p) /\ PlanOk(p.plan)
  BY <1>2, <1>4, <1>5 DEF SameBeat, OnTime, Skips, NoneDue
<1>7. Counted(p)
  <2>1. d.mains <= p.mains /\ d.t <= p.t
    BY <1>2, <1>5, <1>6, DrawFields
  <2> QED BY <1>2, <1>5, <1>6, <2>1, CountedKept
<1>8. Relay /\ p.index = p.mains + Skips(p) /\ p.mains \in Nat
  BY <1>1, <1>2, <1>6, DrawFields DEF Indexed
<1>9. Skips(p) \in Nat /\ (~p.plan.instead => Skips(p) = 0)
  BY <1>5, DrawFields DEF Skips
<1>10. (Asked => p.mains <= last) /\ last \in Nat
  BY <1>1, <1>2, <1>6, FormFields, DrawFields DEF Unended
<1> HIDE DEF last
<1>11. CASE LastBeat(p)
  <2>1. p.index >= last
    BY <1>11 DEF LastBeat, last
  <2>2. e \in DrawType /\ Alike(p, e) /\ e.at = "end"
    BY <1>5, TurnedTo DEF Backs
  <2> HIDE DEF e
  <2>3. OnTime(e) /\ PlanOk(e.plan)
    BY <1>5, <1>6, <2>2, AlikeKept
  <2>4. ~p.plan.instead /\ Asked => p.mains = last
    BY <1>8, <1>9, <1>10, <2>1
  <2>5. Ended(e)
    <3>1. e.mains = p.mains /\ e.plan = p.plan
      BY <2>2 DEF Alike
    <3> QED BY <1>10, <2>2, <2>4, <3>1 DEF Ended, AllShown, last
  <2>6. PreviewInv(e)
    BY <2>2, <2>3, <2>5 DEF PreviewInv, Working
  <2> QED BY <1>11, <2>6 DEF e, p, s, ms
<1>12. CASE ~LastBeat(p)
  <2>1. Asked => p.mains + 1 <= last
    <3>1. Asked => ~(p.index >= last)
      BY <1>12 DEF LastBeat, Asked, last
    <3> QED BY <1>8, <1>9, <1>10, <3>1
  <2>2. Ready(p)
    BY <1>2, <1>5, <1>6, <1>7, <1>8, <2>1 DEF Ready, last
  <2>3. PreviewInv(AtBeat(p))
    BY <2>2, BeatKept
  <2> QED BY <1>12, <2>3 DEF p, s, ms
<1> QED BY <1>11, <1>12 DEF e, p, s, ms

(* The last point. *)
LEMMA PushTyped ==
  ASSUME NEW points \in Seq(Int \X Levels), NEW x \in Int, NEW level \in Levels
  PROVE  Push(points, <<x, level>>) \in Seq(Int \X Levels)
BY DEF Push

(* The preview is done. *)
LEMMA FinishKept ==
  ASSUME FormNormal, NEW d, PreviewInv(d), d.at = "end"
  PROVE  PreviewInv([d EXCEPT !.at = "drawn",
           !.points = IF Relay /\ Last(@)[1] # Horizon
                      THEN Push(@, <<Horizon, d.level>>) ELSE @])
<1> DEFINE points == IF Relay /\ Last(d.points)[1] # Horizon
                     THEN Push(d.points, <<Horizon, d.level>>) ELSE d.points
           e == [d EXCEPT !.at = "drawn", !.points = points]
<1>1. d \in DrawType /\ PlanOk(d.plan) /\ (Fits => OnTime(d))
  BY DEF PreviewInv
<1>2. Horizon \in Int /\ d.points \in Seq(Int \X Levels) /\ d.level \in Levels
  BY <1>1, DrawFields, TimesTyped
<1>3. points \in Seq(Int \X Levels)
  BY <1>2, PushTyped
<1>4. ASSUME Fits
      PROVE  points # <<>> /\ InOrder(points) /\ Last(points)[1] <= Horizon
  <2>1. OnPaper(d.points, d.t) /\ d.t <= Horizon /\ d.t \in Int
    BY <1>1, <1>4, PenAt
  <2>2. OnPaper(Push(d.points, <<Horizon, d.level>>), Horizon)
    BY <1>2, <2>1, PushOn
  <2>3. \E t \in Int : OnPaper(points, t) /\ t <= Horizon
    BY <1>2, <2>1, <2>2
  <2> QED BY <2>3 DEF OnPaper
<1>5. [d EXCEPT !.at = "drawn", !.points = IF Relay /\ Last(@)[1] # Horizon
                      THEN Push(@, <<Horizon, d.level>>) ELSE @] = e
  OBVIOUS
<1> HIDE DEF points
<1>6. e \in DrawType /\ e.plan = d.plan /\ e.at = "drawn" /\ e.points = points
  BY <1>1, <1>3 DEF DrawType
<1> HIDE DEF e
<1>7. PreviewInv(e)
  BY <1>1, <1>4, <1>6 DEF PreviewInv, Working, Ended
<1> QED BY <1>5, <1>7

(* The start of a preview. *)
LEMMA FirstPoints ==
  ASSUME FormNormal
  PROVE  LET points == Push(<<<<0, 0>>>>, <<DelayMs, 0>>)
         IN OnPaper(points, DelayMs)
<1> DEFINE one == <<<<0, 0>>>>
<1>1. 0 \in Levels /\ DelayMs \in Nat
  BY FormLevels, TimesTyped
<1>2. OnPaper(one, 0)
  <2>1. one \in Seq(Int \X Levels) /\ one # <<>> /\ Len(one) = 1 /\ one[1] = <<0, 0>>
    BY <1>1
  <2> HIDE DEF one
  <2> QED BY <2>1 DEF OnPaper, InOrder, Last
<1> HIDE DEF one
<1>3. OnPaper(Push(one, <<DelayMs, 0>>), DelayMs)
  BY <1>1, <1>2, PushOn
<1> QED BY <1>3 DEF one

(* A motor's preview at a set speed. *)
LEMMA SetSpeedPoints ==
  ASSUME FormNormal, SetSpeed, NEW points, OnPaper(points, DelayMs)
  PROVE  LET new == PushThree(points, <<DelayMs, 0>>, <<DelayMs + FirstRampMs, High>>,
                              <<Horizon, High>>)
         IN new \in Seq(Int \X Levels) /\ (Fits => OnPaper(new, Horizon))
<1> DEFINE ramped == DelayMs + FirstRampMs
           one == Push(points, <<DelayMs, 0>>)
           two == Push(one, <<ramped, High>>)
           new == Push(two, <<Horizon, High>>)
<1>1. 0 \in Levels /\ High \in Levels
  BY FormLevels DEF SetSpeed
<1>2. DelayMs \in Nat /\ ramped \in Int /\ Horizon \in Int /\ DelayMs <= ramped
  BY TimesTyped
<1>3. PushThree(points, <<DelayMs, 0>>, <<ramped, High>>, <<Horizon, High>>) = new
  BY DEF PushThree, PushTwo
<1>4. Fits => ramped <= Horizon
  BY DEF Fits
<1> HIDE DEF ramped
<1>5. OnPaper(one, DelayMs)
  BY <1>1, <1>2, PushOn
<1> HIDE DEF one
<1>6. OnPaper(two, ramped)
  BY <1>1, <1>2, <1>5, PushOn
<1> HIDE DEF two
<1>7. new \in Seq(Int \X Levels)
  BY <1>1, <1>2, <1>6, PushTyped DEF OnPaper
<1>8. Fits => OnPaper(new, Horizon)
  BY <1>1, <1>2, <1>4, <1>6, PushOn
<1> HIDE DEF new
<1> QED BY <1>3, <1>7, <1>8 DEF ramped

(* A preview that is begun, whatever the form. *)
LEMMA FreshKept ==
  ASSUME FormNormal
  PROVE  PreviewInv(Fresh) /\ Fresh.at # "none"
<1> DEFINE points == Push(<<<<0, 0>>>>, <<DelayMs, 0>>)
           plan == BuildRelayBurstPlan(form)
           d == [at |-> "beat", t |-> DelayMs, level |-> 0, index |-> 0, mains |-> 0,
                 bursts |-> 0, left |-> 0, back |-> "beat", gap |-> 0,
                 points |-> points, plan |-> plan]
           new == PushThree(points, <<DelayMs, 0>>, <<DelayMs + FirstRampMs, High>>,
                            <<Horizon, High>>)
           e == [d EXCEPT !.points = new, !.at = "end", !.t = Horizon, !.level = High]
<1>1. Fresh = IF SetSpeed THEN e ELSE AtBeat(d)
  BY DEF Fresh
<1>2. OnPaper(points, DelayMs)
  BY FirstPoints
<1>3. PlanNew(plan)
  BY PlanBuilt
<1> HIDE DEF points, plan
<1>4. d \in DrawType
  <2>1. DelayMs \in Int /\ 0 \in Levels /\ points \in Seq(Int \X Levels) /\ plan \in PlanType
    BY <1>2, <1>3, FormLevels, TimesTyped DEF OnPaper, PlanNew
  <2> QED BY <2>1 DEF DrawType, Backs
<1>5. /\ d.t = DelayMs /\ d.mains = 0 /\ d.index = 0 /\ d.bursts = 0 /\ d.points = points
      /\ d.plan = plan
  OBVIOUS
<1>6. CASE SetSpeed
  <2>1. new \in Seq(Int \X Levels) /\ (Fits => OnPaper(new, Horizon))
    BY <1>2, <1>6, SetSpeedPoints
  <2>2. High \in Levels /\ Horizon \in Int /\ DelayMs \in Int /\ FirstRampMs \in Nat
    BY <1>6, FormLevels, TimesTyped DEF SetSpeed
  <2> HIDE DEF new, d
  <2>3. e \in DrawType /\ e.points = new /\ e.at = "end" /\ e.t = Horizon /\ e.plan = d.plan
    BY <1>4, <2>1, <2>2 DEF DrawType
  <2> HIDE DEF e
  <2>4. Fits => Horizon \in DelayMs..Horizon
    BY <1>6, <2>2 DEF Fits
  <2>5. Fits => OnTime(e)
    BY <2>1, <2>3, <2>4 DEF OnTime
  <2>6. Ended(e)
    BY <1>6, <2>3 DEF Ended, AllShown, Asked, SetSpeed
  <2>7. PreviewInv(e) /\ e.at # "none"
    BY <1>3, <1>5, <2>3, <2>5, <2>6 DEF PreviewInv, PlanNew, Working
  <2> QED BY <1>1, <1>6, <2>7
<1>7. CASE ~SetSpeed
  <2> HIDE DEF d
  <2>1. DelayMs \in Int /\ Horizon \in Int
    BY TimesTyped
  <2>2. Fits <=> DelayMs <= Horizon
    BY <1>7, <2>1 DEF Fits
  <2>3. (d.t < Horizon => Fits) /\ (Fits => OnTime(d))
    BY <1>2, <1>5, <2>1, <2>2 DEF OnTime
  <2>4. plan \in PlanType /\ PlanOk(plan) /\ plan.next = 0
    BY <1>3 DEF PlanNew
  <2>5. Upcoming(d) \in Nat
    BY <1>4, UpcomingIs
  <2>6. Counted(d)
    <3>1. plan.kind = "stride" => /\ plan.trigger = plan.stride * (0 + 1)
                                  /\ plan.stride * 0 = 0
      BY <1>3, <2>4, PlanFields DEF PlanNew
    <3> QED BY <1>5, <2>4, <2>5, <3>1 DEF Counted
  <2>7. NoneDue(d)
    <3>1. plan.kind = "milestones" => \A k \in plan.next + 1..Len(plan.at) : 0 < plan.at[k]
      BY <1>3, <2>4, PlanFields DEF PlanNew
    <3>2. plan.kind = "stride" => 0 < plan.trigger
      BY <1>3, <2>4, PlanFields DEF PlanNew, PlanOk
    <3> QED BY <1>5, <3>1, <3>2 DEF NoneDue
  <2>8. Skips(d) = 0
    BY <1>5 DEF Skips
  <2>9. Asked => 0 + 1 <= form.endSessionValue
    BY FormFields DEF Asked
  <2>10. Ready(d)
    BY <1>4, <1>5, <2>3, <2>4, <2>6, <2>7, <2>8, <2>9 DEF Ready
  <2>11. PreviewInv(AtBeat(d))
    BY <2>10, BeatKept
  <2>12. AtBeat(d).at # "none"
    BY <2>11 DEF PreviewInv, DrawType, Backs
  <2> QED BY <1>1, <1>7, <2>11, <2>12
<1> QED BY <1>6, <1>7

(* With the same form, what holds of a preview goes on to hold. *)
LEMMA SameForm ==
  ASSUME NEW e, form' = form, PreviewInv(e), drawing' = e
  PROVE  DrawingInv'
<1>1. /\ Relay' = Relay /\ Low' = Low /\ High' = High /\ DelayMs' = DelayMs
      /\ SetSpeed' = SetSpeed /\ FirstRampMs' = FirstRampMs
  BY DEF Relay, Low, High, DelayMs, SetSpeed, FirstRampMs
<1>2. Horizon' = Horizon
  BY DEF Horizon, PulseMs
<1>3. Levels' = Levels /\ Fits' = Fits /\ Asked' = Asked
  BY <1>1, <1>2 DEF Levels, Fits, Asked
<1>4. (DrawType' = DrawType)
  BY <1>3 DEF DrawType
<1>5. PreviewInv(drawing)'
  BY <1>1, <1>2, <1>3, <1>4 DEF PreviewInv, Working, Paced, Counted, Indexed, Unended, InBurst,
     BurstOf, NoneDue, OnTime, OnPaper, Ended, AllShown, Upcoming, Elapsed, Skips, Passing
<1> QED BY <1>5 DEF DrawingInv

(* Each step keeps the invariant. *)
LEMMA NextDrawing == FormNormal /\ DrawingInv /\ [Next]_vars => DrawingInv'
<1> SUFFICES ASSUME FormNormal, DrawingInv, [Next]_vars PROVE DrawingInv'
  OBVIOUS
<1>1. CASE Draw
  <2>1. form' = form /\ drawing' = Fresh
    BY <1>1 DEF Draw
  <2> QED BY <2>1, FreshKept, SameForm
<1>2. ASSUME BurstInstead \/ MainStroke \/ Segment \/ ClusterStroke \/ ClusterDone
             \/ GapBegins \/ WaitingBurst \/ GapEnds \/ Finish
      PROVE  DrawingInv'
  <2>1. form' = form /\ PreviewInv(drawing)
    BY <1>2 DEF DrawingInv, Drawing, BurstInstead, MainStroke, Segment, ClusterStroke,
       ClusterDone, GapBegins, WaitingBurst, GapEnds, Finish
  <2>2. CASE BurstInstead
    BY <2>1, <2>2, BurstInsteadKept, SameForm DEF BurstInstead, Drawing
  <2>3. CASE MainStroke
    <3>1. /\ drawing.at = "beat" /\ Relay /\ ~BurstFirst(drawing)
          /\ drawing' = AfterStroke(drawing)
      BY <2>3 DEF MainStroke, Drawing, AfterStroke, Struck
    <3>2. PreviewInv(AfterStroke(drawing))
      BY <2>1, <3>1, MainStrokeKept
    <3> QED BY <2>1, <3>1, <3>2, SameForm
  <2>4. CASE Segment
    BY <2>1, <2>4, SegmentKept, SameForm DEF Segment, Drawing
  <2>5. CASE ClusterStroke
    BY <2>1, <2>5, ClusterStrokeKept, SameForm DEF ClusterStroke, Drawing
  <2>6. CASE ClusterDone
    BY <2>1, <2>6, ClusterDoneKept, SameForm DEF ClusterDone, Drawing
  <2>7. CASE GapBegins
    BY <2>1, <2>7, GapBeginsKept, SameForm DEF GapBegins, Drawing
  <2>8. CASE WaitingBurst
    BY <2>1, <2>8, WaitingBurstKept, SameForm DEF WaitingBurst, Drawing
  <2>9. CASE GapEnds
    BY <2>1, <2>9, GapEndsKept, SameForm DEF GapEnds, Drawing
  <2>10. CASE Finish
    BY <2>1, <2>10, FinishKept, SameForm DEF Finish, Drawing
  <2> QED BY <1>2, <2>2, <2>3, <2>4, <2>5, <2>6, <2>7, <2>8, <2>9, <2>10
<1>3. CASE Show
  BY <1>3 DEF Show, NoDrawing, DrawingInv
<1>4. CASE Edit \/ Reload \/ Start \/ StartElsewhere
  BY <1>4 DEF Edit, Reload, Start, StartElsewhere, MayRun, DrawingInv
<1>5. CASE Report \/ RunEnds \/ Lose \/ Receive \/ UNCHANGED vars
  <2>1. form' = form /\ drawing' = drawing
    BY <1>5 DEF Report, RunEnds, Lose, Receive, vars
  <2>2. CASE drawing.at = "none"
    BY <2>1, <2>2 DEF DrawingInv
  <2>3. CASE drawing.at # "none"
    BY <2>1, <2>3, SameForm DEF DrawingInv
  <2> QED BY <2>2, <2>3
<1> QED BY <1>1, <1>2, <1>3, <1>4, <1>5 DEF Next, Preview, Run

(* Whatever the form, and however the draws fall, a preview keeps to time and
   band, shows the bursts of its plan on their beats, each one and none twice,
   and the number of strokes asked for (buildRelayPowerSchedule,
   buildMotorSpeedSchedule). *)
THEOREM PreviewIsTrue == Spec => []PreviewTrue
<1>1. Init => DrawingInv
  BY DEF Init, NoDrawing, DrawingInv
<1>2. FormNormal /\ DrawingInv => PreviewTrue
  BY InvShown
<1> QED BY <1>1, <1>2, AlwaysNormal, NextDrawing, PTL DEF Spec

-----------------------------------------------------------------------------
(* The recording of a run *)

Segments == [run : Nat, index : Nat]
(* A segment of the same run, and later. *)
Follows(a, b) == a.run = b.run /\ a.index < b.index
Recorded == recording.segments
(* What is on its way, and the segment the device reports next. *)
Reporting == [run |-> device.run, index |-> device.reported]
Line == Append(wire, Reporting)

LiveTyped ==
  /\ "segments" \in DOMAIN recording /\ Recorded \in Seq(Segments)
  /\ wire \in Seq(Segments) /\ device \in [run : Nat, on : BOOLEAN, reported : Nat]
  /\ missed \in [lost : Nat, first : BOOLEAN]
(* The segments of the graph are of one run and in their order. *)
OneRun(segments) ==
  \A i, j \in 1..Len(segments) : i < j => Follows(segments[i], segments[j])
(* Unless it is the first of its run, what arrives next goes on with what was
   recorded, and every segment on the line with the one before it. *)
GoesOn(line, segments) ==
  /\ line[1].index # 0 => \A i \in 1..Len(segments) : Follows(segments[i], line[1])
  /\ \A i \in 2..Len(line) : line[i].index # 0 => Follows(line[i - 1], line[i])
LiveInv ==
  LiveTyped /\ (~missed.first => OneRun(Recorded) /\ GoesOn(Line, Recorded))

LEMMA LineTyped ==
  ASSUME LiveTyped
  PROVE  /\ Reporting \in Segments /\ Line \in Seq(Segments)
         /\ Len(Line) = Len(wire) + 1 /\ Line[Len(Line)] = Reporting
         /\ \A i \in 1..Len(wire) : Line[i] = wire[i]
<1>1. Reporting \in Segments
  BY DEF LiveTyped, Reporting, Segments
<1> HIDE DEF Segments, Reporting
<1> QED BY <1>1 DEF LiveTyped, Line

(* How many numbers an interval has. *)
LEMMA IntervalSize ==
  ASSUME NEW n \in Nat
  PROVE  IsFiniteSet(1..n) /\ Cardinality(1..n) = n
<1>1. IsFiniteSet(1..n) /\ Cardinality(1..n) = IF 1 > n THEN 0 ELSE n - 1 + 1
  BY FS_Interval
<1> QED BY <1>1

(* A segment that follows what was recorded is recorded at the end. *)
LEMMA RecordedLast ==
  ASSUME NEW r, "segments" \in DOMAIN r, r.segments \in Seq(Segments), NEW s \in Segments,
         \A i \in 1..Len(r.segments) : Follows(r.segments[i], s)
  PROVE  /\ Record(r, s).segments = Append(r.segments, s)
         /\ "segments" \in DOMAIN Record(r, s)
<1> DEFINE seq == r.segments
           n == Len(seq)
           E == {k \in 1..n : seq[k].index < s.index}
           L == {k \in 1..n : seq[k].index > s.index}
           all == SubSeq(seq, 1, Cardinality(E)) \o <<s>>
                    \o SubSeq(seq, n - Cardinality(L) + 1, n)
<1>1. n \in Nat /\ \A k \in 1..n : seq[k] \in Segments
  OBVIOUS
<1>2. E = 1..n /\ L = {}
  <2>1. ASSUME NEW k \in 1..n PROVE seq[k].index < s.index /\ ~(seq[k].index > s.index)
    <3>1. seq[k].index < s.index /\ seq[k].index \in Nat /\ s.index \in Nat
      BY <1>1 DEF Follows, Segments
    <3> QED BY <3>1
  <2> QED BY <2>1
<1>3. Cardinality(E) = n /\ Cardinality(L) = 0
  <2>1. Cardinality(1..n) = n
    BY <1>1, IntervalSize
  <2> QED BY <1>2, <2>1, FS_EmptySet
<1>4. Record(r, s) = [r EXCEPT !.segments = all]
  BY DEF Record
<1> HIDE DEF E, L
<1>5. /\ seq \in Seq(Segments) /\ SubSeq(seq, 1, n) = seq /\ SubSeq(seq, n + 1, n) = <<>>
  OBVIOUS
<1>6. all = seq \o <<s>> \o <<>>
  <2>1. n - 0 + 1 = n + 1
    BY <1>1
  <2> QED BY <1>3, <1>5, <2>1
<1>7. all = Append(seq, s)
  <2> HIDE DEF all, seq, n
  <2>1. seq \o <<s>> \in Seq(Segments) /\ seq \o <<s>> = Append(seq, s)
    BY <1>5
  <2> QED BY <1>6, <2>1
<1> HIDE DEF all
<1> QED BY <1>4, <1>7

(* The first segment of a run is recorded alone. *)
LEMMA RecordedFirst ==
  ASSUME NEW r, "segments" \in DOMAIN r, NEW s \in Segments
  PROVE  /\ Record(Reset(r), s).segments = <<s>>
         /\ "segments" \in DOMAIN Record(Reset(r), s)
<1>1. /\ Reset(r).segments = <<>> /\ "segments" \in DOMAIN Reset(r)
      /\ <<>> \in Seq(Segments)
  BY DEF Reset
<1> HIDE DEF Reset
<1>2. \A i \in 1..Len(Reset(r).segments) : Follows(Reset(r).segments[i], s)
  BY <1>1
<1>3. /\ Record(Reset(r), s).segments = Append(Reset(r).segments, s)
      /\ "segments" \in DOMAIN Record(Reset(r), s)
  BY <1>1, <1>2, RecordedLast
<1> QED BY <1>1, <1>3

(* However it is recorded, what is recorded are segments. *)
LEMMA RecordedTyped ==
  ASSUME NEW r, "segments" \in DOMAIN r, r.segments \in Seq(Segments), NEW s \in Segments
  PROVE  /\ Record(r, s).segments \in Seq(Segments)
         /\ "segments" \in DOMAIN Record(r, s)
<1> DEFINE seq == r.segments
           n == Len(seq)
           E == {k \in 1..n : seq[k].index < s.index}
           L == {k \in 1..n : seq[k].index > s.index}
           e == Cardinality(E)
           l == Cardinality(L)
           all == SubSeq(seq, 1, e) \o <<s>> \o SubSeq(seq, n - l + 1, n)
<1>1. n \in Nat
  OBVIOUS
<1>2. e \in 0..n /\ l \in 0..n
  <2>1. IsFiniteSet(1..n) /\ Cardinality(1..n) = n
    BY <1>1, IntervalSize
  <2>2. E \subseteq 1..n /\ L \subseteq 1..n
    OBVIOUS
  <2>3. ASSUME NEW T \in SUBSET (1..n) PROVE Cardinality(T) \in Nat /\ Cardinality(T) <= n
    <3> DEFINE I == 1..n
    <3>1. IsFiniteSet(I) /\ Cardinality(I) = n /\ T \in SUBSET I
      BY <2>1
    <3> HIDE DEF I
    <3>2. IsFiniteSet(T) /\ Cardinality(T) <= Cardinality(I)
      BY <3>1, FS_Subset
    <3>3. Cardinality(T) \in Nat
      BY <3>2, FS_CardinalityType
    <3> QED BY <3>1, <3>2, <3>3
  <2>4. E \in SUBSET (1..n) /\ L \in SUBSET (1..n)
    BY <2>2
  <2> HIDE DEF E, L, n
  <2>5. e \in Nat /\ e <= n /\ l \in Nat /\ l <= n
    BY <2>3, <2>4
  <2> QED BY <1>1, <2>5
<1>3. Record(r, s) = [r EXCEPT !.segments = all]
  BY DEF Record
<1> HIDE DEF e, l
<1>4. SubSeq(seq, 1, e) \in Seq(Segments) /\ SubSeq(seq, n - l + 1, n) \in Seq(Segments)
  <2>1. \A k \in 1..n : seq[k] \in Segments
    OBVIOUS
  <2>2. \A k \in 1..e : k \in 1..n
    BY <1>1, <1>2
  <2>3. n - l + 1 >= 1 /\ n - l + 1 \in Int
    BY <1>1, <1>2
  <2> HIDE DEF seq, n
  <2> QED BY <1>1, <1>2, <2>1, <2>2, <2>3
<1>5. all \in Seq(Segments)
  BY <1>4
<1> HIDE DEF all
<1> QED BY <1>3, <1>5

LEMMA FollowsOn ==
  ASSUME NEW a \in Segments, NEW b \in Segments, NEW c \in Segments,
         Follows(a, b), Follows(b, c)
  PROVE  Follows(a, c)
BY DEF Follows, Segments

(* When a segment has left the line, the rest goes on with what was recorded,
   whether it was recorded or lost. *)
LEMMA LineGoesOn ==
  ASSUME NEW line \in Seq(Segments), Len(line) > 1, NEW segments \in Seq(Segments),
         GoesOn(line, segments)
  PROVE  /\ line[1].index # 0 =>
              /\ GoesOn(Tail(line), segments)
              /\ GoesOn(Tail(line), Append(segments, line[1]))
         /\ GoesOn(Tail(line), <<line[1]>>)
<1> DEFINE rest == Tail(line)
<1>1. /\ Len(line) \in Nat /\ \A i \in 1..Len(line) : line[i] \in Segments
      /\ Len(segments) \in Nat /\ \A i \in 1..Len(segments) : segments[i] \in Segments
  OBVIOUS
<1>2. /\ rest \in Seq(Segments) /\ Len(rest) = Len(line) - 1
      /\ \A i \in 1..Len(rest) : rest[i] = line[i + 1]
  OBVIOUS
<1> HIDE DEF rest
<1>3. rest[1] = line[2] /\ 2 \in 1..Len(line) /\ 1 \in 1..Len(line)
  BY <1>1, <1>2
<1>4. line[2].index # 0 => Follows(line[1], line[2])
  BY <1>1 DEF GoesOn
<1>5. \A i \in 2..Len(rest) : rest[i].index # 0 => Follows(rest[i - 1], rest[i])
  <2> SUFFICES ASSUME NEW i \in 2..Len(rest), rest[i].index # 0
               PROVE  Follows(rest[i - 1], rest[i])
    OBVIOUS
  <2>1. i \in 1..Len(rest) /\ i - 1 \in 1..Len(rest) /\ i + 1 \in 2..Len(line) /\ (i + 1) - 1 = i
    BY <1>1, <1>2
  <2>2. rest[i] = line[i + 1] /\ rest[i - 1] = line[i]
    BY <1>2, <2>1
  <2> QED BY <2>1, <2>2 DEF GoesOn
<1>6. ASSUME line[1].index # 0, line[2].index # 0, NEW i \in 1..Len(segments)
      PROVE  Follows(segments[i], line[2])
  BY <1>1, <1>3, <1>4, <1>6, FollowsOn DEF GoesOn
<1>7. \/ GoesOn(rest, segments) /\ GoesOn(rest, Append(segments, line[1]))
      \/ line[1].index = 0
  <2> SUFFICES ASSUME line[1].index # 0
               PROVE  GoesOn(rest, segments) /\ GoesOn(rest, Append(segments, line[1]))
    OBVIOUS
  <2> DEFINE all == Append(segments, line[1])
  <2>1. /\ Len(all) = Len(segments) + 1 /\ all[Len(segments) + 1] = line[1]
        /\ \A i \in 1..Len(segments) : all[i] = segments[i]
    BY <1>1
  <2> HIDE DEF all
  <2>2. ASSUME line[2].index # 0, NEW i \in 1..Len(all) PROVE Follows(all[i], line[2])
    <3>1. i \in 1..Len(segments) \/ i = Len(segments) + 1
      BY <1>1, <2>1
    <3> QED BY <1>4, <1>6, <2>1, <2>2, <3>1
  <2>3. GoesOn(rest, segments)
    BY <1>3, <1>5, <1>6 DEF GoesOn
  <2>4. GoesOn(rest, all)
    BY <1>3, <1>5, <2>2 DEF GoesOn
  <2> QED BY <2>3, <2>4 DEF all
<1>8. GoesOn(rest, <<line[1]>>)
  <2> DEFINE one == <<line[1]>>
  <2>1. Len(one) = 1 /\ one[1] = line[1]
    OBVIOUS
  <2> HIDE DEF one
  <2>2. \A i \in 1..Len(one) : i = 1
    BY <2>1
  <2>3. GoesOn(rest, one)
    BY <1>3, <1>4, <1>5, <2>1, <2>2 DEF GoesOn
  <2> QED BY <2>3 DEF one
<1> QED BY <1>7, <1>8 DEF rest

(* The line is one segment shorter when one is received or lost. *)
LEMMA LineTail ==
  ASSUME LiveTyped, wire # <<>>, wire' = Tail(wire), device' = device
  PROVE  /\ Line' = Tail(Line) /\ Len(Line) > 1 /\ Line[1] = Head(wire)
         /\ Head(wire) \in Segments /\ wire' \in Seq(Segments)
<1>1. Reporting' = Reporting
  BY DEF Reporting
<1>2. wire \in Seq(Segments) /\ Reporting \in Segments
  BY LineTyped DEF LiveTyped
<1> HIDE DEF Reporting, Segments
<1>3. Append(Tail(wire), Reporting) = Tail(Append(wire, Reporting))
  BY <1>2
<1>4. /\ Len(Line) > 1 /\ Line[1] = Head(wire) /\ Head(wire) \in Segments
      /\ Tail(wire) \in Seq(Segments)
  BY <1>2 DEF Line
<1> QED BY <1>1, <1>3, <1>4 DEF Line

(* What is received is recorded at the end, or alone. *)
LEMMA ReceiveKept ==
  ASSUME LiveInv, Receive
  PROVE  LiveInv'
<1> DEFINE s == Head(wire)
           r == IF s.index = 0 THEN Reset(recording) ELSE recording
<1>1. /\ wire # <<>> /\ wire' = Tail(wire) /\ device' = device /\ missed' = missed
      /\ recording' = Record(r, s)
  BY DEF Receive
<1>2. LiveTyped
  BY DEF LiveInv
<1>3. /\ Line' = Tail(Line) /\ Len(Line) > 1 /\ Line[1] = s /\ s \in Segments
      /\ wire' \in Seq(Segments)
  BY <1>1, <1>2, LineTail
<1> HIDE DEF s
<1>4. "segments" \in DOMAIN r /\ r.segments \in Seq(Segments)
  BY <1>2 DEF LiveTyped, Recorded, Reset
<1> HIDE DEF r
<1>5. LiveTyped'
  BY <1>1, <1>2, <1>3, <1>4, RecordedTyped DEF LiveTyped, Recorded
<1> USE DEF r
<1>6. ASSUME ~missed.first PROVE OneRun(Recorded') /\ GoesOn(Line', Recorded')
  <2>1. OneRun(Recorded) /\ GoesOn(Line, Recorded) /\ Recorded \in Seq(Segments)
        /\ "segments" \in DOMAIN recording /\ Line \in Seq(Segments)
    BY <1>2, <1>6, LineTyped DEF LiveInv, LiveTyped
  <2>2. CASE s.index = 0
    <3>1. Recorded' = <<s>>
      BY <1>1, <1>3, <2>1, <2>2, RecordedFirst DEF Recorded
    <3>2. OneRun(<<s>>)
      BY DEF OneRun
    <3> QED BY <1>3, <2>1, <3>1, <3>2, LineGoesOn
  <2>3. CASE s.index # 0
    <3>1. \A i \in 1..Len(Recorded) : Follows(Recorded[i], s)
      BY <1>3, <2>1, <2>3 DEF GoesOn
    <3>2. Recorded' = Append(Recorded, s)
      BY <1>1, <1>3, <2>1, <2>3, <3>1, RecordedLast DEF Recorded
    <3>3. OneRun(Append(Recorded, s))
      <4> DEFINE all == Append(Recorded, s)
                 n == Len(Recorded)
      <4>1. /\ n \in Nat /\ Len(all) = n + 1 /\ all[n + 1] = s
            /\ \A i \in 1..n : all[i] = Recorded[i]
        BY <2>1
      <4> HIDE DEF all, n
      <4>2. ASSUME NEW i \in 1..n + 1, NEW j \in 1..n + 1, i < j
            PROVE  Follows(all[i], all[j])
        <5>1. CASE j = n + 1
          <6>1. i \in 1..n
            BY <4>1, <4>2, <5>1
          <6> QED BY <3>1, <4>1, <5>1, <6>1 DEF n
        <5>2. CASE j # n + 1
          <6>1. i \in 1..n /\ j \in 1..n
            BY <4>1, <4>2, <5>2
          <6> QED BY <2>1, <4>1, <4>2, <6>1 DEF OneRun, n
        <5> QED BY <5>1, <5>2
      <4>3. OneRun(all)
        BY <4>1, <4>2 DEF OneRun
      <4> QED BY <4>3 DEF all
    <3> QED BY <1>3, <2>1, <2>3, <3>2, <3>3, LineGoesOn
  <2> QED BY <2>2, <2>3
<1> QED BY <1>1, <1>5, <1>6 DEF LiveInv

(* A lost segment that is not the first of its run breaks nothing. *)
LEMMA LoseKept ==
  ASSUME LiveInv, Lose
  PROVE  LiveInv'
<1>1. /\ wire # <<>> /\ wire' = Tail(wire) /\ device' = device /\ recording' = recording
      /\ missed' = [lost |-> missed.lost + 1,
                    first |-> missed.first \/ Head(wire).index = 0]
  BY DEF Lose
<1>2. LiveTyped
  BY DEF LiveInv
<1>3. /\ Line' = Tail(Line) /\ Len(Line) > 1 /\ Line[1] = Head(wire)
      /\ wire' \in Seq(Segments)
  BY <1>1, <1>2, LineTail
<1>4. missed' \in [lost : Nat, first : BOOLEAN] /\ missed'.first = (missed.first \/ Head(wire).index = 0)
  BY <1>1, <1>2 DEF LiveTyped
<1>5. LiveTyped'
  BY <1>1, <1>2, <1>3, <1>4 DEF LiveTyped, Recorded
<1>6. Recorded' = Recorded
  BY <1>1 DEF Recorded
<1>7. ASSUME ~missed'.first PROVE OneRun(Recorded) /\ GoesOn(Line', Recorded)
  <2>1. Line[1].index # 0 /\ ~missed.first
    BY <1>3, <1>4, <1>7
  <2>2. OneRun(Recorded) /\ GoesOn(Line, Recorded) /\ Recorded \in Seq(Segments)
        /\ Line \in Seq(Segments)
    BY <1>2, <2>1, LineTyped DEF LiveInv, LiveTyped
  <2> QED BY <1>3, <2>1, <2>2, LineGoesOn
<1> QED BY <1>5, <1>6, <1>7 DEF LiveInv

(* The device reports its segments in their order. *)
LEMMA ReportKept ==
  ASSUME LiveInv, Report
  PROVE  LiveInv'
<1>1. /\ wire' = Line /\ recording' = recording /\ missed' = missed
      /\ device' = [device EXCEPT !.reported = @ + 1]
  BY DEF Report, Line, Reporting
<1>2. LiveTyped /\ Line \in Seq(Segments) /\ Reporting \in Segments
  BY LineTyped DEF LiveInv
<1>3. /\ device' \in [run : Nat, on : BOOLEAN, reported : Nat]
      /\ device'.run = device.run /\ device'.reported = device.reported + 1
      /\ device.reported \in Nat
  <2>1. device \in [run : Nat, on : BOOLEAN, reported : Nat]
    BY <1>2 DEF LiveTyped
  <2>2. device.reported + 1 \in Nat
    BY <2>1
  <2> QED BY <1>1, <2>1, <2>2
<1>4. LiveTyped' /\ Recorded' = Recorded
  BY <1>1, <1>2, <1>3 DEF LiveTyped, Recorded
<1>5. Follows(Reporting, Reporting')
  BY <1>3 DEF Follows, Reporting
<1>6. Line' = Append(Line, Reporting') /\ Reporting' \in Segments
  BY <1>1, <1>4, LineTyped, <1>3 DEF Line, Reporting, Segments
<1>7. ASSUME GoesOn(Line, Recorded) PROVE GoesOn(Line', Recorded)
  <2> DEFINE n == Len(Line)
  <2>1. /\ n \in Nat \ {0} /\ Len(Line') = n + 1 /\ Line'[n + 1] = Reporting'
        /\ \A i \in 1..n : Line'[i] = Line[i]
    <3>1. n \in Nat \ {0}
      BY <1>2, LineTyped DEF LiveTyped
    <3> QED BY <1>2, <1>6, <3>1
  <2>2. Line[n] = Reporting
    BY <1>2, LineTyped
  <2>3. ASSUME NEW i \in 2..n + 1, Line'[i].index # 0 PROVE Follows(Line'[i - 1], Line'[i])
    <3>1. CASE i = n + 1
      <4>1. i - 1 = n /\ n \in 1..n
        BY <2>1, <3>1
      <4> QED BY <1>5, <2>1, <2>2, <3>1, <4>1
    <3>2. CASE i # n + 1
      <4>1. i \in 2..n /\ i \in 1..n /\ i - 1 \in 1..n
        BY <2>1, <3>2
      <4> QED BY <1>7, <2>1, <2>3, <4>1 DEF GoesOn, n
    <3> QED BY <3>1, <3>2
  <2>4. Line'[1] = Line[1]
    BY <2>1
  <2> HIDE DEF n
  <2> QED BY <1>7, <2>1, <2>3, <2>4 DEF GoesOn
<1> QED BY <1>1, <1>4, <1>7 DEF LiveInv

(* A run that begins has reported nothing: what is on its way to the page is
   left, and its own first segment will follow nothing. *)
LEMMA BeginKept ==
  ASSUME LiveInv, wire' = wire, missed' = missed,
         recording' = recording \/ (/\ "segments" \in DOMAIN recording'
                                    /\ recording'.segments = <<>>),
         device' = device \/ RunBegins
  PROVE  LiveInv'
<1>1. LiveTyped /\ Line \in Seq(Segments) /\ Reporting \in Segments
  BY LineTyped DEF LiveInv
<1>2. LiveTyped'
  <2>1. device' \in [run : Nat, on : BOOLEAN, reported : Nat]
    <3>1. device \in [run : Nat, on : BOOLEAN, reported : Nat]
      BY <1>1 DEF LiveTyped
    <3>2. RunBegins => device' \in [run : Nat, on : BOOLEAN, reported : Nat]
      <4>1. device.run + 1 \in Nat
        BY <3>1
      <4> QED BY <4>1 DEF RunBegins
    <3> QED BY <3>1, <3>2
  <2>2. "segments" \in DOMAIN recording' /\ Recorded' \in Seq(Segments)
    <3>1. "segments" \in DOMAIN recording /\ recording.segments \in Seq(Segments)
      BY <1>1 DEF LiveTyped, Recorded
    <3>2. <<>> \in Seq(Segments)
      OBVIOUS
    <3> QED BY <3>1, <3>2 DEF Recorded
  <2> QED BY <1>1, <2>1, <2>2 DEF LiveTyped
<1>3. Line' = Append(wire, Reporting') /\ Line = Append(wire, Reporting)
  BY DEF Line
<1>4. Reporting' = Reporting \/ Reporting'.index = 0
  BY DEF Reporting, RunBegins
<1>5. Reporting' \in Segments
  BY <1>2, LineTyped DEF LiveTyped, Reporting, Segments
<1>6. Recorded' = Recorded \/ Recorded' = <<>>
  BY DEF Recorded
<1>7. ASSUME ~missed.first PROVE OneRun(Recorded') /\ GoesOn(Line', Recorded')
  <2>1. OneRun(Recorded) /\ GoesOn(Line, Recorded)
    BY <1>7 DEF LiveInv
  <2>2. OneRun(Recorded')
    BY <1>6, <2>1 DEF OneRun
  <2> DEFINE n == Len(wire)
  <2>3. /\ n \in Nat /\ Len(Line') = n + 1 /\ Len(Line) = n + 1
        /\ Line'[n + 1] = Reporting' /\ Line[n + 1] = Reporting
        /\ \A i \in 1..n : Line'[i] = wire[i] /\ Line[i] = wire[i]
    <3>1. wire \in Seq(Segments)
      BY <1>1 DEF LiveTyped
    <3> HIDE DEF Reporting, Segments
    <3> QED BY <1>1, <1>3, <1>5, <3>1
  <2> HIDE DEF n
  <2>4. ASSUME NEW i \in 1..n + 1, Line'[i].index # 0 PROVE Line'[i] = Line[i]
    <3>1. i \in 1..n \/ i = n + 1
      BY <2>3
    <3> QED BY <1>4, <2>3, <2>4, <3>1
  <2>5. ASSUME NEW i \in 2..n + 1, Line'[i].index # 0 PROVE Follows(Line'[i - 1], Line'[i])
    <3>1. i - 1 \in 1..n /\ i \in 1..n + 1
      BY <2>3
    <3> QED BY <2>1, <2>3, <2>4, <2>5, <3>1 DEF GoesOn
  <2>6. ASSUME Line'[1].index # 0, NEW i \in 1..Len(Recorded')
        PROVE  Follows(Recorded'[i], Line'[1])
    <3>1. Recorded' = Recorded
      BY <1>6, <2>6
    <3>2. Line'[1] = Line[1]
      BY <2>3, <2>4, <2>6
    <3> QED BY <2>1, <2>6, <3>1, <3>2 DEF GoesOn
  <2> QED BY <2>2, <2>3, <2>5, <2>6 DEF GoesOn
<1> QED BY <1>2, <1>7 DEF LiveInv

(* Each step keeps the recording to one run. *)
LEMMA NextLive == LiveInv /\ [Next]_vars => LiveInv'
<1> SUFFICES ASSUME LiveInv, [Next]_vars PROVE LiveInv'
  OBVIOUS
<1>1. CASE Receive
  BY <1>1, ReceiveKept
<1>2. CASE Lose
  BY <1>2, LoseKept
<1>3. CASE Report
  BY <1>3, ReportKept
<1>4. CASE Edit \/ Reload \/ Start \/ StartElsewhere
  <2>1. wire' = wire /\ missed' = missed /\ (device' = device \/ RunBegins)
    BY <1>4 DEF Edit, Reload, Start, StartElsewhere
  <2>2. recording' = recording \/ (/\ "segments" \in DOMAIN recording'
                                   /\ recording'.segments = <<>>)
    BY <1>4 DEF Edit, Reload, Start, StartElsewhere, Shows, NoRecording
  <2> QED BY <2>1, <2>2, BeginKept
<1>5. CASE RunEnds \/ Preview \/ UNCHANGED vars
  <2>1. /\ recording' = recording /\ wire' = wire /\ missed' = missed
        /\ device' = device \/ device' = [device EXCEPT !.on = FALSE]
    BY <1>5 DEF RunEnds, vars, Preview, Draw, Drawing, BurstInstead, MainStroke, Segment,
       ClusterStroke, ClusterDone, GapBegins, WaitingBurst, GapEnds, Finish, Show
  <2>2. /\ device' \in [run : Nat, on : BOOLEAN, reported : Nat]
        /\ device'.run = device.run /\ device'.reported = device.reported
    BY <2>1 DEF LiveInv, LiveTyped
  <2>3. Line' = Line /\ Recorded' = Recorded /\ LiveTyped'
    BY <2>1, <2>2 DEF Line, Reporting, Recorded, LiveInv, LiveTyped
  <2> QED BY <2>1, <2>3 DEF LiveInv
<1> QED BY <1>1, <1>2, <1>3, <1>4, <1>5 DEF Next, Run

LEMMA InitLive == Init => LiveInv
<1> SUFFICES ASSUME Init PROVE LiveInv
  OBVIOUS
<1>1. LiveTyped /\ Recorded = <<>> /\ wire = <<>> /\ Reporting.index = 0
  BY DEF Init, LiveTyped, NoRecording, Recorded, Reporting
<1>2. Line = <<Reporting>>
  BY <1>1 DEF Line
<1> HIDE DEF Reporting
<1>3. Len(Line) = 1 /\ Line[1].index = 0
  BY <1>1, <1>2
<1> QED BY <1>1, <1>3 DEF LiveInv, OneRun, GoesOn

-----------------------------------------------------------------------------
(* The graph of a recording *)

(* The graph after n segments exists: it is built one segment at a time. *)
LiveStep(first, segments, d, n) ==
  IF n = 0
  THEN [points |-> IF first > 0 THEN Push(<<<<0, 0>>>>, <<first, 0>>) ELSE <<<<0, 0>>>>,
        t |-> first, level |-> 0]
  ELSE LiveSegment(d[n - 1], segments[n])
(* The pen is at x, where the last segment ended or the first begins. *)
Graphed(d, x) ==
  /\ OnPaper(d.points, x) /\ d.t = x /\ d.level \in Levels
  /\ DOMAIN d = {"points", "t", "level"}

LEMMA LiveTimes ==
  ASSUME NEW s \in Segments
  PROVE  /\ StartMs(s) \in Nat /\ EndMs(s) \in Nat
         /\ StartMs(s) <= EndMs(s) /\ EndMs(s) <= StartMs(s) + 1000
         /\ \A x \in Segments : s.index < x.index => EndMs(s) <= StartMs(x)
BY DEF StartMs, EndMs, Segments

LEMMA TargetLevel ==
  ASSUME FormNormal, NEW i
  PROVE  Target(i) \in Levels
BY FormLevels DEF Target

(* A segment that begins where the pen is, or later, is drawn in order. *)
LEMMA LiveSegmentOn ==
  ASSUME FormNormal, NEW d, NEW x \in Int, Graphed(d, x), NEW s \in Segments,
         x <= StartMs(s)
  PROVE  Graphed(LiveSegment(d, s), EndMs(s))
<1> DEFINE a == StartMs(s)
           b == EndMs(s)
           before == IF Relay THEN d.level ELSE Target(s.index + 1)
           to == Target(s.index)
           opened == IF Relay => a > d.t THEN Push(d.points, <<a, before>>) ELSE d.points
           jumps == IF Relay THEN to # d.level ELSE b - a <= 50
           points == IF jumps THEN PushTwo(opened, <<a, before>>, <<a, to>>) ELSE opened
           q == Push(points, <<b, to>>)
<1>1. LiveSegment(d, s) = Reached(d, q, b, to)
  BY DEF LiveSegment
<1>2. a \in Nat /\ b \in Nat /\ a <= b
  BY LiveTimes
<1>3. before \in Levels /\ to \in Levels
  BY TargetLevel DEF Graphed
<1> HIDE DEF a, b, before, to
<1>4. x <= a /\ d.t = x /\ OnPaper(d.points, x)
  BY DEF a, Graphed
<1>5. OnPaper(opened, a)
  <2>1. OnPaper(Push(d.points, <<a, before>>), a)
    BY <1>2, <1>3, <1>4, PushOn
  <2>2. ~(Relay => a > d.t) => a = x
    BY <1>2, <1>4
  <2> QED BY <1>4, <2>1, <2>2
<1> HIDE DEF opened
<1>6. OnPaper(points, a)
  <2>1. OnPaper(Push(opened, <<a, before>>), a)
    BY <1>2, <1>3, <1>5, PushOn
  <2>2. OnPaper(PushTwo(opened, <<a, before>>, <<a, to>>), a)
    BY <1>2, <1>3, <2>1, PushOn DEF PushTwo
  <2> QED BY <1>5, <2>2
<1> HIDE DEF points
<1>7. OnPaper(q, b)
  BY <1>2, <1>3, <1>6, PushOn
<1> HIDE DEF q
<1>8. Graphed(Reached(d, q, b, to), b)
  BY <1>3, <1>7 DEF Graphed, Reached
<1> QED BY <1>1, <1>8 DEF b

LEMMA LiveExists ==
  ASSUME NEW first, NEW segments, NEW n \in Nat
  PROVE  \E d : d = [i \in 0..n |-> LiveStep(first, segments, d, i)]
<1> DEFINE Live1(m) == \E d : d = [i \in 0..m |-> LiveStep(first, segments, d, i)]
           T == {m \in Nat : ~Live1(m)}
<1>1. T = {}
  <2> SUFFICES ASSUME T # {} PROVE FALSE
    OBVIOUS
  <2>1. T \in SUBSET Nat
    OBVIOUS
  <2> HIDE DEF T
  <2>2. PICK m \in T : \A y \in T : m <= y
    BY <2>1, Least
  <2> USE DEF T
  <2>3. m \in Nat /\ ~Live1(m)
    OBVIOUS
  <2>4. CASE m = 0
    <3> DEFINE d == [i \in 0..0 |-> LiveStep(first, segments, <<>>, i)]
    <3>1. ASSUME NEW i \in 0..0 PROVE LiveStep(first, segments, <<>>, i) = LiveStep(first, segments, d, i)
      BY <3>1 DEF LiveStep
    <3>2. d = [i \in 0..0 |-> LiveStep(first, segments, d, i)]
      BY <3>1
    <3> QED BY <2>3, <2>4, <3>2
  <2>5. CASE m # 0
    <3>1. m - 1 \in Nat /\ ~(m <= m - 1)
      BY <2>3, <2>5
    <3>2. Live1(m - 1)
      BY <2>2, <3>1
    <3>3. PICK f : f = [i \in 0..m - 1 |-> LiveStep(first, segments, f, i)]
      BY <3>2
    <3> DEFINE v == LiveSegment(f[m - 1], segments[m])
               d == [i \in 0..m |-> IF i = m THEN v ELSE f[i]]
    <3> HIDE DEF v
    <3>4. /\ DOMAIN d = 0..m /\ d[m] = v /\ \A i \in 0..m - 1 : d[i] = f[i]
          /\ d = [i \in 0..m |-> d[i]]
      BY <2>3, <3>1
    <3> HIDE DEF d
    <3>5. ASSUME NEW i \in 0..m PROVE d[i] = LiveStep(first, segments, d, i)
      <4>1. CASE i = m
        <5>1. m - 1 \in 0..m - 1
          BY <3>1
        <5>2. d[m - 1] = f[m - 1]
          BY <3>4, <5>1
        <5> QED BY <2>5, <3>4, <4>1, <5>2 DEF LiveStep, v
      <4>2. CASE i # m
        <5>1. i \in 0..m - 1 /\ (i # 0 => i - 1 \in 0..m - 1)
          BY <2>3, <4>2
        <5>2. d[i] = f[i] /\ (i # 0 => d[i - 1] = f[i - 1])
              /\ f[i] = LiveStep(first, segments, f, i)
          BY <3>3, <3>4, <5>1
        <5> QED BY <5>2 DEF LiveStep
      <4> QED BY <4>1, <4>2
    <3>6. d = [i \in 0..m |-> LiveStep(first, segments, d, i)]
      BY <3>4, <3>5
    <3> QED BY <2>3, <3>6
  <2> QED BY <2>4, <2>5
<1>2. Live1(n)
  BY <1>1
<1> QED BY <1>2

(* So after the last segment the graph is in the order of time and ends where
   that segment does. *)
LEMMA LiveDrawn ==
  ASSUME FormNormal, Recorded \in Seq(Segments), Recorded # <<>>, OneRun(Recorded)
  PROVE  Graphed(LiveDrawings[Len(Recorded)], EndMs(Recorded[Len(Recorded)]))
<1> DEFINE N == Len(Recorded)
           first == StartMs(Head(Recorded))
           d == LiveDrawings
           At(n) == IF n = 0 THEN first ELSE EndMs(Recorded[n])
<1>1. /\ N \in Nat \ {0} /\ \A i \in 1..N : Recorded[i] \in Segments
      /\ Head(Recorded) = Recorded[1]
  OBVIOUS
<1>2. d = [n \in 0..N |-> LiveStep(first, Recorded, d, n)]
  <2>1. d = CHOOSE f : f = [n \in 0..Len(recording.segments) |->
        IF n = 0
        THEN [points |-> IF first > 0 THEN Push(<<<<0, 0>>>>, <<first, 0>>) ELSE <<<<0, 0>>>>,
              t |-> first, level |-> 0]
        ELSE LiveSegment(f[n - 1], recording.segments[n])]
    BY DEF LiveDrawings, Recorded
  <2>2. \E f : f = [n \in 0..Len(recording.segments) |->
        IF n = 0
        THEN [points |-> IF first > 0 THEN Push(<<<<0, 0>>>>, <<first, 0>>) ELSE <<<<0, 0>>>>,
              t |-> first, level |-> 0]
        ELSE LiveSegment(f[n - 1], recording.segments[n])]
    <3> HIDE DEF first
    <3>1. Len(recording.segments) \in Nat
      BY <1>1 DEF Recorded
    <3>2. \E f : f = [n \in 0..Len(recording.segments) |->
                        LiveStep(first, recording.segments, f, n)]
      BY <3>1, LiveExists
    <3> QED BY <3>2 DEF LiveStep
  <2> HIDE DEF d, first
  <2> QED BY <2>1, <2>2 DEF LiveStep, Recorded
<1> HIDE DEF d
<1> DEFINE T == {n \in Nat : n <= N /\ ~Graphed(d[n], At(n))}
<1>3. T = {}
  <2> SUFFICES ASSUME T # {} PROVE FALSE
    OBVIOUS
  <2>1. T \in SUBSET Nat
    OBVIOUS
  <2> HIDE DEF T
  <2>2. PICK m \in T : \A y \in T : m <= y
    BY <2>1, Least
  <2>3. m \in 0..N /\ ~Graphed(d[m], At(m))
    BY <1>1, <2>2 DEF T
  <2>4. d[m] = LiveStep(first, Recorded, d, m)
    BY <1>2, <2>3
  <2>5. CASE m = 0
    <3> DEFINE zero == <<<<0, 0>>>>
               points == IF first > 0 THEN Push(zero, <<first, 0>>) ELSE zero
    <3>1. first \in Nat
      BY <1>1, LiveTimes
    <3>2. 0 \in Levels
      BY FormLevels
    <3>3. OnPaper(zero, 0)
      BY <3>2 DEF OnPaper, InOrder, Last
    <3> HIDE DEF zero, first
    <3>4. OnPaper(points, first)
      BY <3>1, <3>2, <3>3, PushOn
    <3> HIDE DEF points
    <3>5. d[m] = [points |-> points, t |-> first, level |-> 0]
      BY <2>4, <2>5 DEF LiveStep, points, zero
    <3>6. Graphed(d[m], first)
      BY <3>2, <3>4, <3>5 DEF Graphed
    <3> QED BY <2>3, <2>5, <3>6
  <2>6. CASE m # 0
    <3>1. m - 1 \in Nat /\ m - 1 <= N /\ ~(m <= m - 1) /\ m \in 1..N
          /\ (m - 1 # 0 => m - 1 \in 1..N /\ m - 1 < m) /\ 1 \in 1..N
      BY <1>1, <2>3, <2>6
    <3>2. Graphed(d[m - 1], At(m - 1))
      BY <2>2, <3>1 DEF T
    <3>3. At(m - 1) \in Int /\ At(m - 1) <= StartMs(Recorded[m])
      <4>1. CASE m = 1
        <5>1. At(m - 1) = StartMs(Recorded[m])
          BY <1>1, <4>1
        <5>2. StartMs(Recorded[m]) \in Nat
          BY <1>1, <3>1, LiveTimes
        <5> HIDE DEF At
        <5> QED BY <5>1, <5>2
      <4>2. CASE m # 1
        <5>1. m - 1 \in 1..N /\ m - 1 < m /\ m - 1 # 0
          BY <3>1, <4>2
        <5>2. Recorded[m - 1].index < Recorded[m].index
          BY <3>1, <5>1 DEF OneRun, Follows
        <5>3. At(m - 1) = EndMs(Recorded[m - 1])
          BY <5>1
        <5>4. Recorded[m - 1] \in Segments /\ Recorded[m] \in Segments
          BY <1>1, <3>1, <5>1
        <5>5. /\ EndMs(Recorded[m - 1]) \in Int
              /\ EndMs(Recorded[m - 1]) <= StartMs(Recorded[m])
          <6>1. ASSUME NEW a \in Segments, NEW b \in Segments, a.index < b.index
                PROVE  EndMs(a) \in Int /\ EndMs(a) <= StartMs(b)
            BY <6>1, LiveTimes
          <6> QED BY <5>2, <5>4, <6>1
        <5> QED BY <5>3, <5>5
      <4> QED BY <4>1, <4>2
    <3>4. Graphed(LiveSegment(d[m - 1], Recorded[m]), EndMs(Recorded[m]))
      BY <1>1, <3>1, <3>2, <3>3, LiveSegmentOn
    <3>5. d[m] = LiveSegment(d[m - 1], Recorded[m])
      BY <2>4, <2>6 DEF LiveStep
    <3> QED BY <2>3, <2>6, <3>4, <3>5
  <2> QED BY <2>5, <2>6
<1>4. N \in Nat /\ N <= N /\ N # 0
  BY <1>1
<1>5. Graphed(d[N], At(N))
  BY <1>3, <1>4
<1> QED BY <1>4, <1>5 DEF d

(* The horizon of a recording is its own, or the end of its last segment. *)
LEMMA LiveHorizonIs ==
  ASSUME FormNormal, Recorded \in Seq(Segments), Recorded # <<>>, OneRun(Recorded)
  PROVE  LiveHorizon = AtLeast(AtLeast(1000, Horizon), EndMs(Recorded[Len(Recorded)]))
         /\ AtLeast(1000, Horizon) \in Int
<1> DEFINE N == Len(Recorded)
           h == AtLeast(1000, Horizon)
           S == {h} \cup {EndMs(s) : s \in ToSet(Recorded)}
           e == EndMs(Recorded[N])
           most == AtLeast(h, e)
<1>1. N \in Nat \ {0} /\ N \in 1..N /\ \A i \in 1..N : Recorded[i] \in Segments
  OBVIOUS
<1>2. h \in Int /\ e \in Int
  BY <1>1, TimesTyped, LiveTimes DEF AtLeast
<1>3. S = {h} \cup {EndMs(Recorded[i]) : i \in 1..N}
  BY DEF ToSet
<1>4. ASSUME NEW i \in 1..N PROVE EndMs(Recorded[i]) \in Int /\ EndMs(Recorded[i]) <= e
  <2>1. CASE i = N
    BY <1>2, <2>1
  <2>2. CASE i # N
    <3>1. i < N
      BY <1>1, <2>2
    <3>2. Recorded[i].index < Recorded[N].index
      BY <1>1, <3>1 DEF OneRun, Follows
    <3>3. EndMs(Recorded[i]) \in Int /\ EndMs(Recorded[i]) <= StartMs(Recorded[N])
          /\ StartMs(Recorded[N]) <= e /\ StartMs(Recorded[N]) \in Int
      BY <1>1, <3>2, LiveTimes
    <3> QED BY <1>2, <3>3
  <2> QED BY <2>1, <2>2
<1>5. h \in S /\ e \in S
  <2>1. e \in {EndMs(Recorded[i]) : i \in 1..N}
    BY <1>1
  <2> HIDE DEF h, e, N
  <2> QED BY <1>3, <2>1
<1>6. \A y \in S : y \in Int /\ (y = h \/ y <= e)
  BY <1>2, <1>3, <1>4
<1>7. LiveHorizon = Max(S)
  BY DEF LiveHorizon, Recorded
<1> HIDE DEF S, h, e
<1>8. most \in S /\ most \in Int /\ \A y \in S : most >= y
  BY <1>2, <1>5, <1>6 DEF AtLeast
<1> HIDE DEF most
<1>9. Max(S) \in S /\ \A y \in S : Max(S) >= y
  BY <1>8 DEF Max
<1>10. Max(S) \in Int /\ Max(S) >= most /\ most >= Max(S)
  BY <1>6, <1>8, <1>9
<1>11. Max(S) = most
  BY <1>8, <1>10
<1> QED BY <1>2, <1>7, <1>11 DEF most, h, e

LEMMA LiveGraphShown ==
  ASSUME FormNormal, Recorded \in Seq(Segments), Recorded # <<>>, OneRun(Recorded)
  PROVE  InOrder(LiveGraph) /\ Last(LiveGraph)[1] = LiveHorizon
<1> DEFINE d == LiveDrawings[Len(Recorded)]
           e == EndMs(Recorded[Len(Recorded)])
           v == Last(d.points)[2]
<1>1. Graphed(d, e)
  BY LiveDrawn
<1>2. e \in Nat
  <2>1. Len(Recorded) \in 1..Len(Recorded)
    OBVIOUS
  <2>2. Recorded[Len(Recorded)] \in Segments
    BY <2>1
  <2> QED BY <2>2, LiveTimes
<1>3. LiveGraph = IF d.t < LiveHorizon THEN Push(d.points, <<LiveHorizon, v>>) ELSE d.points
  BY DEF LiveGraph, Recorded
<1> HIDE DEF d, e
<1>4. LiveHorizon \in Int /\ e <= LiveHorizon
  BY <1>2, LiveHorizonIs DEF AtLeast, e
<1>5. d.t = e /\ OnPaper(d.points, e)
  BY <1>1 DEF Graphed
<1>6. v \in Levels
  BY <1>5 DEF OnPaper, Last
<1> HIDE DEF v
<1>7. CASE d.t < LiveHorizon
  <2>1. OnPaper(Push(d.points, <<LiveHorizon, v>>), LiveHorizon)
    BY <1>2, <1>4, <1>5, <1>6, PushOn
  <2> QED BY <1>3, <1>7, <2>1 DEF OnPaper
<1>8. CASE ~(d.t < LiveHorizon)
  <2>1. e = LiveHorizon
    BY <1>2, <1>4, <1>5, <1>8
  <2> QED BY <1>3, <1>5, <1>8, <2>1 DEF OnPaper
<1> QED BY <1>7, <1>8

(* Whatever runs were started, here or elsewhere, and whatever segments were
   lost, but for a run's first: the graph of a run shows segments of that run
   only, in the order of time, and ends at its horizon
   (recordRelayAutomaticSegment, buildRelayPowerScheduleFromLiveSegments). *)
THEOREM OneRunIsShown == Spec => []OneRunShown
<1>1. FormNormal /\ LiveInv => OneRunShown
  <2> SUFFICES ASSUME FormNormal, LiveInv, UsingLive, ~missed.first
               PROVE  /\ \A s, x \in ToSet(Recorded) : s.run = x.run
                      /\ InOrder(LiveGraph) /\ Last(LiveGraph)[1] = LiveHorizon
    BY DEF OneRunShown, Recorded
  <2>1. Recorded \in Seq(Segments) /\ Recorded # <<>> /\ OneRun(Recorded)
    BY DEF LiveInv, LiveTyped, UsingLive, Recorded
  <2>2. ASSUME NEW i \in 1..Len(Recorded), NEW j \in 1..Len(Recorded)
        PROVE  Recorded[i].run = Recorded[j].run
    <3>1. i < j \/ j < i \/ i = j
      BY <2>1
    <3> QED BY <2>1, <3>1 DEF OneRun, Follows
  <2>3. \A s, x \in ToSet(Recorded) : s.run = x.run
    BY <2>1, <2>2 DEF ToSet
  <2> QED BY <2>1, <2>3, LiveGraphShown
<1> QED BY <1>1, InitLive, NextLive, AlwaysNormal, PTL DEF Spec
=============================================================================
