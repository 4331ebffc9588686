----------------------------- MODULE ProgramForm -----------------------------
(***************************************************************************)
(* The form of an automatic program: what its fields may hold and how an   *)
(* edit of one corrects the others (automaticFieldRules.ts,                *)
(* motorAutomaticFieldRules.ts, burstFieldRules.ts).  Relay and motor have *)
(* their own rules; the power and gap fields are the motor's speed and     *)
(* segment fields.  Seconds and percentages are the form's own units.      *)
(***************************************************************************)
EXTENDS BurstPreview

Kinds == {"relay", "motor"}
RelayModes == {"periodic", "randomPowerOnly", "randomTimingOnly",
               "randomPowerAndTiming", "powerWave", "powerAndTimingWave", "buildUp"}
MotorModes == {"periodic", "randomSpeed", "randomSpeedAndTiming", "powerWave",
               "buildUp"}
Modes(kind) == IF kind = "relay" THEN RelayModes ELSE MotorModes
BurstStyles == {"fixedPowerDelay", "randomPowerOnly", "randomDelayOnly",
                "randomPowerAndDelay"}

Between(value, low, high) == AtMost(high, AtLeast(low, value))

(* getAutomaticFieldRules, getMotorAutomaticFieldRules *)
NeedsEnd(kind) ==
  {"buildUp", "powerWave"} \cup IF kind = "relay" THEN {"powerAndTimingWave"} ELSE {}
NoMinimumPower(kind) ==
  {"periodic"} \cup IF kind = "relay" THEN {"randomTimingOnly"} ELSE {}
NoMinimumGap(kind) ==
  {"periodic", "powerWave"}
    \cup IF kind = "relay" THEN {"randomPowerOnly"} ELSE {"randomSpeed"}

(* getBurstFieldRules: a field that is not drawn at random has no minimum. *)
PowerMirrored(style) == style \in {"fixedPowerDelay", "randomDelayOnly"}
DelayMirrored(style) == style \in {"fixedPowerDelay", "randomPowerOnly"}

Mirror(form, min, max, high) ==
  LET value == Between(form[max], 0, high) IN
  [form EXCEPT ![min] = value, ![max] = value]
LowerMinimum(form, min, max, lowMin, lowMax, high) ==
  LET top == Between(form[max], lowMax, high) IN
  [form EXCEPT ![min] = AtMost(Between(@, lowMin, high), top), ![max] = top]
RaiseMaximum(form, min, max, low, high) ==
  LET bottom == Between(form[min], low, high) IN
  [form EXCEPT ![min] = bottom, ![max] = AtLeast(Between(@, 0, high), bottom)]

BurstPowerNormal(form) ==
  IF PowerMirrored(form.burstStyle)
  THEN Mirror(form, "burstPowerMin", "burstPowerMax", 100)
  ELSE LowerMinimum(form, "burstPowerMin", "burstPowerMax", 1,
                    IF form.kind = "relay" THEN 1 ELSE 0, 100)
BurstDelayNormal(form) ==
  IF DelayMirrored(form.burstStyle)
  THEN Mirror(form, "burstDelayMin", "burstDelayMax", 300)
  ELSE IF form.kind = "relay"
  THEN LowerMinimum(form, "burstDelayMin", "burstDelayMax", 1, 1, 300)
  ELSE RaiseMaximum(form, "burstDelayMin", "burstDelayMax", 1, 300)

(* A motor at a set speed takes bursts spread over a timed session only. *)
SpreadOnly(placement) ==
  IF BurstBasis(placement) = "spread" THEN placement
  ELSE IF BurstInsteadOfMain(placement) THEN "insteadOfSessionSpread"
  ELSE "mainPlusSessionSpread"
MotorPeriodicBurstRules(form) ==
  IF form.kind = "motor" /\ form.automaticMode = "periodic" /\ form.burstsOn
  THEN [form EXCEPT !.endSessionMode = "minutes",
                    !.burstPlacement = SpreadOnly(ResolveBurstPlacement(@))]
  ELSE form

NormalizeBurstFields(form) ==
  MotorPeriodicBurstRules(
    LowerMinimum(BurstDelayNormal(BurstPowerNormal(
      [form EXCEPT !.burstPercent = Between(@, 0, 100),
                   !.burstPlacement = ResolveBurstPlacement(@)])),
      "burstStrokesMin", "burstStrokesMax", 1, 1, 100))

(* applyAutomaticModeChange, applyMotorAutomaticModeChange *)
ModeChange(form, mode) ==
  LET needsEnd == mode \in NeedsEnd(form.kind) /\ form.endSessionMode = "noAutoEnd"
      placement == ResolveBurstPlacement(form.burstPlacement)
  IN MotorPeriodicBurstRules(
       [form EXCEPT !.automaticMode = mode,
                    !.endSessionMode = IF needsEnd THEN "minutes" ELSE @,
                    !.burstPlacement =
                      IF form.kind = "relay" THEN @
                      ELSE IF mode = "periodic" THEN SpreadOnly(placement)
                      ELSE placement])

(* coerceMotorAutomaticRunMode: programs of a relay stored for a motor. *)
MotorMode(mode) ==
  IF mode \in MotorModes THEN mode
  ELSE IF mode = "randomPowerOnly" THEN "randomSpeed"
  ELSE IF mode = "randomPowerAndTiming" THEN "randomSpeedAndTiming"
  ELSE "periodic"

NormalizeAutomatic(form) ==
  LET f == ModeChange(form, form.automaticMode)
      top == AtLeast(1, f.maximumGap)
  IN NormalizeBurstFields(
       [f EXCEPT !.minimumGap = AtMost(AtLeast(1, @), top), !.maximumGap = top])
NormalizeMotorAutomatic(form) ==
  LET f == ModeChange(form, MotorMode(form.automaticMode))
      a == Between(f.minimumGap, 1, 3600)
      b == Between(f.maximumGap, 1, 3600)
  IN NormalizeBurstFields(
       [f EXCEPT !.minimumGap = AtMost(a, b), !.maximumGap = AtLeast(a, b),
                 !.minimumPower = Between(@, 0, 100),
                 !.maximumPower = Between(@, 0, 100),
                 !.delayBeforeStart = Between(@, 0, 3600),
                 !.endSessionMode = IF @ = "strokes" THEN "noAutoEnd" ELSE @,
                 !.endSessionValue = Between(@, 1, 1440)])
Normalize(form) ==
  IF form.kind = "relay" THEN NormalizeAutomatic(form)
  ELSE NormalizeMotorAutomatic(form)

(* Forms as they are stored, whatever version of the page wrote them: a
   relay's programs are a relay's, and a motor's form with the end of a relay
   is not one whose program needs another end. *)
Placements == InsteadOf \cup MainPlus \cup Bare
EndModes == {"minutes", "strokes", "noAutoEnd"}
FormType ==
  [kind : Kinds, automaticMode : RelayModes \cup MotorModes,
   minimumPower : Int, maximumPower : Int, minimumGap : Int, maximumGap : Int,
   delayBeforeStart : Int, endSessionValue : Nat, endSessionMode : EndModes,
   burstsOn : BOOLEAN, burstPlacement : Placements \cup {"unknown"},
   burstPercent : Int, burstStyle : BurstStyles,
   burstPowerMin : Int, burstPowerMax : Int, burstDelayMin : Int,
   burstDelayMax : Int, burstStrokesMin : Int, burstStrokesMax : Int, ramp : Int]
Storable(form) ==
  /\ form \in FormType
  /\ form.kind = "relay" => form.automaticMode \in RelayModes
  /\ (form.kind = "motor" /\ MotorMode(form.automaticMode) \in NeedsEnd("motor"))
       => form.endSessionMode # "strokes"
(* What a control of the page can hand over for a field. *)
Amounts == {"minimumPower", "maximumPower", "minimumGap", "maximumGap",
            "delayBeforeStart", "burstPercent", "burstPowerMin", "burstPowerMax",
            "burstDelayMin", "burstDelayMax", "burstStrokesMin", "burstStrokesMax",
            "ramp"}
Enterable(key, value) ==
  \/ key \in Amounts /\ value \in Int
  \/ key = "endSessionValue" /\ value \in Nat
  \/ key = "automaticMode" /\ value \in RelayModes \cup MotorModes
  \/ key = "endSessionMode" /\ value \in EndModes
  \/ key = "burstsOn" /\ value \in BOOLEAN
  \/ key = "burstPlacement" /\ value \in Placements
  \/ key = "burstStyle" /\ value \in BurstStyles

(* The fields the operator can reach: the sliders and numbers of a program,
   its choices, and the burst's own fields. *)
BurstFields == {"burstPlacement", "burstPercent", "burstStyle", "burstPowerMin",
                "burstPowerMax", "burstDelayMin", "burstDelayMax",
                "burstStrokesMin", "burstStrokesMax"}
ProgramEditable(form, key) ==
  /\ key = "minimumPower" => form.automaticMode \notin NoMinimumPower(form.kind)
  /\ key = "minimumGap" => form.automaticMode \notin NoMinimumGap(form.kind)
  /\ key = "maximumGap" => form.kind = "relay" \/ form.automaticMode # "periodic"
  /\ key = "endSessionValue" => form.endSessionMode # "noAutoEnd"
EndOffered(form, value) ==
  /\ value = "noAutoEnd" => form.automaticMode \notin NeedsEnd(form.kind)
  /\ value = "strokes" => form.kind = "relay"
BurstEditable(form, key, value) ==
  /\ form.burstsOn
  /\ (/\ key = "burstPlacement" /\ form.kind = "motor"
      /\ form.automaticMode = "periodic") => BurstBasis(value) = "spread"
  /\ key = "burstPowerMin" => ~PowerMirrored(form.burstStyle)
  /\ key = "burstDelayMin" => ~DelayMirrored(form.burstStyle)
Editable(form, key, value) ==
  IF key \in BurstFields THEN BurstEditable(form, key, value)
  ELSE /\ ProgramEditable(form, key)
       /\ key = "endSessionMode" => EndOffered(form, value)
       /\ key = "automaticMode" => value \in Modes(form.kind)

(* Seeded fault: what the operator typed is taken as it is. *)
UpdatePlain(form, key, value) ==
  IF key = "automaticMode" THEN ModeChange(form, value)
  ELSE [form EXCEPT ![key] = value]
(* update, handleAutomaticModeChange and the store's updateAutomatic *)
Update(form, key, value) ==
  Normalize(IF key = "automaticMode" THEN ModeChange(form, value)
            ELSE [form EXCEPT ![key] = value])

(* Rules every form keeps. *)
FormRules(form) ==
  /\ form.automaticMode \in Modes(form.kind)
  /\ form.automaticMode \in NeedsEnd(form.kind) => form.endSessionMode # "noAutoEnd"
  /\ form.minimumGap \in 1..form.maximumGap
  /\ form.burstPercent \in 0..100
  /\ form.burstPowerMin <= form.burstPowerMax /\ form.burstPowerMax \in 0..100
  /\ form.burstDelayMin <= form.burstDelayMax /\ form.burstDelayMax \in 0..300
  /\ form.burstStrokesMin \in 1..form.burstStrokesMax
  /\ form.burstPlacement \in Placements
  /\ form.kind = "motor" =>
       /\ form.endSessionMode # "strokes"
       /\ (form.automaticMode = "periodic" /\ form.burstsOn) =>
            /\ form.endSessionMode = "minutes"
            /\ BurstBasis(form.burstPlacement) = "spread"
=============================================================================
