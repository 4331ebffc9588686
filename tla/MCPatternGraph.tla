--------------------------- MODULE MCPatternGraph ---------------------------
(***************************************************************************)
(* Values for PatternGraph: stored forms of a relay and a motor, and what  *)
(* the operator enters.  Three strokes or minutes, gaps of 40 and 60       *)
(* seconds: up to five beats a preview, with every kind of burst plan.     *)
(***************************************************************************)
EXTENDS PatternGraph

Basic ==
  [kind |-> "relay", automaticMode |-> "periodic",
   minimumPower |-> 20, maximumPower |-> 80, minimumGap |-> 40, maximumGap |-> 60,
   delayBeforeStart |-> 0, endSessionValue |-> 3, endSessionMode |-> "minutes",
   burstsOn |-> TRUE, burstPlacement |-> "sessionSpread", burstPercent |-> 50,
   burstStyle |-> "fixedPowerDelay", burstPowerMin |-> 0, burstPowerMax |-> 50,
   burstDelayMin |-> 1, burstDelayMax |-> 2, burstStrokesMin |-> 1,
   burstStrokesMax |-> 2, ramp |-> -1]
MCFirstForms ==
  {Basic, [Basic EXCEPT !.kind = "motor", !.automaticMode = "randomPowerOnly",
                        !.burstPlacement = "unknown", !.ramp = 0],
   [Basic EXCEPT !.kind = "motor", !.automaticMode = "randomSpeed", !.ramp = 400,
                 !.burstStyle = "randomPowerAndDelay", !.burstDelayMax = 0]}
MCRunForms == {Basic}
MCRunEdits == {"burstPercent", "burstsOn"}
MCEdits ==
  [burstsOn |-> BOOLEAN,
   automaticMode |-> RelayModes \cup MotorModes,
   endSessionMode |-> {"minutes", "strokes", "noAutoEnd"},
   burstPlacement |-> InsteadOf \cup MainPlus,
   burstPercent |-> {50, 100},
   minimumGap |-> {40, 70},
   delayBeforeStart |-> {0, 200},
   burstStyle |-> {"fixedPowerDelay", "randomPowerAndDelay"}]
MCStrokeMs == [low |-> 100, high |-> 400]
MCDuty == [low |-> 20, high |-> 80]
=============================================================================
