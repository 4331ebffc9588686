------------------------- MODULE MCAutomaticSession --------------------------
(* Sessions small enough for TLC: one to three strokes, one or two minutes, or
   no end; bursts in every basis, after and in place of strokes; updates that
   switch bursts on and off, shorten, lengthen or change the kind of end. *)
EXTENDS AutomaticSession

Bursting(rule, end, percent, basis, instead) ==
  [rule |-> rule, end |-> end, program |-> "steady", burstsOn |-> TRUE,
   percent |-> percent, basis |-> basis, instead |-> instead]
Plain(rule, end, program) ==
  [rule |-> rule, end |-> end, program |-> program, burstsOn |-> FALSE,
   percent |-> 0, basis |-> "spread", instead |-> FALSE]

(* For a stroke rule, and with no end, "afterMain" plans what "spread" does;
   for deadlines it does not matter whether bursts are in place of strokes. *)
MCStartConfigs ==
  {Bursting("strokes", 3, p, b, i) :
     p \in {50, 100}, b \in {"spread", "chance"}, i \in BOOLEAN}
  \cup {Bursting("minutes", 2, 100, b, b = "chance") : b \in Bases}
  \cup {Bursting("noAutoEnd", 0, 50, b, b = "afterMain") : b \in {"afterMain", "chance"}}
  \cup {Bursting("strokes", 1, 50, "spread", i) : i \in BOOLEAN}
  \cup {Plain("strokes", 2, "table"), Plain("noAutoEnd", 0, "steady")}

MCUpdateConfigs ==
  {Bursting("strokes", 4, 100, "afterMain", FALSE),
   Bursting("strokes", 3, 100, "spread", TRUE),
   Bursting("minutes", 2, 100, "spread", FALSE),
   Plain("strokes", 2, "table"), Plain("minutes", 1, "gapless")}
=============================================================================
