SPECIFICATION PanelSpec
CONSTANTS
  Slots = {s1, s2}
  Panels = {"relay", "relayLive", "motor"}
  MaxOps = 2
  Faults = 1
INVARIANT PanelTypeOK
PROPERTIES HandlersEnd  RunningHeals
CHECK_DEADLOCK FALSE
