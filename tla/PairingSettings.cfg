SPECIFICATION Spec
CONSTANTS
  Devices = {d1, d2}
  Slots = {s1, s2}
  Runs = {d1}
  MaxOps = 2
  Faults = 1
  NoDevice = NoDevice
INVARIANTS TypeOK  SavesTrue
PROPERTIES EditsLand
CHECK_DEADLOCK FALSE
