SPECIFICATION Spec
CONSTANTS
  Devices = {d1, d2}
  Slots = {s1, s2}
  Runs = {d1}
  MaxOps = 2
  Faults = 0
  NoDevice = NoDevice
INVARIANT RunningKept
CHECK_DEADLOCK FALSE
