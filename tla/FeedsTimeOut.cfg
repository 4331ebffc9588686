\* Acts are bounded, so a behaviour ends.
SPECIFICATION FeedsSpec
INVARIANTS
  FeedsTimeOut
CONSTANTS
  Devices = {d1, d2}
  NoDevice = none
  MaxSessions = 2
  MaxActs = 5
  MaxFails = 1

CHECK_DEADLOCK FALSE
