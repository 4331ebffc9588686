\* Acts are bounded, so a behaviour ends.
SPECIFICATION FeedsFairSpec
INVARIANTS
  ShownIsSessions
  MotionKeepsFeeds
PROPERTIES
  EndedSessionHides
CONSTANTS
  Devices = {d1, d2}
  NoDevice = none
  MaxSessions = 2
  MaxActs = 6
  MaxFails = 1

CHECK_DEADLOCK FALSE
