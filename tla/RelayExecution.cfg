SPECIFICATION FairSpec
CONSTANTS
  Cmds = {c1, c2, c3}
  None = None
  MaxBurstStrokes = 2
INVARIANTS TypeOK RelaySafe AnswersTrue
PROPERTIES StartsAndStops ImplementsFairService
CHECK_DEADLOCK FALSE
