SPECIFICATION FairSpec
CONSTANTS
  MaxBurstEvents = 3
  MinuteTicks = 2
  StartConfigs <- MCStartConfigs
  UpdateConfigs <- MCUpdateConfigs
  NoConfig = NoConfig
  Updates = {u1}
  MaxBurstStrokes = 2
  MaxSession = 4
  MaxMains = 4
  MaxBursts = 4
INVARIANTS TypeOK PlanKept BurstsSpread
PROPERTIES UpdatesHold SessionEnds ImplementsRelay
CHECK_DEADLOCK FALSE
