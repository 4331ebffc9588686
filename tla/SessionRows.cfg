SPECIFICATION Spec
CONSTANTS
  Tabs = {t1, t2}
  Calls = {c1, c2}
  Nobody = nobody
  MaxSessions = 2
  MaxDone = 1
  MaxInbox = 2
  MaxOps = 3
  Faults = 1
INVARIANTS TypeOK 
SYMMETRY Symmetry
CHECK_DEADLOCK FALSE
