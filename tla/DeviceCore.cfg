SPECIFICATION FairSpec
CONSTANTS
  Cmds = {c1, c2, c3}
  None = None
  Tasks = {"loop", "http"}
INVARIANTS TypeOK 
PROPERTIES  HubAnswered
CHECK_DEADLOCK FALSE
