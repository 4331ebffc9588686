SPECIFICATION Spec
CONSTANTS
  MaxConns = 2
  Reqs = {r1, r2}
  None = None
INVARIANTS TypeOK 
PROPERTIES CallsSound Returns ImplementsCall
\* every connection and request may be used up
CHECK_DEADLOCK FALSE
