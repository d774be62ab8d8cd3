CONSTANTS
  Conns = {c1, c2}
  Keys = {k1, k2}
  Admins = {a1}
  MaxConns = 2
  MaxPsk = 1
  MaxModes = 1
  All = all
  None = none
SPECIFICATION FairSpec
INVARIANTS CleartextEnds
  
CHECK_DEADLOCK FALSE
