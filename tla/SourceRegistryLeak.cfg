CONSTANTS
  Peers = {a, b}
  TlsKeys = {k}
  Allowed = {}
  MaxSources = 2
  Sources = {s1, s2, s3}
  Conns = {c1, c2}
  Listeners = {l1}
  Pending = pending
  None = none
SPECIFICATION Spec
SYMMETRY Symmetry
CHECK_DEADLOCK FALSE
INVARIANTS EvictedSourceStops
