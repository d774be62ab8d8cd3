CONSTANTS
  Keys = {k1, k2, k3, k4}
  Targets = {t1, t2}
  None = none
SPECIFICATION Spec
INVARIANTS ConfigValid KeysProved RunningKeyKept
