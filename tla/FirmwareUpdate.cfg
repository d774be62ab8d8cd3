CONSTANTS
  Images = {factory, good, broken, foreign}
  Signed = {factory, good, broken}
  Sound = {factory, good, foreign}
  Factory = factory
  Workers = {w1, w2}
  Damaged = damaged
  None = none
SPECIFICATION FairSpec
INVARIANTS ConfirmedWorks WorkUndisturbed
PROPERTY UpdateEnds
