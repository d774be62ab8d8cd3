CONSTANTS
  Half = 4
  MinTarget = 1
  MaxTarget = 2
  Step = 1
  Slack = 1
  MaxOutage = 2
  MaxRepeat = 1
SPECIFICATION FairSpec
INVARIANTS BufferSound
PROPERTIES NothingPassedOver CloseStopsWorker
