CONSTANTS
  Half = 9
  MinTarget = 1
  MaxTarget = 2
  Step = 1
  Slack = 1
  MaxOutage = 2
  MaxRepeat = 1
  MaxSkip = 1
  Depth = 2
  Batch = 2
  MaxSeq = 6
  PollOutlastsRequest = TRUE
  Clients = {c1, c2}
  MaxClientChunks = 2
  BatchChunks = 2
  MaxChunks = 3
  End = End
  Nobody = Nobody
SPECIFICATION StreamingSpec
INVARIANTS MaintenanceExclusive WireOrder
PROPERTIES PauseEnds ProducerIsHeard ListenersServed
