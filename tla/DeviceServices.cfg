CONSTANTS
  AdminKeys = {k1, k2}
  NoKey = NoKey
  MaxNonces = 2
  NonceTtl = 1
  MaxMinted = 3
  MaxCount = 2
  MaxNow = 1
  FrameBytes = 3
  PacketFrames = 2
  Buffered = 2
  FramesPerTick = 1
  Waits = {0, 1, 3}
  MaxElapsed = 6
  MaxLost = 3
  Capacity = 13
  KeptCapacity = 9
  MaxLine = 2
  Lengths = {0, 1, 2}
  NoBuffer = NoBuffer
  MaxMade = 7
  BufferBytes = 3
  ChunkBytes = 4
  PartitionBytes = 8
  DumpSizes = {0, 1, 6, 7, 8}
  Headers = {0, 1}
  Targeted = TRUE
  Chunks = 2
  MaxRedirects = 2
  ChunkDepth = 2
  ChunkCount = 2
  BatchPackets = 2
  MaxIntervals = 6
  MaxLostAtOnce = 2
  MaxVersion = 4
  Unset = unset
  Corrupt = corrupt
SPECIFICATION ServicesSpec
INVARIANTS AccessKept TimeKept BodyIsTheDump StartsWhole NoteIsEvidence 
PROPERTIES LogKept ImplementsDurable
CHECK_DEADLOCK FALSE
