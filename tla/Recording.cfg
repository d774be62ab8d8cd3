CONSTANTS
  QueueChunks = 2
  MaxGap = 1
  MaxLength = 2
  SeqMod = 8
  StartSeq = 6
  MaxTime = 3
  Silence = silence
  Nothing = nothing
  MaxFrames = 2
  MaxCrashes = 3
  None = none
SPECIFICATION RecordingSpec
INVARIANTS  WavPlayable ListingTells
CHECK_DEADLOCK FALSE
PROPERTIES SessionEnds
