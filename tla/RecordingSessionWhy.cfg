CONSTANTS
  QueueChunks = 1
  MaxGap = 1
  MaxLength = 2
  SeqMod = 8
  StartSeq = 6
  MaxTime = 2
  Silence = silence
  Nothing = nothing
SPECIFICATION SessionSpec
PROPERTY StatesWhy
CHECK_DEADLOCK FALSE
