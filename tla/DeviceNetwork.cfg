CONSTANTS
  ConnectAttempts = 2
  RejoinDelay = 1
  RejoinInterval = 2
  AutoDelay = 1
  AutoRetry = 1
  Daily = 2
  Weekly = 3
  Passwords = {p1, p2}
  Absent = Absent
  Garbled = Garbled
  Levels = {0, 1, 2, 3, 8}
  Music = 8
  StartMin = 3
  StopMin = 2
  StartAfter = 3
  StopAfter = 6
  Discharge = 2
  Warmup = 5
SPECIFICATION NetworkSpec
INVARIANTS LabelStaysTrue RelearnIsSeamless
PROPERTIES UpdatesSpaced RejoinsHome NoisyIdleStops
