SPECIFICATION Spec
CONSTANTS
  N = 8
  Lens = {1, 2}
  Video = TRUE
  Types = {"I", "P"}
  PtsSteps = {1}
  Readers = {r1}
  MaxDelay = 2
  AheadLimit = 3
  FirstGap = 1
  BufInit = 1
  MaxWrites = 6
  MaxResets = 1
  MaxFaults = 1
INVARIANTS
  TypeOK
  FramesAreChained
  OldestIsFrame
  RefreshTerminates
PROPERTIES
  DeliveredIntact
  ReadsGoForward
  NoPAfterGap
  MissedOnlyIfLate
