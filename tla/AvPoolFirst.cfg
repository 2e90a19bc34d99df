SPECIFICATION Spec
CONSTANTS
  N = 7
  Lens = {1, 2}
  Video = FALSE
  Types = {"A"}
  PtsSteps = {1}
  Readers = {r1}
  MaxDelay = 2
  AheadLimit = 3
  FirstGap = 1
  BufInit = 1
  MaxWrites = 7
  MaxResets = 0
  MaxFaults = 0
PROPERTIES
  FirstReadIsNewest
