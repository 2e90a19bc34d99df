SPECIFICATION FairSpec
CONSTANTS
  Tail = 2
  Debounce = 1
  Modes = {0, 2, 3}
INVARIANTS
  TypeOK
  BelievedIsRecorded
  TypeIsAsBelieved
PROPERTIES
  TailIsWhole
  WantedIsRecorded
  UnwantedIsStopped
