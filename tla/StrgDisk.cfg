SPECIFICATION LiveSpec
CONSTANTS
  Basket = {b1, b2}
  Chn = {c1, c2}
  Players = 2
  Units = 1
  None = None
INVARIANTS
  TypeOK
  EachBasketOnce
  ListsMatchUse
  UnsavedIsScanned
PROPERTIES
  PlayedIsKept
  WantedIsWritten
CHECK_DEADLOCK FALSE
