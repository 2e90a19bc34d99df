SPECIFICATION Spec
CONSTANTS
  Frags = 2
  Slots = 4
  Shared = 2
  Span = 2
  MaxUse = 2
  MaxGop = 4
  MaxCrash = 2
  Nothing = Nothing
  Lost = Lost
  None = None
PROPERTIES
  OnlyLastGop
CHECK_DEADLOCK FALSE
