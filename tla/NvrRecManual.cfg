SPECIFICATION Spec
CONSTANTS
  Tail = 2
  Debounce = 1
  Modes = {0, 1, 2, 3}
PROPERTIES
  ManualIsManual
