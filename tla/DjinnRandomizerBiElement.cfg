SPECIFICATION Spec
CONSTANTS
  NAllies = 1
  NElements = 3
  Slot = 3
INVARIANTS
  BiElement
CHECK_DEADLOCK FALSE
