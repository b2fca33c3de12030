SPECIFICATION Spec
CONSTANTS
  NAllies = 2
  NElements = 2
  Slot = 2
INVARIANTS
  TypeOK
  EachDjinnOnce
  ResultIsSharing
  SearchesSucceed
PROPERTIES
  Terminates
CHECK_DEADLOCK FALSE
