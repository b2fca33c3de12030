SPECIFICATION Spec
CONSTANTS
  NAllies = 2
  NElements = 2
  NDjinn = 2
  MaxQueue = 2
  Places = 2
  Printed = 2
  Undisturbed = TRUE
  QueueEmpty = FALSE
PROPERTIES
  StatusTellsSet
