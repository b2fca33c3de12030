SPECIFICATION Spec
CONSTANTS
  Buttons = {a, b}
  ButtonA = a
  ButtonB = b
  Commands <- MCCommands
  Seconds <- MCSeconds
  MaxRecords = 1
  APressGap = 1
  MaxOverrun = 1
  MaxClockBack = 0
INVARIANTS
  TypeOK
  LogsFollowState
  PairsWhole
PROPERTIES
  AutomationHoldsNoKey
  ImplementsRecording
