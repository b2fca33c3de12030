SPECIFICATION Spec
CONSTANTS
  Desired = 3
  USECONDS = 16
  Retries = 3
  MaxWork = 4
  MaxLate = 1
  MaxStep = 2
INVARIANTS
  TimerTypeOK
  PeriodKept
  PeriodNotStretched
  WrapNeedsDelay
