SPECIFICATION Spec
INVARIANTS
  HonestPaymentPasses
  AcceptedTimingIsBound
CONSTANTS
  Windows <- MCWindows
  Fixed = {1}
  Expiries = {2}
  Absent = Absent
  MaxTime = 2
  MaxReorgs = 1
CHECK_DEADLOCK FALSE
