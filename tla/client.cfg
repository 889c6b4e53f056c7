SPECIFICATION FairSpec
INVARIANTS
  TypeOK
  PresentsOnlyOwnPayments
  FailsOnlyForCause
  ReturnsOnceResolved
PROPERTIES
  EveryCallEnds
CONSTANTS
  first = first
  second = second
  order = order
  report = report
  None = None
  Calls <- MCCalls
  Payments <- MCPayments
  HasPolicy = TRUE
  MaxCalls = 1
  MaxFaults = 1
CHECK_DEADLOCK FALSE
