SPECIFICATION MCFairSpec
INVARIANTS
  TypeOK
  ResultsAreExclusive
  ContractErrorsLeaveNothing
  RefusalsAreFinal
  ThrowsOnlyForCause
PROPERTIES
  ImplementsClaimProtocol
  EveryCallEnds
CONSTANTS
  first = first
  second = second
  worker = worker
  refunds = refunds
  actions = actions
  payment1 = payment1
  None = None
  Party = Party
  Jobs <- MCJobs
  Requests <- MCRequests
  Worker <- MCWorker
  Instances <- MCInstances
  InstanceOf <- MCInstanceOf
  Payments <- MCPayments
  PaymentOf <- MCPaymentOf
  MaxFaults = 1
CHECK_DEADLOCK FALSE
