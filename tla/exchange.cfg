SPECIFICATION MCSpec
INVARIANTS
  StoredWorkIsDelivered
  ContestedWorkWasJudged
  UnservedOnlyForCause
PROPERTY EveryExchangeEnds
CONSTANTS
  Paid = Paid
  Payments <- MCPayments
  PaymentOf <- MCPaymentOf
  ReferenceOf <- MCReferenceOf
  Requests = {r1, r2}
  Replicas = {s1, s2}
  None = None
  MaxHeight = 4
  MaxReorgs = 0
  Confirmations = 2
  WindowMode = FALSE
  Consumer = "Once"
  HasRecovery = TRUE
  ProviderFails = TRUE
  MaxCrashes = 1
  MaxFaults = 1
CHECK_DEADLOCK FALSE
