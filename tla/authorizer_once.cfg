SPECIFICATION FairSpec
INVARIANTS
  TypeOK
  AtMostOnce
  RefusalLeavesNoClaim
PROPERTIES
  ImplementsClaimProtocol
  EveryRequestEnds
CONSTANTS
  Payments <- MCPayments
  PaymentOf <- MCPaymentOf
  ReferenceOf <- MCReferenceOf
  Requests = {r1, r2}
  Replicas = {s1, s2}
  None = None
  payment = payment
  MaxHeight = 2
  MaxReorgs = 0
  Confirmations = 1
  WindowMode = FALSE
  Consumer = "Once"
  HasRecovery = TRUE
  ProviderFails = TRUE
  MaxCrashes = 1
CHECK_DEADLOCK FALSE
