SPECIFICATION Spec
SYMMETRY InterchangeableRequests
INVARIANT RefusalIsJustified
CONSTANTS
  Payments <- MCPayments
  PaymentOf <- MCPaymentOf
  ReferenceOf <- MCReferenceOf
  Requests = {r1, r2}
  Replicas = {s1, s2}
  None = None
  payment = payment
  MaxHeight = 3
  MaxReorgs = 0
  Confirmations = 1
  WindowMode = TRUE
  Consumer = "Once"
  HasRecovery = TRUE
  ProviderFails = TRUE
  MaxCrashes = 1
CHECK_DEADLOCK FALSE
