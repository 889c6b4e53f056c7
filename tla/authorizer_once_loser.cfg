SPECIFICATION Spec
INVARIANTS
  LoserIsRefused
CONSTANTS
  Payments <- MCPayments
  PaymentOf <- MCPaymentOf
  ReferenceOf <- MCReferenceOf
  Requests = {r1, r2}
  Replicas = {s1, s2}
  None = None
  payment = payment
  MaxHeight = 2
  MaxReorgs = 0
  Confirmations = 1
  WindowMode = FALSE
  Consumer = "Once"
  HasRecovery = FALSE
  ProviderFails = FALSE
  MaxCrashes = 0
CHECK_DEADLOCK FALSE
