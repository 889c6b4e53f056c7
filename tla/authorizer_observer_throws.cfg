SPECIFICATION Spec
INVARIANTS
  VerificationFailureIsAnswered
CONSTANTS
  Payments <- MCPayments
  PaymentOf <- MCPaymentOf
  ReferenceOf <- MCReferenceOf
  Requests = {r1}
  Replicas = {s1}
  None = None
  payment = payment
  MaxHeight = 2
  MaxReorgs = 0
  Confirmations = 1
  WindowMode = FALSE
  Consumer = "None"
  HasRecovery = FALSE
  ProviderFails = TRUE
  MaxCrashes = 0
CHECK_DEADLOCK FALSE
