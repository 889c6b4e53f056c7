SPECIFICATION Spec
SYMMETRY InterchangeableRequests
INVARIANTS
  ObservationIsRecent
  ConfirmedOnStableChain
CONSTANTS
  Payments <- MCPayments
  PaymentOf <- MCPaymentOf
  ReferenceOf <- MCReferenceOf
  Requests = {r1, r2}
  Replicas = {s1}
  None = None
  payment = payment
  MaxHeight = 4
  MaxReorgs = 1
  Confirmations = 2
  WindowMode = FALSE
  Consumer = "None"
  HasRecovery = TRUE
  ProviderFails = TRUE
  MaxCrashes = 0
CHECK_DEADLOCK FALSE
