------------------------- MODULE MCPaymentAuthorizer -------------------------
(* Instances of PaymentAuthorizer: all requests carry the proof of one     *)
(* payment, as replays of one proof do.  Requests are interchangeable.     *)
EXTENDS PaymentAuthorizer, TLC

CONSTANT payment

MCPayments == {payment}
MCPaymentOf == [r \in Requests |-> payment]
MCReferenceOf == [p \in Payments |-> "block"]
InterchangeableRequests == Permutations(Requests)
=============================================================================
