-------------------------- MODULE MCPaymentExchange --------------------------
(* An instance of PaymentExchange: requests of one client for one payment. *)
EXTENDS PaymentExchange

MCPayments == {Paid}
MCPaymentOf == [r \in Requests |-> Paid]
MCReferenceOf == [p \in Payments |-> "block"]

(* Replicas are alike: which of them serves the first request is no        *)
(* question.                                                               *)
MCInit ==
  /\ ExchangeInit
  /\ at[CHOOSE r \in Requests : TRUE] = CHOOSE s \in Replicas : TRUE

MCSpec ==
  /\ MCInit
  /\ [][ExchangeNext]_exchangeVars
  /\ WF_exchangeVars(ClientActs)
  /\ WF_exchangeVars(RouteActs)
  /\ WF_exchangeVars(NetworkActs)
=============================================================================
