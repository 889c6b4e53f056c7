---------------------------- MODULE ClaimProtocol ----------------------------
(***************************************************************************)
(* What a route with the Once consumer promises, and what the refunder     *)
(* promises, without replicas, queues, providers or transactions: each     *)
(* payment has at most one holder, for good; only its holder is admitted   *)
(* (to the protected handler, to a refund); whoever is refused holds       *)
(* nothing.  A request may also end without an answer (thrown error,       *)
(* crash), holder or not.                                                  *)
(***************************************************************************)
CONSTANTS Requests, Payments, PaymentOf, None

VARIABLES holder,  \* holder[p]: the request that holds payment p, or None
          fate     \* fate[r]: "open", "admitted", "refused" or "dropped"

claimVars == <<holder, fate>>

Init ==
  /\ holder = [p \in Payments |-> None]
  /\ fate = [r \in Requests |-> "open"]

Take(r) ==
  /\ fate[r] \in {"open", "dropped"}
  /\ holder[PaymentOf[r]] = None
  /\ holder' = [holder EXCEPT ![PaymentOf[r]] = r]
  /\ UNCHANGED fate

Close(r, outcome) ==
  /\ fate[r] = "open"
  /\ fate' = [fate EXCEPT ![r] = outcome]
  /\ UNCHANGED holder

Admit(r) == holder[PaymentOf[r]] = r /\ Close(r, "admitted")
Refuse(r) == holder[PaymentOf[r]] # r /\ Close(r, "refused")
Drop(dropped) ==
  /\ \A r \in dropped : fate[r] = "open"
  /\ fate' = [r \in Requests |-> IF r \in dropped THEN "dropped" ELSE fate[r]]
  /\ UNCHANGED holder

Next ==
  \/ \E r \in Requests : Take(r) \/ Admit(r) \/ Refuse(r)
  \/ \E dropped \in SUBSET Requests : Drop(dropped)

Spec == Init /\ [][Next]_claimVars
=============================================================================
