--------------------------- MODULE PaymentExchange ---------------------------
(***************************************************************************)
(* One paid exchange from end to end: the client from the receipt of its   *)
(* payment on (src/src/client/fetch.ts, request.ts, resolution.ts), the    *)
(* network, the payable route (src/src/server/payable.ts) on replicas that *)
(* run PaymentAuthorizer with Once and a recovery hook over a durable      *)
(* store, and the chain.                                                   *)
(*                                                                         *)
(* The requests of PaymentAuthorizer are here what the client sends: each  *)
(* carries the proof of its one payment.  Any of them may be delayed until *)
(* after the client gave up on it.  A request whose answer arrived and     *)
(* left no claim is used again, so that retries are not bounded.           *)
(***************************************************************************)
EXTENDS PaymentAuthorizer

CONSTANTS
  Paid,      \* the payment of this exchange
  MaxFaults  \* bound on failures of provider, connections and replicas

ASSUME ExchangeAssumption ==
  Payments = {Paid} /\ Consumer = "Once" /\ HasRecovery /\ ~WindowMode

VARIABLES
  onRejected,  \* what becomes of a rejected response: the option of fetch, or
               \* "return" where d402Fetch or retry was called
  client,      \* what the client does
  asking,      \* the request whose answer it waits for, or None
  wire,        \* requests sent and not arrived yet
  expired,     \* whether the terms of the payment have expired
  judged,      \* the request whose answer fetch judged last, or None
  contested,   \* whether the client disputed the payment or had it refunded
  handler,     \* handler[r]: the protected handler of r
  stored,      \* whether the durable result of the payment exists
  lateArrival, \* history: requests that arrived once it did
  faults       \* failures so far, counted for the bound

clientVars == <<onRejected, client, asking, judged, contested>>
routeVars == <<handler, stored, lateArrival>>
exchangeVars == <<vars, clientVars, wire, expired, routeVars, faults>>

Finished == {"served", "unserved"}

ExchangeInit ==
  /\ Init
  /\ onRejected \in {"keep-open", "dispute", "request-refund", "return"}
  /\ client = "paying"
  /\ asking = None
  /\ judged = None
  /\ wire = {}
  /\ expired = FALSE
  /\ contested = FALSE
  /\ handler = [r \in Requests |-> "idle"]
  /\ stored = FALSE
  /\ lateArrival = {}
  /\ faults = 0

Fault == faults < MaxFaults /\ faults' = faults + 1

-----------------------------------------------------------------------------
(* The first paid request goes out when the creation has its receipt; it   *)
(* does not look at the time again.  client.retry refuses expired terms.   *)
MaySend ==
  \/ client = "paying" /\ creation[Paid] # 0
  \/ client = "holding" /\ ~expired

(* A request not used yet, or one that ended and left nothing behind.      *)
Unused(r) == pc[r] = "new" /\ r \notin wire
Spent(r) ==
  /\ pc[r] \in Ended \ {"authorized"}
  /\ claim[r] \in {"none", "reverted"}
  /\ ~\E t \in Rivals(r) : pc[t] = "state" /\ awaits[t] = r

SendProof(r) ==
  /\ MaySend
  /\ Unused(r) \/ Spent(r)
  /\ client' = "waiting"
  /\ onRejected' = IF client = "holding" THEN "return" ELSE onRejected
  /\ asking' = r
  /\ wire' = wire \cup {r}
  /\ Goto(r, "new")
  /\ receiptBlock' = [receiptBlock EXCEPT ![r] = 0]
  /\ awaits' = [awaits EXCEPT ![r] = None]
  /\ stateRead' = [stateRead EXCEPT ![r] = "none"]
  /\ claim' = [claim EXCEPT ![r] = "none"]
  /\ deepWhenChecked' = [deepWhenChecked EXCEPT ![r] = FALSE]
  /\ acceptableSince' = [acceptableSince EXCEPT ![r] = FALSE]
  /\ lateArrival' = lateArrival \ {r}
  /\ UNCHANGED <<height, creation, state, stateBefore, consumedBy, reorgs, referenceVars, proof,
                 at, inFlight, queue, crashes, judged, contested, expired, handler, stored, faults>>

RetryRefused ==
  /\ client = "holding"
  /\ expired
  /\ client' = "unserved"
  /\ UNCHANGED <<vars, onRejected, asking, judged, contested, wire, expired, routeVars, faults>>

Expire ==
  /\ ~expired
  /\ expired' = TRUE
  /\ UNCHANGED <<vars, clientVars, wire, routeVars, faults>>

-----------------------------------------------------------------------------
(* The request reaches a replica.                                          *)
Arrives(r) ==
  /\ r \in wire
  /\ Arrive(r)
  /\ proof'[r] = "good"
  /\ wire' = wire \ {r}
  /\ lateArrival' = IF stored THEN lateArrival \cup {r} ELSE lateArrival
  /\ UNCHANGED <<clientVars, expired, handler, stored, faults>>

(* Steps of authorize in which the provider fails, told by what they do.   *)
ProviderFailed(r) ==
  \/ stateRead[r] = "asked" /\ stateRead'[r] = "failed"
  \/ pc[r] # "state" /\ pc'[r] = "unavailable"
  \/ pc[r] # "mined" /\ pc'[r] = "threw"
  \/ pc[r] = "mined" /\ pc'[r] = "threw" /\ claim[r] # "reverted"

(* The hook looks the payment up in the store.                             *)
FindsWhileAcceptable == stored /\ state[Paid] \in Acceptable
FindsResult == stored

Authorize(r) ==
  /\ Serve(r)
  /\ pc[r] = "recovery" => (pc'[r] = "recovered" <=> FindsResult)
  /\ faults' = IF ProviderFailed(r) THEN faults + 1 ELSE faults
  /\ faults' <= MaxFaults
  /\ UNCHANGED <<clientVars, wire, expired, routeVars>>

(* The handler works, stores the result under the payment and answers with *)
(* success; or it throws or answers otherwise, before it stored or after.  *)
Handle(r) ==
  /\ pc[r] = "authorized"
  /\ handler[r] = "idle"
  /\ \E works \in BOOLEAN, outcome \in {"done", "failed"} :
       /\ outcome = "done" => works
       /\ handler' = [handler EXCEPT ![r] = outcome]
       /\ stored' = (stored \/ works)
       /\ IF works THEN UNCHANGED faults ELSE Fault
  /\ UNCHANGED <<vars, clientVars, wire, expired, lateArrival>>

(* A replica stops, with the handlers that run on it.                      *)
ReplicaStops(s) ==
  LET running == {r \in Requests : at[r] = s /\ pc[r] = "authorized" /\ handler[r] = "idle"} IN
  /\ Fault
  /\ Crash(s)
  /\ handler' = [r \in Requests |-> IF r \in running THEN "lost" ELSE handler[r]]
  /\ UNCHANGED <<clientVars, wire, expired, stored, lateArrival>>

-----------------------------------------------------------------------------
(* The answer of the route.  What authorize or the handler throws becomes  *)
(* a 500.                                                                  *)
Handled(r) == handler[r] \in {"done", "failed"}
Succeeded(r) == pc[r] = "recovered" \/ handler[r] = "done"
HasAnswer(r) ==
  pc[r] \in {"recovered", "refused", "early", "unavailable", "threw"} \/ Handled(r)

(* d402Fetch and retry return the response, and the application retries    *)
(* unless it is served or 422 ends the matter.                             *)
RetriesTransient(answer) == IF answer = "early" THEN "holding" ELSE "unserved"
AfterFailure(answer) == IF answer = "refused" THEN "unserved" ELSE "holding"

(* fetch hands any response to onResponse.validate, which accepts it,      *)
(* rejects it or throws: then D402PaymentError hands the attempt out.      *)
OnRejection == IF onRejected = "keep-open" THEN "unserved" ELSE "contesting"
AfterAnswer(r) ==
  IF onRejected = "return"
    THEN {IF Succeeded(r) THEN "served" ELSE AfterFailure(pc[r])}
    ELSE {IF Succeeded(r) THEN "served" ELSE "unserved", OnRejection, "holding"}

Receives(r) ==
  /\ client = "waiting"
  /\ asking = r
  /\ HasAnswer(r)
  /\ asking' = None
  /\ judged' = IF onRejected = "return" THEN judged ELSE r
  /\ client' \in AfterAnswer(r)
  /\ UNCHANGED <<vars, onRejected, contested, wire, expired, routeVars, faults>>

(* No response: D402PaymentError hands the attempt to the application.     *)
ActsWithoutResponse == IF onRejected = "return" THEN "holding" ELSE OnRejection
WithoutResponse == "holding"

Breaks ==
  /\ client = "waiting"
  /\ IF pc[asking] = "lost" \/ handler[asking] = "lost" THEN UNCHANGED faults ELSE Fault
  /\ asking' = None
  /\ client' = WithoutResponse
  /\ UNCHANGED <<vars, onRejected, judged, contested, wire, expired, routeVars>>

(* resolvePaymentAfterAcceptance disputes the payment or has it refunded   *)
(* (see D402Client and Refunder for the steps of either).  It fails with   *)
(* D402PaymentError if the payment is not funded, if the provider or the   *)
(* refund route fails, or after the action if its answer is lost.          *)
ContestedState == IF onRejected = "dispute" THEN "disputed" ELSE "resolved"

Contest ==
  /\ client = "contesting"
  /\ client' \in {"unserved", "holding"}
  /\ \/ /\ state[Paid] = "funded"
        /\ state' = [state EXCEPT ![Paid] = ContestedState]
        /\ contested' = TRUE
        /\ IF client' = "unserved" THEN UNCHANGED faults ELSE Fault
     \/ /\ client' = "holding"
        /\ IF state[Paid] # "funded" THEN UNCHANGED faults ELSE Fault
        /\ UNCHANGED <<state, contested>>
  /\ UNCHANGED <<height, creation, stateBefore, claim, consumedBy, reorgs>>
  /\ ChainMoves
  /\ UNCHANGED <<onRejected, asking, judged, wire, expired, routeVars>>

(* The chain: the client's payment is created at once, others move it.     *)
Grows == NewBlock /\ creation'[Paid] # 0
ChainSteps ==
  /\ Grows \/ (\E r \in Requests : MineClaim(r)) \/ PaymentMoves(Paid)
  /\ ChainMoves
  /\ UNCHANGED <<clientVars, wire, expired, routeVars, faults>>

-----------------------------------------------------------------------------
ClientActs ==
  (\E r \in Requests : SendProof(r) \/ Receives(r)) \/ RetryRefused \/ Breaks \/ Contest
RouteActs == \E r \in Requests : Arrives(r) \/ Authorize(r) \/ Handle(r)

ExchangeNext ==
  \/ ClientActs
  \/ RouteActs
  \/ \E s \in Replicas : ReplicaStops(s)
  \/ ChainSteps
  \/ Expire

(* The application retries as long as it is told it may, replicas run what *)
(* is ready, requests arrive, and the network makes blocks and mines what  *)
(* it took.  Nothing has to fail, expire or move the payment.              *)
NetworkActs == ChainSteps /\ (Grows \/ \E r \in Requests : MineClaim(r))

ExchangeSpec ==
  /\ ExchangeInit
  /\ [][ExchangeNext]_exchangeVars
  /\ WF_exchangeVars(ClientActs)
  /\ WF_exchangeVars(RouteActs)
  /\ WF_exchangeVars(NetworkActs)

-----------------------------------------------------------------------------
(* Work that is done is delivered: a request that arrives after the result *)
(* was stored is never refused, never consumes or starts work anew and     *)
(* never fails on the way of observation or consumption, whatever became   *)
(* of the payment (docs/advanced.md: "Those states prevent new work; they  *)
(* do not erase a result that was already produced").                      *)
StoredWorkIsDelivered ==
  \A r \in lateArrival :
    pc[r] \in {"new", "chain", "receipt", "head", "recovery", "recovered",
               "early", "unavailable", "lost"}

(* No work is contested unseen: if the payment was disputed or refunded at *)
(* the request of fetch and a handler worked for it, before or after, then *)
(* fetch had that handler's own answer to judge, and not a lost connection *)
(* behind which the handler still works; unless the application sent the   *)
(* proof once more.                                                        *)
ContestedWorkWasJudged ==
  contested /\ stored /\ onRejected # "return" => judged # None /\ Handled(judged)

(* A client that keeps retrying loses a payment only if its terms expired, *)
(* somebody moved the payment, or something failed while its own claim of  *)
(* it was on the way (docs/comparisons.md: "Temporary failures can be      *)
(* retried with the same payment").  fetch does not hand the attempt out.  *)
UnservedOnlyForCause ==
  client = "unserved" /\ onRejected = "return" =>
    \/ expired
    \/ state[Paid] \notin Acceptable
    \/ faults > 0 /\ \E r \in Requests : claim[r] # "none"

(* Every exchange comes to an end, however often the client has to retry.  *)
EveryExchangeEnds == <>[](client \in Finished)
=============================================================================
