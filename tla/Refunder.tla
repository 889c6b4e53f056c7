------------------------------ MODULE Refunder ------------------------------
(***************************************************************************)
(* refunder (src/src/server/refunder.ts): the handler of refund requests,  *)
(* with paymentActions of its own, next to a worker of the same process    *)
(* that settles, consumes, refunds, submits evidence and appeals through   *)
(* another instance and the same wallet.                                   *)
(*                                                                         *)
(* A request is also the job it calls: refundPayment of the payment it     *)
(* names.  Each await of the handler is a value of pc; a request that is   *)
(* answered ends with its HTTP status.                                     *)
(***************************************************************************)
EXTENDS PaymentActions, FiniteSets

CONSTANTS
  Requests,  \* refund requests
  Worker     \* jobs of the application's worker

ASSUME RequestsAssumption == Jobs = Requests \cup Worker /\ Requests \cap Worker = {}

VARIABLES
  pc,             \* what each request waits for, or how it ended
  signer,         \* the promise of the signer's address
  signerIsPayee,  \* whether the wallet is the payee of the payments
  awaits,         \* the request whose state read it waits for
  stateRead,      \* stateRead[r]: the state read r started
  inFlight,       \* inFlight[p]: the request reading p's state, or None
  behind,         \* behind[p]: the state of p that nodes which lag report
  fundedAtStart   \* history: when the request arrived a node still reported the
                  \* payment funded, or had to the read in flight

readVars == <<awaits, stateRead, inFlight>>
lagVars == <<behind, fundedAtStart>>
vars == <<actionVars, pc, signer, signerIsPayee, readVars, lagVars>>

Waiting == {"signer", "observer", "state", "policy", "refund"}
(* "unproven" stands for 400, 422 and 425.                                 *)
Refusals == {"unproven", "403", "409", "503"}
Ended == Refusals \cup {"200", "threw", "lost"}
ReadDone == {"failed"} \cup PaymentStates

Init ==
  /\ ActionsInit
  /\ pc = [r \in Requests |-> "new"]
  /\ signer = "asked"
  /\ signerIsPayee \in BOOLEAN
  /\ awaits = [r \in Requests |-> None]
  /\ stateRead = [r \in Requests |-> "none"]
  /\ inFlight = [p \in Payments |-> None]
  /\ behind = payment
  /\ fundedAtStart = [r \in Requests |-> FALSE]

Goto(r, where) == pc' = [pc EXCEPT ![r] = where]

StepOnly(r, where) ==
  /\ Goto(r, where)
  /\ UNCHANGED <<actionVars, signer, signerIsPayee, readVars, lagVars>>

-----------------------------------------------------------------------------
(* What a node that answers may report: a refund or settlement just mined  *)
(* is not known everywhere.                                                *)
StateSeen(p) == {payment[p], behind[p]}

FundedToday(r) ==
  LET reading == inFlight[PaymentOf[r]] IN
  "funded" \in StateSeen(PaymentOf[r]) \/ (reading # None /\ fundedAtStart[reading])

(* Content type, body and salt are checked and the authenticator looks for *)
(* the creation of the payment (see PaymentAuthorizer); what it reads does *)
(* not depend on what became of the payment since.                         *)
Arrive(r) ==
  /\ pc[r] = "new"
  /\ \/ \E next \in {"unproven", "signer"} : Goto(r, next) /\ UNCHANGED faults
     \/ Fault /\ Goto(r, "503")
  /\ fundedAtStart' = [fundedAtStart EXCEPT ![r] = FundedToday(r)]
  /\ UNCHANGED <<jobVars, pool, status, contractVars, signer, signerIsPayee, readVars, behind>>

(* txSender.getAddress() is called once, at construction; every request    *)
(* awaits that one promise.                                                *)
SignerAnswers ==
  /\ signer = "asked"
  /\ \/ signer' = "known" /\ UNCHANGED faults
     \/ Fault /\ signer' = "failed"
  /\ UNCHANGED <<jobVars, pool, status, contractVars, pc, signerIsPayee, readVars, lagVars>>

CheckSigner(r) ==
  /\ pc[r] = "signer"
  /\ signer # "asked"
  /\ StepOnly(r, IF signer = "failed" THEN "threw"
                 ELSE IF signerIsPayee THEN "observer" ELSE "403")

-----------------------------------------------------------------------------
(* The observer of this handler: getReader() outside any try block, then   *)
(* the read in flight for the payment or one of its own.                   *)
Observe(r) ==
  LET reading == inFlight[PaymentOf[r]] IN
  /\ pc[r] = "observer"
  /\ Goto(r, "state")
  /\ IF reading # None
       THEN /\ awaits' = [awaits EXCEPT ![r] = reading]
            /\ UNCHANGED <<stateRead, inFlight>>
       ELSE /\ awaits' = [awaits EXCEPT ![r] = r]
            /\ stateRead' = [stateRead EXCEPT ![r] = "asked"]
            /\ inFlight' = [inFlight EXCEPT ![PaymentOf[r]] = r]
  /\ UNCHANGED <<actionVars, signer, signerIsPayee, lagVars>>

ReaderFails(r) ==
  /\ pc[r] = "observer"
  /\ Fault
  /\ Goto(r, "threw")
  /\ UNCHANGED <<jobVars, pool, status, contractVars, signer, signerIsPayee, readVars, lagVars>>

EvaluateState(r) ==
  /\ stateRead[r] = "asked"
  /\ \/ /\ \E reported \in StateSeen(PaymentOf[r]) : stateRead' = [stateRead EXCEPT ![r] = reported]
        /\ UNCHANGED faults
     \/ Fault /\ stateRead' = [stateRead EXCEPT ![r] = "failed"]
  /\ UNCHANGED <<jobVars, pool, status, contractVars, pc, signer, signerIsPayee, awaits,
                 inFlight, lagVars>>

StateAnswered(r) ==
  /\ stateRead[r] \in ReadDone
  /\ inFlight[PaymentOf[r]] = r
  /\ inFlight' = [inFlight EXCEPT ![PaymentOf[r]] = None]
  /\ UNCHANGED <<actionVars, pc, signer, signerIsPayee, awaits, stateRead, lagVars>>

(* FundedPayment, which no route configuration replaces.                   *)
FundedOrSettled(state) == state \in {"funded", "settled"}
Refundable(state) == state = "funded"

PassesFailureOn == "failed"
OnFailedRead == "503"

(* The promise of a read goes when nobody waits for it any more.           *)
Verify(r) ==
  LET result == stateRead[awaits[r]] IN
  /\ pc[r] = "state"
  /\ result \in ReadDone
  /\ inFlight[PaymentOf[r]] # awaits[r]
  /\ Goto(r, IF result = "failed" THEN OnFailedRead
             ELSE IF Refundable(result) THEN "policy" ELSE "409")
  /\ stateRead' = IF \E t \in Requests \ {r} : pc[t] = "state" /\ awaits[t] = awaits[r]
                    THEN stateRead ELSE [stateRead EXCEPT ![awaits[r]] = "none"]
  /\ UNCHANGED <<actionVars, signer, signerIsPayee, awaits, inFlight, lagVars>>

(* The application's RefundPolicy refuses, or refundPayment is called.     *)
ApplyPolicy(r) ==
  /\ pc[r] = "policy"
  /\ \/ StepOnly(r, "403")
     \/ /\ Begin(r, "refund")
        /\ Goto(r, "refund")
        /\ UNCHANGED <<signer, signerIsPayee, readVars, lagVars>>

Refund(r) ==
  /\ Work(r)
  /\ UNCHANGED <<pc, signer, signerIsPayee, readVars, lagVars>>

(* Whatever refundPayment throws, the handler throws on.                   *)
AnswersConflict(named) == IF named = "contract" THEN "409" ELSE "503"
ThrowsOn(named) == "threw"

Answer(r) ==
  /\ pc[r] = "refund"
  /\ step[r] \in {"confirmed", "failed"}
  /\ StepOnly(r, IF step[r] = "confirmed" THEN "200" ELSE ThrowsOn(error[r]))

-----------------------------------------------------------------------------
(* The application's worker calls the actions as it likes.                 *)
RunWorker(j) ==
  /\ \/ \E op \in Operations : Begin(j, op)
     \/ Work(j)
  /\ UNCHANGED <<pc, signer, signerIsPayee, readVars, lagVars>>

(* The process stops and starts again: the address is asked for anew.      *)
Restart ==
  /\ ProcessStops
  /\ pc' = [r \in Requests |-> IF pc[r] \in Waiting THEN "lost" ELSE pc[r]]
  /\ signer' = "asked"
  /\ stateRead' = [r \in Requests |-> "none"]
  /\ inFlight' = [p \in Payments |-> None]
  /\ UNCHANGED <<signerIsPayee, awaits, lagVars>>

Outside ==
  /\ Mine \/ \E p \in Payments : PartyMoves(p)
  /\ UNCHANGED <<pc, signer, signerIsPayee, readVars, lagVars>>

NodesCatchUp(p) ==
  /\ behind' = [behind EXCEPT ![p] = payment[p]]
  /\ UNCHANGED <<actionVars, pc, signer, signerIsPayee, readVars, fundedAtStart>>

Serve(r) ==
  \/ CheckSigner(r) \/ Observe(r) \/ ReaderFails(r) \/ EvaluateState(r) \/ StateAnswered(r) \/ Verify(r)
  \/ ApplyPolicy(r) \/ Refund(r) \/ Answer(r)

Next ==
  \/ \E r \in Requests : Arrive(r) \/ Serve(r)
  \/ \E j \in Worker : RunWorker(j)
  \/ SignerAnswers
  \/ Restart
  \/ Outside
  \/ \E p \in Payments : NodesCatchUp(p)

(* Something that can run does: the process runs what is ready, node and   *)
(* signer answer or fail every call, and the network mines what it         *)
(* accepted.  Nobody has to request a refund, call an action, settle or    *)
(* rule.                                                                   *)
WorkerProceeds(j) == step[j] # "idle" /\ RunWorker(j)
NetworkMines == Mine /\ Outside
Runs ==
  \/ \E r \in Requests : Serve(r)
  \/ \E j \in Worker : WorkerProceeds(j)
  \/ SignerAnswers
  \/ NetworkMines

Spec == Init /\ [][Next]_vars
FairSpec == Spec /\ WF_vars(Runs)

-----------------------------------------------------------------------------
TypeOK ==
  /\ ActionsTypeOK
  /\ pc \in [Requests -> {"new"} \cup Waiting \cup Ended]
  /\ signer \in {"asked", "known", "failed"}
  /\ signerIsPayee \in BOOLEAN
  /\ awaits \in [Requests -> Requests \cup {None}]
  /\ stateRead \in [Requests -> {"none", "asked"} \cup ReadDone]
  /\ inFlight \in [Payments -> Requests \cup {None}]
  /\ behind \in [Payments -> PaymentStates]
  /\ fundedAtStart \in [Requests -> BOOLEAN]

(* The status a client gets can be relied on (docs/refunds.md, "Failures   *)
(* and concurrency"): 409 only when the payment can never be refunded      *)
(* again, and no refusal while a refund of the request may still be mined. *)
RefusalsAreFinal ==
  \A r \in Requests : pc[r] \in Refusals =>
    /\ status[r] = "none"
    /\ pc[r] = "409" => payment[PaymentOf[r]] # "funded"

(* The handler throws only if the node, the signer or the process failed,  *)
(* or if somebody else took the payment, and then only just before: when   *)
(* the request arrived, a node still reported it funded, or had to the     *)
(* request whose read is shared.  Between that and the broadcast the other *)
(* had the time of the lag, the policy and the queue.                      *)
ThrowsOnlyForCause ==
  \A r \in Requests : pc[r] = "threw" /\ faults = 0 =>
    /\ leftBy[PaymentOf[r]] \notin {None, r} \/ \E j \in Rivals(r) : status[j] = "pool"
    /\ fundedAtStart[r]

(* Every refund request is answered or its caller sees an error, and every *)
(* action of the worker returns, whatever fails before them in the queue:  *)
(* in the end no call is underway.                                         *)
EveryCallEnds ==
  <>[](/\ \A r \in Requests : pc[r] \notin Waiting
       /\ \A j \in Jobs : step[j] \notin Underway)

(* The refunder implements the claim protocol: a refund is an exclusive    *)
(* claim of a payment, 200 is the answer of its holder alone, and whoever  *)
(* is refused never holds it.                                              *)
FateOf(where) ==
  CASE where = "200" -> "admitted"
    [] where \in Refusals -> "refused"
    [] where \in {"threw", "lost"} -> "dropped"
    [] OTHER -> "open"

holder == [p \in Payments |-> IF leftBy[p] \in Requests THEN leftBy[p] ELSE None]
fate == [r \in Requests |-> FateOf(pc[r])]

Claims == INSTANCE ClaimProtocol WITH holder <- holder, fate <- fate

ImplementsClaimProtocol == Claims!Spec
=============================================================================
