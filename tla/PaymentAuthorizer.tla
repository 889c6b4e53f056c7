-------------------------- MODULE PaymentAuthorizer --------------------------
(***************************************************************************)
(* PaymentAuthorizer.authorize (src/src/server/payment-authorizer.ts) on   *)
(* several replicas: parsing and challenge, the authenticator and the      *)
(* observer (payment-verifier.ts), the policy, and the consumer with the   *)
(* on-chain claim of Once (payment-consumer.ts, payment-actions.ts).       *)
(*                                                                         *)
(* Each await of the code is a value of pc, named for what the request     *)
(* waits for; between two of them other requests, other replicas and the   *)
(* chain move.  A node that answers may be a block behind.  A proof is one *)
(* of a few kinds, each failing at one check; an "altered-reference" names *)
(* the hash of the payment's reference block with another timestamp.       *)
(***************************************************************************)
EXTENDS DPaymentChain, Sequences, FiniteSets

CONSTANTS
  Replicas,       \* server processes with one configuration
  ReferenceOf,    \* the block the proofs of each payment name as reference
  Confirmations,  \* payment.confirmations
  WindowMode,     \* payment.settlementWindow is configured
  Consumer,       \* "None" or "Once"
  HasRecovery,    \* a recovery hook is configured
  ProviderFails,  \* whether calls of the provider may fail
  MaxCrashes      \* bound on crashes of replicas

ASSUME ConfirmationsAssumption == Confirmations \in Nat
ASSUME ModeAssumption == {WindowMode, HasRecovery, ProviderFails} \subseteq BOOLEAN
ASSUME ConsumerAssumption == Consumer \in {"None", "Once"}
(* A claim is final once the adapter reports its receipt.                  *)
ASSUME FinalityAssumption == Consumer = "Once" => MaxReorgs = 0

VARIABLES
  pc,            \* what each request waits for, or how it ended
  proof,         \* the kind of proof it carries
  at,            \* the replica that serves it
  lookup,        \* the request whose read of the reference block it waits for
  refRead,       \* refRead[r]: the reference read r started
  receiptBlock,  \* receipt.blockNumber, read once
  awaits,        \* the request whose state read it waits for
  stateRead,     \* stateRead[r]: the state read r started
  inFlight,      \* inFlight[s][p]: the request reading p's state on s, or None
  queue,         \* queue[s]: broadcasts of the replica's paymentActions
  crashes,       \* crashes so far, counted for the bound
  deepWhenChecked,  \* history: the payment was deep enough at the head read
  acceptableSince   \* history: the payment was acceptable when r arrived, or since

referenceVars == <<lookup, refRead>>
localVars == <<proof, at, receiptBlock, awaits>>
sharedVars == <<stateRead, inFlight, queue>>
historyVars == <<deepWhenChecked, acceptableSince>>
vars == <<chainVars, pc, referenceVars, localVars, sharedVars, crashes, historyVars>>

ProofKinds == {"absent", "malformed", "unreferenced", "wrong-salt",
               "altered-reference", "wrong-chain", "wrong-event",
               "late-reference", "good"}
Waiting == {"reference", "resolving", "chain", "receipt", "head", "settlement", "recovery",
            "observer", "state", "action", "queue", "send", "mined"}
Answered == {"challenged", "refused", "early", "unavailable", "recovered", "authorized"}
Ended == Answered \cup {"threw", "lost"}
Acceptable == {"funded", "settled"}
StateReads == {"none", "asked", "failed"} \cup PaymentStates
ReadDone == {"failed"} \cup PaymentStates
Verdicts == {"ok", "mismatch", "failed"}

Init ==
  /\ ChainInit
  /\ pc = [r \in Requests |-> "new"]
  /\ proof = [r \in Requests |-> "good"]
  /\ at \in [Requests -> Replicas]
  /\ lookup = [r \in Requests |-> None]
  /\ refRead = [r \in Requests |-> "none"]
  /\ receiptBlock = [r \in Requests |-> 0]
  /\ awaits = [r \in Requests |-> None]
  /\ stateRead = [r \in Requests |-> "none"]
  /\ inFlight = [s \in Replicas |-> [p \in Payments |-> None]]
  /\ queue = [s \in Replicas |-> <<>>]
  /\ crashes = 0
  /\ deepWhenChecked = [r \in Requests |-> FALSE]
  /\ acceptableSince = [r \in Requests |-> FALSE]

Goto(r, where) == pc' = [pc EXCEPT ![r] = where]

-----------------------------------------------------------------------------
(* The synchronous part of authorize: the proof header is parsed, terms    *)
(* are completed, the salt is checked.  Without a proof a challenge is     *)
(* built, in window mode from the latest block.                            *)
AfterArrival(kind) ==
  CASE kind = "absent" -> IF WindowMode THEN {"challenged", "unavailable"} ELSE {"challenged"}
    [] kind \in {"malformed", "wrong-salt"} -> {"refused"}
    [] kind = "unreferenced" /\ WindowMode -> {"refused"}
    [] OTHER -> {IF WindowMode THEN "reference" ELSE "chain"}

(* Acceptable as far as a node can tell, or as the request could tell      *)
(* whose read of the state is in flight.                                   *)
AcceptableNow(r) ==
  LET reader == inFlight[at[r]][PaymentOf[r]] IN
  \/ StateSeen(PaymentOf[r]) \cap Acceptable # {}
  \/ reader # None /\ acceptableSince[reader]

Arrive(r) ==
  /\ pc[r] = "new"
  /\ \E kind \in ProofKinds : \E next \in AfterArrival(kind) :
       /\ next = "unavailable" => ProviderFails
       /\ proof' = [proof EXCEPT ![r] = kind]
       /\ Goto(r, next)
  /\ acceptableSince' = [acceptableSince EXCEPT ![r] = AcceptableNow(r)]
  /\ UNCHANGED <<chainVars, referenceVars, at, receiptBlock, awaits, sharedVars, crashes,
                 deepWhenChecked>>

StepOnly(r, where) ==
  /\ Goto(r, where)
  /\ UNCHANGED <<chainVars, referenceVars, localVars, sharedVars, crashes, historyVars>>

-----------------------------------------------------------------------------
(* resolveSettlementReference with the cache of the replica (see           *)
(* BlockReferenceCache).  sameBlockReference of the block and the proof:   *)
MatchesBlock(r) == proof[r] # "altered-reference"

(* The block is in the cache, from a challenge or another proof.           *)
HitReference(r) ==
  /\ pc[r] = "reference"
  /\ StepOnly(r, IF MatchesBlock(r) THEN "chain" ELSE "refused")

(* It is not: the request joins the read of that hash in flight, whatever  *)
(* reference it was started for, or starts one.                            *)
ReferenceHash(r) == <<ReferenceOf[PaymentOf[r]], proof[r] = "late-reference">>
ReadersOfReference(r) ==
  {t \in Requests :
     refRead[t] = "asked" /\ at[t] = at[r] /\ ReferenceHash(t) = ReferenceHash(r)}

ReadReference(r) ==
  /\ pc[r] = "reference"
  /\ Goto(r, "resolving")
  /\ \/ /\ \E t \in ReadersOfReference(r) : lookup' = [lookup EXCEPT ![r] = t]
        /\ UNCHANGED refRead
     \/ /\ ReadersOfReference(r) = {}
        /\ lookup' = [lookup EXCEPT ![r] = r]
        /\ refRead' = [refRead EXCEPT ![r] = "asked"]
  /\ UNCHANGED <<chainVars, localVars, sharedVars, crashes, historyVars>>

(* The provider answers; the block is compared with the reference of the   *)
(* request that asked.                                                     *)
ReferenceAnswered(r) ==
  /\ refRead[r] = "asked"
  /\ \E verdict \in {IF MatchesBlock(r) THEN "ok" ELSE "mismatch", "failed"} :
       /\ verdict = "failed" => ProviderFails
       /\ refRead' = [refRead EXCEPT ![r] = verdict]
  /\ UNCHANGED <<chainVars, pc, lookup, localVars, sharedVars, crashes, historyVars>>

ResolveReference(r) ==
  LET verdict == refRead[lookup[r]] IN
  /\ pc[r] = "resolving"
  /\ verdict \in Verdicts
  /\ StepOnly(r, IF verdict = "ok" THEN "chain"
                 ELSE IF verdict = "mismatch" THEN "refused" ELSE "unavailable")

-----------------------------------------------------------------------------
(* verifyChain.                                                            *)
VerifyChain(r) ==
  /\ pc[r] = "chain"
  /\ StepOnly(r, IF proof[r] = "wrong-chain" THEN "refused" ELSE "receipt")

(* The checks of verifyPaymentCreatedEvent after the confirmations.  The   *)
(* terms follow from the proof's own reference, so that an altered one     *)
(* fails here if it joined the read of a genuine one.                      *)
AfterEvent(r) ==
  IF proof[r] \in {"wrong-event", "altered-reference"} THEN "refused"
  ELSE IF WindowMode THEN "settlement" ELSE "recovery"

NeedsHead == Confirmations > 1

(* readTransactionReceipt: null is "onchain-payment-not-found".            *)
ReadReceipt(r) ==
  /\ pc[r] = "receipt"
  /\ \E mined \in CreationSeen(PaymentOf[r]) :
       /\ receiptBlock' = [receiptBlock EXCEPT ![r] = mined]
       /\ Goto(r, IF mined = 0 THEN "early" ELSE IF NeedsHead THEN "head" ELSE AfterEvent(r))
       /\ deepWhenChecked' = [deepWhenChecked EXCEPT ![r] = mined # 0]
  /\ UNCHANGED <<chainVars, referenceVars, proof, at, awaits, sharedVars, crashes, acceptableSince>>

(* confirmations = latest - receipt.blockNumber + 1; latest may come from  *)
(* a node that lags.                                                       *)
CountsOneMore(r, latest) == latest + 2 >= receiptBlock[r] + Confirmations
IsConfirmed(r, latest) == latest + 1 >= receiptBlock[r] + Confirmations

DeepEnough(p) == creation[p] # 0 /\ height + 1 >= creation[p] + Confirmations

ReadHead(r) ==
  /\ pc[r] = "head"
  /\ \E latest \in HeadSeen :
       Goto(r, IF IsConfirmed(r, latest) THEN AfterEvent(r) ELSE "early")
  /\ deepWhenChecked' = [deepWhenChecked EXCEPT ![r] = DeepEnough(PaymentOf[r])]
  /\ UNCHANGED <<chainVars, referenceVars, localVars, sharedVars, crashes, acceptableSince>>

(* verifySettlementPolicy.                                                 *)
VerifySettlement(r) ==
  /\ pc[r] = "settlement"
  /\ StepOnly(r, IF proof[r] = "late-reference" THEN "refused" ELSE "recovery")

(* Reads of the authenticator that throw are answered with 503.            *)
ReadFails(r) ==
  /\ ProviderFails
  /\ pc[r] \in {"chain", "receipt", "head", "settlement"}
  /\ StepOnly(r, "unavailable")

(* The application's hook finds stored work, or passes.                    *)
Recovery(r) ==
  /\ pc[r] = "recovery"
  /\ \/ StepOnly(r, "observer")
     \/ /\ HasRecovery
        /\ \E t \in Rivals(r) : pc[t] = "authorized"
        /\ StepOnly(r, "recovered")

-----------------------------------------------------------------------------
(* The observer: getReader() asks for the chain id outside any try block,  *)
(* then readPaymentStateOnce joins the read in flight or starts one.       *)
AnsweredRead(r) ==
  {t \in Requests : at[t] = at[r] /\ PaymentOf[t] = PaymentOf[r] /\ stateRead[t] \in ReadDone}
KeepsReads(r) ==
  IF AnsweredRead(r) # {} THEN CHOOSE t \in AnsweredRead(r) : TRUE
  ELSE inFlight[at[r]][PaymentOf[r]]
Reading(r) == inFlight[at[r]][PaymentOf[r]]

Observe(r) ==
  /\ pc[r] = "observer"
  /\ Goto(r, "state")
  /\ IF Reading(r) # None
       THEN /\ awaits' = [awaits EXCEPT ![r] = Reading(r)]
            /\ UNCHANGED <<stateRead, inFlight>>
       ELSE /\ awaits' = [awaits EXCEPT ![r] = r]
            /\ stateRead' = [stateRead EXCEPT ![r] = "asked"]
            /\ inFlight' = [inFlight EXCEPT ![at[r]][PaymentOf[r]] = r]
  /\ UNCHANGED <<chainVars, referenceVars, proof, at, receiptBlock, queue, crashes, historyVars>>

ObserverThrows(r) ==
  /\ ProviderFails
  /\ pc[r] = "observer"
  /\ StepOnly(r, "threw")

(* A node evaluates state(), or the read fails; the read stays in flight   *)
(* until its answer arrives.                                               *)
EvaluateState(r) ==
  /\ stateRead[r] = "asked"
  /\ \E result \in StateSeen(PaymentOf[r]) \cup {"failed"} :
       /\ result = "failed" => ProviderFails
       /\ stateRead' = [stateRead EXCEPT ![r] = result]
  /\ UNCHANGED <<chainVars, pc, referenceVars, localVars, inFlight, queue, crashes, historyVars>>

StateAnswered(r) ==
  /\ stateRead[r] \in ReadDone
  /\ inFlight[at[r]][PaymentOf[r]] = r
  /\ inFlight' = [inFlight EXCEPT ![at[r]][PaymentOf[r]] = None]
  /\ UNCHANGED <<chainVars, pc, referenceVars, localVars, stateRead, queue, crashes, historyVars>>

(* The observation returns; verificationPolicy (FundedOrSettledPayment)    *)
(* and the start of consumer.consume follow without an await.              *)
AcceptsFundedOnly(s) == s = "funded"
Accepts(s) == s \in Acceptable

Verify(r) ==
  LET result == stateRead[awaits[r]] IN
  /\ pc[r] = "state"
  /\ result \in ReadDone
  /\ inFlight[at[r]][PaymentOf[r]] # awaits[r]
  /\ StepOnly(r, IF result = "failed" THEN "unavailable"
                 ELSE IF ~Accepts(result) THEN "refused"
                 ELSE IF Consumer = "None" THEN "authorized" ELSE "action")

-----------------------------------------------------------------------------
(* consumePayment prepares the transaction (address, chain id, SDK client) *)
(* and hands it to the replica's broadcast queue (see BroadcastQueue).     *)
Prepare(r) ==
  /\ pc[r] = "action"
  /\ Goto(r, "queue")
  /\ queue' = [queue EXCEPT ![at[r]] = Append(@, r)]
  /\ UNCHANGED <<chainVars, referenceVars, localVars, stateRead, inFlight, crashes, historyVars>>

AtHead(r) == queue[at[r]] # <<>> /\ Head(queue[at[r]]) = r
StaysInQueue(r) == UNCHANGED queue
LeaveQueue(r) == queue' = [queue EXCEPT ![at[r]] = Tail(@)]

(* estimateGas simulates the call on the node's latest or pending state.   *)
SeesConsumed(r) == consumedBy[PaymentOf[r]] # None
MaySeeConsumed(r) == SeesConsumed(r) \/ \E t \in Rivals(r) : claim[t] = "pool"

(* The failure Once makes of a D402PaymentExecutionError whose decoded     *)
(* contract error is AlreadyConsumed.                                      *)
OnAlreadyConsumed == "refused"

Estimate(r) ==
  /\ pc[r] = "queue"
  /\ AtHead(r)
  /\ \/ /\ ~SeesConsumed(r)
        /\ Goto(r, "send")
        /\ UNCHANGED queue
     \/ /\ MaySeeConsumed(r)
        /\ Goto(r, OnAlreadyConsumed)
        /\ LeaveQueue(r)
  /\ UNCHANGED <<chainVars, referenceVars, localVars, stateRead, inFlight, crashes, historyVars>>

(* sendTransaction: the node accepts it and answers, or the answer is lost *)
(* and the error is thrown.                                                *)
Send(r) ==
  /\ pc[r] = "send"
  /\ \E next \in {"mined", "threw"} :
       /\ next = "threw" => ProviderFails
       /\ Goto(r, next)
  /\ claim' = [claim EXCEPT ![r] = "pool"]
  /\ LeaveQueue(r)
  /\ UNCHANGED <<height, creation, state, stateBefore, consumedBy, reorgs, referenceVars,
                 localVars, stateRead, inFlight, crashes, historyVars>>

(* A transaction of another replica's copy of the wallet took the nonce:    *)
(* the adapter estimates again (see BroadcastQueue for the retry limit).   *)
NonceConflict(r) ==
  /\ pc[r] = "send"
  /\ \E t \in Requests : at[t] # at[r] /\ claim[t] = "pool"
  /\ StepOnly(r, "queue")

(* waitForSuccessfulReceipt: a reverted receipt is a plain Error.  No      *)
(* contract error is decoded from it, so Once throws it on.                *)
ReturnsStatus(status) == status
IgnoresStatus(status) == "authorized"
AfterReceipt(status) == IF status = "success" THEN "authorized" ELSE "threw"

Receipt(r) ==
  /\ pc[r] = "mined"
  /\ claim[r] \in {"success", "reverted"}
  /\ StepOnly(r, AfterReceipt(claim[r]))

(* Preparing, sending or waiting fails: consumePayment throws, and so does *)
(* authorize.                                                              *)
AnswersUnavailable == "unavailable"
OnActionFailure == "threw"

ActionFails(r) ==
  /\ ProviderFails
  /\ \/ /\ pc[r] \in {"action", "mined"}
        /\ UNCHANGED queue
     \/ /\ \/ pc[r] = "queue" /\ AtHead(r)
           \/ pc[r] = "send"
        /\ LeaveQueue(r)
  /\ Goto(r, OnActionFailure)
  /\ UNCHANGED <<chainVars, referenceVars, localVars, stateRead, inFlight, crashes, historyVars>>

(* A replica loses its memory and its connections.                         *)
Crash(s) ==
  LET served == {r \in Requests : at[r] = s /\ pc[r] \in Waiting} IN
  /\ crashes < MaxCrashes
  /\ crashes' = crashes + 1
  /\ pc' = [r \in Requests |-> IF r \in served THEN "lost" ELSE pc[r]]
  /\ refRead' = [r \in Requests |-> IF r \in served THEN "none" ELSE refRead[r]]
  /\ stateRead' = [r \in Requests |-> IF r \in served THEN "none" ELSE stateRead[r]]
  /\ inFlight' = [inFlight EXCEPT ![s] = [p \in Payments |-> None]]
  /\ queue' = [queue EXCEPT ![s] = <<>>]
  /\ UNCHANGED <<chainVars, lookup, localVars, historyVars>>

-----------------------------------------------------------------------------
Authenticate(r) ==
  HitReference(r) \/ ReadReference(r) \/ ResolveReference(r)
    \/ VerifyChain(r) \/ ReadReceipt(r) \/ ReadHead(r) \/ VerifySettlement(r) \/ ReadFails(r)

ObservePayment(r) ==
  Recovery(r) \/ Observe(r) \/ ObserverThrows(r) \/ EvaluateState(r)
    \/ StateAnswered(r) \/ Verify(r)

Consume(r) ==
  Prepare(r) \/ Estimate(r) \/ Send(r) \/ NonceConflict(r) \/ Receipt(r) \/ ActionFails(r)

(* The chain moves; the history of what requests could have seen follows.  *)
ChainMoves ==
  /\ acceptableSince' = [r \in Requests |->
       \/ acceptableSince[r]
       \/ pc[r] \in Waiting /\ state'[PaymentOf[r]] \in Acceptable]
  /\ UNCHANGED <<pc, referenceVars, localVars, sharedVars, crashes, deepWhenChecked>>

Mine(r) == MineClaim(r) /\ ChainMoves

Serve(r) == ReferenceAnswered(r) \/ Authenticate(r) \/ ObservePayment(r) \/ Consume(r)

Next ==
  \/ \E r \in Requests : Arrive(r) \/ Serve(r)
  \/ \E s \in Replicas : Crash(s)
  \/ ChainNext /\ ChainMoves

(* Replicas run what is ready, the provider answers or fails every call,   *)
(* and the network mines what is in its pool.                              *)
Fairness == \A r \in Requests : WF_vars(Serve(r)) /\ WF_vars(Mine(r))

Spec == Init /\ [][Next]_vars
FairSpec == Spec /\ Fairness

-----------------------------------------------------------------------------
TypeOK ==
  /\ height \in Nat
  /\ creation \in [Payments -> Nat]
  /\ state \in [Payments -> PaymentStates]
  /\ stateBefore \in [Payments -> PaymentStates]
  /\ claim \in [Requests -> {"none", "pool", "success", "reverted"}]
  /\ consumedBy \in [Payments -> Requests \cup {None}]
  /\ pc \in [Requests -> {"new"} \cup Waiting \cup Ended]
  /\ proof \in [Requests -> ProofKinds]
  /\ at \in [Requests -> Replicas]
  /\ lookup \in [Requests -> Requests \cup {None}]
  /\ refRead \in [Requests -> {"none", "asked"} \cup Verdicts]
  /\ receiptBlock \in [Requests -> Nat]
  /\ awaits \in [Requests -> Requests \cup {None}]
  /\ stateRead \in [Requests -> StateReads]
  /\ inFlight \in [Replicas -> [Payments -> Requests \cup {None}]]
  /\ queue \in [Replicas -> Seq(Requests)]

(* Once: one payment authorizes at most one request, on whatever replicas, *)
(* through races, crashes, lost answers and client retries                 *)
(* (docs/scaling.md: "an at-most-once authorization guarantee").           *)
AtMostOnce ==
  Consumer = "Once" => \A r, t \in Requests :
    pc[r] = "authorized" /\ pc[t] = "authorized" /\ PaymentOf[r] = PaymentOf[t] => r = t

(* A request answered 422, 425 or 503 has put no claim on the chain: the   *)
(* client may send the same proof again and loses nothing by it.           *)
RefusalLeavesNoClaim ==
  \A r \in Requests : pc[r] \in {"refused", "early", "unavailable"} => claim[r] = "none"

(* A good proof is answered with the final 422 only if the payment is no   *)
(* longer acceptable, another request has claimed it, or the request       *)
(* shared the read of the reference block with an altered proof (which it  *)
(* should not, finding 1); a provider that lags or fails costs a retry,    *)
(* never the payment (docs/scaling.md).                                    *)
RefusalIsJustified ==
  \A r \in Requests : pc[r] = "refused" /\ proof[r] = "good" =>
    \/ state[PaymentOf[r]] \notin Acceptable
    \/ \E t \in Rivals(r) : claim[t] \in {"pool", "success"}
    \/ lookup[r] # None /\ proof[lookup[r]] = "altered-reference"

(* On a chain that never reorganised, an authorized request's payment had  *)
(* the configured confirmations when the authenticator looked at the head, *)
(* whatever nodes lag ("required payment transaction confirmations",       *)
(* docs/api.md).  After a reorganisation the receipt is not read again.    *)
ConfirmedOnStableChain ==
  reorgs = 0 => \A r \in Requests : pc[r] = "authorized" => deepWhenChecked[r]

(* Reads of the state are shared and nodes lag, and still no request is    *)
(* authorized on an observation older than that: the payment was funded or *)
(* settled since the block before the latest when the request arrived, or  *)
(* while the request was served whose read was then in flight              *)
(* (payment-verifier.ts, readPaymentStateOnce).                            *)
ObservationIsRecent == \A r \in Requests : pc[r] = "authorized" => acceptableSince[r]

(* docs/advanced.md: "only one consumption transaction can succeed [...].  *)
(* The other request is rejected with 422 payment-already-consumed".       *)
LoserIsRefused ==
  \A r \in Requests : claim[r] = "reverted" /\ pc[r] \in Ended => pc[r] = "refused"

(* docs/protocol.md: when chain verification is unavailable the answer is  *)
(* 503; authorize() throws only once it acts on the chain.                 *)
VerificationFailureIsAnswered ==
  \A r \in Requests : pc[r] = "threw" => awaits[r] # None

(* Every request served is answered, or its caller sees an error.          *)
EveryRequestEnds == \A r \in Requests : (pc[r] \in Waiting) ~> (pc[r] \in Ended)

(* With Once, the replicas and the chain implement the claim protocol.     *)
FateOf(where) ==
  CASE where = "authorized" -> "admitted"
    [] where \in Answered \ {"authorized"} -> "refused"
    [] where \in {"threw", "lost"} -> "dropped"
    [] OTHER -> "open"

Claims == INSTANCE ClaimProtocol WITH
  holder <- consumedBy,
  fate <- [r \in Requests |-> FateOf(pc[r])]

ImplementsClaimProtocol == Claims!Spec
=============================================================================
