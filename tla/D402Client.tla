----------------------------- MODULE D402Client -----------------------------
(***************************************************************************)
(* client.fetch of d402 clients (src/src/client) that share an executor,   *)
(* its wallet and its broadcast queue: overlapping calls.                  *)
(*                                                                         *)
(* A call sends the request, gets a challenge, checks it, creates the      *)
(* payment (for an ERC-20 token after an approval of its own), sends the   *)
(* request again with the proof and acts on the answer.  Each await is a   *)
(* value of pc; stage names the transaction a call is about.               *)
(*                                                                         *)
(* The queue is a serial executor (see BroadcastQueue): its head estimates *)
(* and sends one transaction.  The network mines the wallet's transactions *)
(* in the order of their nonces, which is the order they were sent in.     *)
(***************************************************************************)
EXTENDS Naturals, Sequences

CONSTANTS
  Calls,       \* calls of client.fetch
  Payments,    \* payment ids; calls with equal terms and salt share one
  None,        \* nobody
  HasPolicy,   \* options.policy is given
  MaxCalls,    \* bound on calls of retry and the executor by the application
  MaxFaults    \* bound on failures of the network, the node and the servers

ASSUME NoneAssumption == None \notin Calls
ASSUME PolicyAssumption == HasPolicy \in BOOLEAN

VARIABLES
  paymentOf,  \* the payment id derived for each call
  token,      \* what each payment is made in
  pc,         \* what each call waits for, or how it ended
  stage,      \* the transaction it prepares, queues or waits for
  challenge,  \* what the server asked of it
  decision,   \* what is done about the paid response
  queue,      \* the executor's broadcasts, in the order handed over
  pool,       \* the wallet's transactions not mined yet, in nonce order
  status,     \* status[c][s]: the transaction of call c for stage s
  creator,    \* creator[p]: the call whose transaction created payment p
  payment,    \* payment[p]: its state on the chain
  allowance,  \* what the wallet lets the factory spend, in payments
  further,    \* those calls so far, counted for the bound
  faults,     \* failures so far, likewise
  hit         \* history: the calls that a failure hit

settingVars == <<paymentOf, token>>
callVars == <<challenge, decision>>
chainVars == <<creator, payment, allowance>>
boundVars == <<further, faults, hit>>
vars == <<settingVars, pc, stage, callVars, queue, pool, status, chainVars, boundVars>>

Actions == {"settle", "dispute", "submit-evidence"}
Stages == {"approve", "create"} \cup Actions
Challenges == {"none", "free", "malformed", "forbidden", "unrefundable", "refundable"}
Awaiting == {"unpaid", "policy", "prepare", "queued", "mined", "paid", "act", "refund",
             "retry"}
(* "threw": an error without the payment; "attempt": an error that leaves  *)
(* the application with the payment, as D402PaymentError does; "retried":  *)
(* the response of client.retry.                                           *)
Ended == {"free", "threw", "attempt", "returned", "retried"}

(* What onAccepted and onRejected may be.                                  *)
ActionsOn == [accepted |-> {"settle", "keep-open"},
              rejected |-> {"request-refund", "dispute", "keep-open"}]
Decisions == {"none"} \cup ActionsOn.accepted \cup ActionsOn.rejected

Init ==
  /\ paymentOf \in [Calls -> Payments]
  /\ token \in [Payments -> {"native", "erc20"}]
  /\ pc = [c \in Calls |-> "new"]
  /\ stage = [c \in Calls |-> "create"]
  /\ challenge = [c \in Calls |-> "none"]
  /\ decision = [c \in Calls |-> "none"]
  /\ further = 0
  /\ queue = <<>>
  /\ pool = <<>>
  /\ status = [c \in Calls |-> [s \in Stages |-> "none"]]
  /\ creator = [p \in Payments |-> None]
  /\ payment = [p \in Payments |-> "none"]
  /\ allowance = 0
  /\ faults = 0
  /\ hit = {}

Goto(c, where) == pc' = [pc EXCEPT ![c] = where]
Fault(c) ==
  /\ faults < MaxFaults
  /\ faults' = faults + 1
  /\ hit' = hit \cup {c}
  /\ UNCHANGED further
IsErc20(c) == token[paymentOf[c]] = "erc20"

-----------------------------------------------------------------------------
(* d402Fetch up to its first await.                                        *)
Ask(c) ==
  /\ pc[c] = "new"
  /\ Goto(c, "unpaid")
  /\ UNCHANGED <<settingVars, stage, callVars, queue, pool, status, chainVars, boundVars>>

(* The checks between the unpaid response and the payment; a malformed     *)
(* challenge stands for one that cannot be parsed, is bound to another     *)
(* request or is expired.  A client whose onRejected is request-refund     *)
(* refuses a challenge without refunds.                                    *)
AfterChallenge(asked) ==
  CASE asked = "free" -> {"free"}
    [] asked = "malformed" -> {"threw"}
    [] OTHER -> {IF HasPolicy THEN "policy" ELSE "prepare"}
                  \cup (IF asked = "unrefundable" THEN {"threw"} ELSE {})

Challenged(c) ==
  /\ pc[c] = "unpaid"
  /\ \E asked \in Challenges \ {"none"} :
       /\ challenge' = [challenge EXCEPT ![c] = asked]
       /\ \E next \in AfterChallenge(asked) : Goto(c, next)
  /\ UNCHANGED <<settingVars, stage, decision, queue, pool, status, chainVars, boundVars>>

(* validatePaymentPolicy, on the chain id the provider reports.            *)
Allows(asked) == asked # "forbidden"

CheckPolicy(c) ==
  /\ pc[c] = "policy"
  /\ Goto(c, IF Allows(challenge[c]) THEN "prepare" ELSE "threw")
  /\ UNCHANGED <<settingVars, stage, callVars, queue, pool, status, chainVars, boundVars>>

HandOver(c, s) ==
  /\ stage' = [stage EXCEPT ![c] = s]
  /\ queue' = Append(queue, c)
  /\ Goto(c, "queued")

(* The executor prepares the transactions of a payment and hands the first *)
(* to the queue.                                                           *)
NeverApproves(c) == "create"
FirstStage(c) == IF IsErc20(c) THEN "approve" ELSE "create"

PrepareCreation(c) ==
  /\ pc[c] = "prepare"
  /\ HandOver(c, FirstStage(c))
  /\ UNCHANGED <<settingVars, callVars, pool, status, chainVars, boundVars>>

(* settlePayment and disputePayment prepare theirs; the state a dispute    *)
(* reads first is only logged.                                             *)
PrepareAction(c) ==
  /\ pc[c] = "act"
  /\ HandOver(c, stage[c])
  /\ UNCHANGED <<settingVars, callVars, pool, status, chainVars, boundVars>>

-----------------------------------------------------------------------------
(* Whether a transaction reverts on the chain as it stands: the factory    *)
(* creates a payment id once and pulls tokens, a payment is settled or     *)
(* disputed from funded, and takes evidence while disputed.                *)
Reverts(c, s) ==
  \/ s = "create" /\ creator[paymentOf[c]] # None
  \/ s = "create" /\ IsErc20(c) /\ allowance = 0
  \/ s \in {"settle", "dispute"} /\ payment[paymentOf[c]] # "funded"
  \/ s = "submit-evidence" /\ payment[paymentOf[c]] # "disputed"

(* A node that simulates on its pending state counts the pool in.          *)
Clashes(c, d) ==
  \/ paymentOf[c] = paymentOf[d]
  \/ IsErc20(c) /\ IsErc20(d)
MayRevert(c, s) ==
  \/ Reverts(c, s)
  \/ s # "approve" /\ \E i \in DOMAIN pool : pool[i].call # c /\ Clashes(c, pool[i].call)

(* Errors of createPayment have no payment to carry; once the paid request *)
(* went out every error does.                                              *)
SwallowsActionErrors(s) == IF s \in Actions THEN "returned" ELSE "threw"
OnFailure(s) == IF s \in Actions THEN "attempt" ELSE "threw"

AtHead(c) == queue # <<>> /\ Head(queue) = c
StaysInQueue == UNCHANGED queue
LeaveQueue == queue' = Tail(queue)

IntoPool(c) ==
  /\ pool' = Append(pool, [call |-> c, stage |-> stage[c]])
  /\ status' = [status EXCEPT ![c][stage[c]] = "pool"]

(* Evidence passes on a node that counts the dispute in its pool in.       *)
Passes(c, s) ==
  \/ ~Reverts(c, s)
  \/ s = "submit-evidence" /\ status[c]["dispute"] = "pool"

Broadcast(c) ==
  /\ pc[c] = "queued"
  /\ AtHead(c)
  /\ Passes(c, stage[c])
  /\ IntoPool(c)
  /\ Goto(c, "mined")
  /\ LeaveQueue
  /\ UNCHANGED <<settingVars, stage, callVars, chainVars, boundVars>>

(* Estimation reverts, the node refuses, or its answer is lost.            *)
BroadcastFails(c) ==
  /\ pc[c] = "queued"
  /\ AtHead(c)
  /\ \/ MayRevert(c, stage[c]) /\ UNCHANGED <<pool, status, boundVars>>
     \/ Fault(c) /\ UNCHANGED <<pool, status>>
     \/ Fault(c) /\ Passes(c, stage[c]) /\ IntoPool(c)
  /\ Goto(c, OnFailure(stage[c]))
  /\ LeaveQueue
  /\ UNCHANGED <<settingVars, stage, callVars, chainVars>>

(* waitForSuccessfulReceipt.                                               *)
IgnoresStatus(result) == TRUE
IsSuccessful(result) == result = "success"

HasReceipt(c, s) ==
  pc[c] = "mined" /\ stage[c] = s /\ status[c][s] \in {"success", "reverted"}

(* The creation is handed over once its approval is mined; approvals do    *)
(* not revert.                                                             *)
ApprovalMined(c) ==
  /\ HasReceipt(c, "approve")
  /\ HandOver(c, "create")
  /\ UNCHANGED <<settingVars, callVars, pool, status, chainVars, boundVars>>

(* The receipt's PaymentCreated event completes the attempt, and the paid  *)
(* request goes out.                                                       *)
CreationMined(c) ==
  /\ HasReceipt(c, "create")
  /\ Goto(c, IF IsSuccessful(status[c]["create"]) THEN "paid" ELSE OnFailure("create"))
  /\ UNCHANGED <<settingVars, stage, callVars, queue, pool, status, chainVars, boundVars>>

ActionMined(c) ==
  /\ \E s \in Actions :
       /\ HasReceipt(c, s)
       /\ Goto(c, IF IsSuccessful(status[c][s]) THEN "returned" ELSE OnFailure(s))
  /\ UNCHANGED <<settingVars, stage, callVars, queue, pool, status, chainVars, boundVars>>

-----------------------------------------------------------------------------
(* resolvePaymentAfterAcceptance.                                          *)
AfterDecision(action) ==
  CASE action = "keep-open" -> "returned"
    [] action = "request-refund" -> "refund"
    [] OTHER -> "act"

TakesAnyAction(c, action) == action
NextStage(c, action) == IF action \in Actions THEN action ELSE stage[c]

(* The paid response arrives, the validator accepts it or not, and the     *)
(* client does what its options say.                                       *)
Answered(c) ==
  /\ pc[c] = "paid"
  /\ \E verdict \in {"accepted", "rejected"} : \E action \in ActionsOn[verdict] :
       /\ action = "request-refund" => challenge[c] # "unrefundable"
       /\ decision' = [decision EXCEPT ![c] = action]
       /\ stage' = [stage EXCEPT ![c] = NextStage(c, action)]
       /\ Goto(c, AfterDecision(action))
  /\ UNCHANGED <<settingVars, challenge, queue, pool, status, chainVars, boundVars>>

(* requestRefund: the server refunds a funded payment, or refuses; its     *)
(* answer may not be one the client can parse.                             *)
Refunded(c) ==
  LET p == paymentOf[c] IN
  /\ pc[c] = "refund"
  /\ \/ /\ payment[p] = "funded"
        /\ payment' = [payment EXCEPT ![p] = "refunded"]
        /\ \E next \in {"returned", "attempt"} : Goto(c, next)
     \/ Goto(c, "attempt") /\ UNCHANGED payment
  /\ UNCHANGED <<settingVars, stage, callVars, queue, pool, status, creator, allowance, boundVars>>

(* The application holds the payment and calls client.retry, which sends   *)
(* the same proof and takes no action on the answer, or an action of the   *)
(* client's executor.                                                      *)
HoldsPayment(c) ==
  /\ pc[c] \in {"attempt", "returned", "retried"}
  /\ further < MaxCalls
  /\ further' = further + 1
  /\ UNCHANGED <<faults, hit>>

Retry(c) ==
  /\ HoldsPayment(c)
  /\ Goto(c, "retry")
  /\ UNCHANGED <<settingVars, stage, challenge, decision, queue, pool, status, chainVars>>

RetryAnswered(c) ==
  /\ pc[c] = "retry"
  /\ Goto(c, "retried")
  /\ UNCHANGED <<settingVars, stage, callVars, queue, pool, status, chainVars, boundVars>>

(* Each action at most once for a payment; a blank evidence URI throws.    *)
CallExecutor(c) ==
  /\ HoldsPayment(c)
  /\ \E s \in Actions :
       /\ status[c][s] = "none"
       /\ \/ stage' = [stage EXCEPT ![c] = s] /\ Goto(c, "act")
          \/ s = "submit-evidence" /\ Goto(c, "attempt") /\ UNCHANGED stage
  /\ UNCHANGED <<settingVars, challenge, decision, queue, pool, status, chainVars>>

(* An awaited call of the network, the node or the signer fails.           *)
HasPaid(c) == stage[c] \in Actions \/ pc[c] \in {"paid", "refund", "retry"}
ErrorFor(c) == IF HasPaid(c) THEN "attempt" ELSE "threw"

Fails(c) ==
  /\ pc[c] \in Awaiting \ {"queued"}
  /\ Fault(c)
  /\ Goto(c, ErrorFor(c))
  /\ UNCHANGED <<settingVars, stage, callVars, queue, pool, status, chainVars>>

-----------------------------------------------------------------------------
(* The network mines the wallet's next transaction.                        *)
Mine ==
  /\ pool # <<>>
  /\ LET c == Head(pool).call
         s == Head(pool).stage
         p == paymentOf[c]
         reverts == Reverts(c, s)
         moved == [create |-> "funded", settle |-> "settled", dispute |-> "disputed"]
     IN
     /\ status' = [status EXCEPT ![c][s] = IF reverts THEN "reverted" ELSE "success"]
     /\ creator' = IF s = "create" /\ ~reverts THEN [creator EXCEPT ![p] = c] ELSE creator
     /\ payment' = IF s \in DOMAIN moved /\ ~reverts THEN [payment EXCEPT ![p] = moved[s]] ELSE payment
     /\ allowance' = IF s = "approve" THEN 1
                     ELSE IF s = "create" /\ IsErc20(c) /\ ~reverts THEN 0 ELSE allowance
  /\ pool' = Tail(pool)
  /\ UNCHANGED <<settingVars, pc, stage, callVars, queue, boundVars>>

(* The payee settles a payment in time, or the arbiter rules.              *)
PaymentMoves(p) ==
  /\ \/ payment[p] = "funded" /\ payment' = [payment EXCEPT ![p] = "settled"]
     \/ payment[p] = "disputed" /\ payment' = [payment EXCEPT ![p] = "resolved"]
  /\ UNCHANGED <<settingVars, pc, stage, callVars, queue, pool, status, creator, allowance, boundVars>>

-----------------------------------------------------------------------------
CheckChallenge(c) == Challenged(c) \/ CheckPolicy(c)
Execute(c) ==
  PrepareCreation(c) \/ PrepareAction(c) \/ Broadcast(c) \/ BroadcastFails(c)
    \/ ApprovalMined(c) \/ CreationMined(c) \/ ActionMined(c)
Resolve(c) == Answered(c) \/ Refunded(c) \/ RetryAnswered(c)
Progress(c) == CheckChallenge(c) \/ Execute(c) \/ Resolve(c) \/ Fails(c)

Next ==
  \/ \E c \in Calls : Ask(c) \/ Progress(c) \/ Retry(c) \/ CallExecutor(c)
  \/ Mine
  \/ \E p \in Payments : PaymentMoves(p)

(* Something that can run does: servers and nodes answer or fail, the      *)
(* event loop runs what is ready and the network mines what it took.       *)
(* Nobody has to call anything or to move a payment.                       *)
Runs == (\E c \in Calls : Progress(c)) \/ Mine

Spec == Init /\ [][Next]_vars
FairSpec == Spec /\ WF_vars(Runs)

-----------------------------------------------------------------------------
TypeOK ==
  /\ paymentOf \in [Calls -> Payments]
  /\ token \in [Payments -> {"native", "erc20"}]
  /\ pc \in [Calls -> {"new"} \cup Awaiting \cup Ended]
  /\ stage \in [Calls -> Stages]
  /\ challenge \in [Calls -> Challenges]
  /\ decision \in [Calls -> Decisions]
  /\ further \in Nat
  /\ queue \in Seq(Calls)
  /\ pool \in Seq([call : Calls, stage : Stages])
  /\ status \in [Calls -> [Stages -> {"none", "pool", "success", "reverted"}]]
  /\ creator \in [Payments -> Calls \cup {None}]
  /\ payment \in [Payments -> {"none", "funded", "settled", "disputed", "refunded", "resolved"}]
  /\ allowance \in {0, 1}
  /\ faults \in Nat
  /\ hit \subseteq Calls

(* A D402PaymentError is thrown, and a proof is sent, only after the call  *)
(* itself created the payment (docs/api.md: "thrown only after a payment   *)
(* and proof have been created"), also when overlapping calls derive the   *)
(* same payment id or race for an allowance.                               *)
PresentsOnlyOwnPayments ==
  \A c \in Calls :
    pc[c] \in {"paid", "refund", "attempt", "returned", "retry", "retried"} => creator[paymentOf[c]] = c

(* A call that ends without a payment had a reason: its challenge, a       *)
(* failure of one of its own calls to network, node or server, another     *)
(* call that created the same payment or one that approved the same token  *)
(* at the same time.  Retries, native payments and what fails before it in *)
(* the queue never cause it.                                               *)
FailsOnlyForCause ==
  \A c \in Calls : pc[c] = "threw" =>
    \/ c \in hit
    \/ challenge[c] \in {"malformed", "forbidden", "unrefundable"}
    \/ \E d \in Calls \ {c} :
         \/ paymentOf[d] = paymentOf[c] /\ status[d]["create"] # "none"
         \/ IsErc20(c) /\ IsErc20(d) /\ status[d]["approve"] # "none"

(* When fetch or an action of the executor returns, what it stands for has *)
(* happened on the chain: the payment is settled, refunded, or under       *)
(* dispute, whatever was tried before.                                     *)
ReturnsOnceResolved ==
  \A c \in Calls : pc[c] = "returned" =>
    LET reached == payment[paymentOf[c]] IN
    /\ stage[c] = "settle" => reached = "settled"
    /\ stage[c] \in {"dispute", "submit-evidence"} => reached \in {"disputed", "resolved"}
    /\ stage[c] \notin Actions /\ decision[c] = "request-refund" => reached = "refunded"

(* Every call of fetch, of retry or of the executor returns or throws: no  *)
(* failure of one call blocks the queue for the others.                    *)
EveryCallEnds == <>[](\A c \in Calls : pc[c] \notin Awaiting)
=============================================================================
