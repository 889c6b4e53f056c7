--------------------------- MODULE BroadcastQueue ---------------------------
(***************************************************************************)
(* How d402 gets transactions of one wallet onto the network.              *)
(*                                                                         *)
(* Every client executor and every paymentActions() object owns a queue    *)
(* (createBroadcastQueue, src/src/runtime/transaction.ts): a chain of      *)
(* promises in which an operation waits for the one handed over before it, *)
(* whatever its outcome.  The operation then runs the adapter's            *)
(* broadcastTransaction.  The viem sender has a chain of its own, shared   *)
(* by all queues that use the sender; the ethers sender has none.  Both    *)
(* estimate, sign and send again, up to RetryLimit times, when the node    *)
(* refuses the nonce.  Other processes may use the same wallet.            *)
(***************************************************************************)
EXTENDS Naturals, Sequences, FiniteSets

CONSTANTS
  Ops,         \* calls of broadcastInQueue, one transaction each
  Queues,      \* the queues of one process that share a sender
  QueueOf,     \* the queue each operation is handed to
  RetryLimit,  \* NONCE_RETRY_LIMIT
  NoOp,        \* no operation
  Foreign,     \* the owner of transactions other processes send
  MaxForeign,  \* bound on the transactions of other processes
  MaxFaults    \* bound on the answers a node gets wrong or loses

ASSUME QueueOfAssumption == QueueOf \in [Ops -> Queues]
ASSUME RetryLimitAssumption == RetryLimit \in Nat
ASSUME NoOpAssumption == NoOp \notin Ops
ASSUME ForeignAssumption == Foreign \notin Ops

VARIABLES
  pc,            \* where each operation is
  tail,          \* tail[q]: the variable `queue` of the closure
  previous,      \* previous[o]: the promise o captured from it
  adapter,       \* the adapter whose sender the process uses
  sendTail,      \* the viem sender's sendQueue
  sendPrevious,  \* the promise o captured from it
  retry,         \* the loop counter of sendWithNonceRetry
  picked,        \* the nonce the signer took for the attempt under way
  cause,         \* why an operation failed
  ledger,        \* owners of the wallet's accepted transactions, by nonce
  faults,        \* faults of the node so far, counted for the bound
  arrival        \* history: the operations in the order they were handed over

queueVars == <<tail, previous, arrival>>
senderVars == <<adapter, sendTail, sendPrevious>>
attemptVars == <<retry, picked, cause>>
networkVars == <<ledger, faults>>
vars == <<pc, queueVars, senderVars, attemptVars, networkVars>>

Adapters == {"viem", "ethers"}
Settled == {"sent", "failed"}
InSender == {"lined", "estimating", "sending", "backoff"}
HasSettled(o) == o # NoOp => pc[o] \in Settled

Init ==
  /\ pc = [o \in Ops |-> "new"]
  /\ tail = [q \in Queues |-> NoOp]
  /\ previous = [o \in Ops |-> NoOp]
  /\ adapter \in Adapters
  /\ sendTail = NoOp
  /\ sendPrevious = [o \in Ops |-> NoOp]
  /\ retry = [o \in Ops |-> 0]
  /\ picked = [o \in Ops |-> 0]
  /\ cause = [o \in Ops |-> "none"]
  /\ ledger = <<>>
  /\ faults = 0
  /\ arrival = [q \in Queues |-> <<>>]

-----------------------------------------------------------------------------
(* broadcastInQueue: `previous = queue; queue = current`, synchronously.   *)
HandOver(o) ==
  LET q == QueueOf[o] IN
  /\ pc[o] = "new"
  /\ pc' = [pc EXCEPT ![o] = "chained"]
  /\ previous' = [previous EXCEPT ![o] = tail[q]]
  /\ tail' = [tail EXCEPT ![q] = o]
  /\ arrival' = [arrival EXCEPT ![q] = Append(@, o)]
  /\ UNCHANGED <<senderVars, attemptVars, networkVars>>

(* `await previous.catch(() => {})` returns for a promise that settled     *)
(* either way.  Before it, two forms the wait could wrongly take.          *)
NeverWaits(o) == TRUE
WaitsForSuccess(o) == previous[o] # NoOp => pc[previous[o]] = "sent"
MayStart(o) == HasSettled(previous[o])

(* operation() runs broadcastTransaction up to its first await: the viem   *)
(* sender appends itself to sendQueue, the ethers sender starts an attempt.*)
Start(o) ==
  /\ pc[o] = "chained"
  /\ MayStart(o)
  /\ IF adapter = "viem"
       THEN /\ pc' = [pc EXCEPT ![o] = "lined"]
            /\ sendPrevious' = [sendPrevious EXCEPT ![o] = sendTail]
            /\ sendTail' = o
            /\ UNCHANGED adapter
       ELSE /\ pc' = [pc EXCEPT ![o] = "estimating"]
            /\ UNCHANGED senderVars
  /\ UNCHANGED <<queueVars, attemptVars, networkVars>>

(* `await previous` of the viem sender: release() is called in a finally.  *)
SendsAtOnce(o) == TRUE
MaySend(o) == HasSettled(sendPrevious[o])

TakeTurn(o) ==
  /\ pc[o] = "lined"
  /\ MaySend(o)
  /\ pc' = [pc EXCEPT ![o] = "estimating"]
  /\ UNCHANGED <<queueVars, senderVars, attemptVars, networkVars>>

(* estimateGas succeeds and the signer fills in the next nonce it sees.    *)
Estimate(o) ==
  /\ pc[o] = "estimating"
  /\ pc' = [pc EXCEPT ![o] = "sending"]
  /\ picked' = [picked EXCEPT ![o] = Len(ledger)]
  /\ UNCHANGED <<queueVars, senderVars, retry, cause, networkVars>>

(* isNonceConflict: what sendWithNonceRetry follows with a fresh attempt.  *)
ConflictsByAdapter == [viem |-> {"too-low", "too-high"}, ethers |-> {"too-low"}]
AnyError(error) == TRUE
IsNonceConflict(error) == error \in ConflictsByAdapter[adapter]

MayRetryOnceMore(o) == retry[o] <= RetryLimit
MayRetryOnceLess(o) == retry[o] + 1 < RetryLimit
MayRetry(o) == retry[o] < RetryLimit

(* The catch block of sendWithNonceRetry.                                  *)
Catch(o, error) ==
  IF IsNonceConflict(error) /\ MayRetry(o)
    THEN /\ pc' = [pc EXCEPT ![o] = "backoff"]
         /\ retry' = [retry EXCEPT ![o] = @ + 1]
         /\ UNCHANGED cause
    ELSE /\ pc' = [pc EXCEPT ![o] = "failed"]
         /\ cause' = [cause EXCEPT ![o] = error]
         /\ UNCHANGED retry

(* estimateGas throws: the call would revert.                              *)
EstimateReverts(o) ==
  /\ pc[o] = "estimating"
  /\ Catch(o, "revert")
  /\ UNCHANGED <<queueVars, senderVars, picked, networkVars>>

(* The node accepts the transaction and the sender returns its hash.       *)
Accept(o) ==
  /\ pc[o] = "sending"
  /\ picked[o] = Len(ledger)
  /\ ledger' = Append(ledger, o)
  /\ pc' = [pc EXCEPT ![o] = "sent"]
  /\ UNCHANGED <<queueVars, senderVars, attemptVars, faults>>

(* Another transaction took the nonce.                                     *)
NonceTooLow(o) ==
  /\ pc[o] = "sending"
  /\ picked[o] < Len(ledger)
  /\ Catch(o, "too-low")
  /\ UNCHANGED <<queueVars, senderVars, picked, networkVars>>

(* The node that got the transaction lags behind the one that supplied the *)
(* nonce, or is unreachable.                                               *)
Refuse(o, error) ==
  /\ pc[o] = "sending"
  /\ faults < MaxFaults
  /\ Catch(o, error)
  /\ faults' = faults + 1
  /\ UNCHANGED <<queueVars, senderVars, picked, ledger>>

(* The node takes the transaction and its answer is lost.                  *)
AnswerLost(o) ==
  /\ pc[o] = "sending"
  /\ faults < MaxFaults
  /\ picked[o] = Len(ledger)
  /\ ledger' = Append(ledger, o)
  /\ Catch(o, "rpc")
  /\ faults' = faults + 1
  /\ UNCHANGED <<queueVars, senderVars, picked>>

(* delay(delayMs) elapses and the loop estimates afresh.                   *)
BackoffElapses(o) ==
  /\ pc[o] = "backoff"
  /\ pc' = [pc EXCEPT ![o] = "estimating"]
  /\ UNCHANGED <<queueVars, senderVars, attemptVars, networkVars>>

(* Another process sends a transaction from the same wallet.               *)
ForeignSend ==
  /\ Cardinality({n \in DOMAIN ledger : ledger[n] = Foreign}) < MaxForeign
  /\ ledger' = Append(ledger, Foreign)
  /\ UNCHANGED <<pc, queueVars, senderVars, attemptVars, faults>>

-----------------------------------------------------------------------------
Attempt(o) ==
  \/ Estimate(o)
  \/ EstimateReverts(o)
  \/ Accept(o)
  \/ NonceTooLow(o)
  \/ \E error \in {"too-high", "rpc"} : Refuse(o, error)
  \/ AnswerLost(o)
  \/ BackoffElapses(o)

Progress(o) == Start(o) \/ TakeTurn(o) \/ Attempt(o)

Next ==
  \/ \E o \in Ops : HandOver(o) \/ Progress(o)
  \/ ForeignSend

(* The event loop runs every ready continuation, timers fire and the node  *)
(* answers every call; nobody has to hand over an operation.               *)
Fairness == \A o \in Ops : WF_vars(Progress(o))

Spec == Init /\ [][Next]_vars
FairSpec == Spec /\ Fairness

-----------------------------------------------------------------------------
TypeOK ==
  /\ pc \in [Ops -> {"new", "chained"} \cup InSender \cup Settled]
  /\ tail \in [Queues -> Ops \cup {NoOp}]
  /\ previous \in [Ops -> Ops \cup {NoOp}]
  /\ adapter \in Adapters
  /\ sendTail \in Ops \cup {NoOp}
  /\ sendPrevious \in [Ops -> Ops \cup {NoOp}]
  /\ retry \in [Ops -> 0 .. RetryLimit]
  /\ picked \in [Ops -> Nat]
  /\ cause \in [Ops -> {"none", "revert", "too-low", "too-high", "rpc"}]
  /\ ledger \in Seq(Ops \cup {Foreign})
  /\ faults \in Nat
  /\ arrival \in [Queues -> Seq(Ops)]

(* Two operations of one queue are never both inside the sender: what      *)
(* createBroadcastQueue is for.                                            *)
MutualExclusion ==
  \A a, b \in Ops :
    QueueOf[a] = QueueOf[b] /\ pc[a] \in InSender /\ pc[b] \in InSender => a = b

(* The wallet's nonces follow the order in which operations were handed to *)
(* a queue (an ERC-20 approval handed over before the creation that spends *)
(* it is never mined after it), whatever failed or was retried in between. *)
NoncesFollowHandOver ==
  \A q \in Queues : \A i, j \in DOMAIN arrival[q] :
    \A m, n \in DOMAIN ledger :
      i < j /\ ledger[m] = arrival[q][i] /\ ledger[n] = arrival[q][j] => m < n

(* One call of broadcastInQueue never puts two transactions on the         *)
(* network, even when the node's answer was lost and the loop retries.     *)
BroadcastAtMostOnce ==
  \A m, n \in DOMAIN ledger : ledger[m] = ledger[n] /\ ledger[m] \in Ops => m = n

(* The sender gives up on nonces only after RetryLimit + 1 attempts that   *)
(* other transactions of the wallet or faults of the node defeated one by  *)
(* one.                                                                    *)
GivesUpOnlyUnderContention ==
  \A o \in Ops : cause[o] = "too-low" =>
    Cardinality({n \in DOMAIN ledger : ledger[n] # o}) + faults > RetryLimit

(* With the viem sender, operations of one process never take each other's *)
(* nonces: every retry is due to another process or to the node.           *)
NoSelfContention ==
  adapter = "viem" => \A o \in Ops :
    retry[o] <= faults + Cardinality({n \in DOMAIN ledger : ledger[n] = Foreign})

(* Every operation handed over returns or throws: no failure blocks the    *)
(* queue behind it.                                                        *)
EveryHandOverSettles ==
  \A o \in Ops : (pc[o] = "chained") ~> (pc[o] \in Settled)

(* The queues are serial executors: of the operations handed over, those   *)
(* behind the last one that has begun wait, and one inside the sender runs.*)
Begun(ops, at) ==
  CHOOSE n \in 0 .. Len(ops) :
    /\ \A i \in 1 .. n : at[ops[i]] # "chained"
    /\ n < Len(ops) => at[ops[n + 1]] = "chained"
Running(q, at) == {o \in Ops : QueueOf[o] = q /\ at[o] \in InSender}
OneOf(running) == IF running = {} THEN NoOp ELSE CHOOSE o \in running : TRUE

waiting == [q \in Queues |-> SubSeq(arrival[q], Begun(arrival[q], pc) + 1, Len(arrival[q]))]
active == [q \in Queues |-> OneOf(Running(q, pc))]
finished == {o \in Ops : pc[o] \in Settled}

Executor == INSTANCE SerialExecutor WITH waiting <- waiting, active <- active, finished <- finished

ImplementsSerialExecutor == Executor!Spec
=============================================================================
