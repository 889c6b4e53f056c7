------------------------ MODULE PaymentActions_proofs ------------------------
(***************************************************************************)
(* What every step of the payment actions, the contract and the network    *)
(* preserves, whoever calls them: lemmas for the modules that extend       *)
(* PaymentActions with callers of their own.                               *)
(***************************************************************************)
EXTENDS PaymentActions, TLAPS

(* A job has no transaction before the head of its queue sends it.         *)
SentOnlyByBroadcast ==
  \A j \in Jobs : step[j] \in {"idle", "prepare", "quote", "queued"} => status[j] = "none"

(* The pool holds each pending transaction once.                           *)
PoolIsPending ==
  /\ \A i \in 1..Len(pool) : status[pool[i]] = "pool"
  /\ \A i, k \in 1..Len(pool) : pool[i] = pool[k] => i = k

ConfirmedSucceeded == \A j \in Jobs : step[j] = "confirmed" => status[j] = "success"

(* The contract, the receipts and the history agree on who settled or      *)
(* refunded a payment.                                                     *)
Resolves(j) == operation[j] \in {"settle", "refund"}
SuccessResolved ==
  \A j \in Jobs : status[j] = "success" /\ Resolves(j) =>
    leftBy[PaymentOf[j]] = j /\ payment[PaymentOf[j]] = After(j)
LeaversSucceeded ==
  \A p \in Payments :
    /\ payment[p] = "funded" => leftBy[p] = None
    /\ leftBy[p] \in Jobs => status[leftBy[p]] = "success" /\ PaymentOf[leftBy[p]] = p

ContractErrorsAreFinal ==
  \A j \in Jobs : error[j] = "contract" => step[j] = "failed" /\ status[j] = "none"

ActionsInv ==
  /\ ActionsTypeOK
  /\ SentOnlyByBroadcast
  /\ PoolIsPending
  /\ ConfirmedSucceeded
  /\ SuccessResolved
  /\ LeaversSucceeded
  /\ ContractErrorsAreFinal

(* A step that leaves the actions alone, except that a failure elsewhere   *)
(* counts for the bound.                                                   *)
ActionsRest == UNCHANGED <<jobVars, pool, status, contractVars>> /\ faults' \in Nat

ActionsStep ==
  \/ \E j \in Jobs : Work(j) \/ \E op \in Operations : Begin(j, op)
  \/ Mine
  \/ \E p \in Payments : PartyMoves(p)
  \/ ProcessStops
  \/ ActionsRest

LEMMA ActionsInitInv == ActionsInit => ActionsInv
  BY NobodyAssumption
     DEF ActionsInit, ActionsInv, ActionsTypeOK, SentOnlyByBroadcast, PoolIsPending, ConfirmedSucceeded,
         SuccessResolved, LeaversSucceeded, ContractErrorsAreFinal, Underway, PaymentStates

-----------------------------------------------------------------------------
(* Types.                                                                  *)
LEMMA LeaveQueueType ==
  ASSUME ActionsTypeOK, NEW j \in Jobs, AtHead(j), LeaveQueue(j)
  PROVE  queue' \in [Instances -> Seq(Jobs)]
<1>1. InstanceOf[j] \in Instances
  BY JobsAssumption
<1>2. queue[InstanceOf[j]] \in Seq(Jobs) /\ queue[InstanceOf[j]] # <<>>
  BY <1>1 DEF ActionsTypeOK, AtHead
<1>3. Tail(queue[InstanceOf[j]]) \in Seq(Jobs)
  BY <1>2
<1> QED
  BY <1>1, <1>3 DEF LeaveQueue, ActionsTypeOK

LEMMA HandOverType ==
  ASSUME ActionsTypeOK, NEW j \in Jobs, HandOver(j)
  PROVE  /\ step' \in [Jobs -> Underway \cup {"idle", "confirmed", "failed"}]
         /\ queue' \in [Instances -> Seq(Jobs)]
<1>1. InstanceOf[j] \in Instances
  BY JobsAssumption
<1>2. Append(queue[InstanceOf[j]], j) \in Seq(Jobs)
  BY <1>1 DEF ActionsTypeOK
<1> QED
  BY <1>1, <1>2 DEF HandOver, ActionsTypeOK, Underway

LEMMA IntoPoolType ==
  ASSUME ActionsTypeOK, NEW j \in Jobs, IntoPool(j)
  PROVE  /\ pool' \in Seq(Jobs)
         /\ status' \in [Jobs -> {"none", "pool", "success", "reverted"}]
  BY DEF IntoPool, ActionsTypeOK

LEMMA ThrowType ==
  ASSUME ActionsTypeOK, NEW j \in Jobs, NEW named \in {"contract", "other"}, Throw(j, named)
  PROVE  /\ step' \in [Jobs -> Underway \cup {"idle", "confirmed", "failed"}]
         /\ error' \in [Jobs -> {"none", "contract", "other"}]
  BY DEF Throw, ActionsTypeOK

LEMMA AfterType ==
  ASSUME ActionsTypeOK, NEW j \in Jobs
  PROVE  After(j) \in PaymentStates
<1>1. payment[PaymentOf[j]] \in PaymentStates
  BY JobsAssumption DEF ActionsTypeOK
<1>2. CASE operation[j] = "settle"
  BY <1>2 DEF After, PaymentStates
<1>3. CASE operation[j] = "refund"
  BY <1>3 DEF After, PaymentStates
<1>4. CASE operation[j] = "appeal"
  BY <1>4 DEF After, PaymentStates
<1>5. CASE operation[j] \notin {"settle", "refund", "appeal"}
  <2>1. After(j) = payment[PaymentOf[j]]
    BY <1>5 DEF After
  <2> QED
    BY <1>1, <2>1
<1> QED
  BY <1>2, <1>3, <1>4, <1>5

LEMMA LeavesFundedType ==
  ASSUME ActionsTypeOK, NEW p \in Payments, NEW by \in Jobs \cup {Party}, LeavesFunded(p, by)
  PROVE  leftBy' \in [Payments -> Jobs \cup {None, Party}]
  BY DEF LeavesFunded, ActionsTypeOK

LEMMA WorkType ==
  ASSUME ActionsTypeOK, NEW j \in Jobs, Work(j)
  PROVE  ActionsTypeOK'
<1>1. CASE Prepare(j)
  <2>1. CASE operation[j] = "appeal"
    BY <1>1, <2>1 DEF Prepare, ActionsTypeOK, contractVars, Underway
  <2>2. CASE operation[j] # "appeal"
    BY <1>1, <2>2, HandOverType DEF Prepare, ActionsTypeOK, contractVars
  <2> QED
    BY <2>1, <2>2
<1>2. CASE QuoteAppeal(j)
  BY <1>2, HandOverType DEF QuoteAppeal, ActionsTypeOK, contractVars
<1>3. CASE Broadcast(j)
  BY <1>3, IntoPoolType, LeaveQueueType DEF Broadcast, ActionsTypeOK, contractVars, Underway
<1>4. CASE CallReverts(j)
  BY <1>4, ThrowType, LeaveQueueType DEF CallReverts, ActionsTypeOK, contractVars
<1>5. CASE Receipt(j)
  BY <1>5, ThrowType DEF Receipt, ActionsTypeOK, contractVars, ErrorOfReceipt
<1>6. CASE CallFails(j)
  <2>1. faults' \in Nat
    BY <1>6 DEF CallFails, Fault, ActionsTypeOK
  <2>2. queue' \in [Instances -> Seq(Jobs)]
    BY <1>6, LeaveQueueType DEF CallFails, ActionsTypeOK
  <2>3. /\ pool' \in Seq(Jobs)
        /\ status' \in [Jobs -> {"none", "pool", "success", "reverted"}]
    BY <1>6, IntoPoolType DEF CallFails, ActionsTypeOK
  <2> QED
    BY <1>6, <2>1, <2>2, <2>3, ThrowType DEF CallFails, ActionsTypeOK, contractVars
<1> QED
  BY <1>1, <1>2, <1>3, <1>4, <1>5, <1>6 DEF Work

LEMMA MineType ==
  ASSUME ActionsTypeOK, Mine
  PROVE  ActionsTypeOK'
<1> DEFINE j == Head(pool)
<1> DEFINE p == PaymentOf[j]
<1>1. j \in Jobs /\ Tail(pool) \in Seq(Jobs)
  BY DEF Mine, ActionsTypeOK
<1>2. p \in Payments
  BY <1>1, JobsAssumption
<1>3. pool' = Tail(pool) /\ UNCHANGED <<jobVars, faults>>
  BY DEF Mine
<1>4. CASE Reverts(j)
  BY <1>1, <1>3, <1>4 DEF Mine, ActionsTypeOK, jobVars, contractVars
<1>5. CASE ~Reverts(j)
  <2>1. /\ status' = [status EXCEPT ![j] = "success"]
        /\ payment' = [payment EXCEPT ![p] = After(j)]
        /\ consumed' = IF operation[j] = "consume" THEN consumed \cup {p} ELSE consumed
        /\ LeavesFunded(p, j)
    BY <1>5 DEF Mine
  <2>2. payment' \in [Payments -> PaymentStates]
    BY <1>1, <2>1, AfterType DEF ActionsTypeOK
  <2>3. consumed' \subseteq Payments
    BY <1>2, <2>1 DEF ActionsTypeOK
  <2>4. leftBy' \in [Payments -> Jobs \cup {None, Party}]
    BY <1>1, <1>2, <2>1, LeavesFundedType
  <2> QED
    BY <1>1, <1>3, <2>1, <2>2, <2>3, <2>4 DEF ActionsTypeOK, jobVars
<1> QED
  BY <1>4, <1>5

LEMMA ActionsType ==
  ASSUME ActionsTypeOK, ActionsStep
  PROVE  ActionsTypeOK'
<1>1. ASSUME NEW j \in Jobs, NEW op \in Operations, Begin(j, op)
      PROVE  ActionsTypeOK'
  BY <1>1 DEF Begin, ActionsTypeOK, contractVars, Underway
<1>2. ASSUME NEW p \in Payments, PartyMoves(p)
      PROVE  ActionsTypeOK'
  BY <1>2, LeavesFundedType DEF PartyMoves, ActionsTypeOK, jobVars
<1>3. CASE ProcessStops
  BY <1>3 DEF ProcessStops, Fault, ActionsTypeOK, contractVars
<1>4. CASE ActionsRest
  BY <1>4 DEF ActionsRest, ActionsTypeOK, jobVars, contractVars
<1> QED
  BY <1>1, <1>2, <1>3, <1>4, WorkType, MineType DEF ActionsStep

-----------------------------------------------------------------------------
(* Outcomes: what the contract does to a payment.                          *)
LEMMA Outcomes ==
  ASSUME NEW j \in Jobs
  PROVE  /\ operation[j] = "settle" => After(j) = "settled"
         /\ operation[j] = "refund" => After(j) = "refunded"
         /\ operation[j] = "appeal" => After(j) = "disputed"
         /\ operation[j] \notin {"settle", "refund", "appeal"} => After(j) = payment[PaymentOf[j]]
<1>1. CASE operation[j] = "settle"
  BY <1>1 DEF After
<1>2. CASE operation[j] = "refund"
  BY <1>2 DEF After
<1>3. CASE operation[j] = "appeal"
  BY <1>3 DEF After
<1>4. CASE operation[j] \notin {"settle", "refund", "appeal"}
  BY <1>4 DEF After
<1> QED
  BY <1>1, <1>2, <1>3, <1>4

LEMMA Guards ==
  ASSUME NEW j \in Jobs, ~Reverts(j)
  PROVE  /\ Resolves(j) => payment[PaymentOf[j]] = "funded"
         /\ operation[j] = "appeal" => payment[PaymentOf[j]] = "ruled"
<1>1. CASE operation[j] \in {"settle", "refund"}
  BY <1>1 DEF Reverts, Resolves
<1>2. CASE operation[j] = "appeal"
  BY <1>2 DEF Reverts, Resolves
<1> QED
  BY <1>1, <1>2 DEF Resolves

(* Jobs and queues move, transactions and payments do not.                 *)
LEMMA QuietInv ==
  ASSUME ActionsInv, ActionsTypeOK',
         UNCHANGED <<operation, pool, status, contractVars>>,
         \A j \in Jobs :
           /\ step'[j] \in {"idle", "prepare", "quote", "queued"} =>
                step[j] \in {"idle", "prepare", "quote", "queued"}
           /\ step'[j] = "confirmed" => status[j] = "success"
           /\ error'[j] = "contract" => step'[j] = "failed" /\ status[j] = "none"
  PROVE  ActionsInv'
<1>1. \A j \in Jobs : (Resolves(j)' <=> Resolves(j)) /\ (Resolves(j) => After(j)' = After(j))
  BY Outcomes DEF Resolves, After
<1>2. SuccessResolved'
  BY <1>1 DEF ActionsInv, SuccessResolved, contractVars
<1>3. LeaversSucceeded'
  BY DEF ActionsInv, LeaversSucceeded, contractVars
<1>4. SentOnlyByBroadcast' /\ PoolIsPending' /\ ConfirmedSucceeded' /\ ContractErrorsAreFinal'
  BY DEF ActionsInv, SentOnlyByBroadcast, PoolIsPending, ConfirmedSucceeded, ContractErrorsAreFinal
<1> QED
  BY <1>2, <1>3, <1>4 DEF ActionsInv

(* A transaction enters the pool.                                          *)
LEMMA SentInv ==
  ASSUME ActionsInv, ActionsTypeOK', NEW j \in Jobs, step[j] = "queued", IntoPool(j),
         UNCHANGED <<operation, contractVars>>,
         NEW where \in {"mined", "failed"}, step' = [step EXCEPT ![j] = where],
         error' = error \/ error' = [error EXCEPT ![j] = "other"]
  PROVE  ActionsInv'
<1> USE DEF ActionsTypeOK
<1>1. status[j] = "none" /\ step'[j] = where /\ status'[j] = "pool"
  BY DEF ActionsInv, SentOnlyByBroadcast, IntoPool
<1>2. \A k \in Jobs \ {j} : step'[k] = step[k] /\ status'[k] = status[k]
  BY DEF ActionsInv, IntoPool
<1>3. \A k \in Jobs : error'[k] = "contract" => k # j /\ error[k] = "contract"
  <2>1. error[j] # "contract"
    BY DEF ActionsInv, ContractErrorsAreFinal
  <2> QED
    BY <2>1 DEF ActionsInv
<1>4. PoolIsPending'
  <2>1. /\ Len(pool') = Len(pool) + 1
        /\ pool'[Len(pool) + 1] = j
        /\ \A i \in 1..Len(pool) : pool'[i] = pool[i] /\ pool[i] \in Jobs /\ pool[i] # j
    <3>1. pool \in Seq(Jobs) /\ pool' = Append(pool, j)
      BY DEF ActionsInv, IntoPool
    <3>2. \A i \in 1..Len(pool) : pool[i] \in Jobs /\ pool[i] # j
      BY <1>1, <3>1 DEF ActionsInv, PoolIsPending
    <3> QED
      BY <3>1, <3>2
  <2>2. Len(pool) \in Nat
    BY DEF ActionsInv
  <2>3. \A i \in 1..Len(pool') : i = Len(pool) + 1 \/ i \in 1..Len(pool)
    BY <2>1, <2>2
  <2>4. PoolIsPending
    BY DEF ActionsInv
  <2> HIDE DEF ActionsTypeOK
  <2>5. ASSUME NEW i \in 1..Len(pool')
        PROVE  status'[pool'[i]] = "pool"
    <3>1. CASE i = Len(pool) + 1
      BY <1>1, <2>1, <3>1
    <3>2. CASE i \in 1..Len(pool)
      BY <1>2, <2>1, <2>4, <3>2 DEF PoolIsPending
    <3> QED
      BY <2>3, <3>1, <3>2
  <2>6. ASSUME NEW i \in 1..Len(pool'), NEW k \in 1..Len(pool'), pool'[i] = pool'[k]
        PROVE  i = k
    <3>1. CASE i \in 1..Len(pool) /\ k \in 1..Len(pool)
      BY <2>1, <2>4, <2>6, <3>1 DEF PoolIsPending
    <3>2. CASE i = Len(pool) + 1 \/ k = Len(pool) + 1
      BY <2>1, <2>3, <2>6, <3>2
    <3> QED
      BY <2>3, <3>1, <3>2
  <2> QED
    BY <2>5, <2>6 DEF PoolIsPending
<1>5. SentOnlyByBroadcast' /\ ConfirmedSucceeded' /\ ContractErrorsAreFinal'
  BY <1>1, <1>2, <1>3 DEF ActionsInv, SentOnlyByBroadcast, ConfirmedSucceeded, ContractErrorsAreFinal
<1>6. \A k \in Jobs : (Resolves(k)' <=> Resolves(k)) /\ (Resolves(k) => After(k)' = After(k))
  BY DEF Resolves, After, contractVars
<1>7. SuccessResolved'
  BY <1>1, <1>2, <1>6 DEF ActionsInv, SuccessResolved, contractVars
<1>8. LeaversSucceeded'
  BY <1>1, <1>2 DEF ActionsInv, LeaversSucceeded, contractVars
<1> QED
  BY <1>4, <1>5, <1>7, <1>8 DEF ActionsInv

LEMMA WorkInv ==
  ASSUME ActionsInv, ActionsTypeOK', NEW j \in Jobs, Work(j)
  PROVE  ActionsInv'
<1> USE DEF ActionsTypeOK
<1>1. CASE Prepare(j) \/ QuoteAppeal(j)
  <2>1. PICK where \in {"quote", "queued"} : step' = [step EXCEPT ![j] = where]
    BY <1>1 DEF Prepare, QuoteAppeal, HandOver
  <2>2. step[j] \in {"prepare", "quote"}
    BY <1>1 DEF Prepare, QuoteAppeal
  <2>3. UNCHANGED <<operation, error, pool, status, contractVars>>
    BY <1>1 DEF Prepare, QuoteAppeal
  <2> QED
    BY <2>1, <2>2, <2>3, QuietInv DEF ActionsInv, ConfirmedSucceeded, ContractErrorsAreFinal
<1>2. CASE Broadcast(j)
  BY <1>2, SentInv DEF Broadcast
<1>3. CASE CallReverts(j)
  <2>1. step[j] \in {"quote", "queued"} /\ status[j] = "none"
    BY <1>3 DEF CallReverts, ActionsInv, SentOnlyByBroadcast
  <2>2. /\ step' = [step EXCEPT ![j] = "failed"]
        /\ error' = [error EXCEPT ![j] = "contract"]
        /\ UNCHANGED <<operation, pool, status, contractVars>>
    BY <1>3 DEF CallReverts, Throw
  <2> QED
    BY <2>1, <2>2, QuietInv DEF ActionsInv, ConfirmedSucceeded, ContractErrorsAreFinal
<1>4. CASE Receipt(j)
  <2>1. step[j] = "mined" /\ UNCHANGED <<operation, pool, status, contractVars>>
    BY <1>4 DEF Receipt
  <2>2. \/ status[j] = "success" /\ step' = [step EXCEPT ![j] = "confirmed"] /\ error' = error
        \/ step' = [step EXCEPT ![j] = "failed"] /\ error' = [error EXCEPT ![j] = "other"]
    BY <1>4 DEF Receipt, IsSuccessful, Throw, ErrorOfReceipt
  <2> QED
    BY <2>1, <2>2, QuietInv DEF ActionsInv, ConfirmedSucceeded, ContractErrorsAreFinal
<1>5. CASE CallFails(j)
  <2>1. /\ step' = [step EXCEPT ![j] = "failed"]
        /\ error' = [error EXCEPT ![j] = "other"]
        /\ UNCHANGED <<operation, contractVars>>
        /\ step[j] \notin {"idle", "confirmed", "failed"}
    BY <1>5 DEF CallFails, Throw
  <2>2. CASE UNCHANGED <<pool, status>>
    BY <2>1, <2>2, QuietInv DEF ActionsInv, ConfirmedSucceeded, ContractErrorsAreFinal
  <2>3. CASE step[j] = "queued" /\ IntoPool(j)
    BY <2>1, <2>3, SentInv
  <2> QED
    BY <1>5, <2>2, <2>3 DEF CallFails
<1> QED
  BY <1>1, <1>2, <1>3, <1>4, <1>5 DEF Work

LEMMA MineInv ==
  ASSUME ActionsInv, ActionsTypeOK', Mine
  PROVE  ActionsInv'
<1> USE DEF ActionsTypeOK
<1> DEFINE j == Head(pool)
<1> DEFINE p == PaymentOf[j]
<1>1. /\ Len(pool) > 0 /\ j = pool[1] /\ j \in Jobs /\ status[j] = "pool"
      /\ Len(pool') = Len(pool) - 1
      /\ \A i \in 1..Len(pool') : /\ i + 1 \in 1..Len(pool)
                                  /\ pool'[i] = pool[i + 1]
                                  /\ pool[i + 1] \in Jobs \ {j}
  BY DEF Mine, ActionsInv, PoolIsPending
<1>2. UNCHANGED jobVars /\ p \in Payments
  BY <1>1, JobsAssumption DEF Mine
<1>3. PICK result \in {"success", "reverted"} : status' = [status EXCEPT ![j] = result]
  BY DEF Mine
<1>4. status'[j] = result /\ \A k \in Jobs \ {j} : status'[k] = status[k]
  BY <1>1, <1>3 DEF ActionsInv
<1>5. PoolIsPending'
  <2>0. PoolIsPending
    BY DEF ActionsInv
  <2> HIDE DEF ActionsTypeOK, j
  <2>1. \A i \in 1..Len(pool') : status'[pool'[i]] = "pool"
    BY <1>1, <1>4, <2>0 DEF PoolIsPending
  <2>2. \A i, k \in 1..Len(pool') : pool'[i] = pool'[k] => i = k
    <3> SUFFICES ASSUME NEW i \in 1..Len(pool'), NEW k \in 1..Len(pool'), pool'[i] = pool'[k]
                 PROVE  i = k
      OBVIOUS
    <3>1. i + 1 = k + 1
      BY <1>1, <2>0 DEF PoolIsPending
    <3> QED
      BY <3>1
  <2> QED
    BY <2>1, <2>2 DEF PoolIsPending
<1>6. SentOnlyByBroadcast' /\ ConfirmedSucceeded' /\ ContractErrorsAreFinal'
  BY <1>1, <1>2, <1>4
     DEF jobVars, ActionsInv, SentOnlyByBroadcast, ConfirmedSucceeded, ContractErrorsAreFinal
<1>7. CASE Reverts(j)
  <2>1. result = "reverted" /\ UNCHANGED contractVars
    BY <1>1, <1>3, <1>4, <1>7 DEF Mine, ActionsInv
  <2>2. \A k \in Jobs : (Resolves(k)' <=> Resolves(k)) /\ (Resolves(k) => After(k)' = After(k))
    BY <1>2, <2>1 DEF Resolves, After, contractVars, jobVars
  <2>3. SuccessResolved'
    BY <1>4, <2>1, <2>2 DEF ActionsInv, SuccessResolved, contractVars
  <2>4. LeaversSucceeded'
    BY <1>1, <1>4, <2>1 DEF ActionsInv, LeaversSucceeded, contractVars
  <2> QED
    BY <1>5, <1>6, <2>3, <2>4 DEF ActionsInv
<1>8. CASE ~Reverts(j)
  <2>1. /\ result = "success"
        /\ payment' = [payment EXCEPT ![p] = After(j)]
        /\ LeavesFunded(p, j)
    BY <1>1, <1>3, <1>4, <1>8 DEF Mine, ActionsInv
  <2>2. payment'[p] = After(j) /\ \A q \in Payments \ {p} : payment'[q] = payment[q] /\ leftBy'[q] = leftBy[q]
    BY <1>2, <2>1 DEF ActionsInv, LeavesFunded
  <2>3. /\ Resolves(j) => payment[p] = "funded" /\ payment'[p] \in {"settled", "refunded"}
        /\ ~Resolves(j) => \/ payment'[p] = payment[p]
                           \/ payment[p] = "ruled" /\ payment'[p] = "disputed"
    BY <1>1, <1>8, <2>2, Outcomes, Guards DEF Resolves
  <2>4. leftBy'[p] = IF Resolves(j) THEN j ELSE leftBy[p]
    BY <1>2, <2>1, <2>3 DEF LeavesFunded, ActionsInv
  <2>5. \A k \in Jobs : (Resolves(k)' <=> Resolves(k)) /\ (Resolves(k) => After(k)' = After(k))
    BY <1>2, Outcomes DEF Resolves, After, jobVars
  <2>6. \A k \in Jobs : Resolves(k) => After(k) \in {"settled", "refunded"}
    BY Outcomes DEF Resolves
  <2>7. SuccessResolved'
    <3> SUFFICES ASSUME NEW k \in Jobs, status'[k] = "success", Resolves(k)
                 PROVE  leftBy'[PaymentOf[k]] = k /\ payment'[PaymentOf[k]] = After(k)
      BY <2>5 DEF SuccessResolved
    <3>1. CASE k = j
      BY <2>2, <2>4, <3>1
    <3>2. CASE k # j
      <4>1. leftBy[PaymentOf[k]] = k /\ payment[PaymentOf[k]] = After(k)
        BY <1>4, <3>2 DEF ActionsInv, SuccessResolved
      <4>2. PaymentOf[k] \in Payments
        BY JobsAssumption
      <4> QED
        BY <2>2, <2>3, <2>4, <2>6, <4>1, <4>2
    <3> QED
      BY <3>1, <3>2
  <2>8. LeaversSucceeded'
    <3> SUFFICES ASSUME NEW q \in Payments
                 PROVE  /\ payment'[q] = "funded" => leftBy'[q] = None
                        /\ leftBy'[q] \in Jobs =>
                             status'[leftBy'[q]] = "success" /\ PaymentOf[leftBy'[q]] = q
      BY DEF LeaversSucceeded
    <3> QED
      BY <1>1, <1>4, <2>1, <2>2, <2>3, <2>4 DEF ActionsInv, LeaversSucceeded
  <2> QED
    BY <1>5, <1>6, <2>7, <2>8 DEF ActionsInv
<1> QED
  BY <1>7, <1>8

LEMMA PartyInv ==
  ASSUME ActionsInv, ActionsTypeOK', NEW p \in Payments, PartyMoves(p)
  PROVE  ActionsInv'
<1> USE DEF ActionsTypeOK
<1>1. /\ UNCHANGED <<jobVars, pool, status>>
      /\ payment[p] \notin {"settled", "refunded"} /\ payment'[p] # "funded"
      /\ \A q \in Payments \ {p} : payment'[q] = payment[q] /\ leftBy'[q] = leftBy[q]
  BY DEF PartyMoves, ActionsInv, LeavesFunded
<1>2. leftBy'[p] \in {leftBy[p], Party}
  BY DEF PartyMoves, ActionsInv, LeavesFunded
<1>3. \A k \in Jobs : (Resolves(k)' <=> Resolves(k)) /\ (Resolves(k) => After(k)' = After(k))
  BY <1>1, Outcomes DEF Resolves, After, jobVars
<1>4. \A k \in Jobs : Resolves(k) => After(k) \in {"settled", "refunded"}
  BY Outcomes DEF Resolves
<1>5. \A k \in Jobs : PaymentOf[k] \in Payments
  BY JobsAssumption
<1>6. SuccessResolved'
  BY <1>1, <1>3, <1>4, <1>5 DEF ActionsInv, SuccessResolved
<1>7. LeaversSucceeded'
  BY <1>1, <1>2, NobodyAssumption DEF ActionsInv, LeaversSucceeded
<1>8. SentOnlyByBroadcast' /\ PoolIsPending' /\ ConfirmedSucceeded' /\ ContractErrorsAreFinal'
  BY <1>1 DEF jobVars, ActionsInv, SentOnlyByBroadcast, PoolIsPending, ConfirmedSucceeded,
              ContractErrorsAreFinal
<1> QED
  BY <1>6, <1>7, <1>8 DEF ActionsInv

LEMMA ActionsStepInv ==
  ASSUME ActionsInv, ActionsStep
  PROVE  ActionsInv'
<1>1. ActionsTypeOK'
  BY ActionsType DEF ActionsInv
<1>2. ASSUME NEW j \in Jobs, NEW op \in Operations, Begin(j, op)
      PROVE  ActionsInv'
  <2>1. /\ step[j] = "idle" /\ status[j] = "none" /\ step' = [step EXCEPT ![j] = "prepare"]
        /\ operation' = [operation EXCEPT ![j] = op]
        /\ UNCHANGED <<error, pool, status, contractVars>>
    BY <1>2 DEF Begin, ActionsInv, SentOnlyByBroadcast
  <2>2. \A k \in Jobs \ {j} : step'[k] = step[k] /\ operation'[k] = operation[k]
    BY <2>1 DEF ActionsInv, ActionsTypeOK
  <2>3. step'[j] = "prepare"
    BY <2>1 DEF ActionsInv, ActionsTypeOK
  <2>4. SentOnlyByBroadcast' /\ PoolIsPending' /\ ConfirmedSucceeded' /\ ContractErrorsAreFinal'
    BY <2>1, <2>2, <2>3 DEF ActionsInv, SentOnlyByBroadcast, PoolIsPending, ConfirmedSucceeded,
       ContractErrorsAreFinal
  <2>5. \A k \in Jobs \ {j} : (Resolves(k)' <=> Resolves(k)) /\ (Resolves(k) => After(k)' = After(k))
    BY <2>1, <2>2, Outcomes DEF Resolves, After, contractVars
  <2>6. SuccessResolved' /\ LeaversSucceeded'
    BY <2>1, <2>5 DEF ActionsInv, SuccessResolved, LeaversSucceeded, contractVars
  <2> QED
    BY <1>1, <2>4, <2>6 DEF ActionsInv
<1>3. CASE ProcessStops \/ ActionsRest
  <2>1. /\ UNCHANGED <<operation, error, pool, status, contractVars>>
        /\ step' = step \/ step' = [j \in Jobs |-> IF step[j] \in Underway THEN "failed" ELSE step[j]]
    BY <1>3 DEF ProcessStops, ActionsRest, jobVars
  <2> QED
    BY <1>1, <2>1, QuietInv DEF ActionsInv, ConfirmedSucceeded, ContractErrorsAreFinal
<1> QED
  BY <1>1, <1>2, <1>3, WorkInv, MineInv, PartyInv DEF ActionsStep

(* A payment that left the funded state never comes back to it.            *)
LEMMA NeverFundedAgain ==
  ASSUME ActionsInv, ActionsStep, NEW p \in Payments, payment[p] # "funded"
  PROVE  payment'[p] # "funded"
<1> USE DEF ActionsInv, ActionsTypeOK
<1>1. ASSUME NEW j \in Jobs, NEW op \in Operations, Work(j) \/ Begin(j, op)
      PROVE  payment' = payment
  BY <1>1 DEF Work, Begin, Prepare, QuoteAppeal, Broadcast, CallReverts, Receipt, CallFails, contractVars
<1>2. CASE Mine
  <2> DEFINE j == Head(pool)
  <2>1. j \in Jobs
    BY <1>2 DEF Mine
  <2>2. payment' = payment \/ payment' = [payment EXCEPT ![PaymentOf[j]] = After(j)]
    BY <1>2 DEF Mine, contractVars
  <2>3. After(j) \in {"settled", "refunded", "disputed", payment[PaymentOf[j]]}
    BY <2>1, Outcomes
  <2> QED
    BY <2>2, <2>3
<1>3. ASSUME NEW q \in Payments, PartyMoves(q)
      PROVE  payment'[p] # "funded"
  BY <1>3 DEF PartyMoves
<1>4. CASE ProcessStops \/ ActionsRest
  BY <1>4 DEF ProcessStops, ActionsRest, contractVars
<1> QED
  BY <1>1, <1>2, <1>3, <1>4 DEF ActionsStep, Operations

(* Work moves one job that is underway.                                    *)
LEMMA WorkMoves ==
  ASSUME ActionsTypeOK, NEW j \in Jobs, Work(j)
  PROVE  /\ step[j] \in Underway
         /\ step'[j] \in Underway \cup {"confirmed", "failed"}
         /\ \A k \in Jobs \ {j} : step'[k] = step[k]
         /\ operation' = operation
<1>1. PICK where \in Underway \cup {"confirmed", "failed"} : step' = [step EXCEPT ![j] = where]
  BY DEF Work, Prepare, QuoteAppeal, Broadcast, CallReverts, Receipt, CallFails, HandOver, Throw, Underway
<1>2. step[j] \in Underway
  BY DEF Work, Prepare, QuoteAppeal, Broadcast, CallReverts, Receipt, CallFails, Underway
<1>3. operation' = operation
  BY DEF Work, Prepare, QuoteAppeal, Broadcast, CallReverts, Receipt, CallFails
<1> QED
  BY <1>1, <1>2, <1>3 DEF ActionsTypeOK

-----------------------------------------------------------------------------
(* Why a settlement or refund fails.                                      *)
(* Somebody else moved the payment of j, or is about to.                   *)
Excused(j) ==
  \/ leftBy[PaymentOf[j]] \notin {None, j}
  \/ \E k \in Rivals(j) : status[k] = "pool"

(* A settlement or refund fails without a fault only if it reverts.        *)
FailedInv ==
  /\ \A p \in Payments : payment[p] # "funded" => leftBy[p] # None
  /\ \A j \in Jobs : status[j] = "reverted" /\ Resolves(j) => payment[PaymentOf[j]] # "funded"
  /\ faults = 0 => \A j \in Jobs : step[j] = "failed" /\ Resolves(j) =>
                     status[j] \in {"none", "reverted"} /\ Excused(j)

(* For whom a job can be a rival.                                          *)
LEMMA RivalsOfResolver ==
  ASSUME NEW j \in Jobs, Resolves(j), NEW k \in Rivals(j)
  PROVE  k \in Jobs \ {j} /\ PaymentOf[k] = PaymentOf[j] /\ Resolves(k)
<1>1. k \in Jobs \ {j} /\ PaymentOf[k] = PaymentOf[j] /\ {operation[k], operation[j]} \in Clashing
  BY DEF Rivals
<1>2. operation[j] \in {"settle", "refund"}
  BY DEF Resolves
<1>3. \A pair \in Clashing : \A a, b : pair = {a, b} /\ b \in {"settle", "refund"} => a \in {"settle", "refund"}
  <2> SUFFICES ASSUME NEW a, NEW b, {a, b} \in Clashing, b \in {"settle", "refund"}
               PROVE  a \in {"settle", "refund"}
    OBVIOUS
  <2>1. \/ {a, b} = {"settle", "refund"} \/ {a, b} = {"settle"} \/ {a, b} = {"refund"}
        \/ {a, b} = {"consume"} \/ {a, b} = {"appeal"}
    BY DEF Clashing
  <2>2. a \in {a, b} /\ b \in {a, b}
    OBVIOUS
  <2> QED
    BY <2>1, <2>2
<1> QED
  BY <1>1, <1>2, <1>3 DEF Resolves

LEMMA FailedInit == ActionsInit => FailedInv
  BY JobsAssumption DEF ActionsInit, FailedInv

(* Nothing reaches the contract or the pool but through the queue.         *)
LEMMA QuietFailed ==
  ASSUME ActionsInv, FailedInv, UNCHANGED <<operation, pool, status, contractVars>>,
         faults' = 0 => faults = 0,
         faults' = 0 => \A j \in Jobs : step'[j] = "failed" /\ Resolves(j) =>
           step[j] = "failed" \/ (status[j] \in {"none", "reverted"} /\ Excused(j))
  PROVE  FailedInv'
<1>1. \A j \in Jobs : (Resolves(j)' <=> Resolves(j)) /\ Rivals(j)' = Rivals(j)
  BY DEF Resolves, Rivals
<1>2. \A j \in Jobs : Excused(j)' <=> Excused(j)
  BY <1>1 DEF Excused, contractVars
<1> QED
  BY <1>1, <1>2 DEF FailedInv, contractVars

LEMMA WorkFailed ==
  ASSUME ActionsInv, FailedInv, NEW j \in Jobs, Work(j)
  PROVE  FailedInv'
<1> USE DEF ActionsInv, ActionsTypeOK
<1>0. /\ operation' = operation /\ \A k \in Jobs \ {j} : step'[k] = step[k]
  BY WorkMoves
<1>1. CASE Prepare(j) \/ QuoteAppeal(j)
  <2>1. step'[j] # "failed" /\ UNCHANGED <<operation, pool, status, contractVars, faults>>
    BY <1>1 DEF Prepare, QuoteAppeal, HandOver
  <2> QED
    BY <1>0, <2>1, QuietFailed
<1>2. CASE Broadcast(j)
  <2>1. /\ status[j] = "none" /\ step[j] = "queued" /\ step'[j] = "mined"
        /\ status' = [status EXCEPT ![j] = "pool"]
        /\ UNCHANGED <<operation, contractVars, faults>>
    BY <1>2 DEF Broadcast, IntoPool, SentOnlyByBroadcast
  <2>2. /\ status'[j] = "pool" /\ \A k \in Jobs \ {j} : status'[k] = status[k]
        /\ \A k \in Jobs : status[k] = "pool" => status'[k] = "pool"
    BY <2>1
  <2>3. \A k \in Jobs : (Resolves(k)' <=> Resolves(k)) /\ Rivals(k)' = Rivals(k)
    BY <2>1 DEF Resolves, Rivals
  <2>4. \A k \in Jobs : Excused(k) => Excused(k)'
    BY <2>1, <2>2, <2>3 DEF Excused, contractVars, Rivals
  <2> QED
    BY <1>0, <2>1, <2>2, <2>3, <2>4 DEF FailedInv, contractVars
<1>3. CASE CallReverts(j)
  <2>1. /\ MayRevert(j) /\ status[j] = "none"
        /\ UNCHANGED <<operation, pool, status, contractVars, faults>>
    BY <1>3 DEF CallReverts, SentOnlyByBroadcast
  <2>2. Resolves(j) => Excused(j)
    <3> SUFFICES ASSUME Resolves(j), Reverts(j)
                 PROVE  Excused(j)
      BY <2>1 DEF MayRevert, Excused
    <3>1. PaymentOf[j] \in Payments
      BY JobsAssumption
    <3>2. payment[PaymentOf[j]] # "funded"
      BY DEF Reverts, Resolves
    <3>3. leftBy[PaymentOf[j]] # None
      BY <3>1, <3>2 DEF FailedInv
    <3>4. leftBy[PaymentOf[j]] # j
      BY <2>1, <3>1 DEF LeaversSucceeded
    <3> QED
      BY <3>3, <3>4 DEF Excused
  <2> QED
    BY <1>0, <2>1, <2>2, QuietFailed
<1>4. CASE Receipt(j)
  <2>1. /\ status[j] \in {"success", "reverted"} /\ (status[j] = "success" => step'[j] = "confirmed")
        /\ UNCHANGED <<operation, pool, status, contractVars, faults>>
    BY <1>4 DEF Receipt, IsSuccessful
  <2>2. Resolves(j) /\ status[j] = "reverted" => Excused(j)
    <3> SUFFICES ASSUME Resolves(j), status[j] = "reverted"
                 PROVE  Excused(j)
      OBVIOUS
    <3>1. PaymentOf[j] \in Payments
      BY JobsAssumption
    <3>2. leftBy[PaymentOf[j]] # None
      BY <3>1 DEF FailedInv
    <3>3. leftBy[PaymentOf[j]] # j
      BY <3>1 DEF LeaversSucceeded
    <3> QED
      BY <3>2, <3>3 DEF Excused
  <2> QED
    BY <1>0, <2>1, <2>2, QuietFailed
<1>5. CASE CallFails(j)
  <2>1. faults' # 0 /\ UNCHANGED <<operation, contractVars>>
    BY <1>5 DEF CallFails, Fault
  <2>2. \A k \in Jobs : status'[k] = "reverted" => status[k] = "reverted"
    BY <1>5 DEF CallFails, IntoPool
  <2>3. \A k \in Jobs : Resolves(k)' <=> Resolves(k)
    BY <2>1 DEF Resolves
  <2> QED
    BY <2>1, <2>2, <2>3 DEF FailedInv, contractVars
<1> QED
  BY <1>1, <1>2, <1>3, <1>4, <1>5 DEF Work

LEMMA MineFailed ==
  ASSUME ActionsInv, FailedInv, Mine
  PROVE  FailedInv'
<1> USE DEF ActionsInv, ActionsTypeOK
<1> DEFINE j == Head(pool)
           p == PaymentOf[j]
<1>1. /\ j \in Jobs /\ status[j] = "pool" /\ p \in Payments
      /\ UNCHANGED <<jobVars, faults>>
  <2>1. Len(pool) > 0 /\ j = pool[1]
    BY DEF Mine
  <2>2. status[j] = "pool" /\ j \in Jobs
    BY <2>1 DEF PoolIsPending
  <2> QED
    BY <2>2, JobsAssumption DEF Mine
<1>2. \A k \in Jobs : (Resolves(k)' <=> Resolves(k)) /\ Rivals(k)' = Rivals(k)
  BY <1>1 DEF Resolves, Rivals, jobVars
<1>3. CASE Reverts(j)
  <2>1. status' = [status EXCEPT ![j] = "reverted"] /\ UNCHANGED contractVars
    BY <1>3 DEF Mine
  <2>2. Resolves(j) => payment[p] # "funded"
    BY <1>3 DEF Reverts, Resolves
  <2>3. ASSUME NEW k \in Jobs, Resolves(k), status[k] \in {"none", "reverted"}, Excused(k)
        PROVE  Excused(k)'
    <3>1. CASE leftBy[PaymentOf[k]] \notin {None, k}
      BY <2>1, <3>1 DEF Excused, contractVars
    <3>2. ASSUME NEW l \in Rivals(k), status[l] = "pool"
          PROVE  Excused(k)'
      <4>1. l \in Jobs /\ PaymentOf[l] = PaymentOf[k] /\ Resolves(l)
        BY <2>3, RivalsOfResolver
      <4>2. CASE l # j
        <5>1. status'[l] = "pool"
          BY <2>1, <3>2, <4>1, <4>2
        <5> QED
          BY <1>2, <5>1 DEF Excused
      <4>3. CASE l = j
        <5>1. leftBy[PaymentOf[k]] # None
          BY <1>1, <2>2, <4>1, <4>3 DEF FailedInv
        <5>2. leftBy[PaymentOf[k]] # k
          BY <1>1, <2>3, <4>1, <4>3 DEF LeaversSucceeded
        <5> QED
          BY <2>1, <5>1, <5>2 DEF Excused, contractVars
      <4> QED
        BY <4>2, <4>3
    <3> QED
      BY <2>3, <3>1, <3>2 DEF Excused
  <2>4. \A k \in Jobs \ {j} : status'[k] = status[k]
    BY <2>1
  <2>5. \A k \in Jobs : status[k] \in {"none", "reverted"} => k # j
    BY <1>1
  <2>6. \A k \in Jobs : status'[k] = "reverted" => status[k] = "reverted" \/ k = j
    BY <2>4
  <2> QED
    BY <1>1, <1>2, <2>1, <2>2, <2>3, <2>4, <2>5, <2>6 DEF FailedInv, contractVars, jobVars
<1>4. CASE ~Reverts(j)
  <2>1. /\ status' = [status EXCEPT ![j] = "success"]
        /\ payment' = [payment EXCEPT ![p] = After(j)]
        /\ leftBy' = IF payment[p] = "funded" /\ payment'[p] # "funded"
                       THEN [leftBy EXCEPT ![p] = j] ELSE leftBy
    BY <1>4 DEF Mine, LeavesFunded
  <2>2. /\ \A q \in Payments \ {p} : payment'[q] = payment[q] /\ leftBy'[q] = leftBy[q]
        /\ payment'[p] = After(j)
        /\ leftBy'[p] = IF payment[p] = "funded" /\ payment'[p] # "funded" THEN j ELSE leftBy[p]
    BY <1>1, <2>1
  <2>3. j # None
    BY <1>1, NobodyAssumption
  <2>4. \A q \in Payments : payment'[q] # "funded" => leftBy'[q] # None
    BY <2>2, <2>3 DEF FailedInv
  <2>5. payment[p] # "funded" => payment'[p] # "funded"
    BY <1>1, <1>4, <2>2, Guards, Outcomes DEF Resolves
  <2>6. \A k \in Jobs \ {j} : status'[k] = status[k]
    BY <2>1
  <2>7. \A k \in Jobs : PaymentOf[k] \in Payments
    BY JobsAssumption
  <2>8. \A k \in Jobs : status'[k] = "reverted" => status[k] = "reverted"
    BY <2>1
  <2>9. \A k \in Jobs : payment[PaymentOf[k]] # "funded" => payment'[PaymentOf[k]] # "funded"
    BY <2>2, <2>5, <2>7
  <2>10. ASSUME NEW k \in Jobs, Resolves(k), status[k] \in {"none", "reverted"}, Excused(k)
         PROVE  Excused(k)'
    <3>1. CASE leftBy[PaymentOf[k]] \notin {None, k}
      <4>1. payment[PaymentOf[k]] # "funded"
        BY <2>7, <3>1 DEF LeaversSucceeded
      <4>2. leftBy'[PaymentOf[k]] = leftBy[PaymentOf[k]]
        BY <2>2, <2>7, <4>1
      <4> QED
        BY <3>1, <4>2 DEF Excused
    <3>2. ASSUME NEW l \in Rivals(k), status[l] = "pool"
          PROVE  Excused(k)'
      <4>1. l \in Jobs \ {k} /\ PaymentOf[l] = PaymentOf[k] /\ Resolves(l)
        BY <2>10, RivalsOfResolver
      <4>2. CASE l # j
        <5>1. status'[l] = "pool"
          BY <2>6, <3>2, <4>1, <4>2
        <5> QED
          BY <1>2, <5>1 DEF Excused
      <4>3. CASE l = j
        <5>1. payment[p] = "funded" /\ After(j) # "funded"
          BY <1>4, <4>1, <4>3, Guards, Outcomes DEF Resolves
        <5>2. leftBy'[p] = j
          BY <2>2, <5>1
        <5> QED
          BY <2>3, <4>1, <4>3, <5>2 DEF Excused
      <4> QED
        BY <4>2, <4>3
    <3> QED
      BY <2>10, <3>1, <3>2 DEF Excused
  <2>11. \A k \in Jobs : status[k] \in {"none", "reverted"} => status'[k] = status[k]
    BY <1>1, <2>6
  <2> QED
    BY <1>1, <1>2, <2>4, <2>8, <2>9, <2>10, <2>11 DEF FailedInv, jobVars
<1> QED
  BY <1>3, <1>4

LEMMA FailedStep ==
  ASSUME ActionsInv, FailedInv, ActionsStep, faults' = 0 => faults = 0
  PROVE  FailedInv'
<1> USE DEF ActionsInv, ActionsTypeOK
<1>1. ASSUME NEW j \in Jobs, NEW op \in Operations, Begin(j, op)
      PROVE  FailedInv'
  <2>1. /\ step[j] = "idle" /\ step'[j] = "prepare" /\ status[j] = "none"
        /\ \A k \in Jobs \ {j} : step'[k] = step[k] /\ operation'[k] = operation[k]
        /\ UNCHANGED <<status, contractVars, faults>>
    BY <1>1 DEF Begin, SentOnlyByBroadcast
  <2>2. ASSUME NEW k \in Jobs \ {j}, Excused(k)
        PROVE  Excused(k)'
    <3>1. CASE leftBy[PaymentOf[k]] \notin {None, k}
      BY <2>1, <3>1 DEF Excused, contractVars
    <3>2. ASSUME NEW l \in Rivals(k), status[l] = "pool"
          PROVE  Excused(k)'
      <4>1. l # j /\ l \in Jobs
        BY <2>1, <3>2 DEF Rivals
      <4>2. l \in Rivals(k)'
        BY <2>1, <3>2, <4>1 DEF Rivals
      <4>3. status'[l] = "pool"
        BY <2>1, <3>2
      <4> QED
        BY <4>2, <4>3 DEF Excused
    <3> QED
      BY <2>2, <3>1, <3>2 DEF Excused
  <2>3. \A k \in Jobs \ {j} : Resolves(k)' <=> Resolves(k)
    BY <2>1 DEF Resolves
  <2> QED
    BY <2>1, <2>2, <2>3 DEF FailedInv, contractVars
<1>2. ASSUME NEW p \in Payments, PartyMoves(p)
      PROVE  FailedInv'
  <2>1. /\ UNCHANGED <<jobVars, pool, status, faults>>
        /\ payment'[p] # "funded"
        /\ \A q \in Payments \ {p} : payment'[q] = payment[q] /\ leftBy'[q] = leftBy[q]
        /\ leftBy'[p] = IF payment[p] = "funded" THEN Party ELSE leftBy[p]
    BY <1>2 DEF PartyMoves, LeavesFunded
  <2>2. Party # None /\ Party \notin Jobs
    BY NobodyAssumption
  <2>3. \A k \in Jobs : (Resolves(k)' <=> Resolves(k)) /\ Rivals(k)' = Rivals(k)
    BY <2>1 DEF Resolves, Rivals, jobVars
  <2>4. \A k \in Jobs : PaymentOf[k] \in Payments
    BY JobsAssumption
  <2>5. \A k \in Jobs : leftBy'[PaymentOf[k]] = leftBy[PaymentOf[k]] \/ leftBy'[PaymentOf[k]] = Party
    BY <2>1, <2>4
  <2>6. \A k \in Jobs : Excused(k) => Excused(k)'
    BY <2>1, <2>2, <2>3, <2>5 DEF Excused
  <2>7. \A q \in Payments : payment'[q] # "funded" => leftBy'[q] # None
    BY <2>1, <2>2 DEF FailedInv
  <2>8. \A q \in Payments : payment[q] # "funded" => payment'[q] # "funded"
    BY <2>1
  <2> QED
    BY <2>1, <2>3, <2>4, <2>6, <2>7, <2>8 DEF FailedInv, jobVars
<1>3. CASE ProcessStops
  <2>1. faults' # 0 /\ UNCHANGED <<operation, status, contractVars>>
    BY <1>3 DEF ProcessStops, Fault
  <2>2. \A k \in Jobs : Resolves(k)' <=> Resolves(k)
    BY <2>1 DEF Resolves
  <2> QED
    BY <2>1, <2>2 DEF FailedInv, contractVars
<1>4. CASE ActionsRest
  BY <1>4, QuietFailed DEF ActionsRest, jobVars
<1> QED
  BY <1>1, <1>2, <1>3, <1>4, WorkFailed, MineFailed DEF ActionsStep
=============================================================================
