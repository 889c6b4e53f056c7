------------------------ MODULE BroadcastQueue_proofs ------------------------
(***************************************************************************)
(* Proofs about BroadcastQueue: type correctness, mutual exclusion of the  *)
(* operations of a queue, at most one broadcast per operation, nonces in   *)
(* the order of hand-over, the refinement of SerialExecutor, and what      *)
(* defeats an attempt to send, for any number of operations, queues, other *)
(* processes, faults and retries and for both adapters.                    *)
(***************************************************************************)
EXTENDS BroadcastQueue, FiniteSetTheorems, SequenceTheorems, TLAPS

Started == InSender \cup Settled

(* The operations handed to a queue, each behind the one before it.        *)
Chained ==
  \A q \in Queues :
    /\ tail[q] = IF Len(arrival[q]) = 0 THEN NoOp ELSE arrival[q][Len(arrival[q])]
    /\ \A i \in 1 .. Len(arrival[q]) :
         /\ QueueOf[arrival[q][i]] = q
         /\ pc[arrival[q][i]] # "new"
         /\ previous[arrival[q][i]] = IF i = 1 THEN NoOp ELSE arrival[q][i - 1]

HandedOver ==
  \A o \in Ops : pc[o] # "new" =>
    \E i \in 1 .. Len(arrival[QueueOf[o]]) : arrival[QueueOf[o]][i] = o

HandedOverOnce ==
  \A q \in Queues : \A i, j \in 1 .. Len(arrival[q]) :
    arrival[q][i] = arrival[q][j] => i = j

(* Whoever started has only settled operations before it.                  *)
InOrder ==
  \A q \in Queues : \A i, j \in 1 .. Len(arrival[q]) :
    i < j /\ pc[arrival[q][j]] \in Started => pc[arrival[q][i]] \in Settled

(* Only an operation that settled is on the ledger.                        *)
LedgerSettled ==
  \A n \in DOMAIN ledger : ledger[n] \in Ops => pc[ledger[n]] \in Settled

IInv ==
  /\ TypeOK
  /\ Chained
  /\ HandedOver
  /\ HandedOverOnce
  /\ InOrder
  /\ LedgerSettled
  /\ BroadcastAtMostOnce
  /\ NoncesFollowHandOver

-----------------------------------------------------------------------------
(* What every step of an operation after its hand-over does to pc, and to  *)
(* the ledger.                                                             *)
Moves(o) ==
  /\ pc[o] \in {"chained"} \cup InSender
  /\ pc[o] = "chained" => HasSettled(previous[o])
  /\ \E x \in Started : pc' = [pc EXCEPT ![o] = x]
  /\ UNCHANGED queueVars

Records(o) ==
  \/ ledger' = ledger
  \/ /\ ledger' = Append(ledger, o)
     /\ pc[o] = "sending"
     /\ pc'[o] \in Settled

(* An attempt that fails backs off or fails the operation.                 *)
LEMMA CatchMoves ==
  ASSUME TypeOK, NEW o \in Ops, NEW error \in {"revert", "too-low", "too-high", "rpc"},
         Catch(o, error)
  PROVE  /\ \E x \in Started : pc' = [pc EXCEPT ![o] = x]
         /\ pc' \in [Ops -> {"new", "chained"} \cup InSender \cup Settled]
         /\ retry' \in [Ops -> 0 .. RetryLimit]
         /\ cause' \in [Ops -> {"none", "revert", "too-low", "too-high", "rpc"}]
         /\ error = "rpc" => pc'[o] = "failed"
<1>1. CASE IsNonceConflict(error) /\ MayRetry(o)
  <2>1. /\ pc' = [pc EXCEPT ![o] = "backoff"]
        /\ retry' = [retry EXCEPT ![o] = @ + 1]
        /\ cause' = cause
    BY <1>1 DEF Catch
  <2>2. retry[o] \in 0 .. RetryLimit /\ retry[o] < RetryLimit
    BY <1>1 DEF TypeOK, MayRetry
  <2>3. retry[o] + 1 \in 0 .. RetryLimit
    BY <2>2, RetryLimitAssumption
  <2>4. adapter = "viem" \/ adapter = "ethers"
    BY DEF TypeOK, Adapters
  <2>5. error # "rpc"
    BY <1>1, <2>4 DEF IsNonceConflict, ConflictsByAdapter
  <2> QED
    BY <2>1, <2>3, <2>5 DEF TypeOK, Started, InSender
<1>2. CASE ~(IsNonceConflict(error) /\ MayRetry(o))
  <2>1. /\ pc' = [pc EXCEPT ![o] = "failed"]
        /\ cause' = [cause EXCEPT ![o] = error]
        /\ retry' = retry
    BY <1>2 DEF Catch
  <2> QED
    BY <2>1 DEF TypeOK, Started, Settled
<1> QED
  BY <1>1, <1>2

LEMMA ProgressMoves ==
  ASSUME TypeOK, NEW o \in Ops, Progress(o)
  PROVE  Moves(o) /\ Records(o)
<1>1. CASE Start(o)
  BY <1>1 DEF Start, MayStart, Moves, Records, Started, InSender, queueVars, networkVars, TypeOK
<1>2. CASE TakeTurn(o)
  BY <1>2 DEF TakeTurn, Moves, Records, Started, InSender, queueVars, networkVars, TypeOK
<1>3. CASE Attempt(o)
  <2>1. CASE Estimate(o) \/ BackoffElapses(o)
    BY <2>1 DEF Estimate, BackoffElapses, Moves, Records, Started, InSender, queueVars,
                networkVars, TypeOK
  <2>2. CASE EstimateReverts(o) \/ NonceTooLow(o)
    BY <2>2, CatchMoves DEF EstimateReverts, NonceTooLow, Moves, Records, InSender, queueVars,
                networkVars
  <2>3. CASE \E error \in {"too-high", "rpc"} : Refuse(o, error)
    BY <2>3, CatchMoves DEF Refuse, Moves, Records, InSender, queueVars
  <2>4. CASE Accept(o)
    BY <2>4 DEF Accept, Moves, Records, Started, InSender, Settled, queueVars, TypeOK
  <2>5. CASE AnswerLost(o)
    BY <2>5, CatchMoves DEF AnswerLost, Moves, Records, InSender, Settled, queueVars
  <2> QED
    BY <1>3, <2>1, <2>2, <2>3, <2>4, <2>5 DEF Attempt
<1> QED
  BY <1>1, <1>2, <1>3 DEF Progress

-----------------------------------------------------------------------------
LEMMA TypeInit == Init => TypeOK
  BY QueueOfAssumption, RetryLimitAssumption DEF Init, TypeOK, Settled, InSender

LEMMA TypeStep ==
  ASSUME TypeOK, [Next]_vars
  PROVE  TypeOK'
<1>1. ASSUME NEW o \in Ops, HandOver(o)
      PROVE  TypeOK'
  <2> QueueOf[o] \in Queues
    BY QueueOfAssumption
  <2> QED
    BY <1>1 DEF HandOver, TypeOK, senderVars, attemptVars, networkVars, Settled, InSender
<1>2. ASSUME NEW o \in Ops, Start(o) \/ TakeTurn(o) \/ BackoffElapses(o)
      PROVE  TypeOK'
  BY <1>2 DEF Start, TakeTurn, BackoffElapses, TypeOK, queueVars, senderVars, attemptVars,
              networkVars, InSender
<1>3. ASSUME NEW o \in Ops, Estimate(o)
      PROVE  TypeOK'
  <2> Len(ledger) \in Nat
    BY DEF TypeOK
  <2> QED
    BY <1>3 DEF Estimate, TypeOK, queueVars, senderVars, networkVars, InSender
<1>4. ASSUME NEW o \in Ops, EstimateReverts(o) \/ NonceTooLow(o)
      PROVE  TypeOK'
  BY <1>4, CatchMoves DEF EstimateReverts, NonceTooLow, TypeOK, queueVars, senderVars, networkVars
<1>5. ASSUME NEW o \in Ops, NEW error \in {"too-high", "rpc"}, Refuse(o, error)
      PROVE  TypeOK'
  BY <1>5, CatchMoves DEF Refuse, TypeOK, queueVars, senderVars
<1>6. ASSUME NEW o \in Ops, Accept(o)
      PROVE  TypeOK'
  BY <1>6 DEF Accept, TypeOK, queueVars, senderVars, attemptVars, Settled
<1>7. ASSUME NEW o \in Ops, AnswerLost(o)
      PROVE  TypeOK'
  BY <1>7, CatchMoves DEF AnswerLost, TypeOK, queueVars, senderVars
<1>8. CASE ForeignSend
  BY <1>8 DEF ForeignSend, TypeOK, queueVars, senderVars, attemptVars
<1>9. CASE UNCHANGED vars
  BY <1>9 DEF vars, TypeOK, queueVars, senderVars, attemptVars, networkVars
<1> QED
  BY <1>1, <1>2, <1>3, <1>4, <1>5, <1>6, <1>7, <1>8, <1>9 DEF Next, Progress, Attempt

(* The state of the queues and senders stays within its types, for every   *)
(* set of operations and queues and every retry limit.                     *)
THEOREM TypeCorrect == Spec => []TypeOK
<1>1. TypeOK /\ [Next]_vars => TypeOK'
  BY TypeStep
<1> QED
  BY TypeInit, <1>1, PTL DEF Spec

-----------------------------------------------------------------------------
(* A new operation goes to the end of its queue.                           *)
LEMMA HandOverKeepsOrder ==
  ASSUME IInv, NEW o \in Ops, HandOver(o)
  PROVE  Chained' /\ HandedOver' /\ HandedOverOnce' /\ InOrder'
<1> DEFINE q == QueueOf[o]
           n == Len(arrival[q])
<1>1. /\ q \in Queues
      /\ arrival[q] \in Seq(Ops)
      /\ n \in Nat
  BY QueueOfAssumption DEF IInv, TypeOK
<1>2. /\ pc[o] = "new"
      /\ pc' = [pc EXCEPT ![o] = "chained"]
      /\ previous' = [previous EXCEPT ![o] = tail[q]]
      /\ tail' = [tail EXCEPT ![q] = o]
      /\ arrival' = [arrival EXCEPT ![q] = Append(@, o)]
  BY DEF HandOver
<1>3. /\ Len(arrival'[q]) = n + 1
      /\ arrival'[q][n + 1] = o
      /\ \A i \in 1 .. n : arrival'[q][i] = arrival[q][i]
      /\ \A p \in Queues \ {q} : arrival'[p] = arrival[p]
  BY <1>1, <1>2 DEF IInv, TypeOK
<1>4. \A p \in Queues : \A i \in 1 .. Len(arrival[p]) :
        /\ arrival[p][i] \in Ops
        /\ arrival[p][i] # o
  BY <1>2 DEF IInv, Chained, TypeOK
<1>4a. \A a \in Ops \ {o} : pc'[a] = pc[a] /\ previous'[a] = previous[a]
  BY <1>2 DEF IInv, TypeOK
<1>5. Chained'
  <2> SUFFICES ASSUME NEW p \in Queues
               PROVE  /\ tail'[p] = IF Len(arrival'[p]) = 0 THEN NoOp
                                    ELSE arrival'[p][Len(arrival'[p])]
                      /\ \A i \in 1 .. Len(arrival'[p]) :
                           /\ QueueOf[arrival'[p][i]] = p
                           /\ pc'[arrival'[p][i]] # "new"
                           /\ previous'[arrival'[p][i]] =
                                IF i = 1 THEN NoOp ELSE arrival'[p][i - 1]
    BY DEF Chained
  <2>1. CASE p # q
    <3>1. tail'[p] = tail[p] /\ arrival'[p] = arrival[p]
      BY <2>1, <1>2, <1>3 DEF IInv, TypeOK
    <3> QED
      BY <3>1, <1>4, <1>4a DEF IInv, Chained
  <2>2. CASE p = q
    <3>1. tail'[q] = o
      BY <1>1, <1>2 DEF IInv, TypeOK
    <3>2. ASSUME NEW i \in 1 .. n
          PROVE  /\ QueueOf[arrival'[q][i]] = q
                 /\ pc'[arrival'[q][i]] # "new"
                 /\ previous'[arrival'[q][i]] = IF i = 1 THEN NoOp ELSE arrival'[q][i - 1]
      <4>1. arrival'[q][i] = arrival[q][i] /\ arrival[q][i] \in Ops \ {o}
        BY <1>1, <1>3, <1>4
      <4>2. i # 1 => i - 1 \in 1 .. n
        BY <1>1
      <4>3. /\ QueueOf[arrival[q][i]] = q
            /\ pc[arrival[q][i]] # "new"
            /\ previous[arrival[q][i]] = IF i = 1 THEN NoOp ELSE arrival[q][i - 1]
        BY <1>1 DEF IInv, Chained
      <4>4. pc'[arrival[q][i]] # "new" /\ previous'[arrival[q][i]] = previous[arrival[q][i]]
        BY <4>1, <4>3, <1>4a
      <4>5. i # 1 => arrival'[q][i - 1] = arrival[q][i - 1]
        BY <4>2, <1>3
      <4> QED
        BY <4>1, <4>3, <4>4, <4>5
    <3>3. pc'[o] = "chained" /\ previous'[o] = tail[q]
      BY <1>2 DEF IInv, TypeOK
    <3>4. tail[q] = IF n + 1 = 1 THEN NoOp ELSE arrival'[q][n]
      BY <1>1, <1>3 DEF IInv, Chained
    <3>5. n + 1 # 0 /\ (n + 1) - 1 = n
      BY <1>1
    <3>6. \A i \in 1 .. n + 1 : i \in 1 .. n \/ i = n + 1
      BY <1>1
    <3>7. tail'[q] = IF Len(arrival'[q]) = 0 THEN NoOp ELSE arrival'[q][Len(arrival'[q])]
      BY <3>1, <3>5, <1>1, <1>3
    <3>8. /\ QueueOf[arrival'[q][n + 1]] = q
          /\ pc'[arrival'[q][n + 1]] # "new"
          /\ previous'[arrival'[q][n + 1]] =
               IF n + 1 = 1 THEN NoOp ELSE arrival'[q][(n + 1) - 1]
      BY <3>3, <3>4, <3>5, <1>1, <1>3
    <3>9. ASSUME NEW i \in 1 .. Len(arrival'[q])
          PROVE  /\ QueueOf[arrival'[q][i]] = q
                 /\ pc'[arrival'[q][i]] # "new"
                 /\ previous'[arrival'[q][i]] = IF i = 1 THEN NoOp ELSE arrival'[q][i - 1]
      <4>1. CASE i \in 1 .. n
        BY <4>1, <3>2
      <4>2. CASE i = n + 1
        BY <4>2, <3>8
      <4> QED
        BY <4>1, <4>2, <3>6, <1>3
    <3> QED
      BY <2>2, <3>7, <3>9
  <2> QED
    BY <2>1, <2>2
<1>6. HandedOver'
  <2> SUFFICES ASSUME NEW a \in Ops, pc'[a] # "new"
               PROVE  \E i \in 1 .. Len(arrival'[QueueOf[a]]) : arrival'[QueueOf[a]][i] = a
    BY DEF HandedOver
  <2>1. CASE a = o
    BY <2>1, <1>1, <1>3
  <2>2. CASE a # o
    <3>1. pc[a] # "new" /\ QueueOf[a] \in Queues
      BY <2>2, <1>2, QueueOfAssumption DEF IInv, TypeOK
    <3>2. PICK i \in 1 .. Len(arrival[QueueOf[a]]) : arrival[QueueOf[a]][i] = a
      BY <3>1 DEF IInv, HandedOver
    <3> QED
      BY <3>1, <3>2, <1>1, <1>3
  <2> QED
    BY <2>1, <2>2
<1>7. HandedOverOnce'
  <2> SUFFICES ASSUME NEW p \in Queues,
                      NEW i \in 1 .. Len(arrival'[p]), NEW j \in 1 .. Len(arrival'[p]),
                      arrival'[p][i] = arrival'[p][j]
               PROVE  i = j
    BY DEF HandedOverOnce
  <2>1. CASE p # q
    BY <2>1, <1>3 DEF IInv, HandedOverOnce
  <2>2. CASE p = q
    <3>1. \A k \in 1 .. n + 1 : k \in 1 .. n \/ k = n + 1
      BY <1>1
    <3>2. \A k \in 1 .. n : arrival'[q][k] = arrival[q][k] /\ arrival[q][k] # o
      BY <1>1, <1>3, <1>4
    <3>3. i \in 1 .. n + 1 /\ j \in 1 .. n + 1
      BY <2>2, <1>3
    <3>4. CASE i \in 1 .. n /\ j \in 1 .. n
      <4>1. arrival[q][i] = arrival[q][j]
        BY <2>2, <3>2, <3>4
      <4> QED
        BY <4>1, <3>4, <1>1 DEF IInv, HandedOverOnce
    <3>5. CASE i = n + 1 /\ j \in 1 .. n
      BY <2>2, <3>2, <3>5, <1>3
    <3>6. CASE i \in 1 .. n /\ j = n + 1
      BY <2>2, <3>2, <3>6, <1>3
    <3> QED
      BY <3>1, <3>3, <3>4, <3>5, <3>6
  <2> QED
    BY <2>1, <2>2
<1>8. InOrder'
  <2> SUFFICES ASSUME NEW p \in Queues,
                      NEW i \in 1 .. Len(arrival'[p]), NEW j \in 1 .. Len(arrival'[p]),
                      i < j, pc'[arrival'[p][j]] \in Started
               PROVE  pc'[arrival'[p][i]] \in Settled
    BY DEF InOrder
  <2>1. pc'[o] = "chained" /\ "chained" \notin Started
    BY <1>2 DEF IInv, TypeOK, Started, InSender, Settled
  <2>2. i \in 1 .. Len(arrival[p]) /\ j \in 1 .. Len(arrival[p])
    BY <2>1, <1>1, <1>3
  <2>3. arrival'[p][i] = arrival[p][i] /\ arrival'[p][j] = arrival[p][j]
    BY <2>2, <1>3
  <2> QED
    BY <2>2, <2>3, <1>2, <1>4 DEF IInv, InOrder, TypeOK
<1> QED
  BY <1>5, <1>6, <1>7, <1>8

(* A later step of an operation settles no other and starts it only behind *)
(* settled ones.                                                           *)
LEMMA MoveKeepsOrder ==
  ASSUME IInv, NEW o \in Ops, Moves(o)
  PROVE  Chained' /\ HandedOver' /\ HandedOverOnce' /\ InOrder'
<1>1. PICK x \in Started : pc' = [pc EXCEPT ![o] = x]
  BY DEF Moves
<1>2. tail' = tail /\ previous' = previous /\ arrival' = arrival
  BY DEF Moves, queueVars
<1>3. /\ pc'[o] \in Started
      /\ \A a \in Ops \ {o} : pc'[a] = pc[a]
      /\ pc[o] # "new"
      /\ pc[o] \notin Settled
      /\ "new" \notin Started
  BY <1>1 DEF Moves, IInv, TypeOK, Started, InSender, Settled
<1>4. \A q \in Queues : \A i \in 1 .. Len(arrival[q]) : arrival[q][i] \in Ops
  BY DEF IInv, TypeOK
<1>5. Chained'
  BY <1>2, <1>3, <1>4 DEF IInv, Chained
<1>6. HandedOver'
  BY <1>2, <1>3 DEF IInv, HandedOver
<1>7. HandedOverOnce'
  BY <1>2 DEF IInv, HandedOverOnce
<1>8. InOrder'
  <2> SUFFICES ASSUME NEW q \in Queues,
                      NEW i \in 1 .. Len(arrival[q]), NEW j \in 1 .. Len(arrival[q]),
                      i < j, pc'[arrival[q][j]] \in Started
               PROVE  pc'[arrival[q][i]] \in Settled
    BY <1>2 DEF InOrder
  <2> DEFINE a == arrival[q][i]
             b == arrival[q][j]
  <2>1. a \in Ops /\ b \in Ops
    BY <1>4
  <2>2. pc[b] \in Started => pc[a] \in Settled
    BY DEF IInv, InOrder
  <2>3. pc[a] \in Settled => pc'[a] \in Settled
    BY <1>3, <2>1
  <2>4. CASE b # o \/ pc[b] \in Started
    BY <2>1, <2>2, <2>3, <2>4, <1>3
  <2>5. CASE b = o /\ pc[b] \notin Started
    <3>1. pc[o] = "chained" /\ HasSettled(previous[o])
      BY <2>5 DEF Moves, Started
    <3>2. j # 1 /\ j - 1 \in 1 .. Len(arrival[q])
      <4>1. Len(arrival[q]) \in Nat
        BY DEF IInv, TypeOK
      <4> QED
        BY <4>1
    <3>3. previous[o] = arrival[q][j - 1]
      BY <2>5, <3>2 DEF IInv, Chained
    <3>4. arrival[q][j - 1] \in Ops /\ arrival[q][j - 1] # NoOp
      BY <3>2, <1>4, NoOpAssumption
    <3>5. pc[arrival[q][j - 1]] \in Settled
      BY <3>1, <3>3, <3>4 DEF HasSettled
    <3>6. CASE i = j - 1
      BY <3>5, <3>6, <2>3
    <3>7. CASE i < j - 1
      BY <3>2, <3>5, <3>7, <2>3 DEF IInv, InOrder, Started
    <3>8. i = j - 1 \/ i < j - 1
      <4>1. Len(arrival[q]) \in Nat
        BY DEF IInv, TypeOK
      <4>2. i \in Nat /\ j \in Nat
        BY <4>1
      <4> QED
        BY <4>2
    <3> QED
      BY <3>6, <3>7, <3>8
  <2> QED
    BY <2>4, <2>5
<1> QED
  BY <1>5, <1>6, <1>7, <1>8

-----------------------------------------------------------------------------
(* The ledger grows by the transaction of an operation that settles.       *)
LEMMA RecordKeepsLedger ==
  ASSUME IInv, NEW o \in Ops, Moves(o), Records(o)
  PROVE  LedgerSettled' /\ BroadcastAtMostOnce' /\ NoncesFollowHandOver'
<1>1. PICK x \in Started : pc' = [pc EXCEPT ![o] = x]
  BY DEF Moves
<1>2. /\ \A a \in Ops \ {o} : pc'[a] = pc[a]
      /\ pc[o] \notin Settled
      /\ arrival' = arrival
  BY <1>1 DEF Moves, IInv, TypeOK, InSender, Settled, queueVars
<1>3. ledger \in Seq(Ops \cup {Foreign})
  BY DEF IInv, TypeOK
<1>4. \A n \in DOMAIN ledger : ledger[n] # o
  BY <1>2 DEF IInv, LedgerSettled
<1>5. CASE ledger' = ledger
  BY <1>2, <1>4, <1>5 DEF IInv, LedgerSettled, BroadcastAtMostOnce, NoncesFollowHandOver
<1>6. CASE ledger' = Append(ledger, o) /\ pc[o] = "sending" /\ pc'[o] \in Settled
  <2> DEFINE top == Len(ledger) + 1
  <2>1. /\ Len(ledger) \in Nat
        /\ DOMAIN ledger = 1 .. Len(ledger)
        /\ DOMAIN ledger' = 1 .. top
        /\ ledger'[top] = o
        /\ \A n \in 1 .. Len(ledger) : ledger'[n] = ledger[n]
    BY <1>3, <1>6
  <2>2. \A n \in DOMAIN ledger' : n = top \/ n \in DOMAIN ledger
    BY <2>1
  <2>3. LedgerSettled'
    BY <1>2, <1>6, <2>1, <2>2 DEF IInv, LedgerSettled
  <2>4. BroadcastAtMostOnce'
    BY <1>4, <2>1, <2>2 DEF IInv, BroadcastAtMostOnce
  <2>5. NoncesFollowHandOver'
    <3> SUFFICES ASSUME NEW q \in Queues,
                        NEW i \in DOMAIN arrival[q], NEW j \in DOMAIN arrival[q],
                        NEW m \in DOMAIN ledger', NEW n \in DOMAIN ledger',
                        i < j, ledger'[m] = arrival[q][i], ledger'[n] = arrival[q][j]
                 PROVE  m < n
      BY <1>2 DEF NoncesFollowHandOver
    <3>1. arrival[q][i] \in Ops /\ arrival[q][j] \in Ops
      BY DEF IInv, TypeOK
    <3>2. DOMAIN arrival[q] = 1 .. Len(arrival[q]) /\ Len(arrival[q]) \in Nat
      BY DEF IInv, TypeOK
    <3>3. CASE m \in DOMAIN ledger /\ n \in DOMAIN ledger
      <4>1. ledger[m] = arrival[q][i] /\ ledger[n] = arrival[q][j]
        BY <2>1, <3>3
      <4> QED
        BY <4>1, <3>3 DEF IInv, NoncesFollowHandOver
    <3>4. CASE m \in DOMAIN ledger /\ n = top
      BY <2>1, <3>4
    <3>5. CASE m = top /\ n \in DOMAIN ledger
      <4>1. pc[arrival[q][j]] \in Settled
        BY <2>1, <3>1, <3>5 DEF IInv, LedgerSettled
      <4>2. pc[arrival[q][i]] \in Settled
        BY <4>1, <3>2 DEF IInv, InOrder, Started
      <4>3. arrival[q][i] = o
        BY <2>1, <3>5
      <4> QED
        BY <4>2, <4>3, <1>2
    <3>6. CASE m = top /\ n = top
      <4>1. arrival[q][i] = arrival[q][j]
        BY <3>6
      <4> QED
        BY <4>1, <3>2 DEF IInv, HandedOverOnce
    <3> QED
      BY <2>2, <3>3, <3>4, <3>5, <3>6
  <2> QED
    BY <2>3, <2>4, <2>5
<1> QED
  BY <1>5, <1>6 DEF Records

(* A hand-over and a transaction of another process leave it in order.     *)
LEMMA HandOverKeepsLedger ==
  ASSUME IInv, NEW o \in Ops, HandOver(o)
  PROVE  LedgerSettled' /\ BroadcastAtMostOnce' /\ NoncesFollowHandOver'
<1>1. /\ pc[o] = "new"
      /\ \A a \in Ops \ {o} : pc'[a] = pc[a]
      /\ ledger' = ledger
      /\ arrival' = [arrival EXCEPT ![QueueOf[o]] = Append(@, o)]
      /\ QueueOf[o] \in Queues
  BY QueueOfAssumption DEF HandOver, networkVars, IInv, TypeOK
<1>2. \A n \in DOMAIN ledger : ledger[n] # o
  BY <1>1 DEF IInv, LedgerSettled, Settled
<1>3. LedgerSettled' /\ BroadcastAtMostOnce'
  BY <1>1, <1>2 DEF IInv, LedgerSettled, BroadcastAtMostOnce
<1>4. NoncesFollowHandOver'
  <2> SUFFICES ASSUME NEW q \in Queues,
                      NEW i \in DOMAIN arrival'[q], NEW j \in DOMAIN arrival'[q],
                      NEW m \in DOMAIN ledger, NEW n \in DOMAIN ledger,
                      i < j, ledger[m] = arrival'[q][i], ledger[n] = arrival'[q][j]
               PROVE  m < n
    BY <1>1 DEF NoncesFollowHandOver
  <2>1. arrival[q] \in Seq(Ops)
    BY DEF IInv, TypeOK
  <2>2. CASE q # QueueOf[o]
    <3>1. arrival'[q] = arrival[q]
      BY <1>1, <2>2 DEF IInv, TypeOK
    <3> QED
      BY <3>1 DEF IInv, NoncesFollowHandOver
  <2>3. CASE q = QueueOf[o]
    <3>1. arrival'[q] = Append(arrival[q], o)
      BY <1>1, <2>3 DEF IInv, TypeOK
    <3>2. /\ DOMAIN arrival[q] = 1 .. Len(arrival[q])
          /\ DOMAIN arrival'[q] = 1 .. Len(arrival[q]) + 1
          /\ arrival'[q][Len(arrival[q]) + 1] = o
          /\ \A k \in 1 .. Len(arrival[q]) : arrival'[q][k] = arrival[q][k]
          /\ Len(arrival[q]) \in Nat
      BY <2>1, <3>1
    <3>3. i # Len(arrival[q]) + 1 /\ j # Len(arrival[q]) + 1
      BY <1>2, <3>2
    <3>4. i \in DOMAIN arrival[q] /\ j \in DOMAIN arrival[q]
      BY <3>2, <3>3
    <3> QED
      BY <3>2, <3>4 DEF IInv, NoncesFollowHandOver
  <2> QED
    BY <2>2, <2>3
<1> QED
  BY <1>3, <1>4

LEMMA ForeignSendKeepsAll ==
  ASSUME IInv, ForeignSend
  PROVE  IInv'
<1>1. /\ ledger' = Append(ledger, Foreign)
      /\ pc' = pc /\ tail' = tail /\ previous' = previous /\ arrival' = arrival
  BY DEF ForeignSend, queueVars
<1>2. TypeOK'
  BY TypeStep DEF IInv, Next
<1>3. Chained' /\ HandedOver' /\ HandedOverOnce' /\ InOrder'
  <2>1. Chained'
    BY <1>1 DEF IInv, Chained
  <2>2. HandedOver'
    BY <1>1 DEF IInv, HandedOver
  <2>3. HandedOverOnce'
    BY <1>1 DEF IInv, HandedOverOnce
  <2>4. InOrder'
    BY <1>1 DEF IInv, InOrder
  <2> QED
    BY <2>1, <2>2, <2>3, <2>4
<1> DEFINE top == Len(ledger) + 1
<1>4. /\ Len(ledger) \in Nat
      /\ DOMAIN ledger = 1 .. Len(ledger)
      /\ DOMAIN ledger' = 1 .. top
      /\ ledger'[top] = Foreign
      /\ \A n \in 1 .. Len(ledger) : ledger'[n] = ledger[n]
  BY <1>1 DEF IInv, TypeOK
<1>5. \A n \in DOMAIN ledger' : n = top \/ n \in DOMAIN ledger
  BY <1>4
<1>6. LedgerSettled'
  BY <1>1, <1>4, <1>5, ForeignAssumption DEF IInv, LedgerSettled
<1>7. BroadcastAtMostOnce'
  BY <1>4, <1>5, ForeignAssumption DEF IInv, BroadcastAtMostOnce
<1>8. NoncesFollowHandOver'
  <2> SUFFICES ASSUME NEW q \in Queues,
                      NEW i \in DOMAIN arrival[q], NEW j \in DOMAIN arrival[q],
                      NEW m \in DOMAIN ledger', NEW n \in DOMAIN ledger',
                      i < j, ledger'[m] = arrival[q][i], ledger'[n] = arrival[q][j]
               PROVE  m < n
    BY <1>1 DEF NoncesFollowHandOver
  <2>1. arrival[q][i] \in Ops /\ arrival[q][j] \in Ops
    BY DEF IInv, TypeOK
  <2>2. m \in DOMAIN ledger /\ n \in DOMAIN ledger
    BY <1>4, <1>5, <2>1, ForeignAssumption
  <2>3. ledger[m] = arrival[q][i] /\ ledger[n] = arrival[q][j]
    BY <1>4, <2>2
  <2> QED
    BY <2>2, <2>3 DEF IInv, NoncesFollowHandOver
<1> QED
  BY <1>2, <1>3, <1>6, <1>7, <1>8 DEF IInv

-----------------------------------------------------------------------------
LEMMA InvInit == Init => IInv
<1> SUFFICES ASSUME Init
             PROVE  IInv
  OBVIOUS
<1>1. TypeOK
  BY TypeInit
<1>2. \A q \in Queues : arrival[q] = <<>> /\ tail[q] = NoOp
  BY DEF Init
<1>3. ledger = <<>> /\ DOMAIN ledger = {}
  BY DEF Init
<1>4. Chained /\ HandedOver /\ HandedOverOnce /\ InOrder
  BY <1>2 DEF Init, Chained, HandedOver, HandedOverOnce, InOrder
<1>5. LedgerSettled /\ BroadcastAtMostOnce /\ NoncesFollowHandOver
  BY <1>3 DEF LedgerSettled, BroadcastAtMostOnce, NoncesFollowHandOver
<1> QED
  BY <1>1, <1>4, <1>5 DEF IInv

LEMMA InvStep == IInv /\ [Next]_vars => IInv'
<1> SUFFICES ASSUME IInv, [Next]_vars
             PROVE  IInv'
  OBVIOUS
<1>1. TypeOK'
  BY TypeStep DEF IInv
<1>2. ASSUME NEW o \in Ops, HandOver(o)
      PROVE  IInv'
  BY <1>1, <1>2, HandOverKeepsOrder, HandOverKeepsLedger DEF IInv
<1>3. ASSUME NEW o \in Ops, Progress(o)
      PROVE  IInv'
  <2>1. Moves(o) /\ Records(o)
    BY <1>3, ProgressMoves DEF IInv
  <2> QED
    BY <1>1, <2>1, MoveKeepsOrder, RecordKeepsLedger DEF IInv
<1>4. CASE ForeignSend
  BY <1>4, ForeignSendKeepsAll
<1>5. CASE UNCHANGED vars
  <2>1. /\ pc' = pc /\ tail' = tail /\ previous' = previous
        /\ ledger' = ledger /\ arrival' = arrival
    BY <1>5 DEF vars, queueVars, networkVars
  <2>2. Chained' /\ HandedOver' /\ HandedOverOnce' /\ InOrder'
    BY <2>1 DEF IInv, Chained, HandedOver, HandedOverOnce, InOrder
  <2>3. LedgerSettled' /\ BroadcastAtMostOnce' /\ NoncesFollowHandOver'
    BY <2>1 DEF IInv, LedgerSettled, BroadcastAtMostOnce, NoncesFollowHandOver
  <2> QED
    BY <1>1, <2>2, <2>3 DEF IInv
<1> QED
  BY <1>2, <1>3, <1>4, <1>5 DEF Next

(* Of two operations of one queue the earlier has settled once the later   *)
(* has started, so they are never both inside the sender.                  *)
LEMMA InvExcludes == IInv => MutualExclusion
<1> SUFFICES ASSUME IInv, NEW a \in Ops, NEW b \in Ops,
                    QueueOf[a] = QueueOf[b], pc[a] \in InSender, pc[b] \in InSender
             PROVE  a = b
  BY DEF MutualExclusion
<1> DEFINE q == QueueOf[a]
<1>1. q \in Queues /\ Len(arrival[q]) \in Nat
  BY QueueOfAssumption DEF IInv, TypeOK
<1>2. pc[a] # "new" /\ pc[b] # "new"
  BY DEF InSender
<1>3. PICK i \in 1 .. Len(arrival[q]) : arrival[q][i] = a
  BY <1>2 DEF IInv, HandedOver
<1>4. PICK j \in 1 .. Len(arrival[q]) : arrival[q][j] = b
  BY <1>2 DEF IInv, HandedOver
<1>5. pc[a] \notin Settled /\ pc[b] \notin Settled
  BY DEF InSender, Settled
<1>6. ~(i < j) /\ ~(j < i)
  BY <1>1, <1>3, <1>4, <1>5 DEF IInv, InOrder, Started
<1>7. i = j
  BY <1>1, <1>6
<1> QED
  BY <1>3, <1>4, <1>7

(* One operation of a queue at a time is inside the sender, whatever       *)
(* failed before it (createBroadcastQueue).                                *)
THEOREM QueueExcludes == Spec => []MutualExclusion
  BY InvInit, InvStep, InvExcludes, PTL DEF Spec

(* One call of broadcastInQueue puts at most one transaction on the        *)
(* network, through nonce retries and lost answers (sendWithNonceRetry).   *)
THEOREM SendsOnce == Spec => []BroadcastAtMostOnce
<1>1. IInv => BroadcastAtMostOnce
  BY DEF IInv
<1> QED
  BY InvInit, InvStep, <1>1, PTL DEF Spec

(* Transactions of one queue reach the ledger in the order in which they   *)
(* were handed over, whatever other queues and processes send in between.  *)
THEOREM NoncesInOrder == Spec => []NoncesFollowHandOver
<1>1. IInv => NoncesFollowHandOver
  BY DEF IInv
<1> QED
  BY InvInit, InvStep, <1>1, PTL DEF Spec

-----------------------------------------------------------------------------
(* The operations of a queue that have not begun are the last ones of it.  *)
Cut(ops, at, n) ==
  /\ n \in 0 .. Len(ops)
  /\ \A i \in 1 .. Len(ops) : at[ops[i]] = "chained" <=> i > n

WaitingLast == \A q \in Queues : \E n \in 0 .. Len(arrival[q]) : Cut(arrival[q], pc, n)

ExecutorInv == IInv /\ WaitingLast

Executing == <<waiting, active, finished>>

LEMMA BegunIsCut ==
  ASSUME NEW ops \in Seq(Ops), NEW at, NEW n, Cut(ops, at, n)
  PROVE  Begun(ops, at) = n
<1> DEFINE Fits(k) == /\ \A i \in 1 .. k : at[ops[i]] # "chained"
                      /\ k < Len(ops) => at[ops[k + 1]] = "chained"
<1>1. Len(ops) \in Nat /\ n \in 0 .. Len(ops)
  BY DEF Cut
<1>2. Fits(n)
  BY <1>1 DEF Cut
<1>3. ASSUME NEW k \in 0 .. Len(ops), Fits(k)
      PROVE  k = n
  <2>1. CASE k < n
    <3>1. k + 1 \in 1 .. Len(ops) /\ ~(k + 1 > n) /\ k < Len(ops)
      BY <1>1, <2>1
    <3> QED
      BY <1>3, <3>1 DEF Cut
  <2>2. CASE n < k
    <3>1. n + 1 \in 1 .. k /\ n + 1 \in 1 .. Len(ops) /\ n + 1 > n
      BY <1>1, <2>2
    <3> QED
      BY <1>3, <3>1 DEF Cut
  <2> QED
    BY <1>1, <2>1, <2>2
<1> HIDE DEF Fits
<1>4. (CHOOSE k \in 0 .. Len(ops) : Fits(k)) = n
  BY <1>1, <1>2, <1>3
<1> QED
  BY <1>4 DEF Begun, Fits

LEMMA OneOfOne ==
  ASSUME NEW o, NEW running, running = {o}
  PROVE  OneOf(running) = o
  BY DEF OneOf

LEMMA OneOfNone ==
  ASSUME NEW running, running = {}
  PROVE  OneOf(running) = NoOp
  BY DEF OneOf

LEMMA WhileWaiting ==
  ASSUME NEW q \in Queues, NEW n, arrival[q] \in Seq(Ops), Cut(arrival[q], pc, n)
  PROVE  waiting[q] = SubSeq(arrival[q], n + 1, Len(arrival[q]))
  BY BegunIsCut DEF waiting

(* The executor that the queues implement, with what it runs in the next   *)
(* state.                                                                  *)
LEMMA NextWaiting ==
  ASSUME NEW q \in Queues, NEW n, arrival'[q] \in Seq(Ops), Cut(arrival'[q], pc', n)
  PROVE  waiting'[q] = SubSeq(arrival'[q], n + 1, Len(arrival'[q]))
  BY BegunIsCut DEF waiting

LEMMA ArrivalTypes ==
  ASSUME IInv, NEW q \in Queues
  PROVE  /\ arrival[q] \in Seq(Ops) /\ Len(arrival[q]) \in Nat
         /\ \A i \in 1 .. Len(arrival[q]) : arrival[q][i] \in Ops /\ QueueOf[arrival[q][i]] = q
  BY DEF IInv, TypeOK, Chained

(* A hand-over enqueues.                                                   *)
LEMMA HandOverEnqueues ==
  ASSUME ExecutorInv, NEW o \in Ops, HandOver(o)
  PROVE  WaitingLast' /\ Executor!Enqueue(o, QueueOf[o])
<1> DEFINE q == QueueOf[o]
<1>1. /\ q \in Queues
      /\ pc[o] = "new" /\ pc'[o] = "chained" /\ \A a \in Ops \ {o} : pc'[a] = pc[a]
      /\ arrival' = [arrival EXCEPT ![q] = Append(@, o)]
  BY QueueOfAssumption DEF HandOver, ExecutorInv, IInv, TypeOK
<1>2. /\ arrival'[q] = Append(arrival[q], o)
      /\ \A r \in Queues \ {q} : arrival'[r] = arrival[r]
  BY <1>1 DEF ExecutorInv, IInv, TypeOK
<1>3. \A r \in Queues : \A i \in 1 .. Len(arrival[r]) : arrival[r][i] \in Ops /\ arrival[r][i] # o
  BY <1>1, ArrivalTypes DEF ExecutorInv, IInv, Chained
<1>4. PICK n \in 0 .. Len(arrival[q]) : Cut(arrival[q], pc, n)
  BY <1>1 DEF ExecutorInv, WaitingLast
<1>5. /\ arrival[q] \in Seq(Ops) /\ Len(arrival[q]) \in Nat
      /\ arrival'[q] \in Seq(Ops) /\ Len(arrival'[q]) = Len(arrival[q]) + 1
      /\ arrival'[q][Len(arrival[q]) + 1] = o
      /\ \A i \in 1 .. Len(arrival[q]) : arrival'[q][i] = arrival[q][i]
  BY <1>1, <1>2, ArrivalTypes DEF ExecutorInv
<1>6. Cut(arrival'[q], pc', n)
  <2>1. n \in 0 .. Len(arrival'[q])
    BY <1>5
  <2>2. ASSUME NEW i \in 1 .. Len(arrival'[q])
        PROVE  pc'[arrival'[q][i]] = "chained" <=> i > n
    <3>1. CASE i \in 1 .. Len(arrival[q])
      BY <1>1, <1>3, <1>4, <1>5, <3>1 DEF Cut
    <3>2. CASE i = Len(arrival[q]) + 1
      BY <1>1, <1>4, <1>5, <3>2
    <3> QED
      BY <1>5, <3>1, <3>2
  <2> QED
    BY <2>1, <2>2 DEF Cut
<1>7. ASSUME NEW r \in Queues \ {q}, NEW m, Cut(arrival[r], pc, m)
      PROVE  Cut(arrival'[r], pc', m)
  BY <1>1, <1>2, <1>3, <1>7 DEF Cut
<1>8. WaitingLast'
  <2> SUFFICES ASSUME NEW r \in Queues
               PROVE  \E m \in 0 .. Len(arrival'[r]) : Cut(arrival'[r], pc', m)
    BY DEF WaitingLast
  <2>1. CASE r = q
    BY <1>6, <2>1 DEF Cut
  <2>2. CASE r # q
    BY <1>2, <1>7, <2>2 DEF ExecutorInv, WaitingLast
  <2> QED
    BY <2>1, <2>2
<1>9. waiting' = [waiting EXCEPT ![q] = Append(@, o)]
  <2>1. waiting'[q] = Append(waiting[q], o)
    <3> DEFINE top == Len(arrival[q])
               rest == SubSeq(arrival[q], n + 1, top)
               more == SubSeq(arrival'[q], n + 1, top + 1)
    <3>1. waiting[q] = rest /\ waiting'[q] = more
      BY <1>1, <1>4, <1>5, <1>6, WhileWaiting, NextWaiting
    <3>2. n + 1 \in 1 .. top + 1 /\ top + 1 \in n + 1 .. Len(arrival'[q]) /\ n + 1 \in 1 .. Len(arrival'[q])
      BY <1>4, <1>5
    <3>3. more = SubSeq(arrival'[q], n + 1, (top + 1) - 1) \o <<arrival'[q][top + 1]>>
      BY <1>5, <3>2, SubSeqRecursiveSecond
    <3>4. (top + 1) - 1 = top
      BY <1>5
    <3>5. SubSeq(arrival'[q], n + 1, top) = rest
      <4>1. /\ n + 1 \in Int /\ top \in Int
            /\ \A i \in n + 1 .. top : arrival[q][i] \in Ops /\ arrival'[q][i] \in Ops
        BY <1>4, <1>5
      <4>2. /\ SubSeq(arrival'[q], n + 1, top) \in Seq(Ops)
            /\ Len(SubSeq(arrival'[q], n + 1, top)) = IF n + 1 <= top THEN top - (n + 1) + 1 ELSE 0
            /\ \A i \in 1 .. top - (n + 1) + 1 :
                 SubSeq(arrival'[q], n + 1, top)[i] = arrival'[q][(n + 1) + i - 1]
        BY <4>1, SubSeqProperties
      <4>3. /\ rest \in Seq(Ops)
            /\ Len(rest) = IF n + 1 <= top THEN top - (n + 1) + 1 ELSE 0
            /\ \A i \in 1 .. top - (n + 1) + 1 : rest[i] = arrival[q][(n + 1) + i - 1]
        BY <4>1, SubSeqProperties
      <4> DEFINE long == SubSeq(arrival'[q], n + 1, top)
                 len == top - (n + 1) + 1
      <4>4. \A i \in 1 .. len : (n + 1) + i - 1 \in 1 .. top
        BY <1>4, <1>5
      <4>5. \A i \in 1 .. len : long[i] = rest[i]
        BY <1>5, <4>2, <4>3, <4>4
      <4>6. Len(long) = Len(rest) /\ \A i \in 1 .. Len(long) : i \in 1 .. len
        BY <1>4, <1>5, <4>2, <4>3
      <4>8. long \in Seq(Ops) /\ rest \in Seq(Ops)
        BY <4>2, <4>3
      <4> HIDE DEF long, len, rest
      <4>9. \A i \in 1 .. Len(long) : long[i] = rest[i]
        BY <4>5, <4>6
      <4>7. long = rest
        BY <4>6, <4>8, <4>9, SeqEqual
      <4> QED
        BY <4>7 DEF long
    <3>6. rest \in Seq(Ops)
      <4>1. n + 1 \in Int /\ top \in Int /\ \A i \in n + 1 .. top : arrival[q][i] \in Ops
        BY <1>4, <1>5
      <4> QED
        BY <4>1, SubSeqProperties
    <3> HIDE DEF rest, more, top
    <3>7. rest \o <<o>> = Append(rest, o)
      BY <3>6
    <3>8. arrival'[q][top + 1] = o
      BY <1>5 DEF top
    <3> QED
      BY <3>1, <3>3, <3>4, <3>5, <3>7, <3>8
  <2>2. ASSUME NEW r \in Queues \ {q}
        PROVE  waiting'[r] = waiting[r]
    <3>1. PICK m \in 0 .. Len(arrival[r]) : Cut(arrival[r], pc, m)
      BY DEF ExecutorInv, WaitingLast
    <3>2. arrival[r] \in Seq(Ops) /\ arrival'[r] = arrival[r]
      BY <1>2, ArrivalTypes DEF ExecutorInv
    <3> QED
      BY <1>7, <3>1, <3>2, WhileWaiting, NextWaiting
  <2>3. waiting = [r \in Queues |-> waiting[r]] /\ waiting' = [r \in Queues |-> waiting'[r]]
    BY DEF waiting
  <2> QED
    BY <1>1, <2>1, <2>2, <2>3
<1>10. active' = active
  <2>1. \A a \in Ops : pc'[a] \in InSender <=> pc[a] \in InSender
    BY <1>1 DEF InSender
  <2>2. \A r \in Queues : Running(r, pc') = Running(r, pc)
    BY <2>1 DEF Running
  <2> QED
    <3>1. \A r \in Queues : OneOf(Running(r, pc')) = OneOf(Running(r, pc))
      BY <2>2
    <3> HIDE DEF Running
    <3> QED
      BY <3>1 DEF active
<1>11. finished' = finished
  BY <1>1 DEF finished, Settled
<1> QED
  BY <1>8, <1>9, <1>10, <1>11 DEF Executor!Enqueue

(* The beginning of an operation.                                          *)
LEMMA StartBegins ==
  ASSUME ExecutorInv, NEW o \in Ops, Start(o)
  PROVE  WaitingLast' /\ Executor!Begin(QueueOf[o])
<1> DEFINE q == QueueOf[o]
           ops == arrival[q]
<1>1. /\ q \in Queues /\ arrival' = arrival
      /\ pc[o] = "chained" /\ pc'[o] \in InSender /\ \A a \in Ops \ {o} : pc'[a] = pc[a]
      /\ HasSettled(previous[o])
  BY QueueOfAssumption DEF Start, MayStart, queueVars, InSender, ExecutorInv, IInv, TypeOK
<1>2. "chained" \notin InSender /\ "chained" \notin Settled /\ InSender \cap Settled = {}
  BY DEF InSender, Settled
<1>3. /\ \A r \in Queues : arrival[r] \in Seq(Ops) /\ Len(arrival[r]) \in Nat
      /\ \A r \in Queues : \A i \in 1 .. Len(arrival[r]) :
           arrival[r][i] \in Ops /\ QueueOf[arrival[r][i]] = r
  BY ArrivalTypes DEF ExecutorInv
<1>4. PICK n \in 0 .. Len(ops) : Cut(ops, pc, n)
  BY <1>1 DEF ExecutorInv, WaitingLast
<1>5. PICK k \in 1 .. Len(ops) : ops[k] = o
  BY <1>1 DEF ExecutorInv, IInv, HandedOver
<1>6. k > n
  BY <1>1, <1>4, <1>5 DEF Cut
(* The one before o has settled, so that o is the first that waits.        *)
<1>7. k = n + 1
  <2> SUFFICES ASSUME k # n + 1
               PROVE  FALSE
    OBVIOUS
  <2>1. k # 1 /\ k - 1 \in 1 .. Len(ops) /\ k - 1 > n
    BY <1>1, <1>3, <1>6
  <2>2. previous[o] = ops[k - 1]
    BY <1>1, <1>5, <2>1 DEF ExecutorInv, IInv, Chained
  <2>3. ops[k - 1] \in Ops /\ ops[k - 1] # NoOp
    BY <1>1, <1>3, <2>1, NoOpAssumption
  <2>4. pc[ops[k - 1]] \in Settled
    BY <1>1, <2>2, <2>3 DEF HasSettled
  <2>5. pc[ops[k - 1]] = "chained"
    BY <1>4, <2>1 DEF Cut
  <2> QED
    BY <1>2, <2>4, <2>5
<1>8. n + 1 \in 1 .. Len(ops) /\ ops[n + 1] = o
  BY <1>5, <1>7
<1>9. \A i \in 1 .. Len(ops) : ops[i] = o => i = n + 1
  BY <1>1, <1>5, <1>7 DEF ExecutorInv, IInv, HandedOverOnce
<1>10. Cut(ops, pc', n + 1)
  <2>1. n + 1 \in 0 .. Len(ops)
    BY <1>8
  <2>2. ASSUME NEW i \in 1 .. Len(ops)
        PROVE  pc'[ops[i]] = "chained" <=> i > n + 1
    <3>1. CASE i = n + 1
      BY <1>1, <1>2, <1>8, <3>1
    <3>2. CASE i # n + 1
      <4>1. pc'[ops[i]] = pc[ops[i]]
        BY <1>1, <1>3, <1>9, <3>2
      <4>2. i > n <=> i > n + 1
        BY <1>1, <1>3, <1>4, <3>2
      <4> QED
        BY <1>4, <4>1, <4>2 DEF Cut
    <3> QED
      BY <3>1, <3>2
  <2> QED
    BY <2>1, <2>2 DEF Cut
<1>11. ASSUME NEW r \in Queues \ {q}, NEW m, Cut(arrival[r], pc, m)
       PROVE  Cut(arrival[r], pc', m)
  <2>1. \A i \in 1 .. Len(arrival[r]) : pc'[arrival[r][i]] = pc[arrival[r][i]]
    BY <1>1, <1>3
  <2> QED
    BY <1>11, <2>1 DEF Cut
<1>12. WaitingLast'
  <2> SUFFICES ASSUME NEW r \in Queues
               PROVE  \E m \in 0 .. Len(arrival[r]) : Cut(arrival[r], pc', m)
    BY <1>1 DEF WaitingLast
  <2>1. CASE r = q
    BY <1>10, <2>1 DEF Cut
  <2>2. CASE r # q
    BY <1>11, <2>2 DEF ExecutorInv, WaitingLast
  <2> QED
    BY <2>1, <2>2
<1>13. /\ waiting[q] # <<>> /\ Head(waiting[q]) = o
       /\ waiting' = [waiting EXCEPT ![q] = Tail(@)]
  <2>1. waiting[q] = SubSeq(ops, n + 1, Len(ops))
    BY <1>1, <1>3, <1>4, WhileWaiting
  <2>2. waiting'[q] = SubSeq(ops, n + 2, Len(ops))
    <3>1. arrival'[q] \in Seq(Ops) /\ Cut(arrival'[q], pc', n + 1)
      BY <1>1, <1>3, <1>10
    <3>2. waiting'[q] = SubSeq(arrival'[q], (n + 1) + 1, Len(arrival'[q]))
      BY <1>1, <3>1, NextWaiting
    <3>3. (n + 1) + 1 = n + 2
      BY <1>1, <1>3, <1>4
    <3> QED
      BY <1>1, <3>2, <3>3
  <2>3. /\ Head(waiting[q]) = ops[n + 1]
        /\ Tail(waiting[q]) = SubSeq(ops, (n + 1) + 1, Len(ops))
    <3>1. Len(ops) \in n + 1 .. Len(ops) /\ ops \in Seq(Ops)
      BY <1>1, <1>3, <1>8
    <3> QED
      BY <1>8, <2>1, <3>1, HeadTailOfSubSeq
  <2>4. (n + 1) + 1 = n + 2
    BY <1>1, <1>3, <1>4
  <2>5. waiting[q] # <<>>
    <3>1. n + 1 \in Int /\ Len(ops) \in Int /\ n + 1 <= Len(ops)
          /\ \A i \in n + 1 .. Len(ops) : ops[i] \in Ops
      BY <1>1, <1>3, <1>4, <1>8
    <3>2. Len(waiting[q]) = Len(ops) - (n + 1) + 1
      BY <2>1, <3>1, SubSeqProperties
    <3>3. Len(waiting[q]) # 0
      BY <3>1, <3>2
    <3> QED
      BY <3>3
  <2>6. ASSUME NEW r \in Queues \ {q}
        PROVE  waiting'[r] = waiting[r]
    <3>1. PICK m \in 0 .. Len(arrival[r]) : Cut(arrival[r], pc, m)
      BY DEF ExecutorInv, WaitingLast
    <3>2. arrival[r] \in Seq(Ops) /\ arrival'[r] = arrival[r]
      BY <1>1, <1>3
    <3>3. Cut(arrival'[r], pc', m)
      BY <1>11, <3>1, <3>2
    <3> QED
      BY <3>1, <3>2, <3>3, WhileWaiting, NextWaiting
  <2>7. waiting = [r \in Queues |-> waiting[r]] /\ waiting' = [r \in Queues |-> waiting'[r]]
    BY DEF waiting
  <2>8. waiting'[q] = Tail(waiting[q])
    BY <2>2, <2>3, <2>4
  <2> QED
    BY <1>1, <1>8, <2>3, <2>5, <2>6, <2>7, <2>8
<1>14. active[q] = NoOp /\ active' = [active EXCEPT ![q] = o]
  <2>1. Running(q, pc) = {}
    <3> SUFFICES ASSUME NEW a \in Ops, QueueOf[a] = q, pc[a] \in InSender
                 PROVE  FALSE
      BY DEF Running
    <3>1. PICK i \in 1 .. Len(ops) : ops[i] = a
      BY DEF ExecutorInv, IInv, HandedOver, InSender
    <3>2. ~(i > n)
      BY <1>2, <1>4, <3>1 DEF Cut
    <3>3. n \in 1 .. Len(ops) /\ n + 1 # 1 /\ (n + 1) - 1 = n /\ (i = n \/ i < n)
      BY <1>1, <1>3, <1>4, <3>2
    <3>4. previous[o] = ops[n]
      BY <1>1, <1>8, <3>3 DEF ExecutorInv, IInv, Chained
    <3>5. ops[n] \in Ops /\ pc[ops[n]] \in Settled
      BY <1>1, <1>3, <3>3, <3>4, NoOpAssumption DEF HasSettled
    <3>6. pc[a] \in Settled
      BY <1>1, <3>1, <3>3, <3>5 DEF ExecutorInv, IInv, InOrder, Started
    <3> QED
      BY <1>2, <3>6
  <2>2. Running(q, pc') = {o}
    BY <1>1, <2>1 DEF Running
  <2>3. \A r \in Queues \ {q} : Running(r, pc') = Running(r, pc)
    <3>1. \A a \in Ops : QueueOf[a] # q => (pc'[a] \in InSender <=> pc[a] \in InSender)
      BY <1>1
    <3> QED
      BY <3>1 DEF Running
  <2>4. OneOf(Running(q, pc)) = NoOp /\ OneOf(Running(q, pc')) = o
    BY <2>1, <2>2, OneOfOne, OneOfNone
  <2>5. \A r \in Queues \ {q} : OneOf(Running(r, pc')) = OneOf(Running(r, pc))
    BY <2>3
  <2> HIDE DEF q
  <2> QED
    BY <1>1, <2>4, <2>5 DEF active
<1>15. finished' = finished
  <2>1. \A a \in Ops : pc'[a] \in Settled <=> pc[a] \in Settled
    BY <1>1, <1>2
  <2> QED
    BY <2>1 DEF finished
<1> QED
  BY <1>12, <1>13, <1>14, <1>15 DEF Executor!Begin

(* A step inside the sender is the executor's own, its last one a Finish.  *)
Advances(o) ==
  /\ pc[o] \in InSender
  /\ \E x \in InSender \cup Settled : pc' = [pc EXCEPT ![o] = x]
  /\ UNCHANGED queueVars

LEMMA AdvanceFinishes ==
  ASSUME ExecutorInv, NEW o \in Ops, Advances(o)
  PROVE  WaitingLast' /\ (Executor!Finish(QueueOf[o]) \/ UNCHANGED Executing)
<1> DEFINE q == QueueOf[o]
<1>1. PICK x \in InSender \cup Settled : pc' = [pc EXCEPT ![o] = x]
  BY DEF Advances
<1>2. /\ q \in Queues /\ arrival' = arrival
      /\ pc[o] \in InSender /\ pc'[o] \in InSender \cup Settled /\ \A a \in Ops \ {o} : pc'[a] = pc[a]
  BY <1>1, QueueOfAssumption DEF Advances, queueVars, ExecutorInv, IInv, TypeOK
<1>3. "chained" \notin InSender /\ "chained" \notin Settled /\ InSender \cap Settled = {}
  BY DEF InSender, Settled
<1>4. \A a \in Ops : pc'[a] = "chained" <=> pc[a] = "chained"
  BY <1>2, <1>3
<1>5. \A r \in Queues : /\ arrival[r] \in Seq(Ops)
                        /\ \A i \in 1 .. Len(arrival[r]) : arrival[r][i] \in Ops
  BY ArrivalTypes DEF ExecutorInv
<1>6. ASSUME NEW r \in Queues, NEW m, Cut(arrival[r], pc, m)
      PROVE  Cut(arrival'[r], pc', m)
  BY <1>2, <1>4, <1>5, <1>6 DEF Cut
<1>7. WaitingLast'
  BY <1>2, <1>6 DEF ExecutorInv, WaitingLast
<1>8. waiting' = waiting
  <2>1. ASSUME NEW r \in Queues
        PROVE  waiting'[r] = waiting[r]
    <3>1. PICK m \in 0 .. Len(arrival[r]) : Cut(arrival[r], pc, m)
      BY DEF ExecutorInv, WaitingLast
    <3>2. arrival[r] \in Seq(Ops) /\ arrival'[r] = arrival[r]
      BY <1>2, <1>5
    <3>3. Cut(arrival'[r], pc', m)
      BY <1>6, <3>1
    <3> QED
      BY <3>1, <3>2, <3>3, WhileWaiting, NextWaiting
  <2>2. waiting = [r \in Queues |-> waiting[r]] /\ waiting' = [r \in Queues |-> waiting'[r]]
    BY DEF waiting
  <2> QED
    BY <2>1, <2>2
<1>9. Running(q, pc) = {o}
  <2>1. \A a \in Ops : QueueOf[a] = q /\ pc[a] \in InSender => a = o
    BY <1>2, InvExcludes DEF ExecutorInv, MutualExclusion
  <2> QED
    BY <1>2, <2>1 DEF Running
<1>10. \A r \in Queues \ {q} : Running(r, pc') = Running(r, pc)
  <2>1. \A a \in Ops : QueueOf[a] # q => pc'[a] = pc[a]
    BY <1>2
  <2> QED
    BY <2>1 DEF Running
<1>11. CASE pc'[o] \in InSender
  <2>1. \A a \in Ops : /\ pc'[a] \in InSender <=> pc[a] \in InSender
                       /\ pc'[a] \in Settled <=> pc[a] \in Settled
    BY <1>2, <1>3, <1>11
  <2>2. \A r \in Queues : Running(r, pc') = Running(r, pc)
    BY <2>1 DEF Running
  <2>3. \A r \in Queues : OneOf(Running(r, pc')) = OneOf(Running(r, pc))
    BY <2>2
  <2>4. active' = active /\ finished' = finished
    BY <2>1, <2>3 DEF active, finished
  <2> QED
    BY <1>7, <1>8, <2>4 DEF Executing
<1>12. CASE pc'[o] \in Settled
  <2>1. Running(q, pc') = {}
    <3>1. \A a \in Ops : QueueOf[a] = q /\ a # o => pc'[a] \notin InSender
      BY <1>2, <1>9 DEF Running
    <3> QED
      BY <1>3, <1>12, <3>1 DEF Running
  <2>2. OneOf(Running(q, pc)) = o /\ OneOf(Running(q, pc')) = NoOp
    BY <1>9, <2>1, OneOfOne, OneOfNone
  <2>3. \A r \in Queues \ {q} : OneOf(Running(r, pc')) = OneOf(Running(r, pc))
    BY <1>10
  <2>4. active[q] = o /\ active' = [active EXCEPT ![q] = NoOp]
    <3> HIDE DEF q
    <3> QED
      BY <1>2, <2>2, <2>3 DEF active
  <2>5. finished' = finished \cup {o}
    BY <1>2, <1>3, <1>12 DEF finished
  <2>6. active[q] # NoOp
    BY <2>4, NoOpAssumption
  <2> QED
    BY <1>7, <1>8, <2>4, <2>5, <2>6 DEF Executor!Finish
<1> QED
  BY <1>2, <1>11, <1>12

LEMMA AttemptAdvances ==
  ASSUME TypeOK, NEW o \in Ops, TakeTurn(o) \/ Attempt(o)
  PROVE  Advances(o)
<1>1. ASSUME NEW error \in {"revert", "too-low", "too-high", "rpc"}, Catch(o, error)
      PROVE  \E x \in InSender \cup Settled : pc' = [pc EXCEPT ![o] = x]
  BY <1>1 DEF Catch, InSender, Settled
<1>2. CASE TakeTurn(o) \/ Estimate(o) \/ BackoffElapses(o) \/ Accept(o)
  BY <1>2 DEF TakeTurn, Estimate, BackoffElapses, Accept, Advances, Settled, InSender
<1>3. CASE EstimateReverts(o) \/ NonceTooLow(o)
  BY <1>1, <1>3 DEF EstimateReverts, NonceTooLow, Advances, InSender
<1>4. CASE \E error \in {"too-high", "rpc"} : Refuse(o, error)
  BY <1>1, <1>4 DEF Refuse, Advances, InSender
<1>5. CASE AnswerLost(o)
  BY <1>1, <1>5 DEF AnswerLost, Advances, InSender
<1> QED
  BY <1>2, <1>3, <1>4, <1>5 DEF Attempt

LEMMA ExecutorInit == Init => ExecutorInv /\ Executor!Init
<1> SUFFICES ASSUME Init
             PROVE  ExecutorInv /\ Executor!Init
  OBVIOUS
<1>1. \A q \in Queues : arrival[q] = <<>>
  BY DEF Init
<1>2. ASSUME NEW q \in Queues
      PROVE  arrival[q] \in Seq(Ops) /\ Cut(arrival[q], pc, 0)
  <2>1. arrival[q] = <<>> /\ <<>> \in Seq(Ops) /\ Len(<<>>) = 0
    BY <1>1
  <2>2. 0 \in 0 .. Len(arrival[q]) /\ ~ \E i \in 1 .. Len(arrival[q]) : TRUE
    BY <2>1
  <2> QED
    BY <2>1, <2>2 DEF Cut
<1>3. ASSUME NEW q \in Queues
      PROVE  waiting[q] = <<>>
  <2>1. waiting[q] = SubSeq(arrival[q], 0 + 1, Len(arrival[q]))
    BY <1>2, WhileWaiting
  <2>2. Len(arrival[q]) = 0 /\ 0 + 1 = 1
    BY <1>1
  <2>3. SubSeq(arrival[q], 1, 0) = <<>>
    BY SubSeqEmpty
  <2> QED
    BY <2>1, <2>2, <2>3
<1>4. waiting = [q \in Queues |-> <<>>]
  BY <1>3 DEF waiting
<1>5. \A o \in Ops : pc[o] \notin InSender /\ pc[o] \notin Settled
  BY DEF Init, InSender, Settled
<1>6. finished = {}
  BY <1>5 DEF finished
<1>7. \A q \in Queues : OneOf(Running(q, pc)) = NoOp
  <2>1. \A q \in Queues : Running(q, pc) = {}
    BY <1>5 DEF Running
  <2> QED
    BY <2>1, OneOfNone
<1>8. active = [q \in Queues |-> NoOp]
  BY <1>7 DEF active
<1>9. WaitingLast
  BY <1>2 DEF WaitingLast, Cut
<1> QED
  BY <1>4, <1>6, <1>8, <1>9, InvInit DEF ExecutorInv, Executor!Init

LEMMA ExecutorStep ==
  ASSUME ExecutorInv, [Next]_vars
  PROVE  ExecutorInv' /\ [Executor!Next]_Executing
<1>1. IInv'
  BY InvStep DEF ExecutorInv
<1>2. ASSUME NEW o \in Ops, HandOver(o)
      PROVE  WaitingLast' /\ Executor!Next
  <2>1. QueueOf[o] \in Queues
    BY QueueOfAssumption
  <2> QED
    BY <1>2, <2>1, HandOverEnqueues DEF Executor!Next
<1>3. ASSUME NEW o \in Ops, Start(o)
      PROVE  WaitingLast' /\ Executor!Next
  <2>1. QueueOf[o] \in Queues
    BY QueueOfAssumption
  <2> QED
    BY <1>3, <2>1, StartBegins DEF Executor!Next
<1>4. ASSUME NEW o \in Ops, TakeTurn(o) \/ Attempt(o)
      PROVE  WaitingLast' /\ (Executor!Next \/ UNCHANGED Executing)
  <2>1. QueueOf[o] \in Queues
    BY QueueOfAssumption
  <2>2. Advances(o)
    BY <1>4, AttemptAdvances DEF ExecutorInv, IInv
  <2> QED
    BY <2>1, <2>2, AdvanceFinishes DEF Executor!Next
<1>5. CASE ForeignSend \/ UNCHANGED vars
  <2>1. UNCHANGED <<pc, arrival>>
    BY <1>5 DEF ForeignSend, vars, queueVars
  <2>2. WaitingLast'
    BY <2>1 DEF ExecutorInv, WaitingLast
  <2>3. waiting' = waiting /\ active' = active /\ finished' = finished
    BY <2>1 DEF waiting, active, finished
  <2> QED
    BY <1>1, <2>2, <2>3 DEF ExecutorInv, Executing
<1> QED
  BY <1>1, <1>2, <1>3, <1>4, <1>5 DEF ExecutorInv, Next, Progress

(* createBroadcastQueue is a serial executor: first in, first out, one at  *)
(* a time, and a failure releases the queue like a success.                *)
THEOREM QueuesAreSerialExecutors == Spec => ImplementsSerialExecutor
<1>1. ExecutorInv /\ [Next]_vars => ExecutorInv' /\ [Executor!Next]_(Executor!execVars)
  BY ExecutorStep DEF Executor!execVars, Executing
<1> QED
  BY <1>1, ExecutorInit, PTL DEF Spec, ImplementsSerialExecutor, Executor!Spec

-----------------------------------------------------------------------------
(* The operations inside the viem sender stand in a line of their own, and *)
(* whoever has had its turn has only settled operations before it.         *)
Served == {"estimating", "sending", "backoff"} \cup Settled

Line(s) ==
  /\ sendTail = IF Len(s) = 0 THEN NoOp ELSE s[Len(s)]
  /\ \A i \in 1 .. Len(s) :
       /\ pc[s[i]] \in Started
       /\ sendPrevious[s[i]] = IF i = 1 THEN NoOp ELSE s[i - 1]
  /\ \A o \in Ops : pc[o] \in Started => \E i \in 1 .. Len(s) : s[i] = o
  /\ \A i, j \in 1 .. Len(s) : s[i] = s[j] => i = j
  /\ \A i, j \in 1 .. Len(s) : i < j /\ pc[s[j]] \in Served => pc[s[i]] \in Settled

SendersInLine == adapter = "viem" => \E s \in Seq(Ops) : Line(s)

(* The nonces the attempt under way has missed.                            *)
Missed(o) == IF pc[o] = "sending" THEN Len(ledger) - picked[o] ELSE 0
Others(o) == Cardinality({n \in DOMAIN ledger : ledger[n] # o})
Foreigns == Cardinality({n \in DOMAIN ledger : ledger[n] = Foreign})

(* Every attempt but the one under way was defeated, by a fault or by a    *)
(* transaction that is on the ledger.                                      *)
DefeatedFor(o) ==
  /\ picked[o] <= Len(ledger)
  /\ retry[o] + Missed(o) <= faults + Others(o)
  /\ adapter = "viem" => retry[o] + Missed(o) <= faults + Foreigns
  /\ cause[o] = "too-low" => faults + Others(o) > RetryLimit

ContentionInv ==
  /\ TypeOK
  /\ SendersInLine
  /\ \A o \in Ops : DefeatedFor(o)

-----------------------------------------------------------------------------
LEMMA CountsGrow ==
  ASSUME TypeOK, NEW e \in Ops \cup {Foreign}, ledger' = Append(ledger, e)
  PROVE  /\ Len(ledger') = Len(ledger) + 1
         /\ \A o \in Ops : Others(o)' = IF e # o THEN Others(o) + 1 ELSE Others(o)
         /\ Foreigns' = IF e = Foreign THEN Foreigns + 1 ELSE Foreigns
<1> DEFINE top == Len(ledger) + 1
<1>1. /\ DOMAIN ledger = 1 .. Len(ledger) /\ Len(ledger) \in Nat
      /\ DOMAIN ledger' = 1 .. top /\ Len(ledger') = top
      /\ ledger'[top] = e
      /\ \A n \in 1 .. Len(ledger) : ledger'[n] = ledger[n]
  BY DEF TypeOK
<1>2. top \notin DOMAIN ledger /\ DOMAIN ledger' = DOMAIN ledger \cup {top}
  BY <1>1
<1>3. IsFiniteSet(DOMAIN ledger)
  BY <1>1, FS_Interval
<1>4. ASSUME NEW o \in Ops
      PROVE  Others(o)' = IF e # o THEN Others(o) + 1 ELSE Others(o)
  <2> DEFINE old == {n \in DOMAIN ledger : ledger[n] # o}
             new == {n \in DOMAIN ledger' : ledger'[n] # o}
  <2>1. new = IF e # o THEN old \cup {top} ELSE old
    BY <1>1, <1>2
  <2>2. IsFiniteSet(old)
    BY <1>3, FS_Subset
  <2>3. top \notin old
    BY <1>2
  <2>4. Cardinality(old \cup {top}) = Cardinality(old) + 1
    BY <2>2, <2>3, FS_AddElement
  <2> QED
    BY <2>1, <2>4 DEF Others
<1>5. Foreigns' = IF e = Foreign THEN Foreigns + 1 ELSE Foreigns
  <2> DEFINE old == {n \in DOMAIN ledger : ledger[n] = Foreign}
             new == {n \in DOMAIN ledger' : ledger'[n] = Foreign}
  <2>1. new = IF e = Foreign THEN old \cup {top} ELSE old
    BY <1>1, <1>2
  <2>2. IsFiniteSet(old)
    BY <1>3, FS_Subset
  <2>3. top \notin old
    BY <1>2
  <2>4. Cardinality(old \cup {top}) = Cardinality(old) + 1
    BY <2>2, <2>3, FS_AddElement
  <2> QED
    BY <2>1, <2>4 DEF Foreigns
<1> QED
  BY <1>1, <1>4, <1>5

LEMMA CountsAreNat ==
  ASSUME TypeOK
  PROVE  /\ Len(ledger) \in Nat /\ Foreigns \in Nat /\ \A o \in Ops : Others(o) \in Nat
         /\ faults \in Nat /\ RetryLimit \in Nat
         /\ \A o \in Ops : retry[o] \in Nat /\ retry[o] <= RetryLimit /\ picked[o] \in Nat
<1>1. DOMAIN ledger = 1 .. Len(ledger) /\ Len(ledger) \in Nat
  BY DEF TypeOK
<1>2. IsFiniteSet(DOMAIN ledger)
  BY <1>1, FS_Interval
<1>3. Foreigns \in Nat
  <2>1. IsFiniteSet({n \in DOMAIN ledger : ledger[n] = Foreign})
    BY <1>2, FS_Subset
  <2> QED
    BY <2>1, FS_CardinalityType DEF Foreigns
<1>4. ASSUME NEW o \in Ops
      PROVE  Others(o) \in Nat
  <2>1. IsFiniteSet({n \in DOMAIN ledger : ledger[n] # o})
    BY <1>2, FS_Subset
  <2> QED
    BY <2>1, FS_CardinalityType DEF Others
<1>5. \A o \in Ops : retry[o] \in Nat /\ retry[o] <= RetryLimit /\ picked[o] \in Nat
  BY RetryLimitAssumption DEF TypeOK
<1> QED
  BY <1>1, <1>3, <1>4, <1>5, RetryLimitAssumption DEF TypeOK

-----------------------------------------------------------------------------
(* The line.                                                               *)
LEMMA StartKeepsLine ==
  ASSUME TypeOK, SendersInLine, NEW o \in Ops, Start(o)
  PROVE  SendersInLine'
<1> SUFFICES ASSUME adapter = "viem"
             PROVE  SendersInLine'
  BY DEF Start, SendersInLine, senderVars
<1>1. PICK s \in Seq(Ops) : Line(s)
  BY DEF SendersInLine
<1> DEFINE t == Append(s, o)
<1>2. /\ pc[o] = "chained" /\ pc'[o] = "lined"
      /\ \A a \in Ops \ {o} : pc'[a] = pc[a] /\ sendPrevious'[a] = sendPrevious[a]
      /\ sendPrevious'[o] = sendTail
      /\ sendTail' = o
  BY DEF Start, TypeOK
<1>3. /\ t \in Seq(Ops) /\ Len(s) \in Nat /\ Len(t) = Len(s) + 1 /\ t[Len(s) + 1] = o
      /\ \A i \in 1 .. Len(s) : t[i] = s[i] /\ s[i] \in Ops
      /\ \A i \in 1 .. Len(t) : i = Len(t) \/ i \in 1 .. Len(s)
  OBVIOUS
<1>4. \A i \in 1 .. Len(s) : s[i] # o
  BY <1>1, <1>2 DEF Line, Started, InSender, Settled
<1>5. "lined" \in Started /\ "lined" \notin Served /\ "lined" \notin Settled
  BY DEF Started, InSender, Settled, Served
<1> HIDE DEF t
<1>6. sendTail' = IF Len(t) = 0 THEN NoOp ELSE t[Len(t)]
  BY <1>2, <1>3
<1>7. \A i \in 1 .. Len(t) : /\ pc'[t[i]] \in Started
                             /\ sendPrevious'[t[i]] = IF i = 1 THEN NoOp ELSE t[i - 1]
  <2> TAKE i \in 1 .. Len(t)
  <2>1. CASE i \in 1 .. Len(s)
    <3>1. i # 1 => i - 1 \in 1 .. Len(s)
      BY <1>3, <2>1
    <3>2. t[i] = s[i] /\ s[i] \in Ops \ {o} /\ (i # 1 => t[i - 1] = s[i - 1])
      BY <1>3, <1>4, <2>1, <3>1
    <3>3. pc[s[i]] \in Started /\ sendPrevious[s[i]] = IF i = 1 THEN NoOp ELSE s[i - 1]
      BY <1>1, <2>1 DEF Line
    <3>4. pc'[s[i]] = pc[s[i]] /\ sendPrevious'[s[i]] = sendPrevious[s[i]]
      BY <1>2, <3>2
    <3> QED
      BY <3>2, <3>3, <3>4
  <2>2. CASE i = Len(t)
    <3>1. Len(s) = 0 => i = 1
      BY <1>3, <2>2
    <3>2. Len(s) # 0 => i # 1 /\ i - 1 = Len(s) /\ t[Len(s)] = s[Len(s)]
      BY <1>3, <2>2
    <3>3. t[i] = o
      BY <1>3, <2>2
    <3>4. sendTail = IF Len(s) = 0 THEN NoOp ELSE s[Len(s)]
      BY <1>1 DEF Line
    <3> QED
      BY <1>2, <1>5, <3>1, <3>2, <3>3, <3>4
  <2> QED
    BY <1>3, <2>1, <2>2
<1>8. \A a \in Ops : pc'[a] \in Started => \E i \in 1 .. Len(t) : t[i] = a
  <2> SUFFICES ASSUME NEW a \in Ops, pc'[a] \in Started
               PROVE  \E i \in 1 .. Len(t) : t[i] = a
    OBVIOUS
  <2>1. CASE a = o
    <3>1. Len(t) \in 1 .. Len(t)
      BY <1>3
    <3> QED
      BY <1>3, <2>1, <3>1
  <2>2. CASE a # o
    <3>1. PICK i \in 1 .. Len(s) : s[i] = a
      BY <1>1, <1>2, <2>2 DEF Line
    <3>2. i \in 1 .. Len(t)
      BY <1>3
    <3> QED
      BY <1>3, <3>1, <3>2
  <2> QED
    BY <2>1, <2>2
<1>9. \A i, j \in 1 .. Len(t) : t[i] = t[j] => i = j
  BY <1>1, <1>3, <1>4 DEF Line
<1>10. \A i, j \in 1 .. Len(t) : i < j /\ pc'[t[j]] \in Served => pc'[t[i]] \in Settled
  <2> SUFFICES ASSUME NEW i \in 1 .. Len(t), NEW j \in 1 .. Len(t), i < j, pc'[t[j]] \in Served
               PROVE  pc'[t[i]] \in Settled
    OBVIOUS
  <2>1. j # Len(t)
    BY <1>2, <1>3, <1>5
  <2>2. i \in 1 .. Len(s) /\ j \in 1 .. Len(s)
    BY <1>3, <2>1
  <2> QED
    BY <1>1, <1>2, <1>3, <1>4, <2>2 DEF Line
<1>11. Line(t)'
  BY <1>6, <1>7, <1>8, <1>9, <1>10 DEF Line
<1> QED
  BY <1>3, <1>11 DEF SendersInLine

(* A turn in the line.                                                     *)
Serves(o) ==
  /\ pc[o] \in InSender
  /\ pc[o] = "lined" => HasSettled(sendPrevious[o])
  /\ \E x \in Served : pc' = [pc EXCEPT ![o] = x]
  /\ UNCHANGED senderVars

LEMMA AttemptServes ==
  ASSUME TypeOK, NEW o \in Ops, TakeTurn(o) \/ Attempt(o)
  PROVE  Serves(o)
<1>1. ASSUME NEW error \in {"revert", "too-low", "too-high", "rpc"}, Catch(o, error)
      PROVE  \E x \in Served : pc' = [pc EXCEPT ![o] = x]
  BY <1>1 DEF Catch, Served, Settled
<1>2. CASE TakeTurn(o)
  BY <1>2 DEF TakeTurn, MaySend, Serves, Served, InSender
<1>3. CASE Estimate(o) \/ BackoffElapses(o) \/ Accept(o)
  BY <1>3 DEF Estimate, BackoffElapses, Accept, Serves, Served, Settled, InSender
<1>4. CASE EstimateReverts(o) \/ NonceTooLow(o)
  BY <1>1, <1>4 DEF EstimateReverts, NonceTooLow, Serves, InSender
<1>5. CASE \E error \in {"too-high", "rpc"} : Refuse(o, error)
  BY <1>1, <1>5 DEF Refuse, Serves, InSender
<1>6. CASE AnswerLost(o)
  BY <1>1, <1>6 DEF AnswerLost, Serves, InSender
<1> QED
  BY <1>2, <1>3, <1>4, <1>5, <1>6 DEF Attempt

LEMMA ServeKeepsLine ==
  ASSUME TypeOK, SendersInLine, NEW o \in Ops, Serves(o)
  PROVE  SendersInLine'
<1> SUFFICES ASSUME adapter = "viem"
             PROVE  SendersInLine'
  BY DEF Serves, SendersInLine, senderVars
<1>1. PICK s \in Seq(Ops) : Line(s)
  BY DEF SendersInLine
<1>2. PICK x \in Served : pc' = [pc EXCEPT ![o] = x]
  BY DEF Serves
<1>3. /\ pc[o] \in InSender /\ pc'[o] \in Served
      /\ \A a \in Ops \ {o} : pc'[a] = pc[a]
      /\ sendPrevious' = sendPrevious /\ sendTail' = sendTail /\ adapter' = adapter
  BY <1>2 DEF Serves, TypeOK, senderVars
<1>4. Len(s) \in Nat /\ \A i \in 1 .. Len(s) : s[i] \in Ops
  OBVIOUS
<1>5. /\ pc[o] \in Started /\ pc'[o] \in Started /\ pc[o] \notin Settled
      /\ pc[o] \in Served \/ pc[o] = "lined"
  BY <1>3 DEF Started, InSender, Settled, Served
<1>6. \A a \in Ops : (pc'[a] \in Started <=> pc[a] \in Started) /\ (pc[a] \in Settled => pc'[a] \in Settled)
  BY <1>3, <1>5
<1>7. \A i, j \in 1 .. Len(s) : i < j /\ pc'[s[j]] \in Served => pc'[s[i]] \in Settled
  <2> SUFFICES ASSUME NEW i \in 1 .. Len(s), NEW j \in 1 .. Len(s), i < j, pc'[s[j]] \in Served
               PROVE  pc[s[i]] \in Settled
    BY <1>4, <1>6
  <2>1. CASE pc[s[j]] \in Served
    BY <1>1, <2>1 DEF Line
  <2>2. CASE s[j] = o /\ pc[o] = "lined"
    <3>1. j # 1 /\ j - 1 \in 1 .. Len(s)
      BY <1>4
    <3>2. sendPrevious[o] = s[j - 1]
      BY <1>1, <2>2, <3>1 DEF Line
    <3>3. pc[s[j - 1]] \in Settled
      BY <1>4, <2>2, <3>1, <3>2, NoOpAssumption DEF Serves, HasSettled
    <3>4. pc[s[j - 1]] \in Served
      BY <3>3 DEF Served
    <3>5. i = j - 1 \/ i < j - 1
      BY <1>4
    <3> QED
      BY <1>1, <3>1, <3>3, <3>4, <3>5 DEF Line
  <2> QED
    BY <1>3, <1>4, <1>5, <2>1, <2>2
<1>8. Line(s)'
  BY <1>1, <1>3, <1>4, <1>6, <1>7 DEF Line
<1> QED
  BY <1>8 DEF SendersInLine

(* Two operations of a viem sender never both have the turn.               *)
LEMMA OneIsServed ==
  ASSUME TypeOK, SendersInLine, adapter = "viem", NEW a \in Ops, NEW b \in Ops,
         pc[a] \in Served \ Settled, pc[b] \in Served \ Settled
  PROVE  a = b
<1>1. PICK s \in Seq(Ops) : Line(s)
  BY DEF SendersInLine
<1>2. pc[a] \in Started /\ pc[b] \in Started
  BY DEF Served, Started, InSender, Settled
<1>3. PICK i \in 1 .. Len(s) : s[i] = a
  BY <1>1, <1>2 DEF Line
<1>4. PICK j \in 1 .. Len(s) : s[j] = b
  BY <1>1, <1>2 DEF Line
<1>5. i < j \/ i = j \/ j < i
  BY Len(s) \in Nat
<1> QED
  BY <1>1, <1>3, <1>4, <1>5 DEF Line

-----------------------------------------------------------------------------
(* The attempts.                                                           *)
LEMMA CatchOutcome ==
  ASSUME TypeOK, NEW o \in Ops, NEW error \in {"revert", "too-low", "too-high", "rpc"},
         Catch(o, error)
  PROVE  /\ \A a \in Ops \ {o} : pc'[a] = pc[a] /\ retry'[a] = retry[a] /\ cause'[a] = cause[a]
         /\ \/ /\ error \in {"too-low", "too-high"}
               /\ pc'[o] = "backoff" /\ retry'[o] = retry[o] + 1 /\ cause'[o] = cause[o]
            \/ /\ pc'[o] = "failed" /\ retry'[o] = retry[o] /\ cause'[o] = error
               /\ error = "too-low" => retry[o] = RetryLimit
<1>1. adapter = "viem" \/ adapter = "ethers"
  BY DEF TypeOK, Adapters
<1>2. IsNonceConflict("too-low") /\ (IsNonceConflict(error) => error \in {"too-low", "too-high"})
  BY <1>1 DEF IsNonceConflict, ConflictsByAdapter
<1>3. retry[o] \in Nat /\ retry[o] <= RetryLimit /\ RetryLimit \in Nat
  BY CountsAreNat
<1>4. CASE IsNonceConflict(error) /\ MayRetry(o)
  BY <1>2, <1>4 DEF Catch, TypeOK
<1>5. CASE ~(IsNonceConflict(error) /\ MayRetry(o))
  <2>1. error = "too-low" => retry[o] = RetryLimit
    BY <1>2, <1>3, <1>5 DEF MayRetry
  <2> QED
    BY <1>5, <2>1 DEF Catch, TypeOK
<1> QED
  BY <1>4, <1>5

(* The ledger is as it was, and no attempt begins or ends.                 *)
LEMMA RestDefeated ==
  ASSUME ContentionInv, NEW a \in Ops, UNCHANGED <<adapter, ledger>>,
         faults' \in Nat, faults <= faults',
         picked'[a] = picked[a], retry'[a] = retry[a], cause'[a] \in {cause[a], "revert", "too-high", "rpc"},
         pc'[a] = pc[a] \/ pc'[a] # "sending"
  PROVE  DefeatedFor(a)'
<1>1. /\ Len(ledger) \in Nat /\ Foreigns \in Nat /\ Others(a) \in Nat /\ faults \in Nat
      /\ RetryLimit \in Nat /\ retry[a] \in Nat /\ picked[a] \in Nat
  BY CountsAreNat DEF ContentionInv
<1>2. Others(a)' = Others(a) /\ Foreigns' = Foreigns
  BY DEF Others, Foreigns
<1>3. DefeatedFor(a)
  BY DEF ContentionInv
<1>4. Missed(a) \in Nat /\ Missed(a)' \in Nat /\ Missed(a)' <= Missed(a)
  BY <1>1, <1>3 DEF Missed, DefeatedFor
<1> QED
  BY <1>1, <1>2, <1>3, <1>4 DEF DefeatedFor

(* A transaction is accepted.                                              *)
LEMMA RecordDefeated ==
  ASSUME ContentionInv, NEW e \in Ops \cup {Foreign}, ledger' = Append(ledger, e), adapter' = adapter,
         faults' \in Nat, faults <= faults', NEW a \in Ops,
         picked'[a] = picked[a], retry'[a] = retry[a], cause'[a] \in {cause[a], "rpc"},
         IF e = a THEN pc[a] = "sending" /\ picked[a] = Len(ledger) /\ pc'[a] \in Settled
                  ELSE pc'[a] = pc[a],
         e \in Ops => pc[e] = "sending"
  PROVE  DefeatedFor(a)'
<1>1. /\ Len(ledger) \in Nat /\ Foreigns \in Nat /\ Others(a) \in Nat /\ faults \in Nat
      /\ RetryLimit \in Nat /\ retry[a] \in Nat /\ picked[a] \in Nat
  BY CountsAreNat DEF ContentionInv
<1>2. /\ Len(ledger') = Len(ledger) + 1
      /\ Others(a)' = IF e # a THEN Others(a) + 1 ELSE Others(a)
      /\ Foreigns' = IF e = Foreign THEN Foreigns + 1 ELSE Foreigns
  BY CountsGrow DEF ContentionInv
<1>3. DefeatedFor(a)
  BY DEF ContentionInv
<1>4. CASE e = a
  <2>1. Missed(a) = 0 /\ Missed(a)' = 0 /\ e # Foreign
    BY <1>1, <1>4, ForeignAssumption DEF Missed, Settled
  <2> QED
    BY <1>1, <1>2, <1>3, <1>4, <2>1 DEF DefeatedFor
<1>5. CASE e # a
  <2>1. CASE pc[a] = "sending"
    <3>1. Missed(a)' = Missed(a) + 1 /\ Missed(a) \in Nat /\ picked'[a] <= Len(ledger')
      <4>1. Missed(a) = Len(ledger) - picked[a] /\ picked[a] <= Len(ledger)
        BY <1>3, <2>1 DEF Missed, DefeatedFor
      <4>2. pc'[a] = "sending"
        BY <1>5, <2>1
      <4>3. Missed(a)' = Len(ledger') - picked[a]
        BY <4>2 DEF Missed
      <4>4. Missed(a)' = (Len(ledger) + 1) - picked[a]
        BY <1>2, <4>3
      <4>5. (Len(ledger) + 1) - picked[a] = (Len(ledger) - picked[a]) + 1 /\ Len(ledger) - picked[a] \in Nat
            /\ picked[a] <= Len(ledger) + 1
        BY <1>1, <4>1
      <4> QED
        BY <1>2, <4>1, <4>4, <4>5
    <3>2. adapter = "viem" => e = Foreign
      <4>1. "sending" \in Served \ Settled
        BY DEF Served, Settled
      <4> QED
        BY <1>5, <2>1, <4>1, OneIsServed DEF ContentionInv
    <3>3. Others(a)' = Others(a) + 1 /\ (adapter = "viem" => Foreigns' = Foreigns + 1)
      BY <1>2, <1>5, <3>2
    <3>4. /\ retry[a] + (Missed(a) + 1) <= faults' + (Others(a) + 1)
          /\ adapter = "viem" => retry[a] + (Missed(a) + 1) <= faults' + (Foreigns + 1)
          /\ cause[a] = "too-low" => faults' + (Others(a) + 1) > RetryLimit
      <4>1. /\ retry[a] + Missed(a) <= faults + Others(a)
            /\ adapter = "viem" => retry[a] + Missed(a) <= faults + Foreigns
            /\ cause[a] = "too-low" => faults + Others(a) > RetryLimit
        BY <1>3 DEF DefeatedFor
      <4>2. faults' \in Nat /\ faults <= faults'
        OBVIOUS
      <4>3. retry[a] + (Missed(a) + 1) <= faults' + (Others(a) + 1)
        BY <1>1, <3>1, <4>1, <4>2
      <4>4. adapter = "viem" => retry[a] + (Missed(a) + 1) <= faults' + (Foreigns + 1)
        BY <1>1, <3>1, <4>1, <4>2
      <4>5. cause[a] = "too-low" => faults' + (Others(a) + 1) > RetryLimit
        BY <1>1, <4>1, <4>2
      <4> QED
        BY <4>3, <4>4, <4>5
    <3>5. cause'[a] = "too-low" => cause[a] = "too-low"
      OBVIOUS
    <3>6. /\ retry'[a] + Missed(a)' <= faults' + Others(a)'
          /\ cause'[a] = "too-low" => faults' + Others(a)' > RetryLimit
      BY <3>1, <3>3, <3>4, <3>5
    <3>7. adapter' = "viem" => retry'[a] + Missed(a)' <= faults' + Foreigns'
      BY <3>1, <3>3, <3>4
    <3> QED
      BY <3>1, <3>6, <3>7 DEF DefeatedFor
  <2>2. CASE pc[a] # "sending"
    <3>1. Missed(a) = 0 /\ Missed(a)' = 0
      BY <1>5, <2>2 DEF Missed
    <3> QED
      BY <1>1, <1>2, <1>3, <1>5, <3>1 DEF DefeatedFor
  <2> QED
    BY <2>1, <2>2
<1> QED
  BY <1>4, <1>5

(* An attempt that was sent is defeated, by a fault or a nonce it missed.  *)
LEMMA DefeatCounts ==
  ASSUME ContentionInv, NEW o \in Ops, pc[o] = "sending",
         NEW error \in {"too-low", "too-high", "rpc"}, Catch(o, error),
         UNCHANGED <<adapter, ledger, picked>>,
         \/ error = "too-low" /\ picked[o] < Len(ledger) /\ faults' = faults
         \/ error # "too-low" /\ faults' = faults + 1
  PROVE  DefeatedFor(o)'
<1>1. /\ Len(ledger) \in Nat /\ Foreigns \in Nat /\ Others(o) \in Nat /\ faults \in Nat
      /\ RetryLimit \in Nat /\ retry[o] \in Nat /\ picked[o] \in Nat
  BY CountsAreNat DEF ContentionInv
<1>2. Others(o)' = Others(o) /\ Foreigns' = Foreigns /\ picked'[o] = picked[o]
  BY DEF Others, Foreigns
<1>3. DefeatedFor(o) /\ Missed(o) = Len(ledger) - picked[o]
  BY DEF ContentionInv, Missed
<1>4. \/ pc'[o] = "backoff" /\ retry'[o] = retry[o] + 1 /\ cause'[o] = cause[o]
      \/ /\ pc'[o] = "failed" /\ retry'[o] = retry[o] /\ cause'[o] = error
         /\ error = "too-low" => retry[o] = RetryLimit
  BY CatchOutcome DEF ContentionInv
<1>5. Missed(o)' = 0
  BY <1>4 DEF Missed
<1>6. /\ picked[o] <= Len(ledger)
      /\ retry[o] + 1 <= faults' + Others(o)
      /\ adapter = "viem" => retry[o] + 1 <= faults' + Foreigns
      /\ cause[o] = "too-low" => faults' + Others(o) > RetryLimit
  <2> DEFINE m == Len(ledger) - picked[o]
  <2>1. /\ picked[o] <= Len(ledger) /\ m \in Nat
        /\ retry[o] + m <= faults + Others(o)
        /\ adapter = "viem" => retry[o] + m <= faults + Foreigns
        /\ cause[o] = "too-low" => faults + Others(o) > RetryLimit
    BY <1>1, <1>3 DEF DefeatedFor
  <2>2. \/ m >= 1 /\ faults' = faults
        \/ faults' = faults + 1
    BY <1>1, <2>1
  <2> HIDE DEF m
  <2> QED
    BY <1>1, <2>1, <2>2
<1>7. retry'[o] <= retry[o] + 1 /\ retry'[o] \in Nat /\ faults' \in Nat
  BY <1>1, <1>4
<1>8. cause'[o] = "too-low" => faults' + Others(o) > RetryLimit
  BY <1>1, <1>4, <1>6, <1>7
<1>9. retry'[o] <= faults' + Others(o) /\ (adapter = "viem" => retry'[o] <= faults' + Foreigns)
  BY <1>1, <1>6, <1>7
<1> QED
  BY <1>1, <1>2, <1>5, <1>6, <1>7, <1>8, <1>9 DEF DefeatedFor

LEMMA AttemptDefeated ==
  ASSUME ContentionInv, NEW o \in Ops, Attempt(o), NEW a \in Ops
  PROVE  DefeatedFor(a)'
<1>1. faults \in Nat /\ faults + 1 \in Nat /\ faults <= faults /\ faults <= faults + 1
  BY CountsAreNat DEF ContentionInv
<1>2. TypeOK
  BY DEF ContentionInv
<1>3. CASE Estimate(o)
  <2>1. CASE a = o
    <3>1. /\ Len(ledger) \in Nat /\ Foreigns \in Nat /\ Others(a) \in Nat
          /\ RetryLimit \in Nat /\ retry[a] \in Nat
      BY <1>2, CountsAreNat
    <3>2. /\ Others(a)' = Others(a) /\ Foreigns' = Foreigns
          /\ UNCHANGED <<ledger, faults, adapter, retry, cause>>
      BY <1>3 DEF Estimate, networkVars, senderVars, Others, Foreigns
    <3>3. picked'[a] = Len(ledger) /\ pc'[a] = "sending" /\ pc[a] # "sending"
      BY <1>2, <1>3, <2>1 DEF Estimate, TypeOK
    <3>4. Missed(a) = 0 /\ Missed(a)' = 0
      BY <3>1, <3>2, <3>3 DEF Missed
    <3>5. DefeatedFor(a)
      BY DEF ContentionInv
    <3> QED
      BY <1>1, <3>1, <3>2, <3>3, <3>4, <3>5 DEF DefeatedFor
  <2>2. CASE a # o
    <3>1. /\ pc'[a] = pc[a] /\ picked'[a] = picked[a]
          /\ UNCHANGED <<ledger, faults, adapter, retry, cause>>
      BY <1>2, <1>3, <2>2 DEF Estimate, networkVars, senderVars, TypeOK
    <3> QED
      BY <1>1, <3>1, RestDefeated
  <2> QED
    BY <2>1, <2>2
<1>4. CASE BackoffElapses(o)
  <2>1. /\ UNCHANGED <<ledger, faults, adapter, picked, retry, cause>>
        /\ pc'[a] = pc[a] \/ pc'[a] # "sending"
    BY <1>2, <1>4 DEF BackoffElapses, networkVars, senderVars, attemptVars, TypeOK
  <2> QED
    BY <1>1, <2>1, RestDefeated
<1>5. CASE EstimateReverts(o)
  <2>1. /\ UNCHANGED <<ledger, faults, adapter, picked>>
        /\ retry'[a] = retry[a] /\ cause'[a] \in {cause[a], "revert"}
        /\ pc'[a] = pc[a] \/ pc'[a] # "sending"
    BY <1>2, <1>5, CatchOutcome DEF EstimateReverts, networkVars, senderVars
  <2> QED
    BY <1>1, <2>1, RestDefeated
<1>6. CASE Accept(o)
  <2>1. /\ ledger' = Append(ledger, o) /\ UNCHANGED <<faults, adapter, picked, retry, cause>>
        /\ pc[o] = "sending" /\ picked[o] = Len(ledger) /\ pc'[o] = "sent"
        /\ a # o => pc'[a] = pc[a]
    BY <1>2, <1>6 DEF Accept, senderVars, attemptVars, TypeOK
  <2>2. IF o = a THEN pc[a] = "sending" /\ picked[a] = Len(ledger) /\ pc'[a] \in Settled
                 ELSE pc'[a] = pc[a]
    BY <2>1 DEF Settled
  <2> QED
    BY <1>1, <2>1, <2>2, RecordDefeated
<1>7. CASE AnswerLost(o)
  <2>1. /\ ledger' = Append(ledger, o) /\ UNCHANGED <<adapter, picked>> /\ faults' = faults + 1
        /\ pc[o] = "sending" /\ picked[o] = Len(ledger)
        /\ Catch(o, "rpc")
    BY <1>7 DEF AnswerLost, senderVars
  <2>2. /\ retry'[a] = retry[a] /\ cause'[a] \in {cause[a], "rpc"}
        /\ pc'[o] = "failed"
        /\ a # o => pc'[a] = pc[a]
    BY <1>2, <2>1, CatchOutcome
  <2>3. IF o = a THEN pc[a] = "sending" /\ picked[a] = Len(ledger) /\ pc'[a] \in Settled
                 ELSE pc'[a] = pc[a]
    BY <2>1, <2>2 DEF Settled
  <2> QED
    BY <1>1, <2>1, <2>2, <2>3, RecordDefeated
<1>8. CASE NonceTooLow(o) \/ \E error \in {"too-high", "rpc"} : Refuse(o, error)
  <2>1. PICK error \in {"too-low", "too-high", "rpc"} :
          /\ pc[o] = "sending" /\ Catch(o, error)
          /\ UNCHANGED <<adapter, ledger, picked>>
          /\ \/ error = "too-low" /\ picked[o] < Len(ledger) /\ faults' = faults
             \/ error # "too-low" /\ faults' = faults + 1
    BY <1>8 DEF NonceTooLow, Refuse, senderVars, networkVars
  <2>2. CASE a = o
    BY <2>1, <2>2, DefeatCounts
  <2>3. CASE a # o
    <3>1. pc'[a] = pc[a] /\ retry'[a] = retry[a] /\ cause'[a] = cause[a]
      BY <1>2, <2>1, <2>3, CatchOutcome
    <3>2. faults' \in Nat /\ faults <= faults'
      BY <1>1, <2>1
    <3> QED
      BY <2>1, <3>1, <3>2, RestDefeated
  <2> QED
    BY <2>2, <2>3
<1> QED
  BY <1>3, <1>4, <1>5, <1>6, <1>7, <1>8 DEF Attempt

LEMMA ContentionInit == Init => ContentionInv
<1> SUFFICES ASSUME Init
             PROVE  ContentionInv
  OBVIOUS
<1>1. TypeOK
  BY TypeInit
<1>2. SendersInLine
  <2>1. Line(<<>>)
    BY DEF Line, Init, Started, InSender, Settled
  <2>2. <<>> \in Seq(Ops)
    OBVIOUS
  <2> QED
    BY <2>1, <2>2 DEF SendersInLine
<1>3. ASSUME NEW o \in Ops
      PROVE  DefeatedFor(o)
  <2>1. picked[o] = 0 /\ retry[o] = 0 /\ Missed(o) = 0 /\ cause[o] # "too-low"
    BY DEF Init, Missed
  <2>2. Len(ledger) \in Nat /\ Foreigns \in Nat /\ Others(o) \in Nat /\ faults \in Nat
    BY <1>1, CountsAreNat
  <2> QED
    BY <2>1, <2>2 DEF DefeatedFor
<1> QED
  BY <1>1, <1>2, <1>3 DEF ContentionInv

LEMMA ContentionStep ==
  ASSUME ContentionInv, [Next]_vars
  PROVE  ContentionInv'
<1>1. TypeOK /\ TypeOK'
  BY TypeStep DEF ContentionInv
<1>2. faults \in Nat /\ faults <= faults
  BY <1>1, CountsAreNat
<1>3. CASE UNCHANGED <<adapter, ledger, faults, picked, retry, cause, sendTail, sendPrevious>>
           /\ \A a \in Ops : /\ pc'[a] = pc[a] \/ pc'[a] # "sending"
                             /\ pc'[a] = pc[a] \/ ({pc[a], pc'[a]} \subseteq {"new", "chained"})
  <2>1. \A a \in Ops : DefeatedFor(a)'
    BY <1>2, <1>3, RestDefeated
  <2>2. SendersInLine'
    <3> SUFFICES ASSUME adapter = "viem", NEW s \in Seq(Ops), Line(s)
                 PROVE  Line(s)'
      BY <1>3 DEF ContentionInv, SendersInLine
    <3>1. \A a \in Ops : /\ pc'[a] \in Started <=> pc[a] \in Started
                         /\ pc'[a] \in Served <=> pc[a] \in Served
                         /\ pc'[a] \in Settled <=> pc[a] \in Settled
      BY <1>3 DEF Started, InSender, Settled, Served
    <3>2. \A i \in 1 .. Len(s) : s[i] \in Ops
      OBVIOUS
    <3> QED
      BY <1>3, <3>1, <3>2 DEF Line
  <2> QED
    BY <1>1, <2>1, <2>2 DEF ContentionInv
<1>4. ASSUME NEW o \in Ops, HandOver(o)
      PROVE  ContentionInv'
  <2>1. /\ UNCHANGED <<adapter, ledger, faults, picked, retry, cause, sendTail, sendPrevious>>
        /\ pc[o] = "new" /\ pc'[o] = "chained" /\ \A a \in Ops \ {o} : pc'[a] = pc[a]
    BY <1>1, <1>4 DEF HandOver, senderVars, attemptVars, networkVars, TypeOK
  <2> QED
    BY <1>3, <2>1
<1>5. ASSUME NEW o \in Ops, Start(o) \/ TakeTurn(o)
      PROVE  ContentionInv'
  <2>1. SendersInLine'
    BY <1>1, <1>5, StartKeepsLine, AttemptServes, ServeKeepsLine DEF ContentionInv
  <2>2. UNCHANGED <<adapter, ledger, faults, picked, retry, cause>>
    BY <1>5 DEF Start, TakeTurn, senderVars, attemptVars, networkVars
  <2>3. \A a \in Ops : pc'[a] = pc[a] \/ pc'[a] # "sending"
    BY <1>1, <1>5 DEF Start, TakeTurn, TypeOK
  <2>4. \A a \in Ops : DefeatedFor(a)'
    BY <1>2, <2>2, <2>3, RestDefeated
  <2> QED
    BY <1>1, <2>1, <2>4 DEF ContentionInv
<1>6. ASSUME NEW o \in Ops, Attempt(o)
      PROVE  ContentionInv'
  <2>1. SendersInLine'
    BY <1>1, <1>6, AttemptServes, ServeKeepsLine DEF ContentionInv
  <2>2. \A a \in Ops : DefeatedFor(a)'
    BY <1>6, AttemptDefeated
  <2> QED
    BY <1>1, <2>1, <2>2 DEF ContentionInv
<1>7. CASE ForeignSend
  <2>1. /\ ledger' = Append(ledger, Foreign) /\ Foreign \notin Ops
        /\ UNCHANGED <<pc, adapter, faults, picked, retry, cause, sendTail, sendPrevious>>
    BY <1>7, ForeignAssumption DEF ForeignSend, senderVars, attemptVars
  <2>2. SendersInLine'
    BY <2>1 DEF ContentionInv, SendersInLine, Line
  <2>3. ASSUME NEW a \in Ops
        PROVE  DefeatedFor(a)'
    BY <1>2, <2>1, RecordDefeated
  <2> QED
    BY <1>1, <2>2, <2>3 DEF ContentionInv
<1>8. CASE UNCHANGED vars
  BY <1>3, <1>8 DEF vars, senderVars, attemptVars, networkVars
<1> QED
  BY <1>4, <1>5, <1>6, <1>7, <1>8 DEF Next, Progress

(* With the viem sender, operations of one process never take each other's *)
(* nonces (sendWithNonceRetry behind sendQueue): whatever the queues, each *)
(* retry is due to another process or to a fault.                          *)
THEOREM SendersDoNotContend == Spec => []NoSelfContention
<1>1. ContentionInv => NoSelfContention
  <2> SUFFICES ASSUME ContentionInv, adapter = "viem", NEW o \in Ops
               PROVE  retry[o] <= faults + Foreigns
    BY DEF NoSelfContention, Foreigns
  <2>1. DefeatedFor(o) /\ TypeOK
    BY DEF ContentionInv
  <2>2. /\ Len(ledger) \in Nat /\ Foreigns \in Nat /\ faults \in Nat
        /\ retry[o] \in Nat /\ picked[o] \in Nat
    BY <2>1, CountsAreNat
  <2>3. Missed(o) \in Nat
    BY <2>1, <2>2 DEF Missed, DefeatedFor
  <2> QED
    BY <2>1, <2>2, <2>3 DEF DefeatedFor
<1> QED
  BY <1>1, ContentionInit, ContentionStep, PTL DEF Spec

(* An operation fails on its nonce only when RetryLimit + 1 attempts were  *)
(* defeated one by one, with either adapter (sendWithNonceRetry).          *)
THEOREM GivesUpForCause == Spec => []GivesUpOnlyUnderContention
<1>1. ContentionInv => GivesUpOnlyUnderContention
  <2> SUFFICES ASSUME ContentionInv, NEW o \in Ops, cause[o] = "too-low"
               PROVE  Others(o) + faults > RetryLimit
    BY DEF GivesUpOnlyUnderContention, Others
  <2>1. DefeatedFor(o) /\ TypeOK
    BY DEF ContentionInv
  <2>2. Others(o) \in Nat /\ faults \in Nat /\ RetryLimit \in Nat
    BY <2>1, CountsAreNat
  <2> QED
    BY <2>1, <2>2 DEF DefeatedFor
<1> QED
  BY <1>1, ContentionInit, ContentionStep, PTL DEF Spec
=============================================================================
