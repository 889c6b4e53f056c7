-------------------------- MODULE D402Client_proofs --------------------------
(***************************************************************************)
(* Proofs about D402Client: a call presents no payment but its own, ends   *)
(* without one only for a cause, and returns once what it stands for has   *)
(* happened, for any number of overlapping calls, any payments they share  *)
(* and any number of failures.                                             *)
(***************************************************************************)
EXTENDS D402Client, SequenceTheorems, TLAPS

Early == {"new", "unpaid", "policy", "prepare", "free"}
Holding == {"paid", "refund", "attempt", "returned", "retry", "retried"}

Owns(c) == creator[paymentOf[c]] = c
Contends(c, d) ==
  \/ paymentOf[d] = paymentOf[c] /\ status[d]["create"] # "none"
  \/ IsErc20(c) /\ IsErc20(d) /\ status[d]["approve"] # "none"
Contended(c) == \E d \in Calls \ {c} : Contends(c, d)

(* What waits in the pool was sent once and has no receipt yet.            *)
PoolInv ==
  /\ \A i \in 1 .. Len(pool) : status[pool[i].call][pool[i].stage] = "pool"
  /\ \A i, j \in 1 .. Len(pool) : pool[i] = pool[j] => i = j

(* The transactions of a call and the chain: the one creation that did not *)
(* revert created the payment; one that reverted, or will for want of an   *)
(* allowance, had a neighbour.                                             *)
Resolved(c) ==
  LET reached == payment[paymentOf[c]] IN
  /\ status[c]["settle"] = "success" => reached = "settled"
  /\ status[c]["dispute"] = "success" => reached \in {"disputed", "resolved"}
  /\ status[c]["submit-evidence"] = "success" => reached \in {"disputed", "resolved"}

ChainInv(c) ==
  /\ status[c]["create"] = "success" <=> Owns(c)
  /\ \A s \in Actions : status[c][s] # "none" => Owns(c)
  /\ IsErc20(c) /\ status[c]["create"] # "none" => status[c]["approve"] = "success"
  /\ status[c]["approve"] # "reverted"
  /\ ~IsErc20(c) => status[c]["approve"] = "none"
  /\ status[c]["create"] = "reverted" => Contended(c)
  /\ IsErc20(c) /\ status[c]["approve"] = "success" /\ status[c]["create"] \in {"none", "pool"} =>
       allowance = 1 \/ Contended(c)
  /\ Resolved(c)

PaymentInv(p) ==
  /\ creator[p] = None => payment[p] = "none"
  /\ creator[p] # None => paymentOf[creator[p]] = p

(* Where a call stands, and which of its transactions are still to be sent. *)
CallInv(c) ==
  /\ pc[c] \in Early => \A s \in Stages : status[c][s] = "none"
  /\ pc[c] = "paid" => stage[c] = "create" /\ \A s \in Actions : status[c][s] = "none"
  /\ pc[c] = "refund" => stage[c] = "create" /\ decision[c] = "request-refund"
  /\ pc[c] = "act" => stage[c] \in Actions
  /\ pc[c] \in {"act", "queued"} => status[c][stage[c]] = "none"
  /\ pc[c] = "queued" /\ stage[c] = "approve" => IsErc20(c)
  /\ pc[c] \in {"queued", "mined"} /\ stage[c] \notin Actions =>
       /\ \A s \in Actions : status[c][s] = "none"
       /\ stage[c] = "approve" => status[c]["create"] = "none"
       /\ stage[c] = "create" /\ IsErc20(c) => status[c]["approve"] = "success"
  /\ stage[c] \in Actions \/ pc[c] \in Holding => Owns(c)

IInv ==
  /\ TypeOK /\ PoolInv
  /\ \A c \in Calls : ChainInv(c) /\ CallInv(c)
  /\ \A p \in Payments : PaymentInv(p)
  /\ FailsOnlyForCause /\ ReturnsOnceResolved

Statuses == {"none", "pool", "success", "reverted"}
PaymentStates == {"none", "funded", "settled", "disputed", "refunded", "resolved"}
Transaction == [call : Calls, stage : Stages]

-----------------------------------------------------------------------------
(* Types.                                                                  *)
LEMMA TypeInit == Init => TypeOK
  BY DEF Init, TypeOK, Stages, Actions, Challenges, Decisions, ActionsOn

(* A step of one call leaves where the others stand.                       *)
CallAction(c) == Ask(c) \/ Progress(c) \/ Retry(c) \/ CallExecutor(c)

CallTypes ==
  /\ pc \in [Calls -> {"new"} \cup Awaiting \cup Ended]
  /\ stage \in [Calls -> Stages]
  /\ challenge \in [Calls -> Challenges]
  /\ decision \in [Calls -> Decisions]

LEMMA CallFrame ==
  ASSUME CallTypes, NEW c \in Calls, CallAction(c)
  PROVE  /\ CallTypes'
         /\ \A d \in Calls \ {c} :
              /\ pc'[d] = pc[d] /\ stage'[d] = stage[d]
              /\ challenge'[d] = challenge[d] /\ decision'[d] = decision[d]
<1> USE DEF CallAction, CallTypes, Goto, Awaiting, Ended
<1>1. CASE Ask(c) \/ Fails(c) \/ Retry(c) \/ RetryAnswered(c)
  BY <1>1 DEF Ask, Fails, Retry, RetryAnswered, ErrorFor, callVars
<1>2. CASE CallExecutor(c)
  BY <1>2 DEF CallExecutor, Stages
<1>3. CASE Challenged(c)
  BY <1>3 DEF Challenged, AfterChallenge, Challenges
<1>4. CASE CheckPolicy(c)
  BY <1>4 DEF CheckPolicy, callVars
<1>5. CASE PrepareCreation(c) \/ ApprovalMined(c) \/ PrepareAction(c)
  BY <1>5 DEF PrepareCreation, ApprovalMined, PrepareAction, HandOver, FirstStage, Stages, callVars
<1>6. CASE Broadcast(c) \/ BroadcastFails(c)
  BY <1>6 DEF Broadcast, BroadcastFails, OnFailure, callVars
<1>7. CASE CreationMined(c) \/ ActionMined(c)
  BY <1>7 DEF CreationMined, ActionMined, OnFailure, callVars
<1>8. CASE Answered(c)
  <2>1. PICK action \in ActionsOn.accepted \cup ActionsOn.rejected :
          /\ decision' = [decision EXCEPT ![c] = action]
          /\ stage' = [stage EXCEPT ![c] = NextStage(c, action)]
          /\ pc' = [pc EXCEPT ![c] = AfterDecision(action)]
    BY <1>8 DEF Answered, ActionsOn
  <2>2. action \in Decisions
    BY <2>1 DEF Decisions
  <2>3. AfterDecision(action) \in Awaiting \cup Ended
    BY DEF AfterDecision
  <2>4. NextStage(c, action) \in Stages
    BY DEF NextStage, Stages
  <2> QED
    BY <1>8, <2>1, <2>2, <2>3, <2>4 DEF Answered
<1>9. CASE Refunded(c)
  BY <1>9 DEF Refunded, callVars
<1> QED
  BY <1>1, <1>2, <1>3, <1>4, <1>5, <1>6, <1>7, <1>8, <1>9
     DEF Progress, CheckChallenge, Execute, Resolve

(* What it may change of what the calls share.                             *)
LEMMA SharedFrame ==
  ASSUME NEW c \in Calls, CallAction(c)
  PROVE  /\ UNCHANGED <<paymentOf, token, creator, allowance>>
         /\ queue' = queue \/ queue' = Append(queue, c) \/ (queue # <<>> /\ queue' = Tail(queue))
         /\ UNCHANGED <<pool, status>> \/ ((Broadcast(c) \/ BroadcastFails(c)) /\ IntoPool(c))
         /\ \/ payment' = payment
            \/ payment[paymentOf[c]] = "funded" /\ payment' = [payment EXCEPT ![paymentOf[c]] = "refunded"]
         /\ faults' = faults \/ faults' = faults + 1
         /\ hit' = hit \/ hit' = hit \cup {c}
         /\ further' = further \/ further' = further + 1
<1> USE DEF CallAction, Fault, settingVars, callVars, chainVars, boundVars
<1>1. CASE Ask(c) \/ Fails(c) \/ Retry(c) \/ RetryAnswered(c) \/ CallExecutor(c)
  BY <1>1 DEF Ask, Fails, Retry, RetryAnswered, CallExecutor, HoldsPayment
<1>2. CASE Challenged(c) \/ CheckPolicy(c) \/ Answered(c) \/ Refunded(c)
  BY <1>2 DEF Challenged, CheckPolicy, Answered, Refunded
<1>3. CASE PrepareCreation(c) \/ PrepareAction(c) \/ ApprovalMined(c)
  BY <1>3 DEF PrepareCreation, PrepareAction, ApprovalMined, HandOver
<1>4. CASE Broadcast(c) \/ BroadcastFails(c)
  BY <1>4 DEF Broadcast, BroadcastFails, AtHead, LeaveQueue
<1>5. CASE CreationMined(c) \/ ActionMined(c)
  BY <1>5 DEF CreationMined, ActionMined
<1> QED
  BY <1>1, <1>2, <1>3, <1>4, <1>5 DEF Progress, CheckChallenge, Execute, Resolve

LEMMA MineFacts ==
  ASSUME TypeOK, Mine
  PROVE  \E c \in Calls, s \in Stages :
           /\ Len(pool) \in Nat \ {0} /\ pool[1] = [call |-> c, stage |-> s]
           /\ pool' = Tail(pool)
           /\ status' = [status EXCEPT ![c][s] = IF Reverts(c, s) THEN "reverted" ELSE "success"]
           /\ creator' = IF s = "create" /\ ~Reverts(c, s)
                           THEN [creator EXCEPT ![paymentOf[c]] = c] ELSE creator
           /\ payment' = CASE Reverts(c, s) -> payment
                           [] ~Reverts(c, s) /\ s = "create" -> [payment EXCEPT ![paymentOf[c]] = "funded"]
                           [] ~Reverts(c, s) /\ s = "settle" -> [payment EXCEPT ![paymentOf[c]] = "settled"]
                           [] ~Reverts(c, s) /\ s = "dispute" -> [payment EXCEPT ![paymentOf[c]] = "disputed"]
                           [] OTHER -> payment
           /\ allowance' = IF s = "approve" THEN 1
                             ELSE IF s = "create" /\ IsErc20(c) /\ ~Reverts(c, s) THEN 0 ELSE allowance
           /\ UNCHANGED <<paymentOf, token, pc, stage, challenge, decision, queue, further, faults, hit>>
<1> DEFINE c == Head(pool).call
           s == Head(pool).stage
<1>0. pool \in Seq(Transaction) /\ pool # <<>>
  BY DEF TypeOK, Mine, Transaction
<1>1. /\ Len(pool) \in Nat \ {0} /\ Head(pool) = pool[1]
      /\ c \in Calls /\ s \in Stages /\ pool[1] = [call |-> c, stage |-> s]
  <2>1. Len(pool) \in Nat \ {0} /\ Head(pool) = pool[1] /\ pool[1] \in Transaction
    BY <1>0
  <2> QED
    BY <2>1 DEF Transaction
<1> HIDE DEF c, s
<1>2. s \in {"approve", "create", "settle", "dispute", "submit-evidence"}
  BY <1>1 DEF Stages, Actions
<1>3. /\ pool' = Tail(pool)
      /\ status' = [status EXCEPT ![c][s] = IF Reverts(c, s) THEN "reverted" ELSE "success"]
      /\ creator' = IF s = "create" /\ ~Reverts(c, s)
                      THEN [creator EXCEPT ![paymentOf[c]] = c] ELSE creator
      /\ allowance' = IF s = "approve" THEN 1
                        ELSE IF s = "create" /\ IsErc20(c) /\ ~Reverts(c, s) THEN 0 ELSE allowance
      /\ UNCHANGED <<paymentOf, token, pc, stage, challenge, decision, queue, further, faults, hit>>
  BY DEF Mine, c, s, settingVars, callVars, boundVars
<1>4. payment' = IF s \in DOMAIN [create |-> "funded", settle |-> "settled", dispute |-> "disputed"]
                       /\ ~Reverts(c, s)
                   THEN [payment EXCEPT ![paymentOf[c]] =
                           [create |-> "funded", settle |-> "settled", dispute |-> "disputed"][s]]
                   ELSE payment
  BY DEF Mine, c, s
<1> DEFINE moved == [create |-> "funded", settle |-> "settled", dispute |-> "disputed"]
<1>6. /\ DOMAIN moved = {"create", "settle", "dispute"}
      /\ moved["create"] = "funded" /\ moved["settle"] = "settled" /\ moved["dispute"] = "disputed"
  OBVIOUS
<1>5. payment' = CASE Reverts(c, s) -> payment
                   [] ~Reverts(c, s) /\ s = "create" -> [payment EXCEPT ![paymentOf[c]] = "funded"]
                   [] ~Reverts(c, s) /\ s = "settle" -> [payment EXCEPT ![paymentOf[c]] = "settled"]
                   [] ~Reverts(c, s) /\ s = "dispute" -> [payment EXCEPT ![paymentOf[c]] = "disputed"]
                   [] OTHER -> payment
  <2> HIDE DEF moved
  <2>1. payment' = IF s \in DOMAIN moved /\ ~Reverts(c, s)
                     THEN [payment EXCEPT ![paymentOf[c]] = moved[s]] ELSE payment
    BY <1>4 DEF moved
  <2> QED
    BY <1>2, <1>6, <2>1
<1> QED
  BY <1>1, <1>3, <1>5

LEMMA TypeStep ==
  ASSUME TypeOK, [Next]_vars
  PROVE  TypeOK'
<1>1. ASSUME NEW c \in Calls, CallAction(c)
      PROVE  TypeOK'
  <2>1. CallTypes'
    BY <1>1, CallFrame DEF TypeOK, CallTypes
  <2>2. queue' \in Seq(Calls)
    <3>1. queue \in Seq(Calls)
      BY DEF TypeOK
    <3> QED
      BY <1>1, <3>1, SharedFrame
  <2>3. /\ pool' \in Seq([call : Calls, stage : Stages])
        /\ status' \in [Calls -> [Stages -> {"none", "pool", "success", "reverted"}]]
    <3>1. /\ pool \in Seq([call : Calls, stage : Stages]) /\ stage[c] \in Stages
          /\ status \in [Calls -> [Stages -> {"none", "pool", "success", "reverted"}]]
      BY DEF TypeOK
    <3>2. [call |-> c, stage |-> stage[c]] \in [call : Calls, stage : Stages]
      BY <3>1
    <3>3. CASE IntoPool(c)
      <4>1. Append(pool, [call |-> c, stage |-> stage[c]]) \in Seq([call : Calls, stage : Stages])
        BY <3>1, <3>2
      <4> QED
        BY <3>1, <3>3, <4>1 DEF IntoPool
    <3> QED
      BY <1>1, <3>1, <3>3, SharedFrame
  <2>4. payment' \in [Payments -> {"none", "funded", "settled", "disputed", "refunded", "resolved"}]
    <3>1. payment \in [Payments -> {"none", "funded", "settled", "disputed", "refunded", "resolved"}]
      BY DEF TypeOK
    <3> QED
      BY <1>1, <3>1, SharedFrame
  <2>5. /\ creator' \in [Payments -> Calls \cup {None}] /\ allowance' \in {0, 1}
        /\ paymentOf' \in [Calls -> Payments] /\ token' \in [Payments -> {"native", "erc20"}]
        /\ further' \in Nat /\ faults' \in Nat /\ hit' \subseteq Calls
    <3>1. further \in Nat /\ faults \in Nat /\ hit \subseteq Calls
      BY DEF TypeOK
    <3>2. further' \in Nat /\ faults' \in Nat /\ hit' \subseteq Calls
      BY <1>1, <3>1, SharedFrame
    <3>3. UNCHANGED <<paymentOf, token, creator, allowance>>
      BY <1>1, SharedFrame
    <3> QED
      BY <3>2, <3>3 DEF TypeOK
  <2> QED
    BY <2>1, <2>2, <2>3, <2>4, <2>5 DEF TypeOK, CallTypes
<1>2. CASE Mine
  <2>1. PICK c \in Calls, s \in Stages :
          /\ Len(pool) \in Nat \ {0} /\ pool[1] = [call |-> c, stage |-> s]
          /\ pool' = Tail(pool)
          /\ status' = [status EXCEPT ![c][s] = IF Reverts(c, s) THEN "reverted" ELSE "success"]
          /\ creator' = IF s = "create" /\ ~Reverts(c, s)
                          THEN [creator EXCEPT ![paymentOf[c]] = c] ELSE creator
          /\ payment' = CASE Reverts(c, s) -> payment
                          [] ~Reverts(c, s) /\ s = "create" -> [payment EXCEPT ![paymentOf[c]] = "funded"]
                          [] ~Reverts(c, s) /\ s = "settle" -> [payment EXCEPT ![paymentOf[c]] = "settled"]
                          [] ~Reverts(c, s) /\ s = "dispute" -> [payment EXCEPT ![paymentOf[c]] = "disputed"]
                          [] OTHER -> payment
          /\ allowance' = IF s = "approve" THEN 1
                            ELSE IF s = "create" /\ IsErc20(c) /\ ~Reverts(c, s) THEN 0 ELSE allowance
          /\ UNCHANGED <<paymentOf, token, pc, stage, challenge, decision, queue, further, faults, hit>>
    BY <1>2, MineFacts, Zenon
  <2>2. pool' \in Seq([call : Calls, stage : Stages])
    BY <2>1 DEF TypeOK
  <2>3. status' \in [Calls -> [Stages -> {"none", "pool", "success", "reverted"}]]
    BY <2>1 DEF TypeOK
  <2>4. /\ creator' \in [Payments -> Calls \cup {None}] /\ allowance' \in {0, 1}
        /\ payment' \in [Payments -> {"none", "funded", "settled", "disputed", "refunded", "resolved"}]
    BY <2>1 DEF TypeOK
  <2> QED
    BY <2>1, <2>2, <2>3, <2>4 DEF TypeOK
<1>3. CASE \E p \in Payments : PaymentMoves(p)
  BY <1>3 DEF PaymentMoves, TypeOK, settingVars, callVars, boundVars
<1>4. CASE UNCHANGED vars
  BY <1>4 DEF vars, TypeOK, settingVars, callVars, chainVars, boundVars
<1> QED
  BY <1>1, <1>2, <1>3, <1>4 DEF Next, CallAction

-----------------------------------------------------------------------------
(* The chain and the wallet's transactions.                                *)
LEMMA InvInit == Init => IInv
<1> SUFFICES ASSUME Init
             PROVE  IInv
  OBVIOUS
<1>1. TypeOK
  BY TypeInit
<1>2. PoolInv
  <2>1. Len(pool) = 0
    BY DEF Init
  <2> QED
    BY <2>1 DEF PoolInv
<1>3. ASSUME NEW c \in Calls
      PROVE  ChainInv(c) /\ CallInv(c)
  <2>1. /\ pc[c] = "new" /\ stage[c] = "create"
        /\ \A s \in Stages : status[c][s] = "none"
        /\ creator[paymentOf[c]] # c
    BY NoneAssumption DEF Init
  <2>2. Actions \cup {"create", "approve", "settle", "dispute", "submit-evidence"} \subseteq Stages
    BY DEF Actions, Stages
  <2> QED
    BY <2>1, <2>2 DEF ChainInv, Resolved, CallInv, Early, Holding, Owns, Actions
<1>4. \A p \in Payments : PaymentInv(p)
  BY DEF Init, PaymentInv
<1>5. FailsOnlyForCause /\ ReturnsOnceResolved
  BY DEF Init, FailsOnlyForCause, ReturnsOnceResolved
<1> QED
  BY <1>1, <1>2, <1>3, <1>4, <1>5 DEF IInv

LEMMA ContentionStays ==
  ASSUME UNCHANGED <<paymentOf, token>>,
         \A d \in Calls : /\ status[d]["create"] # "none" => status'[d]["create"] # "none"
                          /\ status[d]["approve"] # "none" => status'[d]["approve"] # "none"
  PROVE  \A c \in Calls : Contended(c) => Contended(c)'
  BY DEF Contended, Contends, IsErc20

(* A transaction enters the pool that was not sent before.                 *)
Send(c) ==
  /\ status[c][stage[c]] = "none"
  /\ pool' = Append(pool, [call |-> c, stage |-> stage[c]])
  /\ \A d \in Calls, t \in Stages :
       status'[d][t] = IF d = c /\ t = stage[c] THEN "pool" ELSE status[d][t]
  /\ UNCHANGED <<paymentOf, token, creator, allowance, payment>>

LEMMA SendFacts ==
  ASSUME IInv, NEW c \in Calls, CallAction(c), IntoPool(c), pc[c] = "queued"
  PROVE  Send(c)
<1>1. /\ status \in [Calls -> [Stages -> Statuses]] /\ stage[c] \in Stages
      /\ status[c][stage[c]] = "none"
  BY DEF IInv, TypeOK, CallInv, Statuses
<1>2. \A d \in Calls, t \in Stages :
        status'[d][t] = IF d = c /\ t = stage[c] THEN "pool" ELSE status[d][t]
  BY <1>1 DEF IntoPool
<1>3. UNCHANGED <<paymentOf, token, creator, allowance>> /\ ~Refunded(c)
  BY SharedFrame DEF Refunded
<1>4. payment' = payment
  BY <1>1, <1>3 DEF CallAction, Progress, CheckChallenge, Execute, Resolve, Ask, Fails, Retry, RetryAnswered, CallExecutor,
     Challenged, CheckPolicy, Answered, PrepareCreation, PrepareAction, ApprovalMined, Broadcast,
     BroadcastFails, CreationMined, ActionMined, settingVars, callVars, chainVars, boundVars
<1> QED
  BY <1>1, <1>2, <1>3, <1>4 DEF IntoPool, Send

(* A transaction leaves the pool.                                          *)
MineOf(c, s) ==
  LET done == ~Reverts(c, s) IN
  /\ Len(pool) \in Nat \ {0} /\ pool[1] = [call |-> c, stage |-> s]
  /\ status[c][s] = "pool"
  /\ pool' = Tail(pool)
  /\ \A d \in Calls, t \in Stages :
       status'[d][t] = IF d = c /\ t = s THEN IF done THEN "success" ELSE "reverted"
                       ELSE status[d][t]
  /\ \A p \in Payments :
       /\ creator'[p] = IF s = "create" /\ done /\ p = paymentOf[c] THEN c ELSE creator[p]
       /\ payment'[p] = IF ~done \/ p # paymentOf[c] THEN payment[p]
                         ELSE CASE s = "create" -> "funded"
                                [] s = "settle" -> "settled"
                                [] s = "dispute" -> "disputed"
                                [] OTHER -> payment[p]
  /\ allowance' = IF s = "approve" THEN 1
                    ELSE IF s = "create" /\ IsErc20(c) /\ done THEN 0 ELSE allowance
  /\ UNCHANGED <<paymentOf, token, pc, stage, challenge, decision, hit>>

LEMMA MineOfFacts ==
  ASSUME IInv, Mine
  PROVE  \E c \in Calls, s \in Stages : MineOf(c, s)
<1>1. PICK c \in Calls, s \in Stages :
           /\ Len(pool) \in Nat \ {0} /\ pool[1] = [call |-> c, stage |-> s]
           /\ pool' = Tail(pool)
           /\ status' = [status EXCEPT ![c][s] = IF Reverts(c, s) THEN "reverted" ELSE "success"]
           /\ creator' = IF s = "create" /\ ~Reverts(c, s)
                           THEN [creator EXCEPT ![paymentOf[c]] = c] ELSE creator
           /\ payment' = CASE Reverts(c, s) -> payment
                           [] ~Reverts(c, s) /\ s = "create" -> [payment EXCEPT ![paymentOf[c]] = "funded"]
                           [] ~Reverts(c, s) /\ s = "settle" -> [payment EXCEPT ![paymentOf[c]] = "settled"]
                           [] ~Reverts(c, s) /\ s = "dispute" -> [payment EXCEPT ![paymentOf[c]] = "disputed"]
                           [] OTHER -> payment
           /\ allowance' = IF s = "approve" THEN 1
                             ELSE IF s = "create" /\ IsErc20(c) /\ ~Reverts(c, s) THEN 0 ELSE allowance
           /\ UNCHANGED <<paymentOf, token, pc, stage, challenge, decision, queue, further, faults, hit>>
  BY MineFacts, Zenon DEF IInv
<1>2. /\ status \in [Calls -> [Stages -> Statuses]] /\ paymentOf[c] \in Payments
      /\ creator \in [Payments -> Calls \cup {None}] /\ payment \in [Payments -> PaymentStates]
  BY DEF IInv, TypeOK, Statuses, PaymentStates
<1>3. status[c][s] = "pool"
  <2>1. 1 \in 1 .. Len(pool) /\ pool[1].call = c /\ pool[1].stage = s
    BY <1>1
  <2> QED
    BY <2>1 DEF IInv, PoolInv
<1>4. \A d \in Calls, t \in Stages :
        status'[d][t] = IF d = c /\ t = s THEN IF ~Reverts(c, s) THEN "success" ELSE "reverted"
                        ELSE status[d][t]
  BY <1>1, <1>2
<1>5. \A p \in Payments :
        creator'[p] = IF s = "create" /\ ~Reverts(c, s) /\ p = paymentOf[c] THEN c ELSE creator[p]
  BY <1>1, <1>2
<1>6. \A p \in Payments :
        payment'[p] = IF ~~Reverts(c, s) \/ p # paymentOf[c] THEN payment[p]
                      ELSE CASE s = "create" -> "funded"
                             [] s = "settle" -> "settled"
                             [] s = "dispute" -> "disputed"
                             [] OTHER -> payment[p]
  BY <1>1, <1>2
<1> QED
  BY <1>1, <1>3, <1>4, <1>5, <1>6 DEF MineOf

(* A payment moves without a transaction of the wallet, or not at all.     *)
MoveOnly ==
  /\ UNCHANGED <<pool, status, creator, allowance, paymentOf, token>>
  /\ \A p \in Payments :
       \/ payment'[p] = payment[p]
       \/ payment[p] = "funded" /\ payment'[p] \in {"refunded", "settled"}
       \/ payment[p] = "disputed" /\ payment'[p] = "resolved"

LEMMA NextFacts ==
  ASSUME IInv, [Next]_vars
  PROVE  \/ \E c \in Calls : CallAction(c) /\ pc[c] = "queued" /\ Send(c)
         \/ \E c \in Calls, s \in Stages : MineOf(c, s)
         \/ MoveOnly
<1>0. payment \in [Payments -> PaymentStates] /\ paymentOf \in [Calls -> Payments]
  BY DEF IInv, TypeOK, PaymentStates
<1>1. ASSUME NEW c \in Calls, CallAction(c)
      PROVE  (pc[c] = "queued" /\ Send(c)) \/ MoveOnly
  <2>1. CASE (Broadcast(c) \/ BroadcastFails(c)) /\ IntoPool(c)
    BY <1>1, <2>1, SendFacts DEF Broadcast, BroadcastFails
  <2>2. CASE UNCHANGED <<pool, status>>
    BY <1>0, <1>1, <2>2, SharedFrame DEF MoveOnly
  <2> QED
    BY <1>1, <2>1, <2>2, SharedFrame
<1>2. CASE \E p \in Payments : PaymentMoves(p)
  BY <1>0, <1>2 DEF PaymentMoves, MoveOnly, settingVars
<1>3. CASE UNCHANGED vars
  BY <1>3 DEF vars, MoveOnly, settingVars, chainVars
<1> QED
  BY <1>1, <1>2, <1>3, MineOfFacts DEF Next, CallAction

(* What was so stays so.                                                   *)
LEMMA Persistence ==
  ASSUME IInv, [Next]_vars
  PROVE  /\ UNCHANGED <<paymentOf, token>>
         /\ \A d \in Calls, t \in Stages :
              /\ status[d][t] # "none" => status'[d][t] # "none"
              /\ status[d][t] = "success" => status'[d][t] = "success"
         /\ \A d \in Calls : Owns(d) => Owns(d)'
         /\ \A d \in Calls : Contended(d) => Contended(d)'
<1>1. /\ UNCHANGED <<paymentOf, token>>
      /\ \A d \in Calls, t \in Stages :
           /\ status[d][t] # "none" => status'[d][t] # "none"
           /\ status[d][t] = "success" => status'[d][t] = "success"
  <2>1. CASE MoveOnly
    BY <2>1 DEF MoveOnly
  <2>2. ASSUME NEW c \in Calls, Send(c)
        PROVE  /\ UNCHANGED <<paymentOf, token>>
               /\ \A d \in Calls, t \in Stages :
                    /\ status[d][t] # "none" => status'[d][t] # "none"
                    /\ status[d][t] = "success" => status'[d][t] = "success"
    BY <2>2 DEF Send
  <2>3. ASSUME NEW c \in Calls, NEW s \in Stages, MineOf(c, s)
        PROVE  /\ UNCHANGED <<paymentOf, token>>
               /\ \A d \in Calls, t \in Stages :
                    /\ status[d][t] # "none" => status'[d][t] # "none"
                    /\ status[d][t] = "success" => status'[d][t] = "success"
    BY <2>3 DEF MineOf
  <2> QED
    BY <2>1, <2>2, <2>3, NextFacts
<1>2. \A d \in Calls : Contended(d) => Contended(d)'
  BY <1>1, ContentionStays DEF Stages
<1>3. ASSUME NEW d \in Calls, Owns(d)
      PROVE  Owns(d)'
  <2>0. paymentOf[d] \in Payments /\ creator[paymentOf[d]] # None
    BY <1>3, NoneAssumption DEF IInv, TypeOK, Owns
  <2>1. CASE MoveOnly
    BY <1>3, <2>1 DEF MoveOnly, Owns
  <2>2. ASSUME NEW c \in Calls, Send(c)
        PROVE  Owns(d)'
    BY <1>3, <2>2 DEF Send, Owns
  <2>3. ASSUME NEW c \in Calls, NEW s \in Stages, MineOf(c, s)
        PROVE  Owns(d)'
    BY <1>3, <2>0, <2>3 DEF MineOf, Owns, Reverts
  <2> QED
    BY <2>1, <2>2, <2>3, NextFacts
<1> QED
  BY <1>1, <1>2, <1>3

LEMMA PoolStep ==
  ASSUME IInv, [Next]_vars
  PROVE  PoolInv'
<1>0. /\ pool \in Seq(Transaction) /\ Len(pool) \in Nat
      /\ \A i \in 1 .. Len(pool) : pool[i].call \in Calls /\ pool[i].stage \in Stages /\ pool[i] \in Transaction
  <2>1. pool \in Seq(Transaction)
    BY DEF IInv, TypeOK, Transaction
  <2>2. \A i \in 1 .. Len(pool) : pool[i] \in Transaction
    BY <2>1
  <2> QED
    BY <2>1, <2>2 DEF Transaction
<1>1. CASE MoveOnly
  BY <1>1 DEF MoveOnly, IInv, PoolInv
<1>2. ASSUME NEW c \in Calls, Send(c)
      PROVE  PoolInv'
  <2> DEFINE n == Len(pool)
             new == [call |-> c, stage |-> stage[c]]
  <2>0. stage[c] \in Stages
    BY DEF IInv, TypeOK
  <2>1. /\ Len(pool') = n + 1 /\ pool'[n + 1] = new
        /\ \A i \in 1 .. n : pool'[i] = pool[i]
        /\ \A i \in 1 .. n + 1 : i \in 1 .. n \/ i = n + 1
    BY <1>0, <1>2 DEF Send
  <2>2. \A i \in 1 .. n : pool[i] # new /\ ~(pool[i].call = c /\ pool[i].stage = stage[c])
    BY <1>2 DEF Send, IInv, PoolInv
  <2>3. \A i \in 1 .. n + 1 : status'[pool'[i].call][pool'[i].stage] = "pool"
    <3>1. \A i \in 1 .. n : status'[pool[i].call][pool[i].stage] = "pool"
      BY <1>0, <1>2, <2>2 DEF Send, IInv, PoolInv
    <3>2. status'[new.call][new.stage] = "pool"
      BY <1>2, <2>0 DEF Send
    <3> QED
      BY <2>1, <3>1, <3>2
  <2>4. \A i, j \in 1 .. n + 1 : pool'[i] = pool'[j] => i = j
    <3>1. \A i, j \in 1 .. n : pool[i] = pool[j] => i = j
      BY DEF IInv, PoolInv
    <3> HIDE DEF new
    <3> QED
      BY <2>1, <2>2, <3>1
  <2> QED
    BY <2>1, <2>3, <2>4 DEF PoolInv
<1>3. ASSUME NEW c \in Calls, NEW s \in Stages, MineOf(c, s)
      PROVE  PoolInv'
  <2> DEFINE n == Len(pool)
  <2>1. /\ n \in Nat \ {0} /\ Len(pool') = n - 1
        /\ \A i \in 1 .. n - 1 : pool'[i] = pool[i + 1] /\ i + 1 \in 1 .. n
    BY <1>0, <1>3 DEF MineOf
  <2>2. \A i \in 2 .. n : i \in 1 .. n /\ pool[i] # pool[1]
    BY <2>1 DEF IInv, PoolInv
  <2>3. \A i \in 2 .. n : ~(pool[i].call = c /\ pool[i].stage = s)
    BY <1>0, <1>3, <2>2 DEF MineOf, Transaction
  <2>4. \A i \in 1 .. n - 1 : status'[pool'[i].call][pool'[i].stage] = "pool"
    <3>1. \A i \in 2 .. n : status'[pool[i].call][pool[i].stage] = "pool"
      BY <1>0, <1>3, <2>2, <2>3 DEF MineOf, IInv, PoolInv
    <3>2. \A i \in 1 .. n - 1 : i + 1 \in 2 .. n
      BY <2>1
    <3> QED
      BY <2>1, <3>1, <3>2
  <2>5. \A i, j \in 1 .. n - 1 : pool'[i] = pool'[j] => i = j
    <3>1. \A i, j \in 1 .. n : pool[i] = pool[j] => i = j
      BY DEF IInv, PoolInv
    <3>2. \A i, j \in 1 .. n - 1 : i + 1 = j + 1 => i = j
      BY <2>1
    <3> QED
      BY <2>1, <3>1, <3>2
  <2> QED
    BY <2>1, <2>4, <2>5 DEF PoolInv
<1> QED
  BY <1>1, <1>2, <1>3, NextFacts

(* A payment that was settled, refunded or resolved moves no more.         *)
LEMMA PaymentStep ==
  ASSUME IInv, [Next]_vars, NEW p \in Payments
  PROVE  /\ PaymentInv(p)'
         /\ payment[p] \in {"settled", "refunded", "resolved"} => payment'[p] = payment[p]
         /\ payment[p] = "disputed" => payment'[p] \in {"disputed", "resolved"}
<1>0. PaymentInv(p)
  BY DEF IInv
<1>1. CASE MoveOnly
  BY <1>0, <1>1 DEF MoveOnly, PaymentInv
<1>2. ASSUME NEW c \in Calls, Send(c)
      PROVE  /\ PaymentInv(p)'
             /\ payment[p] \in {"settled", "refunded", "resolved"} => payment'[p] = payment[p]
             /\ payment[p] = "disputed" => payment'[p] \in {"disputed", "resolved"}
  BY <1>0, <1>2 DEF Send, PaymentInv
<1>3. ASSUME NEW c \in Calls, NEW s \in Stages, MineOf(c, s)
      PROVE  /\ PaymentInv(p)'
             /\ payment[p] \in {"settled", "refunded", "resolved"} => payment'[p] = payment[p]
             /\ payment[p] = "disputed" => payment'[p] \in {"disputed", "resolved"}
  BY <1>0, <1>3, NoneAssumption DEF MineOf, PaymentInv, Reverts
<1> QED
  BY <1>1, <1>2, <1>3, NextFacts

LEMMA ChainStep ==
  ASSUME IInv, [Next]_vars, NEW d \in Calls
  PROVE  ChainInv(d)'
<1> USE DEF Resolved
<1>0. /\ ChainInv(d) /\ CallInv(d) /\ PaymentInv(paymentOf[d]) /\ paymentOf[d] \in Payments
      /\ {"approve", "create", "settle", "dispute", "submit-evidence"} = Stages
      /\ {"settle", "dispute", "submit-evidence"} = Actions
      /\ allowance \in {0, 1} /\ creator[paymentOf[d]] \in Calls \cup {None}
      /\ status[d] \in [Stages -> Statuses] /\ stage[d] \in Stages
  BY DEF IInv, TypeOK, Stages, Actions, Statuses
<1>1. /\ UNCHANGED <<paymentOf, token>> /\ IsErc20(d)' = IsErc20(d)
      /\ Owns(d) => Owns(d)'
      /\ Contended(d) => Contended(d)'
  BY Persistence DEF IsErc20
<1>3. CASE MoveOnly
  <2>1. Resolved(d)'
    BY <1>0, <1>1, <1>3, PaymentStep DEF ChainInv, MoveOnly
  <2> QED
    BY <1>0, <1>1, <1>3, <2>1 DEF MoveOnly, ChainInv, Owns
<1>4. ASSUME NEW c \in Calls, pc[c] = "queued", Send(c)
      PROVE  ChainInv(d)'
  <2>1. /\ Owns(d)' <=> Owns(d)
        /\ allowance' = allowance /\ payment' = payment
        /\ \A t \in Stages : status'[d][t] = IF d = c /\ t = stage[c] THEN "pool" ELSE status[d][t]
        /\ status[c][stage[c]] = "none"
    BY <1>4 DEF Send, Owns
  <2>2. CASE d # c
    BY <1>0, <1>1, <2>1, <2>2 DEF ChainInv
  <2>3. CASE d = c /\ stage[c] = "approve"
    BY <1>0, <1>1, <1>4, <2>1, <2>3 DEF ChainInv, CallInv
  <2>4. CASE d = c /\ stage[c] = "create"
    BY <1>0, <1>1, <1>4, <2>1, <2>4 DEF ChainInv, CallInv
  <2>5. CASE d = c /\ stage[c] \in Actions
    BY <1>0, <1>1, <1>4, <2>1, <2>5 DEF ChainInv, CallInv
  <2> QED
    BY <1>0, <2>2, <2>3, <2>4, <2>5
<1>5. ASSUME NEW c \in Calls, NEW s \in Stages, MineOf(c, s)
      PROVE  ChainInv(d)'
  <2> DEFINE done == ~Reverts(c, s)
  <2>0. /\ ChainInv(c) /\ CallInv(c) /\ PaymentInv(paymentOf[c]) /\ paymentOf[c] \in Payments
        /\ creator[paymentOf[c]] \in Calls \cup {None}
    BY DEF IInv, TypeOK
  <2>1. /\ status[c][s] = "pool"
        /\ \A t \in Stages : status'[d][t] = IF d = c /\ t = s THEN IF done THEN "success" ELSE "reverted"
                                              ELSE status[d][t]
        /\ creator'[paymentOf[d]] = IF s = "create" /\ done /\ paymentOf[d] = paymentOf[c]
                                      THEN c ELSE creator[paymentOf[d]]
        /\ allowance' = IF s = "approve" THEN 1
                          ELSE IF s = "create" /\ IsErc20(c) /\ done THEN 0 ELSE allowance
    BY <1>0, <1>5 DEF MineOf
  <2>2. Owns(d)' = (Owns(d) \/ (d = c /\ s = "create" /\ done))
    BY <1>1, <2>1, NoneAssumption DEF Owns, Reverts
  <2>3. s = "approve" => done
    BY <1>0 DEF Reverts
  <2>4. Resolved(d)'
    <3>1. done /\ d = c =>
            /\ s = "settle" => payment'[paymentOf[d]] = "settled"
            /\ s = "dispute" => payment'[paymentOf[d]] = "disputed"
            /\ s = "submit-evidence" => payment[paymentOf[d]] = "disputed"
      BY <1>5, <2>0 DEF MineOf, Reverts
    <3> QED
      BY <1>0, <1>1, <2>1, <3>1, PaymentStep DEF ChainInv
  <2>5. status'[d]["create"] = "reverted" => Contended(d)'
    <3>1. CASE d = c /\ s = "create" /\ ~done
      <4>1. CASE creator[paymentOf[c]] # None
        <5> DEFINE e == creator[paymentOf[c]]
        <5>1. e \in Calls /\ ChainInv(e) /\ paymentOf[e] = paymentOf[c]
          BY <2>0, <4>1 DEF PaymentInv, IInv
        <5>2. e # c /\ status[e]["create"] = "success"
          BY <2>0, <2>1, <3>1, <5>1 DEF ChainInv, Owns
        <5>3. Contended(d)
          BY <3>1, <5>1, <5>2 DEF Contended, Contends
        <5> QED
          BY <1>1, <5>3
      <4>2. CASE creator[paymentOf[c]] = None
        BY <1>0, <1>1, <2>1, <3>1, <4>2 DEF Reverts, ChainInv
      <4> QED
        BY <4>1, <4>2
    <3> QED
      BY <1>0, <1>1, <2>1, <3>1 DEF ChainInv
  <2>6. IsErc20(d) /\ status'[d]["approve"] = "success" /\ status'[d]["create"] \in {"none", "pool"} =>
          allowance' = 1 \/ Contended(d)'
    <3> SUFFICES ASSUME IsErc20(d), status'[d]["approve"] = "success",
                        status'[d]["create"] \in {"none", "pool"}, s # "approve", allowance' # 1
                 PROVE  Contended(d)'
      BY <2>1
    <3>1. status[d]["approve"] = "success" /\ status[d]["create"] \in {"none", "pool"}
      BY <1>0, <2>1
    <3>2. CASE s = "create" /\ IsErc20(c) /\ done
      <4>1. d # c
        BY <1>0, <2>1, <3>2
      <4>2. status[c]["approve"] = "success"
        BY <2>0, <2>1, <3>2 DEF ChainInv
      <4>3. Contended(d)
        BY <3>2, <4>1, <4>2 DEF Contended, Contends
      <4> QED
        BY <1>1, <4>3
    <3> QED
      BY <1>0, <1>1, <2>1, <3>1, <3>2 DEF ChainInv
  <2>7. /\ status'[d]["create"] = "success" <=> Owns(d)'
        /\ \A t \in Actions : status'[d][t] # "none" => Owns(d)'
        /\ IsErc20(d) /\ status'[d]["create"] # "none" => status'[d]["approve"] = "success"
        /\ status'[d]["approve"] # "reverted"
        /\ ~IsErc20(d) => status'[d]["approve"] = "none"
    BY <1>0, <2>1, <2>2, <2>3 DEF ChainInv
  <2> QED
    BY <1>1, <2>4, <2>5, <2>6, <2>7 DEF ChainInv
<1> QED
  BY <1>3, <1>4, <1>5, NextFacts

-----------------------------------------------------------------------------
(* The calls.                                                              *)
Stands(d) ==
  /\ pc'[d] = pc[d] /\ stage'[d] = stage[d]
  /\ challenge'[d] = challenge[d] /\ decision'[d] = decision[d]
  /\ \A t \in Stages : status[d][t] = "none" => status'[d][t] = "none"

LEMMA OthersStand ==
  ASSUME IInv, [Next]_vars, NEW d \in Calls, ~CallAction(d)
  PROVE  Stands(d)
<1>1. ASSUME NEW c \in Calls, CallAction(c)
      PROVE  Stands(d)
  <2>1. c # d
    BY <1>1
  <2>2. /\ pc'[d] = pc[d] /\ stage'[d] = stage[d]
        /\ challenge'[d] = challenge[d] /\ decision'[d] = decision[d]
    BY <1>1, <2>1, CallFrame DEF IInv, TypeOK, CallTypes
  <2>3. CASE UNCHANGED status
    BY <2>2, <2>3 DEF Stands
  <2>4. CASE (Broadcast(c) \/ BroadcastFails(c)) /\ IntoPool(c)
    <3>1. Send(c)
      BY <1>1, <2>4, SendFacts DEF Broadcast, BroadcastFails
    <3> QED
      BY <2>1, <2>2, <3>1 DEF Send, Stands
  <2> QED
    BY <1>1, <2>3, <2>4, SharedFrame
<1>2. CASE Mine
  <2>1. PICK c \in Calls, s \in Stages : MineOf(c, s)
    BY <1>2, MineOfFacts
  <2> QED
    BY <2>1 DEF MineOf, Stands
<1>3. CASE \E p \in Payments : PaymentMoves(p)
  BY <1>3 DEF PaymentMoves, callVars, Stands
<1>4. CASE UNCHANGED vars
  BY <1>4 DEF vars, callVars, Stands
<1> QED
  BY <1>1, <1>2, <1>3, <1>4 DEF Next, CallAction

LEMMA CallStep ==
  ASSUME IInv, [Next]_vars, NEW d \in Calls
  PROVE  CallInv(d)'
<1>0. /\ CallInv(d) /\ ChainInv(d)
      /\ {"approve", "create", "settle", "dispute", "submit-evidence"} = Stages
      /\ {"settle", "dispute", "submit-evidence"} = Actions
      /\ CallTypes /\ status[d] \in [Stages -> Statuses] /\ stage[d] \in Stages
  BY DEF IInv, TypeOK, Stages, Actions, Statuses, CallTypes
<1>1. /\ UNCHANGED <<paymentOf, token>> /\ IsErc20(d)' = IsErc20(d)
      /\ Owns(d) => Owns(d)'
      /\ \A t \in Stages : status[d][t] = "success" => status'[d][t] = "success"
  BY Persistence DEF IsErc20
<1>2. CASE ~CallAction(d)
  <2>1. Stands(d)
    BY <1>2, OthersStand
  <2> QED
    BY <1>0, <1>1, <2>1 DEF Stands, CallInv
<1>3. CASE Ask(d) \/ Fails(d) \/ Retry(d) \/ RetryAnswered(d)
  <2>1. UNCHANGED <<stage, decision, status>> /\ pc' = [pc EXCEPT ![d] = pc'[d]]
        /\ \/ pc'[d] = "unpaid" /\ pc[d] = "new"
           \/ pc'[d] = "threw"
           \/ pc'[d] \in Holding \ {"paid", "refund"} /\ (pc[d] \in Holding \/ stage[d] \in Actions)
    BY <1>0, <1>3 DEF Ask, Fails, Retry, RetryAnswered, ErrorFor, HasPaid, HoldsPayment, callVars,
       Goto, CallTypes, Holding
  <2> QED
    BY <1>0, <1>1, <2>1 DEF CallInv, Early, Holding
<1>4. CASE CallExecutor(d)
  <2>1. /\ UNCHANGED <<decision, status>> /\ pc[d] \in Holding
        /\ \/ pc'[d] = "act" /\ stage'[d] \in Actions /\ status[d][stage'[d]] = "none"
           \/ pc'[d] = "attempt" /\ stage'[d] = stage[d]
    BY <1>0, <1>4 DEF CallExecutor, HoldsPayment, Goto, CallTypes, Holding
  <2> QED
    BY <1>0, <1>1, <2>1 DEF CallInv, Early, Holding
<1>5. CASE Challenged(d)
  <2>1. /\ UNCHANGED <<stage, decision, status>> /\ pc[d] = "unpaid"
        /\ pc'[d] \in {"free", "threw", "policy", "prepare"}
    BY <1>0, <1>5 DEF Challenged, AfterChallenge, Goto, CallTypes
  <2> QED
    BY <1>0, <1>1, <2>1 DEF CallInv, Early, Holding
<1>6. CASE CheckPolicy(d)
  <2>1. /\ UNCHANGED <<stage, decision, status>> /\ pc[d] = "policy"
        /\ pc'[d] \in {"threw", "prepare"}
    BY <1>0, <1>6 DEF CheckPolicy, Goto, callVars, CallTypes
  <2> QED
    BY <1>0, <1>1, <2>1 DEF CallInv, Early, Holding
<1>7. CASE PrepareCreation(d)
  <2>1. /\ UNCHANGED <<decision, status>> /\ pc[d] = "prepare" /\ pc'[d] = "queued"
        /\ stage'[d] = IF IsErc20(d) THEN "approve" ELSE "create"
    BY <1>0, <1>7 DEF PrepareCreation, HandOver, FirstStage, Goto, callVars, CallTypes
  <2> QED
    BY <1>0, <1>1, <2>1 DEF CallInv, Early, Holding
<1>8. CASE PrepareAction(d)
  <2>1. /\ UNCHANGED <<decision, status>> /\ pc[d] = "act" /\ pc'[d] = "queued"
        /\ stage'[d] = stage[d]
    BY <1>0, <1>8 DEF PrepareAction, HandOver, Goto, callVars, CallTypes
  <2> QED
    BY <1>0, <1>1, <2>1 DEF CallInv, Early, Holding
<1>9. CASE ApprovalMined(d)
  <2>1. /\ UNCHANGED <<decision, status>> /\ pc[d] = "mined" /\ pc'[d] = "queued"
        /\ stage[d] = "approve" /\ stage'[d] = "create" /\ status[d]["approve"] = "success"
    BY <1>0, <1>9 DEF ApprovalMined, HasReceipt, HandOver, Goto, callVars, CallTypes, ChainInv
  <2> QED
    BY <1>0, <1>1, <2>1 DEF CallInv, Early, Holding
<1>10. CASE Broadcast(d) \/ BroadcastFails(d)
  <2>1. /\ UNCHANGED <<decision, stage>> /\ pc[d] = "queued"
        /\ pc'[d] \in {"mined", OnFailure(stage[d])}
    BY <1>0, <1>10 DEF Broadcast, BroadcastFails, Goto, callVars, CallTypes
  <2>2. \A t \in Stages \ {stage[d]} : status'[d][t] = status[d][t]
    <3>1. CASE IntoPool(d)
      <4>1. Send(d)
        BY <1>10, <3>1, SendFacts DEF Broadcast, BroadcastFails, CallAction, Progress, Execute
      <4> QED
        BY <4>1 DEF Send
    <3> QED
      BY <1>10, <3>1 DEF Broadcast, BroadcastFails
  <2>3. pc'[d] # "mined" => pc'[d] = IF stage[d] \in Actions THEN "attempt" ELSE "threw"
    BY <2>1 DEF OnFailure
  <2> QED
    BY <1>0, <1>1, <2>1, <2>2, <2>3 DEF CallInv, Early, Holding
<1>11. CASE CreationMined(d)
  <2>1. /\ UNCHANGED <<stage, decision, status>> /\ pc[d] = "mined" /\ stage[d] = "create"
        /\ pc'[d] \in {"paid", "threw"}
        /\ pc'[d] = "paid" => status[d]["create"] = "success"
    BY <1>0, <1>11 DEF CreationMined, HasReceipt, IsSuccessful, OnFailure, Goto, callVars, CallTypes
  <2> QED
    BY <1>0, <1>1, <2>1 DEF CallInv, ChainInv, Early, Holding
<1>12. CASE ActionMined(d)
  <2>1. /\ UNCHANGED <<stage, decision, status>> /\ stage[d] \in Actions
        /\ pc'[d] \in {"returned", "attempt"}
    BY <1>0, <1>12 DEF ActionMined, HasReceipt, OnFailure, Goto, callVars, CallTypes
  <2> QED
    BY <1>0, <1>1, <2>1 DEF CallInv, Early, Holding
<1>13. CASE Answered(d)
  <2>1. PICK action \in ActionsOn.accepted \cup ActionsOn.rejected :
          /\ decision' = [decision EXCEPT ![d] = action]
          /\ stage' = [stage EXCEPT ![d] = NextStage(d, action)]
          /\ pc' = [pc EXCEPT ![d] = AfterDecision(action)]
    BY <1>13 DEF Answered, ActionsOn, Goto
  <2>2. action \in {"settle", "dispute", "keep-open", "request-refund"}
    BY <2>1 DEF ActionsOn
  <2>3. /\ decision'[d] = action /\ pc[d] = "paid" /\ status' = status
        /\ stage'[d] = IF action \in {"settle", "dispute"} THEN action ELSE stage[d]
        /\ pc'[d] = IF action = "keep-open" THEN "returned"
                    ELSE IF action = "request-refund" THEN "refund" ELSE "act"
    BY <1>0, <1>13, <2>1, <2>2 DEF Answered, NextStage, AfterDecision, CallTypes, Actions
  <2> QED
    BY <1>0, <1>1, <2>2, <2>3 DEF CallInv, Early, Holding
<1>14. CASE Refunded(d)
  <2>1. /\ UNCHANGED <<stage, decision, status>> /\ pc[d] = "refund"
        /\ pc'[d] \in {"returned", "attempt"}
    BY <1>0, <1>14 DEF Refunded, Goto, callVars, CallTypes
  <2> QED
    BY <1>0, <1>1, <2>1 DEF CallInv, Early, Holding
<1> QED
  BY <1>2, <1>3, <1>4, <1>5, <1>6, <1>7, <1>8, <1>9, <1>10, <1>11, <1>12, <1>13, <1>14
     DEF CallAction, Progress, CheckChallenge, Execute, Resolve

-----------------------------------------------------------------------------
(* Why a call ends without a payment.                                      *)
Cause(c) ==
  \/ c \in hit
  \/ challenge[c] \in {"malformed", "forbidden", "unrefundable"}
  \/ Contended(c)

LEMMA Causes == FailsOnlyForCause <=> \A c \in Calls : pc[c] = "threw" => Cause(c)
  BY DEF FailsOnlyForCause, Cause, Contended, Contends

(* A creation that the chain or a node rejects met one by a neighbour.     *)
LEMMA RejectionHasCause ==
  ASSUME IInv, NEW c \in Calls, pc[c] = "queued", stage[c] \notin Actions, MayRevert(c, stage[c])
  PROVE  Contended(c)
<1>0. /\ CallInv(c) /\ ChainInv(c) /\ stage[c] = "create" /\ paymentOf[c] \in Payments
      /\ creator[paymentOf[c]] \in Calls \cup {None}
      /\ allowance \in {0, 1}
  BY DEF IInv, TypeOK, Stages, Actions, MayRevert, Reverts
<1>1. CASE creator[paymentOf[c]] # None
  <2> DEFINE e == creator[paymentOf[c]]
  <2>1. e \in Calls /\ ChainInv(e) /\ paymentOf[e] = paymentOf[c]
    BY <1>0, <1>1 DEF PaymentInv, IInv
  <2>2. status[e]["create"] = "success" /\ e # c
    BY <1>0, <2>1 DEF ChainInv, CallInv, Owns
  <2> QED
    BY <2>1, <2>2 DEF Contended, Contends
<1>2. CASE IsErc20(c) /\ allowance = 0
  BY <1>0, <1>2 DEF CallInv, ChainInv, Actions
<1>3. ASSUME NEW i \in DOMAIN pool, pool[i].call # c, Clashes(c, pool[i].call)
      PROVE  Contended(c)
  <2> DEFINE e == pool[i].call
             s == pool[i].stage
  <2>1. e \in Calls \ {c} /\ s \in Stages /\ i \in 1 .. Len(pool)
    <3>1. pool \in Seq(Transaction)
      BY DEF IInv, TypeOK, Transaction
    <3>2. pool[i] \in Transaction /\ i \in 1 .. Len(pool)
      BY <3>1
    <3> QED
      BY <1>3, <3>2 DEF Transaction
  <2>2. status[e][s] = "pool" /\ ChainInv(e)
    BY <2>1 DEF IInv, PoolInv
  <2> HIDE DEF e, s
  <2>3. s = "approve" \/ status[e]["create"] # "none"
    BY <2>1, <2>2 DEF Stages, ChainInv
  <2>4. IsErc20(e) => status[e]["approve"] # "none"
    BY <2>2, <2>3 DEF ChainInv
  <2>5. CASE IsErc20(c) /\ IsErc20(e)
    BY <2>1, <2>4, <2>5 DEF Contended, Contends
  <2>6. CASE paymentOf[c] = paymentOf[e] /\ ~IsErc20(e)
    <3>1. status[e]["create"] # "none"
      <4>1. CASE s = "approve"
        BY <2>1, <2>2, <2>6, <4>1 DEF ChainInv
      <4> QED
        BY <2>3, <4>1
    <3> QED
      BY <2>1, <2>6, <3>1 DEF Contended, Contends
  <2>7. paymentOf[c] = paymentOf[e] => IsErc20(c) = IsErc20(e)
    BY DEF IsErc20
  <2> QED
    BY <1>3, <2>5, <2>6, <2>7 DEF Clashes, e
<1> QED
  BY <1>0, <1>1, <1>2, <1>3 DEF MayRevert, Reverts

LEMMA FailsStep ==
  ASSUME IInv, [Next]_vars, NEW d \in Calls, pc'[d] = "threw"
  PROVE  Cause(d)'
<1>0. /\ CallInv(d) /\ ChainInv(d) /\ CallTypes
      /\ pc[d] = "threw" => Cause(d)
      /\ Contended(d) => Contended(d)'
  BY Causes, Persistence DEF IInv, TypeOK, CallTypes
<1>1. hit \subseteq hit'
  <2>1. CASE Mine \/ (\E p \in Payments : PaymentMoves(p)) \/ UNCHANGED vars
    BY <2>1 DEF Mine, PaymentMoves, vars, boundVars
  <2>2. ASSUME NEW c \in Calls, CallAction(c)
        PROVE  hit \subseteq hit'
    BY <2>2, SharedFrame
  <2> QED
    BY <2>1, <2>2 DEF Next, CallAction
<1>2. CASE ~CallAction(d)
  BY <1>0, <1>1, <1>2, OthersStand DEF Stands, Cause
<1>3. CASE CallAction(d) /\ challenge'[d] \in {"malformed", "forbidden", "unrefundable"}
  BY <1>3 DEF Cause
<1>4. CASE CallAction(d) /\ d \in hit'
  BY <1>4 DEF Cause
<1>5. CASE BroadcastFails(d) /\ d \notin hit'
  <2>1. /\ pc[d] = "queued" /\ pc'[d] = OnFailure(stage[d])
        /\ MayRevert(d, stage[d])
    BY <1>0, <1>5 DEF BroadcastFails, Fault, Goto, CallTypes
  <2>2. stage[d] \notin Actions
    BY <2>1 DEF OnFailure
  <2> QED
    BY <1>0, <2>1, <2>2, RejectionHasCause DEF Cause
<1>6. CASE CreationMined(d)
  <2>1. status[d]["create"] = "reverted"
    BY <1>0, <1>6 DEF CreationMined, HasReceipt, IsSuccessful, Goto, CallTypes
  <2> QED
    BY <1>0, <2>1 DEF ChainInv, Cause
<1>7. CASE Challenged(d)
  <2>1. PICK asked \in Challenges \ {"none"} :
          /\ challenge' = [challenge EXCEPT ![d] = asked]
          /\ pc'[d] \in AfterChallenge(asked)
    BY <1>0, <1>7 DEF Challenged, Goto, CallTypes, AfterChallenge
  <2>2. challenge'[d] = asked
    BY <1>0, <2>1 DEF CallTypes
  <2>3. asked \in {"malformed", "unrefundable"}
    BY <2>1 DEF AfterChallenge
  <2> QED
    BY <2>2, <2>3 DEF Cause
<1>8. CASE CheckPolicy(d)
  <2>1. challenge'[d] = "forbidden"
    BY <1>0, <1>8 DEF CheckPolicy, Allows, Goto, callVars, CallTypes
  <2> QED
    BY <2>1 DEF Cause
<1>9. CASE Fails(d)
  BY <1>4, <1>9 DEF Fails, Fault, CallAction, Progress
<1>10. CASE Ask(d) \/ Retry(d) \/ RetryAnswered(d) \/ CallExecutor(d)
  BY <1>0, <1>10 DEF Ask, Retry, RetryAnswered, CallExecutor, Goto, CallTypes
<1>11. CASE PrepareCreation(d) \/ PrepareAction(d) \/ ApprovalMined(d) \/ Broadcast(d)
  BY <1>0, <1>11 DEF PrepareCreation, PrepareAction, ApprovalMined, Broadcast, HandOver, Goto, CallTypes
<1>12. CASE ActionMined(d) \/ Refunded(d)
  BY <1>0, <1>12 DEF ActionMined, OnFailure, Refunded, Goto, CallTypes
<1>13. CASE Answered(d)
  BY <1>0, <1>13 DEF Answered, AfterDecision, Goto, CallTypes
<1> QED
  BY <1>2, <1>4, <1>5, <1>6, <1>7, <1>8, <1>9, <1>10, <1>11, <1>12, <1>13
     DEF CallAction, Progress, CheckChallenge, Execute, Resolve

(* A call that returned stands for what its payment has become.            *)
Reached(c) ==
  LET reached == payment[paymentOf[c]] IN
  /\ stage[c] = "settle" => reached = "settled"
  /\ stage[c] \in {"dispute", "submit-evidence"} => reached \in {"disputed", "resolved"}
  /\ stage[c] \notin Actions /\ decision[c] = "request-refund" => reached = "refunded"

LEMMA Returns == ReturnsOnceResolved <=> \A c \in Calls : pc[c] = "returned" => Reached(c)
  BY DEF ReturnsOnceResolved, Reached

LEMMA ReturnsStep ==
  ASSUME IInv, [Next]_vars, NEW d \in Calls, pc'[d] = "returned"
  PROVE  Reached(d)'
<1> USE DEF Reached
<1>0. /\ CallInv(d) /\ ChainInv(d) /\ CallTypes /\ paymentOf[d] \in Payments
      /\ {"settle", "dispute", "submit-evidence"} = Actions
      /\ payment \in [Payments -> PaymentStates] /\ paymentOf' = paymentOf
      /\ pc[d] = "returned" => Reached(d)
      /\ payment[paymentOf[d]] \in {"settled", "refunded", "resolved"} =>
           payment'[paymentOf[d]] = payment[paymentOf[d]]
      /\ payment[paymentOf[d]] = "disputed" => payment'[paymentOf[d]] \in {"disputed", "resolved"}
  BY Returns, PaymentStep, Persistence DEF IInv, TypeOK, CallTypes, Actions, PaymentStates
<1>2. CASE ~CallAction(d)
  BY <1>0, <1>2, OthersStand DEF Stands
<1>3. CASE ActionMined(d)
  <2>1. /\ stage[d] \in Actions /\ stage' = stage /\ payment' = payment
        /\ status[d][stage[d]] = "success"
    BY <1>0, <1>3 DEF ActionMined, HasReceipt, IsSuccessful, OnFailure, Goto, CallTypes, chainVars
  <2> QED
    BY <1>0, <2>1 DEF ChainInv, Resolved
<1>4. CASE Answered(d)
  <2>1. PICK action \in ActionsOn.accepted \cup ActionsOn.rejected :
          /\ decision' = [decision EXCEPT ![d] = action]
          /\ stage' = [stage EXCEPT ![d] = NextStage(d, action)]
          /\ pc' = [pc EXCEPT ![d] = AfterDecision(action)]
    BY <1>4 DEF Answered, ActionsOn, Goto
  <2>2. pc[d] = "paid" /\ action = "keep-open"
    BY <1>0, <1>4, <2>1 DEF Answered, AfterDecision, CallTypes, ActionsOn
  <2>3. decision'[d] = "keep-open" /\ stage'[d] = "create"
    BY <1>0, <2>1, <2>2 DEF NextStage, CallInv, CallTypes
  <2> QED
    BY <1>0, <2>3
<1>5. CASE Refunded(d)
  <2>1. pc[d] = "refund" /\ stage' = stage /\ payment' = [payment EXCEPT ![paymentOf[d]] = "refunded"]
    BY <1>0, <1>5 DEF Refunded, Goto, CallTypes
  <2> QED
    BY <1>0, <2>1 DEF CallInv
<1>6. CASE Ask(d) \/ Fails(d) \/ Retry(d) \/ RetryAnswered(d) \/ CallExecutor(d)
  BY <1>0, <1>6 DEF Ask, Fails, Retry, RetryAnswered, CallExecutor, ErrorFor, Goto, CallTypes
<1>7. CASE Challenged(d) \/ CheckPolicy(d)
  BY <1>0, <1>7 DEF Challenged, AfterChallenge, CheckPolicy, Goto, CallTypes
<1>8. CASE PrepareCreation(d) \/ PrepareAction(d) \/ ApprovalMined(d)
  BY <1>0, <1>8 DEF PrepareCreation, PrepareAction, ApprovalMined, HandOver, Goto, CallTypes
<1>9. CASE Broadcast(d) \/ BroadcastFails(d) \/ CreationMined(d)
  BY <1>0, <1>9 DEF Broadcast, BroadcastFails, CreationMined, OnFailure, Goto, CallTypes
<1> QED
  BY <1>2, <1>3, <1>4, <1>5, <1>6, <1>7, <1>8, <1>9
     DEF CallAction, Progress, CheckChallenge, Execute, Resolve

-----------------------------------------------------------------------------
LEMMA InvStep ==
  ASSUME IInv, [Next]_vars
  PROVE  IInv'
<1>1. TypeOK'
  BY TypeStep DEF IInv
<1>2. PoolInv'
  BY PoolStep
<1>3. \A c \in Calls : ChainInv(c)' /\ CallInv(c)'
  BY ChainStep, CallStep
<1>4. \A p \in Payments : PaymentInv(p)'
  BY PaymentStep
<1>5. FailsOnlyForCause'
  <2>1. \A d \in Calls : pc'[d] = "threw" => Cause(d)'
    BY FailsStep
  <2> QED
    BY <2>1 DEF FailsOnlyForCause, Cause, Contended, Contends
<1>6. ReturnsOnceResolved'
  BY ReturnsStep DEF ReturnsOnceResolved, Reached
<1> QED
  BY <1>1, <1>2, <1>3, <1>4, <1>5, <1>6 DEF IInv

(* The state of the calls, the queue, the pool and the chain stays within  *)
(* the types given.                                                        *)
THEOREM TypeCorrect == Spec => []TypeOK
<1>1. IInv => TypeOK
  BY DEF IInv
<1> QED
  BY <1>1, InvInit, InvStep, PTL DEF Spec

(* A call that presents a proof, asks for a refund, throws an error with a *)
(* payment or returns has created that payment itself, whatever the        *)
(* overlapping calls do (createPayment, d402Fetch).                        *)
THEOREM PresentsOwn == Spec => []PresentsOnlyOwnPayments
<1>1. IInv => PresentsOnlyOwnPayments
  BY DEF IInv, CallInv, Holding, Owns, PresentsOnlyOwnPayments
<1> QED
  BY <1>1, InvInit, InvStep, PTL DEF Spec

(* A call that ends without a payment was refused by its own challenge or  *)
(* by a failure, or met a call for the same payment id or allowance        *)
(* (executeTransaction, waitForSuccessfulReceipt).                         *)
THEOREM FailsForCause == Spec => []FailsOnlyForCause
<1>1. IInv => FailsOnlyForCause
  BY DEF IInv
<1> QED
  BY <1>1, InvInit, InvStep, PTL DEF Spec

(* A call that returned has settled, disputed or been refunded the payment *)
(* as its options say (resolvePaymentAfterAcceptance, settlePayment,       *)
(* disputePayment, requestRefund).                                         *)
THEOREM ReturnsResolved == Spec => []ReturnsOnceResolved
<1>1. IInv => ReturnsOnceResolved
  BY DEF IInv
<1> QED
  BY <1>1, InvInit, InvStep, PTL DEF Spec
=============================================================================
