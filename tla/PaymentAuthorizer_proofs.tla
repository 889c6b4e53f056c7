----------------------- MODULE PaymentAuthorizer_proofs -----------------------
(***************************************************************************)
(* Proofs about PaymentAuthorizer: type correctness, at most one authorized *)
(* request per payment with Once, no claim behind a refusal, that the      *)
(* replicas implement ClaimProtocol, and what requests know when they are  *)
(* answered: that the state they read was the payment's, that it had its   *)
(* confirmations, that a refusal has a cause.  For any number of requests, *)
(* payments, replicas and crashes and every configuration.                 *)
(***************************************************************************)
EXTENDS PaymentAuthorizer, TLAPS

(* Who is about to send is at the head of its replica's queue.             *)
SendsAtHead == \A r \in Requests : pc[r] = "send" => AtHead(r)

(* Where the requests that may have a transaction are.                     *)
MayHaveClaim == {"mined", "authorized", "threw", "lost"}

ClaimsFollowRequests ==
  \A r \in Requests :
    /\ claim[r] # "none" => pc[r] \in MayHaveClaim
    /\ Consumer = "Once" /\ pc[r] = "authorized" => claim[r] = "success"

(* The contract and the receipts agree on who consumed a payment.          *)
ClaimsFollowContract ==
  \A r \in Requests : claim[r] = "success" <=> consumedBy[PaymentOf[r]] = r

IInv == TypeOK /\ SendsAtHead /\ ClaimsFollowRequests /\ ClaimsFollowContract

-----------------------------------------------------------------------------
(* Type correctness.                                                       *)
LEMMA TypeInit == Init => TypeOK
  BY DEF Init, ChainInit, TypeOK, PaymentStates, Waiting, Ended, Answered, ProofKinds, StateReads

Places == {"new"} \cup Waiting \cup Ended

LEMMA StepOnlyType ==
  ASSUME TypeOK, NEW r \in Requests, NEW where \in Places, StepOnly(r, where)
  PROVE  TypeOK'
  BY DEF TypeOK, StepOnly, Goto, chainVars, referenceVars, localVars, sharedVars, historyVars, Places

LEMMA ArriveType ==
  ASSUME TypeOK, NEW r \in Requests, Arrive(r)
  PROVE  TypeOK'
<1>1. PICK kind \in ProofKinds : \E next \in AfterArrival(kind) :
        proof' = [proof EXCEPT ![r] = kind] /\ Goto(r, next)
  BY DEF Arrive
<1>2. PICK next \in AfterArrival(kind) : proof' = [proof EXCEPT ![r] = kind] /\ Goto(r, next)
  BY <1>1
<1>3. next \in Places
  <2>1. kind = "absent" \/ kind # "absent"
    OBVIOUS
  <2> QED
    BY <1>2, <2>1, ModeAssumption DEF AfterArrival, Places, Waiting, Ended, Answered
<1> QED
  BY <1>2, <1>3 DEF Arrive, TypeOK, Goto, chainVars, referenceVars, sharedVars, Places

LEMMA AuthenticateType ==
  ASSUME TypeOK, NEW r \in Requests, Authenticate(r)
  PROVE  TypeOK'
<1>1. CASE \/ HitReference(r) \/ ResolveReference(r) \/ VerifyChain(r) \/ VerifySettlement(r)
           \/ ReadFails(r)
  BY <1>1, StepOnlyType DEF HitReference, ResolveReference, VerifyChain, VerifySettlement, ReadFails,
     Places, Waiting, Ended, Answered
<1>2. AfterEvent(r) \in Places
  BY DEF AfterEvent, Places, Waiting, Ended, Answered
<1>3. CASE ReadReceipt(r)
  <2>1. PICK mined \in CreationSeen(PaymentOf[r]) :
          /\ receiptBlock' = [receiptBlock EXCEPT ![r] = mined]
          /\ Goto(r, IF mined = 0 THEN "early" ELSE IF NeedsHead THEN "head" ELSE AfterEvent(r))
    BY <1>3 DEF ReadReceipt
  <2>2. mined \in Nat
    BY PaymentOfAssumption DEF TypeOK, CreationSeen
  <2>3. PICK where \in Places : Goto(r, where)
    BY <1>2, <2>1 DEF Places, Waiting, Ended, Answered
  <2> QED
    BY <1>3, <2>1, <2>2, <2>3 DEF ReadReceipt, TypeOK, Goto, chainVars, referenceVars, sharedVars, Places
<1>4. CASE ReadHead(r)
  <2>1. PICK where \in Places : Goto(r, where)
    BY <1>2, <1>4 DEF ReadHead, Places, Waiting, Ended, Answered
  <2> QED
    BY <1>4, <2>1 DEF ReadHead, TypeOK, Goto, chainVars, referenceVars, localVars, sharedVars, Places
<1>5. CASE ReadReference(r)
  <2>1. PICK t \in Requests : lookup' = [lookup EXCEPT ![r] = t]
    BY <1>5 DEF ReadReference, ReadersOfReference
  <2>2. refRead' = refRead \/ refRead' = [refRead EXCEPT ![r] = "asked"]
    BY <1>5 DEF ReadReference
  <2>3. lookup' \in [Requests -> Requests \cup {None}]
    BY <2>1 DEF TypeOK
  <2>4. refRead' \in [Requests -> {"none", "asked"} \cup Verdicts]
    BY <2>2 DEF TypeOK
  <2>5. pc' \in [Requests -> {"new"} \cup Waiting \cup Ended]
    BY <1>5 DEF ReadReference, Goto, TypeOK, Waiting
  <2> QED
    BY <1>5, <2>3, <2>4, <2>5 DEF ReadReference, TypeOK, chainVars, localVars, sharedVars
<1> QED
  BY <1>1, <1>3, <1>4, <1>5 DEF Authenticate

LEMMA AnsweredType ==
  ASSUME TypeOK, NEW r \in Requests, ReferenceAnswered(r)
  PROVE  TypeOK'
<1>1. PICK verdict \in Verdicts : refRead' = [refRead EXCEPT ![r] = verdict]
  BY DEF ReferenceAnswered, Verdicts
<1> QED
  BY <1>1 DEF ReferenceAnswered, TypeOK, chainVars, localVars, sharedVars

LEMMA ObserveType ==
  ASSUME TypeOK, NEW r \in Requests, ObservePayment(r)
  PROVE  TypeOK'
<1> PaymentOf[r] \in Payments /\ at[r] \in Replicas
  BY PaymentOfAssumption DEF TypeOK
<1>1. CASE Recovery(r) \/ ObserverThrows(r) \/ Verify(r)
  BY <1>1, StepOnlyType DEF Recovery, ObserverThrows, Verify, Places, Waiting, Ended, Answered
<1>2. CASE Observe(r)
  <2>1. Goto(r, "state") /\ "state" \in Places
    BY <1>2 DEF Observe, Places, Waiting
  <2>2. Reading(r) \in Requests \cup {None}
    BY DEF Reading, TypeOK
  <2>3. /\ pc' \in [Requests -> Places]
        /\ awaits' \in [Requests -> Requests \cup {None}]
    <3>1. PICK t \in Requests \cup {None} : awaits' = [awaits EXCEPT ![r] = t]
      BY <1>2, <2>2 DEF Observe
    <3>2. awaits' \in [Requests -> Requests \cup {None}]
      BY <3>1 DEF TypeOK
    <3> QED
      BY <2>1, <3>2 DEF TypeOK, Goto, Places
  <2>4. /\ stateRead' \in [Requests -> StateReads]
        /\ inFlight' \in [Replicas -> [Payments -> Requests \cup {None}]]
    <3>1. CASE Reading(r) # None
      BY <1>2, <3>1 DEF Observe, TypeOK
    <3>2. CASE Reading(r) = None
      <4>1. /\ stateRead' = [stateRead EXCEPT ![r] = "asked"]
            /\ inFlight' = [inFlight EXCEPT ![at[r]][PaymentOf[r]] = r]
        BY <1>2, <3>2 DEF Observe
      <4> QED
        BY <4>1 DEF TypeOK, StateReads
    <3> QED
      BY <3>1, <3>2
  <2> QED
    BY <1>2, <2>3, <2>4 DEF Observe, TypeOK, chainVars, referenceVars, Places
<1>3. CASE EvaluateState(r)
  <2>1. PICK result \in StateSeen(PaymentOf[r]) \cup {"failed"} :
          stateRead' = [stateRead EXCEPT ![r] = result]
    BY <1>3 DEF EvaluateState
  <2>2. result \in StateReads
    BY DEF TypeOK, StateReads, StateSeen
  <2> QED
    BY <1>3, <2>1, <2>2 DEF EvaluateState, TypeOK, chainVars, referenceVars, localVars
<1>4. CASE StateAnswered(r)
  BY <1>4 DEF StateAnswered, TypeOK, chainVars, referenceVars, localVars
<1> QED
  BY <1>1, <1>2, <1>3, <1>4 DEF ObservePayment

LEMMA ConsumeType ==
  ASSUME TypeOK, SendsAtHead, NEW r \in Requests, Consume(r)
  PROVE  TypeOK'
<1> at[r] \in Replicas /\ queue[at[r]] \in Seq(Requests)
  BY DEF TypeOK
<1>1. CASE Prepare(r)
  BY <1>1 DEF Prepare, TypeOK, Goto, chainVars, referenceVars, localVars, Waiting
<1>2. ASSUME AtHead(r), LeaveQueue(r)
      PROVE  queue' \in [Replicas -> Seq(Requests)]
  <2>1. Tail(queue[at[r]]) \in Seq(Requests)
    BY <1>2 DEF AtHead
  <2> QED
    BY <1>2, <2>1 DEF LeaveQueue, TypeOK
<1>3. CASE Estimate(r)
  <2>1. queue' \in [Replicas -> Seq(Requests)]
    BY <1>2, <1>3 DEF Estimate, TypeOK
  <2>2. pc' \in [Requests -> {"new"} \cup Waiting \cup Ended]
    BY <1>3 DEF Estimate, TypeOK, Goto, OnAlreadyConsumed, Waiting, Ended, Answered
  <2> QED
    BY <1>3, <2>1, <2>2 DEF Estimate, TypeOK, chainVars, referenceVars, localVars
<1>4. CASE Send(r)
  <2>1. queue' \in [Replicas -> Seq(Requests)]
    BY <1>2, <1>4 DEF Send, SendsAtHead
  <2>2. pc' \in [Requests -> {"new"} \cup Waiting \cup Ended]
    BY <1>4 DEF Send, TypeOK, Goto, Waiting, Ended
  <2> QED
    BY <1>4, <2>1, <2>2 DEF Send, TypeOK, referenceVars, localVars
<1>5. CASE NonceConflict(r) \/ Receipt(r)
  BY <1>5, StepOnlyType DEF NonceConflict, Receipt, AfterReceipt, Places, Waiting, Ended, Answered
<1>6. CASE ActionFails(r)
  <2>1. queue' \in [Replicas -> Seq(Requests)]
    BY <1>2, <1>6 DEF ActionFails, SendsAtHead, TypeOK
  <2>2. pc' \in [Requests -> {"new"} \cup Waiting \cup Ended]
    BY <1>6 DEF ActionFails, OnActionFailure, TypeOK, Goto, Ended
  <2> QED
    BY <1>6, <2>1, <2>2 DEF ActionFails, TypeOK, chainVars, referenceVars, localVars
<1> QED
  BY <1>1, <1>3, <1>4, <1>5, <1>6 DEF Consume

LEMMA CrashType ==
  ASSUME TypeOK, NEW s \in Replicas, Crash(s)
  PROVE  TypeOK'
<1>1. pc' \in [Requests -> {"new"} \cup Waiting \cup Ended]
  BY DEF Crash, TypeOK, Ended
<1>2. stateRead' \in [Requests -> StateReads]
  BY DEF Crash, TypeOK, StateReads
<1>3. inFlight' \in [Replicas -> [Payments -> Requests \cup {None}]]
  BY DEF Crash, TypeOK
<1>4. queue' \in [Replicas -> Seq(Requests)]
  BY DEF Crash, TypeOK
<1>5. refRead' \in [Requests -> {"none", "asked"} \cup Verdicts]
  BY DEF Crash, TypeOK
<1> QED
  BY <1>1, <1>2, <1>3, <1>4, <1>5 DEF Crash, TypeOK, chainVars, localVars

LEMMA ChainType ==
  ASSUME TypeOK, ChainNext, ChainMoves
  PROVE  TypeOK'
<1>1. UNCHANGED <<pc, referenceVars, localVars, sharedVars>>
  BY DEF ChainMoves
<1>2. CASE NewBlock
  <2>1. height \in Nat /\ creation \in [Payments -> Nat] /\ height' = height + 1
    BY <1>2 DEF NewBlock, TypeOK
  <2>2. creation' \in [Payments -> Nat] /\ height' \in Nat
    BY <1>2, <2>1 DEF NewBlock
  <2>3. stateBefore' \in [Payments -> PaymentStates]
    BY <1>2 DEF NewBlock, TypeOK
  <2> QED
    BY <1>1, <1>2, <2>2, <2>3 DEF NewBlock, TypeOK, referenceVars, localVars, sharedVars
<1>3. CASE Reorg
  <2>1. /\ height' \in Nat /\ creation' \in [Payments -> Nat]
        /\ state' \in [Payments -> PaymentStates] /\ stateBefore' \in [Payments -> PaymentStates]
    BY <1>3 DEF Reorg, TypeOK, PaymentStates
  <2> QED
    BY <1>1, <1>3, <2>1 DEF Reorg, TypeOK, referenceVars, localVars, sharedVars
<1>4. ASSUME NEW p \in Payments, PaymentMoves(p)
      PROVE  TypeOK'
  BY <1>1, <1>4 DEF PaymentMoves, TypeOK, referenceVars, localVars, sharedVars
<1>5. ASSUME NEW r \in Requests, MineClaim(r)
      PROVE  TypeOK'
  BY <1>1, <1>5, PaymentOfAssumption DEF MineClaim, TypeOK, referenceVars, localVars, sharedVars
<1> QED
  BY <1>2, <1>3, <1>4, <1>5 DEF ChainNext

LEMMA TypeStep ==
  ASSUME TypeOK, SendsAtHead, [Next]_vars
  PROVE  TypeOK'
<1>1. CASE UNCHANGED vars
  BY <1>1 DEF vars, chainVars, referenceVars, localVars, sharedVars, TypeOK
<1> QED
  BY <1>1, ArriveType, AnsweredType, AuthenticateType, ObserveType, ConsumeType, CrashType, ChainType
     DEF Next, Serve

-----------------------------------------------------------------------------
(* Steps that leave the claims alone, of a request that has none.          *)
Quiet(r) ==
  /\ pc[r] \in ({"new"} \cup Waiting) \ MayHaveClaim
  /\ \E where \in Places :
       /\ pc' = [pc EXCEPT ![r] = where]
       /\ Consumer = "Once" => where # "authorized"
  /\ UNCHANGED <<claim, consumedBy>>

LEMMA ServeIsQuiet ==
  ASSUME TypeOK, NEW r \in Requests,
         \/ Arrive(r) \/ Authenticate(r)
         \/ Recovery(r) \/ Observe(r) \/ ObserverThrows(r) \/ Verify(r)
         \/ Prepare(r) \/ Estimate(r) \/ NonceConflict(r)
         \/ (ActionFails(r) /\ pc[r] # "mined")
  PROVE  Quiet(r)
<1> USE DEF StepOnly, Goto, chainVars, Places, Waiting, Ended, Answered, MayHaveClaim
<1>1. CASE Arrive(r)
  <2>1. PICK kind \in ProofKinds : \E next \in AfterArrival(kind) : Goto(r, next)
    BY <1>1 DEF Arrive
  <2>2. PICK next \in AfterArrival(kind) : Goto(r, next)
    BY <2>1
  <2>3. next \in {"challenged", "unavailable", "refused", "reference", "chain"}
    <3>1. kind = "absent" \/ kind # "absent"
      OBVIOUS
    <3> QED
      BY <2>2, <3>1, ModeAssumption DEF AfterArrival
  <2> QED
    BY <1>1, <2>2, <2>3 DEF Arrive, Quiet
<1>2. CASE Authenticate(r)
  <2>1. AfterEvent(r) \in {"refused", "settlement", "recovery"}
    BY DEF AfterEvent
  <2> QED
    BY <1>2, <2>1 DEF Authenticate, HitReference, ReadReference, ResolveReference, VerifyChain,
     ReadReceipt, ReadHead,
       VerifySettlement, ReadFails, Quiet
<1>3. CASE Recovery(r) \/ Observe(r) \/ ObserverThrows(r)
  BY <1>3 DEF Recovery, Observe, ObserverThrows, Quiet
<1>4. CASE Verify(r)
  <2> DEFINE where == IF stateRead[awaits[r]] = "failed" THEN "unavailable"
                      ELSE IF ~Accepts(stateRead[awaits[r]]) THEN "refused"
                      ELSE IF Consumer = "None" THEN "authorized" ELSE "action"
  <2>1. pc[r] = "state" /\ StepOnly(r, where)
    BY <1>4 DEF Verify
  <2>2. where \in {"unavailable", "refused", "authorized", "action"}
    OBVIOUS
  <2>3. Consumer = "Once" => where # "authorized"
    OBVIOUS
  <2> HIDE DEF where
  <2> QED
    BY <2>1, <2>2, <2>3 DEF Quiet
<1>5. CASE Prepare(r) \/ Estimate(r) \/ NonceConflict(r)
  BY <1>5 DEF Prepare, Estimate, NonceConflict, OnAlreadyConsumed, Quiet
<1>6. CASE ActionFails(r) /\ pc[r] # "mined"
  BY <1>6 DEF ActionFails, OnActionFailure, Quiet
<1> QED
  BY <1>1, <1>2, <1>3, <1>4, <1>5, <1>6

(* Such a step keeps what the claims say of the requests and the contract. *)
LEMMA QuietKeepsClaims ==
  ASSUME TypeOK, ClaimsFollowRequests, ClaimsFollowContract, NEW r \in Requests, Quiet(r)
  PROVE  ClaimsFollowRequests' /\ ClaimsFollowContract'
<1>1. PICK where \in Places : /\ pc' = [pc EXCEPT ![r] = where]
                              /\ Consumer = "Once" => where # "authorized"
  BY DEF Quiet
<1>2. /\ pc'[r] = where
      /\ \A t \in Requests \ {r} : pc'[t] = pc[t]
      /\ claim' = claim /\ consumedBy' = consumedBy
  BY <1>1 DEF Quiet, TypeOK
<1>3. claim[r] = "none"
  BY DEF Quiet, ClaimsFollowRequests
<1>4. ClaimsFollowRequests'
  BY <1>1, <1>2, <1>3 DEF ClaimsFollowRequests
<1>5. ClaimsFollowContract'
  BY <1>2 DEF ClaimsFollowContract
<1> QED
  BY <1>4, <1>5

LEMMA SendKeepsClaims ==
  ASSUME TypeOK, ClaimsFollowRequests, ClaimsFollowContract, NEW r \in Requests, Send(r)
  PROVE  ClaimsFollowRequests' /\ ClaimsFollowContract'
<1>1. PICK next \in {"mined", "threw"} : pc' = [pc EXCEPT ![r] = next]
  BY DEF Send, Goto
<1>2. /\ pc[r] = "send"
      /\ pc'[r] = next
      /\ \A t \in Requests \ {r} : pc'[t] = pc[t] /\ claim'[t] = claim[t]
      /\ claim'[r] = "pool"
      /\ consumedBy' = consumedBy
  BY <1>1 DEF Send, TypeOK
<1>3. claim[r] = "none"
  BY <1>2 DEF ClaimsFollowRequests, MayHaveClaim
<1>4. ClaimsFollowRequests'
  BY <1>2 DEF ClaimsFollowRequests, MayHaveClaim
<1>5. ClaimsFollowContract'
  BY <1>2, <1>3 DEF ClaimsFollowContract
<1> QED
  BY <1>4, <1>5

(* The receipt, or a failure to get it, ends the request.                  *)
LEMMA ReceiptKeepsClaims ==
  ASSUME TypeOK, ClaimsFollowRequests, ClaimsFollowContract, NEW r \in Requests,
         Receipt(r) \/ (ActionFails(r) /\ pc[r] = "mined")
  PROVE  ClaimsFollowRequests' /\ ClaimsFollowContract'
<1>1. claim' = claim /\ consumedBy' = consumedBy
  BY DEF Receipt, ActionFails, StepOnly, chainVars
<1>2. PICK where \in {"authorized", "threw"} :
        /\ pc' = [pc EXCEPT ![r] = where]
        /\ where = "authorized" => claim[r] = "success"
  BY DEF Receipt, ActionFails, OnActionFailure, AfterReceipt, StepOnly, Goto
<1>3. pc'[r] = where /\ \A t \in Requests \ {r} : pc'[t] = pc[t]
  BY <1>2 DEF TypeOK
<1>4. ClaimsFollowRequests'
  BY <1>1, <1>2, <1>3 DEF ClaimsFollowRequests, MayHaveClaim
<1>5. ClaimsFollowContract'
  BY <1>1 DEF ClaimsFollowContract
<1> QED
  BY <1>4, <1>5

LEMMA CrashKeepsClaims ==
  ASSUME TypeOK, ClaimsFollowRequests, ClaimsFollowContract, NEW s \in Replicas, Crash(s)
  PROVE  ClaimsFollowRequests' /\ ClaimsFollowContract'
<1>1. claim' = claim /\ consumedBy' = consumedBy
  BY DEF Crash, chainVars
<1>2. \A r \in Requests : pc'[r] = "lost" \/ pc'[r] = pc[r]
  BY DEF Crash
<1>3. ClaimsFollowRequests'
  BY <1>1, <1>2 DEF ClaimsFollowRequests, MayHaveClaim
<1>4. ClaimsFollowContract'
  BY <1>1 DEF ClaimsFollowContract
<1> QED
  BY <1>3, <1>4

LEMMA ChainKeepsClaims ==
  ASSUME TypeOK, ClaimsFollowRequests, ClaimsFollowContract, ChainNext, ChainMoves
  PROVE  ClaimsFollowRequests' /\ ClaimsFollowContract'
<1>1. pc' = pc
  BY DEF ChainMoves
<1>2. CASE NewBlock \/ Reorg \/ \E p \in Payments : PaymentMoves(p)
  <2>1. claim' = claim /\ consumedBy' = consumedBy
    BY <1>2 DEF NewBlock, Reorg, PaymentMoves
  <2> QED
    BY <1>1, <2>1 DEF ClaimsFollowRequests, ClaimsFollowContract
<1>3. ASSUME NEW r \in Requests, MineClaim(r)
      PROVE  ClaimsFollowRequests' /\ ClaimsFollowContract'
  <2> DEFINE p == PaymentOf[r]
  <2>1. p \in Payments /\ claim[r] = "pool"
    BY <1>3, PaymentOfAssumption DEF MineClaim
  <2>2. CASE consumedBy[p] = None
    <3>1. /\ consumedBy'[p] = r /\ \A o \in Payments \ {p} : consumedBy'[o] = consumedBy[o]
          /\ claim'[r] = "success" /\ \A t \in Requests \ {r} : claim'[t] = claim[t]
      BY <1>3, <2>1, <2>2 DEF MineClaim, TypeOK
    <3>2. ClaimsFollowRequests'
      BY <1>1, <2>1, <3>1 DEF ClaimsFollowRequests
    <3>3. \A t \in Requests \ {r} : claim[t] = "success" => PaymentOf[t] # p
      BY <2>2, NoneAssumption DEF ClaimsFollowContract
    <3>4. ClaimsFollowContract'
      BY <2>1, <3>1, <3>3, PaymentOfAssumption DEF ClaimsFollowContract
    <3> QED
      BY <3>2, <3>4
  <2>3. CASE consumedBy[p] # None
    <3>1. /\ consumedBy' = consumedBy
          /\ claim'[r] = "reverted" /\ \A t \in Requests \ {r} : claim'[t] = claim[t]
      BY <1>3, <2>3 DEF MineClaim, TypeOK
    <3>2. ClaimsFollowRequests'
      BY <1>1, <2>1, <3>1 DEF ClaimsFollowRequests
    <3>3. ClaimsFollowContract'
      BY <2>1, <3>1 DEF ClaimsFollowContract
    <3> QED
      BY <3>2, <3>3
  <2> QED
    BY <2>2, <2>3
<1> QED
  BY <1>2, <1>3 DEF ChainNext

-----------------------------------------------------------------------------
(* Nobody takes the head of a queue from who is about to send.             *)
LEMMA SendsAtHeadStep ==
  ASSUME TypeOK, SendsAtHead, [Next]_vars
  PROVE  SendsAtHead'
<1> SUFFICES ASSUME NEW t \in Requests, pc'[t] = "send"
             PROVE  AtHead(t)'
  BY DEF SendsAtHead
<1> DEFINE line == queue[at[t]]
<1>1. at[t] \in Replicas /\ line \in Seq(Requests)
  BY DEF TypeOK
<1>2. at' = at
  BY DEF Next, Serve, Arrive, ReferenceAnswered, Authenticate, HitReference, ReadReference, ResolveReference, VerifyChain,
     ReadReceipt,
     ReadHead, VerifySettlement, ReadFails, ObservePayment, Recovery, Observe, ObserverThrows,
     EvaluateState, StateAnswered, Verify, Consume, Prepare, Estimate, Send, NonceConflict,
     Receipt, ActionFails, Crash, ChainMoves, StepOnly, localVars, vars
<1>3. ASSUME queue' = queue, pc[t] = "send"
      PROVE  AtHead(t)'
  BY <1>2, <1>3 DEF SendsAtHead, AtHead
<1>4. ASSUME NEW r \in Requests,
             \/ Arrive(r) \/ ReferenceAnswered(r) \/ Authenticate(r) \/ ObservePayment(r)
             \/ NonceConflict(r) \/ Receipt(r)
      PROVE  AtHead(t)'
  <2>1. queue' = queue
    BY <1>4 DEF Arrive, ReferenceAnswered, Authenticate, HitReference, ReadReference, ResolveReference, VerifyChain,
     ReadReceipt,
       ReadHead, VerifySettlement, ReadFails, ObservePayment, Recovery, Observe, ObserverThrows,
       EvaluateState, StateAnswered, Verify, NonceConflict, Receipt, StepOnly, sharedVars
  <2>2. pc' = pc \/ \E where : where # "send" /\ pc' = [pc EXCEPT ![r] = where]
    <3>1. CASE Arrive(r)
      <4>1. PICK kind \in ProofKinds : \E next \in AfterArrival(kind) : Goto(r, next)
        BY <3>1 DEF Arrive
      <4>2. PICK next \in AfterArrival(kind) : Goto(r, next)
        BY <4>1
      <4>3. next # "send"
        <5>1. kind = "absent" \/ kind # "absent"
          OBVIOUS
        <5> QED
          BY <4>2, <5>1, ModeAssumption DEF AfterArrival
      <4> QED
        BY <4>2, <4>3 DEF Goto
    <3>2. CASE Authenticate(r)
      <4>1. AfterEvent(r) # "send"
        BY DEF AfterEvent
      <4> QED
        BY <3>2, <4>1 DEF Authenticate, HitReference, ReadReference, ResolveReference, VerifyChain,
     ReadReceipt, ReadHead,
           VerifySettlement, ReadFails, StepOnly, Goto
    <3>3. CASE ObservePayment(r)
      BY <3>3 DEF ObservePayment, Recovery, Observe, ObserverThrows, EvaluateState,
         StateAnswered, Verify, StepOnly, Goto
    <3>4. CASE NonceConflict(r) \/ Receipt(r) \/ ReferenceAnswered(r)
      BY <3>4 DEF NonceConflict, Receipt, AfterReceipt, ReferenceAnswered, StepOnly, Goto
    <3> QED
      BY <1>4, <3>1, <3>2, <3>3, <3>4
  <2>3. pc[t] = "send"
    BY <2>2 DEF TypeOK
  <2> QED
    BY <1>3, <2>1, <2>3
<1>5. ASSUME NEW r \in Requests, Prepare(r)
      PROVE  AtHead(t)'
  <2>1. /\ pc[t] = "send"
        /\ at[r] \in Replicas
        /\ queue' = [queue EXCEPT ![at[r]] = Append(@, r)]
    BY <1>5 DEF Prepare, Goto, TypeOK
  <2>2. line # <<>> /\ Head(line) = t
    BY <2>1 DEF SendsAtHead, AtHead
  <2>3. queue'[at[t]] = line \/ queue'[at[t]] = Append(line, r)
    BY <1>1, <2>1 DEF TypeOK
  <2>4. Append(line, r) # <<>> /\ Head(Append(line, r)) = t
    BY <1>1, <2>2
  <2> QED
    BY <1>2, <2>2, <2>3, <2>4 DEF AtHead
<1>6. ASSUME NEW r \in Requests, Estimate(r) \/ Send(r) \/ ActionFails(r)
      PROVE  AtHead(t)'
  <2>1. CASE queue' = queue
    <3>1. pc[t] = "send" \/ (t = r /\ AtHead(r))
      BY <1>6 DEF Estimate, Send, ActionFails, OnActionFailure, OnAlreadyConsumed, Goto, TypeOK
    <3> QED
      BY <2>1, <3>1, <1>2, <1>3 DEF AtHead
  <2>2. CASE queue' # queue
    <3>1. AtHead(r) /\ LeaveQueue(r)
      BY <1>6, <2>2 DEF Estimate, Send, ActionFails, SendsAtHead
    <3>2. pc[t] = "send" /\ t # r
      BY <1>6, <2>2 DEF Estimate, Send, ActionFails, OnActionFailure, OnAlreadyConsumed, Goto, TypeOK
    <3>3. AtHead(t)
      BY <3>2 DEF SendsAtHead
    <3>4. at[r] # at[t]
      BY <3>1, <3>2, <3>3 DEF AtHead
    <3>5. queue'[at[t]] = line
      BY <1>1, <3>1, <3>4 DEF LeaveQueue, TypeOK
    <3> QED
      BY <1>2, <3>3, <3>5 DEF AtHead
  <2> QED
    BY <2>1, <2>2
<1>7. ASSUME NEW s \in Replicas, Crash(s)
      PROVE  AtHead(t)'
  <2>1. pc[t] = "send" /\ at[t] # s
    BY <1>7 DEF Crash, Waiting
  <2>2. queue'[at[t]] = line
    BY <1>1, <1>7, <2>1 DEF Crash, TypeOK
  <2> QED
    BY <1>2, <2>1, <2>2 DEF SendsAtHead, AtHead
<1>8. CASE ChainNext /\ ChainMoves
  BY <1>3, <1>8 DEF ChainMoves, sharedVars
<1>9. CASE UNCHANGED vars
  BY <1>3, <1>9 DEF vars, sharedVars
<1> QED
  BY <1>4, <1>5, <1>6, <1>7, <1>8, <1>9 DEF Next, Serve, Consume

-----------------------------------------------------------------------------
LEMMA InvInit == Init => IInv
<1> SUFFICES ASSUME Init
             PROVE  IInv
  OBVIOUS
<1>1. SendsAtHead /\ ClaimsFollowRequests
  BY DEF Init, ChainInit, SendsAtHead, ClaimsFollowRequests
<1>2. ClaimsFollowContract
  BY NoneAssumption, PaymentOfAssumption DEF Init, ChainInit, ClaimsFollowContract
<1> QED
  BY <1>1, <1>2, TypeInit DEF IInv

LEMMA ClaimsStep ==
  ASSUME IInv, [Next]_vars
  PROVE  ClaimsFollowRequests' /\ ClaimsFollowContract'
<1> USE DEF IInv
<1>1. ASSUME NEW r \in Requests, ReferenceAnswered(r) \/ EvaluateState(r) \/ StateAnswered(r)
      PROVE  ClaimsFollowRequests' /\ ClaimsFollowContract'
  BY <1>1 DEF ReferenceAnswered, EvaluateState, StateAnswered, chainVars, ClaimsFollowRequests, ClaimsFollowContract
<1>2. ASSUME NEW r \in Requests, Arrive(r) \/ Serve(r)
      PROVE  ClaimsFollowRequests' /\ ClaimsFollowContract'
  <2>1. CASE ReferenceAnswered(r) \/ EvaluateState(r) \/ StateAnswered(r)
    BY <1>1, <2>1
  <2>2. CASE Send(r)
    BY <2>2, SendKeepsClaims
  <2>3. CASE Receipt(r) \/ (ActionFails(r) /\ pc[r] = "mined")
    BY <2>3, ReceiptKeepsClaims
  <2>4. CASE \/ Arrive(r) \/ Authenticate(r)
             \/ Recovery(r) \/ Observe(r) \/ ObserverThrows(r) \/ Verify(r)
             \/ Prepare(r) \/ Estimate(r) \/ NonceConflict(r)
             \/ (ActionFails(r) /\ pc[r] # "mined")
    BY <2>4, ServeIsQuiet, QuietKeepsClaims
  <2>5. \/ Arrive(r) \/ Authenticate(r)
        \/ Recovery(r) \/ Observe(r) \/ ObserverThrows(r) \/ Verify(r)
        \/ ReferenceAnswered(r) \/ EvaluateState(r) \/ StateAnswered(r)
        \/ Prepare(r) \/ Estimate(r) \/ NonceConflict(r)
        \/ Send(r) \/ Receipt(r) \/ ActionFails(r)
    BY <1>2 DEF Serve, ObservePayment, Consume
  <2> QED
    BY <2>1, <2>2, <2>3, <2>4, <2>5
<1>3. CASE UNCHANGED vars
  BY <1>3 DEF vars, chainVars, ClaimsFollowRequests, ClaimsFollowContract
<1> QED
  BY <1>2, <1>3, CrashKeepsClaims, ChainKeepsClaims DEF Next

LEMMA InvStep == IInv /\ [Next]_vars => IInv'
  BY TypeStep, SendsAtHeadStep, ClaimsStep DEF IInv

(* The state of requests, replicas and chain stays within its types.       *)
THEOREM TypeCorrect == Spec => []TypeOK
<1>1. IInv => TypeOK
  BY DEF IInv
<1> QED
  BY InvInit, InvStep, <1>1, PTL DEF Spec

(* Two authorized requests with one payment would both hold its claim.     *)
LEMMA InvAtMostOnce == IInv => AtMostOnce
  BY DEF IInv, ClaimsFollowRequests, ClaimsFollowContract, AtMostOnce

(* With the Once consumer one payment authorizes at most one request,      *)
(* through races of replicas, crashes, lost answers and replays            *)
(* (payment-consumer.ts).                                                  *)
THEOREM AuthorizesAtMostOnce == Spec => []AtMostOnce
  BY InvInit, InvStep, InvAtMostOnce, PTL DEF Spec

(* A request answered 422, 425 or 503 left no consume transaction behind.  *)
THEOREM RefusesWithoutClaim == Spec => []RefusalLeavesNoClaim
<1>1. IInv => RefusalLeavesNoClaim
  BY DEF IInv, ClaimsFollowRequests, MayHaveClaim, RefusalLeavesNoClaim, TypeOK
<1> QED
  BY InvInit, InvStep, <1>1, PTL DEF Spec

-----------------------------------------------------------------------------
(* The refinement.  fate and its next value, as ClaimProtocol sees them.   *)
fate == [r \in Requests |-> FateOf(pc[r])]

LEMMA Fates ==
  /\ \A where \in Waiting \cup {"new"} : FateOf(where) = "open"
  /\ \A where \in Answered \ {"authorized"} : FateOf(where) = "refused"
  /\ \A where \in {"threw", "lost"} : FateOf(where) = "dropped"
  /\ FateOf("authorized") = "admitted"
  BY DEF FateOf, Waiting, Answered

LEMMA RefinesInit == Init => Claims!Init
  BY DEF Init, ChainInit, Claims!Init, FateOf, Answered

(* A request without a claim that goes on, is refused or dropped.          *)
LEMMA QuietRefines ==
  ASSUME IInv, Consumer = "Once", NEW r \in Requests, Quiet(r)
  PROVE  [Claims!Next]_<<consumedBy, fate>>
<1>1. PICK where \in Places \ {"authorized"} : pc' = [pc EXCEPT ![r] = where]
  BY DEF Quiet
<1>2. pc'[r] = where /\ \A t \in Requests \ {r} : pc'[t] = pc[t]
  BY <1>1 DEF IInv, TypeOK
<1>3. consumedBy' = consumedBy /\ consumedBy[PaymentOf[r]] # r
  BY DEF Quiet, IInv, ClaimsFollowRequests, ClaimsFollowContract
<1>4. fate' = [fate EXCEPT ![r] = FateOf(where)]
  BY <1>2 DEF fate
<1>5. fate[r] = "open"
  BY Fates DEF Quiet, fate
<1>6. CASE where \in Waiting \cup {"new"}
  <2>1. fate' = fate
    BY <1>4, <1>5, <1>6, Fates DEF fate
  <2> QED
    BY <1>3, <2>1
<1>7. CASE where \in Answered \ {"authorized"}
  <2>1. fate' = [fate EXCEPT ![r] = "refused"]
    BY <1>4, <1>7, Fates
  <2>2. Claims!Refuse(r)
    BY <1>3, <1>5, <2>1 DEF Claims!Refuse, Claims!Close, fate
  <2> QED
    BY <2>2 DEF Claims!Next
<1>8. CASE where \in {"threw", "lost"}
  <2>1. fate' = [t \in Requests |-> IF t \in {r} THEN "dropped" ELSE fate[t]]
    BY <1>4, <1>8, Fates DEF fate
  <2>2. Claims!Drop({r})
    BY <1>3, <1>5, <2>1 DEF Claims!Drop, fate
  <2> QED
    BY <2>2 DEF Claims!Next
<1> QED
  BY <1>6, <1>7, <1>8 DEF Places, Ended

LEMMA SendRefines ==
  ASSUME IInv, NEW r \in Requests, Send(r)
  PROVE  [Claims!Next]_<<consumedBy, fate>>
<1>1. PICK next \in {"mined", "threw"} : pc' = [pc EXCEPT ![r] = next]
  BY DEF Send, Goto
<1>2. /\ pc[r] = "send" /\ pc'[r] = next
      /\ \A t \in Requests \ {r} : pc'[t] = pc[t]
      /\ consumedBy' = consumedBy
  BY <1>1 DEF Send, IInv, TypeOK
<1>3. fate' = [fate EXCEPT ![r] = FateOf(next)] /\ fate[r] = "open"
  BY <1>2, Fates DEF fate, Waiting
<1>4. CASE next = "mined"
  <2>1. fate' = fate
    BY <1>3, <1>4, Fates DEF fate, Waiting
  <2> QED
    BY <1>2, <2>1
<1>5. CASE next = "threw"
  <2>1. fate' = [t \in Requests |-> IF t \in {r} THEN "dropped" ELSE fate[t]]
    BY <1>3, <1>5, Fates DEF fate
  <2>2. Claims!Drop({r})
    BY <1>2, <1>3, <2>1 DEF Claims!Drop, fate
  <2> QED
    BY <2>2 DEF Claims!Next
<1> QED
  BY <1>4, <1>5

LEMMA ReceiptRefines ==
  ASSUME IInv, NEW r \in Requests, Receipt(r) \/ (ActionFails(r) /\ pc[r] = "mined")
  PROVE  [Claims!Next]_<<consumedBy, fate>>
<1>1. PICK where \in {"authorized", "threw"} :
        /\ pc' = [pc EXCEPT ![r] = where]
        /\ where = "authorized" => claim[r] = "success"
  BY DEF Receipt, ActionFails, OnActionFailure, AfterReceipt, StepOnly, Goto
<1>2. /\ pc[r] = "mined" /\ pc'[r] = where
      /\ \A t \in Requests \ {r} : pc'[t] = pc[t]
      /\ consumedBy' = consumedBy
  BY <1>1 DEF Receipt, ActionFails, StepOnly, chainVars, IInv, TypeOK
<1>3. fate' = [fate EXCEPT ![r] = FateOf(where)] /\ fate[r] = "open"
  BY <1>2, Fates DEF fate, Waiting
<1>4. CASE where = "authorized"
  <2>1. consumedBy[PaymentOf[r]] = r
    BY <1>1, <1>4 DEF IInv, ClaimsFollowContract
  <2>2. Claims!Admit(r)
    BY <1>2, <1>3, <1>4, <2>1, Fates DEF Claims!Admit, Claims!Close, fate
  <2> QED
    BY <2>2 DEF Claims!Next
<1>5. CASE where = "threw"
  <2>1. fate' = [t \in Requests |-> IF t \in {r} THEN "dropped" ELSE fate[t]]
    BY <1>3, <1>5, Fates DEF fate
  <2>2. Claims!Drop({r})
    BY <1>2, <1>3, <2>1 DEF Claims!Drop, fate
  <2> QED
    BY <2>2 DEF Claims!Next
<1> QED
  BY <1>4, <1>5

(* A crash drops all requests the replica serves at once.                  *)
LEMMA CrashRefines ==
  ASSUME IInv, NEW s \in Replicas, Crash(s)
  PROVE  [Claims!Next]_<<consumedBy, fate>>
<1> DEFINE served == {r \in Requests : at[r] = s /\ pc[r] \in Waiting}
<1>1. /\ pc' = [r \in Requests |-> IF r \in served THEN "lost" ELSE pc[r]]
      /\ consumedBy' = consumedBy
  BY DEF Crash, chainVars
<1>2. \A r \in served : fate[r] = "open"
  BY Fates DEF fate
<1>3. fate' = [r \in Requests |-> IF r \in served THEN "dropped" ELSE fate[r]]
  BY <1>1, Fates DEF fate
<1>4. Claims!Drop(served)
  BY <1>1, <1>2, <1>3 DEF Claims!Drop, fate
<1>5. served \in SUBSET Requests
  OBVIOUS
<1> QED
  BY <1>4, <1>5 DEF Claims!Next

(* Mining a claim takes the payment, or changes nothing.                   *)
LEMMA ChainRefines ==
  ASSUME IInv, Consumer = "Once", ChainNext, ChainMoves
  PROVE  [Claims!Next]_<<consumedBy, fate>>
<1>1. fate' = fate
  BY DEF ChainMoves, fate
<1>2. CASE NewBlock \/ Reorg \/ \E p \in Payments : PaymentMoves(p)
  BY <1>1, <1>2 DEF NewBlock, Reorg, PaymentMoves
<1>3. ASSUME NEW r \in Requests, MineClaim(r)
      PROVE  [Claims!Next]_<<consumedBy, fate>>
  <2>1. CASE consumedBy[PaymentOf[r]] = None
    <3>1. pc[r] \in {"mined", "threw", "lost"}
      BY <1>3 DEF MineClaim, IInv, ClaimsFollowRequests, MayHaveClaim
    <3>2. fate[r] \in {"open", "dropped"}
      BY <3>1, Fates DEF fate, Waiting
    <3>3. consumedBy' = [consumedBy EXCEPT ![PaymentOf[r]] = r]
      BY <1>3, <2>1 DEF MineClaim
    <3>4. Claims!Take(r)
      BY <1>1, <2>1, <3>2, <3>3 DEF Claims!Take, fate
    <3> QED
      BY <3>4 DEF Claims!Next
  <2>2. CASE consumedBy[PaymentOf[r]] # None
    BY <1>1, <1>3, <2>2 DEF MineClaim
  <2> QED
    BY <2>1, <2>2
<1> QED
  BY <1>2, <1>3 DEF ChainNext

LEMMA RefinesStep ==
  ASSUME IInv, Consumer = "Once", [Next]_vars
  PROVE  [Claims!Next]_<<consumedBy, fate>>
<1>1. ASSUME NEW r \in Requests, Arrive(r) \/ Serve(r)
      PROVE  [Claims!Next]_<<consumedBy, fate>>
  <2>1. CASE ReferenceAnswered(r) \/ EvaluateState(r) \/ StateAnswered(r)
    <3>1. pc' = pc /\ consumedBy' = consumedBy
      BY <2>1 DEF ReferenceAnswered, EvaluateState, StateAnswered, chainVars
    <3> QED
      BY <3>1 DEF fate
  <2>2. CASE Send(r)
    BY <2>2, SendRefines
  <2>3. CASE Receipt(r) \/ (ActionFails(r) /\ pc[r] = "mined")
    BY <2>3, ReceiptRefines
  <2>4. CASE \/ Arrive(r) \/ Authenticate(r)
             \/ Recovery(r) \/ Observe(r) \/ ObserverThrows(r) \/ Verify(r)
             \/ Prepare(r) \/ Estimate(r) \/ NonceConflict(r)
             \/ (ActionFails(r) /\ pc[r] # "mined")
    BY <2>4, ServeIsQuiet, QuietRefines DEF IInv
  <2>5. \/ Arrive(r) \/ Authenticate(r)
        \/ Recovery(r) \/ Observe(r) \/ ObserverThrows(r) \/ Verify(r)
        \/ ReferenceAnswered(r) \/ EvaluateState(r) \/ StateAnswered(r)
        \/ Prepare(r) \/ Estimate(r) \/ NonceConflict(r)
        \/ Send(r) \/ Receipt(r) \/ ActionFails(r)
    BY <1>1 DEF Serve, ObservePayment, Consume
  <2> QED
    BY <2>1, <2>2, <2>3, <2>4, <2>5
<1>2. CASE UNCHANGED vars
  BY <1>2 DEF vars, chainVars, fate
<1> QED
  BY <1>1, <1>2, CrashRefines, ChainRefines DEF Next

(* With the Once consumer the replicas and the chain together implement    *)
(* the claim protocol: a payment is held by at most one request, for good, *)
(* only its holder is admitted, and whoever is refused holds nothing.      *)
THEOREM ReplicasImplementClaims == Consumer = "Once" => (Spec => ImplementsClaimProtocol)
<1> SUFFICES ASSUME Consumer = "Once"
             PROVE  Spec => ImplementsClaimProtocol
  OBVIOUS
<1>1. Init => Claims!Init
  BY RefinesInit
<1>2. IInv /\ [Next]_vars => [Claims!Next]_(Claims!claimVars)
  BY RefinesStep DEF Claims!claimVars, fate
<1> QED
  BY <1>1, <1>2, InvInit, InvStep, PTL DEF Spec, ImplementsClaimProtocol, Claims!Spec

-----------------------------------------------------------------------------
(***************************************************************************)
(* What requests know of the payment and the chain.                        *)
(***************************************************************************)
BeforeRead == {"new", "reference", "resolving", "chain", "receipt", "head", "settlement", "recovery",
               "observer"}
AfterRead == {"action", "queue", "send", "mined", "authorized"}
Checked == {"settlement", "recovery", "observer", "state"} \cup AfterRead

(* A read is of the payment of those who await it, and its starter waits   *)
(* until it is answered.                                                   *)
ReadsInv ==
  /\ \A s \in Replicas, p \in Payments : inFlight[s][p] # None => PaymentOf[inFlight[s][p]] = p
  /\ \A r \in Requests :
       /\ pc[r] \in BeforeRead => stateRead[r] = "none"
       /\ stateRead[r] = "asked" => pc[r] = "state" /\ awaits[r] = r
       /\ awaits[r] # None => PaymentOf[awaits[r]] = PaymentOf[r]
       /\ pc[r] = "state" => awaits[r] # None

(* What a node may show to a request, or a read in flight bring it, was so *)
(* since it arrived, and so was what it was told.                          *)
HistoryInv ==
  \A r \in Requests :
    /\ pc[r] \in Waiting /\ StateSeen(PaymentOf[r]) \cap Acceptable # {} => acceptableSince[r]
    /\ stateRead[r] \in Acceptable => acceptableSince[r]
    /\ \A t \in Requests :
         /\ \/ pc[r] = "state" /\ awaits[r] = t
            \/ pc[r] \in Waiting /\ inFlight[at[r]][PaymentOf[r]] = t
         /\ stateRead[t] \in Acceptable
         => acceptableSince[r]
    /\ pc[r] \in AfterRead => acceptableSince[r]

(* Without a reorganisation the receipt's block stays the payment's.       *)
DepthInv ==
  /\ reorgs \in Nat
  /\ reorgs = 0 => \A r \in Requests :
       /\ pc[r] = "head" => receiptBlock[r] = creation[PaymentOf[r]] /\ receiptBlock[r] # 0
       /\ pc[r] \in Checked => deepWhenChecked[r]

(* A mismatch is what a request with an altered reference was told.        *)
ReferenceInv ==
  \A r \in Requests :
    /\ pc[r] \in {"new", "reference"} => refRead[r] = "none"
    /\ pc[r] = "resolving" => lookup[r] # None
    /\ lookup[r] # None => pc[lookup[r]] # "new"
    /\ refRead[r] = "mismatch" => proof[r] = "altered-reference"

(* Without reorganisations a state that is not acceptable never is again.  *)
JustifiedInv ==
  /\ \A p \in Payments : consumedBy[p] # None => PaymentOf[consumedBy[p]] = p
  /\ \A p \in Payments : stateBefore[p] \notin Acceptable => state[p] \notin Acceptable
  /\ \A r \in Requests :
       stateRead[r] \in PaymentStates \ Acceptable => state[PaymentOf[r]] \notin Acceptable
  /\ RefusalIsJustified

HistoryType ==
  acceptableSince \in [Requests -> BOOLEAN] /\ deepWhenChecked \in [Requests -> BOOLEAN]

KnowledgeInv == IInv /\ HistoryType /\ ReadsInv /\ HistoryInv /\ DepthInv

(* A step of one request that starts and answers no read.                  *)
Moves(r) ==
  /\ UNCHANGED <<height, creation, state, stateBefore, reorgs, consumedBy, at, awaits, proof,
                 stateRead, inFlight, acceptableSince>>
  /\ pc[r] \in Waiting
  /\ pc'[r] \in (Waiting \ {"state"}) \cup Ended
  /\ \A t \in Requests \ {r} : pc'[t] = pc[t]
  /\ pc'[r] \in BeforeRead => pc[r] \in BeforeRead
  /\ pc[r] = "state" => Verify(r)
  /\ pc'[r] \in AfterRead => pc[r] \in AfterRead \/ Verify(r)

LEMMA MoveFacts ==
  ASSUME TypeOK, NEW r \in Requests,
         \/ Authenticate(r) \/ Recovery(r) \/ ObserverThrows(r) \/ Verify(r) \/ Consume(r)
  PROVE  Moves(r)
<1> USE DEF StepOnly, Goto, chainVars, referenceVars, localVars, sharedVars, historyVars, Waiting,
            Ended, Answered, BeforeRead, AfterRead
<1>0. pc \in [Requests -> {"new"} \cup Waiting \cup Ended]
  BY DEF TypeOK
<1>1. CASE Authenticate(r)
  <2>1. AfterEvent(r) \in {"refused", "settlement", "recovery"}
    BY DEF AfterEvent
  <2>2. CASE \/ HitReference(r) \/ ResolveReference(r) \/ VerifyChain(r) \/ VerifySettlement(r)
             \/ ReadFails(r)
    BY <1>0, <2>2 DEF HitReference, ResolveReference, VerifyChain, VerifySettlement, ReadFails, Moves
  <2>3. CASE ReadReference(r) \/ ReadReceipt(r) \/ ReadHead(r)
    BY <1>0, <2>1, <2>3 DEF ReadReference, ReadReceipt, ReadHead, Moves
  <2> QED
    BY <1>1, <2>2, <2>3 DEF Authenticate
<1>2. CASE Recovery(r) \/ ObserverThrows(r)
  BY <1>0, <1>2 DEF Recovery, ObserverThrows, Moves
<1>3. CASE Verify(r)
  <2>1. /\ pc[r] = "state" /\ pc'[r] \in {"unavailable", "refused", "authorized", "action"}
        /\ \A t \in Requests \ {r} : pc'[t] = pc[t]
        /\ UNCHANGED <<chainVars, referenceVars, localVars, sharedVars, historyVars>>
    BY <1>0, <1>3 DEF Verify
  <2> QED
    BY <1>3, <2>1 DEF Moves
<1>4. CASE Prepare(r) \/ Estimate(r) \/ Send(r)
  BY <1>0, <1>4 DEF Prepare, Estimate, Send, OnAlreadyConsumed, Moves
<1>5. CASE NonceConflict(r) \/ Receipt(r) \/ ActionFails(r)
  BY <1>0, <1>5 DEF NonceConflict, Receipt, AfterReceipt, ActionFails, OnActionFailure, Moves
<1> QED
  BY <1>1, <1>2, <1>3, <1>4, <1>5 DEF Consume

(* The steps of the requests other than these.                             *)
LEMMA ArriveFacts ==
  ASSUME TypeOK, NEW r \in Requests, Arrive(r)
  PROVE  /\ UNCHANGED <<chainVars, referenceVars, at, receiptBlock, awaits, sharedVars,
                        deepWhenChecked>>
         /\ pc[r] = "new" /\ \A t \in Requests \ {r} : pc'[t] = pc[t] /\ proof'[t] = proof[t]
         /\ pc'[r] \in {"challenged", "unavailable", "refused", "reference", "chain"}
         /\ pc'[r] = "refused" => proof'[r] # "good"
         /\ acceptableSince' = [acceptableSince EXCEPT ![r] = AcceptableNow(r)]
<1>1. PICK kind \in ProofKinds : \E next \in AfterArrival(kind) :
        proof' = [proof EXCEPT ![r] = kind] /\ Goto(r, next)
  BY DEF Arrive
<1>2. PICK next \in AfterArrival(kind) : proof' = [proof EXCEPT ![r] = kind] /\ Goto(r, next)
  BY <1>1
<1>3. /\ next \in {"challenged", "unavailable", "refused", "reference", "chain"}
      /\ kind = "good" => next # "refused"
  <2>1. kind = "absent" \/ kind # "absent"
    OBVIOUS
  <2> QED
    BY <1>2, <2>1, ModeAssumption DEF AfterArrival
<1> QED
  BY <1>2, <1>3 DEF Arrive, Goto, TypeOK

LEMMA ServeCases ==
  ASSUME TypeOK, NEW r \in Requests, Serve(r)
  PROVE  \/ Moves(r) \/ Observe(r) \/ ReferenceAnswered(r) \/ EvaluateState(r)
         \/ StateAnswered(r)
  BY MoveFacts DEF Serve, ObservePayment

LEMMA ArriveKnows ==
  ASSUME KnowledgeInv, NEW r \in Requests, Arrive(r)
  PROVE  ReadsInv' /\ HistoryInv' /\ DepthInv'
<1>0. /\ UNCHANGED <<chainVars, at, receiptBlock, awaits, sharedVars, deepWhenChecked>>
      /\ pc[r] = "new" /\ \A t \in Requests \ {r} : pc'[t] = pc[t]
      /\ pc'[r] \in {"challenged", "unavailable", "refused", "reference", "chain"}
      /\ acceptableSince' = [acceptableSince EXCEPT ![r] = AcceptableNow(r)]
      /\ \A t \in Requests : stateRead[t] \in StateReads
  BY ArriveFacts DEF KnowledgeInv, IInv, TypeOK
<1> USE <1>0 DEF KnowledgeInv, sharedVars, chainVars, BeforeRead, AfterRead
<1>1. ReadsInv'
  BY DEF ReadsInv
<1>2. HistoryInv'
  <2>1. acceptableSince'[r] = AcceptableNow(r)
    BY DEF HistoryType
  <2>2. \A t \in Requests \ {r} : acceptableSince'[t] = acceptableSince[t]
    BY DEF HistoryType
  <2>3. stateRead[r] = "none" /\ "none" \notin Acceptable
    BY DEF ReadsInv, Acceptable
  <2>4. \A p \in Payments : StateSeen(p)' = StateSeen(p)
    BY DEF StateSeen
  <2>5. PaymentOf[r] \in Payments /\ \A t \in Requests : PaymentOf[t] \in Payments
    BY PaymentOfAssumption
  <2>6. /\ StateSeen(PaymentOf[r])' \cap Acceptable # {} => acceptableSince'[r]
        /\ stateRead'[r] \in Acceptable => acceptableSince'[r]
        /\ pc'[r] # "state" /\ pc'[r] \notin AfterRead
    BY <2>1, <2>3, <2>4, <2>5 DEF AcceptableNow
  <2>7. ASSUME NEW t \in Requests, inFlight[at[r]][PaymentOf[r]] = t, stateRead[t] \in Acceptable
        PROVE  acceptableSince'[r]
    <3>1. acceptableSince[t] /\ t # None
      BY <2>7, NoneAssumption DEF HistoryInv
    <3> QED
      BY <2>1, <2>7, <3>1 DEF AcceptableNow
  <2>8. \A t \in Requests \ {r} :
          /\ pc'[t] \in Waiting /\ StateSeen(PaymentOf[t])' \cap Acceptable # {}
               => acceptableSince'[t]
          /\ stateRead'[t] \in Acceptable => acceptableSince'[t]
          /\ \A u \in Requests :
               /\ \/ pc'[t] = "state" /\ awaits'[t] = u
                  \/ pc'[t] \in Waiting /\ inFlight'[at'[t]][PaymentOf[t]] = u
               /\ stateRead'[u] \in Acceptable
               => acceptableSince'[t]
          /\ pc'[t] \in AfterRead => acceptableSince'[t]
    BY <2>2, <2>4, <2>5 DEF HistoryInv
  <2> QED
    BY <2>6, <2>7, <2>8 DEF HistoryInv
<1>3. DepthInv'
  BY DEF DepthInv, Checked
<1> QED
  BY <1>1, <1>2, <1>3

LEMMA MovesKnows ==
  ASSUME KnowledgeInv, NEW r \in Requests, Moves(r)
  PROVE  ReadsInv' /\ HistoryInv'
<1> USE DEF KnowledgeInv, Moves
<1>1. pc'[r] # "state" /\ stateRead' = stateRead /\ awaits' = awaits /\ inFlight' = inFlight
  BY DEF Waiting, Ended, Answered
<1>2. Verify(r) => stateRead[awaits[r]] \in ReadDone
  BY DEF Verify
<1>3. stateRead[r] # "asked"
  <2>1. stateRead[r] = "asked" => Verify(r) /\ awaits[r] = r
    BY DEF ReadsInv
  <2> QED
    BY <1>2, <2>1 DEF ReadDone, PaymentStates
<1>4. ReadsInv'
  BY <1>1, <1>3 DEF ReadsInv
<1>5. Verify(r) /\ pc'[r] \in AfterRead =>
        pc[r] = "state" /\ awaits[r] \in Requests /\ stateRead[awaits[r]] \in Acceptable
  BY DEF Verify, StepOnly, Goto, Accepts, AfterRead, IInv, TypeOK, ReadsInv
<1>6. pc'[r] \in AfterRead => acceptableSince[r]
  BY <1>5 DEF HistoryInv
<1>7. \A p \in Payments : StateSeen(p)' = StateSeen(p)
  BY DEF StateSeen
<1>8. HistoryInv'
  BY <1>1, <1>6, <1>7, PaymentOfAssumption DEF HistoryInv
<1> QED
  BY <1>4, <1>8

LEMMA ObserveKnows ==
  ASSUME KnowledgeInv, NEW r \in Requests, Observe(r)
  PROVE  ReadsInv' /\ HistoryInv' /\ DepthInv'
<1> DEFINE s == at[r]
           p == PaymentOf[r]
<1>0. /\ pc[r] = "observer" /\ pc'[r] = "state" /\ \A t \in Requests \ {r} : pc'[t] = pc[t]
      /\ UNCHANGED <<chainVars, at, receiptBlock, historyVars>>
      /\ s \in Replicas /\ p \in Payments
  BY PaymentOfAssumption DEF Observe, Goto, KnowledgeInv, IInv, TypeOK
<1>1. \/ /\ inFlight[s][p] # None
         /\ UNCHANGED <<stateRead, inFlight>> /\ awaits'[r] = inFlight[s][p]
      \/ /\ stateRead' = [stateRead EXCEPT ![r] = "asked"] /\ awaits'[r] = r
         /\ inFlight' = [inFlight EXCEPT ![s][p] = r]
  BY DEF Observe, Reading, KnowledgeInv, IInv, TypeOK
<1>2. \A t \in Requests \ {r} : awaits'[t] = awaits[t] /\ stateRead'[t] = stateRead[t]
  BY DEF Observe, KnowledgeInv, IInv, TypeOK
<1>3. /\ stateRead'[r] \in {"none", "asked"} /\ (stateRead'[r] = "asked" => awaits'[r] = r)
      /\ PaymentOf[awaits'[r]] = p /\ awaits'[r] # None
  BY <1>0, <1>1, NoneAssumption DEF KnowledgeInv, ReadsInv, BeforeRead, IInv, TypeOK
<1>4. \A o \in Replicas, q \in Payments : inFlight'[o][q] # None => PaymentOf[inFlight'[o][q]] = q
  <2>1. CASE inFlight' = inFlight
    BY <2>1 DEF KnowledgeInv, ReadsInv
  <2>2. CASE inFlight' = [inFlight EXCEPT ![s][p] = r]
    <3>1. \A o \in Replicas, q \in Payments :
            inFlight'[o][q] = inFlight[o][q] \/ (q = p /\ inFlight'[o][q] = r)
      BY <1>0, <2>2 DEF KnowledgeInv, IInv, TypeOK
    <3> QED
      BY <3>1 DEF KnowledgeInv, ReadsInv
  <2> QED
    BY <1>1, <2>1, <2>2
<1>5. ReadsInv'
  BY <1>0, <1>2, <1>3, <1>4 DEF KnowledgeInv, ReadsInv, BeforeRead
<1>6. HistoryInv'
  <2>1. \A q \in Payments : StateSeen(q)' = StateSeen(q)
    BY <1>0 DEF StateSeen, chainVars
  <2>2. \A t \in Requests : stateRead'[t] \in Acceptable => stateRead[t] \in Acceptable /\ t # r
    BY <1>2, <1>3 DEF Acceptable
  <2>3. \A o \in Replicas, q \in Payments, t \in Requests \ {r} :
          inFlight'[o][q] = t => inFlight[o][q] = t
    <3>1. CASE inFlight' = inFlight
      BY <3>1
    <3>2. CASE inFlight' = [inFlight EXCEPT ![s][p] = r]
      <4>1. \A o \in Replicas, q \in Payments :
              inFlight'[o][q] = inFlight[o][q] \/ inFlight'[o][q] = r
        BY <1>0, <3>2 DEF KnowledgeInv, IInv, TypeOK
      <4> QED
        BY <4>1
    <3> QED
      BY <1>1, <3>1, <3>2
  <2>4. \A t \in Requests : awaits'[r] = t /\ t # r => inFlight[s][p] = t
    BY <1>1
  <2>5. acceptableSince' = acceptableSince /\ at' = at /\ \A t \in Requests : at[t] \in Replicas
    BY <1>0 DEF historyVars, KnowledgeInv, IInv, TypeOK
  <2>6. /\ pc'[r] \in Waiting /\ StateSeen(PaymentOf[r])' \cap Acceptable # {} => acceptableSince'[r]
        /\ stateRead'[r] \in Acceptable => acceptableSince'[r]
        /\ pc'[r] \notin AfterRead
    BY <1>0, <2>1, <2>2, <2>5 DEF KnowledgeInv, HistoryInv, Waiting, AfterRead
  <2>7. ASSUME NEW t \in Requests, stateRead'[t] \in Acceptable,
               awaits'[r] = t \/ inFlight'[at'[r]][PaymentOf[r]] = t
        PROVE  acceptableSince'[r]
    <3>1. inFlight[s][p] = t /\ stateRead[t] \in Acceptable
      BY <1>0, <2>2, <2>3, <2>4, <2>5, <2>7
    <3>2. pc[r] \in Waiting
      BY <1>0 DEF Waiting
    <3> QED
      BY <2>5, <3>1, <3>2 DEF KnowledgeInv, HistoryInv
  <2>8. ASSUME NEW u \in Requests \ {r}
        PROVE  /\ pc'[u] \in Waiting /\ StateSeen(PaymentOf[u])' \cap Acceptable # {}
                    => acceptableSince'[u]
               /\ stateRead'[u] \in Acceptable => acceptableSince'[u]
               /\ \A t \in Requests :
                    /\ \/ pc'[u] = "state" /\ awaits'[u] = t
                       \/ pc'[u] \in Waiting /\ inFlight'[at'[u]][PaymentOf[u]] = t
                    /\ stateRead'[t] \in Acceptable
                    => acceptableSince'[u]
               /\ pc'[u] \in AfterRead => acceptableSince'[u]
    BY <1>0, <1>2, <2>1, <2>2, <2>3, <2>5, PaymentOfAssumption DEF KnowledgeInv, HistoryInv
  <2> QED
    BY <2>6, <2>7, <2>8 DEF HistoryInv
<1>7. DepthInv'
  BY <1>0 DEF KnowledgeInv, DepthInv, chainVars, historyVars, Checked, AfterRead
<1> QED
  BY <1>5, <1>6, <1>7

LEMMA ReadKnows ==
  ASSUME KnowledgeInv, NEW r \in Requests,
         ReferenceAnswered(r) \/ EvaluateState(r) \/ StateAnswered(r)
  PROVE  ReadsInv' /\ HistoryInv' /\ DepthInv'
<1>0. UNCHANGED <<chainVars, pc, localVars, historyVars>>
  BY DEF ReferenceAnswered, EvaluateState, StateAnswered
<1>1. DepthInv'
  BY <1>0 DEF KnowledgeInv, DepthInv, chainVars, localVars, historyVars
<1>9. \A p \in Payments : StateSeen(p)' = StateSeen(p)
  BY <1>0 DEF StateSeen, chainVars
<1>2. CASE EvaluateState(r)
  <2>1. /\ inFlight' = inFlight
        /\ stateRead[r] = "asked" /\ stateRead'[r] \in StateSeen(PaymentOf[r]) \cup {"failed"}
        /\ \A t \in Requests \ {r} : stateRead'[t] = stateRead[t]
    BY <1>2 DEF EvaluateState, KnowledgeInv, IInv, TypeOK
  <2>2. pc[r] = "state" /\ StateSeen(PaymentOf[r]) \subseteq PaymentStates
    BY <2>1, PaymentOfAssumption DEF KnowledgeInv, ReadsInv, IInv, TypeOK, StateSeen
  <2>3. stateRead'[r] \notin {"none", "asked"}
    BY <2>1, <2>2 DEF PaymentStates
  <2>4. ReadsInv'
    BY <1>0, <2>1, <2>2, <2>3 DEF KnowledgeInv, ReadsInv, localVars, BeforeRead
  <2>5. ASSUME NEW t \in Requests, pc[t] \in Waiting, PaymentOf[t] = PaymentOf[r],
               stateRead'[r] \in Acceptable
        PROVE  acceptableSince[t]
    <3>1. stateRead'[r] \in StateSeen(PaymentOf[r])
      BY <2>1, <2>5 DEF Acceptable
    <3> QED
      BY <2>5, <3>1 DEF KnowledgeInv, HistoryInv
  <2>6. \A t \in Requests :
          \/ pc[t] = "state" /\ awaits[t] = r
          \/ pc[t] \in Waiting /\ inFlight[at[t]][PaymentOf[t]] = r
          => pc[t] \in Waiting /\ PaymentOf[t] = PaymentOf[r]
    BY NoneAssumption, PaymentOfAssumption DEF KnowledgeInv, ReadsInv, IInv, TypeOK, Waiting
  <2>7. pc[r] \in Waiting
    BY <2>2 DEF Waiting
  <2>8. HistoryInv'
    BY <1>0, <1>9, <2>1, <2>5, <2>6, <2>7, PaymentOfAssumption
       DEF KnowledgeInv, HistoryInv, localVars, historyVars
  <2> QED
    BY <1>1, <2>4, <2>8
<1>3. CASE StateAnswered(r)
  <2>1. /\ stateRead' = stateRead
        /\ inFlight' = [inFlight EXCEPT ![at[r]][PaymentOf[r]] = None]
    BY <1>3 DEF StateAnswered
  <2>2. \A o \in Replicas, q \in Payments : inFlight'[o][q] \in {None, inFlight[o][q]}
    BY <2>1 DEF KnowledgeInv, IInv, TypeOK
  <2>3. ReadsInv'
    BY <1>0, <2>1, <2>2 DEF KnowledgeInv, ReadsInv, localVars
  <2>4. \A t \in Requests : at[t] \in Replicas /\ PaymentOf[t] \in Payments /\ t # None
    BY PaymentOfAssumption, NoneAssumption DEF KnowledgeInv, IInv, TypeOK
  <2>5. HistoryInv'
    BY <1>0, <1>9, <2>1, <2>2, <2>4 DEF KnowledgeInv, HistoryInv, localVars, historyVars
  <2> QED
    BY <1>1, <2>3, <2>5
<1>4. CASE ReferenceAnswered(r)
  <2>1. sharedVars' = sharedVars
    BY <1>4 DEF ReferenceAnswered
  <2>2. ReadsInv' /\ HistoryInv'
    BY <1>0, <1>9, <2>1, PaymentOfAssumption
       DEF KnowledgeInv, ReadsInv, HistoryInv, localVars, sharedVars, historyVars
  <2> QED
    BY <1>1, <2>2
<1> QED
  BY <1>2, <1>3, <1>4

LEMMA CrashKnows ==
  ASSUME KnowledgeInv, NEW s \in Replicas, Crash(s)
  PROVE  ReadsInv' /\ HistoryInv' /\ DepthInv'
<1>1. /\ UNCHANGED <<chainVars, localVars, historyVars>>
      /\ \A r \in Requests :
           \/ pc'[r] = pc[r] /\ stateRead'[r] = stateRead[r]
           \/ pc'[r] = "lost" /\ stateRead'[r] = "none"
      /\ inFlight' = [inFlight EXCEPT ![s] = [p \in Payments |-> None]]
  BY DEF Crash
<1>2. \A o \in Replicas, q \in Payments : inFlight'[o][q] \in {None, inFlight[o][q]}
  BY <1>1 DEF KnowledgeInv, IInv, TypeOK
<1>3. ReadsInv'
  BY <1>1, <1>2 DEF KnowledgeInv, ReadsInv, localVars, BeforeRead
<1>4. HistoryInv'
  <2>1. \A t \in Requests : at[t] \in Replicas /\ PaymentOf[t] \in Payments /\ t # None
    BY PaymentOfAssumption, NoneAssumption DEF KnowledgeInv, IInv, TypeOK
  <2>2. \A p \in Payments : StateSeen(p)' = StateSeen(p)
    BY <1>1 DEF StateSeen, chainVars
  <2>3. \A t \in Requests : stateRead'[t] \in Acceptable => stateRead[t] \in Acceptable
    BY <1>1 DEF Acceptable
  <2>4. \A t \in Requests : pc'[t] = pc[t] \/ pc'[t] \notin Waiting \cup AfterRead \cup {"state"}
    BY <1>1 DEF Waiting, AfterRead
  <2> QED
    BY <1>1, <1>2, <2>1, <2>2, <2>3, <2>4 DEF KnowledgeInv, HistoryInv, localVars, historyVars
<1>5. DepthInv'
  BY <1>1 DEF KnowledgeInv, DepthInv, chainVars, localVars, historyVars, Checked, AfterRead
<1> QED
  BY <1>3, <1>4, <1>5

(* What nodes may show after a step of the chain they might have shown     *)
(* before it, unless it is the present state.                              *)
LEMMA SeenAfter ==
  ASSUME TypeOK, ChainNext, NEW p \in Payments
  PROVE  StateSeen(p)' \subseteq {state'[p]} \cup StateSeen(p)
<1>1. CASE NewBlock
  BY <1>1 DEF NewBlock, StateSeen, TypeOK
<1>2. CASE Reorg
  BY <1>2 DEF Reorg, StateSeen, TypeOK
<1>3. CASE \E q \in Payments : PaymentMoves(q)
  BY <1>3 DEF PaymentMoves, StateSeen
<1>4. CASE \E r \in Requests : MineClaim(r)
  BY <1>4 DEF MineClaim, StateSeen
<1> QED
  BY <1>1, <1>2, <1>3, <1>4 DEF ChainNext

LEMMA ChainKnows ==
  ASSUME KnowledgeInv, ChainNext, ChainMoves
  PROVE  ReadsInv' /\ HistoryInv' /\ DepthInv'
<1>0. UNCHANGED <<pc, localVars, sharedVars, deepWhenChecked>>
  BY DEF ChainMoves
<1>1. ReadsInv'
  BY <1>0 DEF KnowledgeInv, ReadsInv, localVars, sharedVars
<1>2. HistoryInv'
  <2>1. \A r \in Requests :
          acceptableSince'[r] =
            (acceptableSince[r] \/ (pc[r] \in Waiting /\ state'[PaymentOf[r]] \in Acceptable))
    BY DEF ChainMoves
  <2>2. ASSUME NEW p \in Payments, StateSeen(p)' \cap Acceptable # {}
        PROVE  state'[p] \in Acceptable \/ StateSeen(p) \cap Acceptable # {}
    BY <2>2, SeenAfter DEF KnowledgeInv, IInv
  <2> QED
    BY <1>0, <2>1, <2>2, PaymentOfAssumption DEF KnowledgeInv, HistoryInv, localVars, sharedVars
<1>3. DepthInv'
  <2>1. reorgs' \in Nat /\ (reorgs' = 0 => reorgs = 0 /\ ~Reorg)
    BY DEF KnowledgeInv, DepthInv, ChainNext, NewBlock, Reorg, PaymentMoves, MineClaim
  <2>2. ~Reorg => \A p \in Payments : creation[p] # 0 => creation'[p] = creation[p]
    BY DEF KnowledgeInv, IInv, TypeOK, ChainNext, NewBlock, PaymentMoves, MineClaim
  <2> QED
    BY <1>0, <2>1, <2>2, PaymentOfAssumption DEF KnowledgeInv, DepthInv, localVars
<1> QED
  BY <1>1, <1>2, <1>3

(* The depth of a payment is what the authenticator found it to be.        *)
LEMMA MovesDepth ==
  ASSUME KnowledgeInv, NEW r \in Requests,
         \/ Authenticate(r) \/ Recovery(r) \/ ObserverThrows(r) \/ Verify(r) \/ Consume(r)
  PROVE  DepthInv' /\ HistoryType'
<1> DEFINE mined == creation[PaymentOf[r]]
<1> USE DEF KnowledgeInv
<1>0. /\ UNCHANGED <<creation, reorgs, acceptableSince>>
      /\ \A t \in Requests \ {r} : pc'[t] = pc[t]
      /\ pc \in [Requests -> {"new"} \cup Waiting \cup Ended]
      /\ receiptBlock \in [Requests -> Nat]
      /\ height \in Nat /\ mined \in Nat
      /\ acceptableSince \in [Requests -> BOOLEAN] /\ deepWhenChecked \in [Requests -> BOOLEAN]
  BY MoveFacts, PaymentOfAssumption DEF Moves, IInv, TypeOK, HistoryType
<1>1. CASE ReadReceipt(r) \/ ReadHead(r)
  <2>0. AfterEvent(r) \in {"refused", "settlement", "recovery"}
    BY DEF AfterEvent
  <2>1. /\ \A t \in Requests \ {r} :
            receiptBlock'[t] = receiptBlock[t] /\ deepWhenChecked'[t] = deepWhenChecked[t]
        /\ HistoryType'
    <3>1. CASE ReadReceipt(r)
      <4>1. PICK seen \in CreationSeen(PaymentOf[r]) :
              /\ receiptBlock' = [receiptBlock EXCEPT ![r] = seen]
              /\ deepWhenChecked' = [deepWhenChecked EXCEPT ![r] = seen # 0]
        BY <3>1 DEF ReadReceipt
      <4> QED
        BY <1>0, <4>1 DEF HistoryType
    <3>2. CASE ReadHead(r)
      BY <1>0, <3>2 DEF ReadHead, localVars, DeepEnough, HistoryType
    <3> QED
      BY <1>1, <3>1, <3>2
  <2>2. CASE ReadReceipt(r)
    <3>0. PICK seen \in CreationSeen(PaymentOf[r]) :
            /\ receiptBlock' = [receiptBlock EXCEPT ![r] = seen]
            /\ Goto(r, IF seen = 0 THEN "early" ELSE IF NeedsHead THEN "head" ELSE AfterEvent(r))
            /\ deepWhenChecked' = [deepWhenChecked EXCEPT ![r] = seen # 0]
      BY <2>2 DEF ReadReceipt
    <3>1. receiptBlock'[r] = seen /\ deepWhenChecked'[r] = (seen # 0)
      BY <1>0, <3>0
    <3>2. /\ pc'[r] \in {"early", "head", "refused", "settlement", "recovery"}
          /\ pc'[r] # "early" => seen # 0 /\ seen = mined
      BY <1>0, <2>0, <3>0 DEF Goto, CreationSeen
    <3> QED
      BY <1>0, <2>1, <3>1, <3>2 DEF DepthInv, Checked, AfterRead
  <2>3. CASE ReadHead(r)
    <3>1. PICK latest \in {height, height - 1} :
            Goto(r, IF IsConfirmed(r, latest) THEN AfterEvent(r) ELSE "early")
      BY <2>3 DEF ReadHead, HeadSeen
    <3>2. /\ pc'[r] \in {"early", "refused", "settlement", "recovery"}
          /\ pc'[r] # "early" => IsConfirmed(r, latest)
      BY <1>0, <2>0, <3>1 DEF Goto
    <3>3. deepWhenChecked'[r] = DeepEnough(PaymentOf[r]) /\ pc[r] = "head"
      BY <1>0, <2>3 DEF ReadHead
    <3>4. reorgs = 0 /\ IsConfirmed(r, latest) => DeepEnough(PaymentOf[r])
      <4>1. reorgs = 0 => receiptBlock[r] = mined /\ mined # 0
        BY <3>3 DEF DepthInv
      <4>2. latest + 1 >= mined + Confirmations => height + 1 >= mined + Confirmations
        BY <1>0, <3>1, ConfirmationsAssumption
      <4> QED
        BY <4>1, <4>2 DEF IsConfirmed, DeepEnough
    <3> QED
      BY <1>0, <2>1, <3>2, <3>3, <3>4 DEF DepthInv, Checked, AfterRead
  <2> QED
    BY <1>1, <2>2, <2>3
<1>2. CASE ~ReadReceipt(r) /\ ~ReadHead(r)
  <2>1. receiptBlock' = receiptBlock /\ deepWhenChecked' = deepWhenChecked
    BY <1>2 DEF Authenticate, HitReference, ReadReference, ResolveReference, VerifyChain,
     VerifySettlement, ReadFails, Recovery,
       ObserverThrows, Verify, Consume, Prepare, Estimate, Send, NonceConflict, Receipt,
       ActionFails, StepOnly, localVars, historyVars
  <2>2. pc'[r] # "head" /\ (pc'[r] \in Checked => pc[r] \in Checked)
    <3> USE <1>0, <1>2 DEF StepOnly, Goto, Checked, AfterRead
    <3>1. CASE Authenticate(r)
      BY <3>1 DEF Authenticate, HitReference, ReadReference, ResolveReference, VerifyChain,
     VerifySettlement, ReadFails
    <3>2. CASE Recovery(r) \/ ObserverThrows(r)
      BY <3>2 DEF Recovery, ObserverThrows
    <3>3. CASE Verify(r)
      BY <3>3 DEF Verify
    <3>4. CASE Prepare(r) \/ Estimate(r) \/ Send(r)
      BY <3>4 DEF Prepare, Estimate, Send, OnAlreadyConsumed
    <3>5. CASE NonceConflict(r) \/ Receipt(r) \/ ActionFails(r)
      BY <3>5 DEF NonceConflict, Receipt, AfterReceipt, ActionFails, OnActionFailure
    <3> QED
      BY <3>1, <3>2, <3>3, <3>4, <3>5 DEF Consume
  <2> QED
    BY <1>0, <2>1, <2>2 DEF DepthInv, HistoryType
<1> QED
  BY <1>1, <1>2

LEMMA KnowledgeInit == Init => KnowledgeInv
<1> SUFFICES ASSUME Init
             PROVE  KnowledgeInv
  OBVIOUS
<1>1. ReadsInv
  BY DEF Init, ReadsInv, BeforeRead
<1>2. HistoryInv /\ HistoryType
  BY DEF Init, HistoryInv, HistoryType, Waiting, AfterRead, Acceptable
<1>3. DepthInv
  BY DEF Init, ChainInit, DepthInv, Checked, AfterRead
<1> QED
  BY <1>1, <1>2, <1>3, InvInit DEF KnowledgeInv

LEMMA KnowledgeStep == KnowledgeInv /\ [Next]_vars => KnowledgeInv'
<1> SUFFICES ASSUME KnowledgeInv, [Next]_vars
             PROVE  HistoryType' /\ ReadsInv' /\ HistoryInv' /\ DepthInv'
  BY InvStep DEF KnowledgeInv
<1>0. TypeOK /\ HistoryType
  BY DEF KnowledgeInv, IInv
<1>1. ASSUME NEW r \in Requests, Arrive(r)
      PROVE  HistoryType' /\ ReadsInv' /\ HistoryInv' /\ DepthInv'
  <2>1. AcceptableNow(r) \in BOOLEAN
    BY DEF AcceptableNow
  <2>2. HistoryType'
    BY <1>0, <1>1, <2>1 DEF Arrive, HistoryType
  <2> QED
    BY <1>1, <2>2, ArriveKnows
<1>2. ASSUME NEW r \in Requests, Serve(r)
      PROVE  HistoryType' /\ ReadsInv' /\ HistoryInv' /\ DepthInv'
  <2>1. CASE \/ Authenticate(r) \/ Recovery(r) \/ ObserverThrows(r) \/ Verify(r) \/ Consume(r)
    BY <1>0, <2>1, MoveFacts, MovesKnows, MovesDepth
  <2>2. CASE Observe(r)
    <3>1. HistoryType'
      BY <1>0, <2>2 DEF Observe, HistoryType, historyVars
    <3> QED
      BY <2>2, <3>1, ObserveKnows
  <2>3. CASE ReferenceAnswered(r) \/ EvaluateState(r) \/ StateAnswered(r)
    <3>1. HistoryType'
      BY <1>0, <2>3 DEF ReferenceAnswered, EvaluateState, StateAnswered, HistoryType, historyVars
    <3> QED
      BY <2>3, <3>1, ReadKnows
  <2> QED
    BY <1>2, <2>1, <2>2, <2>3 DEF Serve, ObservePayment
<1>3. ASSUME NEW s \in Replicas, Crash(s)
      PROVE  HistoryType' /\ ReadsInv' /\ HistoryInv' /\ DepthInv'
  <2>1. HistoryType'
    BY <1>0, <1>3 DEF Crash, HistoryType, historyVars
  <2> QED
    BY <1>3, <2>1, CrashKnows
<1>4. CASE ChainNext /\ ChainMoves
  <2>1. HistoryType'
    BY <1>0, <1>4 DEF ChainMoves, HistoryType
  <2> QED
    BY <1>4, <2>1, ChainKnows
<1>5. CASE UNCHANGED vars
  BY <1>5 DEF KnowledgeInv, vars, chainVars, localVars, sharedVars, historyVars, HistoryType,
     ReadsInv, HistoryInv, DepthInv, StateSeen
<1> QED
  BY <1>1, <1>2, <1>3, <1>4, <1>5 DEF Next

(* However reads are shared and nodes lag, requests are authorized only on *)
(* a recent observation (payment-verifier.ts, readPaymentStateOnce).       *)
THEOREM ObservesRecentState == Spec => []ObservationIsRecent
<1>1. KnowledgeInv => ObservationIsRecent
  BY DEF KnowledgeInv, HistoryInv, ObservationIsRecent, AfterRead
<1> QED
  BY KnowledgeInit, KnowledgeStep, <1>1, PTL DEF Spec

(* Without reorganisations an authorized payment had its confirmations     *)
(* when the head was read, however far the nodes that answer lag.          *)
THEOREM AuthorizesConfirmed == Spec => []ConfirmedOnStableChain
<1>1. KnowledgeInv => ConfirmedOnStableChain
  BY DEF KnowledgeInv, DepthInv, ConfirmedOnStableChain, Checked, AfterRead
<1> QED
  BY KnowledgeInit, KnowledgeStep, <1>1, PTL DEF Spec

-----------------------------------------------------------------------------
(* Why a good proof may be refused: with JustifiedInv beside KnowledgeInv. *)
LEMMA RivalsFacts ==
  ASSUME NEW r \in Requests, NEW t \in Rivals(r)
  PROVE  t \in Requests /\ t # r /\ PaymentOf[t] = PaymentOf[r]
  BY DEF Rivals

(* What an answer 422 to a good proof says, and what may justify it.       *)
Refusal(r) == pc[r] = "refused" /\ proof[r] = "good"
Claimed(r) == \E t \in Rivals(r) : claim[t] \in {"pool", "success"}
Misled(r) == lookup[r] # None /\ proof[lookup[r]] = "altered-reference"

(* What keeps refusals justified: states that are not acceptable stay so,  *)
(* claims stay, what a request was told stays, and who is newly refused    *)
(* has a cause.                                                            *)
LEMMA StaysJustified ==
  ASSUME JustifiedInv, PaymentOf \in [Requests -> Payments],
         \A p \in Payments : state[p] \notin Acceptable => state'[p] \notin Acceptable,
         \A p \in Payments : stateBefore'[p] \in {stateBefore[p], state[p]},
         consumedBy' = consumedBy,
         \A r \in Requests : claim[r] \in {"pool", "success"} => claim'[r] \in {"pool", "success"},
         \A r \in Requests : \/ stateRead'[r] = stateRead[r]
                             \/ stateRead'[r] \notin PaymentStates
                             \/ /\ stateRead'[r] \in {state[PaymentOf[r]], stateBefore[PaymentOf[r]]}
                                /\ state' = state,
         \A r \in Requests : Refusal(r)' =>
           \/ Refusal(r) /\ (Misled(r) => Misled(r)')
           \/ state[PaymentOf[r]] \notin Acceptable \/ Claimed(r) \/ Misled(r)'
  PROVE  JustifiedInv'
<1>1. \A p \in Payments : consumedBy'[p] # None => PaymentOf[consumedBy'[p]] = p
  BY DEF JustifiedInv
<1>2. \A r \in Requests :
        stateRead'[r] \in PaymentStates \ Acceptable => state'[PaymentOf[r]] \notin Acceptable
  BY DEF JustifiedInv
<1>3. \A r \in Requests : Claimed(r) => Claimed(r)'
  BY DEF Claimed, Rivals
<1>4. \A r \in Requests : Refusal(r) =>
        state[PaymentOf[r]] \notin Acceptable \/ Claimed(r) \/ Misled(r)
  BY DEF JustifiedInv, RefusalIsJustified, Refusal, Claimed, Misled
<1>5. \A r \in Requests : Refusal(r)' =>
        state'[PaymentOf[r]] \notin Acceptable \/ Claimed(r)' \/ Misled(r)'
  BY <1>3, <1>4
<1>6. RefusalIsJustified'
  BY <1>5 DEF RefusalIsJustified, Refusal, Claimed, Misled
<1>7. \A p \in Payments : stateBefore'[p] \notin Acceptable => state'[p] \notin Acceptable
  BY DEF JustifiedInv
<1> QED
  BY <1>1, <1>2, <1>6, <1>7 DEF JustifiedInv

(* A claim the node simulated as already consumed is a rival's.            *)
LEMMA SeenClaimIsRivals ==
  ASSUME KnowledgeInv, JustifiedInv, NEW r \in Requests, claim[r] = "none", MaySeeConsumed(r)
  PROVE  Claimed(r)
<1> DEFINE u == consumedBy[PaymentOf[r]]
<1>1. CASE SeesConsumed(r)
  <2>1. u \in Requests /\ PaymentOf[u] = PaymentOf[r]
    BY <1>1, PaymentOfAssumption DEF SeesConsumed, KnowledgeInv, IInv, TypeOK, JustifiedInv
  <2>2. claim[u] = "success"
    BY <2>1 DEF KnowledgeInv, IInv, ClaimsFollowContract
  <2>3. u \in Rivals(r)
    BY <2>1, <2>2 DEF Rivals
  <2> QED
    BY <2>2, <2>3 DEF Claimed
<1>2. CASE \E t \in Rivals(r) : claim[t] = "pool"
  BY <1>2 DEF Claimed
<1> QED
  BY <1>1, <1>2 DEF MaySeeConsumed

LEMMA MovesJustified ==
  ASSUME KnowledgeInv, ReferenceInv, JustifiedInv, NEW r \in Requests,
         \/ Authenticate(r) \/ Recovery(r) \/ ObserverThrows(r) \/ Verify(r) \/ Consume(r)
  PROVE  JustifiedInv'
<1>0. TypeOK
  BY DEF KnowledgeInv, IInv
<1>1. Moves(r)
  BY <1>0, MoveFacts
<1>2. /\ UNCHANGED <<state, stateBefore, consumedBy, stateRead, proof>>
      /\ \A t \in Requests \ {r} : pc'[t] = pc[t]
      /\ pc[r] \in Waiting
  BY <1>1 DEF Moves
<1>3. /\ claim' = claim \/ claim' = [claim EXCEPT ![r] = "pool"]
      /\ \A t \in Requests \ {r} : lookup'[t] = lookup[t]
      /\ ~ReadReference(r) => lookup' = lookup
  BY <1>0 DEF Authenticate, HitReference, ReadReference, ResolveReference, VerifyChain, ReadReceipt,
     ReadHead, VerifySettlement, ReadFails, Recovery, ObserverThrows, Verify, Consume, Prepare,
     Estimate, Send, NonceConflict, Receipt, ActionFails, StepOnly, chainVars, referenceVars, TypeOK
<1>4. \A t \in Requests : claim[t] \in {"pool", "success"} => claim'[t] \in {"pool", "success"}
  BY <1>0, <1>3 DEF TypeOK
<1>5. Refusal(r)' => state[PaymentOf[r]] \notin Acceptable \/ Claimed(r) \/ Misled(r)'
  <2> USE <1>0, <1>2 DEF Refusal
  <2> SUFFICES ASSUME pc'[r] = "refused", proof[r] = "good"
               PROVE  state[PaymentOf[r]] \notin Acceptable \/ Claimed(r) \/ Misled(r)'
    OBVIOUS
  <2>1. CASE Authenticate(r)
    <3>1. AfterEvent(r) # "refused"
      BY DEF AfterEvent
    <3>2. CASE ResolveReference(r)
      <4>1. pc[r] = "resolving" /\ refRead[lookup[r]] = "mismatch" /\ lookup' = lookup
        BY <3>2 DEF ResolveReference, Verdicts, StepOnly, Goto, TypeOK, referenceVars
      <4>2. lookup[r] \in Requests
        BY <4>1 DEF ReferenceInv, TypeOK
      <4> QED
        BY <4>1, <4>2, NoneAssumption DEF ReferenceInv, Misled
    <3> QED
      BY <2>1, <3>1, <3>2 DEF Authenticate, HitReference, MatchesBlock, ReadReference, VerifyChain,
         ReadReceipt, CreationSeen, ReadHead, VerifySettlement, ReadFails, StepOnly, Goto, TypeOK
  <2>2. CASE Recovery(r) \/ ObserverThrows(r)
    BY <2>2 DEF Recovery, ObserverThrows, StepOnly, Goto, TypeOK
  <2>3. CASE Verify(r)
    <3>1. /\ pc[r] = "state" /\ stateRead[awaits[r]] \in ReadDone
          /\ stateRead[awaits[r]] # "failed" /\ ~Accepts(stateRead[awaits[r]])
      BY <2>3 DEF Verify, StepOnly, Goto, TypeOK
    <3>2. awaits[r] \in Requests /\ PaymentOf[awaits[r]] = PaymentOf[r]
      BY <3>1 DEF KnowledgeInv, ReadsInv, TypeOK
    <3> QED
      BY <3>1, <3>2 DEF JustifiedInv, ReadDone, Accepts
  <2>4. CASE Prepare(r) \/ Send(r) \/ NonceConflict(r) \/ Receipt(r) \/ ActionFails(r)
    BY <2>4 DEF Prepare, Send, NonceConflict, Receipt, AfterReceipt, ActionFails, OnActionFailure,
       StepOnly, Goto, TypeOK
  <2>5. CASE Estimate(r)
    <3>1. pc[r] = "queue" /\ MaySeeConsumed(r)
      BY <2>5 DEF Estimate, Goto, TypeOK
    <3>2. claim[r] = "none"
      BY <3>1 DEF KnowledgeInv, IInv, ClaimsFollowRequests, MayHaveClaim
    <3> QED
      BY <3>1, <3>2, SeenClaimIsRivals
  <2> QED
    BY <2>1, <2>2, <2>3, <2>4, <2>5 DEF Consume
<1>6. \A t \in Requests : Refusal(t)' =>
        \/ Refusal(t) /\ (Misled(t) => Misled(t)')
        \/ state[PaymentOf[t]] \notin Acceptable \/ Claimed(t) \/ Misled(t)'
  BY <1>2, <1>3, <1>5 DEF Refusal, Misled
<1> QED
  BY <1>2, <1>4, <1>6, StaysJustified, PaymentOfAssumption

LEMMA ReadsJustified ==
  ASSUME KnowledgeInv, JustifiedInv, NEW r \in Requests,
         Observe(r) \/ ReferenceAnswered(r) \/ EvaluateState(r) \/ StateAnswered(r)
  PROVE  JustifiedInv'
<1>0. TypeOK
  BY DEF KnowledgeInv, IInv
<1>1. UNCHANGED <<state, stateBefore, consumedBy, claim, proof, lookup>>
  BY DEF Observe, ReferenceAnswered, EvaluateState, StateAnswered, chainVars, referenceVars, localVars
<1>2. \A t \in Requests : pc'[t] = pc[t] \/ pc'[t] = "state"
  BY <1>0 DEF Observe, ReferenceAnswered, EvaluateState, StateAnswered, Goto, TypeOK
<1>3. \A t \in Requests : \/ stateRead'[t] = stateRead[t]
                          \/ stateRead'[t] \notin PaymentStates
                          \/ stateRead'[t] \in {state[PaymentOf[t]], stateBefore[PaymentOf[t]]}
  BY <1>0 DEF Observe, ReferenceAnswered, EvaluateState, StateSeen, StateAnswered, TypeOK,
     PaymentStates, sharedVars
<1> QED
  BY <1>1, <1>2, <1>3, StaysJustified, PaymentOfAssumption DEF Refusal, Misled

LEMMA ArriveJustified ==
  ASSUME KnowledgeInv, ReferenceInv, JustifiedInv, NEW r \in Requests, Arrive(r)
  PROVE  JustifiedInv'
<1>1. /\ UNCHANGED <<state, stateBefore, consumedBy, claim, stateRead, lookup>>
      /\ pc'[r] = "refused" => proof'[r] # "good"
      /\ pc[r] = "new"
      /\ \A t \in Requests \ {r} : pc'[t] = pc[t] /\ proof'[t] = proof[t]
  BY ArriveFacts DEF KnowledgeInv, IInv, chainVars, referenceVars, sharedVars
<1>2. \A t \in Requests : Misled(t) => Misled(t)'
  BY <1>1 DEF Misled, ReferenceInv, KnowledgeInv, IInv, TypeOK
<1> QED
  BY <1>1, <1>2, StaysJustified, PaymentOfAssumption DEF Refusal

LEMMA CrashJustified ==
  ASSUME KnowledgeInv, JustifiedInv, NEW s \in Replicas, Crash(s)
  PROVE  JustifiedInv'
<1>1. /\ UNCHANGED <<state, stateBefore, consumedBy, claim, proof, lookup>>
      /\ \A t \in Requests : pc'[t] = pc[t] \/ pc'[t] = "lost"
      /\ \A t \in Requests : stateRead'[t] = stateRead[t] \/ stateRead'[t] = "none"
  BY DEF Crash, chainVars, localVars
<1> QED
  BY <1>1, StaysJustified, PaymentOfAssumption DEF Refusal, Misled, PaymentStates

(* A claim that is reverted lost to another's, which stands.               *)
LEMMA ChainJustified ==
  ASSUME KnowledgeInv, JustifiedInv, ChainNext, ~Reorg, ChainMoves
  PROVE  JustifiedInv'
<1>0. UNCHANGED <<pc, proof, stateRead, lookup>> /\ TypeOK
  BY DEF ChainMoves, referenceVars, localVars, sharedVars, KnowledgeInv, IInv
<1>1. CASE NewBlock
  BY <1>0, <1>1, StaysJustified, PaymentOfAssumption DEF NewBlock, Refusal, Misled
<1>2. ASSUME NEW p \in Payments, PaymentMoves(p)
      PROVE  JustifiedInv'
  <2>1. /\ UNCHANGED <<stateBefore, claim, consumedBy>>
        /\ \E s \in PaymentStates : <<state[p], s>> \in Transitions /\ state' = [state EXCEPT ![p] = s]
    BY <1>2 DEF PaymentMoves
  <2>2. \A q \in Payments : state[q] \notin Acceptable => state'[q] \notin Acceptable
    BY <1>0, <2>1 DEF Transitions, Acceptable, TypeOK
  <2> QED
    BY <1>0, <2>1, <2>2, StaysJustified, PaymentOfAssumption DEF Refusal, Misled
<1>3. ASSUME NEW r \in Requests, MineClaim(r)
      PROVE  JustifiedInv'
  <2> DEFINE p == PaymentOf[r]
             u == consumedBy[p]
  <2>1. p \in Payments /\ claim[r] = "pool" /\ state' = state /\ stateBefore' = stateBefore
    BY <1>3, PaymentOfAssumption DEF MineClaim
  <2>2. CASE u = None
    <3>1. /\ \A q \in Payments \ {p} : consumedBy'[q] = consumedBy[q]
          /\ consumedBy'[p] = r
          /\ claim'[r] = "success" /\ \A t \in Requests \ {r} : claim'[t] = claim[t]
      BY <1>0, <1>3, <2>1, <2>2 DEF MineClaim, TypeOK
    <3>2. \A t \in Requests : Claimed(t) => Claimed(t)'
      BY <3>1 DEF Claimed, Rivals
    <3> QED
      BY <1>0, <2>1, <3>1, <3>2 DEF JustifiedInv, RefusalIsJustified, Claimed
  <2>3. CASE u # None
    <3>1. /\ consumedBy' = consumedBy
          /\ claim'[r] = "reverted" /\ \A t \in Requests \ {r} : claim'[t] = claim[t]
      BY <1>0, <1>3, <2>3 DEF MineClaim, TypeOK
    <3>2. u \in Requests /\ PaymentOf[u] = p /\ claim[u] = "success" /\ u # r
      <4>1. u \in Requests
        BY <1>0, <2>1, <2>3 DEF TypeOK
      <4>2. PaymentOf[u] = p
        BY <2>1, <2>3 DEF JustifiedInv
      <4>3. claim[u] = "success"
        BY <4>1, <4>2 DEF KnowledgeInv, IInv, ClaimsFollowContract
      <4> QED
        BY <2>1, <4>1, <4>2, <4>3
    <3>3. ASSUME NEW t \in Requests, claim[t] = "none", Claimed(t)
          PROVE  Claimed(t)'
      <4>1. PICK v \in Rivals(t) : claim[v] \in {"pool", "success"}
        BY <3>3 DEF Claimed
      <4>2. CASE v = r
        <5>1. u \in Rivals(t) /\ claim'[u] = "success"
          BY <3>1, <3>2, <3>3, <4>2, RivalsFacts DEF Rivals
        <5> QED
          BY <5>1 DEF Claimed, Rivals
      <4>3. CASE v # r
        <5>1. claim'[v] = claim[v]
          BY <3>1, <4>3 DEF Rivals
        <5> QED
          BY <4>1, <5>1 DEF Claimed, Rivals
      <4> QED
        BY <4>2, <4>3
    <3>4. \A t \in Requests : pc[t] = "refused" => claim[t] = "none"
      BY DEF KnowledgeInv, IInv, ClaimsFollowRequests, MayHaveClaim
    <3> QED
      BY <1>0, <2>1, <3>1, <3>3, <3>4 DEF JustifiedInv, RefusalIsJustified, Claimed
  <2> QED
    BY <2>2, <2>3
<1> QED
  BY <1>1, <1>2, <1>3 DEF ChainNext

(* With MaxReorgs = 0 no step reorganises the chain.                       *)
LEMMA NoReorg ==
  ASSUME KnowledgeInv, MaxReorgs = 0
  PROVE  ~Reorg
  BY DEF KnowledgeInv, DepthInv, Reorg

LEMMA JustifiedStep ==
  ASSUME MaxReorgs = 0, KnowledgeInv, ReferenceInv, JustifiedInv, [Next]_vars
  PROVE  JustifiedInv'
<1>1. CASE UNCHANGED vars
  BY <1>1 DEF vars, chainVars, referenceVars, localVars, sharedVars, JustifiedInv, RefusalIsJustified
<1>2. ASSUME NEW r \in Requests, Serve(r)
      PROVE  JustifiedInv'
  BY <1>2, MovesJustified, ReadsJustified DEF Serve, ObservePayment
<1> QED
  BY <1>1, <1>2, ArriveJustified, CrashJustified, ChainJustified, NoReorg DEF Next

LEMMA JustifiedInit == Init => JustifiedInv
  BY DEF Init, ChainInit, JustifiedInv, RefusalIsJustified, PaymentStates

LEMMA ReferenceInit == Init => ReferenceInv
  BY DEF Init, ReferenceInv

LEMMA ReferenceStep ==
  ASSUME TypeOK, ReferenceInv, [Next]_vars
  PROVE  ReferenceInv'
<1>1. CASE UNCHANGED <<lookup, refRead, proof>> /\ \A t \in Requests :
             /\ pc'[t] \in {"new", "reference"} => pc[t] = pc'[t]
             /\ pc'[t] = "resolving" => pc[t] = "resolving"
  BY <1>1 DEF ReferenceInv, TypeOK
<1>2. ASSUME NEW r \in Requests, Arrive(r)
      PROVE  ReferenceInv'
  <2>1. /\ UNCHANGED <<lookup, refRead>>
        /\ pc[r] = "new" /\ pc'[r] \in {"challenged", "unavailable", "refused", "reference", "chain"}
        /\ \A t \in Requests \ {r} : pc'[t] = pc[t] /\ proof'[t] = proof[t]
    BY <1>2, ArriveFacts DEF referenceVars
  <2> QED
    BY <2>1 DEF ReferenceInv, TypeOK
<1>3. ASSUME NEW r \in Requests, ReadReference(r)
      PROVE  ReferenceInv'
  <2>1. /\ pc[r] = "reference" /\ pc'[r] = "resolving" /\ refRead[r] = "none" /\ proof' = proof
        /\ \A t \in Requests \ {r} : pc'[t] = pc[t] /\ lookup'[t] = lookup[t]
    BY <1>3 DEF ReadReference, Goto, ReferenceInv, TypeOK, localVars
  <2>2. PICK t \in Requests : /\ lookup'[r] = t
                             /\ (refRead[t] = "asked" \/ t = r)
    BY <1>3 DEF ReadReference, ReadersOfReference, TypeOK
  <2>3. \A u \in Requests : refRead'[u] = refRead[u] \/ (u = r /\ refRead'[u] = "asked")
    BY <1>3 DEF ReadReference, TypeOK
  <2>4. pc'[t] # "new"
    BY <2>1, <2>2 DEF ReferenceInv
  <2> QED
    BY <2>1, <2>2, <2>3, <2>4, NoneAssumption DEF ReferenceInv, TypeOK
<1>4. ASSUME NEW r \in Requests, ReferenceAnswered(r)
      PROVE  ReferenceInv'
  <2>1. /\ UNCHANGED <<pc, lookup, proof>>
        /\ refRead[r] = "asked"
        /\ \A t \in Requests \ {r} : refRead'[t] = refRead[t]
        /\ refRead'[r] = "mismatch" => ~MatchesBlock(r)
    BY <1>4 DEF ReferenceAnswered, localVars, TypeOK
  <2> QED
    BY <2>1 DEF ReferenceInv, MatchesBlock
<1>5. ASSUME NEW r \in Requests, ~ReadReference(r),
             Authenticate(r) \/ Recovery(r) \/ ObserverThrows(r) \/ Verify(r) \/ Consume(r)
      PROVE  ReferenceInv'
  <2>1. /\ proof' = proof
        /\ \A t \in Requests \ {r} : pc'[t] = pc[t]
        /\ pc'[r] \in BeforeRead => pc[r] \in BeforeRead
    BY <1>5, MoveFacts DEF Moves
  <2>2. UNCHANGED <<lookup, refRead>>
    BY <1>5 DEF Authenticate, HitReference, ResolveReference, VerifyChain, ReadReceipt, ReadHead,
       VerifySettlement, ReadFails, Recovery, ObserverThrows, Verify, Consume, Prepare, Estimate,
       Send, NonceConflict, Receipt, ActionFails, StepOnly, referenceVars
  <2>3. pc'[r] \notin {"new", "reference", "resolving"}
    <3> USE <1>5 DEF StepOnly, Goto, TypeOK
    <3>1. CASE Authenticate(r)
      <4>1. AfterEvent(r) \notin {"new", "reference", "resolving"}
        BY DEF AfterEvent
      <4> QED
        BY <3>1, <4>1 DEF Authenticate, HitReference, ResolveReference, VerifyChain, ReadReceipt,
           ReadHead, VerifySettlement, ReadFails
    <3>2. CASE Recovery(r) \/ ObserverThrows(r) \/ Verify(r)
      BY <3>2 DEF Recovery, ObserverThrows, Verify
    <3>3. CASE Consume(r)
      BY <3>3 DEF Consume, Prepare, Estimate, OnAlreadyConsumed, Send, NonceConflict, Receipt,
         AfterReceipt, ActionFails, OnActionFailure
    <3> QED
      BY <1>5, <3>1, <3>2, <3>3
  <2> QED
    BY <1>1, <2>1, <2>2, <2>3
<1>6. ASSUME NEW r \in Requests, Observe(r) \/ EvaluateState(r) \/ StateAnswered(r)
      PROVE  ReferenceInv'
  BY <1>1, <1>6 DEF Observe, EvaluateState, StateAnswered, Goto, TypeOK, referenceVars, localVars
<1>7. ASSUME NEW s \in Replicas, Crash(s)
      PROVE  ReferenceInv'
  <2>1. /\ UNCHANGED <<lookup, proof>>
        /\ \A t \in Requests : refRead'[t] = refRead[t] \/ refRead'[t] = "none"
        /\ \A t \in Requests : pc'[t] = pc[t] \/ pc'[t] = "lost"
    BY <1>7 DEF Crash, localVars
  <2> QED
    BY <2>1 DEF ReferenceInv, TypeOK
<1>8. CASE (ChainNext /\ ChainMoves) \/ UNCHANGED vars
  BY <1>1, <1>8 DEF ChainMoves, vars, referenceVars, localVars
<1> QED
  BY <1>2, <1>3, <1>4, <1>5, <1>6, <1>7, <1>8 DEF Next, Serve, ObservePayment

(* With finality a good proof is refused for good only if the payment has  *)
(* left the acceptable states, another request claims it, or the read of   *)
(* the reference block was shared with an altered proof: no lag, no        *)
(* failure and no race costs the client its payment                        *)
(* (payment-authorizer.ts, payment-consumer.ts, cache.ts).                 *)
THEOREM RefusesForCause ==
  ASSUME MaxReorgs = 0
  PROVE  Spec => []RefusalIsJustified
<1> DEFINE I == KnowledgeInv /\ ReferenceInv /\ JustifiedInv
<1>1. Init => I
  BY KnowledgeInit, ReferenceInit, JustifiedInit
<1>2. I /\ [Next]_vars => I'
  BY KnowledgeStep, ReferenceStep, JustifiedStep DEF KnowledgeInv, IInv
<1>3. I => RefusalIsJustified
  BY DEF JustifiedInv
<1> QED
  BY <1>1, <1>2, <1>3, PTL DEF Spec
=============================================================================
