------------------------ MODULE PaymentExchange_proofs ------------------------
(***************************************************************************)
(* Proofs about PaymentExchange: work that was done is delivered, the      *)
(* client contests no work unseen, and it loses a payment only for a       *)
(* cause, for any number of requests, replicas, failures and crashes, any  *)
(* configured confirmations and a chain of any height.                     *)
(***************************************************************************)
EXTENDS PaymentExchange, PaymentAuthorizer_proofs

ExchangeType ==
  /\ client \in {"paying", "waiting", "holding", "contesting"} \cup Finished
  /\ onRejected \in {"keep-open", "dispute", "request-refund", "return"}
  /\ {asking, judged} \subseteq Requests \cup {None}
  /\ wire \subseteq Requests
  /\ {expired, contested, stored} \subseteq BOOLEAN
  /\ handler \in [Requests -> {"idle", "done", "failed", "lost"}]
  /\ faults \in Nat

(* Without a settlement window no reference is looked up.                  *)
NoReference ==
  \A r \in Requests :
    lookup[r] = None /\ refRead[r] = "none" /\ pc[r] \notin {"reference", "resolving"}

(* Where the client's requests are, and what their handlers did.           *)
RoutesInv ==
  /\ NoReference
  /\ asking # None <=> client = "waiting"
  /\ client # "paying" => creation[Paid] # 0
  /\ \A r \in Requests :
       /\ proof[r] = "good"
       /\ r \in wire => pc[r] = "new"
       /\ handler[r] # "idle" => pc[r] = "authorized"
  /\ stored => \E r \in Requests : Handled(r)

(* A request that arrived after the work was done is on its way to it.     *)
LateInv == \A r \in lateArrival : r \in Requests /\ stored
DeliveredInv == LateInv /\ StoredWorkIsDelivered

(* A request that can no longer be served.                                 *)
Over(r) == r \notin wire /\ pc[r] \in {"new"} \cup (Ended \ {"authorized"})
Idle(r) == r \notin wire /\ pc[r] = "new"

(* fetch sends one request and contests on its answer, if it does.         *)
ContestInv ==
  /\ client = "contesting" => onRejected \in {"dispute", "request-refund"}
  /\ onRejected # "return" =>
       /\ client = "paying" => ~contested /\ \A r \in Requests : Idle(r)
       /\ client = "waiting" => ~contested /\ \A r \in Requests \ {asking} : Idle(r)
       /\ client = "contesting" \/ contested =>
            /\ judged \in Requests \ wire /\ HasAnswer(judged)
            /\ \A r \in Requests \ {judged} : Idle(r)

(* Without failures only the request that is asked, and one whose answer   *)
(* came, can hold a claim, and work that is stored is on its way to it.    *)
FaultlessInv ==
  faults = 0 /\ client # "served" => \A r \in Requests :
    /\ pc[r] \notin {"threw", "lost"} /\ handler[r] # "lost"
    /\ claim[r] # "reverted"
    /\ Handled(r) => stored
    /\ r # asking => Handled(r) \/ (Over(r) /\ claim[r] = "none")
    /\ r = asking /\ stored => Handled(r) \/ r \in wire \cup lateArrival

Bookkeeping ==
  /\ ExchangeType /\ RoutesInv
  /\ DeliveredInv /\ ContestInv /\ FaultlessInv
  /\ UnservedOnlyForCause

ExchangeInv == KnowledgeInv /\ JustifiedInv /\ Bookkeeping

-----------------------------------------------------------------------------
LEMMA OneFinalPayment ==
  /\ Payments = {Paid} /\ \A r \in Requests : PaymentOf[r] = Paid
  /\ MaxReorgs = 0 /\ ~WindowMode
  BY ExchangeAssumption, PaymentOfAssumption, FinalityAssumption

LEMMA InitHolds == ExchangeInit => ExchangeInv
<1> SUFFICES ASSUME ExchangeInit
             PROVE  ExchangeInv
  OBVIOUS
<1>1. KnowledgeInv /\ JustifiedInv
  BY KnowledgeInit, JustifiedInit DEF ExchangeInit
<1>2. /\ client = "paying" /\ asking = None /\ wire = {} /\ lateArrival = {} /\ faults = 0
      /\ ~expired /\ ~contested /\ ~stored
      /\ \A r \in Requests :
           /\ pc[r] = "new" /\ proof[r] = "good" /\ claim[r] = "none" /\ handler[r] = "idle"
           /\ lookup[r] = None /\ refRead[r] = "none"
  BY DEF ExchangeInit, Init, ChainInit
<1>3. ExchangeType
  BY DEF ExchangeInit, ExchangeType
<1>4. RoutesInv /\ DeliveredInv
  BY <1>2 DEF RoutesInv, NoReference, DeliveredInv, LateInv, StoredWorkIsDelivered
<1>5. ContestInv /\ FaultlessInv /\ UnservedOnlyForCause
  BY <1>2 DEF ContestInv, FaultlessInv, Handled, Idle, Over, UnservedOnlyForCause
<1> QED
  BY <1>1, <1>3, <1>4, <1>5 DEF ExchangeInv, Bookkeeping

-----------------------------------------------------------------------------
(* What the steps of the exchange do to the requests of the authorizer.    *)
LEMMA SendProofFacts ==
  ASSUME KnowledgeInv, NEW r \in Requests, SendProof(r)
  PROVE  /\ pc[r] \in {"new"} \cup (Ended \ {"authorized"})
         /\ claim[r] \in {"none", "reverted"}
         /\ pc'[r] = "new" /\ claim'[r] = "none" /\ stateRead'[r] = "none" /\ awaits'[r] = None
         /\ \A t \in Requests \ {r} :
              /\ pc'[t] = pc[t] /\ claim'[t] = claim[t] /\ stateRead'[t] = stateRead[t]
              /\ awaits'[t] = awaits[t] /\ receiptBlock'[t] = receiptBlock[t]
              /\ deepWhenChecked'[t] = deepWhenChecked[t]
              /\ acceptableSince'[t] = acceptableSince[t]
         /\ UNCHANGED <<height, creation, state, stateBefore, consumedBy, reorgs, referenceVars, proof,
                        at, inFlight, queue>>
<1>1. pc[r] = "new" => claim[r] = "none"
  BY DEF KnowledgeInv, IInv, ClaimsFollowRequests, MayHaveClaim
<1> QED
  BY <1>1 DEF SendProof, Unused, Spent, Goto, KnowledgeInv, IInv, TypeOK, HistoryType

(* The invariant of the authorizer about references says nothing here.     *)
LEMMA NoReferenceRead ==
  ASSUME NoReference
  PROVE  ReferenceInv
  BY DEF NoReference, ReferenceInv

LEMMA SendProofKnows ==
  ASSUME KnowledgeInv, JustifiedInv, NEW r \in Requests, SendProof(r)
  PROVE  KnowledgeInv' /\ JustifiedInv'
<1>0. /\ pc[r] \in {"new"} \cup (Ended \ {"authorized"})
      /\ claim[r] \in {"none", "reverted"}
      /\ pc'[r] = "new" /\ claim'[r] = "none" /\ stateRead'[r] = "none" /\ awaits'[r] = None
      /\ \A t \in Requests \ {r} :
           /\ pc'[t] = pc[t] /\ claim'[t] = claim[t] /\ stateRead'[t] = stateRead[t]
           /\ awaits'[t] = awaits[t] /\ receiptBlock'[t] = receiptBlock[t]
           /\ deepWhenChecked'[t] = deepWhenChecked[t]
           /\ acceptableSince'[t] = acceptableSince[t]
      /\ UNCHANGED <<height, creation, state, stateBefore, consumedBy, reorgs, referenceVars, proof,
                        at, inFlight, queue>>
  BY SendProofFacts
<1>1. TypeOK' /\ HistoryType'
  BY <1>0 DEF SendProof, Goto, KnowledgeInv, IInv, TypeOK, HistoryType, StateReads, referenceVars
<1>2. SendsAtHead'
  BY <1>0 DEF KnowledgeInv, IInv, SendsAtHead, AtHead
<1>3. ClaimsFollowRequests' /\ ClaimsFollowContract'
  BY <1>0 DEF KnowledgeInv, IInv, ClaimsFollowRequests, ClaimsFollowContract
<1>4. ReadsInv'
  BY <1>0 DEF KnowledgeInv, ReadsInv
<1>5. HistoryInv'
  <2>1. \A p \in Payments : StateSeen(p)' = StateSeen(p)
    BY <1>0 DEF StateSeen
  <2> QED
    BY <1>0, <2>1, PaymentOfAssumption DEF KnowledgeInv, HistoryInv, Waiting, AfterRead, Acceptable
<1>6. DepthInv'
  BY <1>0 DEF KnowledgeInv, DepthInv, Checked, AfterRead
<1>7. JustifiedInv'
  <2>1. \A t \in Requests : claim[t] \in {"pool", "success"} => claim'[t] \in {"pool", "success"}
    BY <1>0
  <2>2. \A t \in Requests : stateRead'[t] = stateRead[t] \/ stateRead'[t] \notin PaymentStates
    BY <1>0 DEF PaymentStates
  <2>3. \A t \in Requests : Refusal(t)' => Refusal(t) /\ (Misled(t) => Misled(t)')
    BY <1>0 DEF Refusal, Misled, referenceVars
  <2> QED
    BY <1>0, <2>1, <2>2, <2>3, StaysJustified, PaymentOfAssumption
<1> QED
  BY <1>1, <1>2, <1>3, <1>4, <1>5, <1>6, <1>7 DEF KnowledgeInv, IInv

(* An answer of the provider or a wait over; nothing ends as lost.         *)
LEMMA ServeFacts ==
  ASSUME KnowledgeInv, NoReference, NEW r \in Requests, Serve(r)
  PROVE  /\ UNCHANGED <<creation, state, consumedBy, referenceVars, proof, acceptableSince>>
         /\ \A t \in Requests \ {r} : pc'[t] = pc[t] /\ claim'[t] = claim[t]
         /\ \/ pc'[r] = pc[r]
            \/ pc[r] \in Waiting /\ pc'[r] \in Waiting \cup Answered \cup {"threw"}
         /\ claim'[r] = claim[r] \/ (pc[r] = "send" /\ claim'[r] = "pool")
         /\ pc'[r] \notin {"reference", "resolving"}
<1> USE DEF StepOnly, Goto, chainVars, localVars, sharedVars, historyVars
<1>0. TypeOK /\ pc[r] \notin {"reference", "resolving"} /\ refRead[r] = "none"
  BY DEF KnowledgeInv, IInv, NoReference
<1>1. CASE Moves(r) /\ (Authenticate(r) \/ Recovery(r) \/ ObserverThrows(r) \/ Verify(r))
  <2>1. UNCHANGED <<claim, referenceVars>>
    BY <1>0, <1>1 DEF Authenticate, HitReference, ReadReference, ResolveReference, VerifyChain,
       ReadReceipt, ReadHead, VerifySettlement, ReadFails, Recovery, ObserverThrows, Verify
  <2>2. pc'[r] \in (Waiting \ {"reference", "resolving"}) \cup Answered \cup {"threw"}
    <3>1. CASE Authenticate(r)
      <4>1. AfterEvent(r) \in {"refused", "settlement", "recovery"}
        BY DEF AfterEvent
      <4> QED
        BY <1>0, <3>1, <4>1 DEF Authenticate, HitReference, ReadReference, ResolveReference,
           VerifyChain, ReadReceipt, ReadHead, VerifySettlement, ReadFails, TypeOK, Waiting, Answered
    <3>2. CASE Recovery(r) \/ ObserverThrows(r) \/ Verify(r)
      BY <1>0, <3>2 DEF Recovery, ObserverThrows, Verify, TypeOK, Waiting, Answered
    <3> QED
      BY <1>1, <3>1, <3>2
  <2>3. /\ UNCHANGED <<creation, state, consumedBy, proof, acceptableSince>>
        /\ pc[r] \in Waiting /\ \A t \in Requests \ {r} : pc'[t] = pc[t]
    BY <1>1 DEF Moves
  <2> QED
    BY <2>1, <2>2, <2>3 DEF Waiting, Answered
<1>2. CASE Moves(r) /\ Consume(r)
  <2>1. /\ claim' = claim \/ (pc[r] = "send" /\ claim' = [claim EXCEPT ![r] = "pool"])
        /\ pc'[r] \in (Waiting \ {"reference", "resolving"}) \cup Answered \cup {"threw"}
        /\ UNCHANGED referenceVars
    BY <1>0, <1>2 DEF Consume, Prepare, Estimate, Send, NonceConflict, Receipt, AfterReceipt,
       ActionFails, OnActionFailure, OnAlreadyConsumed, TypeOK, Waiting, Answered
  <2>2. /\ claim'[r] = claim[r] \/ (pc[r] = "send" /\ claim'[r] = "pool")
        /\ \A t \in Requests \ {r} : claim'[t] = claim[t]
    BY <1>0, <2>1 DEF TypeOK
  <2>3. /\ UNCHANGED <<creation, state, consumedBy, proof, acceptableSince>>
        /\ pc[r] \in Waiting /\ \A t \in Requests \ {r} : pc'[t] = pc[t]
    BY <1>2 DEF Moves
  <2> QED
    BY <2>1, <2>2, <2>3 DEF Waiting, Answered
<1>3. CASE Observe(r) \/ EvaluateState(r) \/ StateAnswered(r)
  BY <1>0, <1>3 DEF Observe, EvaluateState, StateAnswered, TypeOK, Waiting
<1>4. \/ Authenticate(r) \/ Recovery(r) \/ ObserverThrows(r) \/ Verify(r) \/ Consume(r)
      \/ Observe(r) \/ EvaluateState(r) \/ StateAnswered(r)
  BY <1>0 DEF Serve, ObservePayment, ReferenceAnswered
<1>5. Authenticate(r) \/ Recovery(r) \/ ObserverThrows(r) \/ Verify(r) \/ Consume(r) => Moves(r)
  BY <1>0, MoveFacts
<1> QED
  BY <1>1, <1>2, <1>3, <1>4, <1>5

(* A request of this exchange that arrives is good, and its chain id is    *)
(* looked at next.                                                         *)
LEMMA ArrivesFacts ==
  ASSUME KnowledgeInv, RoutesInv, NEW r \in Requests, Arrives(r)
  PROVE  /\ UNCHANGED <<chainVars, referenceVars, at, receiptBlock, awaits, sharedVars>>
         /\ r \in wire /\ pc'[r] = "chain" /\ proof'[r] = "good"
         /\ \A t \in Requests \ {r} : pc'[t] = pc[t] /\ proof'[t] = proof[t]
<1>1. TypeOK
  BY DEF KnowledgeInv, IInv
<1>2. PICK kind \in ProofKinds : \E next \in AfterArrival(kind) :
        proof' = [proof EXCEPT ![r] = kind] /\ Goto(r, next)
  BY DEF Arrives, Arrive
<1>3. PICK next \in AfterArrival(kind) : proof' = [proof EXCEPT ![r] = kind] /\ Goto(r, next)
  BY <1>2
<1>4. kind = "good"
  BY <1>1, <1>3 DEF Arrives, TypeOK
<1>5. next = "chain"
  BY <1>3, <1>4, OneFinalPayment DEF AfterArrival
<1> QED
  BY <1>1, <1>3, <1>4, <1>5, ArriveFacts DEF Arrives, Goto, TypeOK

-----------------------------------------------------------------------------
(* The client.                                                             *)
LEMMA SendProofStep ==
  ASSUME ExchangeInv, NEW r \in Requests, SendProof(r)
  PROVE  Bookkeeping'
<1> USE DEF ExchangeInv, Bookkeeping
<1>1. /\ pc[r] # "authorized" /\ pc'[r] = "new" /\ claim'[r] = "none"
      /\ \A t \in Requests \ {r} : pc'[t] = pc[t] /\ claim'[t] = claim[t]
      /\ UNCHANGED <<creation, state, referenceVars, proof>>
      /\ UNCHANGED <<judged, contested, expired, handler, stored, faults>>
  <2>1. UNCHANGED <<judged, contested, expired, handler, stored, faults>>
    BY DEF SendProof
  <2>2. /\ pc[r] \in {"new"} \cup (Ended \ {"authorized"}) /\ pc'[r] = "new" /\ claim'[r] = "none"
        /\ \A t \in Requests \ {r} : pc'[t] = pc[t] /\ claim'[t] = claim[t]
        /\ UNCHANGED <<creation, state, referenceVars, proof>>
    <3> HIDE DEF Bookkeeping
    <3> QED
      BY SendProofFacts DEF ExchangeInv
  <2> QED
    BY <2>1, <2>2
<1>2. /\ client \in {"paying", "holding"} /\ creation[Paid] # 0 /\ client' = "waiting"
      /\ onRejected' = IF client = "holding" THEN "return" ELSE onRejected
      /\ asking = None /\ asking' = r /\ r # None
      /\ wire' = wire \cup {r} /\ lateArrival' = lateArrival \ {r}
  BY NoneAssumption DEF SendProof, MaySend, RoutesInv
<1> USE DEF Handled, referenceVars
<1>3. ExchangeType'
  BY <1>1, <1>2 DEF ExchangeType
<1>4. RoutesInv'
  BY <1>1, <1>2 DEF RoutesInv, NoReference
<1>5. DeliveredInv'
  BY <1>1, <1>2 DEF DeliveredInv, LateInv, StoredWorkIsDelivered
<1>6. ContestInv'
  BY <1>1, <1>2 DEF ContestInv, Idle
<1>7. FaultlessInv'
  <2>1. faults = 0 => \A t \in Requests :
          /\ pc[t] \notin {"threw", "lost"} /\ handler[t] # "lost"
          /\ Handled(t) => stored
          /\ Handled(t) \/ (Over(t) /\ claim[t] = "none")
    BY <1>2, NoneAssumption DEF FaultlessInv
  <2> QED
    BY <1>1, <1>2, <2>1 DEF FaultlessInv, Over
<1>8. UnservedOnlyForCause'
  BY <1>2 DEF UnservedOnlyForCause
<1> QED
  BY <1>3, <1>4, <1>5, <1>6, <1>7, <1>8

(* An answer is of a request that is over: handled, or with no claim left  *)
(* unless authorize threw.                                                 *)
LEMMA AnsweredFacts ==
  ASSUME ExchangeInv, NEW r \in Requests, HasAnswer(r)
  PROVE  /\ r \notin wire
         /\ \/ Handled(r) /\ pc[r] = "authorized"
            \/ pc[r] \in {"recovered", "refused", "early", "unavailable", "threw"} /\ Over(r)
         /\ pc[r] \in {"recovered", "refused", "early", "unavailable"} => claim[r] = "none"
<1>1. r \notin wire /\ (Handled(r) => pc[r] = "authorized")
  BY DEF ExchangeInv, Bookkeeping, RoutesInv, HasAnswer, Handled
<1>2. pc[r] \in {"recovered", "refused", "early", "unavailable"} => claim[r] = "none"
  BY DEF ExchangeInv, KnowledgeInv, IInv, ClaimsFollowRequests, MayHaveClaim
<1> QED
  BY <1>1, <1>2 DEF HasAnswer, Over, Ended, Answered

LEMMA ReceivesStep ==
  ASSUME ExchangeInv, NEW r \in Requests, Receives(r)
  PROVE  Bookkeeping'
<1> USE DEF ExchangeInv, Bookkeeping
<1>0. /\ client = "waiting" /\ asking = r /\ HasAnswer(r) /\ asking' = None
      /\ client' \in AfterAnswer(r)
      /\ judged' = IF onRejected = "return" THEN judged ELSE r
      /\ UNCHANGED <<vars, onRejected, contested, wire, expired, routeVars, faults>>
      /\ client' \in {"served", "unserved", "holding", "contesting"}
      /\ client' = "contesting" => onRejected \in {"dispute", "request-refund"}
  BY DEF Receives, AfterAnswer, AfterFailure, OnRejection, ExchangeType
<1>00. /\ r \notin wire
       /\ \/ Handled(r) /\ pc[r] = "authorized"
          \/ pc[r] \in {"recovered", "refused", "early", "unavailable", "threw"} /\ Over(r)
       /\ pc[r] \in {"recovered", "refused", "early", "unavailable"} => claim[r] = "none"
  BY <1>0, AnsweredFacts
<1> USE DEF vars, chainVars, referenceVars, localVars, routeVars
<1>1. ExchangeType'
  BY <1>0 DEF ExchangeType, Finished
<1>2. RoutesInv'
  BY <1>0 DEF RoutesInv, NoReference, Handled
<1>3. DeliveredInv'
  BY <1>0 DEF DeliveredInv, LateInv, StoredWorkIsDelivered
<1>4. ContestInv'
  BY <1>0, <1>00 DEF ContestInv, Idle, HasAnswer, Handled
<1>5. FaultlessInv'
  <2>1. faults = 0 /\ client' # "served" => Handled(r) \/ (Over(r) /\ claim[r] = "none")
    <3>1. faults = 0 => pc[r] # "threw"
      BY <1>0 DEF FaultlessInv
    <3> QED
      BY <1>00, <3>1
  <2> QED
    BY <1>0, <2>1, NoneAssumption DEF FaultlessInv, Over, Handled
<1>6. UnservedOnlyForCause'
  <2> SUFFICES ASSUME client' = "unserved", onRejected = "return"
               PROVE  \/ state[Paid] \notin Acceptable
                      \/ faults > 0 /\ \E t \in Requests : claim[t] # "none"
    BY <1>0 DEF UnservedOnlyForCause
  <2>1. pc[r] = "refused" /\ proof[r] = "good" /\ ~Handled(r)
    <3>1. pc[r] = "refused"
      BY <1>0 DEF AfterAnswer, AfterFailure
    <3> QED
      BY <3>1 DEF RoutesInv, Handled
  <2>2. state[Paid] \notin Acceptable \/ \E t \in Rivals(r) : claim[t] \in {"pool", "success"}
    BY <2>1, OneFinalPayment DEF JustifiedInv, RefusalIsJustified, RoutesInv, NoReference
  <2>3. ASSUME faults = 0, NEW t \in Rivals(r), claim[t] \in {"pool", "success"}
        PROVE  FALSE
    <3>1. t \in Requests /\ t # asking
      BY <1>0, RivalsFacts
    <3>2. stored
      BY <1>0, <2>3, <3>1 DEF FaultlessInv
    <3>3. r \in lateArrival
      BY <1>0, <1>00, <2>1, <2>3, <3>2 DEF FaultlessInv
    <3> QED
      BY <2>1, <3>3 DEF DeliveredInv, StoredWorkIsDelivered
  <2> QED
    BY <2>2, <2>3, RivalsFacts DEF ExchangeType
<1> QED
  BY <1>1, <1>2, <1>3, <1>4, <1>5, <1>6

(* Without a response, or with expired terms, the client stops waiting.    *)
LEMMA StopsStep ==
  ASSUME ExchangeInv, RetryRefused \/ Breaks
  PROVE  Bookkeeping'
<1> USE DEF ExchangeInv, Bookkeeping
<1>0. /\ client' \in {"holding", "unserved"} /\ asking' = None
      /\ client # "paying" /\ client # "contesting" /\ client # "served"
      /\ UNCHANGED <<vars, onRejected, judged, contested, wire, expired, routeVars>>
      /\ client' = "unserved" => expired
  BY DEF RetryRefused, Breaks, WithoutResponse, RoutesInv
<1> USE DEF vars, chainVars, referenceVars, localVars, routeVars
<1>1. ExchangeType'
  BY <1>0 DEF ExchangeType, Finished, RetryRefused, Breaks, Fault
<1>2. RoutesInv'
  BY <1>0 DEF RoutesInv, NoReference, Handled
<1>3. DeliveredInv'
  BY <1>0 DEF DeliveredInv, LateInv, StoredWorkIsDelivered
<1>4. ContestInv'
  BY <1>0 DEF ContestInv, Idle, HasAnswer, Handled
<1>5. FaultlessInv'
  <2>1. faults' = 0 => faults = 0 /\ asking = None
    <3>1. CASE RetryRefused
      BY <3>1 DEF RetryRefused, RoutesInv
    <3>2. CASE Breaks
      <4>1. asking \in Requests
        BY <3>2 DEF Breaks, RoutesInv, ExchangeType
      <4>2. CASE pc[asking] = "lost" \/ handler[asking] = "lost"
        BY <3>2, <4>1, <4>2 DEF Breaks, FaultlessInv
      <4>3. CASE ~(pc[asking] = "lost" \/ handler[asking] = "lost")
        BY <3>2, <4>3 DEF Breaks, Fault, ExchangeType
      <4> QED
        BY <4>2, <4>3
    <3> QED
      BY <3>1, <3>2
  <2> QED
    BY <1>0, <2>1 DEF FaultlessInv, Over, Handled
<1>6. UnservedOnlyForCause'
  BY <1>0 DEF UnservedOnlyForCause
<1> QED
  BY <1>1, <1>2, <1>3, <1>4, <1>5, <1>6

-----------------------------------------------------------------------------
(* The route.                                                              *)
LEMMA ArrivesStep ==
  ASSUME ExchangeInv, NEW r \in Requests, Arrives(r)
  PROVE  Bookkeeping'
<1> USE DEF ExchangeInv, Bookkeeping
<1>0. /\ UNCHANGED <<creation, state, claim, referenceVars>>
      /\ r \in wire /\ pc[r] = "new" /\ pc'[r] = "chain" /\ proof'[r] = "good"
      /\ \A t \in Requests \ {r} : pc'[t] = pc[t] /\ proof'[t] = proof[t]
      /\ wire' = wire \ {r}
      /\ lateArrival' = IF stored THEN lateArrival \cup {r} ELSE lateArrival
      /\ UNCHANGED <<clientVars, expired, handler, stored, faults>>
  BY ArrivesFacts DEF Arrives, chainVars, RoutesInv
<1> USE DEF clientVars, referenceVars
<1>1. ExchangeType'
  BY <1>0 DEF ExchangeType
<1>2. RoutesInv'
  BY <1>0 DEF RoutesInv, NoReference, Handled
<1>3. DeliveredInv'
  BY <1>0 DEF DeliveredInv, LateInv, StoredWorkIsDelivered
<1>4. ContestInv'
  BY <1>0 DEF ContestInv, Idle, HasAnswer, Handled
<1>5. FaultlessInv'
  BY <1>0 DEF FaultlessInv, Over, Handled
<1>6. UnservedOnlyForCause'
  BY <1>0 DEF UnservedOnlyForCause
<1> QED
  BY <1>1, <1>2, <1>3, <1>4, <1>5, <1>6

(* A late arrival goes on to the recovery hook, which finds the work.      *)
LEMMA LateServe ==
  ASSUME KnowledgeInv, NEW r \in Requests, Authorize(r), proof[r] = "good", stored,
         pc[r] \in {"chain", "receipt", "head", "recovery"}
  PROVE  pc'[r] \in {"chain", "receipt", "head", "recovery", "recovered", "early", "unavailable"}
<1>0. TypeOK /\ Serve(r) /\ AfterEvent(r) = "recovery"
  BY OneFinalPayment DEF KnowledgeInv, IInv, Authorize, AfterEvent
<1>1. CASE pc[r] = "recovery"
  <2>1. pc'[r] = "recovered"
    BY <1>1 DEF Authorize, FindsResult
  <2> QED
    BY <2>1
<1>2. CASE pc[r] # "recovery"
  <2>1. Authenticate(r) \/ pc' = pc
    BY <1>0, <1>2 DEF Serve, ReferenceAnswered, ObservePayment, Recovery, Observe, ObserverThrows,
       EvaluateState, StateAnswered, Verify, Consume, Prepare, Estimate, Send, NonceConflict, Receipt, ActionFails
  <2>2. CASE Authenticate(r)
    BY <1>0, <1>2, <2>2 DEF Authenticate, HitReference, ReadReference, ResolveReference, VerifyChain,
       ReadReceipt, ReadHead, VerifySettlement, ReadFails, StepOnly, Goto, TypeOK
  <2> QED
    BY <2>1, <2>2
<1> QED
  BY <1>1, <1>2

LEMMA AuthorizeStep ==
  ASSUME ExchangeInv, NEW r \in Requests, Authorize(r)
  PROVE  Bookkeeping'
<1> USE DEF ExchangeInv, Bookkeeping
<1>0. /\ UNCHANGED <<creation, state, referenceVars, proof>>
      /\ \A t \in Requests \ {r} : pc'[t] = pc[t] /\ claim'[t] = claim[t]
      /\ \/ pc'[r] = pc[r]
         \/ pc[r] \in Waiting /\ pc'[r] \in Waiting \cup Answered \cup {"threw"}
      /\ claim'[r] = claim[r] \/ (pc[r] = "send" /\ claim'[r] = "pool")
      /\ pc'[r] \notin {"reference", "resolving"}
  BY ServeFacts DEF Authorize, RoutesInv
<1>1. /\ faults' = IF ProviderFailed(r) THEN faults + 1 ELSE faults
      /\ UNCHANGED <<clientVars, wire, expired, routeVars>>
  BY DEF Authorize
<1>2. pc[r] \in Waiting => pc[r] \notin {"new"} \cup Ended
  BY DEF Waiting, Ended, Answered
<1> USE DEF clientVars, routeVars, referenceVars
<1>3. ExchangeType'
  BY <1>1 DEF ExchangeType
<1>4. RoutesInv'
  BY <1>0, <1>1, <1>2 DEF RoutesInv, NoReference, Handled, Ended, Answered
<1>5. DeliveredInv'
  <2>1. ASSUME r \in lateArrival, pc'[r] # pc[r]
        PROVE  pc'[r] \in {"chain", "receipt", "head", "recovery", "recovered", "early", "unavailable"}
    <3>1. pc[r] \in {"chain", "receipt", "head", "recovery"} /\ proof[r] = "good" /\ stored
      BY <1>0, <1>2, <2>1 DEF DeliveredInv, LateInv, StoredWorkIsDelivered, RoutesInv, Ended, Answered
    <3> QED
      BY <3>1, LateServe
  <2> QED
    BY <1>0, <1>1, <2>1 DEF DeliveredInv, LateInv, StoredWorkIsDelivered
<1>6. ContestInv'
  <2>1. \A t \in Requests : Idle(t) => Idle(t)'
    BY <1>0, <1>1, <1>2 DEF Idle
  <2>2. judged \in Requests /\ HasAnswer(judged) => HasAnswer(judged)'
    BY <1>0, <1>1 DEF HasAnswer, Handled, Waiting, RoutesInv
  <2> QED
    BY <1>1, <2>1, <2>2 DEF ContestInv
<1>7. FaultlessInv'
  <2> SUFFICES ASSUME faults' = 0, client' # "served"
               PROVE  \A t \in Requests :
                        /\ pc'[t] \notin {"threw", "lost"} /\ handler'[t] # "lost"
                        /\ claim'[t] # "reverted"
                        /\ Handled(t)' => stored'
                        /\ t # asking' => Handled(t)' \/ (Over(t)' /\ claim'[t] = "none")
                        /\ t = asking' /\ stored' => Handled(t)' \/ t \in wire' \cup lateArrival'
    BY DEF FaultlessInv
  <2>1. faults = 0 /\ ~ProviderFailed(r) /\ client # "served"
    BY <1>1 DEF ExchangeType
  <2>2. pc'[r] \notin {"threw", "lost"}
    <3>1. pc[r] \notin {"threw", "lost"} /\ claim[r] # "reverted"
      BY <2>1 DEF FaultlessInv
    <3> QED
      BY <1>0, <2>1, <3>1 DEF ProviderFailed, Waiting, Answered
  <2>3. r # asking => pc'[r] = pc[r] /\ claim'[r] = claim[r]
    <3>1. r # asking => pc[r] \notin Waiting
      BY <1>2, <2>1 DEF FaultlessInv, Over, RoutesInv, Handled, Ended, Answered
    <3> QED
      BY <1>0, <3>1 DEF Waiting
  <2> QED
    BY <1>0, <1>1, <2>1, <2>2, <2>3 DEF FaultlessInv, Over, Handled
<1>8. UnservedOnlyForCause'
  <2>1. \A t \in Requests : claim[t] # "none" => claim'[t] # "none"
    BY <1>0
  <2>2. faults > 0 => faults' > 0
    BY <1>1 DEF ExchangeType
  <2> QED
    BY <1>0, <1>1, <2>1, <2>2 DEF UnservedOnlyForCause
<1> QED
  BY <1>3, <1>4, <1>5, <1>6, <1>7, <1>8

LEMMA HandleStep ==
  ASSUME ExchangeInv, NEW r \in Requests, Handle(r)
  PROVE  Bookkeeping'
<1> USE DEF ExchangeInv, Bookkeeping
<1>0. /\ pc[r] = "authorized" /\ handler[r] = "idle" /\ handler'[r] \in {"done", "failed"}
      /\ \A t \in Requests \ {r} : handler'[t] = handler[t]
      /\ handler' \in [Requests -> {"idle", "done", "failed", "lost"}] /\ stored' \in BOOLEAN
      /\ stored => stored'
      /\ (faults' = faults /\ stored') \/ (faults' = faults + 1 /\ stored' = stored)
      /\ UNCHANGED <<vars, clientVars, wire, expired, lateArrival>>
  <2>1. PICK works \in BOOLEAN, outcome \in {"done", "failed"} :
          /\ handler' = [handler EXCEPT ![r] = outcome]
          /\ stored' = (stored \/ works)
          /\ IF works THEN UNCHANGED faults ELSE Fault
    BY DEF Handle
  <2>2. stored' \in BOOLEAN /\ (stored => stored')
    BY <2>1 DEF ExchangeType
  <2>3. (faults' = faults /\ stored') \/ (faults' = faults + 1 /\ stored' = stored)
    BY <2>1 DEF Fault, ExchangeType
  <2>4. /\ handler'[r] \in {"done", "failed"}
        /\ \A t \in Requests \ {r} : handler'[t] = handler[t]
        /\ handler' \in [Requests -> {"idle", "done", "failed", "lost"}]
    BY <2>1 DEF ExchangeType
  <2> QED
    BY <2>2, <2>3, <2>4 DEF Handle
<1>00. \A t \in Requests : Handled(t)' <=> Handled(t) \/ t = r
  BY <1>0 DEF Handled
<1> USE DEF vars, chainVars, referenceVars, localVars, clientVars
<1>1. ExchangeType'
  BY <1>0 DEF ExchangeType
<1>2. RoutesInv'
  BY <1>0, <1>00 DEF RoutesInv, NoReference
<1>3. DeliveredInv'
  BY <1>0 DEF DeliveredInv, LateInv, StoredWorkIsDelivered
<1>4. ContestInv'
  BY <1>0, <1>00 DEF ContestInv, Idle, HasAnswer
<1>5. FaultlessInv'
  <2> SUFFICES ASSUME faults' = 0, client # "served"
               PROVE  FaultlessInv'
    BY <1>0 DEF FaultlessInv
  <2>1. faults = 0 /\ stored'
    BY <1>0, <1>1 DEF ExchangeType
  <2>2. r = asking
    BY <1>0, <2>1 DEF FaultlessInv, Over, Handled, Ended, Answered
  <2> QED
    BY <1>0, <1>00, <2>1, <2>2 DEF FaultlessInv, Over
<1>6. UnservedOnlyForCause'
  BY <1>0 DEF UnservedOnlyForCause, ExchangeType
<1> QED
  BY <1>1, <1>2, <1>3, <1>4, <1>5, <1>6

LEMMA ReplicaStopsStep ==
  ASSUME ExchangeInv, NEW s \in Replicas, ReplicaStops(s)
  PROVE  Bookkeeping'
<1> USE DEF ExchangeInv, Bookkeeping
<1>0. /\ faults' = faults + 1
      /\ UNCHANGED <<creation, state, claim, lookup, proof, clientVars, wire, expired, stored, lateArrival>>
      /\ \A t \in Requests : pc'[t] = pc[t] \/ (pc[t] \in Waiting /\ pc'[t] = "lost")
      /\ \A t \in Requests : \/ handler'[t] = handler[t]
                             \/ pc[t] = "authorized" /\ handler[t] = "idle" /\ handler'[t] = "lost"
      /\ handler' \in [Requests -> {"idle", "done", "failed", "lost"}]
      /\ \A t \in Requests : refRead'[t] = refRead[t] \/ refRead'[t] = "none"
  BY DEF ReplicaStops, Fault, Crash, chainVars, localVars, ExchangeType
<1>1. \A t \in Requests : pc[t] \in Waiting => pc[t] \notin {"new", "authorized"}
  BY DEF Waiting
<1> USE DEF clientVars
<1>2. ExchangeType'
  BY <1>0 DEF ExchangeType
<1>3. RoutesInv'
  BY <1>0, <1>1 DEF RoutesInv, NoReference, Handled
<1>4. DeliveredInv'
  BY <1>0 DEF DeliveredInv, LateInv, StoredWorkIsDelivered
<1>5. ContestInv'
  BY <1>0, <1>1 DEF ContestInv, Idle, HasAnswer, Handled, Waiting
<1>6. FaultlessInv'
  BY <1>0 DEF FaultlessInv, ExchangeType
<1>7. UnservedOnlyForCause'
  BY <1>0 DEF UnservedOnlyForCause, ExchangeType
<1> QED
  BY <1>2, <1>3, <1>4, <1>5, <1>6, <1>7

-----------------------------------------------------------------------------
(* The chain and the clock.                                                *)
Others == <<wire, expired, routeVars, faults>>

(* Contesting is a move of the payment by its client, or leaves the chain  *)
(* as it is, and then the history too.                                     *)
LEMMA ContestIsMove ==
  ASSUME ExchangeInv, Contest
  PROVE  UNCHANGED vars \/ (PaymentMoves(Paid) /\ ChainMoves)
<1>0. KnowledgeInv /\ TypeOK /\ creation[Paid] # 0
  BY DEF ExchangeInv, Bookkeeping, KnowledgeInv, IInv, RoutesInv, Contest
<1>1. CASE state[Paid] = "funded" /\ state' = [state EXCEPT ![Paid] = ContestedState]
  <2>1. ContestedState \in PaymentStates /\ <<state[Paid], ContestedState>> \in Transitions
    BY <1>1 DEF ContestedState, PaymentStates, Transitions
  <2> QED
    BY <1>0, <1>1, <2>1 DEF Contest, PaymentMoves
<1>2. CASE state' = state
  <2>1. UNCHANGED chainVars /\ ChainMoves
    BY <1>2 DEF Contest, chainVars
  <2>2. \A r \in Requests :
          acceptableSince[r] = (acceptableSince[r] \/ (pc[r] \in Waiting /\ state[PaymentOf[r]] \in Acceptable))
    BY <1>0 DEF KnowledgeInv, HistoryInv, HistoryType, StateSeen
  <2>3. acceptableSince' = [r \in Requests |-> acceptableSince[r]]
    BY <2>1, <2>2 DEF ChainMoves, chainVars
  <2>4. acceptableSince' = acceptableSince
    BY <1>0, <2>3 DEF KnowledgeInv, HistoryType
  <2> QED
    BY <2>1, <2>4 DEF ChainMoves, vars, historyVars
<1> QED
  BY <1>1, <1>2 DEF Contest

(* What a step of the chain without reorganisation leaves of the past.     *)
LEMMA ChainFacts ==
  ASSUME ExchangeInv, ChainNext, ChainMoves
  PROVE  /\ UNCHANGED <<pc, referenceVars, proof>>
         /\ creation[Paid] # 0 => creation'[Paid] # 0
         /\ state[Paid] \notin Acceptable => state'[Paid] \notin Acceptable
         /\ \A r \in Requests : claim'[r] = "none" <=> claim[r] = "none"
         /\ \A r \in Requests : claim'[r] = "reverted" =>
              \/ claim[r] = "reverted"
              \/ /\ claim[r] = "pool"
                 /\ \E u \in Requests \ {r} : claim[u] = "success"
<1>0. /\ TypeOK /\ ~Reorg /\ UNCHANGED <<pc, referenceVars, proof>>
      /\ Paid \in Payments /\ \A r \in Requests : PaymentOf[r] = Paid
  BY NoReorg, OneFinalPayment DEF ExchangeInv, KnowledgeInv, IInv, ChainMoves, localVars
<1>1. CASE NewBlock
  BY <1>0, <1>1 DEF NewBlock, TypeOK
<1>2. ASSUME NEW p \in Payments, PaymentMoves(p)
      PROVE  /\ UNCHANGED <<claim, creation>>
             /\ state[Paid] \notin Acceptable => state'[Paid] \notin Acceptable
  BY <1>0, <1>2 DEF PaymentMoves, Transitions, Acceptable, TypeOK
<1>3. ASSUME NEW r \in Requests, MineClaim(r)
      PROVE  /\ UNCHANGED <<state, creation>> /\ claim[r] = "pool"
             /\ \A t \in Requests \ {r} : claim'[t] = claim[t]
             /\ \/ claim'[r] = "success"
                \/ claim'[r] = "reverted" /\ \E u \in Requests \ {r} : claim[u] = "success"
  <2>1. /\ UNCHANGED <<state, creation>> /\ claim[r] = "pool"
        /\ \A t \in Requests \ {r} : claim'[t] = claim[t]
        /\ IF consumedBy[Paid] = None THEN claim'[r] = "success" ELSE claim'[r] = "reverted"
    BY <1>0, <1>3 DEF MineClaim, TypeOK
  <2>2. consumedBy[Paid] # None =>
          consumedBy[Paid] \in Requests \ {r} /\ claim[consumedBy[Paid]] = "success"
    <3>1. \A u \in Requests : claim[u] = "success" <=> consumedBy[Paid] = u
      BY <1>0 DEF ExchangeInv, KnowledgeInv, IInv, ClaimsFollowContract
    <3>2. consumedBy[Paid] \in Requests \cup {None}
      BY <1>0 DEF TypeOK
    <3> QED
      BY <2>1, <3>1, <3>2
  <2> QED
    BY <2>1, <2>2
<1> QED
  BY <1>0, <1>1, <1>2, <1>3 DEF ChainNext

(* What the chain's steps keep, while the client does nothing.             *)
LEMMA ChainKeeps ==
  ASSUME ExchangeInv, ChainNext, ChainMoves, UNCHANGED <<clientVars, Others>>
  PROVE  Bookkeeping'
<1> USE DEF ExchangeInv, Bookkeeping
<1>0. /\ UNCHANGED <<pc, referenceVars, proof>>
      /\ creation[Paid] # 0 => creation'[Paid] # 0
      /\ state[Paid] \notin Acceptable => state'[Paid] \notin Acceptable
      /\ \A r \in Requests : claim'[r] = "none" <=> claim[r] = "none"
      /\ \A r \in Requests : claim'[r] = "reverted" =>
           \/ claim[r] = "reverted"
           \/ /\ claim[r] = "pool"
              /\ \E u \in Requests \ {r} : claim[u] = "success"
  BY ChainFacts
<1> USE DEF clientVars, routeVars, referenceVars, Others
<1>1. ExchangeType'
  BY DEF ExchangeType
<1>2. RoutesInv'
  BY <1>0 DEF RoutesInv, NoReference, Handled
<1>3. DeliveredInv'
  BY <1>0 DEF DeliveredInv, LateInv, StoredWorkIsDelivered
<1>4. ContestInv'
  BY <1>0 DEF ContestInv, Idle, HasAnswer, Handled
<1>5. FaultlessInv'
  <2>1. ASSUME faults = 0, client # "served", NEW r \in Requests, claim'[r] = "reverted"
        PROVE  FALSE
    <3>1. claim[r] # "reverted"
      BY <2>1 DEF FaultlessInv
    <3>2. PICK u \in Requests \ {r} : claim[r] = "pool" /\ claim[u] = "success"
      BY <1>0, <2>1, <3>1
    <3>3. ~Handled(r) /\ pc[r] \notin {"new", "chain", "receipt", "head", "recovery", "recovered",
                                       "early", "unavailable", "lost"}
      <4>1. pc[r] # "lost"
        BY <2>1 DEF FaultlessInv
      <4>2. pc[r] \in MayHaveClaim /\ pc[r] # "authorized"
        BY <3>2, ExchangeAssumption DEF KnowledgeInv, IInv, ClaimsFollowRequests
      <4> QED
        BY <4>1, <4>2 DEF MayHaveClaim, Handled, RoutesInv
    <3>4. r = asking /\ Handled(u) /\ stored
      BY <2>1, <3>2, <3>3 DEF FaultlessInv
    <3>5. r \in wire \cup lateArrival
      BY <2>1, <3>3, <3>4 DEF FaultlessInv
    <3> QED
      BY <3>3, <3>5 DEF RoutesInv, DeliveredInv, StoredWorkIsDelivered
  <2> QED
    BY <1>0, <2>1 DEF FaultlessInv, Over, Handled
<1>6. UnservedOnlyForCause'
  BY <1>0 DEF UnservedOnlyForCause
<1> QED
  BY <1>1, <1>2, <1>3, <1>4, <1>5, <1>6

LEMMA ContestStep ==
  ASSUME ExchangeInv, Contest
  PROVE  Bookkeeping'
<1> USE DEF ExchangeInv, Bookkeeping
<1>0. /\ client = "contesting" /\ asking = None /\ onRejected \in {"dispute", "request-refund"}
      /\ UNCHANGED <<pc, referenceVars, proof, claim, creation, onRejected, asking, judged>>
      /\ UNCHANGED <<wire, expired, routeVars>>
      /\ client' \in {"unserved", "holding"}
      /\ contested' \in BOOLEAN
      /\ faults' = faults \/ faults' = faults + 1
  BY DEF Contest, Fault, ChainMoves, localVars, RoutesInv, ContestInv, ExchangeType
<1> USE DEF routeVars, referenceVars
<1>1. ExchangeType'
  BY <1>0 DEF ExchangeType, Finished
<1>2. RoutesInv'
  BY <1>0 DEF RoutesInv, NoReference, Handled
<1>3. DeliveredInv'
  BY <1>0 DEF DeliveredInv, LateInv, StoredWorkIsDelivered
<1>4. ContestInv'
  BY <1>0 DEF ContestInv, Idle, HasAnswer, Handled
<1>5. FaultlessInv'
  BY <1>0 DEF FaultlessInv, Over, Handled, ExchangeType
<1>6. UnservedOnlyForCause'
  BY <1>0 DEF UnservedOnlyForCause
<1> QED
  BY <1>1, <1>2, <1>3, <1>4, <1>5, <1>6

LEMMA ExpireStep ==
  ASSUME ExchangeInv, Expire \/ UNCHANGED exchangeVars
  PROVE  Bookkeeping'
<1> USE DEF ExchangeInv, Bookkeeping
<1>0. /\ UNCHANGED <<vars, clientVars, wire, routeVars, faults>>
      /\ expired' = expired \/ expired' = TRUE
  BY DEF Expire, exchangeVars
<1> USE DEF vars, chainVars, referenceVars, localVars, clientVars, routeVars
<1>1. ExchangeType' /\ RoutesInv'
  BY <1>0 DEF ExchangeType, RoutesInv, NoReference, Handled
<1>2. DeliveredInv' /\ ContestInv'
  BY <1>0 DEF DeliveredInv, LateInv, StoredWorkIsDelivered, ContestInv, Idle, HasAnswer,
     Handled
<1>3. FaultlessInv' /\ UnservedOnlyForCause'
  BY <1>0 DEF FaultlessInv, Over, Handled, UnservedOnlyForCause
<1> QED
  BY <1>1, <1>2, <1>3

-----------------------------------------------------------------------------
(* The steps of the exchange are the authorizer's, or send a proof.        *)
LEMMA StepsOfAuthorizer ==
  ASSUME ExchangeInv, [ExchangeNext]_exchangeVars
  PROVE  [Next]_vars \/ \E r \in Requests : SendProof(r)
<1> Paid \in Payments
  BY OneFinalPayment
<1>1. CASE Contest
  BY <1>1, ContestIsMove DEF Next, ChainNext
<1>2. CASE ChainSteps
  BY <1>2 DEF ChainSteps, Grows, Next, ChainNext
<1>3. CASE \/ \E r \in Requests : Arrives(r) \/ Authorize(r)
           \/ \E s \in Replicas : ReplicaStops(s)
  BY <1>3 DEF Arrives, Authorize, ReplicaStops, Next
<1>4. ASSUME \/ \E r \in Requests : Receives(r) \/ Handle(r)
             \/ RetryRefused \/ Breaks \/ Expire \/ UNCHANGED exchangeVars
      PROVE  UNCHANGED vars
  BY <1>4 DEF Receives, Handle, RetryRefused, Breaks, Expire, exchangeVars
<1> QED
  BY <1>1, <1>2, <1>3, <1>4 DEF ExchangeNext, ClientActs, RouteActs

LEMMA BookkeepingStep ==
  ASSUME ExchangeInv, [ExchangeNext]_exchangeVars
  PROVE  Bookkeeping'
<1> Paid \in Payments
  BY OneFinalPayment
<1>1. CASE ClientActs
  BY <1>1, SendProofStep, ReceivesStep, StopsStep, ContestStep DEF ClientActs
<1>2. CASE RouteActs
  BY <1>2, ArrivesStep, AuthorizeStep, HandleStep DEF RouteActs
<1>3. CASE ChainSteps
  BY <1>3, ChainKeeps DEF ChainSteps, Grows, ChainNext, Others
<1> QED
  BY <1>1, <1>2, <1>3, ReplicaStopsStep, ExpireStep DEF ExchangeNext

LEMMA ExchangeStep == ExchangeInv /\ [ExchangeNext]_exchangeVars => ExchangeInv'
<1> SUFFICES ASSUME ExchangeInv, [ExchangeNext]_exchangeVars
             PROVE  ExchangeInv'
  OBVIOUS
<1>1. KnowledgeInv' /\ JustifiedInv'
  BY StepsOfAuthorizer, KnowledgeStep, NoReferenceRead, JustifiedStep, SendProofKnows, OneFinalPayment
     DEF ExchangeInv, Bookkeeping, RoutesInv
<1>2. Bookkeeping'
  BY BookkeepingStep
<1> QED
  BY <1>1, <1>2 DEF ExchangeInv

(* A request that arrives once the handler's result is stored is never     *)
(* refused and starts no work, whatever became of the payment              *)
(* (payment-authorizer.ts: recovery precedes observation and consumption). *)
THEOREM DeliversStoredWork == ExchangeSpec => []StoredWorkIsDelivered
<1>1. ExchangeInv => StoredWorkIsDelivered
  BY DEF ExchangeInv, Bookkeeping, DeliveredInv
<1> QED
  BY InitHolds, ExchangeStep, <1>1, PTL DEF ExchangeSpec

(* Whatever the client disputes or has refunded, a handler that worked for *)
(* it had answered before (fetch.ts, resolution.ts): no lost answer and no *)
(* failure makes fetch contest work it knows nothing of.                   *)
THEOREM ContestsJudgedWork == ExchangeSpec => []ContestedWorkWasJudged
<1>1. ExchangeInv => ContestedWorkWasJudged
  <2> SUFFICES ASSUME ExchangeInv, contested, stored, onRejected # "return"
               PROVE  judged # None /\ Handled(judged)
    BY DEF ContestedWorkWasJudged
  <2>1. judged \in Requests /\ \A r \in Requests \ {judged} : Idle(r)
    BY DEF ExchangeInv, Bookkeeping, ContestInv
  <2>2. PICK r \in Requests : Handled(r) /\ pc[r] = "authorized"
    BY DEF ExchangeInv, Bookkeeping, RoutesInv, Handled
  <2> QED
    BY <2>1, <2>2, NoneAssumption DEF Idle
<1> QED
  BY InitHolds, ExchangeStep, <1>1, PTL DEF ExchangeSpec

(* A client that retries as long as it is told it may is left unserved     *)
(* only if the terms expired, the payment moved, or something failed while *)
(* a claim was on its way.                                                 *)
THEOREM LosesPaymentForCause == ExchangeSpec => []UnservedOnlyForCause
<1>1. ExchangeInv => UnservedOnlyForCause
  BY DEF ExchangeInv, Bookkeeping
<1> QED
  BY InitHolds, ExchangeStep, <1>1, PTL DEF ExchangeSpec
===============================================================================
