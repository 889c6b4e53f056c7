--------------------------- MODULE Refunder_proofs ---------------------------
(***************************************************************************)
(* Proofs about Refunder: type correctness, exclusive results, errors and  *)
(* refusals that can be relied on, what the handler throws on, and that it *)
(* implements ClaimProtocol, for any number of requests, jobs, instances,  *)
(* payments and failures.                                                  *)
(***************************************************************************)
EXTENDS Refunder, PaymentActions_proofs

(* A request's job starts with refundPayment, and 200 waits for its end.   *)
BeforeRefund == {"new", "signer", "observer", "state", "policy"} \cup Refusals

HandlerInv ==
  \A r \in Requests :
    /\ pc[r] \in BeforeRefund => step[r] = "idle"
    /\ step[r] # "idle" => operation[r] = "refund"
    /\ pc[r] = "200" => step[r] = "confirmed"

(* A read is about the payment of whoever awaits it.  Nodes lag behind a   *)
(* payment that leaves the funded state and never returns to it, so a      *)
(* report that it is not funded stays true.                                *)
ReadsInv ==
  /\ \A r \in Requests :
       /\ awaits[r] # None => PaymentOf[awaits[r]] = PaymentOf[r]
       /\ pc[r] = "state" => awaits[r] # None
       /\ stateRead[r] \in PaymentStates \ {"funded"} => payment[PaymentOf[r]] # "funded"
       /\ pc[r] = "409" => payment[PaymentOf[r]] # "funded"
  /\ \A p \in Payments :
       /\ inFlight[p] # None => PaymentOf[inFlight[p]] = p
       /\ payment[p] = "funded" => behind[p] = "funded"

IInv == TypeOK /\ ActionsInv /\ HandlerInv /\ ReadsInv

LEMMA RequestsAreJobs ==
  /\ \A r \in Requests : r \in Jobs /\ r # None /\ PaymentOf[r] \in Payments
  /\ \A j \in Worker : j \in Jobs /\ j \notin Requests
  BY RequestsAssumption, NobodyAssumption, JobsAssumption

LEMMA InvInit == Init => IInv
<1> SUFFICES ASSUME Init
             PROVE  IInv
  OBVIOUS
<1>1. ActionsInv
  BY ActionsInitInv DEF Init
<1>2. TypeOK
  BY <1>1 DEF Init, TypeOK, ActionsInv, ActionsTypeOK
<1>3. HandlerInv
  BY RequestsAreJobs DEF Init, ActionsInit, HandlerInv
<1>4. ReadsInv
  BY DEF Init, ReadsInv, PaymentStates, Refusals
<1> QED
  BY <1>1, <1>2, <1>3, <1>4 DEF IInv

-----------------------------------------------------------------------------
(* What a step does to the actions.                                        *)
LEMMA StepOnlyRests ==
  ASSUME TypeOK, NEW r \in Requests, NEW where \in {"new"} \cup Waiting \cup Ended, StepOnly(r, where)
  PROVE  ActionsRest
  BY DEF StepOnly, ActionsRest, actionVars, TypeOK, ActionsTypeOK

LEMMA FaultRests ==
  ASSUME TypeOK, UNCHANGED <<jobVars, pool, status, contractVars>>, UNCHANGED faults \/ Fault
  PROVE  ActionsRest
  BY DEF ActionsRest, Fault, TypeOK, ActionsTypeOK

(* The steps of a handler before and after its refund.                     *)
Handles(r) ==
  \/ Arrive(r) \/ CheckSigner(r) \/ Observe(r) \/ ReaderFails(r) \/ EvaluateState(r)
  \/ StateAnswered(r) \/ Verify(r) \/ Answer(r)

LEMMA HandlesRests ==
  ASSUME TypeOK, NEW r \in Requests, Handles(r)
  PROVE  ActionsRest
<1>1. UNCHANGED <<jobVars, pool, status, contractVars>>
  BY DEF Handles, Arrive, CheckSigner, Observe, ReaderFails, EvaluateState, StateAnswered, Verify,
         Answer, StepOnly, actionVars
<1>2. UNCHANGED faults \/ Fault
  BY DEF Handles, Arrive, CheckSigner, Observe, ReaderFails, EvaluateState, StateAnswered, Verify,
         Answer, StepOnly, actionVars
<1> QED
  BY <1>1, <1>2, FaultRests

LEMMA SignerRests ==
  ASSUME TypeOK, SignerAnswers
  PROVE  ActionsRest
  BY FaultRests DEF SignerAnswers

LEMMA NextIsActionsStep ==
  ASSUME TypeOK, [Next]_vars
  PROVE  ActionsStep
<1>1. ASSUME NEW r \in Requests, ApplyPolicy(r)
      PROVE  ActionsStep
  <2>1. CASE StepOnly(r, "403")
    BY <2>1, StepOnlyRests DEF ActionsStep, Ended, Refusals
  <2>2. CASE Begin(r, "refund")
    BY <2>2, RequestsAreJobs DEF ActionsStep, Operations
  <2> QED
    BY <1>1, <2>1, <2>2 DEF ApplyPolicy
<1>2. ASSUME NEW r \in Requests, Refund(r)
      PROVE  ActionsStep
  BY <1>2, RequestsAreJobs DEF Refund, ActionsStep
<1>3. ASSUME NEW j \in Worker, RunWorker(j)
      PROVE  ActionsStep
  BY <1>3, RequestsAreJobs DEF RunWorker, ActionsStep
<1>4. CASE UNCHANGED vars
  BY <1>4, FaultRests DEF vars, actionVars, ActionsStep
<1>5. CASE Restart \/ Outside
  BY <1>5 DEF Restart, Outside, ActionsStep
<1>6. ASSUME NEW p \in Payments, NodesCatchUp(p)
      PROVE  ActionsStep
  BY <1>6, FaultRests DEF NodesCatchUp, actionVars, ActionsStep
<1> QED
  BY <1>1, <1>2, <1>3, <1>4, <1>5, <1>6, HandlesRests, SignerRests DEF Next, Serve, Handles, ActionsStep

-----------------------------------------------------------------------------
(* The handlers.                                                           *)
LEMMA TypeStep ==
  ASSUME IInv, [Next]_vars
  PROVE  TypeOK'
<1> DEFINE Places == {"new"} \cup Waiting \cup Ended
<1>1. ActionsTypeOK'
  BY NextIsActionsStep, ActionsType DEF IInv, TypeOK
<1>2. ASSUME NEW r \in Requests, NEW where \in Places, StepOnly(r, where)
      PROVE  TypeOK'
  BY <1>1, <1>2 DEF IInv, TypeOK, StepOnly, Goto, readVars, lagVars
<1>3. ASSUME NEW r \in Requests, Arrive(r)
      PROVE  TypeOK'
  <2>1. PICK where \in Places : Goto(r, where)
    BY <1>3 DEF Arrive, Waiting, Ended, Refusals
  <2>2. pc' \in [Requests -> Places]
    BY <2>1 DEF Goto, IInv, TypeOK
  <2>3. fundedAtStart' \in [Requests -> BOOLEAN]
    <3>1. FundedToday(r) \in BOOLEAN
      BY RequestsAreJobs DEF FundedToday, IInv, TypeOK
    <3> QED
      BY <1>3, <3>1 DEF Arrive, IInv, TypeOK
  <2> QED
    BY <1>1, <1>3, <2>2, <2>3 DEF Arrive, IInv, TypeOK, readVars
<1>4. ASSUME NEW r \in Requests, CheckSigner(r) \/ Answer(r)
      PROVE  TypeOK'
  BY <1>2, <1>4 DEF CheckSigner, Answer, ThrowsOn, Waiting, Ended, Refusals
<1>5. ASSUME NEW r \in Requests, Observe(r)
      PROVE  TypeOK'
  <2>1. pc' \in [Requests -> Places]
    BY <1>5 DEF Observe, Goto, IInv, TypeOK, Waiting
  <2>2. inFlight[PaymentOf[r]] \in Requests \cup {None} /\ PaymentOf[r] \in Payments
    BY RequestsAreJobs DEF IInv, TypeOK
  <2>3. awaits' \in [Requests -> Requests \cup {None}]
    BY <1>5, <2>2 DEF Observe, IInv, TypeOK
  <2>4. /\ stateRead' \in [Requests -> {"none", "asked"} \cup ReadDone]
        /\ inFlight' \in [Payments -> Requests \cup {None}]
    BY <1>5, <2>2 DEF Observe, IInv, TypeOK
  <2> QED
    BY <1>1, <1>5, <2>1, <2>3, <2>4 DEF Observe, IInv, TypeOK, lagVars
<1>6. ASSUME NEW r \in Requests, ReaderFails(r)
      PROVE  TypeOK'
  BY <1>1, <1>6 DEF ReaderFails, Goto, IInv, TypeOK, readVars, lagVars, Ended
<1>7. ASSUME NEW r \in Requests, EvaluateState(r)
      PROVE  TypeOK'
  <2>1. PICK result \in ReadDone : stateRead' = [stateRead EXCEPT ![r] = result]
    BY <1>7, RequestsAreJobs DEF EvaluateState, StateSeen, ReadDone, IInv, TypeOK, ActionsTypeOK
  <2> QED
    BY <1>1, <1>7, <2>1 DEF EvaluateState, IInv, TypeOK, lagVars
<1>8. ASSUME NEW r \in Requests, StateAnswered(r)
      PROVE  TypeOK'
  BY <1>1, <1>8 DEF StateAnswered, IInv, TypeOK, lagVars
<1>9. ASSUME NEW r \in Requests, Verify(r)
      PROVE  TypeOK'
  <2>1. PICK where \in Places : Goto(r, where)
    BY <1>9 DEF Verify, OnFailedRead, Waiting, Ended, Refusals
  <2>2. pc' \in [Requests -> Places]
    BY <2>1 DEF Goto, IInv, TypeOK
  <2>3. stateRead' \in [Requests -> {"none", "asked"} \cup ReadDone]
    BY <1>9 DEF Verify, IInv, TypeOK
  <2> QED
    BY <1>1, <1>9, <2>2, <2>3 DEF Verify, IInv, TypeOK, lagVars
<1>10. ASSUME NEW r \in Requests, ApplyPolicy(r)
      PROVE  TypeOK'
  <2>1. CASE StepOnly(r, "403")
    BY <1>2, <2>1 DEF Ended, Refusals
  <2>2. CASE Goto(r, "refund") /\ UNCHANGED <<signer, signerIsPayee, readVars, lagVars>>
    BY <1>1, <2>2 DEF Goto, IInv, TypeOK, readVars, lagVars, Waiting
  <2> QED
    BY <1>10, <2>1, <2>2 DEF ApplyPolicy
<1>11. CASE UNCHANGED <<pc, signer, signerIsPayee, readVars, lagVars>>
  BY <1>1, <1>11 DEF IInv, TypeOK, readVars, lagVars
<1>12. CASE SignerAnswers
  BY <1>1, <1>12 DEF SignerAnswers, IInv, TypeOK, readVars, lagVars
<1>13. CASE Restart
  BY <1>1, <1>13 DEF Restart, IInv, TypeOK, lagVars, Ended
<1>14. CASE UNCHANGED vars
  BY <1>11, <1>14 DEF vars
<1>15. ASSUME NEW p \in Payments, NodesCatchUp(p)
       PROVE  TypeOK'
  <2>1. behind' \in [Payments -> PaymentStates]
    BY <1>15 DEF NodesCatchUp, IInv, TypeOK, ActionsTypeOK
  <2> QED
    BY <1>1, <1>15, <2>1 DEF NodesCatchUp, IInv, TypeOK, readVars
<1> QED
  BY <1>3, <1>4, <1>5, <1>6, <1>7, <1>8, <1>9, <1>10, <1>11, <1>12, <1>13, <1>14, <1>15
     DEF Next, Serve, Refund, RunWorker, Outside

LEMMA HandlerStep ==
  ASSUME IInv, [Next]_vars
  PROVE  HandlerInv'
<1> USE DEF IInv, TypeOK, ActionsTypeOK
<1>1. ASSUME NEW r \in Requests, pc[r] \in BeforeRefund, NEW where \in BeforeRefund \cup {"threw"},
             Goto(r, where), UNCHANGED <<step, operation>>
      PROVE  HandlerInv'
  BY <1>1 DEF HandlerInv, Goto, BeforeRefund, Refusals
<1>2. ASSUME NEW r \in Requests, Handles(r)
      PROVE  HandlerInv'
  <2>1. UNCHANGED <<step, operation>>
    BY <1>2, HandlesRests DEF ActionsRest, jobVars
  <2>2. CASE Arrive(r)
    <3>1. pc[r] = "new" /\ \E where \in {"unproven", "signer", "503"} : Goto(r, where)
      BY <2>2 DEF Arrive
    <3> QED
      BY <1>1, <2>1, <3>1 DEF BeforeRefund, Refusals
  <2>3. CASE CheckSigner(r)
    BY <1>1, <2>1, <2>3 DEF CheckSigner, StepOnly, BeforeRefund, Refusals
  <2>4. CASE Observe(r)
    BY <1>1, <2>1, <2>4 DEF Observe, BeforeRefund
  <2>5. CASE ReaderFails(r)
    BY <1>1, <2>1, <2>5 DEF ReaderFails, BeforeRefund
  <2>6. CASE EvaluateState(r) \/ StateAnswered(r)
    BY <2>1, <2>6 DEF EvaluateState, StateAnswered, HandlerInv
  <2>7. CASE Verify(r)
    <3>1. pc[r] = "state" /\ \E where \in {"503", "policy", "409"} : Goto(r, where)
      BY <2>7 DEF Verify, OnFailedRead
    <3> QED
      BY <1>1, <2>1, <3>1 DEF BeforeRefund, Refusals
  <2>8. CASE Answer(r)
    <3>1. PICK where \in {"200", "threw"} :
            pc[r] = "refund" /\ Goto(r, where) /\ (where = "200" => step[r] = "confirmed")
      BY <2>8 DEF Answer, StepOnly, ThrowsOn
    <3> QED
      BY <2>1, <3>1 DEF HandlerInv, Goto, BeforeRefund, Refusals
  <2> QED
    BY <1>2, <2>2, <2>3, <2>4, <2>5, <2>6, <2>7, <2>8 DEF Handles
<1>3. ASSUME NEW r \in Requests, ApplyPolicy(r)
      PROVE  HandlerInv'
  <2>1. CASE StepOnly(r, "403")
    BY <1>1, <1>3, <2>1 DEF ApplyPolicy, StepOnly, actionVars, jobVars, BeforeRefund, Refusals
  <2>2. CASE Begin(r, "refund") /\ Goto(r, "refund")
    BY <2>2, RequestsAreJobs DEF Begin, Goto, HandlerInv, BeforeRefund, Refusals
  <2> QED
    BY <1>3, <2>1, <2>2 DEF ApplyPolicy
<1>4. ASSUME NEW j \in Jobs, Work(j), UNCHANGED pc
      PROVE  HandlerInv'
  <2>1. /\ step[j] \in Underway /\ step'[j] # "idle"
        /\ \A k \in Jobs \ {j} : step'[k] = step[k]
        /\ operation' = operation
    BY <1>4, WorkMoves DEF Underway
  <2> SUFFICES ASSUME NEW r \in Requests
               PROVE  /\ pc[r] \in BeforeRefund => step'[r] = "idle"
                      /\ step'[r] # "idle" => operation[r] = "refund"
                      /\ pc[r] = "200" => step'[r] = "confirmed"
    BY <1>4, <2>1 DEF HandlerInv
  <2>2. CASE r = j
    BY <2>1, <2>2 DEF HandlerInv, Underway
  <2>3. CASE r # j
    BY <2>1, <2>3, RequestsAreJobs DEF HandlerInv
  <2> QED
    BY <2>2, <2>3
<1>5. ASSUME NEW j \in Worker, RunWorker(j)
      PROVE  HandlerInv'
  <2>1. CASE Work(j)
    BY <1>4, <1>5, <2>1, RequestsAreJobs DEF RunWorker
  <2>2. ASSUME NEW op \in Operations, Begin(j, op)
        PROVE  HandlerInv'
    <3>1. \A r \in Requests : step'[r] = step[r] /\ operation'[r] = operation[r] /\ pc'[r] = pc[r]
      BY <1>5, <2>2, RequestsAreJobs DEF RunWorker, Begin
    <3> QED
      BY <3>1 DEF HandlerInv
  <2> QED
    BY <1>5, <2>1, <2>2 DEF RunWorker
<1>6. CASE Restart
  BY <1>6, RequestsAreJobs
     DEF Restart, ProcessStops, HandlerInv, BeforeRefund, Waiting, Refusals, Underway
<1>7. CASE Outside \/ SignerAnswers \/ (\E p \in Payments : NodesCatchUp(p)) \/ UNCHANGED vars
  <2>1. UNCHANGED <<step, operation, pc>>
    BY <1>7 DEF Outside, Mine, PartyMoves, SignerAnswers, NodesCatchUp, vars, actionVars, jobVars
  <2> QED
    BY <2>1 DEF HandlerInv
<1> QED
  BY <1>2, <1>3, <1>4, <1>5, <1>6, <1>7, RequestsAreJobs DEF Next, Serve, Refund, Handles

LEMMA ReadsStep ==
  ASSUME IInv, [Next]_vars
  PROVE  ReadsInv'
<1> USE DEF IInv, TypeOK
<1>0. /\ \A r \in Requests : payment[PaymentOf[r]] # "funded" => payment'[PaymentOf[r]] # "funded"
      /\ \A p \in Payments : payment'[p] = "funded" => behind'[p] = "funded"
  <2>1. \A p \in Payments : payment'[p] = "funded" => payment[p] = "funded"
    BY NeverFundedAgain, NextIsActionsStep
  <2>2. \A p \in Payments : behind'[p] \in {behind[p], payment[p]}
    <3>1. CASE \E p \in Payments : NodesCatchUp(p)
      BY <3>1 DEF NodesCatchUp
    <3>2. CASE UNCHANGED behind
      BY <3>2
    <3>3. ASSUME NEW r \in Requests, Handles(r) \/ ApplyPolicy(r) \/ Refund(r)
          PROVE  UNCHANGED behind
      BY <3>3 DEF Handles, Arrive, CheckSigner, Observe, ReaderFails, EvaluateState, StateAnswered,
                  Verify, Answer, ApplyPolicy, Refund, StepOnly, lagVars
    <3>4. CASE (\E j \in Worker : RunWorker(j)) \/ SignerAnswers \/ Restart \/ Outside \/ UNCHANGED vars
      BY <3>2, <3>4 DEF RunWorker, SignerAnswers, Restart, Outside, vars, lagVars
    <3> QED
      BY <3>1, <3>2, <3>3, <3>4 DEF Next, Serve, Handles
  <2> QED
    BY <2>1, <2>2, RequestsAreJobs DEF ReadsInv
<1>1. ASSUME UNCHANGED readVars, \A r \in Requests : pc'[r] \in {"state", "409"} => pc'[r] = pc[r]
      PROVE  ReadsInv'
  BY <1>0, <1>1 DEF readVars, ReadsInv
<1>3. ASSUME NEW r \in Requests, \/ Arrive(r) \/ CheckSigner(r) \/ ReaderFails(r)
                                 \/ ApplyPolicy(r) \/ Answer(r)
      PROVE  ReadsInv'
  <2>1. PICK where : Goto(r, where) /\ where \notin {"state", "409"}
    BY <1>3 DEF Arrive, CheckSigner, ReaderFails, ApplyPolicy, Answer, StepOnly, ThrowsOn
  <2>2. UNCHANGED readVars
    BY <1>3 DEF Arrive, CheckSigner, ReaderFails, ApplyPolicy, Answer, StepOnly
  <2> QED
    BY <1>1, <2>1, <2>2 DEF Goto
<1>4. ASSUME NEW r \in Requests, Observe(r)
      PROVE  ReadsInv'
  <2> DEFINE reading == inFlight[PaymentOf[r]]
  <2>1. /\ pc' = [pc EXCEPT ![r] = "state"]
        /\ PaymentOf[r] \in Payments /\ r # None
    BY <1>4, RequestsAreJobs DEF Observe, Goto
  <2>2. CASE reading # None
    <3>1. awaits' = [awaits EXCEPT ![r] = reading] /\ UNCHANGED <<stateRead, inFlight>>
      BY <1>4, <2>2 DEF Observe
    <3>2. PaymentOf[reading] = PaymentOf[r]
      BY <2>1, <2>2 DEF ReadsInv
    <3> QED
      BY <1>0, <2>1, <2>2, <3>1, <3>2 DEF ReadsInv
  <2>3. CASE reading = None
    <3>1. /\ awaits' = [awaits EXCEPT ![r] = r]
          /\ stateRead' = [stateRead EXCEPT ![r] = "asked"]
          /\ inFlight' = [inFlight EXCEPT ![PaymentOf[r]] = r]
      BY <1>4, <2>3 DEF Observe
    <3>2. "asked" \notin PaymentStates
      BY DEF PaymentStates
    <3> QED
      BY <1>0, <2>1, <3>1, <3>2 DEF ReadsInv
  <2> QED
    BY <2>2, <2>3
<1>5. ASSUME NEW r \in Requests, EvaluateState(r)
      PROVE  ReadsInv'
  <2>1. PICK result \in {"failed"} \cup StateSeen(PaymentOf[r]) :
          stateRead' = [stateRead EXCEPT ![r] = result]
    BY <1>5 DEF EvaluateState
  <2>4. result # "failed" /\ result # "funded" => payment[PaymentOf[r]] # "funded"
    BY <2>1, RequestsAreJobs DEF StateSeen, ReadsInv
  <2>2. "failed" \notin PaymentStates
    BY DEF PaymentStates
  <2>3. UNCHANGED <<pc, awaits, inFlight, payment>>
    BY <1>5 DEF EvaluateState, contractVars
  <2> QED
    BY <1>0, <2>1, <2>2, <2>3, <2>4 DEF ReadsInv
<1>6. ASSUME NEW r \in Requests, StateAnswered(r)
      PROVE  ReadsInv'
  <2>1. /\ inFlight' = [inFlight EXCEPT ![PaymentOf[r]] = None]
        /\ UNCHANGED <<pc, awaits, stateRead>>
    BY <1>6 DEF StateAnswered
  <2> QED
    BY <1>0, <2>1 DEF ReadsInv
<1>7. ASSUME NEW r \in Requests, Verify(r)
      PROVE  ReadsInv'
  <2> DEFINE result == stateRead[awaits[r]]
  <2>1. awaits[r] \in Requests /\ PaymentOf[awaits[r]] = PaymentOf[r]
    BY <1>7 DEF Verify, ReadsInv
  <2>2. PICK where \in {"503", "policy", "409"} :
          pc' = [pc EXCEPT ![r] = where] /\ (where = "409" => result \in PaymentStates \ {"funded"})
    BY <1>7 DEF Verify, Goto, OnFailedRead, Refundable, ReadDone
  <2>3. where = "409" => payment[PaymentOf[r]] # "funded"
    BY <2>1, <2>2 DEF ReadsInv
  <2>4. /\ UNCHANGED <<awaits, inFlight>>
        /\ \A t \in Requests : stateRead'[t] \in {stateRead[t], "none"}
    BY <1>7 DEF Verify
  <2>5. "none" \notin PaymentStates
    BY DEF PaymentStates
  <2> QED
    BY <1>0, <2>2, <2>3, <2>4, <2>5 DEF ReadsInv
<1>8. CASE Restart
  <2>1. /\ UNCHANGED awaits
        /\ \A r \in Requests : stateRead'[r] = "none" /\ pc'[r] \in {pc[r], "lost"}
        /\ \A p \in Payments : inFlight'[p] = None
    BY <1>8 DEF Restart
  <2>2. "none" \notin PaymentStates
    BY DEF PaymentStates
  <2> QED
    BY <1>0, <2>1, <2>2 DEF ReadsInv
<1>9. CASE \/ \E r \in Requests : Refund(r)
           \/ \E j \in Worker : RunWorker(j)
           \/ SignerAnswers \/ Outside \/ (\E p \in Payments : NodesCatchUp(p)) \/ UNCHANGED vars
  <2>1. UNCHANGED <<pc, readVars>>
    BY <1>9 DEF Refund, RunWorker, SignerAnswers, Outside, NodesCatchUp, vars
  <2> QED
    BY <1>1, <2>1
<1> QED
  BY <1>3, <1>4, <1>5, <1>6, <1>7, <1>8, <1>9 DEF Next, Serve

LEMMA InvStep ==
  ASSUME IInv, [Next]_vars
  PROVE  IInv'
<1>1. ActionsInv'
  BY NextIsActionsStep, ActionsStepInv DEF IInv
<1> QED
  BY <1>1, TypeStep, HandlerStep, ReadsStep DEF IInv

-----------------------------------------------------------------------------
(* The refunder's variables keep their types.                              *)
THEOREM TypeCorrect == Spec => []TypeOK
<1>1. IInv => TypeOK
  BY DEF IInv
<1> QED
  BY <1>1, InvInit, InvStep, PTL DEF Spec

(* No payment is both settled and refunded by calls that report success:   *)
(* the one that does took the payment out of the funded state.             *)
THEOREM ResultsExclude == Spec => []ResultsAreExclusive
<1>1. IInv => ResultsAreExclusive
  BY DEF IInv, ActionsInv, ConfirmedSucceeded, SuccessResolved, Resolves, ResultsAreExclusive
<1> QED
  BY <1>1, InvInit, InvStep, PTL DEF Spec

(* An error that names a contract error left nothing on the chain.         *)
THEOREM ContractErrorsAreAnswers == Spec => []ContractErrorsLeaveNothing
<1>1. IInv => ContractErrorsLeaveNothing
  BY DEF IInv, ActionsInv, ContractErrorsAreFinal, ContractErrorsLeaveNothing
<1> QED
  BY <1>1, InvInit, InvStep, PTL DEF Spec

(* A refused request has no refund under way, and 409 means that the       *)
(* payment can never be refunded again.                                    *)
THEOREM RefusalsHold == Spec => []RefusalsAreFinal
<1>1. IInv => RefusalsAreFinal
  BY RequestsAreJobs
     DEF IInv, ActionsInv, SentOnlyByBroadcast, HandlerInv, ReadsInv, BeforeRefund, RefusalsAreFinal
<1> QED
  BY <1>1, InvInit, InvStep, PTL DEF Spec

-----------------------------------------------------------------------------
(* The refinement.                                                         *)
Claim == <<holder, fate>>

LEMMA Fates ==
  /\ \A where \in Waiting \cup {"new"} : FateOf(where) = "open"
  /\ \A where \in Refusals : FateOf(where) = "refused"
  /\ \A where \in {"threw", "lost"} : FateOf(where) = "dropped"
  /\ FateOf("200") = "admitted"
  BY DEF FateOf, Waiting, Refusals

LEMMA RefinesInit == Init => Claims!Init
  BY RequestsAreJobs DEF Init, ActionsInit, Claims!Init, FateOf, Refusals, holder, fate

(* A request holds its payment only once its refund was mined.             *)
LEMMA HoldersSucceeded ==
  ASSUME IInv, NEW r \in Requests, holder[PaymentOf[r]] = r
  PROVE  status[r] = "success"
<1>1. leftBy[PaymentOf[r]] = r
  BY RequestsAreJobs DEF holder
<1> QED
  BY <1>1, RequestsAreJobs DEF IInv, ActionsInv, LeaversSucceeded

(* What a handler does on the way to a refusal, or from its refund to its  *)
(* answer.                                                                 *)
Moves(r, where) ==
  /\ pc' = [pc EXCEPT ![r] = where]
  /\ leftBy' = leftBy
  /\ \/ pc[r] \in BeforeRefund \ Refusals /\ where \in Refusals \cup Waiting \cup {"threw"}
     \/ pc[r] = "refund" /\ where \in {"200", "threw"} /\ (where = "200" => step[r] = "confirmed")

LEMMA MovesRefine ==
  ASSUME IInv, NEW r \in Requests, NEW where, Moves(r, where)
  PROVE  [Claims!Next]_Claim
<1>1. holder' = holder /\ PaymentOf[r] \in Payments
  BY RequestsAreJobs DEF Moves, holder
<1>2. fate' = [fate EXCEPT ![r] = FateOf(where)]
  BY DEF Moves, fate, IInv, TypeOK
<1>3. fate[r] = "open"
  BY Fates DEF Moves, fate, BeforeRefund, Waiting
<1>4. CASE where \in Waiting
  BY <1>1, <1>2, <1>3, <1>4, Fates DEF Claim, fate
<1>5. CASE where \in Refusals
  <2>1. status[r] = "none"
    BY <1>5, RequestsAreJobs
       DEF Moves, IInv, HandlerInv, ActionsInv, SentOnlyByBroadcast, Refusals
  <2>2. holder[PaymentOf[r]] # r
    BY <2>1, HoldersSucceeded
  <2>3. fate' = [fate EXCEPT ![r] = "refused"]
    BY <1>2, <1>5, Fates
  <2>4. Claims!Refuse(r)
    BY <1>1, <1>3, <2>2, <2>3 DEF Claims!Refuse, Claims!Close
  <2> QED
    BY <2>4 DEF Claims!Next
<1>6. CASE where = "200"
  <2>1. leftBy[PaymentOf[r]] = r
    BY <1>6, RequestsAreJobs
       DEF Moves, Refusals, Waiting, IInv, HandlerInv, ActionsInv, ConfirmedSucceeded, SuccessResolved,
           Resolves
  <2>2. holder[PaymentOf[r]] = r
    BY <1>1, <2>1 DEF holder
  <2>3. fate' = [fate EXCEPT ![r] = "admitted"]
    BY <1>2, <1>6, Fates
  <2>4. Claims!Admit(r)
    BY <1>1, <1>3, <2>2, <2>3 DEF Claims!Admit, Claims!Close
  <2> QED
    BY <2>4 DEF Claims!Next
<1>7. CASE where = "threw"
  <2>1. fate' = [t \in Requests |-> IF t \in {r} THEN "dropped" ELSE fate[t]]
    BY <1>2, <1>7, Fates DEF fate
  <2>2. Claims!Drop({r})
    BY <1>1, <1>3, <2>1 DEF Claims!Drop
  <2> QED
    BY <2>2 DEF Claims!Next
<1> QED
  BY <1>4, <1>5, <1>6, <1>7 DEF Moves

LEMMA HandlesRefines ==
  ASSUME IInv, NEW r \in Requests, Handles(r) \/ ApplyPolicy(r)
  PROVE  [Claims!Next]_Claim
<1>1. leftBy' = leftBy
  <2>1. CASE Handles(r)
    BY <2>1, HandlesRests DEF IInv, ActionsRest, contractVars
  <2>2. CASE ApplyPolicy(r)
    BY <2>2 DEF ApplyPolicy, StepOnly, Begin, actionVars, contractVars
  <2> QED
    BY <2>1, <2>2
<1>2. CASE EvaluateState(r) \/ StateAnswered(r)
  <2>1. pc' = pc
    BY <1>2 DEF EvaluateState, StateAnswered
  <2> QED
    BY <1>1, <2>1 DEF Claim, holder, fate
<1>3. CASE Arrive(r)
  <2>1. pc[r] = "new" /\ \E where \in {"unproven", "signer", "503"} : Goto(r, where)
    BY <1>3 DEF Arrive
  <2> QED
    BY <1>1, <2>1, MovesRefine DEF Goto, Moves, BeforeRefund, Refusals, Waiting
<1>4. CASE CheckSigner(r)
  <2>1. pc[r] = "signer" /\ \E where \in {"threw", "observer", "403"} : Goto(r, where)
    BY <1>4 DEF CheckSigner, StepOnly
  <2> QED
    BY <1>1, <2>1, MovesRefine DEF Goto, Moves, BeforeRefund, Refusals, Waiting
<1>5. CASE Observe(r) \/ ReaderFails(r)
  <2>1. pc[r] = "observer" /\ \E where \in {"threw", "state"} : Goto(r, where)
    BY <1>5 DEF Observe, ReaderFails
  <2> QED
    BY <1>1, <2>1, MovesRefine DEF Goto, Moves, BeforeRefund, Refusals, Waiting
<1>6. CASE Verify(r)
  <2>1. pc[r] = "state" /\ \E where \in {"503", "policy", "409"} : Goto(r, where)
    BY <1>6 DEF Verify, OnFailedRead
  <2> QED
    BY <1>1, <2>1, MovesRefine DEF Goto, Moves, BeforeRefund, Refusals, Waiting
<1>7. CASE ApplyPolicy(r)
  <2>1. pc[r] = "policy" /\ \E where \in {"403", "refund"} : Goto(r, where)
    BY <1>7 DEF ApplyPolicy, StepOnly
  <2> QED
    BY <1>1, <2>1, MovesRefine DEF Goto, Moves, BeforeRefund, Refusals, Waiting
<1>8. CASE Answer(r)
  <2>1. PICK where \in {"200", "threw"} :
          pc[r] = "refund" /\ Goto(r, where) /\ (where = "200" => step[r] = "confirmed")
    BY <1>8 DEF Answer, StepOnly, ThrowsOn
  <2> QED
    BY <1>1, <2>1, MovesRefine DEF Goto, Moves
<1> QED
  BY <1>2, <1>3, <1>4, <1>5, <1>6, <1>7, <1>8 DEF Handles

(* Mining a refund of a request that took the payment out of the funded    *)
(* state takes the claim; what anybody else does to a payment does not.    *)
LEMMA OutsideRefines ==
  ASSUME IInv, Outside
  PROVE  [Claims!Next]_Claim
<1>1. fate' = fate
  BY DEF Outside, fate
<1>2. ASSUME NEW p \in Payments, NEW by \in Jobs \cup {Party},
             payment[p] = "funded", leftBy' = [leftBy EXCEPT ![p] = by]
      PROVE  /\ holder[p] = None
             /\ by \notin Requests => holder' = holder
             /\ by \in Requests => holder' = [holder EXCEPT ![p] = by]
  <2>1. leftBy[p] = None /\ None \notin Requests
    BY <1>2, RequestsAreJobs DEF IInv, ActionsInv, LeaversSucceeded
  <2>2. leftBy' \in [Payments -> Jobs \cup {None, Party}] /\ leftBy'[p] = by
    BY <1>2 DEF IInv, TypeOK, ActionsTypeOK
  <2>3. \A q \in Payments \ {p} : leftBy'[q] = leftBy[q]
    BY <1>2 DEF IInv, TypeOK, ActionsTypeOK
  <2> QED
    BY <2>1, <2>2, <2>3 DEF holder
<1>3. ASSUME NEW p \in Payments, PartyMoves(p)
      PROVE  [Claims!Next]_Claim
  <2>1. Party \notin Requests
    BY RequestsAreJobs, NobodyAssumption
  <2>2. leftBy' = leftBy \/ (payment[p] = "funded" /\ leftBy' = [leftBy EXCEPT ![p] = Party])
    BY <1>3 DEF PartyMoves, LeavesFunded
  <2>3. holder' = holder
    BY <1>2, <2>1, <2>2 DEF holder
  <2> QED
    BY <1>1, <2>3 DEF Claim
<1>4. CASE Mine
  <2> DEFINE j == Head(pool)
             p == PaymentOf[j]
  <2>1. j \in Jobs /\ p \in Payments /\ status[j] = "pool"
    <3>1. pool \in Seq(Jobs) /\ pool # <<>>
      BY <1>4 DEF Mine, IInv, TypeOK, ActionsTypeOK
    <3>2. 1 \in 1..Len(pool) /\ j = pool[1] /\ j \in Jobs
      BY <3>1
    <3> QED
      BY <3>2, JobsAssumption DEF IInv, ActionsInv, PoolIsPending
  <2>2. leftBy' = leftBy \/ (payment[p] = "funded" /\ leftBy' = [leftBy EXCEPT ![p] = j])
    BY <1>4 DEF Mine, LeavesFunded, contractVars
  <2>3. CASE leftBy' = leftBy
    BY <1>1, <2>3 DEF Claim, holder
  <2>4. CASE j \notin Requests
    BY <1>1, <1>2, <2>1, <2>2, <2>3, <2>4 DEF Claim
  <2>5. CASE /\ j \in Requests
             /\ payment[p] = "funded"
             /\ leftBy' = [leftBy EXCEPT ![p] = j]
    <3>1. pc[j] \in {"refund", "threw", "lost"}
      BY <2>1, <2>5
         DEF IInv, TypeOK, HandlerInv, ActionsInv, SentOnlyByBroadcast, ConfirmedSucceeded, BeforeRefund,
             Waiting, Ended, Refusals
    <3>2. fate[j] \in {"open", "dropped"}
      BY <2>5, <3>1, Fates DEF fate, Waiting
    <3>3. Claims!Take(j)
      BY <1>1, <1>2, <2>1, <2>5, <3>2 DEF Claims!Take
    <3> QED
      BY <2>5, <3>3 DEF Claims!Next
  <2> QED
    BY <2>2, <2>3, <2>4, <2>5
<1> QED
  BY <1>3, <1>4 DEF Outside

(* A restart drops every request underway at once.                         *)
LEMMA RestartRefines ==
  ASSUME IInv, Restart
  PROVE  [Claims!Next]_Claim
<1> DEFINE served == {r \in Requests : pc[r] \in Waiting}
<1>1. /\ pc' = [r \in Requests |-> IF r \in served THEN "lost" ELSE pc[r]]
      /\ holder' = holder
  BY DEF Restart, ProcessStops, contractVars, holder
<1>2. \A r \in served : fate[r] = "open"
  BY Fates DEF fate
<1>3. fate' = [r \in Requests |-> IF r \in served THEN "dropped" ELSE fate[r]]
  BY <1>1, Fates DEF fate
<1>4. Claims!Drop(served)
  BY <1>1, <1>2, <1>3 DEF Claims!Drop
<1>5. served \in SUBSET Requests
  OBVIOUS
<1> QED
  BY <1>4, <1>5 DEF Claims!Next

LEMMA RefinesStep ==
  ASSUME IInv, [Next]_vars
  PROVE  [Claims!Next]_Claim
<1>1. CASE \/ \E r \in Requests : Refund(r)
           \/ \E j \in Worker : RunWorker(j)
           \/ SignerAnswers \/ (\E p \in Payments : NodesCatchUp(p)) \/ UNCHANGED vars
  <2>1. pc' = pc
    BY <1>1 DEF Refund, RunWorker, SignerAnswers, NodesCatchUp, vars
  <2>2. leftBy' = leftBy
    BY <1>1 DEF Refund, RunWorker, SignerAnswers, NodesCatchUp, vars, actionVars, contractVars,
                Begin, Work, Prepare, QuoteAppeal, Broadcast, CallReverts, Receipt, CallFails
  <2> QED
    BY <2>1, <2>2 DEF Claim, holder, fate
<1> QED
  BY <1>1, HandlesRefines, OutsideRefines, RestartRefines DEF Next, Serve, Handles

(* The refunder implements the claim protocol: a payment is refunded to at *)
(* most one request, for good, 200 is its answer alone, and whoever is     *)
(* refused never gets it.                                                  *)
THEOREM RefunderImplementsClaims == Spec => ImplementsClaimProtocol
<1>1. Init => Claims!Init
  BY RefinesInit
<1>2. IInv /\ [Next]_vars => [Claims!Next]_(Claims!claimVars)
  BY RefinesStep DEF Claims!claimVars, Claim
<1> QED
  BY <1>1, <1>2, InvInit, InvStep, PTL DEF Spec, ImplementsClaimProtocol, Claims!Spec

-----------------------------------------------------------------------------
(* Why a handler throws.                                                   *)
(* Whatever a request reads as funded, in a read of its own or in the one  *)
(* it joins, some node still reported when it arrived, or had to the       *)
(* request whose read it is.                                               *)
ArrivalInv ==
  \A r \in Requests :
    /\ pc[r] = "new" => stateRead[r] = "none"
    /\ pc[r] # "new" /\ behind[PaymentOf[r]] = "funded" => fundedAtStart[r]
    /\ \A t \in Requests :
         stateRead[t] = "funded" /\ (\/ t = r
                                     \/ pc[r] = "state" /\ awaits[r] = t
                                     \/ pc[r] # "new" /\ inFlight[PaymentOf[r]] = t) => fundedAtStart[r]

(* A handler throws only on what refundPayment threw, without a fault.     *)
ThrownInv ==
  faults = 0 =>
    /\ signer # "failed"
    /\ \A r \in Requests :
         /\ pc[r] = "threw" => step[r] = "failed"
         /\ pc[r] \in {"policy", "refund", "threw"} => fundedAtStart[r]

ThrowInv == IInv /\ FailedInv /\ ArrivalInv /\ ThrownInv

LEMMA FaultsGrow ==
  ASSUME TypeOK, [Next]_vars
  PROVE  faults' = 0 => faults = 0
<1>1. faults' = faults \/ Fault
  <2>1. ASSUME NEW j \in Jobs, Work(j)
        PROVE  faults' = faults \/ Fault
    BY <2>1 DEF Work, Prepare, QuoteAppeal, Broadcast, CallReverts, Receipt, CallFails
  <2>2. ASSUME NEW j \in Jobs, NEW op, Begin(j, op)
        PROVE  faults' = faults
    BY <2>2 DEF Begin
  <2>3. ASSUME NEW r \in Requests, Handles(r)
        PROVE  faults' = faults \/ Fault
    BY <2>3 DEF Handles, Arrive, CheckSigner, Observe, ReaderFails, EvaluateState, StateAnswered,
                Verify, Answer, StepOnly, actionVars
  <2>4. ASSUME NEW r \in Requests, ApplyPolicy(r) \/ Refund(r)
        PROVE  faults' = faults \/ Fault
    BY <2>1, <2>2, <2>4, RequestsAreJobs DEF ApplyPolicy, Refund, StepOnly, actionVars
  <2>5. ASSUME NEW j \in Worker, RunWorker(j)
        PROVE  faults' = faults \/ Fault
    BY <2>1, <2>2, <2>5, RequestsAreJobs DEF RunWorker
  <2>6. CASE SignerAnswers \/ Restart \/ Outside \/ (\E p \in Payments : NodesCatchUp(p)) \/ UNCHANGED vars
    BY <2>6 DEF SignerAnswers, Restart, ProcessStops, Outside, Mine, PartyMoves, NodesCatchUp, vars,
                actionVars
  <2> QED
    BY <2>3, <2>4, <2>5, <2>6 DEF Next, Serve, Handles
<1> QED
  BY <1>1 DEF Fault, TypeOK, ActionsTypeOK

LEMMA ArrivalStep ==
  ASSUME IInv, ArrivalInv, [Next]_vars
  PROVE  ArrivalInv'
<1> USE DEF IInv, TypeOK
<1>1. ASSUME UNCHANGED <<awaits, lagVars>>,
             \A p \in Payments : inFlight'[p] \in {inFlight[p], None},
             \A r \in Requests : /\ pc'[r] # pc[r] => pc[r] # "new" /\ pc'[r] \notin {"new", "state"}
                                 /\ stateRead'[r] \in {stateRead[r], "none"}
      PROVE  ArrivalInv'
  BY <1>1, RequestsAreJobs DEF ArrivalInv, lagVars
<1>2. ASSUME NEW r \in Requests, Arrive(r)
      PROVE  ArrivalInv'
  <2>1. /\ pc[r] = "new" /\ pc'[r] \in {"unproven", "signer", "503"}
        /\ \A t \in Requests \ {r} : pc'[t] = pc[t] /\ fundedAtStart'[t] = fundedAtStart[t]
        /\ fundedAtStart'[r] = FundedToday(r)
        /\ UNCHANGED <<readVars, behind>>
    BY <1>2 DEF Arrive, Goto
  <2>2. stateRead[r] = "none" /\ UNCHANGED <<awaits, stateRead, inFlight>>
    BY <2>1 DEF ArrivalInv, readVars
  <2>3. behind[PaymentOf[r]] = "funded" => fundedAtStart'[r]
    BY <2>1 DEF FundedToday, StateSeen
  <2>4. ASSUME NEW t \in Requests, stateRead[t] = "funded", inFlight[PaymentOf[r]] = t
        PROVE  fundedAtStart'[r]
    BY <2>1, <2>4, RequestsAreJobs DEF FundedToday, ArrivalInv
  <2> QED
    BY <2>1, <2>2, <2>3, <2>4 DEF ArrivalInv
<1>3. ASSUME NEW r \in Requests,
             CheckSigner(r) \/ ReaderFails(r) \/ StateAnswered(r) \/ ApplyPolicy(r) \/ Answer(r)
      PROVE  ArrivalInv'
  <2>1. /\ UNCHANGED <<awaits, lagVars, stateRead>>
        /\ \A p \in Payments : inFlight'[p] \in {inFlight[p], None}
    BY <1>3 DEF CheckSigner, ReaderFails, StateAnswered, ApplyPolicy, Answer, StepOnly, readVars
  <2>2. \/ pc' = pc
        \/ pc[r] # "new" /\ \E where \in {"threw", "observer", "403", "refund", "200"} : Goto(r, where)
    BY <1>3 DEF CheckSigner, ReaderFails, StateAnswered, ApplyPolicy, Answer, StepOnly, ThrowsOn
  <2> QED
    BY <1>1, <2>1, <2>2 DEF Goto
<1>4. ASSUME NEW r \in Requests, Observe(r)
      PROVE  ArrivalInv'
  <2> DEFINE reading == inFlight[PaymentOf[r]]
  <2>1. /\ pc[r] = "observer" /\ pc'[r] = "state" /\ \A t \in Requests \ {r} : pc'[t] = pc[t]
        /\ UNCHANGED lagVars /\ PaymentOf[r] \in Payments
    BY <1>4, RequestsAreJobs DEF Observe, Goto
  <2>2. CASE reading # None
    <3>1. awaits' = [awaits EXCEPT ![r] = reading] /\ UNCHANGED <<stateRead, inFlight>>
      BY <1>4, <2>2 DEF Observe
    <3> QED
      BY <2>1, <3>1 DEF ArrivalInv, lagVars
  <2>3. CASE reading = None
    <3>1. /\ awaits' = [awaits EXCEPT ![r] = r]
          /\ stateRead' = [stateRead EXCEPT ![r] = "asked"]
          /\ inFlight' = [inFlight EXCEPT ![PaymentOf[r]] = r]
      BY <1>4, <2>3 DEF Observe
    <3> QED
      BY <2>1, <3>1, RequestsAreJobs DEF ArrivalInv, lagVars
  <2> QED
    BY <2>2, <2>3
<1>5. ASSUME NEW r \in Requests, EvaluateState(r)
      PROVE  ArrivalInv'
  <2>1. /\ stateRead[r] = "asked" /\ stateRead'[r] \in {"failed"} \cup StateSeen(PaymentOf[r])
        /\ \A t \in Requests \ {r} : stateRead'[t] = stateRead[t]
        /\ UNCHANGED <<pc, awaits, inFlight, lagVars>>
    BY <1>5 DEF EvaluateState
  <2>2. pc[r] # "new"
    BY <2>1 DEF ArrivalInv
  <2>3. stateRead'[r] = "funded" => behind[PaymentOf[r]] = "funded"
    BY <2>1, RequestsAreJobs DEF StateSeen, ReadsInv
  <2>4. ASSUME NEW t \in Requests, stateRead'[r] = "funded", pc[t] # "new", PaymentOf[t] = PaymentOf[r]
        PROVE  fundedAtStart[t]
    BY <2>3, <2>4 DEF ArrivalInv
  <2>5. \A t \in Requests : \/ t = r
                            \/ pc[t] = "state" /\ awaits[t] = r
                            \/ pc[t] # "new" /\ inFlight[PaymentOf[t]] = r
                            => pc[t] # "new" /\ PaymentOf[t] = PaymentOf[r]
    BY <2>2, RequestsAreJobs DEF ReadsInv
  <2> QED
    BY <2>1, <2>2, <2>4, <2>5 DEF ArrivalInv, lagVars
<1>6. ASSUME NEW r \in Requests, Verify(r)
      PROVE  ArrivalInv'
  <2>1. /\ pc[r] = "state" /\ pc'[r] \in {"503", "policy", "409"}
        /\ \A t \in Requests \ {r} : pc'[t] = pc[t]
        /\ UNCHANGED <<awaits, inFlight, lagVars>>
        /\ \A t \in Requests : stateRead'[t] \in {stateRead[t], "none"}
    BY <1>6 DEF Verify, Goto, OnFailedRead
  <2> QED
    BY <1>1, <2>1
<1>7. CASE Restart
  <2>1. \A r \in Requests : /\ pc'[r] # pc[r] => pc[r] # "new" /\ pc'[r] = "lost"
                            /\ stateRead'[r] = "none"
    BY <1>7 DEF Restart, Waiting
  <2>2. UNCHANGED <<awaits, lagVars>> /\ \A p \in Payments : inFlight'[p] = None
    BY <1>7 DEF Restart
  <2> QED
    BY <1>1, <2>1, <2>2
<1>8. ASSUME NEW p \in Payments, NodesCatchUp(p)
      PROVE  ArrivalInv'
  <2>1. /\ UNCHANGED <<pc, awaits, stateRead, inFlight, fundedAtStart>>
        /\ \A q \in Payments : behind'[q] \in {behind[q], payment[q]}
    BY <1>8 DEF NodesCatchUp, readVars
  <2>2. \A r \in Requests : behind'[PaymentOf[r]] = "funded" => behind[PaymentOf[r]] = "funded"
    BY <2>1, RequestsAreJobs DEF ReadsInv
  <2> QED
    BY <2>1, <2>2 DEF ArrivalInv
<1>9. CASE \/ \E r \in Requests : Refund(r)
           \/ \E j \in Worker : RunWorker(j)
           \/ SignerAnswers \/ Outside \/ UNCHANGED vars
  <2>1. UNCHANGED <<pc, readVars, lagVars>>
    BY <1>9 DEF Refund, RunWorker, SignerAnswers, Outside, vars
  <2> QED
    BY <1>1, <2>1 DEF readVars
<1> QED
  BY <1>2, <1>3, <1>4, <1>5, <1>6, <1>7, <1>8, <1>9 DEF Next, Serve

LEMMA ThrownStep ==
  ASSUME ThrowInv, [Next]_vars
  PROVE  ThrownInv'
<1> USE DEF ThrowInv, IInv, TypeOK
<1> SUFFICES ASSUME faults' = 0
             PROVE  /\ signer' # "failed"
                    /\ \A r \in Requests :
                         /\ pc'[r] = "threw" => step'[r] = "failed"
                         /\ pc'[r] \in {"policy", "refund", "threw"} => fundedAtStart'[r]
  BY DEF ThrownInv
<1>0. /\ faults = 0 /\ ~Fault /\ signer # "failed"
      /\ \A r \in Requests :
           /\ pc[r] = "threw" => step[r] = "failed"
           /\ pc[r] \in {"policy", "refund", "threw"} => fundedAtStart[r]
  BY FaultsGrow DEF ThrownInv, Fault
<1>1. signer' # "failed"
  BY <1>0 DEF Next, Serve, Arrive, CheckSigner, Observe, ReaderFails, EvaluateState, StateAnswered,
              Verify, ApplyPolicy, Refund, Answer, StepOnly, RunWorker, SignerAnswers, Restart,
              Outside, NodesCatchUp, vars
<1>2. ASSUME UNCHANGED fundedAtStart,
             \A r \in Requests :
               /\ pc[r] = "threw" => step'[r] = step[r]
               /\ pc'[r] = "threw" => pc[r] = "threw"
               /\ pc'[r] \in {"policy", "refund", "threw"} =>
                    pc[r] \in {"policy", "refund", "threw"}
      PROVE  \A r \in Requests :
               /\ pc'[r] = "threw" => step'[r] = "failed"
               /\ pc'[r] \in {"policy", "refund", "threw"} => fundedAtStart'[r]
  BY <1>0, <1>2
<1> DEFINE Goal == \A r \in Requests :
                     /\ pc'[r] = "threw" => step'[r] = "failed"
                     /\ pc'[r] \in {"policy", "refund", "threw"} => fundedAtStart'[r]
<1>3. ASSUME NEW r \in Requests, Handles(r)
      PROVE  Goal
  <2>0. step' = step
    BY <1>3, HandlesRests DEF ActionsRest, jobVars
  <2>1. CASE Arrive(r)
    <3>1. /\ pc'[r] \in {"unproven", "signer", "503"}
          /\ \A t \in Requests \ {r} : pc'[t] = pc[t] /\ fundedAtStart'[t] = fundedAtStart[t]
      BY <2>1 DEF Arrive, Goto
    <3> QED
      BY <1>0, <2>0, <3>1
  <2>2. CASE CheckSigner(r)
    <3>1. /\ pc'[r] \in {"observer", "403"} /\ \A t \in Requests \ {r} : pc'[t] = pc[t]
          /\ UNCHANGED fundedAtStart
      BY <1>0, <2>2 DEF CheckSigner, StepOnly, Goto, lagVars
    <3> QED
      BY <1>2, <2>0, <3>1
  <2>3. CASE Observe(r)
    <3>1. /\ pc'[r] = "state"
          /\ \A t \in Requests \ {r} : pc'[t] = pc[t]
          /\ UNCHANGED fundedAtStart
      BY <2>3 DEF Observe, Goto, lagVars
    <3> QED
      BY <1>2, <2>0, <3>1
  <2>4. CASE ReaderFails(r)
    BY <1>0, <2>4 DEF ReaderFails
  <2>5. CASE EvaluateState(r) \/ StateAnswered(r)
    <3>1. UNCHANGED <<pc, fundedAtStart>>
      BY <2>5 DEF EvaluateState, StateAnswered, lagVars
    <3> QED
      BY <1>2, <2>0, <3>1
  <2>6. CASE Verify(r)
    <3> DEFINE result == stateRead[awaits[r]]
    <3>1. /\ pc'[r] \in {"503", "policy", "409"} /\ \A t \in Requests \ {r} : pc'[t] = pc[t]
          /\ pc'[r] = "policy" => result = "funded"
          /\ UNCHANGED fundedAtStart
      BY <2>6 DEF Verify, Goto, OnFailedRead, Refundable, lagVars
    <3>2. pc'[r] = "policy" => fundedAtStart[r]
      BY <2>6, <3>1 DEF Verify, ArrivalInv, ReadsInv
    <3> QED
      BY <1>0, <2>0, <3>1, <3>2
  <2>7. CASE Answer(r)
    <3>1. /\ pc[r] = "refund" /\ pc'[r] \in {"200", "threw"} /\ \A t \in Requests \ {r} : pc'[t] = pc[t]
          /\ pc'[r] = "threw" => step[r] = "failed"
          /\ UNCHANGED fundedAtStart
      BY <2>7 DEF Answer, StepOnly, Goto, ThrowsOn, lagVars
    <3> QED
      BY <1>0, <2>0, <3>1
  <2> QED
    BY <1>3, <2>1, <2>2, <2>3, <2>4, <2>5, <2>6, <2>7 DEF Handles
<1>4. ASSUME NEW r \in Requests, ApplyPolicy(r)
      PROVE  Goal
  <2>1. /\ pc[r] = "policy" /\ pc'[r] \in {"403", "refund"} /\ \A t \in Requests \ {r} : pc'[t] = pc[t]
        /\ UNCHANGED fundedAtStart
    BY <1>4 DEF ApplyPolicy, StepOnly, Goto, lagVars
  <2>2. \A t \in Requests \ {r} : step'[t] = step[t]
    BY <1>4, RequestsAreJobs DEF ApplyPolicy, Begin, StepOnly, actionVars, jobVars, ActionsTypeOK
  <2> QED
    BY <1>0, <2>1, <2>2
<1>5. ASSUME NEW j \in Jobs, UNCHANGED <<pc, fundedAtStart>>,
             Work(j) \/ \E op \in Operations : Begin(j, op)
      PROVE  Goal
  <2>1. step[j] # "failed" /\ \A k \in Jobs \ {j} : step'[k] = step[k]
    <3>1. CASE Work(j)
      BY <3>1, WorkMoves DEF Underway
    <3>2. CASE \E op \in Operations : Begin(j, op)
      BY <3>2 DEF Begin, ActionsTypeOK
    <3> QED
      BY <1>5, <3>1, <3>2
  <2>2. \A r \in Requests : pc[r] = "threw" => r \in Jobs \ {j}
    BY <1>0, <2>1, RequestsAreJobs
  <2> QED
    BY <1>2, <1>5, <2>1, <2>2
<1>6. CASE Restart
  BY <1>0, <1>6 DEF Restart, ProcessStops, lagVars
<1>7. CASE SignerAnswers \/ Outside \/ (\E p \in Payments : NodesCatchUp(p)) \/ UNCHANGED vars
  <2>1. UNCHANGED <<pc, step, fundedAtStart>>
    BY <1>7 DEF SignerAnswers, Outside, Mine, PartyMoves, NodesCatchUp, vars, actionVars, jobVars,
                lagVars
  <2> QED
    BY <1>1, <1>2, <2>1
<1>8. Goal
  BY <1>3, <1>4, <1>5, <1>6, <1>7, RequestsAreJobs
     DEF Next, Serve, Handles, Refund, RunWorker, lagVars
<1> QED
  BY <1>1, <1>8

LEMMA ThrowInit == Init => ThrowInv
<1> SUFFICES ASSUME Init
             PROVE  ThrowInv
  OBVIOUS
<1>1. FailedInv
  BY FailedInit DEF Init
<1>2. ArrivalInv /\ ThrownInv
  BY DEF Init, ArrivalInv, ThrownInv
<1> QED
  BY <1>1, <1>2, InvInit DEF ThrowInv

LEMMA ThrowStep ==
  ASSUME ThrowInv, [Next]_vars
  PROVE  ThrowInv'
<1>1. ActionsInv /\ TypeOK
  BY DEF ThrowInv, IInv
<1>2. FailedInv'
  BY <1>1, FailedStep, FaultsGrow, NextIsActionsStep DEF ThrowInv
<1> QED
  BY <1>2, InvStep, ArrivalStep, ThrownStep DEF ThrowInv

(* refunder() throws only because the node, the signer or the process      *)
(* failed or somebody else moved the payment, after the nodes could report *)
(* it funded to the request or to the one whose read it joined.            *)
THEOREM RefunderThrowsForCause == Spec => []ThrowsOnlyForCause
<1>1. ThrowInv => ThrowsOnlyForCause
  <2> SUFFICES ASSUME ThrowInv, NEW r \in Requests, pc[r] = "threw", faults = 0
               PROVE  /\ \/ leftBy[PaymentOf[r]] \notin {None, r}
                         \/ \E j \in Rivals(r) : status[j] = "pool"
                      /\ fundedAtStart[r]
    BY DEF ThrowsOnlyForCause
  <2>1. step[r] = "failed" /\ fundedAtStart[r]
    BY DEF ThrowInv, ThrownInv
  <2>2. r \in Jobs /\ Resolves(r)
    BY <2>1, RequestsAreJobs DEF ThrowInv, IInv, HandlerInv, Resolves
  <2>3. Excused(r)
    BY <2>1, <2>2 DEF ThrowInv, FailedInv
  <2> QED
    BY <2>1, <2>3 DEF Excused
<1> QED
  BY <1>1, ThrowInit, ThrowStep, PTL DEF Spec
=============================================================================
