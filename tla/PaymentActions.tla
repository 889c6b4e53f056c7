--------------------------- MODULE PaymentActions ---------------------------
(***************************************************************************)
(* paymentActions (src/src/server/payment-actions.ts) of one process: the  *)
(* payee's settle, refund, consume, submit-evidence and appeal.            *)
(*                                                                         *)
(* Every value paymentActions() returns has a broadcast queue of its own,  *)
(* and all of them send from one wallet.  A queue is a serial executor     *)
(* (see BroadcastQueue): its head estimates and sends one transaction.     *)
(* The network mines the wallet's transactions in nonce order, the order   *)
(* they were accepted in.  The contract is external: modelled from how the *)
(* actions, the verifier and the documents use it.                         *)
(***************************************************************************)
EXTENDS Naturals, Sequences

CONSTANTS
  Jobs,        \* calls of the actions
  Instances,   \* values returned by paymentActions()
  InstanceOf,  \* the instance each job is a call of
  Payments,
  PaymentOf,   \* the payment each job is about
  None,        \* nobody
  Party,       \* whoever else moves a payment: payer, arbiter
  MaxFaults    \* bound on failures of the node, the signer and the process

ASSUME JobsAssumption == InstanceOf \in [Jobs -> Instances] /\ PaymentOf \in [Jobs -> Payments]
ASSUME NobodyAssumption == None \notin Jobs /\ Party \notin Jobs /\ None # Party

VARIABLES
  operation,  \* operation[j]: what job j does
  step,       \* step[j]: what it waits for, or how it ended
  error,      \* error[j]: what the thrown D402PaymentExecutionError names
  queue,      \* queue[i]: jobs handed to the broadcast queue of instance i
  pool,       \* transactions accepted and not mined, in nonce order
  status,     \* status[j]: the transaction of job j
  payment,    \* payment[p]: the contract's state
  consumed,   \* the payments that have been consumed
  leftBy,     \* leftBy[p]: who took p out of the funded state
  faults      \* failures so far, counted for the bound

jobVars == <<operation, step, error, queue>>
contractVars == <<payment, consumed, leftBy>>
actionVars == <<jobVars, pool, status, contractVars, faults>>

Operations == {"settle", "refund", "consume", "submit-evidence", "appeal"}
Underway == {"prepare", "quote", "queued", "mined"}
(* A ruling can be appealed until it is final ("resolved").                *)
PaymentStates == {"funded", "settled", "refunded", "disputed", "ruled", "resolved"}

ActionsInit ==
  /\ operation = [j \in Jobs |-> "none"]
  /\ step = [j \in Jobs |-> "idle"]
  /\ error = [j \in Jobs |-> "none"]
  /\ queue = [i \in Instances |-> <<>>]
  /\ pool = <<>>
  /\ status = [j \in Jobs |-> "none"]
  /\ payment = [p \in Payments |-> "funded"]
  /\ consumed = {}
  /\ leftBy = [p \in Payments |-> None]
  /\ faults = 0

Fault == faults < MaxFaults /\ faults' = faults + 1

-----------------------------------------------------------------------------
(* The contract.                                                           *)
Reverts(j) ==
  LET p == PaymentOf[j] IN
  CASE operation[j] \in {"settle", "refund"} -> payment[p] # "funded"
    [] operation[j] = "consume" -> p \in consumed
    [] operation[j] = "submit-evidence" -> payment[p] # "disputed"
    [] operation[j] = "appeal" -> payment[p] # "ruled"
    [] OTHER -> TRUE

After(j) ==
  CASE operation[j] = "settle" -> "settled"
    [] operation[j] = "refund" -> "refunded"
    [] operation[j] = "appeal" -> "disputed"
    [] OTHER -> payment[PaymentOf[j]]

LeavesFunded(p, by) ==
  leftBy' = IF payment[p] = "funded" /\ payment'[p] # "funded"
              THEN [leftBy EXCEPT ![p] = by] ELSE leftBy

(* The network mines the wallet's next transaction.                        *)
Mine ==
  /\ pool # <<>>
  /\ LET j == Head(pool)
         p == PaymentOf[j]
     IN
     IF Reverts(j)
       THEN /\ status' = [status EXCEPT ![j] = "reverted"]
            /\ UNCHANGED contractVars
       ELSE /\ status' = [status EXCEPT ![j] = "success"]
            /\ payment' = [payment EXCEPT ![p] = After(j)]
            /\ consumed' = IF operation[j] = "consume" THEN consumed \cup {p} ELSE consumed
            /\ LeavesFunded(p, j)
  /\ pool' = Tail(pool)
  /\ UNCHANGED <<jobVars, faults>>

(* The payer settles or disputes; the arbiter rules; the ruling is final.  *)
PartyMoves(p) ==
  /\ \E next \in PaymentStates :
       /\ <<payment[p], next>> \in {<<"funded", "settled">>, <<"funded", "disputed">>,
                                    <<"disputed", "ruled">>, <<"ruled", "resolved">>}
       /\ payment' = [payment EXCEPT ![p] = next]
  /\ LeavesFunded(p, Party)
  /\ UNCHANGED <<jobVars, pool, status, consumed, faults>>

-----------------------------------------------------------------------------
(* The helpers below say what happens to the job alone; the module that    *)
(* calls the actions adds its own state.                                   *)
Begin(j, op) ==
  /\ step[j] = "idle"
  /\ operation' = [operation EXCEPT ![j] = op]
  /\ step' = [step EXCEPT ![j] = "prepare"]
  /\ UNCHANGED <<error, queue, pool, status, contractVars, faults>>

HandOver(j) ==
  /\ step' = [step EXCEPT ![j] = "queued"]
  /\ queue' = [queue EXCEPT ![InstanceOf[j]] = Append(@, j)]

(* The wallet's address, the chain id and the SDK client (payment-actions  *)
(* 154-170); an appeal first asks for the appeal's cost and period.        *)
Prepare(j) ==
  /\ step[j] = "prepare"
  /\ IF operation[j] = "appeal"
       THEN step' = [step EXCEPT ![j] = "quote"] /\ UNCHANGED queue
       ELSE HandOver(j)
  /\ UNCHANGED <<operation, error, pool, status, contractVars, faults>>

QuoteAppeal(j) ==
  /\ step[j] = "quote"
  /\ payment[PaymentOf[j]] = "ruled"
  /\ HandOver(j)
  /\ UNCHANGED <<operation, error, pool, status, contractVars, faults>>

AtHead(j) == queue[InstanceOf[j]] # <<>> /\ Head(queue[InstanceOf[j]]) = j
StaysInQueue(j) == UNCHANGED queue
LeaveQueue(j) == queue' = [queue EXCEPT ![InstanceOf[j]] = Tail(@)]

IntoPool(j) ==
  /\ pool' = Append(pool, j)
  /\ status' = [status EXCEPT ![j] = "pool"]

PassesEstimation(j) == ~Reverts(j)

Broadcast(j) ==
  /\ step[j] = "queued"
  /\ AtHead(j)
  /\ PassesEstimation(j)
  /\ IntoPool(j)
  /\ step' = [step EXCEPT ![j] = "mined"]
  /\ LeaveQueue(j)
  /\ UNCHANGED <<operation, error, contractVars, faults>>

(* executePaymentOperation: the job throws.  The adapter's decoder finds   *)
(* the contract's error only where a call was simulated.                   *)
Throw(j, named) ==
  /\ step' = [step EXCEPT ![j] = "failed"]
  /\ error' = [error EXCEPT ![j] = named]

(* A node that simulates on its pending state counts in what its pool does *)
(* to the payment.                                                         *)
Clashing == {{"settle", "refund"}, {"settle"}, {"refund"}, {"consume"}, {"appeal"}}
Rivals(j) ==
  {k \in Jobs \ {j} : PaymentOf[k] = PaymentOf[j] /\ {operation[k], operation[j]} \in Clashing}
MayRevert(j) == Reverts(j) \/ \E k \in Rivals(j) : status[k] = "pool"

CallReverts(j) ==
  /\ MayRevert(j)
  /\ \/ step[j] = "quote" /\ UNCHANGED queue
     \/ step[j] = "queued" /\ AtHead(j) /\ LeaveQueue(j)
  /\ Throw(j, "contract")
  /\ UNCHANGED <<operation, pool, status, contractVars, faults>>

(* The receipt: waitForSuccessfulReceipt throws on a reverted one.         *)
NamesRevertedReceipt == "contract"
ErrorOfReceipt == "other"
IgnoresStatus(result) == TRUE
IsSuccessful(result) == result = "success"

Receipt(j) ==
  /\ step[j] = "mined"
  /\ status[j] \in {"success", "reverted"}
  /\ IF IsSuccessful(status[j])
       THEN step' = [step EXCEPT ![j] = "confirmed"] /\ UNCHANGED error
       ELSE Throw(j, ErrorOfReceipt)
  /\ UNCHANGED <<operation, queue, pool, status, contractVars, faults>>

(* The signer or the node fails an awaited call; a send whose answer is    *)
(* lost may have been accepted.                                            *)
CallFails(j) ==
  /\ Fault
  /\ \/ step[j] \in {"prepare", "quote", "mined"} /\ UNCHANGED <<queue, pool, status>>
     \/ /\ step[j] = "queued" /\ AtHead(j) /\ LeaveQueue(j)
        /\ \/ UNCHANGED <<pool, status>>
           \/ ~Reverts(j) /\ IntoPool(j)
  /\ Throw(j, "other")
  /\ UNCHANGED <<operation, contractVars>>

Work(j) ==
  Prepare(j) \/ QuoteAppeal(j) \/ Broadcast(j) \/ CallReverts(j) \/ Receipt(j) \/ CallFails(j)

(* The process stops: jobs and queues are gone, the pool is not.           *)
ProcessStops ==
  /\ Fault
  /\ step' = [j \in Jobs |-> IF step[j] \in Underway THEN "failed" ELSE step[j]]
  /\ queue' = [i \in Instances |-> <<>>]
  /\ UNCHANGED <<operation, error, pool, status, contractVars>>

-----------------------------------------------------------------------------
ActionsTypeOK ==
  /\ operation \in [Jobs -> Operations \cup {"none"}]
  /\ step \in [Jobs -> Underway \cup {"idle", "confirmed", "failed"}]
  /\ error \in [Jobs -> {"none", "contract", "other"}]
  /\ queue \in [Instances -> Seq(Jobs)]
  /\ pool \in Seq(Jobs)
  /\ status \in [Jobs -> {"none", "pool", "success", "reverted"}]
  /\ payment \in [Payments -> PaymentStates]
  /\ consumed \subseteq Payments
  /\ leftBy \in [Payments -> Jobs \cup {None, Party}]
  /\ faults \in Nat

(* A settlement or refund that resolved to a result is the one that took   *)
(* the payment out of the funded state, whatever the other instances, the  *)
(* payer and the arbiter do: no payment is both settled and refunded       *)
(* (docs/refunds.md: "they cannot both successfully refund the same        *)
(* payment").                                                              *)
ResultsAreExclusive ==
  \A j \in Jobs : step[j] = "confirmed" /\ operation[j] \in {"settle", "refund"} =>
    leftBy[PaymentOf[j]] = j /\ payment[PaymentOf[j]] = After(j)

(* An error that names a contract error was thrown before anything of the  *)
(* job was broadcast: the caller (Once, a worker) may treat it as an       *)
(* answer.  Any other error leaves open whether the transaction counts.    *)
ContractErrorsLeaveNothing ==
  \A j \in Jobs : error[j] = "contract" => status[j] = "none"
=============================================================================
