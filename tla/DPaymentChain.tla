---------------------------- MODULE DPaymentChain ----------------------------
(***************************************************************************)
(* The chain and the dPayment contract, as far as the server depends on    *)
(* them.  External to the repository: modelled from how src/src/server     *)
(* reads it (receipt block numbers, the latest block, the contract state,  *)
(* the AlreadyConsumed revert, reverted receipts).  Each request of the    *)
(* server may have one consume transaction on its way.                     *)
(***************************************************************************)
EXTENDS Naturals

CONSTANTS
  Payments,   \* dPayments
  Requests,   \* requests to the server
  PaymentOf,  \* the payment whose proof each request carries
  None,       \* no request
  MaxHeight,  \* bound on the chain
  MaxReorgs   \* bound on reorganisations, each of the last block

ASSUME PaymentOfAssumption == PaymentOf \in [Requests -> Payments]
ASSUME NoneAssumption == None \notin Requests

VARIABLES
  height,      \* number of the latest block
  creation,    \* creation[p]: block of p's creation transaction, 0 if not mined
  state,       \* state[p]: what the contract reports, in the server's words
  stateBefore, \* stateBefore[p]: what it reported at the block before the latest
  claim,       \* claim[r]: the consume transaction of request r
  consumedBy,  \* consumedBy[p]: the request whose transaction consumed p
  reorgs       \* reorganisations so far, counted for the bound

chainVars == <<height, creation, state, stateBefore, claim, consumedBy, reorgs>>

PaymentStates == {"funded", "settled", "disputed", "resolved"}
Transitions == {<<"funded", "settled">>, <<"funded", "disputed">>,
                <<"funded", "resolved">>, <<"disputed", "resolved">>}

ChainInit ==
  /\ height = 1
  /\ creation = [p \in Payments |-> 0]
  /\ state = [p \in Payments |-> "funded"]
  /\ stateBefore = [p \in Payments |-> "funded"]
  /\ claim = [r \in Requests |-> "none"]
  /\ consumedBy = [p \in Payments |-> None]
  /\ reorgs = 0

(* A block, with or without the creation of a payment.                     *)
NewBlock ==
  /\ height < MaxHeight
  /\ height' = height + 1
  /\ \/ UNCHANGED creation
     \/ \E p \in Payments :
          /\ creation[p] = 0
          /\ creation' = [creation EXCEPT ![p] = height + 1]
  /\ stateBefore' = state
  /\ UNCHANGED <<state, claim, consumedBy, reorgs>>

(* The last block is replaced; what it created is unmined again.           *)
Reorg ==
  /\ reorgs < MaxReorgs
  /\ height > 1
  /\ height' = height - 1
  /\ creation' = [p \in Payments |-> IF creation[p] = height THEN 0 ELSE creation[p]]
  /\ state' = [p \in Payments |-> IF creation[p] = height THEN "funded" ELSE state[p]]
  /\ stateBefore' =
       [p \in Payments |-> IF creation[p] = height THEN "funded" ELSE stateBefore[p]]
  /\ reorgs' = reorgs + 1
  /\ UNCHANGED <<claim, consumedBy>>

(* Settlement, dispute, refund, ruling: by the parties or the arbiter.     *)
PaymentMoves(p) ==
  /\ creation[p] # 0
  /\ \E s \in PaymentStates :
       /\ <<state[p], s>> \in Transitions
       /\ state' = [state EXCEPT ![p] = s]
  /\ UNCHANGED <<height, creation, stateBefore, claim, consumedBy, reorgs>>

(* A consume transaction is mined: the contract lets the first one through *)
(* and reverts the others with AlreadyConsumed.                            *)
MineClaim(r) ==
  LET p == PaymentOf[r] IN
  /\ claim[r] = "pool"
  /\ IF consumedBy[p] = None
       THEN /\ consumedBy' = [consumedBy EXCEPT ![p] = r]
            /\ claim' = [claim EXCEPT ![r] = "success"]
       ELSE /\ claim' = [claim EXCEPT ![r] = "reverted"]
            /\ UNCHANGED consumedBy
  /\ UNCHANGED <<height, creation, state, stateBefore, reorgs>>

ChainNext ==
  \/ NewBlock
  \/ Reorg
  \/ \E p \in Payments : PaymentMoves(p)
  \/ \E r \in Requests : MineClaim(r)

(* A node that answers may be a block behind the latest.                   *)
HeadSeen == {height, height - 1}
StateSeen(p) == {state[p]} \cup (IF creation[p] < height THEN {stateBefore[p]} ELSE {})
CreationSeen(p) == {creation[p]} \cup (IF creation[p] = height THEN {0} ELSE {})

Rivals(r) == {t \in Requests \ {r} : PaymentOf[t] = PaymentOf[r]}
=============================================================================
