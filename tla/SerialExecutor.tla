--------------------------- MODULE SerialExecutor ---------------------------
(***************************************************************************)
(* What a broadcast queue promises: the operations handed to one queue run *)
(* one at a time, in the order they were handed over, and one that fails   *)
(* releases the queue like one that succeeds.  The abstract counterpart of *)
(* BroadcastQueue.                                                         *)
(***************************************************************************)
EXTENDS Sequences

CONSTANTS Ops, Queues, NoOp

VARIABLES waiting,   \* waiting[q]: operations handed over and not yet begun
          active,    \* active[q]: the operation queue q is running, or NoOp
          finished   \* operations that have returned or thrown

execVars == <<waiting, active, finished>>

Init ==
  /\ waiting = [q \in Queues |-> <<>>]
  /\ active = [q \in Queues |-> NoOp]
  /\ finished = {}

Enqueue(o, q) ==
  /\ waiting' = [waiting EXCEPT ![q] = Append(@, o)]
  /\ UNCHANGED <<active, finished>>

Begin(q) ==
  /\ active[q] = NoOp
  /\ waiting[q] # <<>>
  /\ active' = [active EXCEPT ![q] = Head(waiting[q])]
  /\ waiting' = [waiting EXCEPT ![q] = Tail(@)]
  /\ UNCHANGED finished

Finish(q) ==
  /\ active[q] # NoOp
  /\ finished' = finished \cup {active[q]}
  /\ active' = [active EXCEPT ![q] = NoOp]
  /\ UNCHANGED waiting

Next == \E q \in Queues : (\E o \in Ops : Enqueue(o, q)) \/ Begin(q) \/ Finish(q)

Spec == Init /\ [][Next]_execVars
=============================================================================
