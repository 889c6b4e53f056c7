-------------------------- MODULE MCBroadcastQueue --------------------------
(* Instances of BroadcastQueue: two operations in one queue, as an ERC-20  *)
(* approval and the creation it pays for, and one in a second queue of the *)
(* same sender, as the queues of Once and of refunder().                   *)
EXTENDS BroadcastQueue

CONSTANTS approve, create, refund, creator, refunder

MCOps == {approve, create, refund}
MCQueues == {creator, refunder}
MCQueueOf == [o \in MCOps |-> IF o = refund THEN refunder ELSE creator]
=============================================================================
