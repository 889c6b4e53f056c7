----------------------------- MODULE MCRefunder -----------------------------
(* Instances of Refunder: refund requests for one payment, as retries and  *)
(* double clicks make them, and a worker about to do something with it.    *)
EXTENDS Refunder

CONSTANTS first, second, worker, refunds, actions, payment1

MCRequests == {first, second}
MCWorker == {worker}
MCJobs == MCRequests \cup MCWorker
MCInstances == {refunds, actions}
MCInstanceOf == [j \in MCJobs |-> IF j \in MCWorker THEN actions ELSE refunds]
MCPayments == {payment1}
MCPaymentOf == [j \in MCJobs |-> payment1]

(* The two requests are interchangeable: the one named first arrives       *)
(* first.  When nodes catch up matters for what a request finds at its     *)
(* arrival; later, they report what a node that never lagged does.         *)
MCNext ==
  /\ Next
  /\ pc[first] = "new" => pc'[second] = "new"
  /\ behind' # behind => pc[second] = "new"

MCFairSpec == Init /\ [][MCNext]_vars /\ WF_vars(Runs)
=============================================================================
