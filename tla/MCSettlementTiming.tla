-------------------------- MODULE MCSettlementTiming --------------------------
(* Instances of SettlementTiming: a negative, an empty and a usual window, *)
(* one fixed time, and an expiry that passes while the client pays.        *)
EXTENDS SettlementTiming

MCWindows == {-1, 0, 1}
=============================================================================
