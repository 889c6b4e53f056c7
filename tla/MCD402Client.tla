---------------------------- MODULE MCD402Client ----------------------------
(* Instances of D402Client: two overlapping calls whose terms lead to the  *)
(* same payment id or to different ones, in native or ERC-20 tokens.       *)
EXTENDS D402Client

CONSTANTS first, second, order, report

MCCalls == {first, second}
MCPayments == {order, report}
=============================================================================
