----------------------------- MODULE MCTxCalls -----------------------------
(***************************************************************************)
(* Instances of TxCalls: two threads, of which one uses the calls with the *)
(* static buffer, on two working transactions.                             *)
(***************************************************************************)
EXTENDS TxCallsProofs, TLC

CONSTANTS main, worker, i1, i2

(* The indices of the table are interchangeable.                           *)
SlotSymmetry == Permutations(Slots)
=============================================================================
