------------------------------ MODULE MCHDNode ------------------------------
(***************************************************************************)
(* Two threads that share two nodes, in any order: a parent and a child of *)
(* it, a node and its copy, or two nodes of their own.                     *)
(***************************************************************************)
EXTENDS HDNode, TLC

CONSTANTS main, worker, h1, h2

(* Every node may reach every thread.                                      *)
SharedHolders == [h \in Handles |-> Threads]

(* The nodes are interchangeable.                                          *)
NodeSymmetry == Permutations(Handles)
=============================================================================
