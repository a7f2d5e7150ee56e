------------------------------ MODULE MCHandle ------------------------------
(***************************************************************************)
(* Instances of Handle: a main thread, a worker and a daemon, and handles  *)
(* that several of them, or only one, may hold.                            *)
(***************************************************************************)
EXTENDS HandleProofs, TLC

CONSTANTS main, worker, daemon, h1, h2, h3

(* Every handle may reach every thread.                                    *)
SharedHolders == [h \in Handles |-> Threads]

(* One handle for all threads, the others for the main thread only.        *)
MixedHolders == [h \in Handles |-> IF h = h1 THEN Threads ELSE {main}]

(* The handles of the main thread are interchangeable.                     *)
OwnSymmetry == Permutations({h2, h3})
=============================================================================
