----------------------------- MODULE MCSurface -----------------------------
(***************************************************************************)
(* Instances of Surface: a first release without HD nodes, one that has    *)
(* them and a function that is deferred (spv) and one that only the skip   *)
(* list holds back (tpm), another of the same functions, one with more,    *)
(* and one with a function that cffi rejects (raw); the committed files    *)
(* are those of the second, but the cdef has a function of the fourth and  *)
(* one that no header declares.                                            *)
(***************************************************************************)
EXTENDS SurfaceProofs

CONSTANTS address, hdnode, spv, tpm, ex, raw, internal

First  == {address}
Second == First \cup {hdnode, spv, tpm}
Third  == Second \cup {ex}

Headers ==
  [r \in {"v0.1.0", "v0.1.4", "v0.1.4.1", "v0.1.5", "v0.1.6"} |->
     CASE r = "v0.1.0" -> First
       [] r \in {"v0.1.4", "v0.1.4.1"} -> Second
       [] r = "v0.1.5" -> Third
       [] r = "v0.1.6" -> Third \cup {raw}]

(* The functions for a TPM are not compiled for every host.                *)
Archives == [r \in DOMAIN Headers |-> Headers[r] \ {tpm}]

CONSTANT Fetched   (* the releases that are fetched *)

(* A header that was cut off late lacks the last functions only.           *)
DeclaredBy ==
  [r \in Fetched \cup Damaged |-> IF r \in Damaged THEN Second ELSE Headers[r]]
ExportedBy ==
  [r \in Fetched \cup Damaged |-> IF r \in Damaged THEN {} ELSE Archives[r]]

AllFunctions == Third \cup {raw, internal}
Cdef == {address, hdnode, ex, internal}
=============================================================================
