---------------------------- MODULE MCWrappers ----------------------------
(***************************************************************************)
(* Two threads that call libdogecoin.  One makes, for each function, a     *)
(* call that is right and calls with one odd argument; the other makes a   *)
(* few that need copies.                                                   *)
(***************************************************************************)
EXTENDS Wrappers

CONSTANTS main, worker, b1, b2

Object(type, n, good) == [type |-> type, n |-> n, good |-> good]

Short == Object("list", 1, TRUE)
Long  == Object("list", 3, TRUE)

(* An argument that is right, at the edge of its type.                     *)
Right(kind) ==
  CASE kind = "int" -> CInt(-1)
    [] kind = "uint8_t" -> CInt(ByteMax)
    [] kind = "char *" -> Object("bytes", 0, TRUE)

Odd(kind) ==
  IF kind = "char *"
  THEN {Object("cdata", 0, TRUE), Object("cdata", 0, FALSE),
        Object("list", 0, TRUE), Short, Object("list", 1, FALSE), Long,
        Object("list", 3, FALSE), Object("str", 0, TRUE),
        Object("str", 3, TRUE), Object("other", 0, FALSE)}
  ELSE {CInt(IntMax + 1), CInt(-(IntMax + 2)), CInt(ByteMax + 1), CInt(0),
        Object("bytes", 0, TRUE)}

RightCall(f) == [fn |-> f, args |-> [i \in DOMAIN Takes(f) |-> Right(Takes(f)[i])]]

(* One odd argument, in the last place.                                    *)
OddCalls ==
  {[RightCall("store_raw_transaction") EXCEPT !.args[1] = o] :
     o \in Odd("char *")}
  \cup
  {[RightCall("verifyP2pkhAddress") EXCEPT !.args[2] = o] :
     o \in Odd("uint8_t")}

LongCall(f) ==
  [fn |-> f,
   args |-> [i \in DOMAIN Takes(f) |->
               IF Takes(f)[i] = "char *" THEN Long ELSE Right(Takes(f)[i])]]

(* A first argument too many, or none.                                     *)
Miscounted ==
  {[fn |-> "add_utxo", args |-> <<CInt(0)>>],
   [fn |-> "clear_transaction", args |-> <<>>],
   [fn |-> "remove_all", args |-> <<CInt(0)>>]}

(* The last argument cannot be converted when two copies were made.        *)
LateRefusal ==
  [LongCall("generatePrivPubKeypair") EXCEPT !.args[3] = CInt(IntMax + 1)]

MCCalls ==
  [t \in Threads |->
     IF t = main
     THEN {RightCall(f) : f \in Names} \cup OddCalls \cup Miscounted
            \cup {LongCall("sign_transaction"), LateRefusal}
     ELSE {LongCall("add_utxo"), RightCall("start_transaction")}]
=============================================================================
