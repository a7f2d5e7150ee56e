------------------------------ MODULE Wrappers ------------------------------
(***************************************************************************)
(* python/libdogecoin/_libdogecoin_cffi.c: the functions that cffi puts    *)
(* between Python and libdogecoin.  A wrapper converts its arguments one   *)
(* by one while it holds the GIL, releases the GIL around the C call,      *)
(* takes it again, converts the result and frees the copies it has made.   *)
(*                                                                         *)
(* The 18 wrappers differ in the types they convert only.  Each is given   *)
(* below by these types; the actions are the steps all of them are made    *)
(* of.  The functions reached through _cffi_exports are cffi's own and     *)
(* external.                                                               *)
(***************************************************************************)
EXTENDS Integers, Sequences

CONSTANTS
  Threads,    (* the threads that call                                   *)
  Calls,      (* for each thread, the calls it may make                  *)
  IntMax,     (* the largest C int                                       *)
  ByteMax,    (* the largest uint8_t                                     *)
  StackLimit, (* the largest copy kept on the C stack, 640 bytes         *)
  Blocks,     (* the memory PyObject_Malloc hands out                    *)
  Errnos,     (* the values of errno                                     *)
  Nothing     (* no thread, no call, no value                            *)

Kinds == {"int", "uint8_t", "char *"}
MaxArgs == 5
-----------------------------------------------------------------------------
(* A wrapper: what it converts its arguments to, in this order, and what   *)
(* it converts the result from.                                            *)
Wrapper(takes, returns) == [takes |-> takes, returns |-> returns]

add_output == Wrapper(<<"int", "char *", "char *">>, "int")

add_utxo == Wrapper(<<"int", "char *", "int">>, "int")

clear_transaction == Wrapper(<<"int">>, "void")

dogecoin_ecc_start == Wrapper(<<>>, "void")

dogecoin_ecc_stop == Wrapper(<<>>, "void")

finalize_transaction ==
  Wrapper(<<"int", "char *", "char *", "char *", "char *">>, "char *")

generateDerivedHDPubkey == Wrapper(<<"char *", "char *">>, "int")

generateHDMasterPubKeypair == Wrapper(<<"char *", "char *", "int">>, "int")

generatePrivPubKeypair == Wrapper(<<"char *", "char *", "int">>, "int")

get_raw_transaction == Wrapper(<<"int">>, "char *")

remove_all == Wrapper(<<>>, "void")

sign_raw_transaction ==
  Wrapper(<<"int", "char *", "char *", "int", "char *">>, "int")

sign_transaction == Wrapper(<<"int", "char *", "char *">>, "int")

start_transaction == Wrapper(<<>>, "int")

store_raw_transaction == Wrapper(<<"char *">>, "int")

verifyHDMasterPubKeypair == Wrapper(<<"char *", "char *", "int">>, "int")

verifyP2pkhAddress == Wrapper(<<"char *", "uint8_t">>, "int")

verifyPrivPubKeypair == Wrapper(<<"char *", "char *", "int">>, "int")
-----------------------------------------------------------------------------
(* The table of types that cffi shows to the program, and reads itself     *)
(* when a function is called through a pointer.  Index n is element n + 1. *)
Function(result) == [op |-> "FUNCTION", at |-> result]
Primitive(kind)  == [op |-> "PRIMITIVE", at |-> kind]
Pointer(to)      == [op |-> "POINTER", at |-> to]
Same(as)         == [op |-> "NOOP", at |-> as]
End              == [op |-> "FUNCTION_END", at |-> 0]

_cffi_types ==
  LET int == Primitive(7)
      charp == Same(5)
  IN  <<Function(5), int, End>>
  \o  <<Function(5), int, Pointer(50), charp, charp, charp, End>>
  \o  <<Function(1), charp, End>>
  \o  <<Function(1), charp, charp, int, End>>
  \o  <<Function(1), charp, Primitive(18), End>>
  \o  <<Function(1), Pointer(50), charp, End>>
  \o  <<Function(1), int, charp, charp, End>>
  \o  <<Function(1), int, charp, charp, int, charp, End>>
  \o  <<Function(1), int, charp, int, End>>
  \o  <<Function(1), End>>
  \o  <<Function(51), int, End>>
  \o  <<Function(51), End>>
  \o  <<Primitive(2), Primitive(0)>>

TypeAt(n) ==
  LET entry == _cffi_types[n + 1]
      e == IF entry.op = "NOOP" THEN _cffi_types[entry.at + 1] ELSE entry
  IN  CASE e = Primitive(0)  -> "void"
        [] e = Primitive(2)  -> "char"
        [] e = Primitive(7)  -> "int"
        [] e = Primitive(18) -> "uint8_t"
        [] e = Pointer(50)   -> "char *"

(* The parameters of the function type that begins at n.                   *)
ParametersAt(n) ==
  LET last == CHOOSE m \in n .. Len(_cffi_types) :
                /\ _cffi_types[m + 1] = End
                /\ \A k \in n .. m - 1 : _cffi_types[k + 1] # End
  IN  [i \in 1 .. last - n - 1 |-> TypeAt(n + i)]

(* What lib offers: each name with its wrapper, how the interpreter passes *)
(* the arguments (V a tuple, O the one, N none) and the index of its type. *)
Global(wrapper, flag, type) ==
  [wrapper |-> wrapper, flag |-> flag, type |-> type]

_cffi_globals ==
  [add_output                 |-> Global(add_output, "V", 26),
   add_utxo                   |-> Global(add_utxo, "V", 38),
   clear_transaction          |-> Global(clear_transaction, "O", 45),
   dogecoin_ecc_start         |-> Global(dogecoin_ecc_start, "N", 48),
   dogecoin_ecc_stop          |-> Global(dogecoin_ecc_stop, "N", 48),
   finalize_transaction       |-> Global(finalize_transaction, "V", 3),
   generateDerivedHDPubkey    |-> Global(generateDerivedHDPubkey, "V", 22),
   generateHDMasterPubKeypair |-> Global(generateHDMasterPubKeypair, "V", 13),
   generatePrivPubKeypair     |-> Global(generatePrivPubKeypair, "V", 13),
   get_raw_transaction        |-> Global(get_raw_transaction, "O", 0),
   remove_all                 |-> Global(remove_all, "N", 48),
   sign_raw_transaction       |-> Global(sign_raw_transaction, "V", 31),
   sign_transaction           |-> Global(sign_transaction, "V", 26),
   start_transaction          |-> Global(start_transaction, "N", 43),
   store_raw_transaction      |-> Global(store_raw_transaction, "O", 10),
   verifyHDMasterPubKeypair   |-> Global(verifyHDMasterPubKeypair, "V", 13),
   verifyP2pkhAddress         |-> Global(verifyP2pkhAddress, "V", 18),
   verifyPrivPubKeypair       |-> Global(verifyPrivPubKeypair, "V", 13)]

Names == DOMAIN _cffi_globals
Takes(f) == _cffi_globals[f].wrapper.takes
Returns(f) == _cffi_globals[f].wrapper.returns
Declared == [f \in Names |-> ParametersAt(_cffi_globals[f].type)]
DeclaredResult ==
  [f \in Names |-> TypeAt(_cffi_types[_cffi_globals[f].type + 1].at)]
-----------------------------------------------------------------------------
(* A Python object that may be passed: n is the value of an int (or of     *)
(* what __int__ or __index__ makes one), or the length of a list or str;   *)
(* good says that a list holds single characters, or that the cdata is a   *)
(* char pointer.                                                           *)
Objects ==
  {o \in [type : {"int", "bytes", "cdata", "list", "str", "other"},
          n : Int, good : BOOLEAN] :
     IF o.type = "int" THEN o.good ELSE o.n \in Nat}

CInt(n) == [type |-> "int", n |-> n, good |-> TRUE]

Requests == UNION {Calls[t] : t \in Threads}

ASSUME CallAssumption ==
  \A t \in Threads : \A r \in Calls[t] :
    r.fn \in Names /\ r.args \in Seq(Objects)

ASSUME SizeAssumption ==
  /\ IntMax \in Nat /\ ByteMax \in Nat /\ StackLimit \in Nat

Values == [1 .. MaxArgs -> Objects \cup {Nothing}]

ASSUME NothingAssumption ==
  /\ Nothing \notin Threads /\ Nothing \notin Requests
  /\ Nothing \notin Objects /\ Nothing \notin Blocks
  /\ Nothing \notin Values
  /\ Blocks \cap Objects = {}

(* The compiler has checked each wrapper against the header, and cffi has  *)
(* written both tables from the same declarations.                         *)
ASSUME TableAssumption ==
  \A f \in Names :
    /\ Takes(f) \in Seq(Kinds) /\ Len(Takes(f)) <= MaxArgs
    /\ Declared[f] = Takes(f) /\ DeclaredResult[f] = Returns(f)
    /\ LET flag == _cffi_globals[f].flag IN
         /\ flag \in {"N", "O", "V"}
         /\ flag = "N" => Len(Takes(f)) = 0
         /\ flag = "O" => Len(Takes(f)) = 1

VARIABLES
  gil,        (* the thread that holds the GIL in a wrapper, or Nothing  *)
  pc,         (* where each thread is                                    *)
  call,       (* the call it is in                                       *)
  done,       (* how many arguments it has converted                     *)
  x,          (* the C arguments x0 .. x4: a value or object, or a block *)
  copies,     (* its large_args_free: the blocks to free                 *)
  heap,       (* the blocks that are allocated                           *)
  mem,        (* what was copied into each block                         *)
  errno,      (* the errno of each thread, Nothing when it is anything   *)
  saved,      (* the errno that cffi keeps for it between calls          *)
  left,       (* the errno that its last C call left (history)           *)
  seen,       (* the values that C ran on (history)                      *)
  reply       (* the outcome of its last call                            *)

argVars == <<call, done, x, seen>>
memVars == <<copies, heap, mem>>
errVars == <<errno, saved, left>>
vars == <<gil, pc, call, done, x, copies, heap, mem, errno, saved, left,
          seen, reply>>

Unset == [i \in 1 .. MaxArgs |-> Nothing]
HoldsGil == {"count", "convert", "int", "back", "free"}
WithoutGil == {"idle", "python", "inC", "ran", "saved"}
WTypeOK ==
  /\ gil \in Threads \cup {Nothing}
  /\ pc \in [Threads -> HoldsGil \cup WithoutGil]
  /\ \A t \in Threads : gil = t <=> pc[t] \in HoldsGil
  /\ call \in [Threads -> Requests \cup {Nothing}]
  /\ done \in [Threads -> 0 .. MaxArgs]
  /\ x \in [Threads -> [1 .. MaxArgs -> Objects \cup Blocks \cup {Nothing}]]
  /\ copies \in [Threads -> SUBSET Blocks]
  /\ heap \subseteq Blocks
  /\ mem \in [Blocks -> Objects \cup {Nothing}]
  /\ errno \in [Threads -> Errnos \cup {Nothing}]
  /\ saved \in [Threads -> Errnos]
  /\ left \in [Threads -> Errnos]
  /\ seen \in [Threads -> Values \cup {Nothing}]
  /\ reply \in [Threads -> {Nothing, "None", "value", "error"}]

WInit ==
  /\ gil = Nothing
  /\ pc = [t \in Threads |-> "idle"]
  /\ call = [t \in Threads |-> Nothing]
  /\ done = [t \in Threads |-> 0]
  /\ x = [t \in Threads |-> Unset]
  /\ copies = [t \in Threads |-> {}]
  /\ heap = {}
  /\ mem = [b \in Blocks |-> Nothing]
  /\ \E e \in Errnos :
       /\ saved = [t \in Threads |-> e]
       /\ left = saved
  /\ errno = [t \in Threads |-> Nothing]
  /\ seen = [t \in Threads |-> Nothing]
  /\ reply = [t \in Threads |-> Nothing]
-----------------------------------------------------------------------------
Move(t, from, to) ==
  /\ pc[t] = from
  /\ pc' = [pc EXCEPT ![t] = to]

(* A move during which t holds the GIL, and two that begin and end that.   *)
Goto(t, from, to) == gil = t /\ Move(t, from, to) /\ UNCHANGED gil

Acquire(t, from, to) == gil = Nothing /\ Move(t, from, to) /\ gil' = t

Release(t, from, to) == gil = t /\ Move(t, from, to) /\ gil' = Nothing

(* The wrapper returns: its frame, and the list in it, are gone.           *)
Leave(t) ==
  /\ call' = [call EXCEPT ![t] = Nothing]
  /\ done' = [done EXCEPT ![t] = 0]
  /\ x' = [x EXCEPT ![t] = Unset]
  /\ seen' = [seen EXCEPT ![t] = Nothing]

Raise(t) ==
  /\ Release(t, pc[t], "idle")
  /\ Leave(t)
  /\ copies' = [copies EXCEPT ![t] = {}]
  /\ reply' = [reply EXCEPT ![t] = "error"]
  /\ UNCHANGED errVars

(* The argument that is converted next, and what it is to become.          *)
Arity(t) == Len(Takes(call[t].fn))
NextKind(t) == Takes(call[t].fn)[done[t] + 1]
NextArg(t) == call[t].args[done[t] + 1]

Converting(t, at, kinds) ==
  /\ pc[t] \in at
  /\ done[t] < Arity(t)
  /\ NextKind(t) \in kinds

Pass(t, value) ==
  /\ Goto(t, pc[t], "convert")
  /\ x' = [x EXCEPT ![t][done[t] + 1] = value]
  /\ done' = [done EXCEPT ![t] = @ + 1]
  /\ UNCHANGED <<call, errVars, seen, reply>>
-----------------------------------------------------------------------------
(* A thread outside the wrappers gives up the GIL now and then; here it    *)
(* takes the GIL again when it calls.                                      *)
Call(t, r) ==
  /\ Acquire(t, "idle", "count")
  /\ call' = [call EXCEPT ![t] = r]
  /\ reply' = [reply EXCEPT ![t] = Nothing]
  /\ UNCHANGED <<done, x, seen, memVars, errVars>>

(* The number of arguments: PyArg_UnpackTuple, or the interpreter.         *)
CountIsRight(r) ==
  CASE _cffi_globals[r.fn].flag = "N" -> Len(r.args) = 0
    [] _cffi_globals[r.fn].flag = "O" -> Len(r.args) = 1
    [] _cffi_globals[r.fn].flag = "V" -> Len(r.args) = Len(Takes(r.fn))

CountArguments(t) ==
  /\ Goto(t, "count", "convert")
  /\ CountIsRight(call[t])
  /\ UNCHANGED <<argVars, memVars, errVars, reply>>

RefuseCount(t) ==
  /\ pc[t] = "count"
  /\ ~CountIsRight(call[t])
  /\ Raise(t)
  /\ UNCHANGED <<heap, mem>>
-----------------------------------------------------------------------------
Fits(kind) == IF kind = "int" THEN -(IntMax + 1) .. IntMax ELSE 0 .. ByteMax

(* _cffi_to_c_int: an error is an exception, and the value (type)-1.       *)
MinusOne(kind) == IF kind = "int" THEN -1 ELSE ByteMax

_cffi_to_c_int(o, kind) ==
  IF o.type = "int" /\ o.n \in Fits(kind)
  THEN [value |-> o.n, occurred |-> FALSE]
  ELSE [value |-> MinusOne(kind), occurred |-> TRUE]

(* Mutant: a wrapper that takes -1 for an error without asking.            *)
FailedOnMinusOne(c, kind) == c.value = MinusOne(kind)

Failed(c, kind) == c.value = MinusOne(kind) /\ c.occurred

ConvertInt(t) ==
  /\ Converting(t, {"convert", "int"}, {"int", "uint8_t"})
  /\ LET c == _cffi_to_c_int(NextArg(t), NextKind(t)) IN
       IF Failed(c, NextKind(t))
       THEN Raise(t) /\ UNCHANGED <<heap, mem>>
       ELSE Pass(t, CInt(c.value)) /\ UNCHANGED memVars

(* __int__ or __index__ of an object that is no int is Python code, during *)
(* which other threads may run.                                            *)
YieldInInt(t) ==
  /\ Converting(t, {"convert"}, {"int", "uint8_t"})
  /\ Release(t, "convert", "python")
  /\ UNCHANGED <<argVars, memVars, errVars, reply>>

ResumeInt(t) ==
  /\ Acquire(t, "python", "int")
  /\ UNCHANGED <<argVars, memVars, errVars, reply>>
-----------------------------------------------------------------------------
(* _cffi_prepare_pointer_call_argument: 0 if the pointer can be passed as  *)
(* it is, the size of the copy to make, or -1 with an exception.           *)
DataSize(o) ==
  CASE o.type = "bytes" -> 0
    [] o.type = "cdata" -> IF o.good THEN 0 ELSE -1
    [] o.type = "list" -> IF o.n > 0 THEN o.n ELSE 1
    [] o.type = "str" -> o.n + 1
    [] o.type \in {"int", "other"} -> -1

(* _cffi_convert_array_from_object: a str is sized but cannot be copied.   *)
Copies(o) == o.type = "list" /\ o.good

OnStack(o) == DataSize(o) \in 1 .. StackLimit
OnHeap(o) == DataSize(o) > StackLimit

PassPointer(t) ==
  /\ Converting(t, {"convert"}, {"char *"})
  /\ DataSize(NextArg(t)) = 0
  /\ Pass(t, NextArg(t))
  /\ UNCHANGED memVars

(* alloca: the copy is the call's own for as long as its frame lives.      *)
CopyToStack(t) ==
  /\ Converting(t, {"convert"}, {"char *"})
  /\ OnStack(NextArg(t)) /\ Copies(NextArg(t))
  /\ Pass(t, NextArg(t))
  /\ UNCHANGED memVars

Allocate(b, content) ==
  /\ b \in Blocks \ heap
  /\ heap' = heap \cup {b}
  /\ mem' = [mem EXCEPT ![b] = content]

(* Mutant: a copy that is not put on the list.                             *)
CopyUnlisted(t) ==
  /\ Converting(t, {"convert"}, {"char *"})
  /\ OnHeap(NextArg(t)) /\ Copies(NextArg(t))
  /\ \E b \in Blocks : Allocate(b, NextArg(t)) /\ Pass(t, b)
  /\ UNCHANGED copies

CopyToHeap(t) ==
  /\ Converting(t, {"convert"}, {"char *"})
  /\ OnHeap(NextArg(t)) /\ Copies(NextArg(t))
  /\ \E b \in Blocks :
       /\ Allocate(b, NextArg(t))
       /\ Pass(t, b)
       /\ copies' = [copies EXCEPT ![t] = @ \cup {b}]

(* No pointer, nor a copy that fits, can be made of the argument.          *)
RefusePointer(t) ==
  /\ Converting(t, {"convert"}, {"char *"})
  /\ DataSize(NextArg(t)) # 0
  /\ ~Copies(NextArg(t))
  /\ ~OnHeap(NextArg(t))
  /\ Raise(t)
  /\ UNCHANGED <<heap, mem>>

(* The same, found out when the block for it is allocated already.         *)
RefuseCopy(t) ==
  /\ Converting(t, {"convert"}, {"char *"})
  /\ OnHeap(NextArg(t))
  /\ ~Copies(NextArg(t))
  /\ \E b \in Blocks : Allocate(b, Nothing)
  /\ Raise(t)

(* PyObject_Malloc has no block left for the copy.                         *)
NoMemory(t) ==
  /\ Converting(t, {"convert"}, {"char *"})
  /\ OnHeap(NextArg(t))
  /\ Raise(t)
  /\ UNCHANGED <<heap, mem>>
-----------------------------------------------------------------------------
(* Mutant: a wrapper that keeps the GIL.                                   *)
BeginKeepsGil(t) ==
  /\ Goto(t, "convert", "inC")
  /\ done[t] = Arity(t)
  /\ errno' = [errno EXCEPT ![t] = saved[t]]
  /\ UNCHANGED <<argVars, memVars, saved, left, reply>>

(* Py_BEGIN_ALLOW_THREADS and _cffi_restore_errno.                         *)
BeginAllowThreads(t) ==
  /\ Release(t, "convert", "inC")
  /\ done[t] = Arity(t)
  /\ errno' = [errno EXCEPT ![t] = saved[t]]
  /\ UNCHANGED <<argVars, memVars, saved, left, reply>>

(* What C reads through x: a copy, or the object itself.                   *)
Reads(t) == [i \in 1 .. MaxArgs |->
               IF x[t][i] \in Blocks THEN mem[x[t][i]] ELSE x[t][i]]

(* The libdogecoin function itself.                                        *)
RunC(t) ==
  /\ Move(t, "inC", "ran")
  /\ seen' = [seen EXCEPT ![t] = Reads(t)]
  /\ \E e \in Errnos :
       /\ errno' = [errno EXCEPT ![t] = e]
       /\ left' = [left EXCEPT ![t] = e]
  /\ UNCHANGED <<gil, call, done, x, memVars, saved, reply>>

(* Mutant: without _cffi_save_errno.                                       *)
SaveNothing(t) ==
  /\ Move(t, "ran", "saved")
  /\ UNCHANGED <<gil, argVars, memVars, errVars, reply>>

(* _cffi_save_errno.                                                       *)
SaveErrno(t) ==
  /\ Move(t, "ran", "saved")
  /\ saved' = [saved EXCEPT ![t] = errno[t]]
  /\ UNCHANGED <<gil, argVars, memVars, errno, left, reply>>

(* Mutant: without Py_END_ALLOW_THREADS.                                   *)
EndWithoutGil(t) ==
  /\ Move(t, "saved", "back")
  /\ errno' = [errno EXCEPT ![t] = Nothing]
  /\ UNCHANGED <<gil, argVars, memVars, saved, left, reply>>

(* Py_END_ALLOW_THREADS: waiting for the GIL may change errno.             *)
EndAllowThreads(t) ==
  /\ Acquire(t, "saved", "back")
  /\ errno' = [errno EXCEPT ![t] = Nothing]
  /\ UNCHANGED <<argVars, memVars, saved, left, reply>>
-----------------------------------------------------------------------------
(* The Python object for the result; there may be no memory for it.        *)
Outcomes(r) == IF Returns(r.fn) = "void" THEN {"None"} ELSE {"value", "error"}

ConvertResult(t) ==
  /\ Goto(t, "back", "free")
  /\ \E outcome \in Outcomes(call[t]) : reply' = [reply EXCEPT ![t] = outcome]
  /\ UNCHANGED <<argVars, memVars, errVars>>

(* Mutant: the list is freed up to its first block only.                   *)
FreeFirstOnly(t) ==
  /\ Goto(t, "free", "free")
  /\ \E b \in copies[t] :
       heap' = heap \ {b} /\ mem' = [mem EXCEPT ![b] = Nothing]
  /\ copies' = [copies EXCEPT ![t] = {}]
  /\ UNCHANGED <<argVars, errVars, reply>>

(* _cffi_free_array_arguments: one turn of the loop.                       *)
FreeOne(t) ==
  /\ Goto(t, "free", "free")
  /\ \E b \in copies[t] :
       /\ heap' = heap \ {b}
       /\ mem' = [mem EXCEPT ![b] = Nothing]
       /\ copies' = [copies EXCEPT ![t] = @ \ {b}]
  /\ UNCHANGED <<argVars, errVars, reply>>

Return(t) ==
  /\ copies[t] = {}
  /\ Release(t, "free", "idle")
  /\ Leave(t)
  /\ UNCHANGED <<memVars, errVars, reply>>
-----------------------------------------------------------------------------
Convert(t) ==
  \/ ConvertInt(t) \/ ResumeInt(t)
  \/ PassPointer(t) \/ CopyToStack(t) \/ CopyToHeap(t)
  \/ RefusePointer(t) \/ RefuseCopy(t) \/ NoMemory(t)

Step(t) ==
  \/ CountArguments(t) \/ RefuseCount(t) \/ Convert(t)
  \/ BeginAllowThreads(t) \/ SaveErrno(t) \/ EndAllowThreads(t)
  \/ ConvertResult(t) \/ FreeOne(t) \/ Return(t)

WNext ==
  \E t \in Threads :
    \/ Step(t) \/ RunC(t) \/ YieldInInt(t)
    \/ \E r \in Calls[t] : Call(t, r)

WSpec == WInit /\ [][WNext]_vars

(* The interpreter makes a thread that runs Python code drop the GIL when  *)
(* others wait, and each thread that waits gets it in the end.  Nothing    *)
(* makes a thread call, or a C function return.                            *)
WFairness == \A t \in Threads : SF_vars(Step(t))

WFairSpec == WSpec /\ WFairness
-----------------------------------------------------------------------------
(* While a call converts its arguments and while C runs, each copy it will *)
(* read is allocated, on this call's list and on no other's, and holds     *)
(* what was passed: whatever other threads call, raise or free meanwhile.  *)
CopiesArePrivate ==
  \A t \in Threads :
    /\ copies[t] \subseteq heap
    /\ \A u \in Threads \ {t} : copies[t] \cap copies[u] = {}
    /\ pc[t] \in {"convert", "int", "python", "inC"} =>
         \A i \in 1 .. done[t] : x[t][i] \in Blocks =>
           x[t][i] \in copies[t] /\ mem[x[t][i]] = call[t].args[i]

(* A call that came back from C frees all its copies.  The one path that   *)
(* loses memory is the early return of a call whose arguments cannot be    *)
(* converted: it leaves the copies made before, and the one it could not   *)
(* fill, without an owner.                                                 *)
Lost == heap \ UNION {copies[t] : t \in Threads}

OnlyRefusedCallsLeak ==
  [][\A b \in Lost' \ Lost :
       \E t \in Threads : pc[t] \in {"convert", "int"} /\ pc'[t] = "idle"]_vars

(* ffi.errno is what the last C call of the thread left, although waiting  *)
(* for the GIL afterwards may change errno.                                *)
ErrnoSurvives == \A t \in Threads : pc[t] # "ran" => saved[t] = left[t]

(* The GIL is held wherever Python objects are touched, and never in C: a  *)
(* C function that does not return holds up no call but its own.           *)
NobodyWaitsForC ==
  \A t \in Threads :
    pc[t] \notin {"idle", "inC"} ~> pc[t] \in {"idle", "inC"}

(* What a request means under the type that lib declares for its function. *)
Stands(o, kind) ==
  IF kind = "char *"
  THEN \/ o.type = "bytes"
       \/ o.type \in {"cdata", "list"} /\ o.good
  ELSE o.type = "int" /\ o.n \in Fits(kind)

Means(r) ==
  LET n == Len(r.args) IN
  IF /\ n = Len(Declared[r.fn])
     /\ \A i \in 1 .. n : Stands(r.args[i], Declared[r.fn][i])
  THEN [i \in 1 .. MaxArgs |-> IF i <= n THEN r.args[i] ELSE Nothing]
  ELSE Nothing

NeedsMemory(r) ==
  \E i \in DOMAIN r.args : r.args[i].type = "list" /\ OnHeap(r.args[i])

AnswersTo(r) ==
  IF DeclaredResult[r.fn] = "void" THEN {"None"} ELSE {"value", "error"}

Status(place) ==
  CASE place = "idle" -> "idle"
    [] place \in {"count", "convert", "int", "python", "inC"} -> "asked"
    [] place \in {"ran", "saved", "back", "free"} -> "ran"

StatusOf == [t \in Threads |-> Status(pc[t])]

ReplyOf == [t \in Threads |-> IF pc[t] = "idle" THEN reply[t] ELSE Nothing]

F == INSTANCE ForeignCall
       WITH Meaning <- Means, MayExhaust <- NeedsMemory,
            Answers <- AnswersTo, Unacceptable <- Nothing,
            status <- StatusOf, request <- call, given <- seen,
            reply <- ReplyOf

(* C runs once for each call that is not refused, on the values that its   *)
(* arguments stand for, an int of -1 and a uint8_t of 255 included; it     *)
(* does not run for any other.                                             *)
ImplementsForeignCall == F!CallSpec
=============================================================================
