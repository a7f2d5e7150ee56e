--------------------------- MODULE WrappersProofs ---------------------------
(***************************************************************************)
(* Proofs about the cffi wrappers, for any number of threads and blocks,   *)
(* any calls and any sizes of the C types.                                 *)
(***************************************************************************)
EXTENDS Wrappers, SequenceTheorems, TLAPS

Asked == {"convert", "int", "python", "inC"}
Back  == {"ran", "saved", "back", "free"}

(* Argument i of the call was converted: it is acceptable, and x[i] is the *)
(* argument or this call's copy of it.                                     *)
Converted(t, i) ==
  /\ Stands(call[t].args[i], Takes(call[t].fn)[i])
  /\ \/ x[t][i] = call[t].args[i]
     \/ x[t][i] \in copies[t] /\ mem[x[t][i]] = call[t].args[i]

(* How the place a thread is at goes with what its frame holds.            *)
Frame(t) ==
  /\ pc[t] = "idle" => call[t] = Nothing
  /\ pc[t] # "idle" => call[t] \in Requests
  /\ pc[t] \in {"idle", "count"} => copies[t] = {} /\ done[t] = 0
  /\ pc[t] \in Asked \cup Back =>
       Len(call[t].args) = Arity(t) /\ done[t] <= Arity(t)
  /\ pc[t] = "inC" => done[t] = Arity(t)
  /\ pc[t] = "free" => reply[t] \in Outcomes(call[t])

(* The frame of a call that has not run yet.                               *)
Arguments(t) ==
  /\ pc[t] \notin Back =>
       \A i \in 1 .. MaxArgs : i > done[t] => x[t][i] = Nothing
  /\ pc[t] \in Asked => \A i \in 1 .. done[t] : Converted(t, i)

(* C ran on what the request means, and on nothing before it ran.          *)
Ran(t) == seen[t] = IF pc[t] \in Back THEN Means(call[t]) ELSE Nothing

(* The errno that C left is in errno until it is saved, and then kept.     *)
Errno(t) ==
  IF pc[t] = "ran" THEN errno[t] = left[t] ELSE saved[t] = left[t]

(* The lists of the calls are disjoint, and of allocated blocks.           *)
OwnInv ==
  \A t \in Threads :
    /\ copies[t] \subseteq heap
    /\ \A u \in Threads \ {t} : copies[t] \cap copies[u] = {}

CallInv(t) == Frame(t) /\ Arguments(t) /\ Ran(t) /\ Errno(t)

WInv == WTypeOK /\ OwnInv /\ \A t \in Threads : CallInv(t)
-----------------------------------------------------------------------------
(* A request names a function of the tables and passes objects to it.      *)
LEMMA RequestType ==
  ASSUME NEW r \in Requests
  PROVE  /\ r.fn \in Names
         /\ r.args \in Seq(Objects)
         /\ Len(r.args) \in Nat
         /\ r # Nothing
BY CallAssumption, NothingAssumption DEF Requests

(* Every wrapper converts a few arguments of the known kinds.              *)
LEMMA WrapperType ==
  ASSUME NEW f \in Names
  PROVE  /\ Takes(f) \in Seq(Kinds)
         /\ Len(Takes(f)) \in Nat /\ Len(Takes(f)) <= MaxArgs
         /\ \A i \in 1 .. Len(Takes(f)) : Takes(f)[i] \in Kinds
<1>1. Takes(f) \in Seq(Kinds) /\ Len(Takes(f)) <= MaxArgs
  BY TableAssumption
<1>2. ASSUME NEW s \in Seq(Kinds)
      PROVE  Len(s) \in Nat /\ \A i \in 1 .. Len(s) : s[i] \in Kinds
  OBVIOUS
<1> QED
  BY <1>1, <1>2

(* A call goes on exactly if it passes as many arguments as are converted. *)
LEMMA CountIsArity ==
  ASSUME NEW r \in Requests
  PROVE  CountIsRight(r) <=> Len(r.args) = Len(Takes(r.fn))
<1>1. r.fn \in Names /\ Len(r.args) \in Nat
  BY RequestType
<1> QED
  BY <1>1, TableAssumption DEF CountIsRight

(* An int that was converted without an error is the argument itself.      *)
LEMMA ConversionIsExact ==
  ASSUME NEW o \in Objects, NEW kind \in {"int", "uint8_t"}
  PROVE  LET c == _cffi_to_c_int(o, kind) IN
         /\ Failed(c, kind) <=> ~Stands(o, kind)
         /\ ~Failed(c, kind) => CInt(c.value) = o
BY DEF _cffi_to_c_int, Failed, Stands, CInt, Objects

(* A pointer argument is refused if it stands for nothing; otherwise it is *)
(* passed, or copied.                                                      *)
LEMMA PointerCases ==
  ASSUME NEW o \in Objects
  PROVE  /\ DataSize(o) = 0 => Stands(o, "char *")
         /\ Copies(o) => Stands(o, "char *") /\ o.type = "list"
         /\ DataSize(o) # 0 /\ ~Copies(o) => ~Stands(o, "char *")
         /\ OnHeap(o) => DataSize(o) # 0
BY SizeAssumption DEF DataSize, Copies, Stands, OnHeap, Objects

(* One argument that stands for nothing makes the request meaningless.     *)
LEMMA MeaninglessArgument ==
  ASSUME NEW r \in Requests, NEW i \in 1 .. Len(r.args),
         Len(r.args) = Len(Takes(r.fn)),
         ~Stands(r.args[i], Takes(r.fn)[i])
  PROVE  Means(r) = Nothing
BY RequestType, TableAssumption DEF Means

(* A request all of whose arguments stand for something means these.       *)
LEMMA MeaningfulRequest ==
  ASSUME NEW r \in Requests,
         Len(r.args) = Len(Takes(r.fn)),
         \A i \in 1 .. Len(r.args) : Stands(r.args[i], Takes(r.fn)[i])
  PROVE  /\ Means(r) = [i \in 1 .. MaxArgs |->
                          IF i <= Len(r.args) THEN r.args[i] ELSE Nothing]
         /\ Means(r) \in Values
         /\ Means(r) # Nothing
<1>1. r.args \in Seq(Objects) /\ r.fn \in Names
  BY RequestType
<1>2. Means(r) = [i \in 1 .. MaxArgs |->
                    IF i <= Len(r.args) THEN r.args[i] ELSE Nothing]
  BY <1>1, TableAssumption DEF Means
<1>3. Means(r) \in Values
  BY <1>1, <1>2 DEF Values, MaxArgs
<1> QED
  BY <1>2, <1>3, NothingAssumption
-----------------------------------------------------------------------------
(* The next argument of a call that converts, and what it is to become.    *)
LEMMA NextArgument ==
  ASSUME WInv, NEW t \in Threads, pc[t] \in {"convert", "int"},
         done[t] < Arity(t)
  PROVE  /\ call[t] \in Requests
         /\ done[t] \in Nat /\ done[t] + 1 \in 1 .. Len(call[t].args)
         /\ done[t] + 1 \in 1 .. MaxArgs
         /\ Len(call[t].args) = Len(Takes(call[t].fn))
         /\ NextArg(t) \in Objects
         /\ NextArg(t) = call[t].args[done[t] + 1]
         /\ NextKind(t) = Takes(call[t].fn)[done[t] + 1]
<1> DEFINE r == call[t]
           a == r.args
<1>1. r \in Requests /\ Len(a) = Arity(t) /\ done[t] \in 0 .. MaxArgs
  BY DEF WInv, CallInv, Frame, WTypeOK, Asked, Back
<1>2. /\ a \in Seq(Objects) /\ Len(a) \in Nat
      /\ Arity(t) \in Nat /\ Arity(t) <= MaxArgs
  BY <1>1, RequestType, WrapperType DEF Arity
<1>3. \A n, m, d \in Nat : n = m /\ m <= MaxArgs /\ d < m
                           => d + 1 \in 1 .. n /\ d + 1 \in 1 .. MaxArgs
  BY DEF MaxArgs
<1>4. done[t] + 1 \in 1 .. Len(a) /\ done[t] + 1 \in 1 .. MaxArgs
  BY <1>1, <1>2, <1>3
<1>5. a[done[t] + 1] \in Objects
  BY <1>2, <1>4
<1> QED
  BY <1>1, <1>4, <1>5 DEF NextArg, NextKind, Arity

(* A step of one thread that leaves the frames and copies of all others    *)
(* alone keeps the invariant if it does so for that thread.                *)
LEMMA OneFrame ==
  ASSUME WInv, NEW t \in Threads, WTypeOK', OwnInv', CallInv(t)',
         \A u \in Threads \ {t} :
           /\ pc'[u] = pc[u] /\ call'[u] = call[u] /\ done'[u] = done[u]
           /\ x'[u] = x[u] /\ seen'[u] = seen[u] /\ reply'[u] = reply[u]
           /\ errno'[u] = errno[u] /\ saved'[u] = saved[u] /\ left'[u] = left[u]
           /\ copies'[u] = copies[u]
           /\ \A b \in copies[u] : mem'[b] = mem[b]
  PROVE  WInv'
<1> SUFFICES ASSUME NEW u \in Threads \ {t}
             PROVE  CallInv(u)'
  BY DEF WInv
<1>1. CallInv(u)
  BY DEF WInv
<1>2. Frame(u)'
  BY <1>1 DEF CallInv, Frame, Arity, Outcomes, Returns, Takes
<1>3. \A i : Converted(u, i) => Converted(u, i)'
  BY DEF Converted
<1>4. Arguments(u)'
  BY <1>1, <1>3 DEF CallInv, Arguments
<1>5. Ran(u)' /\ Errno(u)'
  BY <1>1 DEF CallInv, Ran, Errno
<1> QED
  BY <1>2, <1>4, <1>5 DEF CallInv

(* Passing an acceptable argument, or a copy of it, keeps the invariant.   *)
LEMMA PassKeeps ==
  ASSUME WInv, NEW t \in Threads, pc[t] \in {"convert", "int"},
         done[t] < Arity(t), Stands(NextArg(t), NextKind(t)),
         NEW v, Pass(t, v),
         \/ v = NextArg(t) /\ UNCHANGED memVars
         \/ /\ v \in Blocks \ heap
            /\ heap' = heap \cup {v}
            /\ mem' = [mem EXCEPT ![v] = NextArg(t)]
            /\ copies' = [copies EXCEPT ![t] = @ \cup {v}]
  PROVE  WInv'
<1> DEFINE n == done[t] + 1
<1>1. /\ call[t] \in Requests /\ n \in 1 .. Len(call[t].args)
      /\ n \in 1 .. MaxArgs /\ NextArg(t) \in Objects
      /\ NextArg(t) = call[t].args[n] /\ done[t] \in Nat
      /\ NextKind(t) = Takes(call[t].fn)[n]
      /\ Len(call[t].args) = Arity(t)
  BY NextArgument DEF Arity
<1>2. Arity(t) \in Nat /\ Arity(t) <= MaxArgs
  BY <1>1, RequestType, WrapperType DEF Arity
<1>3. /\ pc' = [pc EXCEPT ![t] = "convert"]
      /\ x' = [x EXCEPT ![t][n] = v]
      /\ done' = [done EXCEPT ![t] = n]
      /\ UNCHANGED <<gil, call, errno, saved, left, seen, reply>>
      /\ gil = t
  BY DEF Pass, Goto, Move, errVars
<1>4. /\ v \in Objects \cup Blocks
      /\ heap' \subseteq Blocks /\ copies' \in [Threads -> SUBSET Blocks]
      /\ mem' \in [Blocks -> Objects \cup {Nothing}]
      /\ copies[t] \subseteq copies'[t]
      /\ \A u \in Threads \ {t} : copies'[u] = copies[u]
      /\ \A b \in heap : mem'[b] = mem[b]
      /\ \/ v = NextArg(t)
         \/ v \in copies'[t] /\ mem'[v] = NextArg(t)
      /\ OwnInv'
  <2>1. /\ heap \subseteq Blocks /\ copies \in [Threads -> SUBSET Blocks]
        /\ mem \in [Blocks -> Objects \cup {Nothing}]
        /\ OwnInv
    BY DEF WInv, WTypeOK
  <2>2. CASE v = NextArg(t) /\ UNCHANGED memVars
    <3>1. heap' = heap /\ mem' = mem /\ copies' = copies
      BY <2>2 DEF memVars
    <3>2. OwnInv'
      BY <2>1, <3>1 DEF OwnInv
    <3> QED
      BY <1>1, <2>1, <2>2, <3>1, <3>2
  <2>3. CASE /\ v \in Blocks \ heap
             /\ heap' = heap \cup {v}
             /\ mem' = [mem EXCEPT ![v] = NextArg(t)]
             /\ copies' = [copies EXCEPT ![t] = @ \cup {v}]
    <3>1. OwnInv'
      BY <2>1, <2>3 DEF OwnInv
    <3> QED
      BY <1>1, <2>1, <2>3, <3>1
  <2> QED
    BY <2>2, <2>3
<1>5. /\ x \in [Threads -> [1 .. MaxArgs -> Objects \cup Blocks \cup {Nothing}]]
      /\ done \in [Threads -> 0 .. MaxArgs]
      /\ pc \in [Threads -> HoldsGil \cup WithoutGil]
  BY DEF WInv, WTypeOK
<1>6. /\ x'[t][n] = v
      /\ \A i \in 1 .. MaxArgs : i # n => x'[t][i] = x[t][i]
      /\ \A u \in Threads : u # t => x'[u] = x[u]
      /\ done'[t] = n /\ pc'[t] = "convert"
      /\ \A u \in Threads : u # t => done'[u] = done[u] /\ pc'[u] = pc[u]
  BY <1>1, <1>3, <1>5
<1>7. WTypeOK'
  <2>1. x' \in [Threads -> [1 .. MaxArgs -> Objects \cup Blocks \cup {Nothing}]]
    BY <1>1, <1>3, <1>4, <1>5
  <2>2. done' \in [Threads -> 0 .. MaxArgs]
    BY <1>1, <1>3, <1>5
  <2> QED
    BY <1>3, <1>4, <2>1, <2>2 DEF WInv, WTypeOK, HoldsGil, WithoutGil
<1>8. Frame(t)'
  <2>1. \A m, a \in Nat : m < a => m + 1 <= a
    OBVIOUS
  <2>2. done'[t] <= Arity(t)
    BY <1>1, <1>2, <1>6, <2>1
  <2> QED
    BY <1>1, <1>3, <1>6, <2>2 DEF Frame, Arity, Asked, Back
<1>9. Ran(t)' /\ Errno(t)'
  BY <1>3, <1>6 DEF WInv, CallInv, Ran, Errno, Back
<1>10. Arguments(t)'
  <2>1. /\ \A i \in 1 .. MaxArgs : i > done[t] => x[t][i] = Nothing
        /\ \A i \in 1 .. done[t] : Converted(t, i)
        /\ copies[t] \subseteq heap
    BY DEF WInv, CallInv, Arguments, OwnInv, Asked, Back
  <2>2. \A d \in 0 .. MaxArgs : \A i \in 1 .. d : i \in 1 .. MaxArgs
    BY DEF MaxArgs
  <2>3. \A i \in 1 .. MaxArgs : i > n => x'[t][i] = Nothing
    <3>1. \A i \in 1 .. MaxArgs : i > n => i > done[t] /\ i # n
      BY <1>1 DEF MaxArgs
    <3> QED
      BY <1>6, <2>1, <3>1
  <2>4. ASSUME NEW i \in 1 .. done[t]
        PROVE  Converted(t, i)'
    <3>1. i # n /\ i \in 1 .. MaxArgs
      BY <1>1, <1>5, <2>2
    <3>2. x'[t][i] = x[t][i] /\ call'[t] = call[t] /\ Converted(t, i)
      BY <1>3, <1>6, <2>1, <3>1
    <3> QED
      BY <1>4, <2>1, <3>2 DEF Converted
  <2>5. ASSUME NEW i \in 1 .. MaxArgs, i = n
        PROVE  Converted(t, i)'
    <3>1. /\ call'[t] = call[t] /\ NextArg(t) = call[t].args[i]
          /\ Stands(call[t].args[i], Takes(call[t].fn)[i])
      BY <1>1, <1>3, <2>5
    <3>2. \/ x'[t][i] = call[t].args[i]
          \/ x'[t][i] \in copies'[t] /\ mem'[x'[t][i]] = call[t].args[i]
      BY <1>4, <1>6, <2>5, <3>1
    <3> QED
      BY <3>1, <3>2 DEF Converted
  <2>6. \A d \in Nat : \A i \in 1 .. d + 1 : i = d + 1 \/ i \in 1 .. d
    OBVIOUS
  <2>7. \A i \in 1 .. done'[t] : Converted(t, i)'
    BY <1>1, <1>6, <2>4, <2>5, <2>6
  <2> QED
    BY <1>6, <2>3, <2>7 DEF Arguments
<1> QED
  <2>1. CallInv(t)'
    BY <1>8, <1>9, <1>10 DEF CallInv
  <2>2. \A u \in Threads \ {t} : \A b \in copies[u] : b \in heap
    BY DEF WInv, OwnInv
  <2> QED
    BY <1>3, <1>4, <1>6, <1>7, <2>1, <2>2, OneFrame

(* A call that raises leaves its frame; its copies are nobody's then.      *)
LEMMA RaiseKeeps ==
  ASSUME WInv, NEW t \in Threads, pc[t] \in HoldsGil, Raise(t),
         heap \subseteq heap', heap' \subseteq Blocks,
         mem' \in [Blocks -> Objects \cup {Nothing}],
         \A b \in heap : mem'[b] = mem[b]
  PROVE  WInv'
<1>1. /\ pc' = [pc EXCEPT ![t] = "idle"] /\ gil = t /\ gil' = Nothing
      /\ call' = [call EXCEPT ![t] = Nothing]
      /\ done' = [done EXCEPT ![t] = 0]
      /\ x' = [x EXCEPT ![t] = Unset]
      /\ seen' = [seen EXCEPT ![t] = Nothing]
      /\ copies' = [copies EXCEPT ![t] = {}]
      /\ reply' = [reply EXCEPT ![t] = "error"]
      /\ UNCHANGED <<errno, saved, left>>
  BY DEF Raise, Release, Move, Leave, errVars
<1>2. WTypeOK /\ OwnInv /\ t # Nothing
  BY NothingAssumption DEF WInv
<1>3. WTypeOK'
  <2>1. x' \in [Threads -> [1 .. MaxArgs -> Objects \cup Blocks \cup {Nothing}]]
    BY <1>1, <1>2 DEF WTypeOK, Unset
  <2>2. done' \in [Threads -> 0 .. MaxArgs]
    BY <1>1, <1>2 DEF WTypeOK, MaxArgs
  <2>3. \A u \in Threads : gil' = u <=> pc'[u] \in HoldsGil
    BY <1>1, <1>2, NothingAssumption DEF WTypeOK, HoldsGil
  <2>4. pc' \in [Threads -> HoldsGil \cup WithoutGil]
    BY <1>1, <1>2 DEF WTypeOK, HoldsGil, WithoutGil
  <2>5. /\ call' \in [Threads -> Requests \cup {Nothing}]
        /\ copies' \in [Threads -> SUBSET Blocks]
        /\ seen' \in [Threads -> Values \cup {Nothing}]
        /\ reply' \in [Threads -> {Nothing, "None", "value", "error"}]
    BY <1>1, <1>2 DEF WTypeOK
  <2> QED
    BY <1>1, <1>2, <2>1, <2>2, <2>3, <2>4, <2>5 DEF WTypeOK
<1>4. OwnInv'
  BY <1>1, <1>2 DEF WTypeOK, OwnInv
<1>5. CallInv(t)'
  <2>1. /\ pc'[t] = "idle" /\ call'[t] = Nothing /\ done'[t] = 0
        /\ x'[t] = Unset /\ seen'[t] = Nothing /\ copies'[t] = {}
    BY <1>1, <1>2 DEF WTypeOK
  <2>2. Frame(t)'
    BY <2>1 DEF Frame, Asked, Back
  <2>3. Arguments(t)'
    BY <2>1 DEF Arguments, Asked, Back, Unset
  <2>4. Errno(t)'
    BY <1>1, <1>2, <2>1 DEF WInv, CallInv, Errno, HoldsGil
  <2> QED
    BY <2>1, <2>2, <2>3, <2>4 DEF CallInv, Ran, Back
<1>6. \A u \in Threads \ {t} : \A b \in copies[u] : mem'[b] = mem[b]
  BY <1>2 DEF OwnInv
<1> QED
  BY <1>1, <1>2, <1>3, <1>4, <1>5, <1>6, OneFrame DEF WTypeOK

(* A step that changes the place of a call, and at most its reply and the  *)
(* errno, keeps the invariant if the new place suits its frame.            *)
LEMMA MoveKeeps ==
  ASSUME WInv, NEW t \in Threads, WTypeOK', CallInv(t)',
         \A u \in Threads \ {t} : pc'[u] = pc[u] /\ reply'[u] = reply[u],
         \A u \in Threads \ {t} : call'[u] = call[u] /\ seen'[u] = seen[u],
         \A u \in Threads \ {t} :
           errno'[u] = errno[u] /\ saved'[u] = saved[u] /\ left'[u] = left[u],
         UNCHANGED <<done, x, memVars>>
  PROVE  WInv'
<1>1. UNCHANGED <<done, x, copies, heap, mem>>
  BY DEF memVars
<1>2. OwnInv'
  BY <1>1 DEF WInv, OwnInv
<1> QED
  BY <1>1, <1>2, OneFrame

(* C runs on the values that the request means.                            *)
LEMMA RunsOnMeaning ==
  ASSUME WInv, NEW t \in Threads, pc[t] = "inC"
  PROVE  /\ Reads(t) = Means(call[t])
         /\ Means(call[t]) \in Values
         /\ Means(call[t]) # Nothing
<1> DEFINE r == call[t]
<1>1. /\ r \in Requests /\ Len(r.args) = Len(Takes(r.fn))
      /\ done[t] = Len(r.args)
      /\ \A i \in 1 .. MaxArgs : i > done[t] => x[t][i] = Nothing
      /\ \A i \in 1 .. done[t] : Converted(t, i)
      /\ copies[t] \subseteq Blocks
  BY DEF WInv, WTypeOK, CallInv, Frame, Arguments, Arity, Asked, Back
<1>2. /\ r.args \in Seq(Objects) /\ Len(r.args) \in Nat
      /\ \A i \in 1 .. Len(r.args) : r.args[i] \in Objects
  BY <1>1, RequestType
<1>3. /\ Means(r) = [i \in 1 .. MaxArgs |->
                       IF i <= Len(r.args) THEN r.args[i] ELSE Nothing]
      /\ Means(r) \in Values
      /\ Means(r) # Nothing
  BY <1>1, MeaningfulRequest DEF Converted
<1>4. ASSUME NEW i \in 1 .. MaxArgs
      PROVE  (IF x[t][i] \in Blocks THEN mem[x[t][i]] ELSE x[t][i])
             = (IF i <= Len(r.args) THEN r.args[i] ELSE Nothing)
  <2>1. CASE i <= Len(r.args)
    <3>1. i \in 1 .. done[t] /\ i \in 1 .. Len(r.args)
      BY <1>1, <1>2, <2>1
    <3>2. Converted(t, i) /\ r.args[i] \notin Blocks
      BY <1>1, <1>2, <3>1, NothingAssumption
    <3> QED
      BY <1>1, <2>1, <3>2 DEF Converted
  <2>2. CASE ~(i <= Len(r.args))
    <3>1. i > done[t]
      BY <1>1, <1>2, <2>2
    <3> QED
      BY <1>1, <2>2, <3>1, NothingAssumption
  <2> QED
    BY <2>1, <2>2
<1> QED
  BY <1>3, <1>4 DEF Reads

(* The steps of a call outside the conversions that change neither its     *)
(* arguments nor its copies.                                               *)
LEMMA CallKeeps ==
  ASSUME WInv, NEW t \in Threads, NEW r \in Calls[t], Call(t, r)
  PROVE  WInv'
<1>1. /\ gil = Nothing /\ gil' = t /\ pc[t] = "idle"
      /\ pc' = [pc EXCEPT ![t] = "count"]
      /\ call' = [call EXCEPT ![t] = r]
      /\ reply' = [reply EXCEPT ![t] = Nothing]
      /\ UNCHANGED <<done, x, seen, copies, heap, mem, errno, saved, left>>
  BY DEF Call, Acquire, Move, memVars, errVars
<1>2. r \in Requests
  BY DEF Requests
<1>3. WTypeOK'
  BY <1>1, <1>2, NothingAssumption DEF WInv, WTypeOK, HoldsGil, WithoutGil
<1>4. CallInv(t)'
  <2>1. CallInv(t) /\ pc'[t] = "count" /\ call'[t] = r
    BY <1>1 DEF WInv, WTypeOK
  <2> QED
    BY <1>1, <1>2, <2>1 DEF CallInv, Frame, Arguments, Ran, Errno, Asked, Back
<1> QED
  BY <1>1, <1>3, <1>4, MoveKeeps DEF WInv, WTypeOK, memVars

LEMMA CountKeeps ==
  ASSUME WInv, NEW t \in Threads, CountArguments(t)
  PROVE  WInv'
<1>1. /\ gil = t /\ gil' = t /\ pc[t] = "count"
      /\ pc' = [pc EXCEPT ![t] = "convert"]
      /\ CountIsRight(call[t])
      /\ UNCHANGED <<call, done, x, seen, reply, copies, heap, mem,
                     errno, saved, left>>
  BY DEF CountArguments, Goto, Move, argVars, memVars, errVars
<1>2. WTypeOK'
  BY <1>1 DEF WInv, WTypeOK, HoldsGil, WithoutGil
<1>3. CallInv(t)'
  <2>1. CallInv(t) /\ pc'[t] = "convert" /\ call[t] \in Requests /\ done[t] = 0
    BY <1>1 DEF WInv, WTypeOK, CallInv, Frame
  <2>2. Len(call[t].args) = Arity(t) /\ Arity(t) \in Nat
    BY <1>1, <2>1, CountIsArity, RequestType, WrapperType DEF Arity
  <2>3. Frame(t)'
    BY <1>1, <2>1, <2>2 DEF Frame, Arity
  <2>4. \A i \in 1 .. done'[t] : FALSE
    BY <1>1, <2>1
  <2>5. Arguments(t)'
    BY <1>1, <2>1, <2>4 DEF CallInv, Arguments, Asked, Back
  <2> QED
    BY <1>1, <2>1, <2>3, <2>5 DEF CallInv, Ran, Errno, Back
<1> QED
  BY <1>1, <1>2, <1>3, MoveKeeps DEF WInv, WTypeOK, memVars

LEMMA YieldKeeps ==
  ASSUME WInv, NEW t \in Threads, YieldInInt(t) \/ ResumeInt(t)
  PROVE  WInv'
<1>1. /\ pc[t] \in {"convert", "python"}
      /\ \/ gil = t /\ gil' = Nothing /\ pc' = [pc EXCEPT ![t] = "python"]
         \/ gil = Nothing /\ gil' = t /\ pc' = [pc EXCEPT ![t] = "int"]
      /\ UNCHANGED <<call, done, x, seen, reply, copies, heap, mem,
                     errno, saved, left>>
  BY DEF YieldInInt, ResumeInt, Release, Acquire, Move, argVars, memVars,
         errVars
<1>2. WTypeOK'
  <2>1. \A u \in Threads : gil' = u <=> pc'[u] \in HoldsGil
    <3>1. CASE gil = t /\ gil' = Nothing /\ pc' = [pc EXCEPT ![t] = "python"]
      BY <3>1, NothingAssumption DEF WInv, WTypeOK, HoldsGil
    <3>2. CASE gil = Nothing /\ gil' = t /\ pc' = [pc EXCEPT ![t] = "int"]
      BY <3>2, NothingAssumption DEF WInv, WTypeOK, HoldsGil
    <3> QED
      BY <1>1, <3>1, <3>2
  <2>2. pc' \in [Threads -> HoldsGil \cup WithoutGil]
    BY <1>1 DEF WInv, WTypeOK, HoldsGil, WithoutGil
  <2> QED
    BY <1>1, <2>1, <2>2 DEF WInv, WTypeOK
<1>3. CallInv(t)'
  <2>1. CallInv(t) /\ pc'[t] \in {"python", "int"}
    BY <1>1 DEF WInv, WTypeOK
  <2>2. Frame(t)'
    BY <1>1, <2>1 DEF CallInv, Frame, Arity, Asked, Back
  <2>3. Arguments(t)'
    BY <1>1, <2>1 DEF CallInv, Arguments, Converted, Asked, Back
  <2> QED
    BY <1>1, <2>1, <2>2, <2>3 DEF CallInv, Ran, Errno, Back
<1> QED
  BY <1>1, <1>2, <1>3, MoveKeeps DEF WInv, WTypeOK, memVars

LEMMA BeginKeeps ==
  ASSUME WInv, NEW t \in Threads, BeginAllowThreads(t)
  PROVE  WInv'
<1>1. /\ gil = t /\ gil' = Nothing /\ pc[t] = "convert"
      /\ pc' = [pc EXCEPT ![t] = "inC"] /\ done[t] = Arity(t)
      /\ errno' = [errno EXCEPT ![t] = saved[t]]
      /\ UNCHANGED <<call, done, x, seen, reply, copies, heap, mem,
                     saved, left>>
  BY DEF BeginAllowThreads, Release, Move, argVars, memVars
<1>2. WTypeOK'
  BY <1>1, NothingAssumption DEF WInv, WTypeOK, HoldsGil, WithoutGil
<1>3. CallInv(t)'
  <2>1. CallInv(t) /\ pc'[t] = "inC"
    BY <1>1 DEF WInv, WTypeOK
  <2>2. Frame(t)'
    BY <1>1, <2>1 DEF CallInv, Frame, Arity, Asked, Back
  <2>3. Arguments(t)'
    BY <1>1, <2>1 DEF CallInv, Arguments, Converted, Asked, Back
  <2> QED
    BY <1>1, <2>1, <2>2, <2>3 DEF CallInv, Ran, Errno, Back
<1> QED
  BY <1>1, <1>2, <1>3, MoveKeeps DEF WInv, WTypeOK, memVars

LEMMA BackKeeps ==
  ASSUME WInv, NEW t \in Threads,
         RunC(t) \/ SaveErrno(t) \/ EndAllowThreads(t) \/ ConvertResult(t)
  PROVE  WInv'
<1>1. WTypeOK /\ CallInv(t)
  BY DEF WInv
<1>2. UNCHANGED <<call, done, x, copies, heap, mem>>
  BY DEF RunC, SaveErrno, EndAllowThreads, ConvertResult, argVars, memVars
<1>3. CASE RunC(t)
  <2>1. PICK e \in Errnos :
          /\ errno' = [errno EXCEPT ![t] = e]
          /\ left' = [left EXCEPT ![t] = e]
    BY <1>3 DEF RunC
  <2>2. /\ pc[t] = "inC" /\ pc' = [pc EXCEPT ![t] = "ran"]
        /\ seen' = [seen EXCEPT ![t] = Means(call[t])]
        /\ Means(call[t]) \in Values
        /\ UNCHANGED <<gil, saved, reply>>
    BY <1>3, RunsOnMeaning DEF RunC, Move
  <2>3. WTypeOK'
    BY <1>1, <1>2, <2>1, <2>2 DEF WTypeOK, HoldsGil, WithoutGil
  <2>4. CallInv(t)'
    <3>1. /\ pc'[t] = "ran" /\ seen'[t] = Means(call[t])
          /\ errno'[t] = left'[t]
      BY <1>1, <2>1, <2>2 DEF WTypeOK
    <3> QED
      BY <1>1, <1>2, <2>2, <3>1
      DEF CallInv, Frame, Arity, Arguments, Ran, Errno, Asked, Back
  <2> QED
    BY <1>1, <1>2, <2>1, <2>2, <2>3, <2>4, MoveKeeps DEF WTypeOK, memVars
<1>4. CASE SaveErrno(t)
  <2>1. /\ pc[t] = "ran" /\ pc' = [pc EXCEPT ![t] = "saved"]
        /\ saved' = [saved EXCEPT ![t] = errno[t]]
        /\ errno[t] = left[t]
        /\ UNCHANGED <<gil, seen, errno, left, reply>>
    BY <1>1, <1>4 DEF SaveErrno, Move, argVars, CallInv, Errno
  <2>2. WTypeOK'
    BY <1>1, <1>2, <2>1 DEF WTypeOK, HoldsGil, WithoutGil
  <2>3. CallInv(t)'
    <3>1. pc'[t] = "saved" /\ saved'[t] = left[t]
      BY <1>1, <2>1 DEF WTypeOK
    <3> QED
      BY <1>1, <1>2, <2>1, <3>1
      DEF CallInv, Frame, Arity, Arguments, Ran, Errno, Asked, Back
  <2> QED
    BY <1>1, <1>2, <2>1, <2>2, <2>3, MoveKeeps DEF WTypeOK, memVars
<1>5. CASE EndAllowThreads(t)
  <2>1. /\ pc[t] = "saved" /\ pc' = [pc EXCEPT ![t] = "back"]
        /\ errno' = [errno EXCEPT ![t] = Nothing]
        /\ gil = Nothing /\ gil' = t
        /\ UNCHANGED <<seen, saved, left, reply>>
    BY <1>5 DEF EndAllowThreads, Acquire, Move, argVars
  <2>2. WTypeOK'
    BY <1>1, <1>2, <2>1, NothingAssumption DEF WTypeOK, HoldsGil, WithoutGil
  <2>3. CallInv(t)'
    <3>1. pc'[t] = "back"
      BY <1>1, <2>1 DEF WTypeOK
    <3> QED
      BY <1>1, <1>2, <2>1, <3>1
      DEF CallInv, Frame, Arity, Arguments, Ran, Errno, Asked, Back
  <2> QED
    BY <1>1, <1>2, <2>1, <2>2, <2>3, MoveKeeps DEF WTypeOK, memVars
<1>6. CASE ConvertResult(t)
  <2>1. PICK outcome \in Outcomes(call[t]) :
          reply' = [reply EXCEPT ![t] = outcome]
    BY <1>6 DEF ConvertResult
  <2>2. /\ pc[t] = "back" /\ pc' = [pc EXCEPT ![t] = "free"]
        /\ outcome \in {"None", "value", "error"}
        /\ gil = t /\ gil' = t
        /\ UNCHANGED <<seen, errno, saved, left>>
    BY <1>6, <2>1 DEF ConvertResult, Goto, Move, argVars, errVars, Outcomes
  <2>3. WTypeOK'
    BY <1>1, <1>2, <2>1, <2>2 DEF WTypeOK, HoldsGil, WithoutGil
  <2>4. CallInv(t)'
    <3>1. pc'[t] = "free" /\ reply'[t] \in Outcomes(call[t])
      BY <1>1, <2>1, <2>2 DEF WTypeOK
    <3> QED
      BY <1>1, <1>2, <2>2, <3>1
      DEF CallInv, Frame, Arity, Outcomes, Arguments, Ran, Errno, Asked, Back
  <2> QED
    BY <1>1, <1>2, <2>1, <2>2, <2>3, <2>4, MoveKeeps DEF WTypeOK, memVars
<1> QED
  BY <1>3, <1>4, <1>5, <1>6

(* The copies are freed one by one, and then the frame is left.            *)
LEMMA FreeKeeps ==
  ASSUME WInv, NEW t \in Threads, FreeOne(t) \/ Return(t)
  PROVE  WInv'
<1>1. WTypeOK /\ OwnInv /\ CallInv(t)
  BY DEF WInv
<1>2. CASE FreeOne(t)
  <2>1. PICK b \in copies[t] :
          /\ heap' = heap \ {b}
          /\ mem' = [mem EXCEPT ![b] = Nothing]
          /\ copies' = [copies EXCEPT ![t] = @ \ {b}]
    BY <1>2 DEF FreeOne
  <2>2. /\ pc[t] = "free" /\ pc' = pc /\ gil' = gil
        /\ UNCHANGED <<call, done, x, seen, errno, saved, left, reply>>
    BY <1>1, <1>2 DEF FreeOne, Goto, Move, argVars, errVars, WTypeOK
  <2>3. WTypeOK'
    BY <1>1, <2>1, <2>2 DEF WTypeOK
  <2>4. OwnInv'
    BY <1>1, <2>1 DEF WTypeOK, OwnInv
  <2>5. CallInv(t)'
    BY <1>1, <2>2
    DEF CallInv, Frame, Arity, Outcomes, Arguments, Ran, Errno, Asked, Back
  <2>6. \A u \in Threads \ {t} : \A c \in copies[u] : mem'[c] = mem[c]
    BY <1>1, <2>1 DEF WTypeOK, OwnInv
  <2> QED
    BY <1>1, <2>1, <2>2, <2>3, <2>4, <2>5, <2>6, OneFrame DEF WTypeOK
<1>3. CASE Return(t)
  <2>1. /\ copies[t] = {} /\ pc[t] = "free" /\ gil = t /\ gil' = Nothing
        /\ pc' = [pc EXCEPT ![t] = "idle"]
        /\ call' = [call EXCEPT ![t] = Nothing]
        /\ done' = [done EXCEPT ![t] = 0]
        /\ x' = [x EXCEPT ![t] = Unset]
        /\ seen' = [seen EXCEPT ![t] = Nothing]
        /\ UNCHANGED <<copies, heap, mem, errno, saved, left, reply>>
    BY <1>3 DEF Return, Release, Move, Leave, memVars, errVars
  <2>2. WTypeOK'
    <3>1. x' \in [Threads -> [1 .. MaxArgs -> Objects \cup Blocks \cup {Nothing}]]
      BY <1>1, <2>1 DEF WTypeOK, Unset
    <3>2. done' \in [Threads -> 0 .. MaxArgs]
      BY <1>1, <2>1 DEF WTypeOK, MaxArgs
    <3> QED
      BY <1>1, <2>1, <3>1, <3>2, NothingAssumption
      DEF WTypeOK, HoldsGil, WithoutGil
  <2>3. CallInv(t)'
    <3>1. /\ pc'[t] = "idle" /\ call'[t] = Nothing /\ done'[t] = 0
          /\ x'[t] = Unset /\ seen'[t] = Nothing /\ copies'[t] = {}
          /\ saved'[t] = left'[t]
      BY <1>1, <2>1 DEF WTypeOK, CallInv, Errno
    <3> QED
      BY <3>1 DEF CallInv, Frame, Arguments, Ran, Errno, Asked, Back, Unset
  <2>4. OwnInv'
    BY <1>1, <2>1 DEF OwnInv
  <2> QED
    BY <1>1, <2>1, <2>2, <2>3, <2>4, OneFrame DEF WTypeOK
<1> QED
  BY <1>2, <1>3
-----------------------------------------------------------------------------
(* A conversion passes an argument that stands for something, or a copy of *)
(* it in a new block; or the call is refused, and rightly so.              *)
Passes(t) ==
  /\ pc[t] \in {"convert", "int"}
  /\ done[t] < Arity(t)
  /\ Stands(NextArg(t), NextKind(t))
  /\ \E v : /\ Pass(t, v)
            /\ \/ v = NextArg(t) /\ UNCHANGED memVars
               \/ /\ v \in Blocks \ heap
                  /\ heap' = heap \cup {v}
                  /\ mem' = [mem EXCEPT ![v] = NextArg(t)]
                  /\ copies' = [copies EXCEPT ![t] = @ \cup {v}]

Refuses(t) ==
  /\ \/ pc[t] = "count" /\ UNCHANGED heap
     \/ pc[t] \in {"convert", "int"}
  /\ Raise(t)
  /\ heap \subseteq heap' /\ heap' \subseteq Blocks
  /\ mem' \in [Blocks -> Objects \cup {Nothing}]
  /\ \A b \in heap : mem'[b] = mem[b]
  /\ Means(call[t]) = Nothing \/ NeedsMemory(call[t])

LEMMA ConversionStep ==
  ASSUME WInv, NEW t \in Threads, RefuseCount(t) \/ Convert(t)
  PROVE  ResumeInt(t) \/ Passes(t) \/ Refuses(t)
<1>1. WTypeOK /\ CallInv(t)
  BY DEF WInv
<1>2. heap \subseteq Blocks /\ mem \in [Blocks -> Objects \cup {Nothing}]
  BY <1>1 DEF WTypeOK
<1>3. CASE RefuseCount(t)
  <2>1. call[t] \in Requests /\ pc[t] = "count"
    BY <1>1, <1>3 DEF RefuseCount, CallInv, Frame
  <2>2. Len(call[t].args) # Len(Takes(call[t].fn))
    BY <1>3, <2>1, CountIsArity DEF RefuseCount
  <2>3. Means(call[t]) = Nothing
    BY <2>1, <2>2, RequestType, TableAssumption DEF Means
  <2> QED
    BY <1>2, <1>3, <2>1, <2>3 DEF RefuseCount, Refuses
<1>4. ASSUME NEW kinds \in SUBSET Kinds,
             Converting(t, {"convert", "int"}, kinds)
      PROVE  /\ pc[t] \in {"convert", "int"} /\ done[t] < Arity(t)
             /\ NextKind(t) \in kinds
             /\ NextArg(t) \in Objects
             /\ ~Stands(NextArg(t), NextKind(t)) => Means(call[t]) = Nothing
             /\ NextArg(t).type = "list" /\ OnHeap(NextArg(t))
                  => NeedsMemory(call[t])
  <2>1. pc[t] \in {"convert", "int"} /\ done[t] < Arity(t) /\ NextKind(t) \in kinds
    BY <1>4 DEF Converting
  <2>2. /\ call[t] \in Requests /\ done[t] + 1 \in 1 .. Len(call[t].args)
        /\ Len(call[t].args) = Len(Takes(call[t].fn))
        /\ NextArg(t) \in Objects
        /\ NextArg(t) = call[t].args[done[t] + 1]
        /\ NextKind(t) = Takes(call[t].fn)[done[t] + 1]
    BY <2>1, NextArgument
  <2>3. ~Stands(NextArg(t), NextKind(t)) => Means(call[t]) = Nothing
    BY <2>2, MeaninglessArgument
  <2>4. DOMAIN call[t].args = 1 .. Len(call[t].args)
    BY <2>2, RequestType
  <2> QED
    BY <2>1, <2>2, <2>3, <2>4 DEF NeedsMemory
<1>5. CASE ConvertInt(t)
  <2> DEFINE o == NextArg(t)
             k == NextKind(t)
             c == _cffi_to_c_int(o, k)
  <2>1. Converting(t, {"convert", "int"}, {"int", "uint8_t"})
    BY <1>5 DEF ConvertInt
  <2>2. /\ pc[t] \in {"convert", "int"} /\ done[t] < Arity(t)
        /\ k \in {"int", "uint8_t"} /\ o \in Objects
        /\ ~Stands(o, k) => Means(call[t]) = Nothing
    BY <1>4, <2>1 DEF Kinds
  <2>3. /\ Failed(c, k) <=> ~Stands(o, k)
        /\ ~Failed(c, k) => CInt(c.value) = o
    BY <2>2, ConversionIsExact
  <2>4. CASE Failed(c, k)
    BY <1>2, <1>5, <2>2, <2>3, <2>4 DEF ConvertInt, Refuses
  <2>5. CASE ~Failed(c, k)
    BY <1>5, <2>2, <2>3, <2>5 DEF ConvertInt, Passes
  <2> QED
    BY <2>4, <2>5
<1>6. ASSUME Converting(t, {"convert"}, {"char *"})
      PROVE  /\ Converting(t, {"convert", "int"}, {"char *"})
             /\ NextKind(t) = "char *"
             /\ pc[t] \in {"convert", "int"} /\ done[t] < Arity(t)
             /\ NextArg(t) \in Objects
             /\ ~Stands(NextArg(t), "char *") => Means(call[t]) = Nothing
             /\ NextArg(t).type = "list" /\ OnHeap(NextArg(t))
                  => NeedsMemory(call[t])
  <2>1. Converting(t, {"convert", "int"}, {"char *"}) /\ NextKind(t) = "char *"
    BY <1>6 DEF Converting
  <2> QED
    BY <1>4, <2>1 DEF Kinds
<1>7. CASE PassPointer(t) \/ CopyToStack(t)
  BY <1>6, <1>7, PointerCases DEF PassPointer, CopyToStack, Passes
<1>8. CASE CopyToHeap(t)
  <2>1. PICK b \in Blocks :
          /\ Allocate(b, NextArg(t)) /\ Pass(t, b)
          /\ copies' = [copies EXCEPT ![t] = @ \cup {b}]
    BY <1>8 DEF CopyToHeap
  <2>2. Stands(NextArg(t), "char *")
    BY <1>6, <1>8, PointerCases DEF CopyToHeap
  <2> QED
    BY <1>6, <1>8, <2>1, <2>2 DEF CopyToHeap, Allocate, Passes
<1>9. CASE RefusePointer(t)
  BY <1>2, <1>6, <1>9, PointerCases DEF RefusePointer, Refuses
<1>10. CASE RefuseCopy(t)
  <2>1. PICK b \in Blocks : Allocate(b, Nothing)
    BY <1>10 DEF RefuseCopy
  <2>2. /\ heap \subseteq heap' /\ heap' \subseteq Blocks
        /\ mem' \in [Blocks -> Objects \cup {Nothing}]
        /\ \A a \in heap : mem'[a] = mem[a]
    BY <1>2, <2>1 DEF Allocate
  <2>3. Means(call[t]) = Nothing
    BY <1>6, <1>10, PointerCases DEF RefuseCopy
  <2> QED
    BY <1>6, <1>10, <2>2, <2>3 DEF RefuseCopy, Refuses
<1>11. CASE NoMemory(t)
  <2>1. Means(call[t]) = Nothing \/ NeedsMemory(call[t])
    BY <1>6, <1>11, PointerCases DEF NoMemory, OnHeap, DataSize
  <2> QED
    BY <1>2, <1>6, <1>11, <2>1 DEF NoMemory, Refuses
<1> QED
  BY <1>3, <1>5, <1>7, <1>8, <1>9, <1>10, <1>11 DEF Convert

(* Every step keeps the invariant.                                         *)
LEMMA NextKeeps == WInv /\ [WNext]_vars => WInv'
<1> SUFFICES ASSUME WInv, [WNext]_vars
             PROVE  WInv'
  OBVIOUS
<1>1. ASSUME NEW t \in Threads, Step(t) \/ RunC(t) \/ YieldInInt(t)
      PROVE  WInv'
  <2>1. CASE RefuseCount(t) \/ Convert(t)
    <3>1. CASE Passes(t)
      BY <3>1, PassKeeps DEF Passes
    <3>2. CASE Refuses(t)
      BY <3>2, RaiseKeeps DEF Refuses, HoldsGil
    <3> QED
      BY <2>1, <3>1, <3>2, ConversionStep, YieldKeeps
  <2> QED
    BY <1>1, <2>1, CountKeeps, YieldKeeps, BeginKeeps, BackKeeps, FreeKeeps
    DEF Step
<1>2. CASE UNCHANGED vars
  BY <1>2
  DEF vars, WInv, WTypeOK, OwnInv, CallInv, Frame, Arguments, Converted, Ran,
      Errno, Arity, Outcomes
<1> QED
  BY <1>1, <1>2, CallKeeps DEF WNext

LEMMA InitKeeps == WInit => WInv
<1> SUFFICES ASSUME WInit
             PROVE  WInv
  OBVIOUS
<1>1. WTypeOK
  BY NothingAssumption
  DEF WInit, WTypeOK, HoldsGil, WithoutGil, Unset, MaxArgs
<1>2. OwnInv
  BY DEF WInit, OwnInv
<1>3. \A t \in Threads : CallInv(t)
  BY DEF WInit, CallInv, Frame, Arguments, Ran, Errno, Asked, Back, Unset
<1> QED
  BY <1>1, <1>2, <1>3 DEF WInv

LEMMA Invariance == WSpec => []WInv
BY InitKeeps, NextKeeps, PTL DEF WSpec
-----------------------------------------------------------------------------
(* A thread holds the GIL exactly where a wrapper touches Python objects,  *)
(* so no two do so at once, whatever the threads call.                     *)
THEOREM TypeCorrect == WSpec => []WTypeOK
BY Invariance, PTL DEF WInv

(* Whatever other threads call, raise or free meanwhile, each copy that C  *)
(* reads belongs to its own call alone and holds what was passed.          *)
THEOREM CopiesStayPrivate == WSpec => []CopiesArePrivate
<1>1. WInv => CopiesArePrivate
  <2> SUFFICES ASSUME WInv, NEW t \in Threads,
                      pc[t] \in {"convert", "int", "python", "inC"},
                      NEW i \in 1 .. done[t], x[t][i] \in Blocks
               PROVE  x[t][i] \in copies[t] /\ mem[x[t][i]] = call[t].args[i]
    BY DEF CopiesArePrivate, WInv, OwnInv
  <2>1. Converted(t, i)
    BY DEF WInv, CallInv, Arguments, Asked
  <2>2. /\ call[t] \in Requests /\ Len(call[t].args) = Arity(t)
        /\ done[t] \in 0 .. MaxArgs /\ done[t] <= Arity(t)
    BY DEF WInv, WTypeOK, CallInv, Frame, Asked
  <2>3. call[t].args \in Seq(Objects) /\ Len(call[t].args) \in Nat
    BY <2>2, RequestType
  <2>4. i \in 1 .. Len(call[t].args)
    BY <2>2, <2>3
  <2>5. call[t].args[i] \notin Blocks
    BY <2>3, <2>4, NothingAssumption
  <2> QED
    BY <2>1, <2>5 DEF Converted
<1> QED
  BY <1>1, Invariance, PTL

(* The errno of a C call is kept until the thread asks for it.             *)
THEOREM ErrnoIsKept == WSpec => []ErrnoSurvives
<1>1. WInv => ErrnoSurvives
  BY DEF WInv, CallInv, Errno, ErrnoSurvives
<1> QED
  BY <1>1, Invariance, PTL

(* Memory is lost on one path only: a call whose conversions fail.         *)
THEOREM LeaksAreRefusals == WSpec => OnlyRefusedCallsLeak
<1> DEFINE Leak(b) == b \in Lost' \ Lost
           Refused == \E t \in Threads :
                        pc[t] \in {"convert", "int"} /\ pc'[t] = "idle"
<1>1. ASSUME WInv, [WNext]_vars, NEW b, Leak(b)
      PROVE  Refused
  <2>1. /\ b \in heap' /\ \A t \in Threads : b \notin copies'[t]
        /\ b \notin heap \/ \E t \in Threads : b \in copies[t]
    BY <1>1 DEF Lost
  <2>2. ASSUME NEW t \in Threads, Refuses(t)
        PROVE  Refused
    <3>1. pc'[t] = "idle"
      BY <1>1, <2>2 DEF Refuses, Raise, Release, Move, WInv, WTypeOK
    <3>2. CASE pc[t] = "count" /\ UNCHANGED heap
      <4>1. copies[t] = {} /\ copies' = [copies EXCEPT ![t] = {}]
        BY <1>1, <2>2, <3>2 DEF Refuses, Raise, WInv, CallInv, Frame
      <4>2. copies' = copies
        BY <1>1, <4>1 DEF WInv, WTypeOK
      <4> QED
        BY <2>1, <3>2, <4>2
    <3> QED
      BY <2>2, <3>1, <3>2 DEF Refuses
  <2>3. ASSUME NEW t \in Threads, Passes(t)
        PROVE  FALSE
    <3>1. PICK v : \/ UNCHANGED memVars
                   \/ /\ v \in Blocks \ heap
                      /\ heap' = heap \cup {v}
                      /\ copies' = [copies EXCEPT ![t] = @ \cup {v}]
      BY <2>3 DEF Passes
    <3>2. copies \in [Threads -> SUBSET Blocks]
      BY <1>1 DEF WInv, WTypeOK
    <3>3. CASE UNCHANGED memVars
      BY <2>1, <3>3 DEF memVars
    <3> QED
      BY <2>1, <3>1, <3>2, <3>3
  <2>4. ASSUME NEW t \in Threads, FreeOne(t)
        PROVE  FALSE
    <3>1. PICK c \in copies[t] : /\ heap' = heap \ {c}
                                 /\ copies' = [copies EXCEPT ![t] = @ \ {c}]
      BY <2>4 DEF FreeOne
    <3>2. copies \in [Threads -> SUBSET Blocks]
      BY <1>1 DEF WInv, WTypeOK
    <3> QED
      BY <2>1, <3>1, <3>2
  <2>5. CASE UNCHANGED memVars
    BY <2>1, <2>5 DEF memVars
  <2>6. ASSUME NEW t \in Threads, RefuseCount(t) \/ Convert(t)
        PROVE  Refused
    BY <1>1, <2>2, <2>3, <2>5, <2>6, ConversionStep DEF ResumeInt
  <2>7. ASSUME NEW t \in Threads, Step(t) \/ RunC(t) \/ YieldInInt(t)
        PROVE  Refused
    BY <2>4, <2>5, <2>6, <2>7
    DEF Step, CountArguments, BeginAllowThreads, SaveErrno, EndAllowThreads,
        ConvertResult, Return, RunC, YieldInInt
  <2>8. ASSUME NEW t \in Threads, NEW r \in Calls[t], Call(t, r)
        PROVE  Refused
    BY <2>5, <2>8 DEF Call
  <2>9. CASE UNCHANGED vars
    BY <2>5, <2>9 DEF vars, memVars
  <2> QED
    BY <1>1, <2>7, <2>8, <2>9 DEF WNext
<1>2. WInv /\ [WNext]_vars
        => [\A b \in Lost' \ Lost : \E t \in Threads :
              pc[t] \in {"convert", "int"} /\ pc'[t] = "idle"]_vars
  BY <1>1
<1> QED
  BY <1>2, Invariance, PTL DEF WSpec, OnlyRefusedCallsLeak
-----------------------------------------------------------------------------
(* The refinement.  A step that leaves what the caller sees alone stutters.*)
LEMMA StatusAt ==
  ASSUME NEW q
  PROVE  /\ q = "idle" => Status(q) = "idle"
         /\ q \in Asked \cup {"count"} => Status(q) = "asked"
         /\ q \in Back => Status(q) = "ran"
BY DEF Status, Asked, Back

LEMMA StaysInCall ==
  ASSUME WInv, NEW t \in Threads, UNCHANGED <<call, seen>>,
         \A u \in Threads \ {t} : reply'[u] = reply[u],
         NEW q \in HoldsGil \cup WithoutGil, pc' = [pc EXCEPT ![t] = q],
         \/ pc[t] \in Asked \cup {"count"} /\ q \in Asked \cup {"count"}
         \/ pc[t] \in Back /\ q \in Back
  PROVE  UNCHANGED F!callVars
<1>1. pc \in [Threads -> HoldsGil \cup WithoutGil]
  BY DEF WInv, WTypeOK
<1>2. \A u \in Threads : Status(pc'[u]) = Status(pc[u])
  BY <1>1, StatusAt
<1>3. StatusOf' = StatusOf
  BY <1>2 DEF StatusOf
<1>4. ReplyOf' = ReplyOf
  BY <1>1 DEF ReplyOf, Asked, Back
<1> QED
  BY <1>3, <1>4 DEF F!callVars

(* A call that is refused is refused, as far as the caller sees.           *)
LEMMA RefusesMaps ==
  ASSUME WInv, NEW t \in Threads, Refuses(t)
  PROVE  F!Refuse(t)
<1>1. pc[t] \in Asked \cup {"count"}
  BY DEF Refuses, Asked
<1>2. /\ pc \in [Threads -> HoldsGil \cup WithoutGil]
      /\ reply \in [Threads -> {Nothing, "None", "value", "error"}]
      /\ pc' = [pc EXCEPT ![t] = "idle"]
      /\ reply' = [reply EXCEPT ![t] = "error"]
      /\ call' = [call EXCEPT ![t] = Nothing]
      /\ seen' = [seen EXCEPT ![t] = Nothing]
  BY DEF WInv, WTypeOK, Refuses, Raise, Release, Move, Leave
<1>3. StatusOf[t] = "asked"
  BY <1>1, StatusAt DEF StatusOf
<1>4. StatusOf' = [StatusOf EXCEPT ![t] = "idle"]
  BY <1>2, StatusAt DEF StatusOf
<1>5. ReplyOf' = [ReplyOf EXCEPT ![t] = "error"]
  BY <1>2 DEF ReplyOf
<1>6. Means(call[t]) = Nothing \/ NeedsMemory(call[t])
  BY DEF Refuses
<1> QED
  BY <1>2, <1>3, <1>4, <1>5, <1>6 DEF F!Refuse, F!Finished

LEMMA RunMaps ==
  ASSUME WInv, NEW t \in Threads, RunC(t)
  PROVE  F!Run(t)
<1>1. /\ pc \in [Threads -> HoldsGil \cup WithoutGil]
      /\ pc[t] = "inC" /\ pc' = [pc EXCEPT ![t] = "ran"]
      /\ seen' = [seen EXCEPT ![t] = Means(call[t])]
      /\ Means(call[t]) # Nothing
      /\ UNCHANGED <<call, reply>>
  BY RunsOnMeaning DEF WInv, WTypeOK, RunC, Move
<1>2. StatusOf[t] = "asked"
  BY <1>1, StatusAt DEF StatusOf, Asked
<1>3. StatusOf' = [StatusOf EXCEPT ![t] = "ran"]
  BY <1>1, StatusAt DEF StatusOf, Back
<1>4. ReplyOf' = ReplyOf
  BY <1>1 DEF ReplyOf
<1> QED
  BY <1>1, <1>2, <1>3, <1>4 DEF F!Run

LEMMA ReturnMaps ==
  ASSUME WInv, NEW t \in Threads, Return(t)
  PROVE  F!Answer(t)
<1>1. /\ pc \in [Threads -> HoldsGil \cup WithoutGil]
      /\ reply \in [Threads -> {Nothing, "None", "value", "error"}]
      /\ pc[t] = "free" /\ pc' = [pc EXCEPT ![t] = "idle"]
      /\ call' = [call EXCEPT ![t] = Nothing]
      /\ seen' = [seen EXCEPT ![t] = Nothing]
      /\ UNCHANGED reply
      /\ call[t] \in Requests /\ reply[t] \in Outcomes(call[t])
  BY DEF WInv, WTypeOK, CallInv, Frame, Return, Release, Move, Leave
<1>2. reply[t] \in AnswersTo(call[t])
  BY <1>1, RequestType, TableAssumption DEF Outcomes, AnswersTo
<1>3. StatusOf[t] = "ran"
  BY <1>1, StatusAt DEF StatusOf, Back
<1>4. StatusOf' = [StatusOf EXCEPT ![t] = "idle"]
  BY <1>1, StatusAt DEF StatusOf
<1>5. ReplyOf' = [ReplyOf EXCEPT ![t] = reply[t]]
  BY <1>1 DEF ReplyOf
<1> QED
  BY <1>1, <1>2, <1>3, <1>4, <1>5 DEF F!Answer, F!Finished

LEMMA CallMaps ==
  ASSUME WInv, NEW t \in Threads, NEW r \in Calls[t], Call(t, r)
  PROVE  r \in Requests /\ F!Ask(t, r)
<1>1. /\ pc \in [Threads -> HoldsGil \cup WithoutGil]
      /\ pc[t] = "idle" /\ pc' = [pc EXCEPT ![t] = "count"]
      /\ call' = [call EXCEPT ![t] = r]
      /\ reply' = [reply EXCEPT ![t] = Nothing]
      /\ UNCHANGED seen
  BY DEF WInv, WTypeOK, Call, Acquire, Move
<1>2. StatusOf[t] = "idle"
  BY <1>1, StatusAt DEF StatusOf
<1>3. StatusOf' = [StatusOf EXCEPT ![t] = "asked"]
  BY <1>1, StatusAt DEF StatusOf
<1>4. ReplyOf' = [ReplyOf EXCEPT ![t] = Nothing]
  <2>1. reply \in [Threads -> {Nothing, "None", "value", "error"}]
    BY DEF WInv, WTypeOK
  <2>2. pc'[t] = "count" /\ \A u \in Threads \ {t} : pc'[u] = pc[u]
    BY <1>1
  <2>3. \A u \in Threads \ {t} : reply'[u] = reply[u]
    BY <1>1, <2>1
  <2> QED
    BY <2>2, <2>3 DEF ReplyOf
<1> QED
  BY <1>1, <1>2, <1>3, <1>4 DEF F!Ask, Requests

(* C runs once for every call that is not refused, on exactly the values   *)
(* its arguments stand for, and no call is refused that stands for values  *)
(* and fits into memory.                                                   *)
THEOREM CallsAreExact == WSpec => ImplementsForeignCall
<1>1. ASSUME WInit
      PROVE  F!CallInit
  <2>1. \A t \in Threads : pc[t] = "idle" /\ reply[t] = Nothing
    BY <1>1 DEF WInit
  <2>2. StatusOf = [t \in Threads |-> "idle"]
    BY <2>1, StatusAt DEF StatusOf
  <2>3. ReplyOf = [t \in Threads |-> Nothing]
    BY <2>1 DEF ReplyOf
  <2> QED
    BY <1>1, <2>2, <2>3 DEF WInit, F!CallInit
<1>2. WInv /\ [WNext]_vars => [F!CallNext]_F!callVars
  <2> SUFFICES ASSUME WInv, [WNext]_vars
               PROVE  F!CallNext \/ UNCHANGED F!callVars
    OBVIOUS
  <2>1. ASSUME NEW t \in Threads, RefuseCount(t) \/ Convert(t)
        PROVE  F!CallNext \/ UNCHANGED F!callVars
    <3>1. CASE Passes(t) \/ ResumeInt(t)
      <4>1. PICK q \in Asked :
              /\ pc' = [pc EXCEPT ![t] = q]
              /\ UNCHANGED <<call, seen, reply>>
        BY <3>1 DEF Passes, Pass, Goto, ResumeInt, Acquire, Move, argVars, Asked
      <4>2. pc[t] \in Asked /\ q \in HoldsGil \cup WithoutGil
        BY <3>1 DEF Passes, ResumeInt, Acquire, Move, Asked, HoldsGil, WithoutGil
      <4> QED
        BY <4>1, <4>2, StaysInCall
    <3>2. CASE Refuses(t)
      BY <3>2, RefusesMaps DEF F!CallNext
    <3> QED
      BY <2>1, <3>1, <3>2, ConversionStep
  <2>2. ASSUME NEW t \in Threads,
               CountArguments(t) \/ BeginAllowThreads(t) \/ YieldInInt(t)
        PROVE  UNCHANGED F!callVars
    <3>1. PICK q \in Asked :
            /\ pc' = [pc EXCEPT ![t] = q]
            /\ UNCHANGED <<call, seen, reply>>
      BY <2>2
      DEF CountArguments, BeginAllowThreads, YieldInInt, Goto, Release, Move,
          argVars, Asked
    <3>2. pc[t] \in Asked \cup {"count"} /\ q \in HoldsGil \cup WithoutGil
      BY <2>2
      DEF CountArguments, BeginAllowThreads, YieldInInt, Goto, Release, Move,
          Asked, HoldsGil, WithoutGil
    <3> QED
      BY <3>1, <3>2, StaysInCall
  <2>3. ASSUME NEW t \in Threads,
               \/ SaveErrno(t) \/ EndAllowThreads(t)
               \/ ConvertResult(t) \/ FreeOne(t)
        PROVE  UNCHANGED F!callVars
    <3>1. PICK q \in Back :
            /\ pc' = [pc EXCEPT ![t] = q]
            /\ UNCHANGED <<call, seen>>
            /\ \A u \in Threads \ {t} : reply'[u] = reply[u]
      <4>1. reply \in [Threads -> {Nothing, "None", "value", "error"}]
        BY DEF WInv, WTypeOK
      <4> QED
        BY <2>3, <4>1
        DEF SaveErrno, EndAllowThreads, ConvertResult, FreeOne, Goto, Acquire,
            Move, argVars, Back
    <3>2. pc[t] \in Back /\ q \in HoldsGil \cup WithoutGil
      BY <2>3
      DEF SaveErrno, EndAllowThreads, ConvertResult, FreeOne, Goto, Acquire,
          Move, Back, HoldsGil, WithoutGil
    <3> QED
      BY <3>1, <3>2, StaysInCall
  <2>4. ASSUME NEW t \in Threads, RunC(t) \/ Return(t)
        PROVE  F!CallNext
    BY <2>4, RunMaps, ReturnMaps DEF F!CallNext
  <2>5. ASSUME NEW t \in Threads, NEW r \in Calls[t], Call(t, r)
        PROVE  F!CallNext
    BY <2>5, CallMaps DEF F!CallNext
  <2>6. CASE UNCHANGED vars
    BY <2>6 DEF vars, F!callVars, StatusOf, ReplyOf
  <2> QED
    BY <2>1, <2>2, <2>3, <2>4, <2>5, <2>6 DEF WNext, Step
<1> QED
  BY <1>1, <1>2, Invariance, PTL DEF WSpec, ImplementsForeignCall, F!CallSpec
=============================================================================
