------------------------------ MODULE TxCalls ------------------------------
(***************************************************************************)
(* The stateful calls of python/libdogecoin/__init__.py: the w_* functions *)
(* on the table of working transactions, which the C library keeps for the *)
(* whole process, like the static buffer that get_raw_transaction and      *)
(* finalize_transaction return a pointer to, and the secp256k1 context.    *)
(* A wrapper enters C with the GIL released, takes the GIL again, tests    *)
(* the result and copies the text out of the buffer it was given (_s); the *)
(* _ex variants, and the signing of a text, pass a buffer of their own.    *)
(*                                                                         *)
(* C runs without the GIL, and the repository has no lock for the table:   *)
(* calls of two threads, of which one changes it, may race, and then do    *)
(* anything to it.  A program has to have a lock of its own for them.      *)
(* A call that aborts the process, as w_sign_raw_transaction does with     *)
(* libdogecoin v0.1.5-pre, ends a behaviour: no step has to follow.        *)
(*                                                                         *)
(* A transaction's hex is abstracted to its index and the number of its    *)
(* changes.                                                                *)
(***************************************************************************)
EXTENDS Naturals

CONSTANTS
  Threads,    (* the threads of the program                              *)
  Legacy,     (* those that use the calls with the static buffer         *)
  Slots,      (* the indices of the table                                *)
  MaxRev,     (* bound: changes of one transaction                       *)
  Nothing,    (* an empty slot, a NULL result, no result                 *)
  Torn        (* the text of a buffer that is being written              *)

ASSUME TxAssumption ==
  /\ Legacy \subseteq Threads
  /\ MaxRev \in Nat

VARIABLES
  table,      (* the working transactions: changes so far, or Nothing    *)
  static,     (* the text in the static buffer                           *)
  ecc,        (* whether the context is up                               *)
  pc,         (* idle, incall, writing (the static buffer), copy         *)
  call,       (* the call each thread is in                              *)
  slot,       (* its index argument                                      *)
  raced,      (* the threads in C whose call has met another there       *)
  buf,        (* what the pointer or buffer of the call holds            *)
  due,        (* the text C computed for the call (history)              *)
  result      (* what the last call of the thread returned               *)

vars == <<table, static, ecc, pc, call, slot, raced, buf, due,
          result>>
answers == <<buf, due, result>>

StaticCalls == {"get", "finalize"}
OwnCalls    == {"get_ex", "finalize_ex", "sign_ex", "sign_raw"}
ValueCalls  == {"start", "change", "sign", "clear", "remove_all"}
Calls       == StaticCalls \cup OwnCalls \cup ValueCalls

Reading == {"get", "get_ex"}       \* these leave the table as it is
OnTable == Calls \ {"sign_raw"}

Hex == [slot : Slots, rev : 0..MaxRev]

Tables == [Slots -> (0..MaxRev) \cup {Nothing}]

TxTypeOK ==
  /\ table \in Tables
  /\ static \in Hex \cup {Nothing, Torn}
  /\ ecc \in BOOLEAN
  /\ pc \in [Threads -> {"idle", "incall", "writing", "copy"}]
  /\ call \in [Threads -> Calls]
  /\ slot \in [Threads -> Slots]
  /\ raced \subseteq Threads
  /\ buf \in [Threads -> Hex \cup {Nothing}]
  /\ due \in [Threads -> Hex \cup {Nothing}]
  /\ result \in [Threads -> Hex \cup {Nothing, Torn}]

Init ==
  /\ table = [i \in Slots |-> Nothing]
  /\ static = Nothing
  /\ ecc = FALSE
  /\ pc = [t \in Threads |-> "idle"]
  /\ call \in [Threads -> {"start"}]
  /\ slot \in [Threads -> Slots]
  /\ raced = {}
  /\ buf = [t \in Threads |-> Nothing]
  /\ due = [t \in Threads |-> Nothing]
  /\ result = [t \in Threads |-> Nothing]

Goto(t, from, to) ==
  /\ pc[t] = from
  /\ pc' = [pc EXCEPT ![t] = to]

Leave(t, from, to) ==
  /\ Goto(t, from, to)
  /\ raced' = raced \ {t}
-----------------------------------------------------------------------------
(* w_context_start and w_context_stop.                                     *)
ContextStart ==
  /\ ecc' = TRUE
  /\ UNCHANGED <<table, static, pc, call, slot, raced, answers>>

ContextStop ==
  /\ ecc' = FALSE
  /\ UNCHANGED <<table, static, pc, call, slot, raced, answers>>

(* The threads that are in C with a call that must not meet c.             *)
Rivals(t, c) ==
  {u \in Threads \ {t} :
     /\ pc[u] \in {"incall", "writing"}
     /\ {c, call[u]} \subseteq OnTable /\ ~ {c, call[u]} \subseteq Reading}

(* A wrapper converts its arguments, and an _ex makes a buffer of zeros.   *)
Enter(t, c, i) ==
  /\ c \in StaticCalls => t \in Legacy
  /\ Goto(t, "idle", "incall")
  /\ call' = [call EXCEPT ![t] = c]
  /\ slot' = [slot EXCEPT ![t] = i]
  /\ raced' = IF Rivals(t, c) = {} THEN raced
                                  ELSE raced \cup {t} \cup Rivals(t, c)
  /\ buf' = [buf EXCEPT ![t] = Nothing]
  /\ due' = [due EXCEPT ![t] = Nothing]
  /\ result' = [result EXCEPT ![t] = Nothing]
  /\ UNCHANGED <<table, static, ecc>>
-----------------------------------------------------------------------------
(* What the C functions do to the table at the slot of t.                  *)
Changes(t) ==
  LET i == slot[t] IN
  /\ table[i] # Nothing /\ table[i] < MaxRev
  /\ table' = [table EXCEPT ![i] = @ + 1]

(* A call with an index that is not in use, with arguments that C refuses, *)
(* or with a text that does not fit into its buffer, changes nothing.      *)
Fails(t) == IF t \in raced THEN table' \in Tables ELSE UNCHANGED table

(* Mutant: the raw hex of an index that is not in use.                     *)
ComputesUnchecked(t) ==
  /\ IF call[t] \in Reading THEN UNCHANGED table ELSE Changes(t)
  /\ due' = [due EXCEPT ![t] = [slot |-> slot[t], rev |-> table'[slot[t]]]]

Computes(t) ==
  \/ /\ t \notin raced
     /\ IF call[t] \in Reading
        THEN table[slot[t]] # Nothing /\ UNCHANGED table
        ELSE Changes(t)
     /\ due' = [due EXCEPT ![t] = [slot |-> slot[t], rev |-> table'[slot[t]]]]
  \/ /\ t \in raced
     /\ table' \in Tables
     /\ \E h \in Hex : due' = [due EXCEPT ![t] = h]

(* start_transaction and store_raw_transaction take an unused index;       *)
(* add_utxo and add_output change a transaction, so do the signing calls   *)
(* if the context is up.  They return numbers, by value.                   *)
ValueReturns(t) ==
  /\ call[t] \in ValueCalls
  /\ Leave(t, "incall", "idle")
  /\ \/ /\ call[t] = "start"
        /\ \E i \in Slots :
             table[i] = Nothing /\ table' = [table EXCEPT ![i] = 0]
     \/ call[t] = "change" /\ Changes(t)
     \/ call[t] = "sign" /\ ecc /\ Changes(t)
     \/ call[t] = "clear" /\ table' = [table EXCEPT ![slot[t]] = Nothing]
     \/ call[t] = "remove_all" /\ table' = [i \in Slots |-> Nothing]
     \/ call[t] \in {"start", "change", "sign"} /\ UNCHANGED table
     \/ t \in raced /\ table' \in Tables
  /\ UNCHANGED <<static, ecc, call, slot, answers>>

(* get_raw_transaction and finalize_transaction fill the static buffer...  *)
StaticBegins(t) ==
  /\ call[t] \in StaticCalls
  /\ Goto(t, "incall", "writing")
  /\ Computes(t)
  /\ static' = Torn
  /\ UNCHANGED <<ecc, call, slot, raced, buf, result>>

StaticEnds(t) ==
  /\ Leave(t, "writing", "copy")
  /\ \E h \in IF t \in raced THEN Hex ELSE {due[t]} :
       static' = h /\ due' = [due EXCEPT ![t] = h]
  /\ UNCHANGED <<table, ecc, call, slot, buf, result>>

(* ... or return NULL, which the wrapper turns into 0.                     *)
StaticFails(t) ==
  /\ call[t] \in StaticCalls
  /\ Leave(t, "incall", "idle")
  /\ Fails(t)
  /\ UNCHANGED <<static, ecc, call, slot, answers>>

(* _s(res), with the GIL: whatever the static buffer holds by now.         *)
CopyStatic(t) ==
  /\ call[t] \in StaticCalls
  /\ Goto(t, "copy", "idle")
  /\ result' = [result EXCEPT ![t] = static]
  /\ UNCHANGED <<table, static, ecc, call, slot, raced, buf, due>>
-----------------------------------------------------------------------------
(* Mutant: an _ex call that goes through the static buffer in C.           *)
OwnFillsStatic(t) ==
  /\ call[t] \in OwnCalls \ {"sign_raw"}
  /\ Leave(t, "incall", "copy")
  /\ Computes(t)
  /\ static' = due'[t]
  /\ buf' = [buf EXCEPT ![t] = due'[t]]
  /\ UNCHANGED <<ecc, call, slot, result>>

(* The _ex calls fill the caller's buffer.  Those that sign need the       *)
(* context, and some of them stop it.                                      *)
OwnFills(t) ==
  /\ call[t] \in OwnCalls \ {"sign_raw"}
  /\ Leave(t, "incall", "copy")
  /\ Computes(t)
  /\ buf' = [buf EXCEPT ![t] = due'[t]]
  /\ IF call[t] = "sign_ex" THEN ecc /\ ecc' \in BOOLEAN ELSE UNCHANGED ecc
  /\ UNCHANGED <<static, call, slot, result>>

(* w_sign_raw_transaction signs a text of the caller in a buffer of the    *)
(* call, and its _ex from one buffer into another: whatever transaction    *)
(* that is, the table is not read.                                         *)
SignRaw(t) ==
  /\ call[t] = "sign_raw" /\ ecc
  /\ Leave(t, "incall", "copy")
  /\ \E h \in Hex : due' = [due EXCEPT ![t] = h]
  /\ buf' = [buf EXCEPT ![t] = due'[t]]
  /\ ecc' \in BOOLEAN
  /\ UNCHANGED <<table, static, call, slot, result>>

(* Mutant: the return code is not tested, and the buffer is copied.        *)
OwnFailsUntested(t) ==
  /\ call[t] \in OwnCalls
  /\ Leave(t, "incall", "copy")
  /\ Fails(t)
  /\ UNCHANGED <<static, ecc, call, slot, answers>>

OwnFails(t) ==
  /\ call[t] \in OwnCalls
  /\ Leave(t, "incall", "idle")
  /\ Fails(t)
  /\ UNCHANGED <<static, ecc, call, slot, answers>>

(* _s(buf).                                                                *)
CopyOwn(t) ==
  /\ call[t] \in OwnCalls
  /\ Goto(t, "copy", "idle")
  /\ result' = [result EXCEPT ![t] = buf[t]]
  /\ UNCHANGED <<table, static, ecc, call, slot, raced, buf, due>>

Step(t) ==
  \/ ValueReturns(t)
  \/ StaticBegins(t) \/ StaticEnds(t) \/ StaticFails(t) \/ CopyStatic(t)
  \/ OwnFills(t) \/ SignRaw(t) \/ OwnFails(t) \/ CopyOwn(t)

Next ==
  \/ ContextStart \/ ContextStop
  \/ \E t \in Threads : Step(t)
  \/ \E t \in Threads, c \in Calls, i \in Slots : Enter(t, c, i)

Spec == Init /\ [][Next]_vars
-----------------------------------------------------------------------------
(* The thread's last call went through a buffer that others use as well.   *)
SharesStatic(t) == call[t] \in StaticCalls /\ ~ Legacy \subseteq {t}

(* The text a call returns is the text C computed for that call, and not   *)
(* that of a call of another thread: the _ex variants are "thread-safe",   *)
(* also beside threads that use the static buffer, and a thread that is    *)
(* the only one to use it gets its own texts from there.                   *)
ResultIsOwn ==
  \A t \in Threads :
    result[t] # Nothing /\ ~ SharesStatic(t) => result[t] = due[t]

(* At most one thread uses the calls that share the static buffer.         *)
OneLegacy == \A t, u \in Legacy : t = u

Phase == [idle |-> "out", incall |-> "asked", writing |-> "answered",
          copy |-> "answered"]
Serial == INSTANCE Transactions
  WITH at <- [t \in Threads |-> Phase[pc[t]]], Texts <- Hex, answer <- due

(* As long as the program lets no calls race, each call takes effect as a  *)
(* whole, once, between its start and its return, and returns the text of  *)
(* that moment: reads may meet, calls fail, and a text is copied when      *)
(* others are in C again, but neither a buffer of C nor another thread's   *)
(* call comes between a call's effect and its answer.                      *)
CallsAreAtomic ==
  Serial!Init /\ [][raced # {} \/ Serial!Next]_(Serial!vars)
=============================================================================
