---------------------------- MODULE Transactions ----------------------------
(***************************************************************************)
(* What a program may rely on of the w_* calls on working transactions:    *)
(* the calls of all threads take effect one at a time, each of them once,  *)
(* at a moment between its start and its return, and a text that a call    *)
(* returns is its transaction as it was at that moment.  Threads share     *)
(* the table of transactions and nothing else.                             *)
(***************************************************************************)
EXTENDS Naturals

CONSTANTS
  Threads,  (* the threads of the program                                *)
  Slots,    (* the indices of the table                                  *)
  Texts,    (* the hex texts: the index and changes of a transaction     *)
  Nothing   (* an empty slot, no text                                    *)

VARIABLES
  table,    (* the transactions: changes so far, or Nothing              *)
  at,       (* where each thread is: out, asked, answered                *)
  call,     (* the call each thread is in                                *)
  slot,     (* its index                                                 *)
  answer,   (* the text of a call that has taken effect                  *)
  result    (* the text that the last call returned, or Nothing          *)

vars == <<table, at, call, slot, answer, result>>

Reading  == {"get", "get_ex"}
Changing == {"finalize", "finalize_ex", "sign_ex"}
Calls    == Reading \cup Changing \cup
            {"sign_raw", "start", "change", "sign", "clear", "remove_all"}

Init ==
  /\ table = [i \in Slots |-> Nothing]
  /\ at = [t \in Threads |-> "out"]
  /\ call \in [Threads -> Calls]
  /\ slot \in [Threads -> Slots]
  /\ answer = [t \in Threads |-> Nothing]
  /\ result = [t \in Threads |-> Nothing]

Moves(t, from, to) ==
  /\ at[t] = from
  /\ at' = [at EXCEPT ![t] = to]

Ask(t) ==
  /\ Moves(t, "out", "asked")
  /\ \E c \in Calls : call' = [call EXCEPT ![t] = c]
  /\ \E i \in Slots : slot' = [slot EXCEPT ![t] = i]
  /\ answer' = [answer EXCEPT ![t] = Nothing]
  /\ result' = [result EXCEPT ![t] = Nothing]
  /\ UNCHANGED table

InUse(t)   == table[slot[t]] # Nothing
Advance(t) == InUse(t) /\ table' = [table EXCEPT ![slot[t]] = @ + 1]

(* The call takes effect, and its text is settled.                         *)
Answer(t) ==
  /\ Moves(t, "asked", "answered")
  /\ \E h \in Texts :
       /\ answer' = [answer EXCEPT ![t] = h]
       /\ \/ call[t] \in Reading /\ InUse(t) /\ UNCHANGED table
          \/ call[t] \in Changing /\ Advance(t)
          \/ call[t] = "sign_raw" /\ UNCHANGED table
       /\ call[t] # "sign_raw" =>
            h = [slot |-> slot[t], rev |-> table'[slot[t]]]
  /\ UNCHANGED <<call, slot, result>>

Return(t) ==
  /\ Moves(t, "answered", "out")
  /\ result' = [result EXCEPT ![t] = answer[t]]
  /\ UNCHANGED <<table, call, slot, answer>>

(* A call without a text takes effect and returns.                         *)
Act(t) ==
  /\ Moves(t, "asked", "out")
  /\ \/ call[t] = "start" /\ \E i \in Slots :
          table[i] = Nothing /\ table' = [table EXCEPT ![i] = 0]
     \/ call[t] \in {"change", "sign"} /\ Advance(t)
     \/ call[t] = "clear" /\ table' = [table EXCEPT ![slot[t]] = Nothing]
     \/ call[t] = "remove_all" /\ table' = [i \in Slots |-> Nothing]
  /\ UNCHANGED <<call, slot, answer, result>>

(* A call fails and returns: the table is as it was.  A transaction can    *)
(* always be dropped.                                                      *)
Fail(t) ==
  /\ Moves(t, "asked", "out")
  /\ call[t] \notin {"clear", "remove_all"}
  /\ UNCHANGED <<table, call, slot, answer, result>>

Next ==
  \E t \in Threads : Ask(t) \/ Answer(t) \/ Return(t) \/ Act(t) \/ Fail(t)

Spec == Init /\ [][Next]_vars
=============================================================================
