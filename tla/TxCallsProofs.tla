--------------------------- MODULE TxCallsProofs ---------------------------
(***************************************************************************)
(* A call returns its own text, for any number of threads, transactions    *)
(* and changes, unless it shares the static buffer.  The induction needs   *)
(* to know who wrote a buffer last: from the moment C has filled it until  *)
(* _s has copied it, it holds the text that is due to the thread that      *)
(* waits for it, also if calls have raced on the table.  And so, if one    *)
(* thread at most uses the static buffer and the program lets no calls     *)
(* race, they implement the abstract ones of module Transactions.          *)
(***************************************************************************)
EXTENDS TxCalls, TLAPS

(* The variables of the calls have their types.                            *)
THEOREM TxTypeCorrect == Spec => []TxTypeOK
<1>1. Init => TxTypeOK
  BY TxAssumption DEF Init, TxTypeOK, Tables, Calls, ValueCalls
<1>2. TxTypeOK /\ [Next]_vars => TxTypeOK'
  <2> SUFFICES ASSUME TxTypeOK, [Next]_vars PROVE TxTypeOK'
    OBVIOUS
  <2> USE TxAssumption DEF TxTypeOK, Tables
  <2>1. CASE ContextStart \/ ContextStop
    BY <2>1 DEF ContextStart, ContextStop, answers
  <2>2. ASSUME NEW t \in Threads, NEW c \in Calls, NEW i \in Slots,
               Enter(t, c, i)
        PROVE  TxTypeOK'
    BY <2>2 DEF Enter, Goto, Rivals
  <2>3. ASSUME NEW t \in Threads, ValueReturns(t)
        PROVE  TxTypeOK'
    BY <2>3 DEF ValueReturns, Goto, Leave, Changes, answers
  <2>4. ASSUME NEW t \in Threads, Computes(t)
        PROVE  /\ table' \in [Slots -> (0..MaxRev) \cup {Nothing}]
               /\ due' \in [Threads -> Hex \cup {Nothing}]
               /\ due'[t] \in Hex
    <3>1. table' \in [Slots -> (0..MaxRev) \cup {Nothing}]
      BY <2>4 DEF Computes, Changes
    <3>2. t \notin raced => table'[slot[t]] \in 0..MaxRev
      BY <2>4 DEF Computes, Changes
    <3>3. t \notin raced => [slot |-> slot[t], rev |-> table'[slot[t]]] \in Hex
      BY <3>2 DEF Hex
    <3> QED
      BY <2>4, <3>1, <3>3 DEF Computes
  <2>5. ASSUME NEW t \in Threads,
               \/ StaticBegins(t) \/ StaticEnds(t)
               \/ StaticFails(t) \/ CopyStatic(t)
        PROVE  TxTypeOK'
    BY <2>4, <2>5 DEF StaticBegins, StaticEnds, StaticFails, CopyStatic, Goto, Leave,
                      Fails, answers
  <2>6. ASSUME NEW t \in Threads, OwnFills(t) \/ OwnFails(t) \/ CopyOwn(t)
        PROVE  TxTypeOK'
    BY <2>4, <2>6 DEF OwnFills, OwnFails, CopyOwn, Goto, Leave, Fails,
                      answers
  <2>7. ASSUME NEW t \in Threads, SignRaw(t)
        PROVE  TxTypeOK'
    BY <2>7 DEF SignRaw, Goto, Leave
  <2>8. CASE UNCHANGED vars
    BY <2>8 DEF vars
  <2> QED
    BY <2>1, <2>2, <2>3, <2>5, <2>6, <2>7, <2>8 DEF Next, Step
<1> QED
  BY <1>1, <1>2, PTL DEF Spec
-----------------------------------------------------------------------------
(* Which calls may be at which step.                                       *)
CallInv ==
  /\ pc \in [Threads -> {"idle", "incall", "writing", "copy"}]
  /\ DOMAIN call = Threads /\ DOMAIN buf = Threads
  /\ DOMAIN due = Threads /\ DOMAIN result = Threads
  /\ \A t \in Threads :
       /\ pc[t] = "writing" => call[t] \in StaticCalls
       /\ pc[t] # "idle" /\ call[t] \in StaticCalls => t \in Legacy
       /\ pc[t] # "idle" => result[t] = Nothing

(* A text that is waiting to be copied is the one that is due.             *)
PendingInv ==
  \A t \in Threads : pc[t] = "copy" =>
    IF call[t] \in StaticCalls
    THEN ~ SharesStatic(t) => static = due[t]
    ELSE buf[t] = due[t]

(* The inductive invariant behind ResultIsOwn.                             *)
IInv == CallInv /\ PendingInv /\ ResultIsOwn

(* The wrappers start with no call and no result.                          *)
LEMMA InitIInv == Init => IInv
BY DEF Init, IInv, CallInv, PendingInv, ResultIsOwn

(* No step of another thread changes the text a call waits for.            *)
LEMMA NextIInv == IInv /\ [Next]_vars => IInv'
<1> SUFFICES ASSUME IInv, [Next]_vars PROVE IInv'
  OBVIOUS
<1> USE DEF SharesStatic, IInv, CallInv, PendingInv, ResultIsOwn, StaticCalls,
            OwnCalls, ValueCalls
<1>1. CASE ContextStart \/ ContextStop
  BY <1>1 DEF ContextStart, ContextStop, answers
<1>2. ASSUME NEW t \in Threads, NEW c \in Calls, NEW i \in Slots,
             Enter(t, c, i)
      PROVE  IInv'
  BY <1>2 DEF Enter, Goto, Leave
<1>3. ASSUME NEW t \in Threads, ValueReturns(t)
      PROVE  IInv'
  BY <1>3 DEF ValueReturns, Goto, Leave, answers
<1>4. ASSUME NEW t \in Threads, StaticBegins(t)
      PROVE  IInv'
  BY <1>4 DEF StaticBegins, Computes, Goto, Leave
<1>5. ASSUME NEW t \in Threads, StaticEnds(t)
      PROVE  IInv'
  BY <1>5 DEF StaticEnds, Goto, Leave, answers
<1>6. ASSUME NEW t \in Threads, StaticFails(t)
      PROVE  IInv'
  BY <1>6 DEF StaticFails, Goto, Leave, answers
<1>7. ASSUME NEW t \in Threads, CopyStatic(t)
      PROVE  IInv'
  BY <1>7 DEF CopyStatic, Goto, Leave
<1>8. ASSUME NEW t \in Threads, OwnFills(t)
      PROVE  IInv'
  BY <1>8 DEF OwnFills, Computes, Goto, Leave
<1>9. ASSUME NEW t \in Threads, OwnFails(t)
      PROVE  IInv'
  BY <1>9 DEF OwnFails, Goto, Leave, answers
<1>10. ASSUME NEW t \in Threads, CopyOwn(t)
       PROVE  IInv'
  BY <1>10 DEF CopyOwn, Goto, Leave
<1>11. ASSUME NEW t \in Threads, SignRaw(t)
       PROVE  IInv'
  BY <1>11 DEF SignRaw, Goto, Leave
<1>12. CASE UNCHANGED vars
  BY <1>12 DEF vars
<1> QED
  BY <1>1, <1>2, <1>3, <1>4, <1>5, <1>6, <1>7, <1>8, <1>9, <1>10, <1>11, <1>12
  DEF Next, Step

(* Every thread gets the text of its own call, unless it goes through the  *)
(* static buffer and is not the only one that does.                        *)
THEOREM OwnResults == Spec => []ResultIsOwn
<1>1. IInv => ResultIsOwn
  BY DEF IInv
<1> QED
  BY <1>1, InitIInv, NextIInv, PTL DEF Spec
-----------------------------------------------------------------------------
(* A step of a call is such a step of the abstract one.                    *)
LEMMA StepMoves ==
  ASSUME TxTypeOK, NEW t \in Threads, NEW p \in DOMAIN Phase,
         NEW q \in DOMAIN Phase, Goto(t, p, q)
  PROVE  Serial!Moves(t, Phase[p], Phase[q])
BY DEF TxTypeOK, Goto, Serial!Moves, Phase

(* A text that C computes is the transaction's, as the call leaves it.     *)
LEMMA ComputesAnswers ==
  ASSUME TxTypeOK, NEW t \in Threads, Computes(t), t \notin raced,
         Goto(t, "incall", "copy") \/ Goto(t, "incall", "writing"),
         call[t] \in StaticCalls \cup (OwnCalls \ {"sign_raw"}),
         UNCHANGED <<call, slot, result>>
  PROVE  Serial!Answer(t)
<1> DEFINE h == [slot |-> slot[t], rev |-> table'[slot[t]]]
<1>1. Serial!Moves(t, "asked", "answered")
  <2>1. Phase["incall"] = "asked" /\ Phase["copy"] = "answered"
        /\ Phase["writing"] = "answered"
        /\ {"incall", "copy", "writing"} \subseteq DOMAIN Phase
    BY DEF Phase
  <2> QED
    BY <2>1, StepMoves
<1>2. slot[t] \in Slots /\ call[t] \in Calls
  BY DEF TxTypeOK
<1>3. h \in Hex /\ due' = [due EXCEPT ![t] = h]
  <2>1. table'[slot[t]] \in 0..MaxRev
    BY <1>2, TxAssumption DEF Computes, Changes, TxTypeOK, Tables
  <2> QED
    BY <1>2, <2>1 DEF Computes, Hex
<1>4. \/ call[t] \in Serial!Reading /\ Serial!InUse(t) /\ UNCHANGED table
      \/ call[t] \in Serial!Changing /\ Serial!Advance(t)
  BY <1>2 DEF Computes, Changes, StaticCalls, OwnCalls, Reading,
              Serial!Reading, Serial!Changing, Serial!InUse, Serial!Advance
<1> HIDE DEF h
<1> QED
  BY <1>1, <1>3, <1>4 DEF Serial!Answer, h

(* A step of a call that does not race is one of the abstract calls, or    *)
(* nothing to them.                                                        *)
LEMMA StepIsSerial ==
  ASSUME OneLegacy, TxTypeOK, IInv, NEW t \in Threads, Step(t), t \notin raced
  PROVE  Serial!Next \/ UNCHANGED Serial!vars
<1> DEFINE mapped == [u \in Threads |-> Phase[pc[u]]]
<1>0. /\ Phase.idle = "out" /\ Phase.incall = "asked"
      /\ Phase.writing = "answered" /\ Phase.copy = "answered"
      /\ DOMAIN Phase = {"idle", "incall", "writing", "copy"}
  BY DEF Phase
<1>1. CASE ValueReturns(t)
  <2>1. Serial!Moves(t, "asked", "out")
    BY <1>0, <1>1, StepMoves DEF ValueReturns, Leave
  <2>2. Serial!Act(t) \/ Serial!Fail(t)
    BY <1>1, <2>1
    DEF ValueReturns, Changes, answers, Serial!Act, Serial!Fail,
        Serial!Advance, Serial!InUse
  <2> QED
    BY <2>2 DEF Serial!Next
<1>2. CASE StaticBegins(t) \/ OwnFills(t)
  <2>1. Serial!Answer(t)
    BY <1>2, ComputesAnswers DEF StaticBegins, OwnFills, Leave
  <2> QED
    BY <2>1 DEF Serial!Next
<1>3. CASE SignRaw(t)
  <2>1. Serial!Moves(t, "asked", "answered")
    BY <1>0, <1>3, StepMoves DEF SignRaw, Leave
  <2>2. Serial!Answer(t)
    BY <1>3, <2>1 DEF SignRaw, Serial!Answer
  <2> QED
    BY <2>2 DEF Serial!Next
<1>4. CASE StaticEnds(t)
  <2>1. pc[t] = "writing" /\ pc' = [pc EXCEPT ![t] = "copy"]
        /\ DOMAIN pc = Threads
    BY <1>4 DEF StaticEnds, Goto, Leave, TxTypeOK
  <2>2. mapped' = mapped
    BY <1>0, <2>1
  <2>3. due' = due
    BY <1>4 DEF StaticEnds, TxTypeOK
  <2> QED
    BY <1>4, <2>2, <2>3 DEF StaticEnds, Serial!vars
<1>5. CASE StaticFails(t) \/ OwnFails(t)
  <2>1. Serial!Moves(t, "asked", "out")
    BY <1>0, <1>5, StepMoves DEF StaticFails, OwnFails, Leave
  <2>2. Serial!Fail(t)
    BY <1>5, <2>1
    DEF StaticFails, OwnFails, StaticCalls, OwnCalls, Fails, answers,
        Serial!Fail
  <2> QED
    BY <2>2 DEF Serial!Next
<1>6. CASE CopyStatic(t) \/ CopyOwn(t)
  <2>1. Serial!Moves(t, "answered", "out")
    BY <1>0, <1>6, StepMoves DEF CopyStatic, CopyOwn
  <2>2. result' = [result EXCEPT ![t] = due[t]]
    <3>1. call[t] \in StaticCalls => ~SharesStatic(t)
      BY <1>6 DEF CopyStatic, CopyOwn, Goto, IInv, CallInv, SharesStatic,
                  OneLegacy, OwnCalls, StaticCalls
    <3> QED
      BY <1>6, <3>1 DEF CopyStatic, CopyOwn, Goto, IInv, PendingInv,
                        StaticCalls, OwnCalls
  <2>3. Serial!Return(t)
    BY <1>6, <2>1, <2>2 DEF CopyStatic, CopyOwn, Serial!Return
  <2> QED
    BY <2>3 DEF Serial!Next
<1> QED
  BY <1>1, <1>2, <1>3, <1>4, <1>5, <1>6 DEF Step

(* While no calls race on the table, and one thread at most goes through   *)
(* the static buffer, every step is one of Transactions.                   *)
THEOREM CallsTakeEffectOnce ==
  ASSUME OneLegacy
  PROVE  Spec => CallsAreAtomic
<1>1. Init => Serial!Init
  BY DEF Init, Serial!Init, Phase, Serial!Calls
<1>2. TxTypeOK /\ IInv /\ [Next]_vars
        => [raced # {} \/ Serial!Next]_(Serial!vars)
  <2> SUFFICES ASSUME TxTypeOK, IInv, raced = {}, [Next]_vars
               PROVE  [Serial!Next]_(Serial!vars)
    OBVIOUS
  <2>1. CASE ContextStart \/ ContextStop
    BY <2>1 DEF ContextStart, ContextStop, answers, Serial!vars
  <2>2. ASSUME NEW t \in Threads, NEW c \in Calls, NEW i \in Slots,
               Enter(t, c, i)
        PROVE  Serial!Next
    <3>1. Serial!Moves(t, "out", "asked")
      <4>1. Phase["idle"] = "out" /\ Phase["incall"] = "asked"
            /\ {"idle", "incall"} \subseteq DOMAIN Phase
        BY DEF Phase
      <4> QED
        BY <2>2, <4>1, StepMoves DEF Enter
    <3>2. c \in Serial!Calls
      BY DEF Calls, StaticCalls, OwnCalls, ValueCalls, Serial!Calls,
             Serial!Reading, Serial!Changing
    <3>3. Serial!Ask(t)
      BY <2>2, <3>1, <3>2 DEF Enter, Serial!Ask
    <3> QED
      BY <3>3 DEF Serial!Next
  <2>3. ASSUME NEW t \in Threads, Step(t)
        PROVE  [Serial!Next]_(Serial!vars)
    BY <2>3, StepIsSerial
  <2>4. CASE UNCHANGED vars
    BY <2>4 DEF vars, Serial!vars
  <2> QED
    BY <2>1, <2>2, <2>3, <2>4 DEF Next
<1>3. Spec => []IInv
  BY InitIInv, NextIInv, PTL DEF Spec
<1> QED
  BY <1>1, <1>2, <1>3, TxTypeCorrect, PTL DEF Spec, CallsAreAtomic

(* So the calls of a program with a lock, or of one thread, implement the  *)
(* abstract ones.                                                          *)
THEOREM LockedCallsAreSerial ==
  ASSUME OneLegacy
  PROVE  Spec /\ [](raced = {}) => Serial!Spec
<1>1. raced = {} /\ [raced # {} \/ Serial!Next]_(Serial!vars)
        => [Serial!Next]_(Serial!vars)
  OBVIOUS
<1> QED
  BY <1>1, CallsTakeEffectOnce, PTL DEF CallsAreAtomic, Serial!Spec
=============================================================================
