---------------------------- MODULE HandleProofs ----------------------------
(***************************************************************************)
(* Proofs about Handle, for any number of threads and handles.  IInv is    *)
(* the inductive invariant of handles and their objects; QuietInv adds the *)
(* exit hook, and HeldInv what a handle that stays in one thread can count *)
(* on.  Nothing is assumed of the program: what is said of one handle      *)
(* rests on who may hold this handle, and not on the use of the others.    *)
(***************************************************************************)
EXTENDS Handle, TLAPS

(* What a thread in the middle of an operation may count on.               *)
OpInv ==
  \A t \in Threads :
    /\ pc[t] \in {"wrap", "exitcall", "exitwait"} \cup UsePC \cup FreePC
         => arg[t] \in Handles
    /\ pc[t] = "wrap" => obj[arg[t]] = "live" /\ py[arg[t]] = "unborn"
    /\ pc[t] \in UsePC \cup FreePC => t \in refs[arg[t]]
    /\ pc[t] \in {"ffinal", "fcall", "fwait", "fclear"} => freed[arg[t]]

(* The object that a thread is about to own or to free is in its hands     *)
(* only: no other thread, no callback and no registered finalizer has it.  *)
Hands == {"wrap", "fcall", "exitcall"}

HandInv ==
  /\ \A t \in Threads :
       pc[t] \in Hands =>
         /\ obj[arg[t]] = "live"
         /\ arg[t] \notin registry \cup lost
         /\ dealloc[arg[t]] # "call"
  /\ \A t, u \in Threads :
       pc[t] \in Hands /\ pc[u] \in Hands /\ arg[t] = arg[u] => t = u

(* How the object, its Python handle and the registry belong together.     *)
OwnInv ==
  \A h \in Handles :
    /\ frees[h] = IF obj[h] \in {"freeing", "freed"} THEN 1 ELSE 0
    /\ h \in registry => obj[h] = "live" /\ py[h] # "unborn" /\ h \notin lost
    /\ h \in lost => obj[h] = "live"
    /\ py[h] # "unborn" => obj[h] # "none"
    /\ py[h] # "alive" => refs[h] = {}
    /\ dealloc[h] # "no" => py[h] = "gone"
    /\ dealloc[h] = "call" => obj[h] = "live" /\ h \notin registry \cup lost
    /\ phase = "run" /\ py[h] = "alive" /\ ~freed[h] => h \in registry

(* No live object is without somebody who can free it, unless it is lost.  *)
KeptInv ==
  \A h \in Handles :
    obj[h] = "live" => h \in registry \/ InFlight(h) \/ h \in lost

(* The exit hook is Main's, and sets the shutdown flag at its end only.    *)
ExitInv ==
  /\ phase \in {"run", "exiting"} => ~shutdown
  /\ \A t \in Threads : pc[t] \in ExitPC <=> (t = Main /\ phase = "exiting")

IInv == TypeOK /\ OpInv /\ HandInv /\ OwnInv /\ KeptInv /\ ExitInv

(* Only threads that may hold a handle work on it, joined threads work     *)
(* before the exit hook only, and the hook leaves no finalizer of a quiet  *)
(* handle.                                                                 *)
QuietInv ==
  /\ \A h \in Handles : refs[h] \subseteq Holders[h]
  /\ \A t \in Threads :
       pc[t] \in {"wrap"} \cup UsePC \cup FreePC
         => t \in Holders[arg[t]] /\ (t \in Joined => phase = "run")
  /\ pc[Main] = "exitflag" \/ phase = "late" => registry \cap QuietHandles = {}

(* Nobody frees a handle that stays in one thread while this thread is     *)
(* between the test of _freed and the end of the C call.                   *)
HeldInv ==
  \A t \in Threads :
    pc[t] \in {"read", "enter", "incall"} /\ arg[t] \in OwnHandles
      => ~freed[arg[t]]
-----------------------------------------------------------------------------
(* The invariant holds before the program has created any handle.          *)
LEMMA InitIInv == Init => IInv
<1> SUFFICES ASSUME Init
             PROVE  IInv
  OBVIOUS
<1> USE ThreadAssumption, HandleAssumption DEF Init
<1>1. TypeOK
  <2>1. 0 \in 0..2
    OBVIOUS
  <2>2. refs \in [Handles -> SUBSET Threads] /\ registry \subseteq Handles
    OBVIOUS
  <2>3. cptr \in [Handles -> BOOLEAN] /\ freed \in [Handles -> BOOLEAN]
    OBVIOUS
  <2> QED
    BY <2>1, <2>2, <2>3, Zenon DEF TypeOK, PC
<1>2. OpInv
  BY DEF OpInv, UsePC, FreePC
<1>3. HandInv /\ ExitInv
  BY DEF HandInv, Hands, ExitInv, ExitPC
<1>4. OwnInv /\ KeptInv
  BY DEF OwnInv, KeptInv
<1> QED
  BY <1>1, <1>2, <1>3, <1>4 DEF IInv

(* Every step of the program, the exit hook and the collector keeps it.    *)
LEMMA NextIInv == IInv /\ [Next]_vars => IInv'
<1> SUFFICES ASSUME IInv, [Next]_vars
             PROVE  IInv'
  OBVIOUS
<1> USE ThreadAssumption, HandleAssumption
    DEF IInv, TypeOK, OpInv, HandInv, Hands, OwnInv, KeptInv, InFlight,
        ExitInv, PC, UsePC, FreePC, ExitPC
<1>1. ASSUME NEW t \in Threads, Wrap(t)
      PROVE  IInv'
  BY <1>1 DEF Wrap, Finish, cVars
<1>2. ASSUME NEW t \in Threads, CheckFreed(t)
      PROVE  IInv'
  BY <1>2 DEF CheckFreed, Goto, Finish, cVars, pyVars, finVars
<1>3. ASSUME NEW t \in Threads, RefuseArgument(t)
      PROVE  IInv'
  BY <1>3 DEF RefuseArgument, Finish, cVars, pyVars, finVars
<1>4. ASSUME NEW t \in Threads, ReadPtr(t)
      PROVE  IInv'
  BY <1>4 DEF ReadPtr, Goto, Finish, cVars, pyVars, finVars
<1>5. ASSUME NEW t \in Threads, EnterC(t)
      PROVE  IInv'
  BY <1>5 DEF EnterC, Goto, cVars, pyVars, finVars
<1>6. ASSUME NEW t \in Threads, LeaveC(t)
      PROVE  IInv'
  BY <1>6 DEF LeaveC, Finish, cVars, pyVars, finVars
<1>7. ASSUME NEW t \in Threads, FreeCheck(t)
      PROVE  IInv'
  BY <1>7 DEF FreeCheck, Goto, Finish, cVars, pyVars, finVars
<1>8. ASSUME NEW t \in Threads, FreeMark(t)
      PROVE  IInv'
  BY <1>8 DEF FreeMark, Goto, cVars, finVars
<1>9. ASSUME NEW t \in Threads, FreeFinalize(t)
      PROVE  IInv'
  BY <1>9 DEF FreeFinalize, Goto, Pop, Registered, cVars, pyVars
<1>10. ASSUME NEW t \in Threads, FreeCalls(t)
      PROVE  IInv'
  BY <1>10 DEF FreeCalls, Goto, CallFreeFn, pyVars, finVars
<1>11. ASSUME NEW t \in Threads, FreeReturn(t)
      PROVE  IInv'
  BY <1>11 DEF FreeReturn, Goto, cVars, pyVars, finVars
<1>12. ASSUME NEW t \in Threads, FreeClear(t)
      PROVE  IInv'
  BY <1>12 DEF FreeClear, Finish, cVars, finVars
<1>13. ASSUME NEW t \in Threads, Interrupt(t)
      PROVE  IInv'
  BY <1>13 DEF Interrupt, Finish, pyVars
<1>14. ASSUME NEW t \in Threads, NEW h \in Handles, Alloc(t, h)
      PROVE  IInv'
  BY <1>14 DEF Alloc, Start, pyVars, finVars
<1>15. ASSUME NEW t \in Threads, NEW h \in Handles, Invoke(t, h)
      PROVE  IInv'
  BY <1>15 DEF Invoke, Start, cVars, pyVars, finVars
<1>16. ASSUME NEW t \in Threads, NEW h \in Handles, InvokeFree(t, h)
      PROVE  IInv'
  BY <1>16 DEF InvokeFree, Start, cVars, pyVars, finVars
<1>17. ASSUME NEW t \in Threads, NEW h \in Handles, LeaveCWithNew(t, h)
      PROVE  IInv'
  BY <1>17 DEF LeaveCWithNew, pyVars, finVars
<1>18. ASSUME NEW h \in Handles, CFreeEnd(h)
      PROVE  IInv'
  BY <1>18 DEF CFreeEnd, pyVars, finVars
<1>19. ASSUME NEW h \in Handles, Collect(h)
      PROVE  IInv'
  BY <1>19 DEF Collect, Registered, cVars
<1>20. ASSUME NEW h \in Handles, CollectPops(h)
      PROVE  IInv'
  BY <1>20 DEF CollectPops, Registered, Pop, cVars, pyVars
<1>21. ASSUME NEW h \in Handles, CollectCalls(h)
      PROVE  IInv'
  BY <1>21 DEF CollectCalls, CallFreeFn, pyVars
<1>22. ASSUME NEW h \in Handles, CollectInterrupted(h)
      PROVE  IInv'
  BY <1>22 DEF CollectInterrupted, pyVars
<1>23. ASSUME NEW t \in Threads, NEW h \in Handles, Drop(t, h)
      PROVE  IInv'
  BY <1>23 DEF Drop, cVars, finVars
<1>24. ASSUME NEW t \in Threads, NEW u \in Threads, NEW h \in Handles,
              Share(t, u, h)
      PROVE  IInv'
  BY <1>24 DEF Share, cVars, finVars
<1>25. CASE BeginExit
  BY <1>25 DEF BeginExit, cVars, pyVars
<1>26. CASE ExitCalls
  BY <1>26 DEF ExitCalls, Goto, CallFreeFn, pyVars, finVars
<1>27. CASE ExitReturn
  BY <1>27 DEF ExitReturn, cVars, pyVars, finVars
<1>28. CASE ExitLoopEnds
  BY <1>28 DEF ExitLoopEnds, Goto, cVars, pyVars, finVars
<1>29. CASE ExitInterrupted
  BY <1>29 DEF ExitInterrupted, pyVars
<1>30. CASE ExitShutdown
  BY <1>30 DEF ExitShutdown, Finish, cVars, pyVars
<1>31. CASE ShutdownInterrupted
  BY <1>31 DEF ShutdownInterrupted, Finish, cVars, pyVars
<1>32. ASSUME NEW h \in Handles, ExitFinalize(h)
      PROVE  IInv'
  BY <1>32 DEF ExitFinalize, Pop, cVars, pyVars
<1>33. CASE UNCHANGED vars
  BY <1>33 DEF vars
<1>. QED
  BY <1>1, <1>2, <1>3, <1>4, <1>5, <1>6, <1>7, <1>8, <1>9, <1>10, <1>11,
     <1>12, <1>13, <1>14, <1>15, <1>16, <1>17, <1>18, <1>19, <1>20, <1>21, <1>22,
     <1>23, <1>24, <1>25, <1>26, <1>27, <1>28, <1>29, <1>30, <1>31, <1>32, <1>33
  DEF Next, Step, UseStep, FreeStep, Begin, References, CollectStep, ExitStep,
      ExitHookInterrupt

(* The bookkeeping of _freed, the registry and the C objects agrees in     *)
(* every reachable state.                                                  *)
THEOREM Invariance == Spec => []IInv
BY InitIInv, NextIInv, PTL DEF Spec

(* The variables of the handles and threads keep their types.              *)
THEOREM TypeCorrect == Spec => []TypeOK
<1>1. IInv => TypeOK
  BY DEF IInv
<1> QED
  BY <1>1, Invariance, PTL

(* However many threads, handles, calls of free(), collections, interrupts *)
(* and exits there are, free_fn is entered at most once on each object.    *)
THEOREM NeverFreedTwice == Spec => []FreedOnce
<1>1. IInv => FreedOnce
  BY DEF IInv, OwnInv, FreedOnce
<1> QED
  BY <1>1, Invariance, PTL

(* A live object is in the registry, or in the hands of a thread or of a   *)
(* callback that will register or free it, unless an interrupt or the      *)
(* shutdown flag came just then: no other order of steps loses it.         *)
THEOREM BackstopNeverLost == Spec => []FinalizerOwns
<1>1. IInv => FinalizerOwns
  BY DEF IInv, TypeOK, OpInv, HandInv, Hands, OwnInv, KeptInv, InFlight,
         FinalizerOwns
<1> QED
  BY <1>1, Invariance, PTL
-----------------------------------------------------------------------------

(* No handle is in use before the program has created one.                 *)
LEMMA InitQuiet == Init => QuietInv
<1> SUFFICES ASSUME Init
             PROVE  QuietInv
  OBVIOUS
<1> QED
  BY ThreadAssumption, HandleAssumption DEF Init, QuietInv, UsePC, FreePC

(* No step starts work of a joined thread beside or after the exit hook,   *)
(* and the hook's loop ends only when nothing is left to free.             *)
LEMMA NextQuiet == IInv /\ QuietInv /\ [Next]_vars => QuietInv'
<1> SUFFICES ASSUME IInv, QuietInv, [Next]_vars
             PROVE  QuietInv'
  OBVIOUS
<1> USE ThreadAssumption, HandleAssumption
    DEF IInv, TypeOK, OpInv, OwnInv, ExitInv, Joined, QuietHandles, QuietInv,
        UsePC, FreePC, ExitPC, Running
<1>1. ASSUME NEW t \in Threads, Wrap(t)
      PROVE  QuietInv'
  BY <1>1 DEF Wrap, Finish, cVars
<1>2. ASSUME NEW t \in Threads, CheckFreed(t)
      PROVE  QuietInv'
  BY <1>2 DEF CheckFreed, Goto, Finish, cVars, pyVars, finVars
<1>3. ASSUME NEW t \in Threads, RefuseArgument(t)
      PROVE  QuietInv'
  BY <1>3 DEF RefuseArgument, Finish, cVars, pyVars, finVars
<1>4. ASSUME NEW t \in Threads, ReadPtr(t)
      PROVE  QuietInv'
  BY <1>4 DEF ReadPtr, Goto, Finish, cVars, pyVars, finVars
<1>5. ASSUME NEW t \in Threads, EnterC(t)
      PROVE  QuietInv'
  BY <1>5 DEF EnterC, Goto, cVars, pyVars, finVars
<1>6. ASSUME NEW t \in Threads, LeaveC(t)
      PROVE  QuietInv'
  BY <1>6 DEF LeaveC, Finish, cVars, pyVars, finVars
<1>7. ASSUME NEW t \in Threads, FreeCheck(t)
      PROVE  QuietInv'
  BY <1>7 DEF FreeCheck, Goto, Finish, cVars, pyVars, finVars
<1>8. ASSUME NEW t \in Threads, FreeMark(t)
      PROVE  QuietInv'
  BY <1>8 DEF FreeMark, Goto, cVars, finVars
<1>9. ASSUME NEW t \in Threads, FreeFinalize(t)
      PROVE  QuietInv'
  BY <1>9 DEF FreeFinalize, Goto, Pop, Registered, cVars, pyVars
<1>10. ASSUME NEW t \in Threads, FreeCalls(t)
      PROVE  QuietInv'
  BY <1>10 DEF FreeCalls, Goto, CallFreeFn, pyVars, finVars
<1>11. ASSUME NEW t \in Threads, FreeReturn(t)
      PROVE  QuietInv'
  BY <1>11 DEF FreeReturn, Goto, cVars, pyVars, finVars
<1>12. ASSUME NEW t \in Threads, FreeClear(t)
      PROVE  QuietInv'
  BY <1>12 DEF FreeClear, Finish, cVars, finVars
<1>13. ASSUME NEW t \in Threads, Interrupt(t)
      PROVE  QuietInv'
  BY <1>13 DEF Interrupt, Finish, pyVars
<1>14. ASSUME NEW t \in Threads, NEW h \in Handles, Alloc(t, h)
      PROVE  QuietInv'
  BY <1>14 DEF Alloc, Start, pyVars, finVars
<1>15. ASSUME NEW t \in Threads, NEW h \in Handles, Invoke(t, h)
      PROVE  QuietInv'
  BY <1>15 DEF Invoke, Start, cVars, pyVars, finVars
<1>16. ASSUME NEW t \in Threads, NEW h \in Handles, InvokeFree(t, h)
      PROVE  QuietInv'
  BY <1>16 DEF InvokeFree, Start, cVars, pyVars, finVars
<1>17. ASSUME NEW t \in Threads, NEW h \in Handles, LeaveCWithNew(t, h)
      PROVE  QuietInv'
  BY <1>17 DEF LeaveCWithNew, pyVars, finVars
<1>18. ASSUME NEW h \in Handles, CFreeEnd(h)
      PROVE  QuietInv'
  BY <1>18 DEF CFreeEnd, pyVars, finVars
<1>19. ASSUME NEW h \in Handles, Collect(h)
      PROVE  QuietInv'
  BY <1>19 DEF Collect, Registered, cVars
<1>20. ASSUME NEW h \in Handles, CollectPops(h)
      PROVE  QuietInv'
  BY <1>20 DEF CollectPops, Registered, Pop, cVars, pyVars
<1>21. ASSUME NEW h \in Handles, CollectCalls(h)
      PROVE  QuietInv'
  BY <1>21 DEF CollectCalls, CallFreeFn, pyVars
<1>22. ASSUME NEW h \in Handles, CollectInterrupted(h)
      PROVE  QuietInv'
  BY <1>22 DEF CollectInterrupted, pyVars
<1>23. ASSUME NEW t \in Threads, NEW h \in Handles, Drop(t, h)
      PROVE  QuietInv'
  BY <1>23 DEF Drop, cVars, finVars
<1>24. ASSUME NEW t \in Threads, NEW u \in Threads, NEW h \in Handles,
              Share(t, u, h)
      PROVE  QuietInv'
  BY <1>24 DEF Share, cVars, finVars
<1>25. CASE BeginExit
  BY <1>25 DEF BeginExit, cVars, pyVars
<1>26. CASE ExitCalls
  BY <1>26 DEF ExitCalls, Goto, CallFreeFn, pyVars, finVars
<1>27. CASE ExitReturn
  BY <1>27 DEF ExitReturn, cVars, pyVars, finVars
<1>28. CASE ExitLoopEnds
  BY <1>28 DEF ExitLoopEnds, Goto, cVars, pyVars, finVars
<1>29. CASE ExitInterrupted
  BY <1>29 DEF ExitInterrupted, pyVars
<1>30. CASE ExitShutdown
  BY <1>30 DEF ExitShutdown, Finish, cVars, pyVars
<1>31. CASE ShutdownInterrupted
  BY <1>31 DEF ShutdownInterrupted, Finish, cVars, pyVars
<1>32. ASSUME NEW h \in Handles, ExitFinalize(h)
      PROVE  QuietInv'
  BY <1>32 DEF ExitFinalize, Pop, cVars, pyVars
<1>33. CASE UNCHANGED vars
  BY <1>33 DEF vars
<1>. QED
  BY <1>1, <1>2, <1>3, <1>4, <1>5, <1>6, <1>7, <1>8, <1>9, <1>10, <1>11,
     <1>12, <1>13, <1>14, <1>15, <1>16, <1>17, <1>18, <1>19, <1>20, <1>21, <1>22,
     <1>23, <1>24, <1>25, <1>26, <1>27, <1>28, <1>29, <1>30, <1>31, <1>32, <1>33
  DEF Next, Step, UseStep, FreeStep, Begin, References, CollectStep, ExitStep,
      ExitHookInterrupt

(* So every operation on a quiet handle is over before the exit hook frees *)
(* the handles that are left.                                              *)
THEOREM QuietInvariance == Spec => [](IInv /\ QuietInv)
BY InitIInv, NextIInv, InitQuiet, NextQuiet, PTL DEF Spec

(* After an exit hook that ran to its end no object of a quiet handle is   *)
(* live, unless it was lost before or is being collected by a daemon,      *)
(* whatever code still runs on other handles.                              *)
THEOREM ExitLeavesNothing == Spec => []ExitFreesAll
<1>1. IInv /\ QuietInv => ExitFreesAll
  <2> SUFFICES ASSUME IInv, QuietInv, phase = "late",
                      NEW h \in QuietHandles, obj[h] = "live"
               PROVE  h \in lost \/ dealloc[h] = "call"
    BY DEF ExitFreesAll
  <2>1. h \in Handles /\ h \notin registry
    BY DEF QuietInv, QuietHandles
  <2>2. h \in lost \/ InFlight(h)
    BY <2>1 DEF IInv, KeptInv
  <2>3. ASSUME NEW t \in Threads, arg[t] = h,
               pc[t] \in {"wrap", "fcall", "exitcall"}
        PROVE  FALSE
    <3>1. pc[t] # "exitcall"
      BY DEF IInv, ExitInv, ExitPC
    <3>2. t \in Joined => phase = "run"
      BY <2>3, <3>1 DEF QuietInv, FreePC
    <3>3. t \in Joined
      BY <2>3, <3>1 DEF QuietInv, FreePC, QuietHandles
    <3> QED
      BY <3>2, <3>3
  <2> QED
    BY <2>2, <2>3 DEF InFlight
<1> QED
  BY <1>1, QuietInvariance, PTL

(* The test of _freed never lets a released object of a quiet handle pass, *)
(* even if threads share the handle.                                       *)
THEOREM ReleaseIsCaught == Spec => QuietReleaseIsCaught
<1> DEFINE Caught ==
      \A t \in Threads :
        PassesCheck(t) /\ arg[t] \in QuietHandles => obj[arg[t]] = "live"
<1>1. IInv /\ QuietInv /\ [Next]_vars => [Caught]_vars
  <2> SUFFICES ASSUME IInv, QuietInv, [Next]_vars, NEW t \in Threads,
                      pc[t] = "check", pc'[t] = "read",
                      arg[t] \in QuietHandles
               PROVE  obj[arg[t]] = "live"
    BY DEF PassesCheck
  <2>1. ~freed[arg[t]]
    BY ThreadAssumption, HandleAssumption
    DEF IInv, TypeOK, PC, Next, Step, UseStep, FreeStep, Begin, References,
        ExitStep, vars, Wrap, CheckFreed, ReadPtr, RefuseArgument, EnterC, LeaveC,
        FreeCheck, FreeMark, FreeFinalize, FreeCalls, FreeReturn, FreeClear, Interrupt, Alloc,
        Invoke, InvokeFree, LeaveCWithNew, CollectStep, CFreeEnd, Collect,
        CollectPops, CollectCalls, CollectInterrupted, Drop, Share, BeginExit,
        ExitCalls, ExitReturn, ExitLoopEnds, ExitInterrupted, ExitShutdown,
        ShutdownInterrupted, ExitHookInterrupt, ExitFinalize, Start, Goto,
        Finish
  <2>2. arg[t] \in Handles /\ t \in refs[arg[t]] /\ phase = "run"
    BY DEF IInv, OpInv, QuietInv, QuietHandles, UsePC
  <2> QED
    BY <2>1, <2>2 DEF IInv, TypeOK, OwnInv
<1> QED
  BY <1>1, QuietInvariance, PTL DEF Spec, QuietReleaseIsCaught
-----------------------------------------------------------------------------

(* Nobody but the one holder of a handle can release it.                   *)
LEMMA NextHeld == IInv /\ QuietInv /\ HeldInv /\ [Next]_vars => HeldInv'
<1> SUFFICES ASSUME IInv, QuietInv, HeldInv, [Next]_vars
             PROVE  HeldInv'
  OBVIOUS
<1> USE ThreadAssumption, HandleAssumption
    DEF IInv, TypeOK, OpInv, OwnInv, OwnHandles, QuietInv, HeldInv, PC,
        UsePC, FreePC
<1>1. ASSUME NEW t \in Threads, Wrap(t)
      PROVE  HeldInv'
  BY <1>1 DEF Wrap, Finish, cVars
<1>2. ASSUME NEW t \in Threads, CheckFreed(t)
      PROVE  HeldInv'
  BY <1>2 DEF CheckFreed, Goto, Finish, cVars, pyVars, finVars
<1>3. ASSUME NEW t \in Threads, RefuseArgument(t)
      PROVE  HeldInv'
  BY <1>3 DEF RefuseArgument, Finish, cVars, pyVars, finVars
<1>4. ASSUME NEW t \in Threads, ReadPtr(t)
      PROVE  HeldInv'
  BY <1>4 DEF ReadPtr, Goto, Finish, cVars, pyVars, finVars
<1>5. ASSUME NEW t \in Threads, EnterC(t)
      PROVE  HeldInv'
  BY <1>5 DEF EnterC, Goto, cVars, pyVars, finVars
<1>6. ASSUME NEW t \in Threads, LeaveC(t)
      PROVE  HeldInv'
  BY <1>6 DEF LeaveC, Finish, cVars, pyVars, finVars
<1>7. ASSUME NEW t \in Threads, FreeCheck(t)
      PROVE  HeldInv'
  BY <1>7 DEF FreeCheck, Goto, Finish, cVars, pyVars, finVars
<1>8. ASSUME NEW t \in Threads, FreeMark(t)
      PROVE  HeldInv'
  BY <1>8 DEF FreeMark, Goto, cVars, finVars
<1>9. ASSUME NEW t \in Threads, FreeFinalize(t)
      PROVE  HeldInv'
  BY <1>9 DEF FreeFinalize, Goto, Pop, Registered, cVars, pyVars
<1>10. ASSUME NEW t \in Threads, FreeCalls(t)
      PROVE  HeldInv'
  BY <1>10 DEF FreeCalls, Goto, CallFreeFn, pyVars, finVars
<1>11. ASSUME NEW t \in Threads, FreeReturn(t)
      PROVE  HeldInv'
  BY <1>11 DEF FreeReturn, Goto, cVars, pyVars, finVars
<1>12. ASSUME NEW t \in Threads, FreeClear(t)
      PROVE  HeldInv'
  BY <1>12 DEF FreeClear, Finish, cVars, finVars
<1>13. ASSUME NEW t \in Threads, Interrupt(t)
      PROVE  HeldInv'
  BY <1>13 DEF Interrupt, Finish, pyVars
<1>14. ASSUME NEW t \in Threads, NEW h \in Handles, Alloc(t, h)
      PROVE  HeldInv'
  BY <1>14 DEF Alloc, Start, pyVars, finVars
<1>15. ASSUME NEW t \in Threads, NEW h \in Handles, Invoke(t, h)
      PROVE  HeldInv'
  BY <1>15 DEF Invoke, Start, cVars, pyVars, finVars
<1>16. ASSUME NEW t \in Threads, NEW h \in Handles, InvokeFree(t, h)
      PROVE  HeldInv'
  BY <1>16 DEF InvokeFree, Start, cVars, pyVars, finVars
<1>17. ASSUME NEW t \in Threads, NEW h \in Handles, LeaveCWithNew(t, h)
      PROVE  HeldInv'
  BY <1>17 DEF LeaveCWithNew, pyVars, finVars
<1>18. ASSUME NEW h \in Handles, CFreeEnd(h)
      PROVE  HeldInv'
  BY <1>18 DEF CFreeEnd, pyVars, finVars
<1>19. ASSUME NEW h \in Handles, Collect(h)
      PROVE  HeldInv'
  BY <1>19 DEF Collect, Registered, cVars
<1>20. ASSUME NEW h \in Handles, CollectPops(h)
      PROVE  HeldInv'
  BY <1>20 DEF CollectPops, Registered, Pop, cVars, pyVars
<1>21. ASSUME NEW h \in Handles, CollectCalls(h)
      PROVE  HeldInv'
  BY <1>21 DEF CollectCalls, CallFreeFn, pyVars
<1>22. ASSUME NEW h \in Handles, CollectInterrupted(h)
      PROVE  HeldInv'
  BY <1>22 DEF CollectInterrupted, pyVars
<1>23. ASSUME NEW t \in Threads, NEW h \in Handles, Drop(t, h)
      PROVE  HeldInv'
  BY <1>23 DEF Drop, cVars, finVars
<1>24. ASSUME NEW t \in Threads, NEW u \in Threads, NEW h \in Handles,
              Share(t, u, h)
      PROVE  HeldInv'
  BY <1>24 DEF Share, cVars, finVars
<1>25. CASE BeginExit
  BY <1>25 DEF BeginExit, cVars, pyVars
<1>26. CASE ExitCalls
  BY <1>26 DEF ExitCalls, Goto, CallFreeFn, pyVars, finVars
<1>27. CASE ExitReturn
  BY <1>27 DEF ExitReturn, cVars, pyVars, finVars
<1>28. CASE ExitLoopEnds
  BY <1>28 DEF ExitLoopEnds, Goto, cVars, pyVars, finVars
<1>29. CASE ExitInterrupted
  BY <1>29 DEF ExitInterrupted, pyVars
<1>30. CASE ExitShutdown
  BY <1>30 DEF ExitShutdown, Finish, cVars, pyVars
<1>31. CASE ShutdownInterrupted
  BY <1>31 DEF ShutdownInterrupted, Finish, cVars, pyVars
<1>32. ASSUME NEW h \in Handles, ExitFinalize(h)
      PROVE  HeldInv'
  BY <1>32 DEF ExitFinalize, Pop, cVars, pyVars
<1>33. CASE UNCHANGED vars
  BY <1>33 DEF vars
<1>. QED
  BY <1>1, <1>2, <1>3, <1>4, <1>5, <1>6, <1>7, <1>8, <1>9, <1>10, <1>11,
     <1>12, <1>13, <1>14, <1>15, <1>16, <1>17, <1>18, <1>19, <1>20, <1>21, <1>22,
     <1>23, <1>24, <1>25, <1>26, <1>27, <1>28, <1>29, <1>30, <1>31, <1>32, <1>33
  DEF Next, Step, UseStep, FreeStep, Begin, References, CollectStep, ExitStep,
      ExitHookInterrupt

(* If a handle is not passed between threads, the answer of the test of    *)
(* _freed stays true to the end of the C call.                             *)
THEOREM HeldInvariance == Spec => [](IInv /\ QuietInv /\ HeldInv)
<1>1. Init => HeldInv
  BY DEF Init, HeldInv
<1> QED
  BY <1>1, InitIInv, NextIInv, InitQuiet, NextQuiet, NextHeld, PTL DEF Spec

(* A pointer of such a handle that passed the test of _freed points to a   *)
(* live object whose finalizer is registered.                              *)
LEMMA HeldIsLive ==
  ASSUME IInv, QuietInv, HeldInv, NEW t \in Threads,
         pc[t] \in {"read", "enter", "incall"}, arg[t] \in OwnHandles
  PROVE  /\ arg[t] \in Handles
         /\ obj[arg[t]] = "live"
         /\ arg[t] \in registry
BY DEF IInv, TypeOK, OpInv, OwnInv, QuietInv, HeldInv, QuietHandles,
       OwnHandles, UsePC

(* No C call ever runs on a released object of a handle that stays in one  *)
(* thread, whatever all threads do with the other handles.                 *)
THEOREM OwnHandlesAreSafe == Spec => []NoUseAfterFree
<1>1. IInv /\ QuietInv /\ HeldInv => NoUseAfterFree
  BY HeldIsLive DEF NoUseAfterFree
<1> QED
  BY <1>1, HeldInvariance, PTL
-----------------------------------------------------------------------------
(* A change of one object changes one abstract life, if its handle stays   *)
(* in one thread, and none otherwise.                                      *)
LEMMA LifeStep ==
  ASSUME TypeOK, NEW h \in Handles, NEW s, obj' = [obj EXCEPT ![h] = s]
  PROVE  LifeOf' = IF h \in OwnHandles
                   THEN [LifeOf EXCEPT ![h] =
                      IF s \in {"freeing", "freed"} THEN "released" ELSE s]
                   ELSE LifeOf
BY DEF TypeOK, LifeOf, OwnHandles, QuietHandles

(* A step of one thread changes what that thread uses, and nothing else.   *)
LEMMA UsingStep ==
  ASSUME TypeOK, NEW t \in Threads, NEW p, NEW a,
         pc' = [pc EXCEPT ![t] = p], arg' = [arg EXCEPT ![t] = a]
  PROVE  UsingOf' = [UsingOf EXCEPT ![t] =
                       IF p = "incall" /\ a \in OwnHandles THEN a
                                                           ELSE NoHandle]
BY DEF TypeOK, UsingOf

(* The thread that holds a handle of its own is in no C call with it while *)
(* it frees it, nor is any other thread.                                   *)
LEMMA UnusedByOthers ==
  ASSUME IInv, QuietInv, NEW t \in Threads, arg[t] \in OwnHandles,
         pc[t] \in FreePC
  PROVE  ~L!InUse(arg[t])
<1> SUFFICES ASSUME NEW u \in Threads, UsingOf[u] = arg[t]
             PROVE  FALSE
  BY DEF L!InUse
<1>1. pc[u] = "incall" /\ arg[u] = arg[t] /\ arg[t] \in Handles
  BY HandleAssumption DEF UsingOf, OwnHandles, QuietHandles
<1>2. u \in Holders[arg[t]] /\ t \in Holders[arg[t]]
  BY <1>1 DEF QuietInv, UsePC
<1>3. u = t
  BY <1>2 DEF OwnHandles
<1> QED
  BY <1>1, <1>3 DEF FreePC

(* The steps of a program, seen through LifeOf and UsingOf, are steps of   *)
(* Lifetime or stutter.                                                    *)
LEMMA NextRefines ==
  IInv /\ QuietInv /\ HeldInv /\ [Next]_vars => [L!LifeNext]_(L!lifeVars)
<1> SUFFICES ASSUME IInv, QuietInv, HeldInv, [Next]_vars
             PROVE  [L!LifeNext]_(L!lifeVars)
  OBVIOUS
<1> USE ThreadAssumption, HandleAssumption
<1>1. ASSUME NEW t \in Threads, Wrap(t)
      PROVE  UNCHANGED L!lifeVars
  BY <1>1 DEF Wrap, Finish, cVars, IInv,
     TypeOK, LifeOf, UsingOf, L!lifeVars
<1>2. ASSUME NEW t \in Threads, CheckFreed(t)
      PROVE  UNCHANGED L!lifeVars
  BY <1>2 DEF CheckFreed, Goto, Finish, cVars, pyVars, finVars, IInv,
     TypeOK, LifeOf, UsingOf, L!lifeVars
<1>3. ASSUME NEW t \in Threads, ReadPtr(t) \/ RefuseArgument(t)
      PROVE  UNCHANGED L!lifeVars
  BY <1>3 DEF ReadPtr, RefuseArgument, Goto, Finish, cVars, pyVars, finVars, IInv,
     TypeOK, LifeOf, UsingOf, L!lifeVars
<1>4. ASSUME NEW t \in Threads, EnterC(t)
      PROVE  \/ arg[t] \in OwnHandles /\ L!BeginUse(t, arg[t])
             \/ UNCHANGED L!lifeVars
  <2>1. pc' = [pc EXCEPT ![t] = "incall"] /\ arg' = [arg EXCEPT ![t] = arg[t]]
    BY <1>4 DEF EnterC, Goto, IInv, TypeOK
  <2>2. UsingOf' = [UsingOf EXCEPT ![t] =
                      IF arg[t] \in OwnHandles THEN arg[t] ELSE NoHandle]
    BY <2>1, UsingStep DEF IInv
  <2>3. UsingOf[t] = NoHandle /\ UsingOf \in [Threads -> OwnHandles \cup {NoHandle}]
    BY <1>4 DEF EnterC, Goto, UsingOf
  <2>4. UNCHANGED LifeOf
    BY <1>4 DEF EnterC, cVars, LifeOf
  <2>5. CASE arg[t] \notin OwnHandles
    BY <2>2, <2>3, <2>4, <2>5 DEF L!lifeVars
  <2>6. CASE arg[t] \in OwnHandles
    <3>1. LifeOf[arg[t]] = "live"
      BY <1>4, <2>6, HeldIsLive DEF EnterC, Goto, LifeOf
    <3> QED
      BY <2>2, <2>3, <2>4, <2>6, <3>1 DEF L!BeginUse
  <2> QED
    BY <2>5, <2>6
<1>5. ASSUME NEW t \in Threads, LeaveC(t)
      PROVE  L!EndUse(t) \/ UNCHANGED L!lifeVars
  <2>1. UsingOf' = [UsingOf EXCEPT ![t] = NoHandle]
    BY <1>5, UsingStep DEF LeaveC, Finish, IInv
  <2>2. UNCHANGED LifeOf /\ UsingOf = [u \in Threads |-> UsingOf[u]]
    BY <1>5 DEF LeaveC, cVars, LifeOf, UsingOf
  <2>3. CASE UsingOf[t] = NoHandle
    BY <2>1, <2>2, <2>3 DEF L!lifeVars
  <2>4. CASE UsingOf[t] # NoHandle
    BY <2>1, <2>2, <2>4 DEF L!EndUse
  <2> QED
    BY <2>3, <2>4
<1>6. ASSUME NEW t \in Threads, FreeCheck(t)
      PROVE  UNCHANGED L!lifeVars
  BY <1>6 DEF FreeCheck, Goto, Finish, cVars, pyVars, finVars, IInv,
     TypeOK, LifeOf, UsingOf, L!lifeVars
<1>7. ASSUME NEW t \in Threads, FreeMark(t)
      PROVE  UNCHANGED L!lifeVars
  BY <1>7 DEF FreeMark, Goto, cVars, finVars, IInv,
     TypeOK, LifeOf, UsingOf, L!lifeVars
<1>8. ASSUME NEW t \in Threads, FreeFinalize(t)
      PROVE  UNCHANGED L!lifeVars
  BY <1>8 DEF FreeFinalize, Goto, cVars, pyVars, IInv,
     TypeOK, LifeOf, UsingOf, L!lifeVars
<1>9. ASSUME NEW t \in Threads, FreeCalls(t)
      PROVE  \/ arg[t] \in OwnHandles /\ L!Release(arg[t])
             \/ UNCHANGED L!lifeVars
  <2>1. arg[t] \in Handles /\ pc[t] \in FreePC /\ obj[arg[t]] = "live"
    BY <1>9 DEF FreeCalls, Goto, IInv, OpInv, HandInv, Hands, FreePC
  <2>2. UNCHANGED UsingOf
    BY <1>9 DEF FreeCalls, Goto, IInv, TypeOK, UsingOf
  <2>3. CASE shutdown
    BY <1>9, <2>2, <2>3 DEF FreeCalls, CallFreeFn, LifeOf, L!lifeVars
  <2>4. CASE ~shutdown
    <3>1. LifeOf' = IF arg[t] \in OwnHandles
                    THEN [LifeOf EXCEPT ![arg[t]] = "released"]
                    ELSE LifeOf
      BY <1>9, <2>1, <2>4, LifeStep DEF FreeCalls, CallFreeFn, IInv
    <3>2. CASE arg[t] \notin OwnHandles
      BY <2>2, <3>1, <3>2 DEF L!lifeVars
    <3>3. CASE arg[t] \in OwnHandles
      <4>1. LifeOf[arg[t]] = "live"
        BY <2>1, <3>3 DEF LifeOf
      <4>2. ~L!InUse(arg[t])
        BY <2>1, <3>3, UnusedByOthers
      <4> QED
        BY <2>2, <3>1, <3>3, <4>1, <4>2 DEF L!Release
    <3> QED
      BY <3>2, <3>3
  <2> QED
    BY <2>3, <2>4
<1>10. ASSUME NEW t \in Threads, FreeReturn(t)
      PROVE  UNCHANGED L!lifeVars
  BY <1>10 DEF FreeReturn, Goto, cVars, pyVars, finVars, IInv,
     TypeOK, LifeOf, UsingOf, L!lifeVars
<1>11. ASSUME NEW t \in Threads, FreeClear(t)
      PROVE  UNCHANGED L!lifeVars
  BY <1>11 DEF FreeClear, Finish, cVars, finVars, IInv,
     TypeOK, LifeOf, UsingOf, L!lifeVars
<1>12. ASSUME NEW t \in Threads, Interrupt(t)
      PROVE  UNCHANGED L!lifeVars
  BY <1>12 DEF Interrupt, Finish, pyVars, IInv,
     TypeOK, LifeOf, UsingOf, L!lifeVars
<1>13. ASSUME NEW t \in Threads, NEW h \in Handles, Alloc(t, h)
      PROVE  (h \in OwnHandles /\ L!Create(h)) \/ UNCHANGED L!lifeVars
  <2>1. LifeOf' = IF h \in OwnHandles THEN [LifeOf EXCEPT ![h] = "live"]
                                      ELSE LifeOf
    BY <1>13, LifeStep DEF Alloc, IInv
  <2>2. UNCHANGED UsingOf
    BY <1>13 DEF Alloc, Start, IInv, TypeOK, UsingOf
  <2>3. CASE h \in OwnHandles
    <3>1. LifeOf[h] = "none"
      BY <1>13, <2>3 DEF Alloc, LifeOf
    <3> QED
      BY <2>1, <2>2, <2>3, <3>1 DEF L!Create
  <2>4. CASE h \notin OwnHandles
    BY <2>1, <2>2, <2>4 DEF L!lifeVars
  <2> QED
    BY <2>3, <2>4
<1>14. ASSUME NEW t \in Threads, NEW h \in Handles, Invoke(t, h)
      PROVE  UNCHANGED L!lifeVars
  BY <1>14 DEF Invoke, Start, cVars, pyVars, finVars, IInv,
     TypeOK, LifeOf, UsingOf, L!lifeVars
<1>15. ASSUME NEW t \in Threads, NEW h \in Handles, InvokeFree(t, h)
      PROVE  UNCHANGED L!lifeVars
  BY <1>15 DEF InvokeFree, Start, cVars, pyVars, finVars, IInv,
     TypeOK, LifeOf, UsingOf, L!lifeVars
<1>16. ASSUME NEW t \in Threads, NEW h \in Handles, LeaveCWithNew(t, h)
      PROVE  \/ L!EndUse(t) \/ UNCHANGED L!lifeVars
             \/ h \in OwnHandles /\ (L!Create(h) \/ L!EndUseCreating(t, h))
  <2>1. LifeOf' = IF h \in OwnHandles THEN [LifeOf EXCEPT ![h] = "live"]
                                      ELSE LifeOf
    BY <1>16, LifeStep DEF LeaveCWithNew, IInv
  <2>2. UsingOf' = [UsingOf EXCEPT ![t] = NoHandle]
    <3>1. pc' = [pc EXCEPT ![t] = "wrap"] /\ arg' = [arg EXCEPT ![t] = h]
      BY <1>16 DEF LeaveCWithNew
    <3>2. UsingOf' = [UsingOf EXCEPT ![t] =
                        IF "wrap" = "incall" /\ h \in OwnHandles THEN h
                                                               ELSE NoHandle]
      BY <3>1, UsingStep DEF IInv
    <3> QED
      BY <3>2
  <2>3. UsingOf = [u \in Threads |-> UsingOf[u]]
    BY DEF UsingOf
  <2>4. CASE h \notin OwnHandles
    BY <2>1, <2>2, <2>3, <2>4 DEF L!EndUse, L!lifeVars
  <2>5. CASE h \in OwnHandles
    <3>1. LifeOf[h] = "none"
      BY <1>16, <2>5 DEF LeaveCWithNew, LifeOf
    <3> QED
      BY <2>1, <2>2, <2>3, <2>5, <3>1 DEF L!Create, L!EndUseCreating
  <2> QED
    BY <2>4, <2>5
<1>17. ASSUME NEW h \in Handles, CFreeEnd(h)
      PROVE  UNCHANGED L!lifeVars
  BY <1>17 DEF CFreeEnd, pyVars, finVars, IInv,
     TypeOK, LifeOf, UsingOf, L!lifeVars
<1>18. ASSUME NEW h \in Handles,
              Collect(h) \/ CollectPops(h) \/ CollectInterrupted(h)
      PROVE  UNCHANGED L!lifeVars
  BY <1>18 DEF Collect, CollectPops, CollectInterrupted, cVars, pyVars,
     LifeOf, UsingOf, L!lifeVars
<1>19. ASSUME NEW h \in Handles, CollectCalls(h)
      PROVE  (h \in OwnHandles /\ L!Release(h)) \/ UNCHANGED L!lifeVars
  <2>1. UNCHANGED UsingOf
    BY <1>19 DEF CollectCalls, UsingOf
  <2>2. obj[h] = "live" /\ refs[h] = {}
    BY <1>19 DEF CollectCalls, IInv, OwnInv
  <2>3. CASE shutdown
    BY <1>19, <2>1, <2>3 DEF CollectCalls, CallFreeFn, LifeOf, L!lifeVars
  <2>4. CASE ~shutdown
    <3>1. LifeOf' = IF h \in OwnHandles
                    THEN [LifeOf EXCEPT ![h] = "released"] ELSE LifeOf
      BY <1>19, <2>4, LifeStep DEF CollectCalls, CallFreeFn, IInv
    <3>2. CASE h \notin OwnHandles
      BY <2>1, <3>1, <3>2 DEF L!lifeVars
    <3>3. CASE h \in OwnHandles
      <4>1. LifeOf[h] = "live"
        BY <2>2, <3>3 DEF LifeOf
      <4>2. ~L!InUse(h)
        BY <2>2, HandleAssumption
        DEF IInv, OpInv, UsePC, UsingOf, L!InUse
      <4> QED
        BY <2>1, <3>1, <3>3, <4>1, <4>2 DEF L!Release
    <3> QED
      BY <3>2, <3>3
  <2> QED
    BY <2>3, <2>4
<1>20. ASSUME NEW t \in Threads, NEW h \in Handles, Drop(t, h)
      PROVE  UNCHANGED L!lifeVars
  BY <1>20 DEF Drop, cVars, finVars, IInv,
     TypeOK, LifeOf, UsingOf, L!lifeVars
<1>21. ASSUME NEW t \in Threads, NEW u \in Threads, NEW h \in Handles,
              Share(t, u, h)
      PROVE  UNCHANGED L!lifeVars
  BY <1>21 DEF Share, cVars, finVars, IInv,
     TypeOK, LifeOf, UsingOf, L!lifeVars
<1>22. ASSUME BeginExit
      PROVE  UNCHANGED L!lifeVars
  BY <1>22 DEF BeginExit, cVars, pyVars, IInv,
     TypeOK, LifeOf, UsingOf, L!lifeVars
<1>23. ASSUME ExitReturn
      PROVE  UNCHANGED L!lifeVars
  BY <1>23 DEF ExitReturn, cVars, pyVars, finVars, IInv,
     TypeOK, LifeOf, UsingOf, L!lifeVars
<1>24. ASSUME ExitLoopEnds
      PROVE  UNCHANGED L!lifeVars
  BY <1>24 DEF ExitLoopEnds, Goto, cVars, pyVars, finVars, IInv,
     TypeOK, LifeOf, UsingOf, L!lifeVars
<1>25. ASSUME \/ ExitShutdown \/ ShutdownInterrupted \/ ExitInterrupted
              \/ \E h \in Handles : ExitFinalize(h)
      PROVE  UNCHANGED L!lifeVars
  BY <1>25 DEF ExitShutdown, ShutdownInterrupted, ExitInterrupted,
     ExitFinalize, Finish, cVars, pyVars, IInv,
     TypeOK, LifeOf, UsingOf, L!lifeVars
<1>26. ASSUME ExitCalls
      PROVE  \/ arg[Main] \in OwnHandles /\ L!Release(arg[Main])
             \/ UNCHANGED L!lifeVars
  <2> DEFINE h == arg[Main]
  <2>1. /\ h \in Handles /\ obj[h] = "live"
        /\ phase = "exiting" /\ ~shutdown
    BY <1>26 DEF ExitCalls, Goto, IInv, OpInv, HandInv, Hands, ExitInv, ExitPC
  <2>2. LifeOf' = IF h \in OwnHandles
                  THEN [LifeOf EXCEPT ![h] = "released"] ELSE LifeOf
    BY <1>26, <2>1, LifeStep DEF ExitCalls, CallFreeFn, IInv
  <2>3. UNCHANGED UsingOf
    BY <1>26 DEF ExitCalls, Goto, IInv, TypeOK, UsingOf
  <2>4. CASE h \notin OwnHandles
    BY <2>2, <2>3, <2>4 DEF L!lifeVars
  <2>5. CASE h \in OwnHandles
    <3>1. LifeOf[h] = "live"
      BY <2>1, <2>5 DEF LifeOf
    <3>2. ASSUME NEW u \in Threads, UsingOf[u] = h
          PROVE  FALSE
      <4>1. pc[u] = "incall" /\ arg[u] = h
        BY <2>1, <3>2, HandleAssumption DEF UsingOf
      <4>2. u \in Joined /\ phase = "run"
        BY <2>5, <4>1 DEF QuietInv, UsePC, OwnHandles, QuietHandles
      <4> QED
        BY <2>1, <4>2
    <3>3. ~L!InUse(h)
      BY <3>2 DEF L!InUse
    <3> QED
      BY <2>2, <2>3, <2>5, <3>1, <3>3 DEF L!Release
  <2> QED
    BY <2>4, <2>5
<1>27. ASSUME UNCHANGED vars
      PROVE  UNCHANGED L!lifeVars
  BY <1>27 DEF vars, IInv,
     TypeOK, LifeOf, UsingOf, L!lifeVars
<1>28. ASSUME NEW t \in Threads, Step(t) \/ Interrupt(t)
       PROVE  [L!LifeNext]_(L!lifeVars)
  BY <1>1, <1>2, <1>3, <1>4, <1>5, <1>6, <1>7, <1>8, <1>10, <1>11, <1>12,
     <1>28, <1>9
  DEF Step, UseStep, FreeStep, L!LifeNext
<1>29. ASSUME NEW t \in Threads, NEW h \in Handles,
              Begin(t, h) \/ LeaveCWithNew(t, h)
       PROVE  [L!LifeNext]_(L!lifeVars)
  BY <1>13, <1>14, <1>15, <1>16, <1>29 DEF Begin, L!LifeNext
<1>30. ASSUME NEW h \in Handles,
              CollectStep(h) \/ CollectInterrupted(h) \/ References(h)
       PROVE  [L!LifeNext]_(L!lifeVars)
  BY <1>17, <1>18, <1>20, <1>21, <1>30, <1>19
  DEF References, CollectStep, L!LifeNext
<1>31. CASE BeginExit \/ ExitStep \/ ExitHookInterrupt
  BY <1>22, <1>23, <1>24, <1>25, <1>26, <1>31, ThreadAssumption,
     HandleAssumption
  DEF ExitStep, ExitHookInterrupt, L!LifeNext, OwnHandles, QuietHandles
<1> QED
  BY <1>27, <1>28, <1>29, <1>30, <1>31 DEF Next

(* The handles that stay in one thread implement the abstract lifetime: an *)
(* object is used while live and released once, outside every C call, in   *)
(* any program, however it uses its other handles.                         *)
THEOREM OwnHandlesKeepPromise == Spec => Promise
<1>1. Init => L!LifeInit
  BY DEF Init, L!LifeInit, LifeOf, UsingOf, OwnHandles, QuietHandles
<1> QED
  BY <1>1, HeldInvariance, NextRefines, PTL DEF Spec, Promise, L!LifeSpec
=============================================================================
