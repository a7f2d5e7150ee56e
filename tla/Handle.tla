------------------------------- MODULE Handle -------------------------------
(***************************************************************************)
(* The handles of python/libdogecoin/_handle.py: Python objects that own a *)
(* libdogecoin C object.  An operation on a handle reads self._ptr (a test *)
(* of _freed, then a read of _cptr) and passes the pointer to a C call     *)
(* that runs with the GIL released; free() tests and sets _freed, runs the *)
(* weakref finalizer, and clears _cptr.  The finalizer also runs when the  *)
(* handle is collected and, for every handle still registered, in the exit *)
(* hook of weakref.  Each step of a thread here is a stretch of bytecode   *)
(* in which CPython does not switch threads, so the steps of two threads   *)
(* interleave wherever the interpreter may interleave them.                *)
(*                                                                         *)
(* weakref.finalize is external, and Python code itself: a call pops the   *)
(* registry, then tests the shutdown flag, then enters free_fn, and other  *)
(* threads and interrupts may come between the pop and the rest.           *)
(***************************************************************************)
EXTENDS Naturals

CONSTANTS
  Threads,    (* the threads of the program                              *)
  Main,       (* the thread that runs the exit hooks and signal handlers *)
  Daemons,    (* threads the interpreter does not join before it exits:  *)
              (* daemons, and those whose join is interrupted            *)
  Handles,    (* the handles the program may ever create                 *)
  Holders,    (* the threads that may ever get a reference to a handle   *)
  LateUse,    (* whether Main runs program code after weakref's hook     *)
  NoHandle    (* the argument of a thread that is in no operation        *)

ASSUME ThreadAssumption ==
  /\ Main \in Threads
  /\ Daemons \subseteq Threads \ {Main}

ASSUME HandleAssumption ==
  /\ NoHandle \notin Handles
  /\ Holders \in [Handles -> SUBSET Threads]
  /\ LateUse \in BOOLEAN

VARIABLES
  obj,        (* state of the C object behind each handle                *)
  frees,      (* how often free_fn was entered on it (history)           *)
  py,         (* state of the Python object: unborn, alive, gone         *)
  cptr,       (* TRUE while _cptr holds the pointer, FALSE for None      *)
  freed,      (* the _freed flags                                        *)
  registry,   (* handles with a finalizer in weakref.finalize._registry  *)
  shutdown,   (* weakref.finalize._shutdown                              *)
  refs,       (* the threads that hold a reference to the handle         *)
  dealloc,    (* what the weakref callback of a handle that is being     *)
              (* deallocated does next: no, pop, call                    *)
  lost,       (* objects whose wrapping an interrupt cut short, or whose *)
              (* finalizer did nothing after the pop (history)           *)
  phase,      (* run, exiting (exit hook of weakref), late (the hook     *)
              (* ended by itself), cut (an interrupt ended it)           *)
  pc,         (* where each thread is                                    *)
  arg         (* the handle it works on                                  *)

cVars  == <<obj, frees, lost>>
pyVars == <<py, cptr, freed, refs>>
finVars == <<registry, dealloc, shutdown, phase>>
vars == <<obj, frees, py, cptr, freed, registry, shutdown, refs, dealloc,
          lost, phase, pc, arg>>

UsePC  == {"check", "read", "enter", "incall"}
FreePC == {"fcheck", "fmark", "ffinal", "fcall", "fwait", "fclear"}
ExitPC == {"exit", "exitcall", "exitwait", "exitflag", "exitcut"}
PC == {"idle", "wrap"} \cup UsePC \cup FreePC \cup ExitPC

TypeOK ==
  /\ obj \in [Handles -> {"none", "live", "freeing", "freed"}]
  /\ frees \in [Handles -> 0..2]
  /\ py \in [Handles -> {"unborn", "alive", "gone"}]
  /\ cptr \in [Handles -> BOOLEAN]
  /\ freed \in [Handles -> BOOLEAN]
  /\ registry \subseteq Handles
  /\ shutdown \in BOOLEAN
  /\ dealloc \in [Handles -> {"no", "pop", "call"}]
  /\ lost \subseteq Handles
  /\ refs \in [Handles -> SUBSET Threads]
  /\ phase \in {"run", "exiting", "late", "cut"}
  /\ pc \in [Threads -> PC]
  /\ arg \in [Threads -> Handles \cup {NoHandle}]

Init ==
  /\ obj = [h \in Handles |-> "none"]
  /\ frees = [h \in Handles |-> 0]
  /\ py = [h \in Handles |-> "unborn"]
  /\ cptr = [h \in Handles |-> FALSE]
  /\ freed = [h \in Handles |-> FALSE]
  /\ registry = {}
  /\ shutdown = FALSE
  /\ dealloc = [h \in Handles |-> "no"]
  /\ lost = {}
  /\ refs = [h \in Handles |-> {}]
  /\ phase = "run"
  /\ pc = [t \in Threads |-> "idle"]
  /\ arg = [t \in Threads |-> NoHandle]
-----------------------------------------------------------------------------
(* Threads that may start an operation: all of them until Main exits; then *)
(* the daemons, and Main again if program code runs after weakref's hook.  *)
Running(t) ==
  \/ phase = "run"
  \/ t \in Daemons
  \/ t = Main /\ phase \in {"late", "cut"} /\ LateUse

Start(t, h, to) ==
  /\ Running(t)
  /\ pc[t] = "idle"
  /\ pc' = [pc EXCEPT ![t] = to]
  /\ arg' = [arg EXCEPT ![t] = h]

Goto(t, from, to) ==
  /\ pc[t] = from
  /\ pc' = [pc EXCEPT ![t] = to]
  /\ UNCHANGED arg

Finish(t, from) ==
  /\ pc[t] \in from
  /\ pc' = [pc EXCEPT ![t] = "idle"]
  /\ arg' = [arg EXCEPT ![t] = NoHandle]

(* Mutant: a finalizer that may be called more than once.                  *)
RegisteredForEver(h) == TRUE

(* weakref.finalize.__call__: the first call finds the finalizer in the    *)
(* registry and pops it; the others find nothing and return.               *)
Registered(h) == h \in registry

Pop(h) == registry' = registry \ {h}

(* It then enters free_fn, unless the exit hook has set the shutdown flag. *)
CallFreeFn(h) ==
  IF shutdown
  THEN lost' = lost \cup {h} /\ UNCHANGED <<obj, frees>>
  ELSE /\ obj' = [obj EXCEPT ![h] = "freeing"]
       /\ frees' = [frees EXCEPT ![h] = IF @ < 2 THEN @ + 1 ELSE @]
       /\ UNCHANGED lost
-----------------------------------------------------------------------------
(* A C constructor returns a new object; no Python object owns it yet.  A  *)
(* constructor that returns NULL raises HandleError and changes nothing.   *)
Alloc(t, h) ==
  /\ t \in Holders[h]
  /\ obj[h] = "none"
  /\ Start(t, h, "wrap")
  /\ obj' = [obj EXCEPT ![h] = "live"]
  /\ UNCHANGED <<frees, lost, pyVars, finVars>>

(* _Handle.__init__: from here on the finalizer owns the object.           *)
Wrap(t) ==
  LET h == arg[t] IN
  /\ Finish(t, {"wrap"})
  /\ py' = [py EXCEPT ![h] = "alive"]
  /\ cptr' = [cptr EXCEPT ![h] = TRUE]
  /\ freed' = [freed EXCEPT ![h] = FALSE]
  /\ registry' = registry \cup {h}
  /\ refs' = [refs EXCEPT ![h] = {t}]
  /\ UNCHANGED <<cVars, dealloc, shutdown, phase>>

(* An operation that evaluates self._ptr and passes it to a C call.        *)
Invoke(t, h) ==
  /\ t \in refs[h]
  /\ Start(t, h, "check")
  /\ UNCHANGED <<cVars, pyVars, finVars>>

(* Mutant: _ptr without the test of _freed.                                *)
CheckNothing(t) ==
  /\ Goto(t, "check", "read")
  /\ UNCHANGED <<cVars, pyVars, finVars>>

CheckFreed(t) ==
  /\ pc[t] = "check"
  /\ IF freed[arg[t]]
     THEN Finish(t, {"check"})            \* raises UseAfterFreeError
     ELSE Goto(t, "check", "read")
  /\ UNCHANGED <<cVars, pyVars, finVars>>

(* If _cptr was cleared since the test, cffi refuses None (TypeError).     *)
ReadPtr(t) ==
  /\ pc[t] = "read"
  /\ IF cptr[arg[t]]
     THEN Goto(t, "read", "enter")
     ELSE Finish(t, {"read"})
  /\ UNCHANGED <<cVars, pyVars, finVars>>

(* cffi refuses another argument of the call: an exception before C runs.  *)
RefuseArgument(t) ==
  /\ Finish(t, {"enter"})
  /\ UNCHANGED <<cVars, pyVars, finVars>>

(* The C call starts: the generated wrapper releases the GIL around it.    *)
EnterC(t) ==
  /\ Goto(t, "enter", "incall")
  /\ UNCHANGED <<cVars, pyVars, finVars>>

(* Mutant: the result of a failed copy is wrapped without a test for NULL. *)
LeaveCWithNull(t) ==
  /\ pc[t] = "incall"
  /\ pc' = [pc EXCEPT ![t] = "wrap"]
  /\ arg' = [arg EXCEPT ![t] = NoHandle]
  /\ UNCHANGED <<cVars, pyVars, finVars>>

LeaveC(t) ==
  /\ Finish(t, {"incall"})
  /\ UNCHANGED <<cVars, pyVars, finVars>>

(* dogecoin_hdnode_copy: the call on one object returns another.           *)
LeaveCWithNew(t, h) ==
  /\ t \in Holders[h]
  /\ obj[h] = "none"
  /\ pc[t] = "incall"
  /\ pc' = [pc EXCEPT ![t] = "wrap"]
  /\ arg' = [arg EXCEPT ![t] = h]
  /\ obj' = [obj EXCEPT ![h] = "live"]
  /\ UNCHANGED <<frees, lost, pyVars, finVars>>
-----------------------------------------------------------------------------
(* free(), which __exit__ calls too.                                       *)
InvokeFree(t, h) ==
  /\ t \in refs[h]
  /\ Start(t, h, "fcheck")
  /\ UNCHANGED <<cVars, pyVars, finVars>>

FreeCheck(t) ==
  /\ pc[t] = "fcheck"
  /\ IF freed[arg[t]]
     THEN Finish(t, {"fcheck"})
     ELSE Goto(t, "fcheck", "fmark")
  /\ UNCHANGED <<cVars, pyVars, finVars>>

(* Mutants: free() that forgets to set _freed, and free() that detaches    *)
(* the finalizer before it frees.                                          *)
FreeMarksNothing(t) ==
  /\ Goto(t, "fmark", "ffinal")
  /\ UNCHANGED <<cVars, pyVars, finVars>>

FreeDetaches(t) ==
  /\ Goto(t, "fmark", "ffinal")
  /\ freed' = [freed EXCEPT ![arg[t]] = TRUE]
  /\ Pop(arg[t])
  /\ UNCHANGED <<cVars, py, cptr, refs, dealloc, shutdown, phase>>

FreeMark(t) ==
  /\ Goto(t, "fmark", "ffinal")
  /\ freed' = [freed EXCEPT ![arg[t]] = TRUE]
  /\ UNCHANGED <<cVars, py, cptr, refs, finVars>>

(* self._finalizer(): the pop, then the call of free_fn.                   *)
FreeFinalize(t) ==
  /\ Goto(t, "ffinal", IF Registered(arg[t]) THEN "fcall" ELSE "fclear")
  /\ Pop(arg[t])
  /\ UNCHANGED <<cVars, pyVars, dealloc, shutdown, phase>>

FreeCalls(t) ==
  /\ Goto(t, "fcall", IF shutdown THEN "fclear" ELSE "fwait")
  /\ CallFreeFn(arg[t])
  /\ UNCHANGED <<pyVars, finVars>>

FreeReturn(t) ==
  /\ pc[t] = "fwait"
  /\ obj[arg[t]] = "freed"
  /\ Goto(t, "fwait", "fclear")
  /\ UNCHANGED <<cVars, pyVars, finVars>>

FreeClear(t) ==
  /\ Finish(t, {"fclear"})
  /\ cptr' = [cptr EXCEPT ![arg[t]] = FALSE]
  /\ UNCHANGED <<cVars, py, freed, refs, finVars>>

(* The C free itself, GIL released, whoever called the finalizer.          *)
CFreeEnd(h) ==
  /\ obj[h] = "freeing"
  /\ obj' = [obj EXCEPT ![h] = "freed"]
  /\ UNCHANGED <<frees, lost, pyVars, finVars, pc, arg>>
-----------------------------------------------------------------------------
(* References: a frame that runs an operation keeps its own.               *)
Share(t, u, h) ==
  /\ Running(t)
  /\ t \in refs[h]
  /\ u \in Holders[h] \ refs[h]
  /\ refs' = [refs EXCEPT ![h] = @ \cup {u}]
  /\ UNCHANGED <<cVars, py, cptr, freed, finVars, pc, arg>>

(* Mutant: a frame that keeps no reference to the handle it works on.      *)
DropInUse(t, h) ==
  /\ Running(t)
  /\ t \in refs[h]
  /\ refs' = [refs EXCEPT ![h] = @ \ {t}]
  /\ UNCHANGED <<cVars, py, cptr, freed, finVars, pc, arg>>

Drop(t, h) ==
  /\ Running(t)
  /\ arg[t] # h
  /\ t \in refs[h]
  /\ refs' = [refs EXCEPT ![h] = @ \ {t}]
  /\ UNCHANGED <<cVars, py, cptr, freed, finVars, pc, arg>>

(* Mutant: deallocation takes the finalizer along and frees nothing.       *)
CollectOnly(h) ==
  /\ py[h] = "alive"
  /\ refs[h] = {}
  /\ py' = [py EXCEPT ![h] = "gone"]
  /\ Pop(h)
  /\ UNCHANGED <<cVars, cptr, freed, refs, dealloc, shutdown, phase,
                 pc, arg>>

(* The last reference is gone: deallocation starts the weakref callback of *)
(* a finalizer that is still registered.  The exit hook turns the garbage  *)
(* collector off, and then only the daemons still drop references.         *)
Collect(h) ==
  /\ py[h] = "alive"
  /\ refs[h] = {}
  /\ phase = "exiting" => Daemons # {}
  /\ py' = [py EXCEPT ![h] = "gone"]
  /\ dealloc' = [dealloc EXCEPT ![h] = IF Registered(h) THEN "pop" ELSE "no"]
  /\ UNCHANGED <<cVars, cptr, freed, refs, registry, shutdown, phase,
                 pc, arg>>

(* The callback is the finalizer itself: the exit hook may have been first. *)
CollectPops(h) ==
  /\ dealloc[h] = "pop"
  /\ dealloc' = [dealloc EXCEPT ![h] = IF Registered(h) THEN "call" ELSE "no"]
  /\ Pop(h)
  /\ UNCHANGED <<cVars, pyVars, shutdown, phase, pc, arg>>

CollectCalls(h) ==
  /\ dealloc[h] = "call"
  /\ dealloc' = [dealloc EXCEPT ![h] = "no"]
  /\ CallFreeFn(h)
  /\ UNCHANGED <<pyVars, registry, shutdown, phase, pc, arg>>

(* KeyboardInterrupt in the callback, which may run in Main: it is printed *)
(* and dropped.  Before the pop it leaves the object to the exit hook.     *)
CollectInterrupted(h) ==
  /\ dealloc[h] # "no"
  /\ dealloc' = [dealloc EXCEPT ![h] = "no"]
  /\ lost' = IF dealloc[h] = "call" THEN lost \cup {h} ELSE lost
  /\ UNCHANGED <<obj, frees, pyVars, registry, shutdown, phase, pc, arg>>

(* KeyboardInterrupt in Main, between two bytecodes of an operation: the   *)
(* frame unwinds.  In "wrap" nothing owns the new object any more, and in  *)
(* "fcall" its finalizer is popped already.  In a C call (incall, fwait)   *)
(* the signal is only noted until the call returns.                        *)
Interrupt(t) ==
  /\ t = Main
  /\ Finish(t, {"wrap", "check", "read", "enter",
                "fcheck", "fmark", "ffinal", "fcall", "fclear"})
  /\ lost' = IF pc[t] \in {"wrap", "fcall"} THEN lost \cup {arg[t]} ELSE lost
  /\ UNCHANGED <<obj, frees, pyVars, registry, dealloc, shutdown, phase>>
-----------------------------------------------------------------------------
(* The exit of the interpreter: Main is done and the other threads joined, *)
(* with the deallocations they had begun.                                  *)
BeginExit ==
  /\ phase = "run"
  /\ \A t \in Threads \ Daemons : pc[t] = "idle"
  /\ Daemons = {} => \A h \in Handles : dealloc[h] = "no"
  /\ phase' = "exiting"
  /\ pc' = [pc EXCEPT ![Main] = "exit"]
  /\ UNCHANGED <<cVars, pyVars, registry, dealloc, shutdown, arg>>

(* weakref.finalize._exitfunc calls the finalizers that are left...        *)
ExitFinalize(h) ==
  /\ pc[Main] = "exit"
  /\ h \in registry
  /\ pc' = [pc EXCEPT ![Main] = "exitcall"]
  /\ arg' = [arg EXCEPT ![Main] = h]
  /\ Pop(h)
  /\ UNCHANGED <<cVars, pyVars, dealloc, shutdown, phase>>

ExitCalls ==
  /\ Goto(Main, "exitcall", "exitwait")
  /\ CallFreeFn(arg[Main])
  /\ UNCHANGED <<pyVars, finVars>>

ExitReturn ==
  /\ pc[Main] = "exitwait"
  /\ obj[arg[Main]] = "freed"
  /\ pc' = [pc EXCEPT ![Main] = "exit"]
  /\ arg' = [arg EXCEPT ![Main] = NoHandle]
  /\ UNCHANGED <<cVars, pyVars, finVars>>

(* Mutant: the exit hook gives up before the registry is empty.            *)
ExitLoopGivesUp ==
  /\ Goto(Main, "exit", "exitflag")
  /\ UNCHANGED <<cVars, pyVars, finVars>>

ExitLoopEnds ==
  /\ registry = {}
  /\ Goto(Main, "exit", "exitflag")
  /\ UNCHANGED <<cVars, pyVars, finVars>>

(* ... unless a KeyboardInterrupt, which the loop does not catch, ends it  *)
(* before the registry is empty...                                         *)
ExitInterrupted ==
  /\ pc[Main] \in {"exit", "exitcall"}
  /\ pc' = [pc EXCEPT ![Main] = "exitcut"]
  /\ arg' = [arg EXCEPT ![Main] = NoHandle]
  /\ lost' = IF pc[Main] = "exitcall" THEN lost \cup {arg[Main]} ELSE lost
  /\ UNCHANGED <<obj, frees, pyVars, registry, dealloc, shutdown, phase>>

(* ... and in either case its finally clause sets the shutdown flag, after *)
(* which no finalizer frees anything...                                    *)
ExitShutdown ==
  /\ Finish(Main, {"exitflag", "exitcut"})
  /\ shutdown' = TRUE
  /\ phase' = IF pc[Main] = "exitflag" THEN "late" ELSE "cut"
  /\ UNCHANGED <<cVars, pyVars, registry, dealloc>>

(* ... but for one more interrupt, in the finally clause.                  *)
ShutdownInterrupted ==
  /\ Finish(Main, {"exitflag", "exitcut"})
  /\ phase' = "cut"
  /\ UNCHANGED <<cVars, pyVars, registry, dealloc, shutdown>>
-----------------------------------------------------------------------------
UseStep(t) ==
  CheckFreed(t) \/ ReadPtr(t) \/ RefuseArgument(t) \/ EnterC(t) \/ LeaveC(t)

FreeStep(t) ==
  FreeCheck(t) \/ FreeMark(t) \/ FreeFinalize(t) \/ FreeCalls(t)
    \/ FreeReturn(t) \/ FreeClear(t)

Step(t) == Wrap(t) \/ UseStep(t) \/ FreeStep(t)

Begin(t, h) == Alloc(t, h) \/ Invoke(t, h) \/ InvokeFree(t, h)

References(h) ==
  \E t \in Threads : Drop(t, h) \/ \E u \in Threads : Share(t, u, h)

(* The collector, in whatever thread it runs, and the C call it ends in.   *)
CollectStep(h) ==
  Collect(h) \/ CollectPops(h) \/ CollectCalls(h) \/ CFreeEnd(h)

ExitStep ==
  \/ ExitCalls \/ ExitReturn \/ ExitLoopEnds \/ ExitShutdown
  \/ \E h \in Handles : ExitFinalize(h)

ExitHookInterrupt == ExitInterrupted \/ ShutdownInterrupted

Next ==
  \/ \E t \in Threads : Step(t) \/ Interrupt(t)
  \/ \E t \in Threads, h \in Handles : Begin(t, h) \/ LeaveCWithNew(t, h)
  \/ \E h \in Handles :
       CollectStep(h) \/ CollectInterrupted(h) \/ References(h)
  \/ BeginExit \/ ExitStep \/ ExitHookInterrupt

Spec == Init /\ [][Next]_vars

(* The OS runs every thread; a C call returns; a handle without references *)
(* is deallocated and its callback runs; the exit hook goes on.  Nothing   *)
(* makes a thread start or drop anything, or the program exit.             *)
Fairness ==
  /\ \A t \in Threads : WF_vars(Step(t))
  /\ \A h \in Handles : WF_vars(CollectStep(h)) /\ WF_vars(CFreeEnd(h))
  /\ WF_vars(ExitStep)

FairSpec == Spec /\ Fairness
-----------------------------------------------------------------------------
(* "frees exactly once", the half that a test would not reach: whatever    *)
(* two calls of free(), the collection of the handle, the exit hook and an *)
(* interrupt in any of them do between one another's steps, free_fn is     *)
(* entered at most once on a C object.                                     *)
FreedOnce == \A h \in Handles : frees[h] <= 1

(* Somebody is about to register the finalizer, or has popped it and is    *)
(* about to enter free_fn.                                                 *)
InFlight(h) ==
  \/ dealloc[h] = "call"
  \/ \E t \in Threads : arg[t] = h /\ pc[t] \in {"wrap", "fcall", "exitcall"}

(* The backstop: an object is live exactly while its finalizer is          *)
(* registered, or somebody is about to register it or to free the object.  *)
(* An interrupted free(), _freed set or not, leaves it registered, but for *)
(* the windows in which an interrupt loses the object: before the wrapping *)
(* is done, and between the pop and free_fn.  (After the exit hook, so     *)
(* does the shutdown flag.)                                                *)
FinalizerOwns ==
  \A h \in Handles :
    obj[h] = "live" <=> h \in registry \/ InFlight(h) \/ h \in lost

(* The threads that run no program code beside or after weakref's exit     *)
(* hook, the handles that only they may hold, and those of these handles   *)
(* that are never passed from one thread to another.                       *)
Joined == {t \in Threads \ Daemons : t = Main => ~LateUse}

QuietHandles == {h \in Handles : Holders[h] \subseteq Joined}

OwnHandles == {h \in QuietHandles : \A t, u \in Holders[h] : t = u}

(* An exit hook that runs to its end leaves no object of a quiet handle    *)
(* behind, but for those an interrupt has lost and those that a daemon     *)
(* collects at that moment.  (One that an interrupt ends leaves any.)      *)
ExitFreesAll ==
  phase = "late" =>
    \A h \in QuietHandles :
      obj[h] = "live" => h \in lost \/ dealloc[h] = "call"

PassesCheck(t) == pc[t] = "check" /\ pc'[t] = "read"

(* "raises UseAfterFreeError on any use after release", for a use that     *)
(* starts after the release: the test of _freed in _ptr passes only while  *)
(* the object is live.                                                     *)
CheckCatchesRelease ==
  [][\A t \in Threads : PassesCheck(t) => obj[arg[t]] = "live"]_vars

(* The same promise for quiet handles, shared by threads or not, whatever  *)
(* the program does with its other handles.                                *)
QuietReleaseIsCaught ==
  [][\A t \in Threads :
       PassesCheck(t) /\ arg[t] \in QuietHandles => obj[arg[t]] = "live"]_vars

(* The same promise for the whole use: no C call runs on an object that    *)
(* free_fn was entered on.  It holds of a handle that stays in one thread, *)
(* also beside threads that share other handles, or use them after exit.   *)
NoUseAfterFree ==
  \A t \in Threads :
    pc[t] = "incall" /\ arg[t] \in OwnHandles => obj[arg[t]] = "live"

(* "a forgotten handle still frees eventually rather than leaking", as far *)
(* as interrupts permit: one in the weakref callback loses the object or,  *)
(* before the pop, leaves it to the exit hook, and one that ends the exit  *)
(* hook leaves whatever is registered.                                     *)
Forgotten(h) == py[h] = "alive" /\ refs[h] = {} /\ phase = "run"

LeftToExit(h) == h \in registry /\ py[h] = "gone" /\ dealloc[h] = "no"

ForgottenIsFreed ==
  \A h \in Handles :
    Forgotten(h) ~>
      obj[h] = "freed" \/ h \in lost \/ LeftToExit(h) \/ phase = "cut"

(* The life of the C objects of such handles that the steps amount to.     *)
LifeOf == [h \in OwnHandles |->
             IF obj[h] \in {"freeing", "freed"} THEN "released" ELSE obj[h]]

UsingOf == [t \in Threads |->
              IF pc[t] = "incall" /\ arg[t] \in OwnHandles THEN arg[t]
                                                         ELSE NoHandle]

L == INSTANCE Lifetime
       WITH Handles <- OwnHandles, life <- LifeOf, using <- UsingOf

(* The handles that stay in one thread keep what the abstract              *)
(* specification promises.                                                 *)
Promise == L!LifeSpec
=============================================================================
