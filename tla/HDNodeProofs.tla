---------------------------- MODULE HDNodeProofs ----------------------------
(***************************************************************************)
(* The methods of HDNode are programs over the handle operations, so what  *)
(* HandleProofs shows of every program holds of them.                      *)
(***************************************************************************)
EXTENDS HDNode, HandleProofs

(* The node in a frame is a handle, and a method that frees it has one.    *)
ChildInv ==
  /\ op \in [Threads -> Ops]
  /\ child \in [Threads -> Handles \cup {NoHandle}]
  /\ \A t \in Threads : op[t] = "failed" => child[t] \in Handles

HDInv == IInv /\ ChildInv

(* Each step of a method is one handle step, or touches no handle at all.  *)
LEMMA MethodIsHandleStep ==
  ASSUME HDInv, NEW t \in Threads, Method(t) \/ InterruptMethod(t)
  PROVE  [Next]_vars
<1>1. ASSUME Step(t) \/ Interrupt(t)
      PROVE  [Next]_vars
  BY <1>1 DEF Next
<1>2. ASSUME NEW h \in Handles,
             Begin(t, h) \/ LeaveCWithNew(t, h) \/ References(h)
      PROVE  [Next]_vars
  BY <1>2 DEF Next
<1>3. CASE WrapNode(t) \/ Pass(t) \/ Refuse(t) \/ CopyFails(t)
             \/ CallReturns(t) \/ FillSucceeds(t) \/ FillFails(t)
             \/ FreeGoesOn(t) \/ InterruptMethod(t)
  BY <1>1, <1>3
  DEF WrapNode, Pass, Refuse, CopyFails, CallReturns, FillSucceeds,
      FillFails, FreeGoesOn, InterruptMethod, Step, UseStep
<1>4. CASE CallOnChild(t)
  BY <1>2, <1>4 DEF CallOnChild, Begin, HDInv, ChildInv
<1>5. CASE FreeChild(t)
  BY <1>2, <1>5 DEF FreeChild, Begin, HDInv, ChildInv
<1>6. CASE Unwind(t)
  BY <1>2, <1>6 DEF Unwind, References, HDInv, ChildInv
<1>7. CASE \E h \in Handles : CopyReturns(t, h)
  BY <1>2, <1>7 DEF CopyReturns
<1> QED
  BY <1>3, <1>4, <1>5, <1>6, <1>7 DEF Method

(* So is every other step of the program and the runtime.                  *)
LEMMA NodeStepIsHandleStep == HDInv /\ [HDNext]_allVars => [Next]_vars
<1> SUFFICES ASSUME HDInv, [HDNext]_allVars
             PROVE  [Next]_vars
  OBVIOUS
<1>1. ASSUME NEW t \in Threads, Method(t) \/ InterruptMethod(t)
      PROVE  [Next]_vars
  BY <1>1, MethodIsHandleStep
<1>2. ASSUME NEW t \in Threads, NEW h \in Handles,
             CallMethod(t, h) \/ DropNode(t, h)
      PROVE  [Next]_vars
  BY <1>2
  DEF CallMethod, Construct, Call, CallFree, DropNode, Next, Begin, References
<1>3. ASSUME NEW t \in Threads, NEW u \in Threads, NEW h \in Handles,
             ShareNode(t, u, h)
      PROVE  [Next]_vars
  BY <1>3 DEF ShareNode, Next, References
<1>4. CASE ExitProgram \/ Runtime
  BY <1>4 DEF ExitProgram, Runtime, Next
<1>5. CASE UNCHANGED allVars
  BY <1>5 DEF allVars, vars
<1> QED
  BY <1>1, <1>2, <1>3, <1>4, <1>5 DEF HDNext

(* The node in a frame stays a handle through every step of a method.      *)
LEMMA NextChildInv == HDInv /\ [HDNext]_allVars => ChildInv'
<1> SUFFICES ASSUME HDInv, [HDNext]_allVars
             PROVE  ChildInv'
  OBVIOUS
<1> USE DEF HDInv, ChildInv, Become, ClearFrame, Return, hdVars
<1>1. ASSUME NEW t \in Threads, WrapNode(t)
      PROVE  ChildInv'
  <2>1. arg[t] \in Handles
    BY <1>1 DEF WrapNode, Wrap, Finish, IInv, OpInv
  <2> QED
    BY <1>1, <2>1 DEF WrapNode, InPlace, Ops
<1>2. ASSUME NEW t \in Threads,
             CallOnChild(t) \/ Pass(t) \/ Refuse(t) \/ CopyFails(t)
               \/ CallReturns(t) \/ InterruptMethod(t)
      PROVE  ChildInv'
  BY <1>2
  DEF CallOnChild, Pass, Refuse, CopyFails, CallReturns, InterruptMethod, Ops
<1>3. ASSUME NEW t \in Threads,
             FillSucceeds(t) \/ FillFails(t) \/ FreeChild(t) \/ Unwind(t)
      PROVE  ChildInv'
  BY <1>3 DEF FillSucceeds, FillFails, FreeChild, Unwind, Ops
<1>4. ASSUME NEW t \in Threads, FreeGoesOn(t)
      PROVE  ChildInv'
  BY <1>4 DEF FreeGoesOn, Ops
<1>5. ASSUME NEW t \in Threads, NEW h \in Handles,
             CopyReturns(t, h) \/ CallMethod(t, h) \/ DropNode(t, h)
      PROVE  ChildInv'
  BY <1>5
  DEF CopyReturns, CallMethod, Construct, Call, CallFree, DropNode, Ops,
      Builders, OnSelf
<1>6. ASSUME NEW t \in Threads, NEW u \in Threads, NEW h \in Handles,
             ShareNode(t, u, h)
      PROVE  ChildInv'
  BY <1>6 DEF ShareNode
<1>7. CASE ExitProgram \/ Runtime
  BY <1>7 DEF ExitProgram, Runtime
<1>8. CASE UNCHANGED allVars
  BY <1>8 DEF allVars
<1> QED
  BY <1>1, <1>2, <1>3, <1>4, <1>5, <1>6, <1>7, <1>8 DEF HDNext, Method

(* A method's frame and the handles are consistent in every state.         *)
LEMMA HDInvariance == HDSpec => []HDInv
<1>1. HDInit => HDInv
  BY InitIInv DEF HDInit, HDInv, ChildInv, Ops
<1>2. HDInv /\ [HDNext]_allVars => HDInv'
  BY NodeStepIsHandleStep, NextChildInv, NextIInv DEF HDInv
<1> QED
  BY <1>1, <1>2, PTL DEF HDSpec

(* Every behaviour of the HDNode methods is a behaviour of the handles.    *)
THEOREM NodesImplementHandles == HDSpec => ImplementsHandle
<1>1. HDInit => Init
  BY DEF HDInit
<1> QED
  BY <1>1, HDInvariance, NodeStepIsHandleStep, PTL
  DEF HDSpec, ImplementsHandle, Spec

(* So whichever methods run, fail, or are interrupted, a struct is freed   *)
(* at most once, and while it lives its finalizer is registered or about   *)
(* to free it, but for the structs that an interrupt has lost.             *)
THEOREM NodesFreedOnce == HDSpec => [](FreedOnce /\ FinalizerOwns)
BY NodesImplementHandles, NeverFreedTwice, BackstopNeverLost, PTL
DEF ImplementsHandle

(* And no method hands a released struct to C if its node stays in one     *)
(* thread: the structs of such nodes have the abstract lifetime.           *)
THEOREM OwnNodesAreSafe == HDSpec => []NoUseAfterFree /\ Promise
BY NodesImplementHandles, OwnHandlesAreSafe, OwnHandlesKeepPromise, PTL
DEF ImplementsHandle
-----------------------------------------------------------------------------
(* The methods that build no node, or return it as soon as it is wrapped.  *)
Simple == {"none", "free", "new", "copy", "fill", "read"}

(* A method's receiver was returned to the program before, the node it     *)
(* builds was not: only its own frame refers to it.                        *)
FrameInv ==
  /\ self \in [Threads -> Handles \cup {NoHandle}]
  /\ published \subseteq Handles
  /\ \A h \in published : py[h] # "unborn"
  /\ \A t \in Threads :
       /\ op[t] \in Simple \/ pc[t] = "wrap" => child[t] = NoHandle
       /\ pc[t] \in {"wrap"} \cup UsePC => op[t] \in Builders \cup OnSelf
       /\ pc[t] \in FreePC => op[t] \in {"free", "freeing"}
       /\ op[t] \in OnSelf => self[t] \in published
       /\ child[t] \in Handles =>
            child[t] \notin published /\ py[child[t]] # "unborn"
  /\ \A h \in Handles : \A t \in refs[h] : h \in published \/ child[t] = h
  /\ \A t, u \in Threads : child[t] = child[u] /\ child[t] \in Handles => t = u

LEMMA NextFrameInv == HDInv /\ FrameInv /\ [HDNext]_allVars => FrameInv'
<1> SUFFICES ASSUME HDInv, FrameInv, [HDNext]_allVars
             PROVE  FrameInv'
  OBVIOUS
<1> USE HandleAssumption
    DEF HDInv, ChildInv, FrameInv, Simple, Builders, OnSelf, InPlace,
        CopyFirst, Become, ClearFrame, Return, UsePC, FreePC, hdVars
<1>1. TypeOK /\ OpInv /\ HandInv /\ OwnInv
  BY DEF IInv
<1>2. ASSUME NEW t \in Threads, WrapNode(t)
      PROVE  FrameInv'
  <2>1. /\ pc[t] = "wrap" /\ arg[t] \in Handles /\ py[arg[t]] = "unborn"
        /\ refs[arg[t]] = {} /\ arg[t] \notin published /\ child[t] = NoHandle
    BY <1>1, <1>2 DEF WrapNode, Wrap, Finish, OpInv, OwnInv
  <2>2. /\ pc' = [pc EXCEPT ![t] = "idle"]
        /\ py' = [py EXCEPT ![arg[t]] = "alive"]
        /\ refs' = [refs EXCEPT ![arg[t]] = {t}]
    BY <1>2 DEF WrapNode, Wrap, Finish
  <2>3. CASE op[t] \in InPlace
    <3>1. child' = [child EXCEPT ![t] = arg[t]] /\ UNCHANGED <<op, self, published>>
      BY <1>2, <2>3 DEF WrapNode
    <3> QED
      BY <1>1, <2>1, <2>2, <2>3, <3>1 DEF TypeOK
  <2>4. CASE op[t] \notin InPlace
    BY <1>1, <1>2, <2>1, <2>2, <2>4 DEF WrapNode, TypeOK
  <2> QED
    BY <2>3, <2>4
<1>3. ASSUME NEW t \in Threads, CallOnChild(t)
      PROVE  FrameInv'
  BY <1>1, <1>3 DEF CallOnChild, Invoke, Start, TypeOK, cVars, pyVars, finVars
<1>4. ASSUME NEW t \in Threads, Pass(t) \/ Refuse(t)
      PROVE  FrameInv'
  BY <1>1, <1>4
  DEF Pass, Refuse, CheckFreed, ReadPtr, RefuseArgument, EnterC, Goto, Finish,
      TypeOK, cVars, pyVars, finVars
<1>5. ASSUME NEW t \in Threads, NEW h \in Handles, CopyReturns(t, h)
      PROVE  FrameInv'
  BY <1>1, <1>5
  DEF CopyReturns, LeaveCWithNew, TypeOK, OwnInv, cVars, pyVars, finVars
<1>6. ASSUME NEW t \in Threads,
             CopyFails(t) \/ CallReturns(t) \/ FillFails(t) \/ InterruptMethod(t)
      PROVE  FrameInv'
  BY <1>1, <1>6
  DEF CopyFails, CallReturns, FillFails, InterruptMethod, Interrupt, LeaveC,
      Finish, TypeOK, cVars, pyVars, finVars
<1>7. ASSUME NEW t \in Threads, FillSucceeds(t)
      PROVE  FrameInv'
  BY <1>1, <1>7
  DEF FillSucceeds, LeaveC, Finish, TypeOK, cVars, pyVars, finVars
<1>8. ASSUME NEW t \in Threads, FreeChild(t)
      PROVE  FrameInv'
  BY <1>1, <1>8
  DEF FreeChild, InvokeFree, Start, TypeOK, cVars, pyVars, finVars
<1>9. ASSUME NEW t \in Threads, FreeGoesOn(t)
      PROVE  FrameInv'
  <2>1. PICK q \in FreePC \cup {"idle"} :
          /\ pc[t] \in FreePC /\ pc' = [pc EXCEPT ![t] = q]
          /\ UNCHANGED <<py, refs>>
    BY <1>9
    DEF FreeGoesOn, FreeStep, FreeCheck, FreeMark, FreeFinalize, FreeCalls,
        FreeReturn, FreeClear, Goto, Finish, pyVars
  <2>2. /\ pc \in [Threads -> PC] /\ op[t] \in {"free", "freeing"}
        /\ child[t] # NoHandle => op[t] = "freeing"
    BY <1>1, <2>1 DEF TypeOK
  <2>3. pc'[t] = q /\ \A u \in Threads \ {t} : pc'[u] = pc[u]
    BY <2>1, <2>2
  <2>4. CASE UNCHANGED <<op, self, child, published>>
    BY <2>1, <2>2, <2>3, <2>4
  <2>5. CASE q = "idle" /\ op[t] = "freeing"
    <3>1. /\ op' = [op EXCEPT ![t] = "raise"]
          /\ UNCHANGED <<self, child, published>>
      BY <1>9, <2>3, <2>5 DEF FreeGoesOn
    <3> QED
      BY <2>1, <2>2, <2>3, <2>5, <3>1
  <2>6. CASE q = "idle" /\ op[t] = "free"
    <3>1. /\ op' = [op EXCEPT ![t] = "none"]
          /\ self' = [self EXCEPT ![t] = NoHandle]
          /\ child' = child /\ published' = published
      BY <1>9, <2>2, <2>3, <2>6 DEF FreeGoesOn
    <3> QED
      BY <2>1, <2>2, <2>3, <2>6, <3>1
  <2> QED
    BY <1>9, <2>2, <2>3, <2>4, <2>5, <2>6 DEF FreeGoesOn
<1>10. ASSUME NEW t \in Threads, Unwind(t)
      PROVE  FrameInv'
  BY <1>1, <1>10
  DEF Unwind, Drop, TypeOK, vars, cVars, finVars
<1>11. ASSUME NEW t \in Threads, NEW h \in Handles, CallMethod(t, h)
      PROVE  FrameInv'
  <2>1. CASE \E o \in Builders : Construct(t, o, h)
    BY <1>1, <2>1 DEF Construct, Alloc, Start, TypeOK, pyVars
  <2>2. CASE \E o \in OnSelf : Call(t, o, h)
    BY <1>1, <2>2 DEF Call, Invoke, Start, TypeOK, pyVars
  <2>3. CASE CallFree(t, h)
    BY <1>1, <2>3 DEF CallFree, InvokeFree, Start, TypeOK, pyVars
  <2> QED
    BY <1>11, <2>1, <2>2, <2>3 DEF CallMethod
<1>12. ASSUME NEW t \in Threads, NEW u \in Threads, NEW h \in Handles,
              DropNode(t, h) \/ ShareNode(t, u, h)
      PROVE  FrameInv'
  BY <1>1, <1>12
  DEF DropNode, Drop, ShareNode, Share, TypeOK, cVars, finVars
<1>13. CASE ExitProgram
  BY <1>1, <1>13, ThreadAssumption
  DEF ExitProgram, BeginExit, TypeOK, cVars, pyVars, vars
<1>14. CASE Runtime
  BY <1>1, <1>14, ThreadAssumption
  DEF Runtime, ExitStep, ExitCalls, ExitReturn, ExitLoopEnds, ExitShutdown,
      ExitFinalize, ExitHookInterrupt, ExitInterrupted, ShutdownInterrupted,
      CollectStep, CFreeEnd, Collect, CollectPops, CollectCalls,
      CollectInterrupted, Goto, Finish, Pop, CallFreeFn, TypeOK, OwnInv,
      ExitPC, cVars, pyVars, finVars, vars
<1>15. CASE UNCHANGED allVars
  BY <1>15 DEF allVars
<1> QED
  BY <1>2, <1>3, <1>4, <1>5, <1>6, <1>7, <1>8, <1>9, <1>10, <1>11, <1>12,
     <1>13, <1>14, <1>15
  DEF HDNext, Method

(* A node is good from the moment a method has it, unless the C function   *)
(* that was to fill it failed: such a node is in that method's frame only. *)
Good == {"full", "empty", "torn"}

NodeInv ==
  /\ node \in [Handles -> Nodes]
  /\ \A h \in Handles : obj[h] = "none" => node[h] = EmptyNode
  /\ \A h \in published : node[h].state \in Good
  /\ \A t \in Threads : pc[t] = "wrap" => node[arg[t]].state \in Good
  /\ \A t \in Threads : op[t] \in InPlace /\ child[t] \in Handles
                          => node[child[t]].state \in Good

LEMMA NextNodeInv ==
  HDInv /\ FrameInv /\ NodeInv /\ [HDNext]_allVars => NodeInv'
<1> SUFFICES ASSUME HDInv, FrameInv, NodeInv, [HDNext]_allVars
             PROVE  NodeInv'
  OBVIOUS
<1> USE HandleAssumption
    DEF HDInv, ChildInv, FrameInv, NodeInv, Good, Simple, Builders, OnSelf,
        InPlace, CopyFirst, Become, ClearFrame, Return, hdVars
<1>1. TypeOK /\ OpInv /\ HandInv /\ OwnInv
  BY DEF IInv
<1>2. ASSUME NEW t \in Threads, WrapNode(t)
      PROVE  NodeInv'
  <2>1. /\ pc[t] = "wrap" /\ arg[t] \in Handles
        /\ pc' = [pc EXCEPT ![t] = "idle"]
        /\ arg' = [arg EXCEPT ![t] = NoHandle]
        /\ obj' = obj /\ node' = node
    BY <1>1, <1>2 DEF WrapNode, Wrap, Finish, OpInv, cVars
  <2>2. CASE op[t] \in InPlace
    <3>1. child' = [child EXCEPT ![t] = arg[t]] /\ UNCHANGED <<op, published>>
      BY <1>2, <2>2 DEF WrapNode
    <3> QED
      BY <1>1, <2>1, <3>1 DEF TypeOK
  <2>3. CASE op[t] \notin InPlace
    <3>1. /\ child' = [child EXCEPT ![t] = NoHandle]
          /\ op' = [op EXCEPT ![t] = "none"]
          /\ published' = published \cup {arg[t]}
      BY <1>2, <2>3 DEF WrapNode
    <3> QED
      BY <1>1, <2>1, <3>1 DEF TypeOK
  <2> QED
    BY <2>2, <2>3
<1>3. ASSUME NEW t \in Threads,
             CallOnChild(t) \/ Pass(t) \/ Refuse(t) \/ CopyFails(t)
               \/ CallReturns(t) \/ InterruptMethod(t) \/ FreeChild(t)
      PROVE  NodeInv'
  BY <1>1, <1>3
  DEF CallOnChild, Invoke, Start, Pass, Refuse, CheckFreed, ReadPtr,
      RefuseArgument, EnterC, CopyFails, CallReturns, LeaveC, InterruptMethod,
      Interrupt, FreeChild, InvokeFree, Goto, Finish, TypeOK, cVars
<1>4. ASSUME NEW t \in Threads, NEW h \in Handles, CopyReturns(t, h)
      PROVE  NodeInv'
  <2>1. /\ obj[h] = "none" /\ h \notin published
        /\ \A u \in Threads : child[u] # h /\ (pc[u] = "wrap" => arg[u] # h)
        /\ obj' = [obj EXCEPT ![h] = "live"]
        /\ pc' = [pc EXCEPT ![t] = "wrap"] /\ arg' = [arg EXCEPT ![t] = h]
        /\ UNCHANGED <<op, child, published>>
    BY <1>1, <1>4 DEF CopyReturns, LeaveCWithNew, OwnInv, OpInv
  <2>2. PICK n \in Nodes : n.state \in Good /\ node' = [node EXCEPT ![h] = n]
    <3>1. node[self[t]] \in Nodes /\ node[self[t]].state \in Good
      BY <1>4 DEF CopyReturns
    <3>2. \A n \in Nodes : [n EXCEPT !.state = "torn"] \in Nodes
      BY DEF Nodes
    <3>3. \A n \in Nodes : [n EXCEPT !.state = "torn"].state = "torn"
      BY DEF Nodes
    <3> QED
      BY <1>4, <3>1, <3>2, <3>3 DEF CopyReturns
  <2> QED
    BY <1>1, <2>1, <2>2 DEF TypeOK
<1>5. ASSUME NEW t \in Threads, FillSucceeds(t) \/ FillFails(t)
      PROVE  NodeInv'
  <2> DEFINE h == child[t]
  <2>1. /\ h \in Handles /\ h \notin published /\ obj[h] # "none"
        /\ op[t] \in InPlace /\ node[h].state \in Good
        /\ \A u \in Threads : pc[u] = "wrap" => arg[u] # h
        /\ \A u \in Threads \ {t} : child[u] # h
        /\ pc[t] # "wrap" /\ pc' = [pc EXCEPT ![t] = "idle"]
        /\ arg' = [arg EXCEPT ![t] = NoHandle] /\ obj' = obj
    BY <1>1, <1>5
    DEF FillSucceeds, FillFails, LeaveC, Finish, OwnInv, OpInv, cVars
  <2>2. CASE FillSucceeds(t)
    <3>1. \A n \in Nodes : Deeper(n) \in Nodes /\ Deeper(n).state = n.state
      BY DEF Nodes, Deeper
    <3>2. [state |-> "full", depth |-> 0] \in Nodes
      BY DEF Nodes
    <3> DEFINE made == IF op[t] = "derive"
                       THEN Deeper(node[h])
                       ELSE [state |-> "full", depth |-> 0]
    <3>3. made \in Nodes /\ made.state \in Good
      BY <2>1, <3>1, <3>2
    <3>4. node' = [node EXCEPT ![h] = made]
      BY <2>2 DEF FillSucceeds
    <3> HIDE DEF made
    <3>5. /\ op' = [op EXCEPT ![t] = "none"]
          /\ child' = [child EXCEPT ![t] = NoHandle]
          /\ published' = published \cup {h}
      BY <2>2 DEF FillSucceeds
    <3> QED
      BY <1>1, <2>1, <3>3, <3>4, <3>5 DEF TypeOK
  <2>3. CASE FillFails(t)
    <3>1. \A n \in Nodes : [n EXCEPT !.state = "partial"] \in Nodes
      BY DEF Nodes
    <3>2. PICK n \in Nodes : node' = [node EXCEPT ![h] = n]
      BY <2>1, <2>3, <3>1 DEF FillFails
    <3>3. op' = [op EXCEPT ![t] = "failed"] /\ UNCHANGED <<child, published>>
      BY <2>3 DEF FillFails
    <3> QED
      BY <1>1, <2>1, <3>2, <3>3 DEF TypeOK
  <2> QED
    BY <1>5, <2>2, <2>3
<1>6. ASSUME NEW t \in Threads, FreeGoesOn(t)
      PROVE  NodeInv'
  <2>1. /\ \A h \in Handles : obj'[h] = "none" => obj[h] = "none"
        /\ pc[t] \in FreePC /\ pc'[t] \notin {"wrap"}
        /\ \A u \in Threads \ {t} : pc'[u] = pc[u] /\ arg'[u] = arg[u]
    BY <1>1, <1>6
    DEF FreeGoesOn, FreeStep, FreeCheck, FreeMark, FreeFinalize, FreeCalls,
        FreeReturn, FreeClear, Pop, CallFreeFn, Goto, Finish, TypeOK, FreePC,
        cVars
  <2>2. /\ node' = node /\ published' = published
        /\ \A u \in Threads : op'[u] \in InPlace =>
                                op'[u] = op[u] /\ child'[u] = child[u]
    BY <1>1, <1>6 DEF FreeGoesOn
  <2> QED
    BY <2>1, <2>2
<1>7. ASSUME NEW t \in Threads, Unwind(t)
      PROVE  NodeInv'
  BY <1>1, <1>7 DEF Unwind, Drop, TypeOK, vars, cVars
<1>8. ASSUME NEW t \in Threads, NEW h \in Handles, CallMethod(t, h)
      PROVE  NodeInv'
  <2>1. CASE \E o \in Builders : Construct(t, o, h)
    <3>1. node[h].state = "empty"
      BY <2>1 DEF Construct, Alloc, EmptyNode
    <3> QED
      BY <1>1, <2>1, <3>1 DEF Construct, Alloc, Start, TypeOK
  <2>2. CASE \E o \in OnSelf : Call(t, o, h)
    BY <1>1, <2>2 DEF Call, Invoke, Start, TypeOK, cVars
  <2>3. CASE CallFree(t, h)
    BY <1>1, <2>3 DEF CallFree, InvokeFree, Start, TypeOK, cVars
  <2> QED
    BY <1>8, <2>1, <2>2, <2>3 DEF CallMethod
<1>9. ASSUME NEW t \in Threads, NEW u \in Threads, NEW h \in Handles,
             DropNode(t, h) \/ ShareNode(t, u, h)
      PROVE  NodeInv'
  BY <1>9 DEF DropNode, Drop, ShareNode, Share, cVars
<1>10. CASE ExitProgram
  BY <1>1, <1>10, ThreadAssumption
  DEF ExitProgram, BeginExit, TypeOK, cVars, pyVars
<1>11. CASE Runtime
  <2>1. /\ \A h \in Handles : obj'[h] = "none" => obj[h] = "none"
        /\ \A u \in Threads : pc'[u] = "wrap" => pc[u] = "wrap" /\ arg'[u] = arg[u]
    BY <1>1, <1>11, ThreadAssumption
    DEF Runtime, ExitStep, ExitCalls, ExitReturn, ExitLoopEnds, ExitShutdown,
      ExitFinalize, ExitHookInterrupt, ExitInterrupted, ShutdownInterrupted,
      CollectStep, CFreeEnd, Collect, CollectPops, CollectCalls,
      CollectInterrupted, Goto, Finish, Pop, CallFreeFn, TypeOK, cVars
  <2> QED
    BY <1>11, <2>1 DEF Runtime
<1>12. CASE UNCHANGED allVars
  BY <1>12 DEF allVars
<1> QED
  BY <1>2, <1>3, <1>4, <1>5, <1>6, <1>7, <1>8, <1>9, <1>10, <1>11, <1>12
  DEF HDNext, Method

(* Both hold of every program.                                             *)
LEMMA NodeInvariance == HDSpec => [](HDInv /\ FrameInv /\ NodeInv)
<1>1. ASSUME HDInit
      PROVE  FrameInv /\ NodeInv
  <2>1. FrameInv
    BY <1>1, HandleAssumption
    DEF HDInit, Init, FrameInv, Simple, Builders, OnSelf, UsePC, FreePC
  <2>2. NodeInv
    BY <1>1, HandleAssumption
    DEF HDInit, Init, NodeInv, InPlace, Nodes, EmptyNode
  <2> QED
    BY <2>1, <2>2
<1>2. FrameInv /\ NodeInv /\ HDInv /\ [HDNext]_allVars => (FrameInv /\ NodeInv)'
  BY NextFrameInv, NextNodeInv
<1> QED
  BY <1>1, <1>2, HDInvariance, PTL DEF HDSpec

(* Frames and nodes keep their types.                                      *)
THEOREM NodeTypeCorrect == HDSpec => []HDTypeOK
<1>1. HDInv /\ FrameInv /\ NodeInv => HDTypeOK
  BY DEF HDInv, IInv, ChildInv, FrameInv, NodeInv, HDTypeOK
<1> QED
  BY <1>1, NodeInvariance, PTL

(* However a method ends, somebody will release the object it made, unless *)
(* an interrupt lost it: the finalizer is still to run, and the caller or  *)
(* the frame that builds the node has the only references.                 *)
THEOREM NoNodeIsStranded == HDSpec => []NothingStranded
<1>1. HDInv /\ FrameInv => NothingStranded
  BY DEF HDInv, IInv, KeptInv, FrameInv, NothingStranded
<1> QED
  BY <1>1, NodeInvariance, PTL

(* No step of any thread changes a node that was returned to the program.  *)
THEOREM PublishedIsFixed == HDSpec => PublishedNeverChanges
<1>1. ASSUME HDInv, FrameInv, NodeInv, [HDNext]_allVars, NEW h \in published
      PROVE  node'[h] = node[h]
  <2>1. /\ h \in Handles /\ obj[h] # "none" /\ h \in DOMAIN node
        /\ \A t \in Threads : child[t] \in Handles => child[t] # h
        /\ child \in [Threads -> Handles \cup {NoHandle}]
    BY <1>1 DEF FrameInv, NodeInv, HDInv, ChildInv, IInv, OwnInv
  <2>2. ASSUME NEW t \in Threads, NEW g \in Handles, CopyReturns(t, g)
        PROVE  node'[h] = node[h]
    BY <2>1, <2>2 DEF CopyReturns, LeaveCWithNew
  <2>3. ASSUME NEW t \in Threads, FillSucceeds(t) \/ FillFails(t)
        PROVE  node'[h] = node[h]
    BY <2>1, <2>3 DEF FillSucceeds, FillFails
  <2>4. ASSUME NEW t \in Threads, Method(t) \/ InterruptMethod(t)
        PROVE  node'[h] = node[h]
    BY <2>2, <2>3, <2>4
    DEF Method, InterruptMethod, WrapNode, CallOnChild, Pass, Refuse,
        CopyFails, CallReturns, FreeChild, FreeGoesOn, Unwind, hdVars
  <2>5. ASSUME NEW t \in Threads, NEW u \in Threads, NEW g \in Handles,
               CallMethod(t, g) \/ DropNode(t, g) \/ ShareNode(t, u, g)
        PROVE  node'[h] = node[h]
    BY <2>5
    DEF CallMethod, Construct, Call, CallFree, DropNode, ShareNode, hdVars
  <2>6. CASE ExitProgram \/ Runtime \/ UNCHANGED allVars
    BY <2>6 DEF ExitProgram, Runtime, hdVars, allVars
  <2> QED
    BY <1>1, <2>4, <2>5, <2>6 DEF HDNext
<1>2. HDInv /\ FrameInv /\ NodeInv /\ [HDNext]_allVars
        => [\A h \in published : node'[h] = node[h]]_allVars
  BY <1>1
<1> QED
  BY <1>2, NodeInvariance, PTL DEF HDSpec, PublishedNeverChanges
-----------------------------------------------------------------------------
(* In a confined program no two threads are in C with one node, so no copy *)
(* is torn.                                                                *)
WholeInv ==
  /\ \A t \in Threads :
       pc[t] \in UsePC /\ op[t] \in OnSelf /\ child[t] = NoHandle
         => arg[t] = self[t]
  /\ \A h \in Handles : node[h].state # "torn"

LEMMA CopiesAreWhole ==
  ASSUME Confined, HDInv, FrameInv, NodeInv, QuietInv, WholeInv,
         [HDNext]_allVars
  PROVE  WholeInv'
<1> DEFINE Using(t) == pc[t] \in UsePC /\ op[t] \in OnSelf /\ child[t] = NoHandle
<1>1. /\ TypeOK /\ OpInv /\ OwnInv
      /\ op \in [Threads -> Ops]
      /\ self \in [Threads -> Handles \cup {NoHandle}]
      /\ child \in [Threads -> Handles \cup {NoHandle}]
      /\ node \in [Handles -> Nodes]
  BY DEF HDInv, IInv, ChildInv, FrameInv, NodeInv
<1>2. ASSUME NEW t \in Threads, NEW h \in Handles, CopyReturns(t, h)
      PROVE  WholeInv'
  <2>1. ASSUME NEW u \in Threads, op[u] = "fill", pc[u] = "incall",
               self[u] = self[t]
        PROVE  FALSE
    <3>1. /\ pc[t] = "incall" /\ op[t] \in CopyFirst /\ child[t] = NoHandle
          /\ child[u] = NoHandle
      BY <1>2, <2>1 DEF CopyReturns, LeaveCWithNew, FrameInv, Simple
    <3>2. arg[t] = self[t] /\ arg[u] = self[u]
      BY <2>1, <3>1 DEF WholeInv, UsePC, OnSelf, CopyFirst
    <3>3. arg[t] \in Handles /\ t \in Holders[arg[t]] /\ u \in Holders[arg[t]]
      BY <1>1, <2>1, <3>1, <3>2 DEF OpInv, QuietInv, UsePC
    <3> QED
      BY <2>1, <3>1, <3>3 DEF Confined, CopyFirst
  <2>2. node[self[t]].state # "torn"
    BY <1>2 DEF CopyReturns, FrameInv, WholeInv, CopyFirst, OnSelf
  <2>3. node' = [node EXCEPT ![h] = node[self[t]]]
    BY <1>2, <2>1 DEF CopyReturns
  <2>4. \A g \in Handles : node'[g].state # "torn"
    BY <1>1, <2>2, <2>3 DEF WholeInv
  <2>5. /\ pc' = [pc EXCEPT ![t] = "wrap"] /\ arg' = [arg EXCEPT ![t] = h]
        /\ UNCHANGED <<op, child, self>>
    BY <1>2 DEF CopyReturns, LeaveCWithNew
  <2> QED
    BY <1>1, <2>4, <2>5 DEF WholeInv, TypeOK, UsePC
<1>3. ASSUME NEW t \in Threads, FillSucceeds(t) \/ FillFails(t)
      PROVE  WholeInv'
  <2>1. \A n \in Nodes : /\ Deeper(n).state = n.state
                         /\ [n EXCEPT !.state = "partial"].state = "partial"
    BY DEF Nodes, Deeper
  <2>2. child[t] \in Handles
    BY <1>1, <1>3 DEF FillSucceeds, FillFails
  <2>3. \A h \in Handles : node'[h].state # "torn"
    <3>1. CASE FillFails(t)
      <4>1. /\ node'[child[t]] = [node[child[t]] EXCEPT !.state = "partial"]
            /\ \A h \in Handles \ {child[t]} : node'[h] = node[h]
        BY <1>1, <2>2, <3>1 DEF FillFails
      <4>2. node[child[t]] \in Nodes
        BY <1>1, <2>2
      <4>3. node'[child[t]].state = "partial"
        BY <2>1, <4>1, <4>2
      <4> QED
        BY <4>1, <4>3 DEF WholeInv
    <3>2. CASE FillSucceeds(t) /\ op[t] = "derive"
      BY <1>1, <2>1, <2>2, <3>2 DEF FillSucceeds, WholeInv
    <3>3. CASE FillSucceeds(t) /\ op[t] # "derive"
      BY <1>1, <2>2, <3>3 DEF FillSucceeds, WholeInv
    <3> QED
      BY <1>3, <3>1, <3>2, <3>3
  <2>4. /\ pc' = [pc EXCEPT ![t] = "idle"]
        /\ \A u \in Threads \ {t} : /\ op'[u] = op[u] /\ self'[u] = self[u]
                                    /\ child'[u] = child[u] /\ arg'[u] = arg[u]
    BY <1>1, <1>3
    DEF FillSucceeds, FillFails, LeaveC, Finish, Become, Return, ClearFrame,
        TypeOK
  <2> QED
    BY <1>1, <2>3, <2>4 DEF WholeInv, TypeOK, UsePC
<1>4. ASSUME node' = node,
             \A u \in Threads : Using(u)' => arg'[u] = self'[u]
      PROVE  WholeInv'
  BY <1>4 DEF WholeInv
<1>5. ASSUME NEW t \in Threads,
             WrapNode(t) \/ CallOnChild(t) \/ Pass(t) \/ Refuse(t)
               \/ CopyFails(t) \/ CallReturns(t) \/ InterruptMethod(t)
               \/ FreeChild(t) \/ FreeGoesOn(t) \/ Unwind(t)
      PROVE  WholeInv'
  <2>1. node' = node
    BY <1>5
    DEF WrapNode, CallOnChild, Pass, Refuse, CopyFails, CallReturns,
        InterruptMethod, FreeChild, FreeGoesOn, Unwind, hdVars
  <2>2. \A u \in Threads \ {t} :
          /\ pc'[u] = pc[u] /\ arg'[u] = arg[u] /\ op'[u] = op[u]
          /\ self'[u] = self[u] /\ child'[u] = child[u]
    BY <1>1, <1>5
    DEF WrapNode, Wrap, CallOnChild, Invoke, Start, Pass, Refuse, CheckFreed,
        ReadPtr, RefuseArgument, EnterC, CopyFails, CallReturns, LeaveC,
        InterruptMethod, Interrupt, FreeChild, InvokeFree, FreeGoesOn,
        FreeStep, FreeCheck, FreeMark, FreeFinalize, FreeCalls, FreeReturn,
        FreeClear, Unwind, Drop, Goto, Finish, Become, Return, ClearFrame,
        TypeOK, hdVars, vars
  <2>3. Using(t)' => arg'[t] = self'[t]
    <3>1. CASE Pass(t)
      BY <1>1, <3>1
      DEF Pass, CheckFreed, ReadPtr, RefuseArgument, EnterC, Goto, Finish,
          TypeOK, UsePC, WholeInv, hdVars
    <3>2. CASE WrapNode(t) \/ Refuse(t) \/ CopyFails(t) \/ CallReturns(t)
                 \/ InterruptMethod(t)
      BY <1>1, <3>2
      DEF WrapNode, Wrap, Refuse, CheckFreed, ReadPtr, RefuseArgument,
          CopyFails, CallReturns, LeaveC, InterruptMethod, Interrupt, Goto,
          Finish, TypeOK, UsePC
    <3>3. CASE CallOnChild(t) \/ FreeChild(t)
      BY <1>1, <3>3
      DEF CallOnChild, FreeChild, Become, OnSelf, InPlace, hdVars
    <3>4. CASE FreeGoesOn(t)
      BY <1>1, <3>4
      DEF FreeGoesOn, FreeStep, FreeCheck, FreeMark, FreeFinalize, FreeCalls,
          FreeReturn, FreeClear, Goto, Finish, TypeOK, UsePC
    <3>5. CASE Unwind(t)
      BY <1>1, <3>5 DEF Unwind, Become, OnSelf
    <3> QED
      BY <1>5, <3>1, <3>2, <3>3, <3>4, <3>5
  <2> QED
    BY <1>4, <2>1, <2>2, <2>3 DEF WholeInv
<1>6. ASSUME NEW t \in Threads, NEW h \in Handles, CallMethod(t, h)
      PROVE  WholeInv'
  BY <1>1, <1>6
  DEF CallMethod, Construct, Call, CallFree, Alloc, Invoke, InvokeFree, Start,
      Become, TypeOK, UsePC, OnSelf, Builders, WholeInv
<1>7. ASSUME NEW t \in Threads, NEW u \in Threads, NEW h \in Handles,
             DropNode(t, h) \/ ShareNode(t, u, h)
      PROVE  WholeInv'
  BY <1>4, <1>7 DEF DropNode, Drop, ShareNode, Share, hdVars, WholeInv
<1>8. CASE ExitProgram
  BY <1>1, <1>4, <1>8, ThreadAssumption
  DEF ExitProgram, BeginExit, hdVars, TypeOK, UsePC, WholeInv
<1>9. CASE Runtime
  BY <1>1, <1>4, <1>9, ThreadAssumption
  DEF Runtime, ExitStep, ExitCalls, ExitReturn, ExitLoopEnds, ExitShutdown,
      ExitFinalize, ExitHookInterrupt, ExitInterrupted, ShutdownInterrupted,
      CollectStep, CFreeEnd, Collect, CollectPops, CollectCalls,
      CollectInterrupted, Goto, Finish, hdVars, TypeOK, UsePC, WholeInv
<1>10. CASE UNCHANGED allVars
  BY <1>4, <1>10 DEF allVars, WholeInv
<1> QED
  BY <1>2, <1>3, <1>5, <1>6, <1>7, <1>8, <1>9, <1>10 DEF HDNext, Method

(* A node in the hands of the program is complete, empty, or, if threads   *)
(* share nodes, a torn copy: never one that a failed call left half done.  *)
THEOREM PublishedAreComplete == HDSpec => []PublishedIsComplete
<1>1. CASE ~Confined
  <2>1. NodeInv => PublishedIsComplete
    BY <1>1 DEF NodeInv, Good, PublishedIsComplete
  <2> QED
    BY <2>1, NodeInvariance, PTL
<1>2. CASE Confined
  <2>1. HDInit => WholeInv
    BY DEF HDInit, Init, WholeInv, UsePC, EmptyNode
  <2>2. HDSpec => []QuietInv
    BY NodesImplementHandles, QuietInvariance, PTL DEF ImplementsHandle
  <2>3. /\ HDInv /\ FrameInv /\ NodeInv /\ QuietInv
        /\ WholeInv /\ [HDNext]_allVars
        => WholeInv'
    BY <1>2, CopiesAreWhole
  <2>4. FrameInv /\ NodeInv /\ WholeInv => PublishedIsComplete
    BY DEF FrameInv, NodeInv, WholeInv, Good, PublishedIsComplete
  <2> QED
    BY <2>1, <2>2, <2>3, <2>4, NodeInvariance, PTL DEF HDSpec
<1> QED
  BY <1>1, <1>2
-----------------------------------------------------------------------------
(* The methods of a joined thread run before the exit only, and the node   *)
(* that one builds keeps its finalizer until the method itself frees it.   *)
BuiltBy(t) ==
  /\ op[t] # "none" => phase = "run"
  /\ child[t] \in Handles /\ op[t] \in InPlace \cup {"failed"}
       => child[t] \in registry
  /\ op[t] = "freeing" =>
       /\ child[t] \in Handles /\ arg[t] = child[t] /\ pc[t] \in FreePC
       /\ pc[t] \in {"fcheck", "fmark", "ffinal"} => child[t] \in registry
       /\ pc[t] = "fclear" => obj[child[t]] = "freed"

BuiltInv ==
  /\ \A t \in Threads : child[t] \in Handles => t \in refs[child[t]]
  /\ \A t \in Joined : BuiltBy(t)

LEMMA BuiltIsKept ==
  ASSUME HDInv, FrameInv, BuiltInv, [HDNext]_allVars
  PROVE  BuiltInv'
<1>1. /\ TypeOK /\ OpInv /\ HandInv /\ OwnInv /\ ExitInv
      /\ op \in [Threads -> Ops]
      /\ child \in [Threads -> Handles \cup {NoHandle}]
      /\ \A t \in Threads : op[t] = "failed" => child[t] \in Handles
      /\ \A t \in Threads : op[t] = "none" => child[t] \notin Handles
      /\ \A t \in Threads : pc[t] \in {"wrap"} \cup UsePC
           => op[t] \notin {"none", "free", "failed", "freeing", "raise"}
      /\ \A t \in Threads : pc[t] \in FreePC => op[t] \in {"free", "freeing"}
  BY HandleAssumption
  DEF HDInv, IInv, ChildInv, FrameInv, Simple, Builders, OnSelf
<1>2. /\ Joined \subseteq Threads \ Daemons
      /\ \A u \in Joined : Running(u) => phase = "run"
      /\ \A t \in Threads : child[t] \in Handles => refs[child[t]] = {t}
  BY <1>1, ThreadAssumption
  DEF TypeOK, Joined, Running, FrameInv, BuiltInv
<1>3. ASSUME NEW t \in Threads, WrapNode(t)
      PROVE  BuiltInv'
  <2>1. /\ pc[t] = "wrap" /\ arg[t] \in Handles /\ py[arg[t]] = "unborn"
        /\ obj[arg[t]] = "live" /\ child[t] = NoHandle
        /\ \A u \in Threads : child[u] # arg[t]
    BY <1>1, <1>3, HandleAssumption
    DEF WrapNode, Wrap, Finish, OpInv, FrameInv
  <2>2. /\ pc' = [pc EXCEPT ![t] = "idle"]
        /\ arg' = [arg EXCEPT ![t] = NoHandle]
        /\ registry' = registry \cup {arg[t]}
        /\ refs' = [refs EXCEPT ![arg[t]] = {t}]
        /\ obj' = obj /\ phase' = phase
    BY <1>3 DEF WrapNode, Wrap, Finish, cVars
  <2>3. CASE op[t] \in InPlace
    <3>1. child' = [child EXCEPT ![t] = arg[t]] /\ op' = op
      BY <1>3, <2>3 DEF WrapNode
    <3> QED
      BY <1>1, <2>1, <2>2, <2>3, <3>1 DEF BuiltInv, BuiltBy, TypeOK, InPlace
  <2>4. CASE op[t] \notin InPlace
    <3>1. /\ child' = [child EXCEPT ![t] = NoHandle]
          /\ op' = [op EXCEPT ![t] = "none"]
      BY <1>3, <2>4 DEF WrapNode, Return, Become, ClearFrame
    <3> QED
      BY <1>1, <2>1, <2>2, <2>4, <3>1, HandleAssumption
      DEF BuiltInv, BuiltBy, TypeOK
  <2> QED
    BY <2>3, <2>4
<1>4. ASSUME NEW t \in Threads,
             CallOnChild(t) \/ Pass(t) \/ Refuse(t) \/ CopyFails(t)
               \/ CallReturns(t) \/ FillSucceeds(t) \/ FillFails(t)
      PROVE  BuiltInv'
  <2>1. /\ UNCHANGED <<obj, registry, refs, phase>>
        /\ op[t] # "freeing" /\ op[t] # "none"
        /\ \A u \in Threads \ {t} :
             /\ pc'[u] = pc[u] /\ arg'[u] = arg[u]
             /\ op'[u] = op[u] /\ child'[u] = child[u]
    BY <1>1, <1>4
    DEF CallOnChild, Invoke, Start, Pass, Refuse, CheckFreed, ReadPtr,
        RefuseArgument, EnterC, CopyFails, CallReturns, LeaveC, FillSucceeds,
        FillFails, Goto, Finish, Become, Return, ClearFrame, InPlace, OnSelf,
        CopyFirst, BuiltInv, UsePC, FreePC, TypeOK, hdVars, cVars, pyVars,
        finVars
  <2>2. \/ op'[t] = op[t] /\ child'[t] = child[t]
        \/ op'[t] = "raise" /\ child'[t] = child[t]
        \/ op'[t] = "none" /\ child'[t] = NoHandle
        \/ op'[t] = "failed" /\ child'[t] = child[t] /\ op[t] \in InPlace
    BY <1>1, <1>4
    DEF CallOnChild, Pass, Refuse, CopyFails, CallReturns, FillSucceeds,
        FillFails, Become, Return, ClearFrame, hdVars
  <2>3. ASSUME NEW u \in Joined
        PROVE  BuiltBy(u)'
    <3>1. CASE u = t
      BY <1>1, <2>1, <2>2, <2>3, <3>1, HandleAssumption
      DEF BuiltInv, BuiltBy, InPlace
    <3>2. CASE u # t
      BY <1>2, <2>1, <2>3, <3>2 DEF BuiltInv, BuiltBy
    <3> QED
      BY <3>1, <3>2
  <2>4. ASSUME NEW u \in Threads, child'[u] \in Handles
        PROVE  u \in refs'[child'[u]]
    BY <1>1, <2>1, <2>2, <2>4, HandleAssumption DEF BuiltInv
  <2> QED
    BY <2>3, <2>4 DEF BuiltInv
<1>5. ASSUME NEW t \in Threads, InterruptMethod(t)
      PROVE  BuiltInv'
  BY <1>1, <1>5
  DEF InterruptMethod, Interrupt, Finish, Become, InPlace, BuiltInv, BuiltBy,
      TypeOK, UsePC, FreePC, cVars, pyVars, finVars
<1>6. ASSUME NEW t \in Threads, NEW h \in Handles, CopyReturns(t, h)
      PROVE  BuiltInv'
  BY <1>1, <1>6
  DEF CopyReturns, LeaveCWithNew, BuiltInv, BuiltBy, CopyFirst, FreePC,
      InPlace, TypeOK, pyVars, finVars
<1>7. ASSUME NEW t \in Threads, FreeChild(t)
      PROVE  BuiltInv'
  BY <1>1, <1>7
  DEF FreeChild, InvokeFree, Start, Become, BuiltInv, BuiltBy, InPlace, FreePC,
      TypeOK, cVars, pyVars, finVars
<1>8. ASSUME NEW t \in Threads, FreeGoesOn(t)
      PROVE  BuiltInv'
  <2>1. /\ pc[t] \in FreePC /\ op[t] \in {"free", "freeing"}
        /\ t \in Joined => phase = "run" /\ ~shutdown
        /\ UNCHANGED <<refs, phase>>
    BY <1>1, <1>8
    DEF FreeGoesOn, FreeStep, FreeCheck, FreeMark, FreeFinalize, FreeCalls,
        FreeReturn, FreeClear, Goto, Finish, FreePC, BuiltInv, BuiltBy,
        ExitInv, pyVars, finVars
  <2>2. /\ op[t] = "freeing" => child'[t] = child[t]
        /\ op[t] = "free" => child'[t] \notin Handles
        /\ \/ op'[t] = op[t] /\ pc'[t] # "idle" /\ child'[t] = child[t]
           \/ op'[t] \in {"none", "raise"}
        /\ \A u \in Threads \ {t} : op'[u] = op[u] /\ child'[u] = child[u]
    BY <1>1, <1>8, <2>1, HandleAssumption
    DEF FreeGoesOn, Become, Return, ClearFrame, FrameInv, Simple
  <2>3. /\ \A h \in Handles : obj[h] = "freed" => obj'[h] = "freed"
        /\ \A h \in registry : h # arg[t] => h \in registry'
        /\ \A u \in Threads \ {t} : pc'[u] = pc[u] /\ arg'[u] = arg[u]
    BY <1>1, <1>8
    DEF FreeGoesOn, FreeStep, FreeCheck, FreeMark, FreeFinalize, FreeCalls,
        FreeReturn, FreeClear, Pop, Registered, CallFreeFn, Goto, Finish,
        TypeOK, HandInv, Hands, cVars, finVars
  <2>4. \A u \in Threads \ {t} : child[u] \in Handles => child[u] # arg[t]
    BY <1>1, <1>2, <2>1 DEF OpInv
  <2>5. ASSUME t \in Joined, op[t] = "freeing", pc'[t] # "idle"
        PROVE  /\ arg'[t] = child[t] /\ pc'[t] \in FreePC
               /\ pc'[t] \in {"fcheck", "fmark", "ffinal"}
                    => child[t] \in registry'
               /\ pc'[t] = "fclear" => obj'[child[t]] = "freed"
    BY <1>1, <1>8, <2>1, <2>5
    DEF FreeGoesOn, FreeStep, FreeCheck, FreeMark, FreeFinalize, FreeCalls,
        FreeReturn, FreeClear, Pop, Registered, CallFreeFn, Goto, Finish,
        TypeOK, FreePC, BuiltInv, BuiltBy, cVars, finVars
  <2>6. ASSUME NEW u \in Joined \ {t}
        PROVE  BuiltBy(u)'
    BY <1>2, <2>1, <2>2, <2>3, <2>4, <2>6 DEF BuiltInv, BuiltBy
  <2>7. ASSUME t \in Joined
        PROVE  BuiltBy(t)'
    BY <1>1, <2>1, <2>2, <2>5, <2>7 DEF BuiltInv, BuiltBy, InPlace
  <2>8. ASSUME NEW u \in Threads, child'[u] \in Handles
        PROVE  u \in refs'[child'[u]]
    BY <1>1, <2>1, <2>2, <2>8, HandleAssumption DEF BuiltInv, BuiltBy
  <2> QED
    BY <2>6, <2>7, <2>8 DEF BuiltInv, BuiltBy
<1>9. ASSUME NEW t \in Threads, Unwind(t)
      PROVE  BuiltInv'
  BY <1>1, <1>2, <1>9, HandleAssumption
  DEF Unwind, Drop, Become, ClearFrame, BuiltInv, BuiltBy, InPlace, TypeOK,
      vars, cVars, finVars
<1>10. ASSUME NEW t \in Threads, NEW h \in Handles, CallMethod(t, h)
      PROVE  BuiltInv'
  <2>3. Running(t) /\ op[t] = "none" /\ child[t] = NoHandle
    BY <1>10
    DEF CallMethod, Construct, Call, CallFree, Alloc, Invoke, InvokeFree,
        Start, FrameInv, Simple
  <2>4. t \in Joined => phase = "run"
    BY <1>2, <2>3
  <2>5. PICK o \in Ops \ {"none", "freeing", "failed"} :
          op' = [op EXCEPT ![t] = o]
    BY <1>10
    DEF CallMethod, Construct, Call, CallFree, Become, Ops, Builders, OnSelf
  <2>6. /\ UNCHANGED <<child, registry, refs, phase>>
        /\ \A g \in Handles : obj[g] = "freed" => obj'[g] = "freed"
        /\ \A u \in Threads \ {t} : pc'[u] = pc[u] /\ arg'[u] = arg[u]
    BY <1>1, <1>10
    DEF CallMethod, Construct, Call, CallFree, Alloc, Invoke, InvokeFree,
        Start, TypeOK, cVars, pyVars, finVars
  <2> QED
    BY <1>1, <1>2, <2>3, <2>4, <2>5, <2>6, HandleAssumption
    DEF BuiltInv, BuiltBy, InPlace
<1>11. ASSUME NEW t \in Threads, NEW u \in Threads, NEW h \in Handles,
              DropNode(t, h) \/ ShareNode(t, u, h)
      PROVE  BuiltInv'
  BY <1>1, <1>11
  DEF DropNode, Drop, ShareNode, Share, BuiltInv, BuiltBy, TypeOK, hdVars,
      cVars, finVars
<1>12. CASE ExitProgram
  <2>1. \A t \in Joined : op[t] = "none"
    BY <1>2, <1>12 DEF ExitProgram
  <2> QED
    BY <1>1, <1>2, <1>12, <2>1
    DEF ExitProgram, BeginExit, BuiltInv, BuiltBy, InPlace, hdVars, cVars,
        pyVars
<1>13. CASE Runtime
  <2>1. CASE ExitStep \/ ExitHookInterrupt
    <3>1. \A u \in Joined : op[u] = "none"
      BY <1>1, <1>2, <2>1, ThreadAssumption
      DEF ExitStep, ExitCalls, ExitReturn, ExitLoopEnds, ExitShutdown,
          ExitFinalize, ExitHookInterrupt, ExitInterrupted,
          ShutdownInterrupted, Goto, Finish, ExitInv, ExitPC, BuiltInv, BuiltBy
    <3>2. UNCHANGED <<refs, op, child>>
      BY <1>13, <2>1
      DEF Runtime, ExitStep, ExitCalls, ExitReturn, ExitLoopEnds, ExitShutdown,
          ExitFinalize, ExitHookInterrupt, ExitInterrupted,
          ShutdownInterrupted, hdVars, pyVars
    <3> QED
      BY <3>1, <3>2 DEF BuiltInv, BuiltBy, InPlace
  <2>2. CASE \E h \in Handles : CFreeEnd(h)
    BY <1>1, <1>13, <2>2
    DEF Runtime, CFreeEnd, BuiltInv, BuiltBy, TypeOK, hdVars, pyVars, finVars
  <2>3. ASSUME NEW h \in Handles,
               \/ Collect(h) \/ CollectPops(h) \/ CollectCalls(h)
               \/ CollectInterrupted(h)
        PROVE  BuiltInv'
    <3>1. /\ refs[h] = {} /\ registry \ {h} \subseteq registry'
          /\ \A g \in Handles : obj[g] = "freed" => obj'[g] = "freed"
          /\ UNCHANGED <<refs, phase, pc, arg>>
      BY <1>1, <2>3
      DEF Collect, CollectPops, CollectCalls, CollectInterrupted, Pop,
          CallFreeFn, TypeOK, OwnInv, cVars, pyVars
    <3> QED
      BY <1>2, <1>13, <3>1 DEF Runtime, BuiltInv, BuiltBy, hdVars
  <2> QED
    BY <1>13, <2>1, <2>2, <2>3 DEF Runtime, CollectStep
<1>14. CASE UNCHANGED allVars
  BY <1>14 DEF allVars, BuiltInv, BuiltBy
<1> QED
  BY <1>3, <1>4, <1>5, <1>6, <1>7, <1>8, <1>9, <1>10, <1>11, <1>12, <1>13,
     <1>14
  DEF HDNext, Method

(* In a thread that is joined, a constructor or derivation in which C      *)
(* reports a failure has freed the object it had made before HandleError   *)
(* reaches the caller, unless the program is interrupted there.            *)
THEOREM FailuresFreeFirst == HDSpec => FailureFreesFirst
<1> DEFINE Raises(t) == /\ op[t] \in {"failed", "freeing"} /\ op'[t] = "raise"
                        /\ pc[t] \in {"idle", "fclear"}
           AllInv == HDInv /\ FrameInv /\ NodeInv /\ BuiltInv
<1>1. ASSUME AllInv, [HDNext]_allVars, NEW t \in Joined, Raises(t)
      PROVE  obj[child[t]] = "freed"
  <2>1. /\ t \in Threads /\ op \in [Threads -> Ops]
        /\ pc[t] \in FreePC => op[t] \in {"free", "freeing"}
        /\ pc[t] = "idle" \/ op[t] = "freeing"
    BY <1>1 DEF HDInv, ChildInv, FrameInv, FreePC, Joined
  <2>2. CASE op[t] = "freeing"
    BY <1>1, <2>2 DEF BuiltInv, BuiltBy, FreePC
  <2>3. CASE op[t] = "failed" /\ pc[t] = "idle"
    <3>1. ~InterruptMethod(t) /\ ~Refuse(t) /\ ~CopyFails(t) /\ ~FreeGoesOn(t)
      BY <2>3
      DEF InterruptMethod, Interrupt, Refuse, CheckFreed, ReadPtr,
          RefuseArgument, CopyFails, LeaveC, FreeGoesOn, FreeStep, FreeCheck,
          FreeMark, FreeFinalize, FreeCalls, FreeReturn, FreeClear, Goto,
          Finish
    <3>2. ASSUME NEW u \in Threads, Method(u) \/ InterruptMethod(u)
          PROVE  op'[t] # "raise"
      BY <2>1, <2>3, <3>1, <3>2
      DEF Method, InterruptMethod, WrapNode, CallOnChild, Pass, Refuse,
          CopyFails, CopyReturns, CallReturns, FillSucceeds, FillFails,
          FreeChild, FreeGoesOn, Unwind, Become, Return, hdVars
    <3>3. ASSUME NEW u \in Threads, NEW v \in Threads, NEW g \in Handles,
                 CallMethod(u, g) \/ DropNode(u, g) \/ ShareNode(u, v, g)
          PROVE  op'[t] # "raise"
      BY <2>1, <2>3, <3>3
      DEF CallMethod, Construct, Call, CallFree, DropNode, ShareNode, Become,
          Builders, OnSelf, hdVars
    <3>4. CASE ExitProgram \/ Runtime \/ UNCHANGED allVars
      BY <1>1, <2>3, <3>4 DEF ExitProgram, Runtime, hdVars, allVars
    <3> QED
      BY <1>1, <3>2, <3>3, <3>4 DEF HDNext
  <2> QED
    BY <1>1, <2>1, <2>2, <2>3
<1>2. HDInit => BuiltInv
  BY HandleAssumption DEF HDInit, Init, BuiltInv, BuiltBy, Joined, InPlace
<1>4. HDInv /\ FrameInv /\ BuiltInv /\ [HDNext]_allVars => BuiltInv'
  BY BuiltIsKept
<1>5. AllInv /\ [HDNext]_allVars
        => [\A t \in Joined :
              op[t] \in {"failed", "freeing"} /\ op'[t] = "raise"
                  /\ pc[t] \in {"idle", "fclear"}
                => obj[child[t]] = "freed"]_allVars
  BY <1>1
<1> QED
  BY <1>2, <1>4, <1>5, NodeInvariance, PTL DEF HDSpec, FailureFreesFirst
=============================================================================
