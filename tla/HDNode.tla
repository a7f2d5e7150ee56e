------------------------------- MODULE HDNode -------------------------------
(***************************************************************************)
(* python/libdogecoin/_hdnode.py: the methods of HDNode, each a short      *)
(* program over the handle operations of module Handle.  A method keeps    *)
(* its receiver and the node it builds in its frame; an exception unwinds  *)
(* the frame.  What a C function computes is abstracted to the depth of    *)
(* the node and to whether its fields are complete.                        *)
(*                                                                         *)
(* An interrupt between two calls of a method has the effect of one at the *)
(* start of the next call, which Handle's Interrupt covers.                *)
(***************************************************************************)
EXTENDS Handle

VARIABLES
  op,         (* the method each thread runs, or what is left of it      *)
  self,       (* its receiver                                            *)
  child,      (* the node it has built and not returned yet              *)
  node,       (* the contents of each dogecoin_hdnode struct             *)
  published   (* the nodes that a method has returned to its caller      *)

hdVars  == <<op, self, child, node, published>>
allVars == <<obj, frees, py, cptr, freed, registry, shutdown, refs, dealloc,
             lost, phase, pc, arg, op, self, child, node, published>>

Builders  == {"new", "from_seed", "deserialize"}
OnSelf    == {"copy", "derive", "fill", "read"}
CopyFirst == {"copy", "derive"}
InPlace   == {"from_seed", "deserialize", "derive"}   \* then mutate the child
Ops == {"none", "free", "failed", "freeing", "raise"} \cup Builders \cup OnSelf

(* partial: a C function failed; torn: copied while another thread wrote.  *)
Nodes == [state : {"empty", "partial", "torn", "full"}, depth : Nat]
EmptyNode == [state |-> "empty", depth |-> 0]

HDTypeOK ==
  /\ TypeOK
  /\ op \in [Threads -> Ops]
  /\ self \in [Threads -> Handles \cup {NoHandle}]
  /\ child \in [Threads -> Handles \cup {NoHandle}]
  /\ node \in [Handles -> Nodes]
  /\ published \subseteq Handles

HDInit ==
  /\ Init
  /\ op = [t \in Threads |-> "none"]
  /\ self = [t \in Threads |-> NoHandle]
  /\ child = [t \in Threads |-> NoHandle]
  /\ node = [h \in Handles |-> EmptyNode]
  /\ published = {}

Become(t, o) == op' = [op EXCEPT ![t] = o]

ClearFrame(t) ==
  /\ self' = [self EXCEPT ![t] = NoHandle]
  /\ child' = [child EXCEPT ![t] = NoHandle]

(* The method returns, with its node if it built one.                      *)
Return(t, result) ==
  /\ Become(t, "none")
  /\ ClearFrame(t)
  /\ published' = published \cup result
-----------------------------------------------------------------------------
(* new, from_seed and deserialize begin with dogecoin_hdnode_new.          *)
Construct(t, o, h) ==
  /\ op[t] = "none"
  /\ Alloc(t, h)
  /\ Become(t, o)
  /\ UNCHANGED <<self, child, node, published>>

(* copy, derive_*, fill_public_key, and the methods that only read: the    *)
(* serializers, pub_hex, the struct fields and repr.                       *)
Call(t, o, h) ==
  /\ op[t] = "none"
  /\ Invoke(t, h)
  /\ Become(t, o)
  /\ self' = [self EXCEPT ![t] = h]
  /\ UNCHANGED <<child, node, published>>

CallFree(t, h) ==
  /\ op[t] = "none"
  /\ InvokeFree(t, h)
  /\ Become(t, "free")
  /\ self' = [self EXCEPT ![t] = h]
  /\ UNCHANGED <<child, node, published>>

(* HDNode(ptr): new and copy return the handle, the others go on with it.  *)
WrapNode(t) ==
  /\ Wrap(t)
  /\ IF op[t] \in InPlace
     THEN /\ child' = [child EXCEPT ![t] = arg[t]]
          /\ UNCHANGED <<op, self, published>>
     ELSE Return(t, {arg[t]})
  /\ UNCHANGED node

(* Mutant: the raw pointer is used instead of child._ptr.                  *)
CallOnRawChild(t) ==
  /\ op[t] \in InPlace
  /\ child[t] # NoHandle
  /\ Start(t, child[t], "incall")
  /\ UNCHANGED <<cVars, pyVars, finVars, hdVars>>

(* The C call that fills the new node starts with child._ptr.              *)
CallOnChild(t) ==
  /\ op[t] \in InPlace
  /\ child[t] # NoHandle
  /\ Invoke(t, child[t])
  /\ UNCHANGED hdVars

Pass(t) ==
  /\ CheckFreed(t) \/ ReadPtr(t) \/ EnterC(t)
  /\ pc'[t] # "idle"
  /\ UNCHANGED hdVars

(* UseAfterFreeError, TypeError for a pointer cleared meanwhile, or cffi   *)
(* refuses another argument: derive_private(2**32), a seed that is no      *)
(* bytes.  The exception leaves the method, and nobody calls child.free(). *)
(* (One that Python raises just before the call, as for len(seed), has the *)
(* effect of one raised here.)                                             *)
Refuse(t) ==
  /\ CheckFreed(t) \/ ReadPtr(t) \/ RefuseArgument(t)
  /\ pc'[t] = "idle"
  /\ Become(t, "raise")
  /\ UNCHANGED <<self, child, node, published>>

(* dogecoin_hdnode_copy has returned a new object, or NULL.  The copy is   *)
(* torn if another thread is writing the source at that moment.            *)
CopyReturns(t, h) ==
  /\ op[t] \in CopyFirst
  /\ child[t] = NoHandle
  /\ LeaveCWithNew(t, h)
  /\ \/ node' = [node EXCEPT ![h] = node[self[t]]]
     \/ /\ \E u \in Threads :
             op[u] = "fill" /\ pc[u] = "incall" /\ self[u] = self[t]
        /\ node' = [node EXCEPT ![h] = [node[self[t]] EXCEPT !.state = "torn"]]
  /\ UNCHANGED <<op, self, child, published>>

(* Mutant: copy() without the test for NULL.                               *)
CopyWrapsNull(t) ==
  /\ op[t] \in CopyFirst
  /\ child[t] = NoHandle
  /\ LeaveCWithNull(t)
  /\ UNCHANGED hdVars

CopyFails(t) ==
  /\ op[t] \in CopyFirst
  /\ child[t] = NoHandle
  /\ LeaveC(t)
  /\ Become(t, "raise")
  /\ UNCHANGED <<self, child, node, published>>

(* A reader or fill_public_key returns.                                    *)
CallReturns(t) ==
  /\ op[t] \in OnSelf \ CopyFirst
  /\ LeaveC(t)
  /\ Return(t, {})
  /\ UNCHANGED node

(* Mutant: derive_* runs the CKD function on the receiver.                 *)
FillChangesSelf(t) ==
  /\ op[t] \in InPlace
  /\ child[t] # NoHandle
  /\ LeaveC(t)
  /\ node' = IF op[t] = "derive"
             THEN [node EXCEPT ![self[t]].depth = @ + 1]
             ELSE [node EXCEPT ![child[t]] = [state |-> "full", depth |-> 0]]
  /\ Return(t, {child[t]})

(* The CKD functions turn a node into its child.                           *)
Deeper(n) == [n EXCEPT !.depth = @ + 1]

(* from_seed, deserialize or the CKD function succeeds...                  *)
FillSucceeds(t) ==
  LET h == child[t] IN
  /\ op[t] \in InPlace
  /\ h # NoHandle
  /\ LeaveC(t)
  /\ node' = [node EXCEPT ![h] =
                IF op[t] = "derive" THEN Deeper(node[h])
                ELSE [state |-> "full", depth |-> 0]]
  /\ Return(t, {h})

(* Mutant: the return code of the C function is ignored.                   *)
FillFailsUnseen(t) ==
  /\ op[t] \in InPlace
  /\ child[t] # NoHandle
  /\ LeaveC(t)
  /\ node' = [node EXCEPT ![child[t]].state = "partial"]
  /\ Return(t, {child[t]})

(* ... or fails: free the node, then raise HandleError.                    *)
FillFails(t) ==
  /\ op[t] \in InPlace
  /\ child[t] # NoHandle
  /\ LeaveC(t)
  /\ Become(t, "failed")
  /\ node' = [node EXCEPT ![child[t]].state = "partial"]
  /\ UNCHANGED <<self, child, published>>

(* Mutant: HandleError is raised without freeing the node first.           *)
RaiseFirst(t) ==
  /\ op[t] = "failed"
  /\ Become(t, "raise")
  /\ UNCHANGED <<vars, self, child, node, published>>

FreeChild(t) ==
  /\ op[t] = "failed"
  /\ InvokeFree(t, child[t])
  /\ Become(t, "freeing")
  /\ UNCHANGED <<self, child, node, published>>

FreeGoesOn(t) ==
  /\ FreeStep(t)
  /\ IF pc'[t] = "idle"
     THEN IF op[t] = "freeing"
          THEN Become(t, "raise") /\ UNCHANGED <<self, child, published>>
          ELSE Return(t, {})
     ELSE UNCHANGED <<op, self, child, published>>
  /\ UNCHANGED node

InterruptMethod(t) ==
  /\ Interrupt(t)
  /\ Become(t, "raise")
  /\ UNCHANGED <<self, child, node, published>>

(* Mutant: the exception keeps the frame and with it the node alive.       *)
UnwindKeeps(t) ==
  /\ op[t] = "raise"
  /\ Become(t, "none")
  /\ ClearFrame(t)
  /\ UNCHANGED <<vars, node, published>>

(* The exception leaves the frame, which drops the node built in it.       *)
Unwind(t) ==
  /\ op[t] = "raise"
  /\ IF child[t] # NoHandle
     THEN Drop(t, child[t])
     ELSE UNCHANGED vars
  /\ Become(t, "none")
  /\ ClearFrame(t)
  /\ UNCHANGED <<node, published>>
-----------------------------------------------------------------------------
(* What the program does with the nodes it was given.                      *)
ShareNode(t, u, h) ==
  /\ h \in published
  /\ Share(t, u, h)
  /\ UNCHANGED hdVars

DropNode(t, h) ==
  /\ h \notin {self[t], child[t]}
  /\ Drop(t, h)
  /\ UNCHANGED hdVars

ExitProgram ==
  /\ \A t \in Threads \ Daemons : op[t] = "none"
  /\ BeginExit
  /\ UNCHANGED hdVars

Runtime ==
  /\ \/ ExitStep \/ ExitHookInterrupt
     \/ \E h \in Handles : CollectStep(h) \/ CollectInterrupted(h)
  /\ UNCHANGED hdVars

Method(t) ==
  \/ WrapNode(t) \/ CallOnChild(t) \/ Pass(t) \/ Refuse(t)
  \/ CopyFails(t) \/ CallReturns(t) \/ FillSucceeds(t) \/ FillFails(t)
  \/ FreeChild(t) \/ FreeGoesOn(t) \/ Unwind(t)
  \/ \E h \in Handles : CopyReturns(t, h)

CallMethod(t, h) ==
  \/ \E o \in Builders : Construct(t, o, h)
  \/ \E o \in OnSelf : Call(t, o, h)
  \/ CallFree(t, h)

HDNext ==
  \/ \E t \in Threads : Method(t) \/ InterruptMethod(t)
  \/ \E t \in Threads, h \in Handles : CallMethod(t, h) \/ DropNode(t, h)
  \/ \E t, u \in Threads, h \in Handles : ShareNode(t, u, h)
  \/ ExitProgram \/ Runtime

HDSpec == HDInit /\ [][HDNext]_allVars
-----------------------------------------------------------------------------
(* "each derive_* returns a new, independently-owned node and never        *)
(* mutates the receiver": once a node was returned to the program, its     *)
(* place in the tree of keys never changes again, whatever is derived from *)
(* it.  (fill_public_key only adds the public key of the same node.)       *)
PublishedNeverChanges ==
  [][\A h \in published : node'[h] = node[h]]_allVars

(* No node is passed from one thread to another.                           *)
Confined == \A h \in Handles : \A t, u \in Holders[h] : t = u

(* A node that from_seed, deserialize or derive_* returns is complete; the *)
(* only other nodes in the program's hands are the empty ones of new() and *)
(* their copies, and, unless the program is confined, torn copies.         *)
PublishedIsComplete ==
  \A h \in published :
    node[h].state \in {"full", "empty"} \cup (IF Confined THEN {} ELSE {"torn"})

(* When a constructor or derivation raises because C reported a failure,   *)
(* the C object it had made is released already: no live object waits for  *)
(* the collector.  (Not so after an exception of another kind, see Refuse; *)
(* and in a thread beside the exit hook, the hook may be releasing it.)    *)
FailureFreesFirst ==
  [][\A t \in Joined :
       op[t] \in {"failed", "freeing"} /\ op'[t] = "raise"
           /\ pc[t] \in {"idle", "fclear"}
         => obj[child[t]] = "freed"]_allVars

(* No method, however it ends, leaves behind a live object that nobody     *)
(* will release, but for the objects that an interrupt has lost: an object *)
(* nobody refers to has its finalizer still to run, and a reference to one *)
(* is the caller's or that of the frame building it.                       *)
NothingStranded ==
  \A h \in Handles :
    obj[h] = "live" /\ h \notin lost =>
      /\ h \in registry \/ InFlight(h)
      /\ \A t \in refs[h] : h \in published \/ child[t] = h

(* Every method is built from handle operations only.                      *)
ImplementsHandle == Spec
=============================================================================
