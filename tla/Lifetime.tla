------------------------------ MODULE Lifetime ------------------------------
(***************************************************************************)
(* What python/libdogecoin/_handle.py promises of the C object behind a    *)
(* handle, with no Python left in it: an object is created once, is used   *)
(* by C calls only while it is live, and is released once, at a moment     *)
(* when no C call is using it.                                             *)
(***************************************************************************)
CONSTANTS
  Threads,    (* the threads of the program                              *)
  Handles,    (* one C object per handle, named by the handle            *)
  NoHandle    (* stands for no object: the thread is in no C call        *)

VARIABLES
  life,       (* the state of each C object                              *)
  using       (* the object the C call of each thread works on           *)

lifeVars == <<life, using>>

LifeInit ==
  /\ life = [h \in Handles |-> "none"]
  /\ using = [t \in Threads |-> NoHandle]

InUse(h) == \E t \in Threads : using[t] = h

Create(h) ==
  /\ life[h] = "none"
  /\ life' = [life EXCEPT ![h] = "live"]
  /\ UNCHANGED using

BeginUse(t, h) ==
  /\ using[t] = NoHandle
  /\ life[h] = "live"
  /\ using' = [using EXCEPT ![t] = h]
  /\ UNCHANGED life

EndUse(t) ==
  /\ using[t] # NoHandle
  /\ using' = [using EXCEPT ![t] = NoHandle]
  /\ UNCHANGED life

(* A copy ends its use of the source and creates its result in one step.  *)
EndUseCreating(t, h) ==
  /\ using[t] # NoHandle
  /\ life[h] = "none"
  /\ using' = [using EXCEPT ![t] = NoHandle]
  /\ life' = [life EXCEPT ![h] = "live"]

Release(h) ==
  /\ life[h] = "live"
  /\ ~InUse(h)
  /\ life' = [life EXCEPT ![h] = "released"]
  /\ UNCHANGED using

LifeNext ==
  \/ \E h \in Handles : Create(h) \/ Release(h)
  \/ \E t \in Threads :
       \/ EndUse(t)
       \/ \E h \in Handles : BeginUse(t, h) \/ EndUseCreating(t, h)

LifeSpec == LifeInit /\ [][LifeNext]_lifeVars
=============================================================================
