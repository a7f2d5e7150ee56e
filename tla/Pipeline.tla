------------------------------ MODULE Pipeline ------------------------------
(***************************************************************************)
(* fetch.py (module Fetch) and the builds (python/_build.py, module        *)
(* Surface) in one tree: a build starts from the lib/libdogecoin.a and the *)
(* include/libdogecoin.h that the runs of fetch.py have left, whether they *)
(* ended, failed or were killed.  The two are commands of one shell, or    *)
(* steps of one CI job, and do not run at the same time; a program may     *)
(* import the last wheel at any time.                                      *)
(***************************************************************************)
EXTENDS Fetch

CONSTANTS
  Header,             (* include/libdogecoin.h                           *)
  Damaged,            (* what may be there of a file that is not whole   *)
  Functions, Declares, Exports, Unparsed, Skipped, Matched, Allowed,
  Preamble, CommittedCdef, CommittedManifest,           (* those of Surface *)
  None                (* no file, no wheel, no process                   *)

VARIABLES
  damage,     (* what there is of each file that is not whole            *)
  intree, cdef, manifest, step, text, ext, current, wheel,
  process,                                               (* of Surface   *)
  built       (* how the last build ended: the outcome of Surface        *)

build == <<intree, cdef, manifest, step, text, ext, current, wheel, process>>

(* A build can use a file that is as published, and a library that is for  *)
(* the host the build runs on.                                             *)
Whole(f) ==
  /\ installed[f].bytes = "good"
  /\ f = Lib => installed[f].host = Native

(* HEADER or LIBA of _build.py: absent, of a tag, or damaged.              *)
Seen(f) ==
  CASE installed[f] = Absent -> None
    [] Whole(f)              -> installed[f].tag
    [] OTHER                 -> damage[f]

Builder == INSTANCE Surface
  WITH Releases <- Tags, outcome <- built,
       header <- Seen(Header), archive <- Seen(Lib)

ASSUME PipelineAssumption ==
  /\ Header \in Headers
  /\ "none" \notin Tags
  /\ Damaged # {}
  /\ Builder!SurfaceAssumption

InitTree == Init /\ damage \in [Files -> Damaged] /\ Builder!Init

(* A step of fetch.py.  One that changes what a build starts from makes    *)
(* the end of the last build history.                                      *)
FetchStep ==
  /\ step = "idle"
  /\ \/ Next /\ UNCHANGED damage
     \/ \E f \in Files, d \in Damaged :
          /\ Replace(f) \/ CopyOpens(f) \/ CopyCloses(f)
          /\ damage' = [damage EXCEPT ![f] = d]
  /\ built' = IF Seen(Header)' = Seen(Header) /\ Seen(Lib)' = Seen(Lib)
              THEN built ELSE "none"
  /\ UNCHANGED build

(* A step of a build, or an import of what it has built.                   *)
BuildStep ==
  /\ UNCHANGED <<vars, damage>>
  /\ \/ /\ pc = "idle"
        /\ \/ Builder!StartBuild
           \/ Builder!WriteCdef \/ Builder!WriteManifest
           \/ Builder!GenerateFails
           \/ Builder!ReadCdef \/ Builder!ReadCdefFails
           \/ Builder!Reuse \/ Builder!Compile \/ Builder!CompileFails
           \/ Builder!Package \/ Builder!KillBuild
     \/ Builder!Import

NextInTree == FetchStep \/ BuildStep

TreeSpec == InitTree /\ [][NextInTree]_<<vars, damage, build, built>>
-----------------------------------------------------------------------------
(* Whenever a build is started, after any runs of fetch.py, it finds what  *)
(* Surface assumes: a header is only ever written beside the archive of    *)
(* the same run, which was there before it, and each of the two is absent, *)
(* whole and of that run's tag, or damaged.                                *)
FetchesForBuilds == Builder!Spec

(* The wheel of a tag: what its header declares and nothing holds back.    *)
WheelOf(t) ==
  LET names == Builder!Bound(Declares[t]) IN
  [ext |-> [bound |-> Preamble \cup names, header |-> t, archive |-> t,
            whole |-> TRUE],
   manifest |-> names]

(* fetch.py has said ready, after such a run for this host and such a tag. *)
Reliable ==
  /\ outcome = "ready" /\ Dependable /\ Checked
  /\ run.host = Native /\ intree /\ Builder!Supported(run.tag)

(* Then "ready in lib/ and include/" may be relied on: from there a build  *)
(* that ends by itself does not fail, and has linked the wheel of the      *)
(* requested tag, which can be imported, or has taken an extension from    *)
(* build/ with the same functions.  Nothing else of the runs and builds of *)
(* the past, for whatever tag or host, and whatever they failed at or were *)
(* killed in, shows in the wheel.                                          *)
ReadyBuilds ==
  Reliable =>
    /\ built # "failed"
    /\ built = "built" => wheel = WheelOf(run.tag)
    /\ built = "reused" =>
         /\ wheel.ext.bound = WheelOf(run.tag).ext.bound
         /\ wheel.manifest = WheelOf(run.tag).manifest
    /\ process # None /\ wheel = WheelOf(run.tag) => process.tier1
=============================================================================
