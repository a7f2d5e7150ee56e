--------------------------- MODULE PipelineProofs ---------------------------
(***************************************************************************)
(* Every step of fetch.py is a FetchRelease of module Surface or leaves    *)
(* the archive and the header of a build alone, for any tags, hosts,       *)
(* releases that have a library, and command lines.  The induction needs   *)
(* to know that the library of a run is in place before its first header.  *)
(*                                                                         *)
(* So what is proved of Fetch and what is proved of Surface both hold in   *)
(* the common tree, and together they say that ready may be built from.    *)
(***************************************************************************)
EXTENDS Pipeline, FetchProofs

(* Every archive has the library.                                          *)
ArchivesHaveLib ==
  \A r \in Requests : ~Builds(r) => Lib \in Release[r.tag].packed

(* Every build makes it: "libdogecoin.a not found" is an error.            *)
BuildsMakeLib == \A r \in Requests : Builds(r) => Lib \in Release[r.tag].ships

OfThisRun(f) == installed[f].tag = run.tag /\ installed[f] \notin {Absent, Torn}

(* Where the library is while the two loops run.                           *)
LibFirst ==
  /\ pc = "replace" /\ Lib \notin left => OfThisRun(Lib)
  /\ pc = "copy" /\ Lib \in left => left = Published.ships
  /\ pc = "copy" /\ Lib \notin left => OfThisRun(Lib)
  /\ pc = "closing" =>
       /\ Lib \notin left
       /\ OfThisRun(Lib) \/ Published.ships \ left = {Lib}

(* The inductive invariant behind FetchesForBuilds.                        *)
LibInv == TypeInv /\ Passed /\ LibFirst

DamageOK == damage \in [Files -> Damaged]

(* What replaces a file is seen as the tag of the run, or as damaged.      *)
LEMMA SeenOfThisRun ==
  ASSUME NEW f \in Files, DamageOK, OfThisRun(f)
  PROVE  Seen(f) \in {run.tag} \cup Damaged
BY DEF Seen, OfThisRun, DamageOK

(* The library comes first in both loops.                                  *)
LEMMA NextLibFirst ==
  ASSUME ArchivesHaveLib, BuildsMakeLib, LibInv, [Next]_vars
  PROVE  LibFirst'
<1> USE DEF LibFirst
<1>0. /\ run \in Requests /\ run.tag \in Tags /\ run.host \in Hosts
      /\ DOMAIN installed = Files /\ got \in Digests
      /\ Lib \in Files
  BY FetchAssumption DEF LibInv, TypeInv, FetchTypeOK, Files
<1>1. CASE pc' \notin {"replace", "copy", "closing"}
  BY <1>1
<1>2. CASE Verify
  <2>1. Lib \in left'
    BY <1>0, <1>2 DEF Verify, Goto, Published, LibInv, Passed, ArchivesHaveLib
  <2> QED
    BY <1>2, <2>1 DEF Verify, Goto
<1>3. ASSUME NEW f \in Files, Replace(f) PROVE LibFirst'
  <2>1. /\ pc = "replace" /\ pc' = "replace" /\ left' = left \ {f}
        /\ run' = run /\ (f = Lib \/ Lib \notin left)
        /\ installed' = [installed EXCEPT ![f] =
             [tag |-> run.tag, host |-> run.host, bytes |-> got]]
    BY <1>3 DEF Replace
  <2>2. got \in {"good", "bad"}
    BY <1>0, <2>1 DEF LibInv, TypeInv, Obtained, Digests
  <2>3. CASE f = Lib
    BY <1>0, <2>1, <2>2, <2>3 DEF OfThisRun, Absent, Torn
  <2>4. CASE f # Lib
    BY <1>0, <2>1, <2>4 DEF LibInv, OfThisRun
  <2> QED
    BY <2>3, <2>4
<1>4. CASE Locate
  <2>1. pc' = "copy" /\ left' = Published.ships /\ Published' = Published
    BY <1>4 DEF Locate, Goto, Published
  <2>2. Lib \in Published.ships
    BY <1>0, <1>4
    DEF Locate, Goto, Published, LibInv, Passed, SourceSteps, BuildsMakeLib
  <2> QED
    BY <2>1, <2>2
<1>5. ASSUME NEW f \in Files, CopyOpens(f) PROVE LibFirst'
  <2>1. /\ pc = "copy" /\ pc' = "closing" /\ left' = left \ {f} /\ f \in left
        /\ run' = run /\ (f = Lib \/ Lib \notin left)
        /\ installed' = [installed EXCEPT ![f] = Torn]
        /\ Published' = Published
    BY <1>5 DEF CopyOpens, Goto, Published
  <2>2. CASE f = Lib
    BY <2>1, <2>2 DEF LibInv
  <2>3. CASE f # Lib
    BY <1>0, <2>1, <2>3 DEF LibInv, OfThisRun
  <2> QED
    BY <2>2, <2>3
<1>6. ASSUME NEW f \in Files, CopyCloses(f) PROVE LibFirst'
  <2> DEFINE from == IF f = Lib THEN Linked(tree[run.tag])
                                ELSE [host |-> run.host, bytes |-> got]
  <2>1. /\ pc = "closing" /\ pc' = "copy" /\ left' = left
        /\ run' = run /\ f \in Published.ships \ left
        /\ installed' = [installed EXCEPT ![f] =
             [tag |-> run.tag, host |-> from.host, bytes |-> from.bytes]]
    BY <1>6 DEF CopyCloses, Goto
  <2>2. CASE f = Lib
    <3>1. from.bytes \in {"good", "bad"}
      BY <2>2, LinkedTypes
    <3>2. installed'[Lib] =
            [tag |-> run.tag, host |-> from.host, bytes |-> from.bytes]
      BY <1>0, <2>1, <2>2
    <3> HIDE DEF from
    <3>3. OfThisRun(Lib)'
      BY <2>1, <3>1, <3>2 DEF OfThisRun, Absent, Torn
    <3> QED
      BY <2>1, <3>3 DEF LibInv
  <2>3. CASE f # Lib
    <3>1. OfThisRun(Lib) /\ installed'[Lib] = installed[Lib]
      BY <1>0, <2>1, <2>3 DEF LibInv
    <3> QED
      BY <2>1, <3>1 DEF LibInv, OfThisRun
  <2> QED
    BY <2>2, <2>3
<1>7. CASE UNCHANGED vars
  BY <1>7 DEF vars, LibInv, OfThisRun, Published
<1>8. ASSUME Next, ~Verify, ~Locate,
             ~\E f \in Files : Replace(f) \/ CopyOpens(f) \/ CopyCloses(f)
      PROVE  pc' \notin {"replace", "copy", "closing"}
  BY <1>8
  DEF Next, Start, ProbeFinds, ProbeNext, ProbeNone, HttpError, FetchBinary,
      FetchSums, FetchArchive, VerifyFails, BuildFromSource, FetchTarball,
      CheckPin, PinFails, Unpack, UnpackFails, Build, BuildFails,
      LocateFails, InstallEnds, ReplaceFails, CopyFails, Cleanup,
      CleanupFails, Kill, Goto, End
<1> QED
  BY <1>1, <1>2, <1>3, <1>4, <1>5, <1>6, <1>7, <1>8

treevars == <<vars, damage, build, built>>

(* What is proved of the builds.                                           *)
Proved == INSTANCE SurfaceProofs
  WITH Releases <- Tags, outcome <- built,
       header <- Seen(Header), archive <- Seen(Lib)

(* What a build sees of the installed files.                               *)
Starts == <<Seen(Header), Seen(Lib)>>

(* How a step of a run with that tag may change it.                        *)
Changes ==
  /\ Seen(Lib)' \in {run.tag} \cup Damaged
  /\ Seen(Header)' \in {Seen(Header), run.tag} \cup Damaged

(* A step that writes a file changes one, and to one of this run or torn.  *)
LEMMA WriteForBuilds ==
  ASSUME LibInv, DamageOK, NEW f \in Files,
         Replace(f) \/ CopyOpens(f) \/ CopyCloses(f),
         DamageOK', \A g \in Files \ {f} : damage'[g] = damage[g]
  PROVE  Changes
<1>0. /\ run \in Requests /\ run.tag \in Tags /\ got \in Digests
      /\ DOMAIN installed = Files
      /\ Lib \in Files /\ Header \in Files /\ Header # Lib
  BY FetchAssumption, PipelineAssumption
  DEF LibInv, TypeInv, FetchTypeOK, Files
<1>1. UNCHANGED run /\ \A g \in Files \ {f} : installed'[g] = installed[g]
  BY <1>0 DEF Replace, CopyOpens, CopyCloses
<1>2. installed'[f] = Torn \/ installed'[f].tag = run.tag
  <2>1. CASE Replace(f)
    BY <1>0, <2>1 DEF Replace
  <2>2. CASE CopyOpens(f)
    BY <1>0, <2>2 DEF CopyOpens
  <2>3. CASE CopyCloses(f)
    <3> DEFINE from == IF f = Lib THEN Linked(tree[run.tag])
                                  ELSE [host |-> run.host, bytes |-> got]
    <3>1. installed' = [installed EXCEPT ![f] =
            [tag |-> run.tag, host |-> from.host, bytes |-> from.bytes]]
      BY <2>3 DEF CopyCloses
    <3> HIDE DEF from
    <3> QED
      BY <1>0, <3>1
  <2> QED
    BY <2>1, <2>2, <2>3
<1>3. Seen(f)' \in {run.tag} \cup Damaged
  BY <1>0, <1>2, PipelineAssumption
  DEF Seen, Whole, Absent, Torn, DamageOK
<1>4. \A g \in Files \ {f} : Seen(g)' = Seen(g)
  BY <1>0, <1>1 DEF Seen, Whole
<1>5. f # Lib => Seen(Lib) \in {run.tag} \cup Damaged
  <2>1. f # Lib => OfThisRun(Lib)
    BY <1>0 DEF Replace, CopyOpens, CopyCloses, Goto, LibInv, LibFirst
  <2> QED
    BY <1>0, <2>1, SeenOfThisRun
<1> QED
  BY <1>0, <1>3, <1>4, <1>5 DEF Changes

(* Every other step of fetch.py leaves what a build sees as it was.        *)
LEMMA StepForBuilds ==
  ASSUME LibInv, DamageOK, Next, UNCHANGED damage
  PROVE  Changes \/ UNCHANGED Starts
<1>1. ASSUME NEW f \in Files, Replace(f) \/ CopyOpens(f) \/ CopyCloses(f)
      PROVE  Changes
  BY <1>1, WriteForBuilds DEF DamageOK
<1>2. ASSUME ~\E f \in Files : Replace(f) \/ CopyOpens(f) \/ CopyCloses(f)
      PROVE  UNCHANGED installed
  BY <1>2
  DEF Next, Start, ProbeFinds, ProbeNext, ProbeNone, HttpError, FetchBinary,
      FetchSums, FetchArchive, VerifyFails, Verify, ReplaceFails,
      BuildFromSource, FetchTarball, CheckPin, PinFails, Unpack, UnpackFails,
      Build, BuildFails, Locate, LocateFails, CopyFails, InstallEnds, Cleanup,
      CleanupFails, Kill, disk
<1>3. CASE UNCHANGED installed
  BY <1>3 DEF Seen, Whole, Starts
<1> QED
  BY <1>1, <1>2, <1>3

(* A step of fetch.py is a fetch to the builds, or nothing.                *)
LEMMA FetchStepForBuilds ==
  ASSUME LibInv, DamageOK, FetchStep
  PROVE  [Builder!Next]_(Builder!vars) /\ DamageOK'
<1>1. DamageOK' /\ (Changes \/ UNCHANGED Starts)
  <2>1. CASE Next /\ UNCHANGED damage
    BY <2>1, StepForBuilds DEF DamageOK
  <2>2. ASSUME NEW f \in Files, NEW d \in Damaged,
               Replace(f) \/ CopyOpens(f) \/ CopyCloses(f),
               damage' = [damage EXCEPT ![f] = d]
        PROVE  DamageOK' /\ Changes
    BY <2>2, WriteForBuilds DEF DamageOK
  <2> QED
    BY <2>1, <2>2 DEF FetchStep
<1>2. CASE UNCHANGED Starts
  BY <1>1, <1>2 DEF Starts, FetchStep, build, Builder!vars
<1>3. CASE Changes /\ ~UNCHANGED Starts
  <2>1. run.tag \in Tags
    BY FetchAssumption DEF LibInv, TypeInv, FetchTypeOK
  <2>2. Builder!FetchRelease(run.tag)
    BY <1>3 DEF Changes, Starts, FetchStep, build, Builder!FetchRelease,
                Builder!files, Builder!cache
  <2> QED
    BY <1>1, <2>1, <2>2 DEF Builder!Next
<1> QED
  BY <1>1, <1>2, <1>3

(* A step of a build is one, and leaves what fetch.py has done alone.      *)
LEMMA BuildStepForBuilds ==
  ASSUME BuildStep
  PROVE  Builder!Next
BY DEF BuildStep, Builder!Next

(* In the common tree fetch.py does what it does alone.                    *)
LEMMA StepOfFetch ==
  ASSUME [NextInTree]_treevars
  PROVE  [Next]_vars
<1>1. ASSUME NEW f \in Files, Replace(f) \/ CopyOpens(f) \/ CopyCloses(f)
      PROVE  Next
  BY <1>1 DEF Next, FetchBinary, BuildFromSource
<1> QED
  BY <1>1 DEF NextInTree, FetchStep, BuildStep, treevars

(* And so do its behaviours.                                               *)
LEMMA TreeRunsFetch == TreeSpec => Spec
<1>1. InitTree => Init
  BY DEF InitTree
<1>2. [NextInTree]_treevars => [Next]_vars
  BY StepOfFetch
<1> QED
  BY <1>1, <1>2, PTL DEF TreeSpec, treevars, Spec

(* Every behaviour of the common tree is seen by builds as one of Surface. *)
THEOREM FetchesAreReleases ==
  ASSUME ArchivesHaveLib, BuildsMakeLib
  PROVE  TreeSpec => FetchesForBuilds
<1>1. InitTree => LibInv /\ DamageOK /\ Builder!Init
  <2>1. Init => TypeInv
    BY DEF Init, TypeInv, FetchTypeOK, Obtained, SourceSteps, Names, Contents,
           BeforeWrite, Writing, Digests
  <2> QED
    BY <2>1 DEF InitTree, Init, LibInv, Passed, LibFirst, SourceSteps, DamageOK
<1>2. LibInv /\ DamageOK /\ [NextInTree]_treevars =>
        LibInv' /\ DamageOK' /\ [Builder!Next]_(Builder!vars)
  <2> SUFFICES ASSUME LibInv, DamageOK, [NextInTree]_treevars
               PROVE  LibInv' /\ DamageOK' /\ [Builder!Next]_(Builder!vars)
    OBVIOUS
  <2>1. [Next]_vars
    BY StepOfFetch
  <2>2. LibInv'
    BY <2>1, NextTypeInv, NextPassed, NextLibFirst DEF LibInv
  <2>3. CASE FetchStep
    BY <2>2, <2>3, FetchStepForBuilds
  <2>4. CASE BuildStep
    BY <2>2, <2>4, BuildStepForBuilds DEF BuildStep, DamageOK
  <2>5. CASE UNCHANGED treevars
    BY <2>2, <2>5 DEF treevars, vars, build, Builder!vars, DamageOK, Seen,
        Whole
  <2> QED
    BY <2>3, <2>4, <2>5 DEF NextInTree
<1> QED
  BY <1>1, <1>2, PTL DEF TreeSpec, treevars, FetchesForBuilds, Builder!Spec
-----------------------------------------------------------------------------
(* Every tag that is fetched has the library and the header.               *)
HaveBoth == \A r \in Requests : {Lib, Header} \subseteq Release[r.tag].ships

(* The builds of the common tree are those that module SurfaceProofs is    *)
(* about, so what is proved there holds of them.                           *)
LEMMA BuildsAsProved ==
  Builder!Spec => [](Proved!IInv /\ Proved!BuildsAndLoads
                            /\ Proved!LastWheel)
<1>1. Proved!SurfaceAssumption
  BY PipelineAssumption DEF Proved!SurfaceAssumption, Builder!SurfaceAssumption
<1>2. Builder!Init => Proved!Init
  BY DEF Builder!Init, Proved!Init
<1>3. [Builder!Next]_(Builder!vars) => [Proved!Next]_(Proved!vars)
  BY DEF Builder!Next, Proved!Next, Builder!vars, Proved!vars,
         Builder!FetchRelease, Proved!FetchRelease,
         Builder!StartBuild, Proved!StartBuild,
         Builder!WriteCdef, Proved!WriteCdef,
         Builder!WriteManifest, Proved!WriteManifest,
         Builder!GenerateFails, Proved!GenerateFails,
         Builder!ReadCdef, Proved!ReadCdef,
         Builder!ReadCdefFails, Proved!ReadCdefFails,
         Builder!Reuse, Proved!Reuse, Builder!UpToDate, Proved!UpToDate,
         Builder!NewExtension, Proved!NewExtension,
         Builder!Forget, Proved!Forget, Builder!cache, Proved!cache,
         Builder!Compile, Proved!Compile,
         Builder!CompileFails, Proved!CompileFails,
         Builder!Package, Proved!Package, Builder!KillBuild, Proved!KillBuild,
         Builder!Import, Proved!Import, Builder!Goto, Proved!Goto,
         Builder!End, Proved!End, Builder!Bound, Proved!Bound,
         Builder!IsDeferred, Proved!IsDeferred,
         Builder!Present, Proved!Present, Builder!TypesKnown, Proved!TypesKnown,
         Builder!Declared, Proved!Declared, Builder!Symbols, Proved!Symbols,
         Builder!fetched, Proved!fetched, Builder!files, Proved!files
<1>4. Builder!Spec => Proved!Spec
  BY <1>2, <1>3, PTL DEF Builder!Spec, Proved!Spec
<1>5. Proved!Spec => []Proved!IInv
  BY <1>1, Proved!Invariance
<1>6. Proved!Spec => []Proved!BuildsAndLoads
  BY <1>1, Proved!WholeReleasesLoad
<1>7. Proved!Spec => []Proved!LastWheel
  BY <1>1, Proved!LastWheelIsFresh
<1> QED
  BY <1>4, <1>5, <1>6, <1>7, PTL

(* When fetch.py has said ready, the next build that ends by itself makes  *)
(* the wheel of that tag, which can be imported, or one with the functions *)
(* of that tag in an extension that is left of an earlier build.           *)
THEOREM ReadyIsBuildable ==
  ASSUME ArchivesHaveLib, HaveBoth
  PROVE  TreeSpec => []ReadyBuilds
<1>1. BuildsMakeLib
  BY DEF HaveBoth, BuildsMakeLib
<1>2. /\ FetchTypeOK /\ ReadyIsInstalled /\ ReadyIsVerified
      /\ Proved!BuildsAndLoads /\ Proved!LastWheel
      => ReadyBuilds
  <2> SUFFICES ASSUME FetchTypeOK, ReadyIsInstalled, ReadyIsVerified,
                      Proved!BuildsAndLoads, Proved!LastWheel, Reliable
               PROVE  ReadyBuilds
    BY DEF ReadyBuilds
  <2>1. run.tag \in Tags /\ {Lib, Header} \subseteq Published.ships
    BY FetchAssumption DEF FetchTypeOK, HaveBoth, Published
  <2>2. Seen(Lib) = run.tag /\ Seen(Header) = run.tag
    BY <2>1, PipelineAssumption
    DEF Reliable, ReadyIsInstalled, InstalledAsAsked, ReadyIsVerified, Seen,
        Whole, Absent
  <2>3. intree /\ Proved!Supported(run.tag)
    BY DEF Reliable, Builder!Supported, Proved!Supported
  <2>4. built # "failed"
    BY <2>1, <2>2, <2>3 DEF Proved!BuildsAndLoads
  <2>5. ASSUME built \in {"built", "reused"}
        PROVE  /\ wheel.ext.bound = WheelOf(run.tag).ext.bound
               /\ wheel.manifest = WheelOf(run.tag).manifest
    BY <2>2, <2>3, <2>5
    DEF Proved!LastWheel, Proved!Generated, WheelOf, Proved!Bound,
        Builder!Bound, Proved!IsDeferred, Builder!IsDeferred
  <2>6. ASSUME built = "built" PROVE wheel = WheelOf(run.tag)
    <3>1. /\ wheel \in Proved!Wheels
          /\ wheel.ext.header = run.tag /\ wheel.ext.archive = run.tag
          /\ wheel.ext.whole
      BY <2>2, <2>6 DEF Proved!LastWheel
    <3>2. wheel.ext = WheelOf(run.tag).ext
      BY <2>5, <2>6, <3>1 DEF Proved!Wheels, Proved!Extensions, WheelOf
    <3> QED
      BY <2>5, <2>6, <3>1, <3>2 DEF Proved!Wheels, WheelOf
  <2>7. ASSUME process # None, wheel = WheelOf(run.tag)
        PROVE  process.tier1
    BY <2>1, <2>3, <2>7 DEF Proved!BuildsAndLoads, WheelOf
  <2> QED
    BY <2>4, <2>5, <2>6, <2>7 DEF ReadyBuilds
<1>3. Spec => [](FetchTypeOK /\ ReadyIsInstalled /\ ReadyIsVerified)
  BY FetchTypeCorrect, ReadyRunsInstall, ReadyRunsVerify, PTL
<1>4. TreeSpec => Builder!Spec
  BY <1>1, FetchesAreReleases DEF FetchesForBuilds
<1>5. Builder!Spec => [](Proved!IInv /\ Proved!BuildsAndLoads
                         /\ Proved!LastWheel)
  BY BuildsAsProved
<1> QED
  BY <1>2, <1>3, <1>4, <1>5, TreeRunsFetch, PTL
=============================================================================
