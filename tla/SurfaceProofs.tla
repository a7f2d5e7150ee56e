--------------------------- MODULE SurfaceProofs ---------------------------
(***************************************************************************)
(* A wheel binds what the fetched header calls for, and its manifest names *)
(* nothing else, for any releases and any sequence of fetches, builds and  *)
(* kills.  After a kill the two files may be those of different releases,  *)
(* and the extension in build/ one of another release than either; the     *)
(* induction needs to know that a tree in which this can happen reads the  *)
(* files only after it has written both again, and that an extension is    *)
(* for ever what the cdef of its own header asked for.                     *)
(***************************************************************************)
EXTENDS Surface, TLAPS

(* gen_cdef binds functions that the header declares.                      *)
LEMMA BoundIsDeclared == ASSUME NEW S PROVE Bound(S) \subseteq S
BY DEF Bound

(* The cdef that belongs to the fetched header.                            *)
Generated == Preamble \cup Bound(Declares[header])

(* What the files and the text in memory are at each step: generated for   *)
(* the header, or the committed pair.                                      *)
StepInv ==
  /\ step \in {"generate", "record"} => intree /\ header # None
  /\ step = "record" => cdef = Generated
  /\ step \in {"package", "reuse"} =>
       /\ ext \in Extensions /\ ext.bound = text
       /\ header # None
  /\ intree /\ header # None /\ step = "read" =>
       cdef = Generated /\ manifest = Bound(Declares[header])
  /\ intree /\ header # None /\ step \in {"compile", "package", "reuse"} =>
       text = Generated /\ manifest = Bound(Declares[header])
  /\ ~ intree => /\ manifest # None => manifest \subseteq cdef
                 /\ step \in {"compile", "package", "reuse"} => text = cdef

(* What is fetched stays there; without it nothing has been linked.        *)
HeaderStays == ext # None => header # None /\ archive # None

(* What is known of an extension for ever after.                           *)
SoundExt(e) == intree => e.bound = Preamble \cup Bound(Declares[e.header])

(* And of a wheel.                                                         *)
Sound(w) ==
  /\ w.manifest # None => w.manifest \subseteq w.ext.bound
  /\ SoundExt(w.ext)

WheelInv ==
  /\ ext # None \/ step \in {"package", "reuse"} => SoundExt(ext)
  /\ wheel # None => Sound(wheel)

(* The inductive invariant.                                                *)
IInv == SurfaceTypeOK /\ StepInv /\ HeaderStays /\ WheelInv

(* A tree starts without a header and with the committed files, or none.   *)
LEMMA InitIInv == Init => IInv
<1> SUFFICES ASSUME Init PROVE IInv
  OBVIOUS
<1>1. SurfaceTypeOK
  BY SurfaceAssumption DEF Init, SurfaceTypeOK, Names
<1>2. StepInv
  <2>1. CASE manifest = None
    BY <2>1 DEF Init, StepInv
  <2>2. CASE manifest # None
    <3>1. cdef = CommittedCdef /\ manifest = CommittedManifest
      BY <2>2 DEF Init
    <3>2. manifest \subseteq cdef
      BY <3>1, SurfaceAssumption
    <3> QED
      BY <3>2 DEF Init, StepInv
  <2> QED
    BY <2>1, <2>2
<1>3. WheelInv /\ HeaderStays
  BY DEF Init, WheelInv, HeaderStays
<1> QED
  BY <1>1, <1>2, <1>3 DEF IInv

(* Every step keeps the types.                                             *)
LEMMA NextTypeOK ==
  ASSUME IInv, [Next]_vars
  PROVE  SurfaceTypeOK'
<1> USE SurfaceAssumption
    DEF SurfaceTypeOK, Names, Contents, fetched, files, cache
<1>0. SurfaceTypeOK
  BY DEF IInv
<1>1. ASSUME NEW r \in Releases, FetchRelease(r) PROVE SurfaceTypeOK'
  BY <1>0, <1>1 DEF FetchRelease
<1>2. CASE StartBuild
  BY <1>0, <1>2 DEF StartBuild, Goto, Forget
<1>3. CASE WriteCdef \/ WriteManifest
  <2>1. Declares[header] \subseteq Functions
    BY <1>3 DEF IInv, StepInv, WriteCdef, WriteManifest, Goto
  <2>2. Bound(Declares[header]) \subseteq Functions
    BY <2>1, BoundIsDeclared
  <2> QED
    BY <1>0, <1>3, <2>2 DEF WriteCdef, WriteManifest, Goto
<1>4. CASE ReadCdef \/ Reuse
  BY <1>0, <1>4 DEF ReadCdef, Reuse, Goto
<1>5. CASE GenerateFails \/ ReadCdefFails
  BY <1>0, <1>5 DEF GenerateFails, ReadCdefFails, End
<1>6. Present => NewExtension(TRUE) \in Extensions
                 /\ NewExtension(FALSE) \in Extensions
  BY <1>0 DEF Present, NewExtension, Extensions
<1>7. CASE Compile
  BY <1>0, <1>6, <1>7 DEF Compile, Goto
<1>8. CASE CompileFails
  BY <1>0, <1>8 DEF CompileFails, End
<1>9. CASE Package
  <2>1. [ext |-> ext, manifest |-> manifest] \in Wheels
    BY <1>0, <1>9 DEF Package, Wheels, IInv, StepInv
  <2> QED
    BY <1>0, <1>9, <2>1 DEF Package, End
<1>10. CASE KillBuild
  BY <1>0, <1>6, <1>10 DEF KillBuild, End
<1>11. CASE Import
  BY <1>0, <1>11 DEF Import
<1>12. CASE UNCHANGED vars
  BY <1>0, <1>12 DEF vars
<1> QED
  BY <1>1, <1>2, <1>3, <1>4, <1>5, <1>7, <1>8, <1>9, <1>10, <1>11, <1>12
  DEF Next

(* Every step keeps what is known of the files.                            *)
LEMMA NextStepInv ==
  ASSUME IInv, [Next]_vars
  PROVE  StepInv' /\ HeaderStays'
<1> USE DEF IInv, StepInv, HeaderStays, Generated, fetched, files, cache
<1>1. ASSUME NEW r \in Releases, FetchRelease(r)
      PROVE  StepInv' /\ HeaderStays'
  BY <1>1, SurfaceAssumption DEF FetchRelease
<1>2. CASE StartBuild
  BY <1>2 DEF StartBuild, Goto
<1>3. CASE WriteCdef \/ WriteManifest
  BY <1>3 DEF WriteCdef, WriteManifest, Goto
<1>4. CASE ReadCdef
  BY <1>4 DEF ReadCdef, Goto
<1>5. CASE GenerateFails \/ ReadCdefFails \/ CompileFails
  BY <1>5 DEF GenerateFails, ReadCdefFails, CompileFails, End
<1>6. CASE Reuse
  BY <1>6 DEF Reuse, UpToDate, Goto, SurfaceTypeOK
<1>7. CASE Compile
  <2>1. NewExtension(TRUE) \in Extensions /\ NewExtension(TRUE).bound = text
    BY <1>7 DEF NewExtension, Extensions, Compile, Present, SurfaceTypeOK
  <2> QED
    BY <1>7, <2>1 DEF Compile, Present, Goto
<1>8. CASE Package \/ KillBuild
  BY <1>8 DEF Package, KillBuild, Present, End
<1>9. CASE Import
  BY <1>9 DEF Import
<1>10. CASE UNCHANGED vars
  BY <1>10 DEF vars
<1> QED
  BY <1>1, <1>2, <1>3, <1>4, <1>5, <1>6, <1>7, <1>8, <1>9, <1>10 DEF Next

(* An extension that is linked is sound, and so is a wheel that takes it.  *)
LEMMA NextWheelInv ==
  ASSUME IInv, [Next]_vars
  PROVE  WheelInv'
<1> USE DEF IInv, WheelInv, Sound, SoundExt, fetched, files, cache
<1>0. ASSUME step = "compile", Present, NEW whole \in BOOLEAN
      PROVE  SoundExt(NewExtension(whole))
  <2>1. intree => text = Preamble \cup Bound(Declares[header])
    BY <1>0 DEF StepInv, Present, Generated
  <2> QED
    BY <2>1 DEF NewExtension
<1>1. CASE Compile
  <2>1. /\ ext' = NewExtension(TRUE) /\ SoundExt(NewExtension(TRUE))
        /\ UNCHANGED <<intree, wheel>>
    BY <1>0, <1>1 DEF Compile, Goto
  <2> QED
    BY <2>1
<1>2. CASE KillBuild
  <2>1. step' = "idle" /\ UNCHANGED <<intree, wheel>>
    BY <1>2 DEF KillBuild, End
  <2>2. \/ ext' = ext
        \/ ext' = NewExtension(FALSE) /\ SoundExt(NewExtension(FALSE))
    BY <1>0, <1>2 DEF KillBuild
  <2> QED
    BY <2>1, <2>2
<1>3. CASE CompileFails
  BY <1>3 DEF CompileFails, End
<1>4. CASE Package
  <2> DEFINE w == [ext |-> ext, manifest |-> manifest]
  <2>1. /\ SoundExt(ext) /\ ext.bound = text
        /\ manifest # None => manifest \subseteq text
    BY <1>4 DEF Package, StepInv, HeaderStays, Generated
  <2>2. w.ext = ext /\ w.manifest = manifest
    OBVIOUS
  <2>3. wheel' = w /\ step' = "idle" /\ UNCHANGED <<intree, ext>>
    BY <1>4 DEF Package, End
  <2> QED
    BY <2>1, <2>2, <2>3
<1>5. CASE Reuse
  BY <1>5 DEF Reuse, UpToDate, Goto
<1>6. CASE StartBuild
  BY <1>6 DEF StartBuild, Forget, Goto
<1>7. CASE /\ UNCHANGED <<intree, ext, wheel>>
           /\ step' \in {"package", "reuse"} => step' = step
  BY <1>7
<1> QED
  BY <1>1, <1>2, <1>3, <1>4, <1>5, <1>6, <1>7
  DEF Next, FetchRelease, WriteCdef, WriteManifest, GenerateFails,
      ReadCdef, ReadCdefFails, Import, Goto, End, vars

(* The inductive invariant holds in every reachable state.                 *)
THEOREM Invariance == Spec => []IInv
<1>1. IInv /\ [Next]_vars => IInv'
  BY NextTypeOK, NextStepInv, NextWheelInv DEF IInv
<1> QED
  BY <1>1, InitIInv, PTL DEF Spec

(* The variables of the tree, the wheel and the process have their types.  *)
THEOREM SurfaceTypeCorrect == Spec => []SurfaceTypeOK
BY Invariance, PTL DEF IInv

(* Every name that available() reports can be called.                      *)
THEOREM AvailableCanBeCalled == Spec => []AvailableIsBound
<1>1. IInv => AvailableIsBound
  BY DEF IInv, SurfaceTypeOK, WheelInv, Sound, AvailableIsBound, Imported,
         Available, Has
<1> QED
  BY <1>1, Invariance, PTL

(* A wheel binds the functions of its header that are not held back.       *)
THEOREM SurfaceTracksHeader == Spec => []TracksHeader
<1>1. IInv => TracksHeader
  <2> SUFFICES ASSUME IInv, Imported, intree, NEW n \in Functions \ Preamble
               PROVE  Has(n) <=> /\ n \in Declares[wheel.ext.header] \ Skipped
                                 /\ n \in Matched => n \in Allowed
    BY DEF TracksHeader
  <2>1. wheel.ext.bound = Preamble \cup Bound(Declares[wheel.ext.header])
    BY DEF IInv, SurfaceTypeOK, WheelInv, Sound, SoundExt, Imported
  <2> QED
    BY <2>1 DEF Has, Bound, IsDeferred
<1> QED
  BY <1>1, Invariance, PTL
-----------------------------------------------------------------------------
(* What is bound of a supported release parses, and its archive has it.    *)
LEMMA SupportedIsBound ==
  ASSUME NEW r, Supported(r)
  PROVE  /\ Preamble \cup Bound(Declares[r]) \subseteq Exports[r] \ Unparsed
         /\ Preamble \cup Bound(Declares[r]) \subseteq Declares[r]
BY DEF Supported, Bound, IsDeferred

(* A build or an import that fails has found files of two releases, or one *)
(* that is damaged, or a release that is not supported.                    *)
FailureInv ==
  /\ intree /\ outcome = "failed" /\ header \in Releases
       /\ Supported(header) => header # archive
  /\ process # None /\ ~ process.tier1 /\ wheel.ext.whole =>
       ~ wheel.ext.bound \subseteq Exports[wheel.ext.archive]

(* A step that fails with a header and an archive of one release would     *)
(* have to miss a function that the release has.                           *)
LEMMA NextFailureInv == IInv /\ FailureInv /\ [Next]_vars => FailureInv'
<1> SUFFICES ASSUME IInv, FailureInv, [Next]_vars PROVE FailureInv'
  OBVIOUS
<1> USE DEF FailureInv, Supported, fetched, files, cache
<1>0. None \notin Releases /\ Releases \cap Damaged = {}
  BY SurfaceAssumption
<1>1. ASSUME NEW r \in Releases, FetchRelease(r) PROVE FailureInv'
  BY <1>1 DEF FetchRelease
<1>2. CASE WriteCdef \/ WriteManifest \/ ReadCdef \/ Reuse \/ Compile
  <2>1. /\ UNCHANGED <<intree, header, archive, wheel, process>>
        /\ outcome' \in {outcome, "none"}
    BY <1>2 DEF WriteCdef, WriteManifest, ReadCdef, Reuse, Compile
  <2> QED
    BY <2>1
<1>3. CASE GenerateFails
  BY <1>0, <1>3 DEF GenerateFails, End
<1>4. CASE ReadCdefFails
  <2>1. ASSUME intree, header \in Releases, Supported(header) PROVE FALSE
    <3>1. Generated \subseteq Functions /\ Generated \cap Unparsed = {}
      <4>1. Declares[header] \subseteq Functions
        BY <2>1, SurfaceAssumption
      <4> QED
        BY <2>1, <4>1, BoundIsDeclared, SupportedIsBound, SurfaceAssumption
        DEF Generated
    <3>2. cdef = Generated /\ (cdef = None \/ cdef \cap Unparsed # {})
      BY <1>0, <1>4, <2>1 DEF ReadCdefFails, IInv, StepInv
    <3> QED
      BY <3>1, <3>2, SurfaceAssumption
  <2> QED
    BY <1>4, <2>1 DEF ReadCdefFails, End
<1>5. CASE CompileFails
  <2>1. ASSUME intree, header \in Releases, Supported(header), header = archive
        PROVE  FALSE
    <3>1. text = Preamble \cup Bound(Declares[header])
      BY <1>0, <1>5, <2>1 DEF CompileFails, IInv, StepInv, Generated
    <3>2. /\ text \subseteq Declares[header] \cap Exports[header]
          /\ Preamble \subseteq Declares[header]
      BY <2>1, <3>1, SupportedIsBound
    <3> QED
      BY <1>0, <1>5, <2>1, <3>2
      DEF CompileFails, Present, TypesKnown, Declared, Symbols
  <2> QED
    BY <1>5, <2>1 DEF CompileFails, End
<1>6. CASE Package \/ KillBuild
  BY <1>6 DEF Package, KillBuild, End
<1>7. CASE Import
  BY <1>7 DEF Import
<1>8. CASE StartBuild
  BY <1>8 DEF StartBuild, Forget
<1>9. CASE UNCHANGED vars
  BY <1>9 DEF vars
<1> QED
  BY <1>1, <1>2, <1>3, <1>4, <1>5, <1>6, <1>7, <1>8, <1>9 DEF Next

(* What is fetched whole, of a supported release, builds and is imported,  *)
(* unless build/ has an extension whose link was killed.                   *)
THEOREM WholeReleasesLoad == Spec => []BuildsAndLoads
<1>1. Init => FailureInv
  BY DEF Init, FailureInv
<1>2. IInv /\ FailureInv => BuildsAndLoads
  <2> SUFFICES ASSUME IInv, FailureInv, intree, process # None,
                      ~ process.tier1, wheel.ext.header \in Releases,
                      Supported(wheel.ext.header), wheel.ext.whole,
                      wheel.ext.header = wheel.ext.archive
               PROVE  FALSE
    BY DEF BuildsAndLoads, FailureInv
  <2>1. wheel.ext.bound = Preamble \cup Bound(Declares[wheel.ext.header])
    BY DEF IInv, SurfaceTypeOK, WheelInv, Sound, SoundExt
  <2> QED
    BY <2>1, SupportedIsBound DEF FailureInv
<1> QED
  BY <1>1, <1>2, NextFailureInv, Invariance, PTL DEF Spec
-----------------------------------------------------------------------------
(* What the last wheel is made of, until something else is fetched.  With  *)
(* an extension of its own the build took the archive that is there; else  *)
(* the functions are those that the header calls for, but the archive may  *)
(* be an earlier one.                                                      *)
LastWheel ==
  outcome \in {"built", "reused"} =>
    /\ header # None /\ wheel \in Wheels
    /\ intree => /\ wheel.ext.bound = Generated
                 /\ wheel.manifest = Bound(Declares[header])
    /\ outcome = "built" =>
         wheel.ext.header = header /\ wheel.ext.archive = archive
           /\ wheel.ext.whole

(* What Package will find.                                                 *)
Linked ==
  step = "package" =>
    ext.header = header /\ ext.archive = archive /\ ext.whole

(* A build that ends by itself has packaged what belongs to the header     *)
(* that is there, with the manifest of the same header, and unless it took *)
(* the extension of an earlier build, with the archive that is there.      *)
THEOREM LastWheelIsFresh == Spec => []LastWheel
<1>1. Init => Linked /\ LastWheel
  BY DEF Init, Linked, LastWheel
<1>2. IInv /\ Linked /\ LastWheel /\ [Next]_vars => Linked' /\ LastWheel'
  <2> SUFFICES ASSUME IInv, Linked, LastWheel, [Next]_vars
               PROVE  Linked' /\ LastWheel'
    OBVIOUS
  <2> USE DEF Linked, LastWheel, Generated, fetched, files, cache
  <2>1. CASE Package
    <3>1. /\ ext \in Extensions /\ ext.bound = text
          /\ header # None
          /\ intree => text = Generated /\ manifest = Bound(Declares[header])
      BY <2>1 DEF Package, IInv, StepInv
    <3>2. /\ wheel' = [ext |-> ext, manifest |-> manifest]
          /\ UNCHANGED <<intree, header, archive>> /\ step' = "idle"
          /\ outcome' = IF step = "reuse" THEN "reused" ELSE "built"
          /\ step \in {"package", "reuse"}
      BY <2>1 DEF Package, End
    <3>3. wheel' \in Wheels
      BY <3>1, <3>2 DEF Wheels, IInv, SurfaceTypeOK
    <3> QED
      BY <3>1, <3>2, <3>3
  <2>2. CASE Import \/ UNCHANGED vars
    BY <2>2 DEF Import, vars
  <2>3. CASE WriteCdef \/ WriteManifest \/ ReadCdef \/ Reuse
    BY <2>3 DEF WriteCdef, WriteManifest, ReadCdef, Reuse, Goto
  <2>4. CASE Compile
    BY <2>4 DEF Compile, NewExtension, Goto
  <2> QED
    BY <2>1, <2>2, <2>3, <2>4
    DEF Next, FetchRelease, StartBuild, Forget, GenerateFails, ReadCdefFails,
        CompileFails, KillBuild, Goto, End
<1> QED
  BY <1>1, <1>2, Invariance, PTL DEF Spec
=============================================================================
