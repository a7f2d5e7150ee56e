---------------------------- MODULE FetchProofs ----------------------------
(***************************************************************************)
(* A run of fetch.py that fails before its first write leaves the          *)
(* installed files alone, for any releases, hosts and sequence of command  *)
(* lines.  The induction needs to know of the steps before the first write *)
(* that nothing has changed yet.                                           *)
(*                                                                         *)
(* That ready means installed, and verified where there is a check, holds  *)
(* of runs that find no other host's or unchecked objects of their tag,    *)
(* and take no archive that lacks a file; the induction has to say what    *)
(* got past the checks of this run, which objects its library is linked    *)
(* from, and which files are already new.                                  *)
(***************************************************************************)
EXTENDS Fetch, TLAPS

(* Until the first write, and after a failure, the files are the old ones. *)
Intact ==
  /\ pc \in BeforeWrite => installed = before
  /\ outcome = "failed" => installed = before

(* A run that has not ended has no outcome.                                *)
OutcomeAtEnd == pc # "idle" => outcome = "none"

(* The inductive invariant behind ErrKeepsInstall.                         *)
IInv == Intact /\ OutcomeAtEnd

(* Every step of the program keeps it.                                     *)
LEMMA NextIInv == IInv /\ [Next]_vars => IInv'
<1> SUFFICES ASSUME IInv, [Next]_vars PROVE IInv'
  OBVIOUS
<1> USE DEF IInv, Intact, OutcomeAtEnd, BeforeWrite, history
<1>1. ASSUME NEW r \in Requests, Start(r) PROVE IInv'
  BY <1>1 DEF Start, Goto, disk
<1>2. CASE ProbeFinds \/ ProbeNext \/ ProbeNone
  BY <1>2 DEF ProbeFinds, ProbeNext, ProbeNone, Goto, disk
<1>3. CASE HttpError
  BY <1>3 DEF HttpError, End, disk
<1>4. CASE FetchBinary
  <2>1. CASE FetchSums \/ FetchArchive \/ Verify
    BY <2>1 DEF FetchSums, FetchArchive, Verify, Goto, disk
  <2>2. CASE VerifyFails
    BY <2>2 DEF VerifyFails, End, disk
  <2>3. ASSUME NEW f \in Files, Replace(f) PROVE IInv'
    BY <2>3 DEF Replace
  <2>4. CASE ReplaceFails
    BY <2>4 DEF ReplaceFails, End
  <2> QED
    BY <1>4, <2>1, <2>2, <2>3, <2>4 DEF FetchBinary
<1>5. CASE BuildFromSource
  <2>1. CASE FetchTarball \/ CheckPin \/ Unpack \/ Locate
    BY <2>1 DEF FetchTarball, CheckPin, Unpack, Locate, Goto, disk
  <2>2. CASE PinFails \/ LocateFails
    BY <2>2 DEF PinFails, LocateFails, End, disk
  <2>3. CASE Build \/ BuildFails
    BY <2>3 DEF Build, BuildFails, Goto, End
  <2>4. ASSUME NEW f \in Files, CopyOpens(f) \/ CopyCloses(f) PROVE IInv'
    BY <2>4 DEF CopyOpens, CopyCloses, Goto
  <2>5. CASE CopyFails
    BY <2>5 DEF CopyFails, End
  <2> QED
    BY <1>5, <2>1, <2>2, <2>3, <2>4, <2>5 DEF BuildFromSource
<1>6. CASE InstallEnds \/ Cleanup \/ CleanupFails \/ Kill \/ UnpackFails
  BY <1>6 DEF InstallEnds, Cleanup, CleanupFails, Kill, UnpackFails, End, disk
<1>7. CASE UNCHANGED vars
  BY <1>7 DEF vars
<1> QED
  BY <1>1, <1>2, <1>3, <1>4, <1>5, <1>6, <1>7 DEF Next

(* A run that ends in err(), or in an exception before its first write,    *)
(* changes neither the library nor a header, whatever the server and the   *)
(* build do.                                                               *)
THEOREM FailedRunsChangeNothing == Spec => []ErrKeepsInstall
<1>1. Init => IInv
  BY DEF Init, IInv, Intact, OutcomeAtEnd, BeforeWrite
<1>2. IInv => ErrKeepsInstall
  BY DEF IInv, Intact, ErrKeepsInstall
<1> QED
  BY <1>1, <1>2, NextIInv, PTL DEF Spec
-----------------------------------------------------------------------------
USE FetchAssumption

SourceSteps == {"unpack", "build", "locate", "copy", "closing"}

(* What is installed has been downloaded.                                  *)
Obtained ==
  pc \in {"verify", "replace", "pin"} \cup SourceSteps => got # "none"

(* The inductive invariant behind FetchTypeOK.                             *)
TypeInv == FetchTypeOK /\ Obtained

(* A make leaves objects.                                                  *)
LEMMA MakeTypes ==
  ASSUME TypeInv, pc = "build", Make({Built, Broken}) \/ Make({Built})
  PROVE  tree' \in [Tags -> SUBSET Objects]
<1>1. run.tag \in Tags /\ run.host \in Hosts /\ got \in {"good", "bad"}
  BY DEF TypeInv, FetchTypeOK, Obtained, SourceSteps, Digests
<1>2. Built \in Objects /\ Broken \in Objects
  BY <1>1 DEF Built, Broken, Target, Objects
<1> QED
  BY <1>1, <1>2 DEF Make, TypeInv, FetchTypeOK

(* Removing leaves objects, too.                                           *)
LEMMA RemovedTypes ==
  ASSUME TypeInv, Removed
  PROVE  tree' \in [Tags -> SUBSET Objects]
BY DEF Removed, TypeInv, FetchTypeOK

(* A library is for a host, or mixed.                                      *)
LEMMA LinkedTypes ==
  ASSUME NEW objects
  PROVE  /\ Linked(objects).host \in Hosts \cup {"mixed"}
         /\ Linked(objects).bytes \in {"good", "bad"}
BY DEF Linked

(* Files only ever receive contents that some run made.                    *)
LEMMA NextTypeInv == TypeInv /\ [Next]_vars => TypeInv'
<1> SUFFICES ASSUME TypeInv, [Next]_vars PROVE TypeInv'
  OBVIOUS
<1> USE DEF TypeInv, FetchTypeOK, Obtained, SourceSteps, BeforeWrite, Writing,
            Names, Digests, history
<1>0. /\ run.tag \in Tags /\ run.host \in Hosts
      /\ Published.packed \subseteq Files /\ Published.ships \subseteq Files
  BY DEF Published
<1>1. ASSUME NEW r \in Requests, Start(r) PROVE TypeInv'
  BY <1>1 DEF Start, Goto, disk
<1>2. CASE ProbeFinds \/ ProbeNext \/ ProbeNone
  BY <1>2 DEF ProbeFinds, ProbeNext, ProbeNone, Goto, disk, download
<1>3. CASE HttpError
  BY <1>3 DEF HttpError, End, disk, download
<1>4. CASE FetchBinary
  <2>1. CASE FetchSums
    BY <2>1 DEF FetchSums, Goto, disk
  <2>2. CASE FetchArchive
    BY <2>2 DEF FetchArchive, Goto, disk
  <2>3. CASE VerifyFails \/ ReplaceFails
    BY <2>3 DEF VerifyFails, ReplaceFails, End, disk, download
  <2>4. CASE Verify
    BY <1>0, <2>4 DEF Verify, Goto, disk, download
  <2>5. ASSUME NEW f \in Files, Replace(f) PROVE TypeInv'
    BY <1>0, <2>5 DEF Replace, download, Contents
  <2> QED
    BY <1>4, <2>1, <2>2, <2>3, <2>4, <2>5 DEF FetchBinary
<1>5. CASE BuildFromSource
  <2>1. CASE FetchTarball \/ CheckPin \/ Unpack
    BY <2>1 DEF FetchTarball, CheckPin, Unpack, Goto, disk, download
  <2>2. CASE PinFails \/ LocateFails \/ CopyFails
    BY <2>2 DEF PinFails, LocateFails, CopyFails, End, disk, download
  <2>3. CASE Build
    BY <2>3, MakeTypes DEF Build, Goto, download
  <2>4. CASE BuildFails
    BY <2>4, MakeTypes DEF BuildFails, End, download
  <2>5. CASE Locate
    BY <1>0, <2>5 DEF Locate, Goto, disk, download
  <2>6. ASSUME NEW f \in Files, CopyOpens(f) PROVE TypeInv'
    BY <2>6 DEF CopyOpens, Goto, download, Contents
  <2>7. ASSUME NEW f \in Files, CopyCloses(f) PROVE TypeInv'
    <3> DEFINE from == IF f = Lib THEN Linked(tree[run.tag])
                                  ELSE [host |-> run.host, bytes |-> got]
    <3>1. /\ from.host \in Hosts \cup {"mixed"}
          /\ from.bytes \in {"good", "bad"}
      BY <1>0, <2>7, LinkedTypes DEF CopyCloses, Goto
    <3>2. installed' = [installed EXCEPT ![f] =
            [tag |-> run.tag, host |-> from.host, bytes |-> from.bytes]]
      BY <2>7 DEF CopyCloses
    <3>3. [tag |-> run.tag, host |-> from.host, bytes |-> from.bytes]
            \in Contents
      BY <1>0, <3>1 DEF Contents
    <3> HIDE DEF from
    <3>4. installed' \in [Files -> Contents]
      BY <3>2, <3>3
    <3> QED
      BY <2>7, <3>4 DEF CopyCloses, Goto, download
  <2> QED
    BY <1>5, <2>1, <2>2, <2>3, <2>4, <2>5, <2>6, <2>7 DEF BuildFromSource
<1>6. CASE InstallEnds \/ UnpackFails
  BY <1>6 DEF InstallEnds, UnpackFails, End, disk, download
<1>7. CASE Cleanup \/ CleanupFails
  BY <1>7, RemovedTypes DEF Cleanup, CleanupFails, End, download
<1>8. CASE Kill
  BY <1>8, MakeTypes, RemovedTypes DEF Kill, End, download
<1>9. CASE UNCHANGED vars
  BY <1>9 DEF vars, download, disk
<1> QED
  BY <1>1, <1>2, <1>3, <1>4, <1>5, <1>6, <1>7, <1>8, <1>9 DEF Next

(* The types hold in every state of every sequence of runs.                *)
THEOREM FetchTypeCorrect == Spec => []FetchTypeOK
<1>1. Init => TypeInv
  BY DEF Init, TypeInv, FetchTypeOK, Obtained, SourceSteps, Names, Contents,
         BeforeWrite, Writing, Digests
<1>2. TypeInv => FetchTypeOK
  BY DEF TypeInv
<1> QED
  BY <1>1, <1>2, NextTypeInv, PTL DEF Spec
-----------------------------------------------------------------------------
(* What got past the checks of this run.                                   *)
Passed ==
  /\ pc = "probe" /\ cname = "SHA256SUMS.asc" =>
       Published.sums # "checksums.txt"
  /\ pc = "probe" => ~run.source
  /\ pc \in {"sums", "archive", "verify", "replace"} => ~Builds(run)
  /\ pc \in {"tarball", "pin"} \cup SourceSteps => Builds(run)
  /\ pc = "replace" => listed = got
  /\ pc \in SourceSteps => run.pin # "wrong"
  /\ pc \in SourceSteps /\ run.pin = "right" => got = "good"

(* What lies in the work directory was found there, or built by this run.  *)
WorksOn ==
  /\ pc \in BeforeWrite \ {"locate"} => tree[run.tag] = found
  /\ pc \in {"locate", "copy", "closing"} =>
       tree[run.tag] \subseteq found \cup {Built}

(* The file is of this run: whole, of its tag, for its host, and checked.  *)
Fresh(f) ==
  /\ installed[f].tag = run.tag /\ installed[f].host = run.host
  /\ installed[f] # Torn
  /\ Checked => installed[f].bytes = "good"

(* The files that the run is done with are of this run.                    *)
DoneFresh ==
  /\ pc = "replace" => \A f \in Published.packed \ left : Fresh(f)
  /\ pc = "copy" => \A f \in Published.ships \ left : Fresh(f)
  /\ pc = "closing" =>
       /\ \A f \in Published.ships \ left : Fresh(f) \/ installed[f] = Torn
       /\ \A f, g \in Published.ships \ left :
            installed[f] = Torn /\ installed[g] = Torn => f = g
  /\ pc = "cleanup" \/ outcome = "ready" =>
       \A f \in Published.ships : Fresh(f)

FreshSoFar == Dependable => DoneFresh

(* The inductive invariant behind ReadyIsInstalled and ReadyIsVerified.    *)
ReadyInv == TypeInv /\ OutcomeAtEnd /\ Passed /\ WorksOn /\ FreshSoFar

(* What this run is, and has found and been told.                          *)
given == <<run, found, listed>>

(* What a step leaves alone stays fresh.                                   *)
LEMMA FreshStays ==
  ASSUME NEW f, Fresh(f), UNCHANGED given, installed'[f] = installed[f]
  PROVE  Fresh(f)'
  BY DEF Fresh, Checked, Published, given

(* The library of a run on which one may depend is linked from objects for *)
(* its host, and from checked ones if the run is.                          *)
LEMMA LinkedIsOurs ==
  ASSUME TypeInv, Passed, WorksOn, Dependable,
         pc \in {"locate", "copy", "closing"}
  PROVE  /\ Linked(tree[run.tag]).host = run.host
         /\ Checked => Linked(tree[run.tag]).bytes = "good"
<1>1. /\ run.tag \in Tags /\ run.host \in Hosts
      /\ tree[run.tag] # {} /\ tree[run.tag] \subseteq found \cup {Built}
  BY DEF TypeInv, FetchTypeOK, WorksOn
<1>2. Builds(run)
  BY DEF Passed, SourceSteps
<1>3. \A o \in tree[run.tag] : o.host = run.host
  BY <1>1, <1>2 DEF Dependable, Built
<1>4. \A h \in Hosts : (\A o \in tree[run.tag] : o.host = h) => h = run.host
  BY <1>1, <1>3
<1>5. Linked(tree[run.tag]).host = run.host
  BY <1>1, <1>3, <1>4 DEF Linked
<1>6. ASSUME Checked PROVE \A o \in tree[run.tag] : o.bytes = "good"
  BY <1>1, <1>2, <1>6 DEF Checked, Built, Passed, SourceSteps
<1> QED
  BY <1>5, <1>6 DEF Linked

(* The checks of a run are passed in order.                                *)
LEMMA NextPassed == TypeInv /\ Passed /\ [Next]_vars => Passed'
<1> SUFFICES ASSUME TypeInv, Passed, [Next]_vars PROVE Passed'
  OBVIOUS
<1> USE DEF Passed, SourceSteps, Published, Builds
<1>0. run \in Requests /\ cname \in Names
        /\ Release[run.tag].sums \in Names \cup {"none"}
  BY DEF TypeInv, FetchTypeOK
<1>1. ASSUME NEW r \in Requests, Start(r) PROVE Passed'
  BY <1>1 DEF Start, Goto
<1>2. CASE ProbeFinds \/ ProbeNext \/ ProbeNone
  BY <1>0, <1>2 DEF ProbeFinds, ProbeNext, ProbeNone, Goto, Names
<1>3. CASE HttpError
  BY <1>3 DEF HttpError, End, download
<1>4. CASE FetchBinary
  BY <1>4 DEF FetchBinary, FetchSums, FetchArchive, VerifyFails, Verify,
              Replace, ReplaceFails, Goto, End, download
<1>5. CASE BuildFromSource
  <2>1. run.pin \in Pins
    BY <1>0
  <2> QED
    BY <1>5, <2>1
    DEF BuildFromSource, FetchTarball, CheckPin, PinFails, Unpack, Build,
        BuildFails, Locate, LocateFails, CopyOpens, CopyCloses, CopyFails,
        Goto, End, download, Pins
<1>6. CASE InstallEnds \/ Cleanup \/ CleanupFails \/ Kill \/ UnpackFails
  BY <1>6
  DEF InstallEnds, Cleanup, CleanupFails, Kill, UnpackFails, End, download
<1>7. CASE UNCHANGED vars
  BY <1>7 DEF vars
<1> QED
  BY <1>1, <1>2, <1>3, <1>4, <1>5, <1>6, <1>7 DEF Next

(* A run adds to the work directory only what it builds itself.            *)
LEMMA NextWorksOn == TypeInv /\ WorksOn /\ [Next]_vars => WorksOn'
<1> SUFFICES ASSUME TypeInv, WorksOn, [Next]_vars PROVE WorksOn'
  OBVIOUS
<1> USE DEF WorksOn, BeforeWrite, history
<1>0. run.tag \in Tags /\ DOMAIN tree = Tags
  BY DEF TypeInv, FetchTypeOK
<1>1. ASSUME NEW r \in Requests, Start(r) PROVE WorksOn'
  BY <1>1 DEF Start, Goto, disk
<1>2. CASE pc' \notin BeforeWrite \cup {"copy", "closing"}
  BY <1>2
<1>3. CASE Build
  BY <1>0, <1>3 DEF Build, Make, Goto, Built, download
<1>4. CASE /\ UNCHANGED <<run, tree, found>>
           /\ pc' \in BeforeWrite \ {"locate"}
           /\ pc \in BeforeWrite \ {"locate"}
  BY <1>4
<1>5. CASE /\ UNCHANGED <<run, tree, found, got>>
           /\ pc \in {"locate", "copy", "closing"}
           /\ pc' \in {"locate", "copy", "closing"}
  BY <1>5 DEF Built
<1>6. CASE UNCHANGED vars
  BY <1>6 DEF vars, Built
<1>7. ASSUME Next, ~\E r \in Requests : Start(r), ~Build,
             pc' \in BeforeWrite \cup {"copy", "closing"}
      PROVE  \/ /\ UNCHANGED <<run, tree, found>>
                /\ pc' \in BeforeWrite \ {"locate"}
                /\ pc \in BeforeWrite \ {"locate"}
             \/ /\ UNCHANGED <<run, tree, found, got>>
                /\ pc \in {"locate", "copy", "closing"}
                /\ pc' \in {"locate", "copy", "closing"}
  BY <1>7
  DEF Next, ProbeFinds, ProbeNext, ProbeNone, HttpError, FetchBinary,
      FetchSums, FetchArchive, VerifyFails, Verify, Replace, ReplaceFails,
      BuildFromSource, FetchTarball, CheckPin, PinFails, Unpack, UnpackFails,
      BuildFails, Locate, LocateFails, CopyOpens, CopyCloses, CopyFails,
      InstallEnds, Cleanup, CleanupFails, Kill, Goto, End, disk, download
<1> QED
  BY <1>1, <1>2, <1>3, <1>4, <1>5, <1>6, <1>7

(* The two loops install every file of the tag, each of this run.          *)
LEMMA NextFresh ==
  ASSUME ReadyInv, [Next]_vars, Dependable, UNCHANGED given
  PROVE  DoneFresh'
<1> USE DEF ReadyInv, FreshSoFar, DoneFresh, OutcomeAtEnd, given
<1>0. /\ run \in Requests /\ run.tag \in Tags /\ run.host \in Hosts
      /\ Published.packed \subseteq Files /\ Published.ships \subseteq Files
      /\ DOMAIN installed = Files /\ got \in Digests
  BY DEF TypeInv, FetchTypeOK, Published
<1>1. ASSUME NEW r \in Requests, Start(r) PROVE DoneFresh'
  BY <1>1 DEF Start, Goto
<1>2. CASE /\ UNCHANGED <<run, installed>> /\ outcome' # "ready"
           /\ pc' \notin {"replace", "copy", "closing", "cleanup"}
  BY <1>2
<1>3. CASE Verify
  BY <1>3 DEF Verify, Goto, Published, disk
<1>4. ASSUME NEW f \in Files, Replace(f) PROVE DoneFresh'
  <2>1. /\ pc = "replace" /\ pc' = "replace" /\ left' = left \ {f}
        /\ run' = run /\ outcome' = outcome /\ Published' = Published
    BY <1>4 DEF Replace, Published
  <2>2. ~Builds(run) /\ listed = got /\ got \in {"good", "bad"}
    BY <1>0, <2>1 DEF Passed, TypeInv, Obtained, Digests
  <2>3. installed' = [installed EXCEPT ![f] =
          [tag |-> run.tag, host |-> run.host, bytes |-> got]]
    BY <1>4 DEF Replace
  <2>4. Fresh(f)'
    <3>1. Checked' => got = "good"
      BY <2>1, <2>2 DEF Checked, Builds
    <3> QED
      BY <1>0, <2>1, <2>2, <2>3, <3>1 DEF Fresh, Torn
  <2>5. ASSUME NEW g \in Published.packed \ left, g # f PROVE Fresh(g)'
    BY <1>0, <2>1, <2>3, <2>5, FreshStays
  <2> QED
    BY <2>1, <2>4, <2>5
<1>5. CASE InstallEnds
  <2>1. /\ left = {} /\ pc' = "cleanup" /\ UNCHANGED <<run, installed, outcome>>
        /\ pc \in {"replace", "copy"} /\ Published' = Published
    BY <1>5 DEF InstallEnds, disk, Published
  <2>2. \A f \in Published.ships : Fresh(f)
    BY <1>0, <2>1 DEF Passed, Dependable, Published
  <2> QED
    BY <1>0, <2>1, <2>2, FreshStays
<1>6. CASE Locate
  BY <1>6 DEF Locate, Goto, Published, disk
<1>7. ASSUME NEW f \in Files, CopyOpens(f) PROVE DoneFresh'
  <2>1. /\ pc = "copy" /\ pc' = "closing" /\ left' = left \ {f}
        /\ run' = run /\ outcome' = outcome /\ Published' = Published
        /\ installed' = [installed EXCEPT ![f] = Torn]
    BY <1>7 DEF CopyOpens, Goto, Published
  <2>2. installed'[f] = Torn
    BY <1>0, <2>1
  <2>3. ASSUME NEW g \in Published.ships \ left, g # f
        PROVE  Fresh(g)' /\ installed'[g] # Torn
    <3>1. Fresh(g) /\ installed'[g] = installed[g]
      BY <1>0, <2>1, <2>3
    <3> QED
      BY <2>1, <3>1, FreshStays DEF Fresh
  <2> QED
    BY <2>1, <2>2, <2>3
<1>8. ASSUME NEW f \in Files, CopyCloses(f) PROVE DoneFresh'
  <2> DEFINE from == IF f = Lib THEN Linked(tree[run.tag])
                                ELSE [host |-> run.host, bytes |-> got]
  <2>1. /\ pc = "closing" /\ pc' = "copy" /\ left' = left
        /\ run' = run /\ outcome' = outcome /\ Published' = Published
        /\ f \in Published.ships \ left /\ installed[f] = Torn
        /\ installed' = [installed EXCEPT ![f] =
             [tag |-> run.tag, host |-> from.host, bytes |-> from.bytes]]
    BY <1>8 DEF CopyCloses, Goto, Published
  <2>2. /\ from.host = run.host
        /\ Checked => from.bytes = "good"
        /\ from.bytes \in {"good", "bad"}
    <3>1. got \in {"good", "bad"} /\ Builds(run)
          /\ (run.pin = "right" => got = "good")
      BY <1>0, <2>1 DEF SourceSteps, TypeInv, Obtained, Passed, Digests
    <3> QED
      BY <2>1, <3>1, LinkedIsOurs, LinkedTypes DEF Checked
  <2>3. Checked' = Checked
    BY <2>1 DEF Checked, Builds
  <2>4. Fresh(f)'
    <3>1. installed'[f] =
            [tag |-> run.tag, host |-> from.host, bytes |-> from.bytes]
      BY <1>0, <2>1
    <3> HIDE DEF from
    <3> QED
      BY <2>1, <2>2, <2>3, <3>1 DEF Fresh, Torn
  <2>5. ASSUME NEW g \in Published.ships \ left, g # f PROVE Fresh(g)'
    <3>1. Fresh(g) /\ installed'[g] = installed[g]
      BY <1>0, <2>1, <2>5
    <3> QED
      BY <2>1, <3>1, FreshStays
  <2> QED
    BY <2>1, <2>4, <2>5
<1>9. CASE Cleanup
  <2>1. /\ pc = "cleanup" /\ pc' = "idle" /\ UNCHANGED <<run, installed>>
        /\ Published' = Published
    BY <1>9 DEF Cleanup, End, Published
  <2> QED
    BY <2>1, FreshStays
<1>10. CASE UNCHANGED vars
  <2>1. UNCHANGED <<pc, run, left, installed, outcome>>
          /\ Published' = Published
    BY <1>10 DEF vars, Published
  <2> QED
    BY <2>1, FreshStays
<1>11. ASSUME Next, ~\E r \in Requests : Start(r), ~InstallEnds, ~Cleanup,
              ~Verify, ~Locate,
              ~\E f \in Files : Replace(f) \/ CopyOpens(f) \/ CopyCloses(f)
       PROVE  /\ UNCHANGED <<run, installed>> /\ outcome' # "ready"
              /\ pc' \notin {"replace", "copy", "closing", "cleanup"}
  BY <1>11
  DEF Next, ProbeFinds, ProbeNext, ProbeNone, HttpError, FetchBinary,
      FetchSums, FetchArchive, VerifyFails, ReplaceFails, BuildFromSource,
      FetchTarball, CheckPin, PinFails, Unpack, UnpackFails, Build, BuildFails,
      LocateFails, CopyFails, CleanupFails, Kill, Goto, End, disk
<1> QED
  BY <1>1, <1>2, <1>3, <1>4, <1>5, <1>6, <1>7, <1>8, <1>9, <1>10, <1>11

(* Every step of the program keeps the whole invariant.                    *)
LEMMA NextReadyInv == ReadyInv /\ [Next]_vars => ReadyInv'
<1> SUFFICES ASSUME ReadyInv, [Next]_vars PROVE ReadyInv'
  OBVIOUS
<1>1. OutcomeAtEnd'
  BY DEF ReadyInv, OutcomeAtEnd, Next, Start, ProbeFinds, ProbeNext, ProbeNone,
         HttpError, FetchBinary, FetchSums, FetchArchive, VerifyFails, Verify,
         Replace, ReplaceFails, BuildFromSource, FetchTarball, CheckPin,
         PinFails, Unpack, UnpackFails, Build, BuildFails, Locate, LocateFails,
         CopyOpens, CopyCloses, CopyFails, InstallEnds, Cleanup, CleanupFails,
         Kill, Goto, End, vars
<1>2. FreshSoFar'
  <2>1. CASE UNCHANGED given
    BY <2>1, NextFresh DEF FreshSoFar, Dependable, given, Published
  <2>2. CASE /\ pc' \notin {"replace", "copy", "closing", "cleanup"}
             /\ outcome' # "ready"
    BY <2>2 DEF FreshSoFar, DoneFresh
  <2>3. \/ UNCHANGED given
        \/ /\ pc' \notin {"replace", "copy", "closing", "cleanup"}
           /\ outcome' # "ready"
    BY DEF Next, Start, ProbeFinds, ProbeNext, ProbeNone, HttpError,
           FetchBinary, FetchSums, FetchArchive, VerifyFails, Verify, Replace,
           ReplaceFails, BuildFromSource, FetchTarball, CheckPin, PinFails,
           Unpack, UnpackFails, Build, BuildFails, Locate, LocateFails,
           CopyOpens, CopyCloses, CopyFails, InstallEnds, Cleanup,
           CleanupFails, Kill, Goto, End, vars, given, download, history,
           ReadyInv, OutcomeAtEnd
  <2> QED
    BY <2>1, <2>2, <2>3
<1> QED
  BY <1>1, <1>2, NextTypeInv, NextPassed, NextWorksOn DEF ReadyInv

(* The invariant holds at the start.                                       *)
LEMMA InitReadyInv == Init => ReadyInv
<1> SUFFICES ASSUME Init PROVE ReadyInv
  OBVIOUS
<1>1. TypeInv
  BY DEF Init, TypeInv, FetchTypeOK, Obtained, SourceSteps, Names, Contents,
         BeforeWrite, Writing, Digests
<1> QED
  BY <1>1 DEF Init, ReadyInv, OutcomeAtEnd, Passed, WorksOn, FreshSoFar,
              DoneFresh, SourceSteps, BeforeWrite

(* When fetch.py says ready, the library and every header of the tag are   *)
(* in place, of that tag and for that host, after any sequence of failed,  *)
(* killed and completed runs: if the archive was complete, or configure    *)
(* builds for that host and found no object of another.                    *)
THEOREM ReadyRunsInstall == Spec => []ReadyIsInstalled
<1>1. ReadyInv => ReadyIsInstalled
  BY DEF ReadyInv, FreshSoFar, DoneFresh, Fresh, ReadyIsInstalled,
         InstalledAsAsked
<1> QED
  BY <1>1, InitReadyInv, NextReadyInv, PTL DEF Spec

(* When it says ready after such a run with a check, they are the          *)
(* published bytes, whatever the server has sent for the archive or the    *)
(* tarball and the earlier runs have installed.                            *)
THEOREM ReadyRunsVerify == Spec => []ReadyIsVerified
<1>1. ReadyInv => ReadyIsVerified
  BY DEF ReadyInv, FreshSoFar, DoneFresh, Fresh, ReadyIsVerified
<1> QED
  BY <1>1, InitReadyInv, NextReadyInv, PTL DEF Spec
=============================================================================
