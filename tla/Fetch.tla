------------------------------- MODULE Fetch -------------------------------
(***************************************************************************)
(* fetch.py: every run of it replaces lib/libdogecoin.a and the headers in *)
(* include/ by those of one libdogecoin tag, taken from a release archive  *)
(* that is verified against the release's checksum file, or built from the *)
(* source tarball in a directory named after the tag.  Runs follow one     *)
(* another in the same working directory; each may be stopped by a failed  *)
(* check, an HTTP error, a failing subprocess or an OSError, or be killed  *)
(* at any step.  Of what the server sends any file may be altered.         *)
(*                                                                         *)
(* The contents of an installed file are abstracted to the tag and host    *)
(* they were made for and whether the bytes are those that were published, *)
(* a work directory to the objects in it that a make takes as they are.    *)
(***************************************************************************)
EXTENDS Naturals

CONSTANTS
  Hosts,      (* VALID_HOSTS                                             *)
  Cpu,        (* the first part of each host triplet                     *)
  Native,     (* the host of this machine                                *)
  Lib,        (* lib/libdogecoin.a                                       *)
  Headers,    (* the *.h files any release installs in include/          *)
  Release,    (* what GitHub has of each tag                             *)
  Requests    (* the command lines fetch.py is run with                  *)

Tags  == DOMAIN Release
Files == {Lib} \cup Headers
Names == {"checksums.txt", "SHA256SUMS.asc"}

Pins == {"none", "right", "wrong"}   \* --sha256 of the source tarball

Digests == {"none", "good", "bad"}   \* of the published bytes or of others

(* sums: the checksum file of a binary release; listed, assets: the hosts  *)
(* it lists and that have an archive; packed: the files in the archives;   *)
(* ships: the files of the tag, all of which a source build yields.        *)
ASSUME FetchAssumption ==
  /\ Lib \notin Headers
  /\ Native \in Hosts /\ DOMAIN Cpu = Hosts
  /\ Hosts \cap {"none", "mixed"} = {}
  /\ \A t \in Tags :
       Release[t] \in [sums : Names \cup {"none"}, listed : SUBSET Hosts,
                       assets : SUBSET Hosts, packed : SUBSET Files,
                       ships : SUBSET Files]
  /\ Requests \subseteq [tag : Tags, host : Hosts, source : BOOLEAN,
                         pin : Pins]

VARIABLES
  pc,         (* the step the run is at                                  *)
  run,        (* its command line                                        *)
  cname,      (* the checksum file probed or found                       *)
  listed,     (* the digest the checksum file has for the archive; kept  *)
              (* when the run ends in ready (history)                    *)
  got,        (* the download: none, good, or bad (other bytes)          *)
  left,       (* the files still to be installed                         *)
  tree,       (* the objects in libdogecoin-{tag}/                       *)
  installed,  (* lib/ and include/                                       *)
  before,     (* the same when the run started (history)                 *)
  found,      (* tree[run.tag] when the run started (history)            *)
  outcome     (* how the last run ended: none, ready, failed, killed, or *)
              (* oserror while it wrote to lib/ and include/             *)

vars == <<pc, run, cname, listed, got, left, tree, installed, before,
          found, outcome>>
download == <<cname, listed, got>>
disk     == <<tree, installed>>
history  == <<before, found>>

Absent  == [tag |-> "none", host |-> "none", bytes |-> "none"]
Torn    == [tag |-> "none", host |-> "none", bytes |-> "torn"]
Objects == [host : Hosts, bytes : {"good", "bad"}]
Contents == [tag : Tags, host : Hosts \cup {"mixed"}, bytes : {"good", "bad"}]
              \cup {Absent, Torn}

BeforeWrite == {"probe", "sums", "archive", "verify", "tarball", "pin",
                "unpack", "build", "locate"}
Writing == {"replace", "copy", "closing", "cleanup"}

FetchTypeOK ==
  /\ pc \in {"idle"} \cup BeforeWrite \cup Writing
  /\ run \in Requests
  /\ cname \in Names
  /\ listed \in Digests /\ got \in Digests
  /\ left \subseteq Files
  /\ tree \in [Tags -> SUBSET Objects] /\ found \subseteq Objects
  /\ pc \in {"locate", "copy", "closing"} => tree[run.tag] # {}
  /\ installed \in [Files -> Contents]
  /\ before \in [Files -> Contents]
  /\ outcome \in {"none", "ready", "failed", "oserror", "killed"}

Init ==
  /\ pc = "idle"
  /\ run \in Requests
  /\ cname = "checksums.txt"
  /\ listed = "none"
  /\ got = "none"
  /\ left = {}
  /\ tree = [t \in Tags |-> {}]
  /\ installed = [f \in Files |-> Absent]
  /\ before = installed
  /\ found = {}
  /\ outcome = "none"

Published == Release[run.tag]

Goto(from, to) == pc = from /\ pc' = to

(* The process ends, and its variables with it; of the histories, those    *)
(* are kept that a property has to compare with such an end.               *)
End(result) ==
  /\ pc' = "idle"
  /\ outcome' = result
  /\ cname' = "checksums.txt" /\ got' = "none" /\ left' = {}
  /\ before' = IF result = "failed" THEN before ELSE installed'
  /\ found' = IF result = "ready" THEN found ELSE {}
  /\ listed' = IF result = "ready" THEN listed ELSE "none"
-----------------------------------------------------------------------------
Start(r) ==
  /\ Goto("idle", IF r.source THEN "tarball" ELSE "probe")
  /\ run' = r
  /\ cname' = "checksums.txt"
  /\ listed' = "none"
  /\ got' = "none"
  /\ left' = {}
  /\ before' = installed
  /\ found' = tree[r.tag]
  /\ outcome' = "none"
  /\ UNCHANGED disk

(* The loop over the two names: 200, then 404 on the first and the second. *)
ProbeFinds ==
  /\ Goto("probe", "sums")
  /\ Published.sums = cname
  /\ UNCHANGED <<run, download, left, disk, history, outcome>>

ProbeNext ==
  /\ Goto("probe", "probe")
  /\ cname = "checksums.txt" /\ Published.sums # cname
  /\ cname' = "SHA256SUMS.asc"
  /\ UNCHANGED <<run, listed, got, left, disk, history, outcome>>

ProbeNone ==
  /\ Goto("probe", "tarball")
  /\ cname = "SHA256SUMS.asc" /\ Published.sums # cname
  /\ UNCHANGED <<run, download, left, disk, history, outcome>>

(* Another status on a probe: err.  An error status on a GET: HTTPError.   *)
HttpError ==
  /\ pc \in {"probe", "sums", "archive", "tarball"}
  /\ End("failed")
  /\ UNCHANGED <<run, disk>>

(* No signature is checked: the text may be other than the release's, and  *)
(* list nothing, or the digest of other bytes.                             *)
FetchSums ==
  /\ Goto("sums", "archive")
  /\ \/ listed' \in {"none", "bad"}
     \/ run.host \in Published.listed /\ listed' = "good"
  /\ UNCHANGED <<run, cname, got, left, disk, history, outcome>>

FetchArchive ==
  /\ Goto("archive", "verify")
  /\ run.host \in Published.assets
  /\ got' \in {"good", "bad"}
  /\ UNCHANGED <<run, cname, listed, left, disk, history, outcome>>

(* Altered bytes need not be those of an altered text.                     *)
VerifyFails ==
  /\ pc = "verify"
  /\ listed # got \/ got = "bad"
  /\ End("failed")
  /\ UNCHANGED <<run, disk>>

(* Mutant: an archive that the checksum file does not list is accepted.    *)
VerifyListed ==
  /\ Goto("verify", "replace")
  /\ listed \in {"none", got}
  /\ left' = Published.packed
  /\ UNCHANGED <<run, download, disk, history, outcome>>

(* The archive is unpacked into a directory of its own.                    *)
Verify ==
  /\ Goto("verify", "replace")
  /\ listed = got
  /\ left' = Published.packed
  /\ UNCHANGED <<run, download, disk, history, outcome>>

(* Mutant: os.replace in the order of os.listdir, the library among them.  *)
ReplaceAnyOrder(f) ==
  /\ pc = "replace"
  /\ f \in left
  /\ left' = left \ {f}
  /\ installed' = [installed EXCEPT ![f] =
                     [tag |-> run.tag, host |-> run.host, bytes |-> got]]
  /\ UNCHANGED <<pc, run, download, tree, history, outcome>>

(* os.replace of the library if the archive has one, then of each header.  *)
Replace(f) ==
  /\ pc = "replace"
  /\ f \in left
  /\ f = Lib \/ Lib \notin left
  /\ left' = left \ {f}
  /\ installed' = [installed EXCEPT ![f] =
                     [tag |-> run.tag, host |-> run.host, bytes |-> got]]
  /\ UNCHANGED <<pc, run, download, tree, history, outcome>>

(* An OSError of os.replace, which has replaced the file or has not.       *)
ReplaceFails ==
  /\ pc = "replace"
  /\ UNCHANGED <<run, disk>>
  /\ End("oserror")

(* Mutant: the loop over include/ ends early.                              *)
InstallEndsEarly ==
  /\ pc \in {"replace", "copy"}
  /\ Lib \notin left
  /\ pc' = "cleanup"
  /\ UNCHANGED <<run, download, left, disk, history, outcome>>

InstallEnds ==
  /\ pc \in {"replace", "copy"}
  /\ left = {}
  /\ pc' = "cleanup"
  /\ UNCHANGED <<run, download, left, disk, history, outcome>>
-----------------------------------------------------------------------------
FetchTarball ==
  /\ Goto("tarball", "pin")
  /\ got' \in {"good", "bad"}
  /\ UNCHANGED <<run, cname, listed, left, disk, history, outcome>>

(* Without --sha256 the digest is printed and nothing is checked.          *)
CheckPin ==
  /\ Goto("pin", "unpack")
  /\ run.pin = "none" \/ (run.pin = "right" /\ got = "good")
  /\ UNCHANGED <<run, download, left, disk, history, outcome>>

PinFails ==
  /\ pc = "pin"
  /\ run.pin = "wrong" \/ (run.pin = "right" /\ got = "bad")
  /\ End("failed")
  /\ UNCHANGED <<run, disk>>

(* Over whatever an earlier run has left in libdogecoin-{tag}/.            *)
Unpack ==
  /\ Goto("unpack", "build")
  /\ UNCHANGED <<run, download, left, disk, history, outcome>>

(* The download is no archive, or it cannot be written: on both paths.     *)
UnpackFails ==
  /\ pc \in {"verify", "unpack"}
  /\ End("failed")
  /\ UNCHANGED <<run, disk>>

(* configure has --host only where the first part of the triplet differs   *)
(* from that of the compiler.                                              *)
Target(h) == IF Cpu[h] = Cpu[Native] THEN Native ELSE h

Built  == [host |-> Target(run.host), bytes |-> got]
Broken == [Built EXCEPT !.bytes = "bad"]   \* written in part

(* make compiles the sources, or takes objects that are newer than them.   *)
Make(objects) ==
  \E made \in SUBSET (tree[run.tag] \cup objects) :
    tree' = [tree EXCEPT ![run.tag] = made]

(* Mutant: subprocess.run without check=True.                             *)
BuildUnchecked ==
  /\ Goto("build", "locate")
  /\ Make({Built})
  /\ UNCHANGED <<run, download, left, installed, history, outcome>>

Build ==
  /\ Goto("build", "locate")
  /\ Make({Built}) /\ tree'[run.tag] # {}
  /\ UNCHANGED <<run, download, left, installed, history, outcome>>

BuildFails ==
  /\ pc = "build"
  /\ End("failed")
  /\ Make({Built, Broken})
  /\ UNCHANGED <<run, installed>>

Locate ==
  /\ Goto("locate", "copy")
  /\ left' = Published.ships
  /\ UNCHANGED <<run, download, disk, history, outcome>>

(* Mutant: the library is copied before the header is looked for.          *)
LocateCopiesLib ==
  /\ pc = "locate"
  /\ End("failed")
  /\ installed' = [installed EXCEPT ![Lib] = Torn]
  /\ UNCHANGED <<run, tree>>

(* The library or libdogecoin.h is at none of the expected places.         *)
LocateFails ==
  /\ pc = "locate"
  /\ End("failed")
  /\ UNCHANGED <<run, disk>>

(* shutil.copy2 truncates the target, then writes it.                      *)
CopyOpens(f) ==
  /\ Goto("copy", "closing")
  /\ f \in left
  /\ f = Lib \/ Lib \notin left
  /\ left' = left \ {f}
  /\ installed' = [installed EXCEPT ![f] = Torn]
  /\ UNCHANGED <<run, download, tree, history, outcome>>

(* The library is linked from all objects of the work directory.           *)
Linked(objects) ==
  [host  |-> IF \E h \in Hosts : \A o \in objects : o.host = h
             THEN CHOOSE h \in Hosts : \A o \in objects : o.host = h
             ELSE "mixed",
   bytes |-> IF \A o \in objects : o.bytes = "good" THEN "good" ELSE "bad"]

(* A header is as unpacked, and fits any host.                             *)
CopyCloses(f) ==
  /\ Goto("closing", "copy")
  /\ f \in Published.ships \ left
  /\ installed[f] = Torn
  /\ installed' = [installed EXCEPT ![f] =
       LET from == IF f = Lib THEN Linked(tree[run.tag])
                              ELSE [host |-> run.host, bytes |-> got] IN
       [tag |-> run.tag, host |-> from.host, bytes |-> from.bytes]]
  /\ UNCHANGED <<run, download, left, tree, history, outcome>>

(* An OSError of copy2, before it opens, while it writes or after that.    *)
CopyFails ==
  /\ pc \in {"copy", "closing"}
  /\ UNCHANGED <<run, disk>>
  /\ End("oserror")
-----------------------------------------------------------------------------
(* cleanup() removes the work directory of this tag; rmtree ignores errors.*)
Removed ==
  \E rest \in SUBSET tree[run.tag] : tree' = [tree EXCEPT ![run.tag] = rest]

Cleanup ==
  /\ pc = "cleanup"
  /\ Removed
  /\ UNCHANGED <<run, installed>>
  /\ End("ready")

(* An OSError of os.remove.                                                *)
CleanupFails ==
  /\ pc = "cleanup"
  /\ Removed
  /\ UNCHANGED <<run, installed>>
  /\ End("oserror")

(* The process is killed, or the machine stops.                            *)
Kill ==
  /\ pc # "idle"
  /\ \/ UNCHANGED tree
     \/ pc = "build" /\ Make({Built, Broken})
     \/ pc = "cleanup" /\ Removed
  /\ UNCHANGED <<run, installed>>
  /\ End("killed")

FetchBinary ==
  \/ FetchSums \/ FetchArchive \/ VerifyFails \/ Verify
  \/ ReplaceFails \/ \E f \in Files : Replace(f)

BuildFromSource ==
  \/ FetchTarball \/ CheckPin \/ PinFails \/ Unpack
  \/ Build \/ BuildFails \/ Locate \/ LocateFails
  \/ CopyFails \/ \E f \in Files : CopyOpens(f) \/ CopyCloses(f)

Next ==
  \/ \E r \in Requests : Start(r)
  \/ ProbeFinds \/ ProbeNext \/ ProbeNone \/ HttpError
  \/ FetchBinary \/ BuildFromSource \/ UnpackFails
  \/ InstallEnds \/ Cleanup \/ CleanupFails \/ Kill

Spec == Init /\ [][Next]_vars
-----------------------------------------------------------------------------
(* "libdogecoin v{tag} ready in lib/ and include/": the library and every  *)
(* header of the tag are there, whole, and made for the tag and the host   *)
(* of the command line.                                                    *)
InstalledAsAsked ==
  \A f \in Published.ships :
    installed[f].tag = run.tag /\ installed[f].host = run.host
ReadyIsTrue == outcome = "ready" => InstalledAsAsked

(* Such a command line builds from source; others take the archive path.   *)
Builds(r) == r.source \/ Release[r.tag].sums = "none"

(* The archive has every file of the tag; or configure builds for the host *)
(* asked for, and the work directory has had no object of another host.    *)
Dependable ==
  IF Builds(run)
  THEN Target(run.host) = run.host /\ \A o \in found : o.host = run.host
  ELSE Published.ships \subseteq Published.packed

(* The words are true when they are printed, whatever earlier runs, for    *)
(* the same or other tags, installed, failed at, or were killed in.        *)
ReadyIsInstalled == outcome = "ready" /\ Dependable => InstalledAsAsked

(* Nothing altered gets past the checks of such a run: the text that came  *)
(* for the checksum file does not list the digest of altered bytes; or     *)
(* --sha256 is that of the tarball, and no object of unchecked sources, or *)
(* cut off, was in the work directory.                                     *)
Checked ==
  IF Builds(run)
  THEN run.pin = "right" /\ \A o \in found : o.bytes = "good"
  ELSE listed # "bad"

(* "verified against the SHA256SUMS" or the --sha256 pin: after such a run *)
(* ready means that the published bytes are installed, whatever came for   *)
(* the archive or the tarball.                                             *)
ReadyIsVerified ==
  outcome = "ready" /\ Dependable /\ Checked =>
    \A f \in Published.ships : installed[f].bytes = "good"

(* A run that ends in err(), an HTTPError, a failing subprocess or a file  *)
(* that cannot be unpacked leaves the library and the headers as they      *)
(* were: every check, and all that is downloaded or built, comes before    *)
(* the first write.  (An OSError of that or a later write does not.)       *)
ErrKeepsInstall == outcome = "failed" => installed = before
=============================================================================
