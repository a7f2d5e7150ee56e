------------------------------ MODULE Surface ------------------------------
(***************************************************************************)
(* The bound surface: which C functions a wheel binds, what its manifest   *)
(* says of them, and what a program that imports it finds.  A build        *)
(* (python/_build.py) runs codegen/gen_cdef.py on the fetched header,      *)
(* which writes _cdef.h and then _surface.json; cffi parses the cdef and   *)
(* makes C code of it; if that is other code than before, it is compiled   *)
(* against the header and linked with the archive, else the extension that *)
(* an earlier build has left in build/ is taken; the wheel takes the       *)
(* extension and the manifest.  Builds and fetches follow one another in   *)
(* one tree, and each may be killed at any step.                           *)
(*                                                                         *)
(* A file is abstracted to the set of function names in it, a header and   *)
(* an archive to their release.  One that is not as published, since       *)
(* fetch.py was stopped in copying it, took altered bytes, or built it for *)
(* another host, is damaged: the header has no include guard, so that what *)
(* is left of one may compile, and declare any part of the functions.      *)
(***************************************************************************)
EXTENDS Naturals

CONSTANTS
  Functions,          (* the names of C functions                        *)
  Releases,           (* the releases of libdogecoin that are fetched    *)
  Damaged,            (* files cut off, altered, or for another host     *)
  Declares,           (* the functions each such header declares         *)
  Exports,            (* those its archive has for the host              *)
  Unparsed,           (* those whose prototype cffi rejects              *)
  Skipped,            (* SKIP_FUNCTIONS                                  *)
  Matched,            (* names that match DEFERRED_SUBSYSTEM_PATTERNS    *)
  Allowed,            (* ALLOW_BOUND                                     *)
  Preamble,           (* the functions of tier3_preamble.h               *)
  CommittedCdef,      (* python/libdogecoin/_cdef.h as committed         *)
  CommittedManifest,  (* python/libdogecoin/_surface.json as committed   *)
  None                (* no file, no wheel, no process                   *)

ASSUME SurfaceAssumption ==
  /\ Releases \cap Damaged = {}
  /\ Declares \in [Releases \cup Damaged -> SUBSET Functions]
  /\ Exports \in [Releases \cup Damaged -> SUBSET Functions]
  /\ Preamble \subseteq Functions
  /\ CommittedManifest \cup Preamble \subseteq CommittedCdef
  /\ CommittedCdef \subseteq Functions
  /\ None \notin Releases \cup Damaged /\ \A S \in SUBSET Functions : S # None

VARIABLES
  intree,     (* whether codegen/ is there, or only the committed files  *)
  header,     (* include/libdogecoin.h                                   *)
  archive,    (* lib/libdogecoin.a                                       *)
  cdef,       (* _cdef.h                                                 *)
  manifest,   (* _surface.json                                           *)
  step,       (* where the build is                                      *)
  text,       (* what the build has read: the cdef, and then the C code  *)
  ext,        (* the extension in build/: what it was made of, and       *)
              (* whether its link was finished                           *)
  current,    (* whether it is newer than the C code in build/           *)
  wheel,      (* the last wheel                                          *)
  process,    (* what a program finds that has imported that wheel       *)
  outcome     (* how the last build ended: none, built, reused (with the *)
              (* extension of an earlier build), failed, killed          *)

vars == <<intree, header, archive, cdef, manifest, step, text, ext, current,
          wheel, process, outcome>>
fetched == <<intree, header, archive>>
files   == <<cdef, manifest>>
cache   == <<ext, current>>

Names    == SUBSET Functions
Contents == Releases \cup Damaged

Extensions == [bound : Names, header : Contents, archive : Contents,
               whole : BOOLEAN]
Wheels == [ext : Extensions, manifest : Names \cup {None}]

SurfaceTypeOK ==
  /\ intree \in BOOLEAN
  /\ header \in Contents \cup {None} /\ archive \in Contents \cup {None}
  /\ cdef \in {c \in Names : Preamble \subseteq c} \cup {None}
  /\ manifest \in Names \cup {None}
  /\ step \in {"idle", "generate", "record", "read", "compile", "package",
              "reuse"}
  /\ text \in Names
  /\ ext \in Extensions \cup {None} /\ current \in BOOLEAN
  /\ wheel \in Wheels \cup {None}
  /\ process \in [tier1 : BOOLEAN, tier3 : BOOLEAN] \cup {None}
  /\ process # None => wheel # None
  /\ outcome \in {"none", "built", "reused", "failed", "killed"}

Init ==
  /\ intree \in BOOLEAN
  /\ header = None /\ archive = None
  /\ \/ cdef = CommittedCdef /\ manifest = CommittedManifest
     \/ cdef = None /\ manifest = None
  /\ step = "idle"
  /\ text = {}
  /\ ext = None /\ current = FALSE
  /\ wheel = None
  /\ process = None
  /\ outcome = "none"

Goto(from, to) ==
  /\ step = from
  /\ step' = to

End(how) ==
  /\ step' = "idle"
  /\ text' = {}
  /\ outcome' = how
-----------------------------------------------------------------------------
(* fetch.py replaces the archive and then the header, or is killed between *)
(* the two or, on the source path, while it copies one of them; what it    *)
(* takes from the server or the build may be damaged.                      *)
FetchRelease(r) ==
  /\ step = "idle"
  /\ archive' \in {r} \cup Damaged
  /\ header' \in {header, r} \cup Damaged
  /\ outcome' = "none"
  /\ UNCHANGED <<intree, files, step, text, cache, wheel, process>>

(* A wheel does not change any more, nor does a program that has imported  *)
(* it: both are followed until the next build starts.                      *)
Forget == wheel' = None /\ process' = None /\ outcome' = "none"

(* Mutant: a cdef that is there is not generated again.                    *)
StartBuildCached ==
  /\ Goto("idle", IF intree /\ header # None /\ cdef = None
                  THEN "generate" ELSE "read")
  /\ Forget
  /\ UNCHANGED <<fetched, files, text, cache>>

(* _ensure_cdef: regenerate if it can be done, else use the file there is. *)
StartBuild ==
  /\ Goto("idle", IF intree /\ header # None THEN "generate" ELSE "read")
  /\ Forget
  /\ UNCHANGED <<fetched, files, text, cache>>

IsDeferred(n) == n \in Matched /\ n \notin Allowed

(* Mutant: without the skip list.                                          *)
BoundUnskipped(declared) == {n \in declared : ~ IsDeferred(n)}

(* The functions of a header that gen_cdef binds.                          *)
Bound(declared) == {n \in declared \ Skipped : ~ IsDeferred(n)}

(* Mutant: a cdef without the preamble.                                    *)
WriteCdefBare ==
  /\ Goto("generate", "record")
  /\ cdef' = Bound(Declares[header])
  /\ UNCHANGED <<fetched, manifest, text, cache, wheel, process, outcome>>

WriteCdef ==
  /\ Goto("generate", "record")
  /\ cdef' = Preamble \cup Bound(Declares[header])
  /\ UNCHANGED <<fetched, manifest, text, cache, wheel, process, outcome>>

WriteManifest ==
  /\ Goto("record", "read")
  /\ manifest' = Bound(Declares[header])
  /\ UNCHANGED <<fetched, cdef, text, cache, wheel, process, outcome>>

(* gen_cdef may fail on a header that is no longer C, or no text.          *)
GenerateFails ==
  /\ step = "generate" /\ header \in Damaged
  /\ End("failed")
  /\ UNCHANGED <<fetched, files, cache, wheel, process>>

ReadCdef ==
  /\ cdef # None /\ cdef \cap Unparsed = {}
  /\ Goto("read", "compile")
  /\ text' = cdef
  /\ UNCHANGED <<fetched, files, cache, wheel, process, outcome>>

(* There is no cdef, or ffibuilder.cdef raises CDefError, as it may on     *)
(* what gen_cdef makes of a damaged header.                                *)
ReadCdefFails ==
  /\ step = "read"
  /\ \/ cdef = None
     \/ cdef # None /\ cdef \cap Unparsed # {}
     \/ intree /\ header \in Damaged
  /\ End("failed")
  /\ UNCHANGED <<fetched, files, cache, wheel, process>>
-----------------------------------------------------------------------------
Present  == header # None /\ archive # None
Declared == IF header = None THEN {} ELSE Declares[header]
Symbols  == IF archive = None THEN {} ELSE Exports[archive]

(* The preamble's functions stand for the types they need: without these,  *)
(* and without the parameter globals the C source names, there is an error.*)
TypesKnown == Preamble \subseteq Declared

(* Mutant: the generated code is not compared.                             *)
UpToDateIfThere == ext # None /\ current

(* cffi writes its C code only if it is other code; setuptools compares    *)
(* the extension with that file, and with nothing else: extra_objects are  *)
(* no dependency of it, nor is the header.                                 *)
UpToDate == ext # None /\ current /\ ext.bound = text

Reuse ==
  /\ UpToDate
  /\ Goto("compile", "reuse")
  /\ UNCHANGED <<fetched, files, text, cache, wheel, process, outcome>>

NewExtension(whole) ==
  [bound |-> text, header |-> header, archive |-> archive, whole |-> whole]

(* A function that the header does not declare, or the archive does not    *)
(* have, is an error for some compilers and linkers and none for others;   *)
(* so is damage to a file, whatever it is.                                 *)
Compile ==
  /\ ~ UpToDate
  /\ Present /\ TypesKnown
  /\ Goto("compile", "package")
  /\ ext' = NewExtension(TRUE) /\ current' = TRUE
  /\ UNCHANGED <<fetched, files, text, wheel, process, outcome>>

(* The C code is written; a linker that fails removes the extension.       *)
CompileFails ==
  /\ step = "compile" /\ ~ UpToDate
  /\ \/ ~ Present
     \/ ~ TypesKnown
     \/ ~ text \subseteq Declared \cap Symbols
     \/ header \in Damaged \/ archive \in Damaged
  /\ End("failed")
  /\ ext' \in {ext, None} /\ current' = FALSE
  /\ UNCHANGED <<fetched, files, wheel, process>>

(* The wheel takes the extension that is in build/ now.                    *)
Package ==
  /\ step \in {"package", "reuse"}
  /\ wheel' = [ext |-> ext, manifest |-> manifest]
  /\ process' = None
  /\ End(IF step = "reuse" THEN "reused" ELSE "built")
  /\ UNCHANGED <<fetched, files, cache>>

(* A kill while the extension is made may leave the C code written, or a   *)
(* part of the extension, which is newer than that.                        *)
KillBuild ==
  /\ step # "idle"
  /\ End("killed")
  /\ \/ UNCHANGED cache
     \/ /\ step = "compile" /\ ~ UpToDate
        /\ \/ ext' = ext /\ current' = FALSE
           \/ Present /\ ext' = NewExtension(FALSE) /\ current' = TRUE
  /\ UNCHANGED <<fetched, files, wheel, process>>
-----------------------------------------------------------------------------
(* import libdogecoin.  Without all symbols, Linux refuses the extension   *)
(* and with it the package; macOS binds the symbols when they are called.  *)
(* HDNode is there if its functions are.                                   *)
Import ==
  /\ wheel # None
  /\ \E loads \in BOOLEAN :
       /\ (wheel.ext.whole
            /\ wheel.ext.bound \subseteq Exports[wheel.ext.archive]) => loads
       /\ process' = [tier1 |-> loads,
                      tier3 |-> loads /\ Preamble \subseteq wheel.ext.bound]
  /\ UNCHANGED <<fetched, files, step, text, cache, wheel, outcome>>

(* _has, for the wrappers of the imported module.                          *)
Has(n) == n \in wheel.ext.bound

(* available(): the manifest of the package, else what the module has.     *)
Available ==
  IF wheel.manifest # None THEN wheel.manifest
                           ELSE {n \in Functions : Has(n)}

Next ==
  \/ \E r \in Releases : FetchRelease(r)
  \/ StartBuild \/ WriteCdef \/ WriteManifest \/ GenerateFails
  \/ ReadCdef \/ ReadCdefFails
  \/ Reuse \/ Compile \/ CompileFails \/ Package \/ KillBuild
  \/ Import

Spec == Init /\ [][Next]_vars
-----------------------------------------------------------------------------
Imported == process # None /\ process.tier1

(* What available() names can be called: no wrapper that asks for such a   *)
(* function raises NotImplementedError, although the manifest and the cdef *)
(* are two files that are written, committed and packaged one by one.      *)
AvailableIsBound == Imported => \A n \in Available : Has(n)

(* The bound surface is that of the header the wheel was compiled with:    *)
(* beside the preamble it has what the header declares and neither the     *)
(* skip list nor the curation gate holds back, whatever an earlier build   *)
(* for another release, or a killed one, has left in the tree.             *)
TracksHeader ==
  Imported /\ intree =>
    \A n \in Functions \ Preamble :
      Has(n) <=> /\ n \in Declares[wheel.ext.header] \ Skipped
                 /\ n \in Matched => n \in Allowed

(* The build is made for such a release: the header has the preamble's     *)
(* functions, and of all that are bound the archive has the code and cffi  *)
(* parses the prototype.  (The skip list has to name the others.)          *)
Supported(r) ==
  /\ Preamble \subseteq Declares[r]
  /\ Preamble \subseteq Exports[r] \ Unparsed
  /\ \A n \in Declares[r] \ Skipped :
       (n \in Matched => n \in Allowed) => n \in Exports[r] \ Unparsed

(* The header and the archive of such a release can be compiled, linked    *)
(* and imported, whatever is left of earlier builds.  Only files of two    *)
(* releases, damaged ones, or a link that was killed make it fail.         *)
BuildsAndLoads ==
  intree =>
    /\ outcome = "failed" /\ header \in Releases /\ Supported(header) =>
         header # archive
    /\ process # None /\ ~ process.tier1 =>
         LET made == wheel.ext IN
         made.header \in Releases /\ Supported(made.header) /\ made.whole =>
           made.header # made.archive

(* "No manual edits when the pin moves.": so do those of any release.      *)
NoManualEdits ==
  intree /\ outcome = "failed" /\ header \in Releases => header # archive

(* "then this compiles a cffi extension linking that static archive": the  *)
(* wheel of a build that ends has the code of the archive that is there.   *)
LinksFetched ==
  intree /\ outcome \in {"built", "reused"} /\ wheel.ext.whole =>
    wheel.ext.archive = archive
=============================================================================
