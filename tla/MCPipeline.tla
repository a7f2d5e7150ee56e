----------------------------- MODULE MCPipeline -----------------------------
(***************************************************************************)
(* Instances of Pipeline: a tag with an archive for the builds' host, and  *)
(* one that is built there from source and has one function more.          *)
(***************************************************************************)
EXTENDS PipelineProofs

CONSTANTS amd64, lib, api, address, hdnode, ex

CpuOf == [h \in Hosts |-> "x86_64"]

Files2 == {lib, api}

TwoTags ==
  [t \in {"old", "new"} |->
     [sums |-> IF t = "old" THEN "checksums.txt" ELSE "none",
      listed |-> {amd64}, assets |-> {amd64},
      packed |-> Files2, ships |-> Files2]]

Request(t, s, p) == [tag |-> t, host |-> amd64, source |-> s, pin |-> p]

Fetches == {Request("old", FALSE, "none"), Request("new", TRUE, "right")}

(* Of a file that was cut off, the header lacks the last functions, here   *)
(* the preamble's among them, and the archive has none that a linker finds.*)
DeclaredBy ==
  [r \in DOMAIN TwoTags \cup Damaged |->
     CASE r = "new" -> {address, hdnode, ex}
       [] r = "old" -> {address, hdnode}
       [] OTHER -> {address}]
ExportedBy ==
  [r \in DOMAIN TwoTags \cup Damaged |->
     IF r \in Damaged THEN {} ELSE DeclaredBy[r]]

(* The theorems are about this instance among others.                      *)
ASSUME InstanceIsCovered == ArchivesHaveLib /\ BuildsMakeLib /\ HaveBoth
=============================================================================
