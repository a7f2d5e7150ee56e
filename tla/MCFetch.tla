------------------------------ MODULE MCFetch ------------------------------
(***************************************************************************)
(* Instances of Fetch: an old tag with SHA256SUMS.asc, a new one with      *)
(* checksums.txt, and a tag without binaries, for two hosts of which one   *)
(* may have no archive, and a third that configure does not tell from the  *)
(* machine's own.                                                          *)
(***************************************************************************)
EXTENDS Fetch

CONSTANTS amd64, win, arm, lib, api

Binary(sums, hosts, packed, ships) ==
  [sums |-> sums, listed |-> hosts, assets |-> hosts, packed |-> packed,
   ships |-> ships]

CpuOf == [h \in Hosts |-> IF h = arm THEN "aarch64" ELSE "x86_64"]

SourceOnly(ships) == Binary("none", {}, {}, ships)

Both == {lib, api}

(* Releases as they should be: every archive is complete.                  *)
Releases ==
  [t \in {"old", "new", "src"} |->
     CASE t = "old" -> Binary("SHA256SUMS.asc", {amd64, arm}, Both, Both)
       [] t = "new" -> Binary("checksums.txt", {amd64}, Both, Both)
       [] OTHER     -> SourceOnly(Both)]

Request(t, h, s, p) == [tag |-> t, host |-> h, source |-> s, pin |-> p]

(* The tag without binaries is built for one host, with one pin or a       *)
(* mistyped one; another is built for two other hosts, and fetched as well.*)
Mixed ==
  {Request("old", amd64, FALSE, "none")}
    \cup {Request("new", h, FALSE, "none") : h \in {amd64, arm}}
    \cup {Request("new", h, TRUE, "none") : h \in {win, arm}}
    \cup {Request("src", amd64, FALSE, p) : p \in {"right", "wrong"}}

(* The tag without binaries is built for two hosts.                        *)
TwoBuilds == {Request("src", h, FALSE, "right") : h \in {amd64, arm}}
=============================================================================
