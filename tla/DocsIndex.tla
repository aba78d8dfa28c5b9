------------------------------- MODULE DocsIndex -------------------------------
(***************************************************************************)
(* The documentation index (service/docs/index.go, build.go): two files,    *)
(* the index and its status, that a starting process rebuilds               *)
(* (cmd/app/main.go), and the gate that lets turns run once both say so.    *)
(* Every file operation may fail, the process may die between any two, and  *)
(* a restart finds what is left.                                            *)
(***************************************************************************)
EXTENDS Integers

CONSTANTS
    MaxVersion,   \* bound: versions of the Markdown files
    MaxStarts     \* bound: starts of the process

DocsAssumption == MaxVersion \in Nat \ {0} /\ MaxStarts \in Nat

VARIABLES
    docs,         \* the version of the Markdown files
    index,        \* docs_index.json: 0 for none, or the version it was built from
    status,       \* docs_index.status.json
    pc, auto,     \* where the process is, and whether NewIndex builds
    built,        \* the documents that this build collected
    starts,       \* counter of the bound
    kept          \* ghost: this process could not remove the old index

docsVars == <<docs, index, status, pc, auto, built, starts, kept>>

StatusNames == {"none", "torn", "building", "ready", "failed"}

DocsInit ==
    /\ docs = 1 /\ index = 0 /\ status = "none"
    /\ pc = "down" /\ auto = FALSE /\ built = 0 /\ starts = 0 /\ kept = FALSE

-----------------------------------------------------------------------------
(* What the two files say together: without a readable status the file      *)
(* alone decides.                                                           *)

IndexFileExists == index # 0

Status ==
    CASE status \in {"building", "failed"} -> status
      [] IndexFileExists                   -> "ready"
      [] OTHER                             -> "missing"

Usable == Status = "ready" /\ IndexFileExists

(* SearchHits, ListDocs and ReadDoc: the documents they work on, none when  *)
(* the index is not usable.                                                 *)
Load == IF Usable THEN index ELSE 0

-----------------------------------------------------------------------------
(* The Markdown files are edited while nobody watches.                      *)
Edited ==
    /\ docs < MaxVersion /\ docs' = docs + 1
    /\ UNCHANGED <<index, status, pc, auto, built, starts, kept>>

(* NewIndex builds when there is no file, main builds in any case.          *)
Starts ==
    /\ pc = "down" /\ starts < MaxStarts /\ starts' = starts + 1
    /\ pc' = "remove" /\ auto' = ~IndexFileExists
    /\ built' = 0 /\ kept' = FALSE
    /\ UNCHANGED <<docs, index, status>>

Dies ==
    /\ pc # "down" /\ pc' = "down"
    /\ UNCHANGED <<docs, index, status, auto, built, starts, kept>>

(* A build is over.  An error of the first ends the process; main only      *)
(* warns of an error of its own.                                            *)
Over(ok) ==
    IF auto THEN pc' = (IF ok THEN "remove" ELSE "down") /\ auto' = FALSE
            ELSE pc' = "serving" /\ UNCHANGED auto

(* os.WriteFile of the status: done, not even opened, or truncated.         *)
StatusWritten(s) == status' = s
StatusFails == status' \in {status, "torn"}

(* A plausible slip: the old index stays while the new one is built.        *)
Removes_m ==
    /\ pc = "remove" /\ pc' = "building"
    /\ UNCHANGED <<docs, index, status, auto, built, starts, kept>>

(* An error of the removal is ignored.                                      *)
Removes ==
    /\ pc = "remove" /\ pc' = "building"
    /\ \/ index' = 0 /\ UNCHANGED kept
       \/ kept' = TRUE /\ UNCHANGED index
    /\ UNCHANGED <<docs, status, auto, built, starts>>

(* Reindex returns without marking the index as failed.                     *)
MarksBuilding ==
    /\ pc = "building"
    /\ \/ StatusWritten("building") /\ pc' = "collect" /\ UNCHANGED auto
       \/ StatusFails /\ Over(FALSE)
    /\ UNCHANGED <<docs, index, built, starts, kept>>

(* Files that cannot be read are left out without a word.                   *)
Collects ==
    /\ pc = "collect" /\ pc' = "rename" /\ built' = docs
    /\ UNCHANGED <<docs, index, status, auto, starts, kept>>

(* A temporary file takes the index's name.                                 *)
Renames ==
    /\ pc = "rename"
    /\ \/ index' = built /\ pc' = "ready"
       \/ pc' = "failed" /\ UNCHANGED index
    /\ UNCHANGED <<docs, status, auto, built, starts, kept>>

MarksReady ==
    /\ pc = "ready"
    /\ \/ StatusWritten("ready") /\ Over(TRUE)
       \/ StatusFails /\ pc' = "failed" /\ UNCHANGED auto
    /\ UNCHANGED <<docs, index, built, starts, kept>>

MarksFailed ==
    /\ pc = "failed"
    /\ StatusWritten("failed") \/ StatusFails
    /\ Over(FALSE)
    /\ UNCHANGED <<docs, index, built, starts, kept>>

DocsNext ==
    \/ Edited \/ Starts \/ Dies
    \/ Removes \/ MarksBuilding \/ Collects \/ Renames \/ MarksReady \/ MarksFailed

DocsSpec == DocsInit /\ [][DocsNext]_docsVars

-----------------------------------------------------------------------------
DocsTypeOK ==
    /\ docs \in 1..MaxVersion /\ index \in 0..MaxVersion
    /\ status \in StatusNames /\ auto \in BOOLEAN /\ kept \in BOOLEAN
    /\ built \in 0..MaxVersion /\ starts \in 0..MaxStarts
    /\ pc \in {"down", "remove", "building", "collect", "rename", "ready", "failed", "serving"}

(* Turns run only over the index that this process built, from the files as *)
(* it found them, whatever failed and however earlier processes died.       *)
(* Excepted is a start that could not remove the old index.                 *)
UsableIsCurrent == pc = "serving" /\ Usable => Load = built \/ kept
=============================================================================
