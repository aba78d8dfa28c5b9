--------------------------- MODULE SessionIndex ----------------------------
(***************************************************************************)
(* The session index of internal/infrastructure/repository/jsonl: one      *)
(* append-only file, a thread's state being its last row.  Every update    *)
(* (SpeakFloor.Acquire, Worker.markActiveTurn, Store.ClearActiveTurn,      *)
(* Worker.applyAutoTitle, Store.RenameThread, Store.SoftDeleteThread)      *)
(* reads the last row, changes its copy and appends the whole copy; only   *)
(* the append holds a flock.  So an update that another one overtakes      *)
(* writes back what it had read.                                           *)
(*                                                                         *)
(* The thread lock is atomic here (ThreadLock opens it up) and a turn's    *)
(* rounds are one step (TurnLifecycle).  The floor's time and who may      *)
(* retry or interrupt are TurnLifecycle's too.                             *)
(***************************************************************************)
CONSTANTS Turns,     \* StartTurn/RetryTurn callers, each becoming a worker
          Titlers,   \* goroutines for runAutoTitleJob (bound)
          Renamers,  \* RenameThread callers
          Deleters,  \* DeleteThread callers
          Nil

Writers == Turns \cup Titlers \cup Renamers \cup Deleters

ASSUME RolesDisjoint == /\ Turns \cap (Titlers \cup Renamers \cup Deleters) = {}
                        /\ Titlers \cap (Renamers \cup Deleters) = {}
                        /\ Renamers \cap Deleters = {}
                        /\ Nil \notin Writers

VARIABLES row,         \* the thread's last row in session_index.jsonl
          transcript,  \* its jsonl file: "live", "gone" since a delete, or "left": a
                       \* delete could not remove it and nothing was written since
          lock,        \* the turn whose token is in the lock file
          pc,          \* where each writer is
          snap,        \* the row each writer has read and not yet written back
          behind,      \* writers whose copy is no longer the last row (history)
          lost         \* some append overwrote a row its writer had not read (history)

vars == <<row, transcript, lock, pc, snap, behind, lost>>

FirstRow == [title |-> "pending", deleted |-> FALSE, active |-> Nil, floor |-> Nil]

\* The thread exists: CreateThread has appended its first row and thread.started.
Init == /\ row = FirstRow
        /\ transcript = "live"
        /\ lock = Nil
        /\ pc = [w \in Writers |-> "idle"]
        /\ snap = [w \in Writers |-> FirstRow]
        /\ behind = {}
        /\ lost = FALSE

At(w, place) == pc[w] = place

Goto(w, place) == pc' = [pc EXCEPT ![w] = place]

\* ResolveConversation: scan the file, keep the thread's last row.
Read(w, next) ==
    /\ snap' = [snap EXCEPT ![w] = row]
    /\ behind' = behind \ {w}
    /\ Goto(w, next)
    /\ UNCHANGED <<row, transcript, lock, lost>>

\* AppendConversationMeta: the changed copy becomes the last row.
Append(w, copy, next) ==
    /\ row' = copy
    /\ behind' = Writers \ {w}
    /\ lost' = (lost \/ w \in behind)
    /\ snap' = [snap EXCEPT ![w] = FirstRow]
    /\ Goto(w, next)
    /\ UNCHANGED <<transcript, lock>>

\* The copy is dropped: the append fails, or nothing is to be appended.
Drop(w, next) ==
    /\ snap' = [snap EXCEPT ![w] = FirstRow]
    /\ Goto(w, next)
    /\ UNCHANGED <<row, transcript, lock, behind, lost>>

\* Nothing but where the writer is.
Step(w, next) == Goto(w, next) /\ UNCHANGED <<row, transcript, lock, snap, behind, lost>>
-----------------------------------------------------------------------------
(* A turn *)

\* StartTurn and RetryTurn up to Floor.Assert: the thread is not deleted.
StartTurn(t) == At(t, "idle") /\ ~row.deleted /\ Step(t, "checked")

TryAcquire(t) ==
    /\ At(t, "checked") /\ lock = Nil
    /\ lock' = t
    /\ Goto(t, "acquire")
    /\ UNCHANGED <<row, transcript, snap, behind, lost>>

ThreadBusy(t) == At(t, "checked") /\ lock # Nil /\ Step(t, "idle")

AcquireRead(t) == At(t, "acquire") /\ Read(t, "acquiring")

\* SpeakFloor.Acquire sets Status=active whatever it has read.
AcquireAppend(t) ==
    /\ At(t, "acquiring")
    /\ Append(t, [snap[t] EXCEPT !.deleted = FALSE, !.active = t, !.floor = t], "queued")

\* Acquire's read or its append fails, or StartTurn's SeqHead after it: Release and
\* return.
StartFails(t) ==
    /\ pc[t] \in {"acquire", "acquiring", "queued"}
    /\ lock' = Nil
    /\ snap' = [snap EXCEPT ![t] = FirstRow]
    /\ Goto(t, "idle")
    /\ UNCHANGED <<row, transcript, behind, lost>>

\* The worker's first items (AppendItem creates the file when it is missing), or
\* some of them.
Begin(t) ==
    /\ At(t, "queued")
    /\ \/ Goto(t, "mark") /\ transcript' = "live"
       \/ Goto(t, "failed") /\ transcript' \in {transcript, "live"}
    /\ UNCHANGED <<row, lock, snap, behind, lost>>

MarkRead(t) == At(t, "mark") /\ Read(t, "marking")

\* markActiveTurn; it sets Status=active as well.
MarkAppend(t) ==
    /\ At(t, "marking")
    /\ Append(t, [snap[t] EXCEPT !.deleted = FALSE, !.active = t, !.floor = IF @ = Nil THEN t ELSE @], "run")

\* Its read or its append fails, which fails the turn.
MarkFails(t) == pc[t] \in {"mark", "marking"} /\ Drop(t, "failed")

\* The turn's remaining items.  A completed turn goes on to its title.
Finish(t) ==
    /\ \/ At(t, "run") /\ Goto(t, "title") /\ transcript' = "live"
       \/ pc[t] \in {"run", "failed"} /\ Goto(t, "clear") /\ transcript' \in {transcript, "live"}
    /\ UNCHANGED <<row, lock, snap, behind, lost>>

\* maybeAutoTitle: only a pending title.  The stub titles in place, a model in a
\* goroutine of its own that outlives the turn and its lock.  The first user text
\* may be missing.
TitleSkipped(t) == At(t, "title") /\ Step(t, "clear")

TitleInPlace(t) == At(t, "title") /\ row.title = "pending" /\ Step(t, "apply")

TitleSpawned(t, j) ==
    /\ At(t, "title") /\ row.title = "pending"
    /\ At(j, "idle")
    /\ pc' = [pc EXCEPT ![t] = "clear", ![j] = "apply"]
    /\ UNCHANGED <<row, transcript, lock, snap, behind, lost>>

\* Where applyAutoTitle returns to.
AfterTitle(w) == IF w \in Turns THEN "clear" ELSE "idle"

\* Mutant: the manual title is checked when the job is scheduled only.
ApplyRead_m(w) ==
    /\ At(w, "apply")
    /\ ~row.deleted
    /\ Read(w, "applying")

\* applyAutoTitle: neither over a manual title nor on a deleted thread.
ApplyRead(w) ==
    /\ At(w, "apply")
    /\ row.title # "manual" /\ ~row.deleted
    /\ Read(w, "applying")

ApplySkipped(w) ==
    /\ At(w, "apply")
    /\ row.title = "manual" \/ row.deleted
    /\ Step(w, AfterTitle(w))

\* Mutant: via ("llm" or "truncate") is stored as the title's source.
ApplyAppend_m(w) ==
    /\ At(w, "applying")
    /\ Append(w, [snap[w] EXCEPT !.title = "llm"], AfterTitle(w))

ApplyAppend(w) ==
    /\ At(w, "applying")
    /\ Append(w, [snap[w] EXCEPT !.title = "auto"], AfterTitle(w))

ApplyFails(w) == pc[w] \in {"apply", "applying"} /\ Drop(w, AfterTitle(w))

\* Mutant: Release runs before ClearActiveTurn.
ClearRead_m(t) ==
    /\ At(t, "clear")
    /\ lock' = Nil
    /\ snap' = [snap EXCEPT ![t] = row]
    /\ behind' = behind \ {t}
    /\ Goto(t, "clearing")
    /\ UNCHANGED <<row, transcript, lost>>

ClearRead(t) == At(t, "clear") /\ Read(t, "clearing")

ClearAppend(t) ==
    /\ At(t, "clearing")
    /\ Append(t, [snap[t] EXCEPT !.active = Nil], "release")

\* ClearActiveTurn's error is ignored.
ClearFails(t) == pc[t] \in {"clear", "clearing"} /\ Drop(t, "release")

Release(t) ==
    /\ At(t, "release")
    /\ lock' = IF lock = t THEN Nil ELSE lock
    /\ Goto(t, "idle")
    /\ UNCHANGED <<row, transcript, snap, behind, lost>>
-----------------------------------------------------------------------------
(* The side bar's requests *)

RenameRead(r) == At(r, "idle") /\ ~row.deleted /\ Read(r, "renaming")

RenameAppend(r) ==
    /\ At(r, "renaming")
    /\ Append(r, [snap[r] EXCEPT !.title = "manual"], "idle")

RenameFails(r) == At(r, "renaming") /\ Drop(r, "idle")

\* SoftDeleteThread reads first and looks for the lock file afterwards.
DeleteRead(d) == At(d, "idle") /\ Read(d, "stat")

DeleteBusy(d) == At(d, "stat") /\ lock # Nil /\ Drop(d, "idle")

\* Mutant: a held lock does not keep the thread.
DeleteStat_m(d) == At(d, "stat") /\ Step(d, "remove")

DeleteStat(d) == At(d, "stat") /\ lock = Nil /\ Step(d, "remove")

\* The transcript, its seq file and the interrupt flags.  os.Remove's errors are
\* ignored: a file that cannot be removed stays and the delete goes on.
DeleteRemove(d) ==
    /\ At(d, "remove")
    /\ \/ transcript' = "gone"
       \/ transcript # "gone" /\ transcript' = "left"
    /\ Goto(d, "deleting")
    /\ UNCHANGED <<row, lock, snap, behind, lost>>

DeleteAppend(d) ==
    /\ At(d, "deleting")
    /\ Append(d, [snap[d] EXCEPT !.deleted = TRUE, !.active = Nil, !.floor = Nil], "idle")

\* The stat or the append fails.
DeleteFails(d) == pc[d] \in {"stat", "deleting"} /\ Drop(d, "idle")
-----------------------------------------------------------------------------
(* Failures *)

\* The process dies between two steps: files stay.
Crash ==
    /\ pc' = [w \in Writers |-> "idle"]
    /\ snap' = [w \in Writers |-> FirstRow]
    /\ UNCHANGED <<row, transcript, lock, behind, lost>>

\* The record of a dead process expires and the next caller overwrites or removes it.
LockExpires ==
    /\ lock # Nil /\ pc[lock] \in {"idle", "checked"}
    /\ lock' = Nil
    /\ UNCHANGED <<row, transcript, pc, snap, behind, lost>>

Turn(t) == \/ StartTurn(t) \/ TryAcquire(t) \/ ThreadBusy(t)
           \/ AcquireRead(t) \/ AcquireAppend(t) \/ StartFails(t)
           \/ Begin(t) \/ MarkRead(t) \/ MarkAppend(t) \/ MarkFails(t) \/ Finish(t)
           \/ TitleSkipped(t) \/ TitleInPlace(t) \/ \E j \in Titlers : TitleSpawned(t, j)
           \/ ClearRead(t) \/ ClearAppend(t) \/ ClearFails(t) \/ Release(t)

ApplyAutoTitle(w) == ApplyRead(w) \/ ApplySkipped(w) \/ ApplyAppend(w) \/ ApplyFails(w)

Rename(r) == RenameRead(r) \/ RenameAppend(r) \/ RenameFails(r)

Delete(d) == \/ DeleteRead(d) \/ DeleteBusy(d) \/ DeleteStat(d)
             \/ DeleteRemove(d) \/ DeleteAppend(d) \/ DeleteFails(d)

Next == \/ \E t \in Turns : Turn(t)
        \/ \E w \in Turns \cup Titlers : ApplyAutoTitle(w)
        \/ \E r \in Renamers : Rename(r)
        \/ \E d \in Deleters : Delete(d)
        \/ Crash \/ LockExpires

Spec == Init /\ [][Next]_vars
-----------------------------------------------------------------------------
(* Properties *)

Row == [title : {"pending", "auto", "manual"}, deleted : BOOLEAN,
        active : Turns \cup {Nil}, floor : Turns \cup {Nil}]

\* Between TryAcquire and Release.
InTurn == {"acquire", "acquiring", "queued", "mark", "marking", "run", "failed",
           "title", "apply", "applying", "clear", "clearing", "release"}

\* Between the read of an update and its append.
Updating == {"acquiring", "marking", "applying", "clearing", "renaming", "stat", "remove", "deleting"}

TypeOK == /\ row \in Row
          /\ transcript \in {"live", "left", "gone"}
          /\ lock \in Turns \cup {Nil}
          /\ pc \in [Writers -> {"idle", "checked", "renaming", "stat", "remove", "deleting"} \cup InTurn]
          /\ snap \in [Writers -> Row]
          /\ behind \subseteq Writers
          /\ lost \in BOOLEAN

\* Two turns never update the row at the same time: the deferred ClearActiveTurn
\* runs before the deferred Release (worker.go:108-111), and Acquire after
\* TryAcquire.  Only a rename, a title job or a delete can overlap a turn's update.
TurnsUpdateInTurn ==
    \A t, u \in Turns : pc[t] \in Updating /\ pc[u] \in Updating => t = u

\* As long as no update was lost, nothing is written to a thread from the moment its
\* delete looks for the lock file until its row says deleted, nor afterwards: a deleted
\* thread has no transcript, or what its delete could not remove, and no turn goes on
\* under the delete, although SoftDeleteThread looks for the lock file once and removes
\* the files later (store.go:187-200).
NothingAfterDelete == row.deleted /\ ~lost => transcript # "live"

\* The turn that wrote itself into the row and has not let go of the thread.
Running == IF lock # Nil /\ pc[lock] \in InTurn \ {"acquire", "acquiring"} THEN lock ELSE Nil

\* The index implements the row of SessionRow until an update is lost.
Promise == INSTANCE SessionRow WITH running <- Running

ImplementsRow == Promise!Spec

\* "Manual titles are never overwritten" (docs/architecture/turn-loop.md:94).
ManualTitleKept == [][row.title = "manual" => row'.title = "manual"]_row
=============================================================================
