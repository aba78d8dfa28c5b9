------------------------ MODULE SessionIndex_proofs ------------------------
(***************************************************************************)
(* Proofs about the session index for every set of turns, title jobs,      *)
(* renames and deletes.  The argument is one inductive invariant: a copy   *)
(* that nobody overtook is the last row, so that what its writer checked   *)
(* on the copy still holds of the row it replaces.                         *)
(***************************************************************************)
EXTENDS SessionIndex, TLAPS

\* Each kind of writer keeps to its own places.
Roles == /\ \A t \in Turns : pc[t] \in {"idle", "checked"} \cup InTurn
         /\ \A j \in Titlers : pc[j] \in {"idle", "apply", "applying"}
         /\ \A r \in Renamers : pc[r] \in {"idle", "renaming"}
         /\ \A d \in Deleters : pc[d] \in {"idle", "stat", "remove", "deleting"}

\* Whoever is in a turn has the lock.
LockHeld == \A t \in Turns : pc[t] \in InTurn => lock = t

\* A copy that was not overtaken is the last row.
Fresh == \A w \in Writers : pc[w] \in Updating /\ w \notin behind => snap[w] = row

\* From Acquire's append to ClearActiveTurn's.
Written == {"queued", "mark", "marking", "run", "failed", "title", "apply", "applying", "clear", "clearing"}

\* A running turn finds itself in the row.
Marked == ~lost => \A t \in Turns : pc[t] \in Written =>
                       row.active = t /\ row.floor = t /\ ~row.deleted

\* The checks of applyAutoTitle and RenameThread hold of the copy they were made on.
Guarded == \A w \in Writers : /\ pc[w] = "applying" => snap[w].title # "manual" /\ ~snap[w].deleted
                              /\ pc[w] = "renaming" => ~snap[w].deleted

\* A delete that was not overtaken has no running turn beside it.
Alone == \A d \in Deleters : pc[d] \in {"remove", "deleting"} /\ d \notin behind => Running = Nil

\* ... and nothing was written since it removed the transcript, or tried to.
Gone == \A d \in Deleters : pc[d] = "deleting" /\ d \notin behind => transcript # "live"

IInv == /\ TypeOK /\ Roles /\ LockHeld
        /\ Fresh /\ Guarded
        /\ Marked /\ Alone /\ Gone /\ NothingAfterDelete
-----------------------------------------------------------------------------
LEMMA IInvInit == Init => IInv
<1> SUFFICES ASSUME Init PROVE IInv
  OBVIOUS
<1> USE DEF Init, Writers
<1>1. FirstRow \in Row /\ TypeOK
  BY DEF TypeOK, Row, FirstRow
<1>2. Roles /\ LockHeld
  BY DEF Roles, LockHeld, InTurn
<1>3. Fresh /\ Guarded
  BY DEF Fresh, Guarded, Updating
<1>4. Marked /\ Alone /\ Gone /\ NothingAfterDelete
  BY DEF Marked, Alone, Gone, NothingAfterDelete, Written, FirstRow
<1>5. QED
  BY <1>1, <1>2, <1>3, <1>4 DEF IInv

\* The invariant is inductive: every step of every writer, a crash and the lock's
\* expiry keep it.
THEOREM Inductive == Spec => []IInv
<1>1. Init => IInv
  BY IInvInit
<1>2. IInv /\ [Next]_vars => IInv'
  <2> SUFFICES ASSUME IInv, [Next]_vars PROVE IInv'
    OBVIOUS
  <2> USE RolesDisjoint
      DEF IInv, TypeOK, Row, FirstRow, Writers, Roles, LockHeld, Fresh, Marked, Guarded, Alone,
          Gone, NothingAfterDelete, InTurn, Updating, Written, Running, At, Goto
  <2>1. ASSUME NEW t \in Turns, StartTurn(t) PROVE IInv'
    BY <2>1 DEF StartTurn, Step
  <2>2. ASSUME NEW t \in Turns, TryAcquire(t) PROVE IInv'
    BY <2>2 DEF TryAcquire
  <2>3. ASSUME NEW t \in Turns, ThreadBusy(t) PROVE IInv'
    BY <2>3 DEF ThreadBusy, Step
  <2>4. ASSUME NEW t \in Turns, AcquireRead(t) PROVE IInv'
    BY <2>4 DEF AcquireRead, Read
  <2>5. ASSUME NEW t \in Turns, AcquireAppend(t) PROVE IInv'
    <3> USE <2>5 DEF AcquireAppend, Append
    <3>1. row' \in Row
      <4>1. snap[t] \in Row /\ Nil \in Turns \cup {Nil}
        BY DEF Row
      <4>2. QED
        BY <4>1 DEF Row
    <3>2. TypeOK'
      BY <3>1
    <3>3. Roles' /\ LockHeld'
      OBVIOUS
    <3>4. Fresh' /\ Guarded' /\ behind' = Writers \ {t}
      OBVIOUS
    <3>5. ~lost' => ~lost /\ snap[t] = row
      OBVIOUS
    <3>6. Marked'
      BY <3>5
    <3>7. Alone' /\ Gone'
      BY <3>4
    <3>8. NothingAfterDelete'
      BY <3>5
    <3>9. QED
      BY <3>2, <3>3, <3>4, <3>6, <3>7, <3>8
  <2>6. ASSUME NEW t \in Turns, StartFails(t) PROVE IInv'
    BY <2>6 DEF StartFails
  <2>7. ASSUME NEW t \in Turns, Begin(t) PROVE IInv'
    <3>1. At(t, "queued") /\ UNCHANGED <<row, lock, snap, behind, lost>>
      BY <2>7 DEF Begin
    <3>2. CASE Goto(t, "mark") /\ transcript' = "live"
      BY <3>1, <3>2
    <3>3. CASE Goto(t, "failed") /\ transcript' = "live"
      BY <3>1, <3>3
    <3>4. CASE Goto(t, "failed") /\ UNCHANGED transcript
      BY <3>1, <3>4
    <3>5. QED
      BY <2>7, <3>2, <3>3, <3>4 DEF Begin
  <2>8. ASSUME NEW t \in Turns, MarkRead(t) PROVE IInv'
    BY <2>8 DEF MarkRead, Read
  <2>9. ASSUME NEW t \in Turns, MarkAppend(t) PROVE IInv'
    <3> USE <2>9 DEF MarkAppend, Append
    <3>1. row' \in Row
      <4>1. snap[t] \in Row /\ Nil \in Turns \cup {Nil}
        BY DEF Row
      <4>2. QED
        BY <4>1 DEF Row
    <3>2. TypeOK'
      BY <3>1
    <3>3. Roles' /\ LockHeld'
      OBVIOUS
    <3>4. Fresh' /\ Guarded' /\ behind' = Writers \ {t}
      OBVIOUS
    <3>5. ~lost' => ~lost /\ snap[t] = row
      OBVIOUS
    <3>6. Marked'
      BY <3>5
    <3>7. Alone' /\ Gone'
      BY <3>4
    <3>8. NothingAfterDelete'
      BY <3>5
    <3>9. QED
      BY <3>2, <3>3, <3>4, <3>6, <3>7, <3>8
  <2>10. ASSUME NEW t \in Turns, MarkFails(t) PROVE IInv'
    BY <2>10 DEF MarkFails, Drop
  <2>11. ASSUME NEW t \in Turns, Finish(t) PROVE IInv'
    <3>1. pc[t] \in {"run", "failed"} /\ UNCHANGED <<row, lock, snap, behind, lost>>
      BY <2>11 DEF Finish
    <3>2. CASE Goto(t, "title") /\ transcript' = "live"
      BY <3>1, <3>2
    <3>3. CASE Goto(t, "clear") /\ transcript' = "live"
      BY <3>1, <3>3
    <3>4. CASE Goto(t, "clear") /\ UNCHANGED transcript
      BY <3>1, <3>4
    <3>5. QED
      BY <2>11, <3>2, <3>3, <3>4 DEF Finish
  <2>12. ASSUME NEW t \in Turns, TitleSkipped(t) PROVE IInv'
    BY <2>12 DEF TitleSkipped, Step
  <2>13. ASSUME NEW t \in Turns, TitleInPlace(t) PROVE IInv'
    BY <2>13 DEF TitleInPlace, Step
  <2>14. ASSUME NEW t \in Turns, ClearRead(t) PROVE IInv'
    BY <2>14 DEF ClearRead, Read
  <2>15. ASSUME NEW t \in Turns, ClearAppend(t) PROVE IInv'
    <3> USE <2>15 DEF ClearAppend, Append
    <3>1. row' \in Row
      OBVIOUS
    <3>2. TypeOK'
      BY <3>1
    <3>3. Roles' /\ LockHeld'
      OBVIOUS
    <3>4. Fresh' /\ Guarded' /\ behind' = Writers \ {t}
      OBVIOUS
    <3>5. ~lost' => ~lost /\ snap[t] = row
      OBVIOUS
    <3>6. Marked'
      BY <3>5
    <3>7. Alone' /\ Gone'
      BY <3>4
    <3>8. NothingAfterDelete'
      BY <3>5
    <3>9. QED
      BY <3>2, <3>3, <3>4, <3>6, <3>7, <3>8
  <2>16. ASSUME NEW t \in Turns, ClearFails(t) PROVE IInv'
    BY <2>16 DEF ClearFails, Drop
  <2>17. ASSUME NEW t \in Turns, Release(t) PROVE IInv'
    BY <2>17 DEF Release
  <2>18. ASSUME NEW w \in Turns \cup Titlers, ApplyRead(w) PROVE IInv'
    BY <2>18 DEF ApplyRead, Read
  <2>19. ASSUME NEW w \in Turns \cup Titlers, ApplySkipped(w) PROVE IInv'
    BY <2>19 DEF ApplySkipped, Step, AfterTitle
  <2>20. ASSUME NEW w \in Turns \cup Titlers, ApplyAppend(w) PROVE IInv'
    <3> USE <2>20 DEF ApplyAppend, Append, AfterTitle
    <3>1. row' \in Row
      OBVIOUS
    <3>2. TypeOK'
      BY <3>1
    <3>3. Roles' /\ LockHeld'
      OBVIOUS
    <3>4. Fresh' /\ Guarded' /\ behind' = Writers \ {w}
      OBVIOUS
    <3>5. ~lost' => ~lost /\ snap[w] = row
      OBVIOUS
    <3>6. Marked'
      BY <3>5
    <3>7. Alone' /\ Gone'
      BY <3>4
    <3>8. NothingAfterDelete'
      BY <3>5
    <3>9. QED
      BY <3>2, <3>3, <3>4, <3>6, <3>7, <3>8
  <2>21. ASSUME NEW w \in Turns \cup Titlers, ApplyFails(w) PROVE IInv'
    BY <2>21 DEF ApplyFails, Drop, AfterTitle
  <2>22. ASSUME NEW r \in Renamers, RenameRead(r) PROVE IInv'
    BY <2>22 DEF RenameRead, Read
  <2>23. ASSUME NEW r \in Renamers, RenameAppend(r) PROVE IInv'
    <3> USE <2>23 DEF RenameAppend, Append
    <3>1. row' \in Row
      OBVIOUS
    <3>2. TypeOK'
      BY <3>1
    <3>3. Roles' /\ LockHeld'
      OBVIOUS
    <3>4. Fresh' /\ Guarded' /\ behind' = Writers \ {r}
      OBVIOUS
    <3>5. ~lost' => ~lost /\ snap[r] = row
      OBVIOUS
    <3>6. Marked'
      BY <3>5
    <3>7. Alone' /\ Gone'
      BY <3>4
    <3>8. NothingAfterDelete'
      BY <3>5
    <3>9. QED
      BY <3>2, <3>3, <3>4, <3>6, <3>7, <3>8
  <2>24. ASSUME NEW r \in Renamers, RenameFails(r) PROVE IInv'
    BY <2>24 DEF RenameFails, Drop
  <2>25. ASSUME NEW d \in Deleters, DeleteRead(d) PROVE IInv'
    BY <2>25 DEF DeleteRead, Read
  <2>26. ASSUME NEW d \in Deleters, DeleteBusy(d) PROVE IInv'
    BY <2>26 DEF DeleteBusy, Drop
  <2>27. ASSUME NEW d \in Deleters, DeleteStat(d) PROVE IInv'
    BY <2>27 DEF DeleteStat, Step
  <2>28. ASSUME NEW d \in Deleters, DeleteRemove(d) PROVE IInv'
    BY <2>28 DEF DeleteRemove
  <2>29. ASSUME NEW d \in Deleters, DeleteAppend(d) PROVE IInv'
    <3> USE <2>29 DEF DeleteAppend, Append
    <3>1. row' \in Row
      <4>1. snap[d] \in Row /\ Nil \in Turns \cup {Nil}
        BY DEF Row
      <4>2. QED
        BY <4>1 DEF Row
    <3>2. TypeOK'
      BY <3>1
    <3>3. Roles' /\ LockHeld'
      OBVIOUS
    <3>4. Fresh' /\ Guarded' /\ behind' = Writers \ {d}
      OBVIOUS
    <3>5. ~lost' => ~lost /\ snap[d] = row
      OBVIOUS
    <3>6. Marked'
      <4>1. SUFFICES ASSUME ~lost', NEW t \in Turns, pc'[t] \in Written PROVE FALSE
        BY DEF Marked
      <4>2. pc[t] \in Written /\ d \notin behind
        BY <4>1
      <4>3. lock = t /\ lock # Nil /\ pc[lock] \in InTurn \ {"acquire", "acquiring"}
        BY <4>2
      <4>4. Running # Nil
        BY <4>3
      <4>5. QED
        BY <4>2, <4>4
    <3>7. Alone' /\ Gone'
      BY <3>4
    <3>8. NothingAfterDelete'
      BY <3>5
    <3>9. QED
      BY <3>2, <3>3, <3>4, <3>6, <3>7, <3>8
  <2>30. ASSUME NEW d \in Deleters, DeleteFails(d) PROVE IInv'
    BY <2>30 DEF DeleteFails, Drop
  <2>31. ASSUME NEW t \in Turns, NEW j \in Titlers, TitleSpawned(t, j) PROVE IInv'
    BY <2>31 DEF TitleSpawned
  <2>32. CASE Crash
    BY <2>32 DEF Crash
  <2>33. CASE LockExpires
    BY <2>33 DEF LockExpires
  <2>34. CASE UNCHANGED vars
    BY <2>34 DEF vars
  <2>35. QED
    BY <2>1, <2>2, <2>3, <2>4, <2>5, <2>6, <2>7, <2>8, <2>9, <2>10, <2>11, <2>12, <2>13,
       <2>14, <2>15, <2>16, <2>17, <2>18, <2>19, <2>20, <2>21, <2>22, <2>23, <2>24, <2>25,
       <2>26, <2>27, <2>28, <2>29, <2>30, <2>31, <2>32, <2>33, <2>34
       DEF Next, Turn, ApplyAutoTitle, Rename, Delete
<1>3. QED
  BY <1>1, <1>2, PTL DEF Spec

\* The types of all variables are kept by the initial state and every step.
THEOREM TypeCorrect == Spec => []TypeOK
<1>1. IInv => TypeOK
  BY DEF IInv
<1>2. QED
  BY <1>1, Inductive, PTL

\* No two turns ever update the row at the same time, for any number of turns: the
\* lock is taken before Acquire reads and given back after ClearActiveTurn wrote.
THEOREM UpdatesInTurn == Spec => []TurnsUpdateInTurn
<1>1. IInv => TurnsUpdateInTurn
  BY RolesDisjoint DEF IInv, Roles, LockHeld, TurnsUpdateInTurn, Updating, InTurn
<1>2. QED
  BY <1>1, Inductive, PTL

\* Until an update is lost, a deleted thread has no item that was written after its
\* delete removed the transcript, or failed to.
THEOREM NothingWritten == Spec => []NothingAfterDelete
<1>1. IInv => NothingAfterDelete
  BY DEF IInv
<1>2. QED
  BY <1>1, Inductive, PTL
-----------------------------------------------------------------------------
\* A step that loses no update is one of SessionRow's, or leaves the row, the running
\* turn and lost as they are.
LEMMA StepImplements ==
    ASSUME IInv, [Next]_vars
    PROVE  [Promise!Next]_<<row, Running, lost>>
<1> SUFFICES ASSUME ~lost' PROVE [Promise!Next]_<<row, Running, lost>>
  BY DEF Promise!Next, Promise!Lose
<1> USE RolesDisjoint
    DEF IInv, TypeOK, Row, FirstRow, Writers, Roles, LockHeld, Fresh, Marked, Guarded, Alone,
        InTurn, Updating, Written, Running, At, Goto
<1>1. ASSUME NEW t \in Turns, StartTurn(t) PROVE UNCHANGED <<row, Running, lost>>
  BY <1>1 DEF StartTurn, Step
<1>2. ASSUME NEW t \in Turns, TryAcquire(t) PROVE UNCHANGED <<row, Running, lost>>
  BY <1>2 DEF TryAcquire
<1>3. ASSUME NEW t \in Turns, ThreadBusy(t) PROVE UNCHANGED <<row, Running, lost>>
  BY <1>3 DEF ThreadBusy, Step
<1>4. ASSUME NEW t \in Turns, AcquireRead(t) PROVE UNCHANGED <<row, Running, lost>>
  BY <1>4 DEF AcquireRead, Read
<1>5. ASSUME NEW t \in Turns, AcquireAppend(t) PROVE Promise!Start(t)
  <2> USE <1>5 DEF AcquireAppend, Append
  <2>1. ~lost /\ t \notin behind /\ snap[t] = row
    OBVIOUS
  <2>2. QED
    BY <2>1 DEF Promise!Kept, Promise!Start
<1>6. ASSUME NEW t \in Turns, StartFails(t) PROVE Promise!End
  BY <1>6 DEF StartFails, Promise!Kept, Promise!End
<1>7. ASSUME NEW t \in Turns, Begin(t) PROVE UNCHANGED <<row, Running, lost>>
  <2>1. CASE Goto(t, "mark")
    BY <1>7, <2>1 DEF Begin
  <2>2. CASE Goto(t, "failed")
    BY <1>7, <2>2 DEF Begin
  <2>3. QED
    BY <1>7, <2>1, <2>2 DEF Begin
<1>8. ASSUME NEW t \in Turns, MarkRead(t) PROVE UNCHANGED <<row, Running, lost>>
  BY <1>8 DEF MarkRead, Read
<1>9. ASSUME NEW t \in Turns, MarkAppend(t) PROVE UNCHANGED <<row, Running, lost>>
  <2> USE <1>9 DEF MarkAppend, Append
  <2>1. ~lost /\ t \notin behind /\ snap[t] = row /\ row \in Row
    OBVIOUS
  <2>2. row.active = t /\ row.floor = t /\ ~row.deleted /\ t # Nil
    BY <2>1
  <2>3. row' = row
    <3>1. row' = [title |-> row.title, deleted |-> FALSE, active |-> t, floor |-> t]
      BY <2>1, <2>2
    <3>2. row = [title |-> row.title, deleted |-> FALSE, active |-> t, floor |-> t]
      BY <2>1, <2>2
    <3>3. QED
      BY <3>1, <3>2
  <2>4. UNCHANGED <<Running, lost>>
    BY <2>1
  <2>5. QED
    BY <2>3, <2>4
<1>10. ASSUME NEW t \in Turns, MarkFails(t) PROVE UNCHANGED <<row, Running, lost>>
  BY <1>10 DEF MarkFails, Drop
<1>11. ASSUME NEW t \in Turns, Finish(t) PROVE UNCHANGED <<row, Running, lost>>
  <2>1. CASE At(t, "run") /\ Goto(t, "title")
    BY <1>11, <2>1 DEF Finish
  <2>2. CASE pc[t] \in {"run", "failed"} /\ Goto(t, "clear")
    BY <1>11, <2>2 DEF Finish
  <2>3. QED
    BY <1>11, <2>1, <2>2 DEF Finish
<1>12. ASSUME NEW t \in Turns, TitleSkipped(t) PROVE UNCHANGED <<row, Running, lost>>
  BY <1>12 DEF TitleSkipped, Step
<1>13. ASSUME NEW t \in Turns, TitleInPlace(t) PROVE UNCHANGED <<row, Running, lost>>
  BY <1>13 DEF TitleInPlace, Step
<1>14. ASSUME NEW t \in Turns, ClearRead(t) PROVE UNCHANGED <<row, Running, lost>>
  BY <1>14 DEF ClearRead, Read
<1>15. ASSUME NEW t \in Turns, ClearAppend(t) PROVE Promise!Clear(t)
  <2> USE <1>15 DEF ClearAppend, Append
  <2>1. ~lost /\ t \notin behind /\ snap[t] = row
    OBVIOUS
  <2>2. QED
    BY <2>1 DEF Promise!Kept, Promise!Clear
<1>16. ASSUME NEW t \in Turns, ClearFails(t) PROVE UNCHANGED <<row, Running, lost>>
  BY <1>16 DEF ClearFails, Drop
<1>17. ASSUME NEW t \in Turns, Release(t) PROVE Promise!End
  BY <1>17 DEF Release, Promise!Kept, Promise!End
<1>18. ASSUME NEW w \in Turns \cup Titlers, ApplyRead(w) PROVE UNCHANGED <<row, Running, lost>>
  BY <1>18 DEF ApplyRead, Read
<1>19. ASSUME NEW w \in Turns \cup Titlers, ApplySkipped(w) PROVE UNCHANGED <<row, Running, lost>>
  BY <1>19 DEF ApplySkipped, Step, AfterTitle
<1>20. ASSUME NEW w \in Turns \cup Titlers, ApplyAppend(w) PROVE Promise!AutoTitle
  <2> USE <1>20 DEF ApplyAppend, Append, AfterTitle
  <2>1. ~lost /\ w \notin behind /\ snap[w] = row
    OBVIOUS
  <2>2. QED
    BY <2>1 DEF Promise!Kept, Promise!AutoTitle
<1>21. ASSUME NEW w \in Turns \cup Titlers, ApplyFails(w) PROVE UNCHANGED <<row, Running, lost>>
  BY <1>21 DEF ApplyFails, Drop, AfterTitle
<1>22. ASSUME NEW r \in Renamers, RenameRead(r) PROVE UNCHANGED <<row, Running, lost>>
  BY <1>22 DEF RenameRead, Read
<1>23. ASSUME NEW r \in Renamers, RenameAppend(r) PROVE Promise!Rename
  <2> USE <1>23 DEF RenameAppend, Append
  <2>1. ~lost /\ r \notin behind /\ snap[r] = row
    OBVIOUS
  <2>2. QED
    BY <2>1 DEF Promise!Kept, Promise!Rename
<1>24. ASSUME NEW r \in Renamers, RenameFails(r) PROVE UNCHANGED <<row, Running, lost>>
  BY <1>24 DEF RenameFails, Drop
<1>25. ASSUME NEW d \in Deleters, DeleteRead(d) PROVE UNCHANGED <<row, Running, lost>>
  BY <1>25 DEF DeleteRead, Read
<1>26. ASSUME NEW d \in Deleters, DeleteBusy(d) PROVE UNCHANGED <<row, Running, lost>>
  BY <1>26 DEF DeleteBusy, Drop
<1>27. ASSUME NEW d \in Deleters, DeleteStat(d) PROVE UNCHANGED <<row, Running, lost>>
  BY <1>27 DEF DeleteStat, Step
<1>28. ASSUME NEW d \in Deleters, DeleteRemove(d) PROVE UNCHANGED <<row, Running, lost>>
  BY <1>28 DEF DeleteRemove
<1>29. ASSUME NEW d \in Deleters, DeleteAppend(d) PROVE Promise!Delete
  <2> USE <1>29 DEF DeleteAppend, Append
  <2>1. ~lost /\ d \notin behind /\ snap[d] = row
    OBVIOUS
  <2>2. QED
    BY <2>1 DEF Promise!Kept, Promise!Delete
<1>30. ASSUME NEW d \in Deleters, DeleteFails(d) PROVE UNCHANGED <<row, Running, lost>>
  BY <1>30 DEF DeleteFails, Drop
<1>31. ASSUME NEW t \in Turns, NEW j \in Titlers, TitleSpawned(t, j) PROVE UNCHANGED <<row, Running, lost>>
  BY <1>31 DEF TitleSpawned
<1>32. CASE Crash
  BY <1>32 DEF Crash, Promise!Kept, Promise!End, Promise!Next
<1>33. CASE LockExpires
  BY <1>33 DEF LockExpires, Promise!Kept, Promise!End, Promise!Next
<1>34. CASE UNCHANGED vars
  BY <1>34 DEF vars
<1>35. QED
  BY <1>1, <1>2, <1>3, <1>4, <1>5, <1>6, <1>7, <1>8, <1>9, <1>10, <1>11, <1>12, <1>13,
     <1>14, <1>15, <1>16, <1>17, <1>18, <1>19, <1>20, <1>21, <1>22, <1>23, <1>24, <1>25,
     <1>26, <1>27, <1>28, <1>29, <1>30, <1>31, <1>32, <1>33, <1>34
     DEF Next, Turn, ApplyAutoTitle, Rename, Delete, Promise!Next

\* The index implements the promise of SessionRow for any number of turns, renames,
\* title jobs and deletes, until an update is lost.
THEOREM Implements == Spec => ImplementsRow
<1>1. Init => Promise!Init
  BY DEF Init, FirstRow, Running, Promise!Init, Promise!FirstRow
<1>2. IInv /\ [Next]_vars => [Promise!Next]_<<row, Running, lost>>
  BY StepImplements
<1>3. QED
  BY <1>1, <1>2, Inductive, PTL DEF Spec, ImplementsRow, Promise!Spec, Promise!rowVars
=============================================================================
