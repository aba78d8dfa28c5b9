---------------------------- MODULE SessionRow -----------------------------
(***************************************************************************)
(* What the session row of a thread promises its readers (the side bar,    *)
(* SpeakFloor.Assert, InterruptTurn, SoftDeleteThread), as if every update *)
(* were one atomic step: who may change it, when, and into what.  The      *)
(* promise ends with the first lost update.                                *)
(***************************************************************************)
CONSTANTS Turns, Nil

VARIABLES row,      \* title source, deleted, active turn, turn that took the floor
          running,  \* the turn that has written itself into the row and not let go
          lost      \* some update overwrote another: nothing is promised any more

rowVars == <<row, running, lost>>

FirstRow == [title |-> "pending", deleted |-> FALSE, active |-> Nil, floor |-> Nil]

Init == row = FirstRow /\ running = Nil /\ lost = FALSE

Kept == ~lost /\ UNCHANGED lost

\* A turn starts.  Its check that the thread is not deleted lies before its lock,
\* so that a thread deleted in between comes back.  The worker's own mark of the row
\* repeats what was written here.
Start(t) ==
    /\ Kept /\ running = Nil /\ running' = t
    /\ row' = [row EXCEPT !.deleted = FALSE, !.active = t, !.floor = t]

\* The active turn is cleared by its own run only.
Clear(t) == /\ Kept /\ running = t /\ row.active = t
            /\ row' = [row EXCEPT !.active = Nil]
            /\ UNCHANGED running

\* The run lets go of the thread: cleared, or dead.
End == Kept /\ running' = Nil /\ UNCHANGED row

\* A manual title is final, and a deleted thread gets no title.
Rename    == Kept /\ ~row.deleted /\ row' = [row EXCEPT !.title = "manual"] /\ UNCHANGED running
AutoTitle == /\ Kept /\ ~row.deleted /\ row.title # "manual"
             /\ row' = [row EXCEPT !.title = "auto"]
             /\ UNCHANGED running

\* No thread is deleted under a running turn.
Delete == /\ Kept /\ running = Nil
          /\ row' = [row EXCEPT !.deleted = TRUE, !.active = Nil, !.floor = Nil]
          /\ UNCHANGED running

Lose == lost' = TRUE

Next == \/ \E t \in Turns : Start(t) \/ Clear(t)
        \/ End \/ Rename \/ AutoTitle \/ Delete \/ Lose

Spec == Init /\ [][Next]_rowVars
=============================================================================
