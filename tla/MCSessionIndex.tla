-------------------------- MODULE MCSessionIndex ---------------------------
(* Two turns, one title job, one rename and one delete in flight: any two    *)
(* kinds of update may overlap, and two turns may compete for the thread.    *)
EXTENDS SessionIndex, TLC

\* Bound: no property says anything after an update was lost.
UntilLost == ~lost

\* Turns are compared for equality only, and never chosen from.
Symmetric == Permutations(Turns)

\* That a writer is behind matters only while it has a copy: its next read ends it.
Seen == <<row, transcript, lock, pc, snap, {w \in behind : pc[w] \in Updating}, lost>>
=============================================================================
