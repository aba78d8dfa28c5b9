--------------------------- MODULE MCCompaction ----------------------------
(* Three or four turns with two kept raw: turns that are retried, in order or *)
(* late, and several checkpoints one after the other.                         *)
EXTENDS Compaction, TLC

\* Turn ids are compared for equality only; their order is that of their items.
Symmetric == Permutations(Turns)
=============================================================================
