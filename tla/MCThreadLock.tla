---------------------------- MODULE MCThreadLock ---------------------------
(* Two callers and one reader.  Three files: one the path names and one     *)
(* each caller may still have open.  A token for every record and caller.   *)
EXTENDS ThreadLock, TLC

\* Files and tokens are compared for equality only, and never chosen from.
Symmetric == Permutations(Files) \cup Permutations(Tokens)
=============================================================================
