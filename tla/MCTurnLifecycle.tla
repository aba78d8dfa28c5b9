-------------------------- MODULE MCTurnLifecycle --------------------------
(* Two admins, two requests in flight, two turns of which each may be        *)
(* retried once: enough for one request to overtake another, for a retry to  *)
(* race a new turn and for a flag to outlive the run it was meant for.       *)
EXTENDS TurnLifecycle, TLC

\* Slots, admins and turn ids are compared for equality only, and never chosen from.
Symmetric == Permutations(Slots) \cup Permutations(Admins) \cup Permutations(Turns)
=============================================================================
