----------------------------- MODULE LeaseLock -----------------------------
(***************************************************************************)
(* What repository.ThreadLock promises its callers                         *)
(* (internal/domain/repository/thread.go): "guards one active turn per     *)
(* thread".  The promise is a lease: it binds as long as no lease has      *)
(* lapsed, that is as long as every holder has released its lock before    *)
(* the expiry written in its record.                                       *)
(***************************************************************************)
CONSTANTS Turns,   \* the callers
          Nil      \* no caller

VARIABLES owner,   \* the turn that holds the thread
          lapsed   \* some lease ran out: nothing is promised any more

leaseVars == <<owner, lapsed>>

Init == owner = Nil /\ lapsed = FALSE

Acquire(c) == ~lapsed /\ owner = Nil /\ owner' = c /\ UNCHANGED lapsed

\* The holder gives the lock back, or dies with the process.
Release == ~lapsed /\ owner' = Nil /\ UNCHANGED lapsed

Lapse == lapsed' = TRUE /\ owner' = Nil

Next == (\E c \in Turns : Acquire(c)) \/ Release \/ Lapse

Spec == Init /\ [][Next]_leaseVars
=============================================================================
