---------------------------- MODULE ThreadLock -----------------------------
(***************************************************************************)
(* The per-thread lock file of internal/infrastructure/repository/jsonl    *)
(* (lock.go, flock*.go): a path, the files (inodes) it has named, the      *)
(* advisory flock on each file and the expiring record written in it.      *)
(*                                                                         *)
(* One action per step another process can fall between: the open and the  *)
(* flock of TryAcquire, its truncate and its write, the read and the       *)
(* remove of Release and of IsBusy.  A record carries the seconds it has   *)
(* left instead of an absolute ExpiresAt; Tick ages every record at once,  *)
(* which keeps the state finite and changes no comparison with the clock.  *)
(***************************************************************************)
EXTENDS Integers

CONSTANTS Turns,       \* StartTurn/RetryTurn callers, one acquisition at a time each
          Readers,     \* GetThread callers, which run IsBusy
          Files,       \* inodes
          Tokens,      \* random tokens; a fresh one is in no record and with no turn
          TTL,         \* ttlSec
          FlockWorks,  \* flock_unix.go (TRUE) or the no-op of flock_other.go (FALSE)
          Nil

ASSUME TTLAssumption   == TTL \in Nat \ {0}
ASSUME FlockAssumption == FlockWorks \in BOOLEAN
ASSUME NilFresh        == Nil \notin Turns \cup Files \cup Tokens

VARIABLES path,      \* the file the lock path names, Nil when there is none
          content,   \* the record in each file
          flock,     \* the turn that holds the flock of each file
          pc,        \* where each turn is in TryAcquire ... Release
          fd,        \* the file a turn opened; kept after close to name its record
          lease,     \* the record a turn is about to write, or wrote
          rpc,       \* where each reader is in IsBusy
          stale      \* some record still reachable has expired (history)

vars == <<path, content, flock, pc, fd, lease, rpc, stale>>

Left   == -1..TTL                   \* seconds left; -1: ExpiresAt is in the past
Record == [token : Tokens \cup {Nil}, left : Left]
Empty  == [token |-> Nil, left |-> -1]

Aged(rec) == [rec EXCEPT !.left = IF @ = -1 THEN -1 ELSE @ - 1]

\* Mutant: a record in its last second counts as expired.
Live_m(rec) == rec.token # Nil /\ rec.left > 1

\* readLockRecord found a token and ExpiresAt > now: TryAcquire must answer ThreadBusy.
Live(rec) == rec.token # Nil /\ rec.left > 0

\* A record TryAcquire may overwrite although it was never released.
Expired(rec) == rec.token # Nil /\ rec.left <= 0

Reachable(i) == i = path \/ \E c \in Turns : fd[c] = i

\* TryAcquire has returned a token and Release has not returned.
Holds(c) == pc[c] \in {"held", "remove"}

FreshToken(t) == /\ \A i \in Files : content[i].token # t
                 /\ \A c \in Turns : lease[c].token # t

Init == /\ path = Nil
        /\ content = [i \in Files |-> Empty]
        /\ flock = [i \in Files |-> Nil]
        /\ pc = [c \in Turns |-> "idle"]
        /\ fd = [c \in Turns |-> Nil]
        /\ lease = [c \in Turns |-> Empty]
        /\ rpc = [r \in Readers |-> "idle"]
        /\ stale = FALSE
-----------------------------------------------------------------------------
\* The turn's call is over: nothing of it is left in memory.
Done(c) == /\ pc' = [pc EXCEPT ![c] = "idle"]
           /\ fd' = [fd EXCEPT ![c] = Nil]
           /\ lease' = [lease EXCEPT ![c] = Empty]

\* withFileLock: OpenFile(O_RDWR|O_CREATE), before the flock.  A file that
\* nothing names or opens stands for a new inode.
Open(c) ==
    /\ pc[c] = "idle"
    /\ \/ /\ path # Nil
          /\ fd' = [fd EXCEPT ![c] = path]
          /\ UNCHANGED <<path, content>>
       \/ /\ path = Nil
          /\ \E i \in Files :
                /\ ~Reachable(i)
                /\ path' = i
                /\ content' = [content EXCEPT ![i] = Empty]
                /\ fd' = [fd EXCEPT ![c] = i]
    /\ pc' = [pc EXCEPT ![c] = "open"]
    /\ UNCHANGED <<flock, lease, rpc, stale>>

\* Mutant: the flock is not waited for.
Granted_m(c) == pc[c] = "open"

\* The blocking flock is granted (at once, where it is a no-op).
Granted(c) == pc[c] = "open" /\ (FlockWorks => flock[fd[c]] = Nil)

\* The record is unexpired: ThreadBusy, unlock, close.
Busy(c) ==
    /\ Granted(c)
    /\ Live(content[fd[c]])
    /\ Done(c)
    /\ UNCHANGED <<path, content, flock, rpc, stale>>

\* Mutant: the record found is not looked at.
Claim_m(c) ==
    /\ Granted(c)
    /\ \E t \in Tokens :
          /\ FreshToken(t)
          /\ lease' = [lease EXCEPT ![c] = [token |-> t, left |-> TTL]]
    /\ content' = [content EXCEPT ![fd[c]] = Empty]
    /\ flock' = IF FlockWorks THEN [flock EXCEPT ![fd[c]] = c] ELSE flock
    /\ pc' = [pc EXCEPT ![c] = "write"]
    /\ UNCHANGED <<path, fd, rpc, stale>>

\* Mutant: a second too many.
Claim_n(c) ==
    /\ Granted(c)
    /\ ~Live(content[fd[c]])
    /\ \E t \in Tokens :
          /\ FreshToken(t)
          /\ lease' = [lease EXCEPT ![c] = [token |-> t, left |-> TTL + 1]]
    /\ content' = [content EXCEPT ![fd[c]] = Empty]
    /\ flock' = IF FlockWorks THEN [flock EXCEPT ![fd[c]] = c] ELSE flock
    /\ pc' = [pc EXCEPT ![c] = "write"]
    /\ UNCHANGED <<path, fd, rpc, stale>>

\* Otherwise: a token, ExpiresAt = now + ttlSec, Truncate(0).
Claim(c) ==
    /\ Granted(c)
    /\ ~Live(content[fd[c]])
    /\ \E t \in Tokens :
          /\ FreshToken(t)
          /\ lease' = [lease EXCEPT ![c] = [token |-> t, left |-> TTL]]
    /\ content' = [content EXCEPT ![fd[c]] = Empty]
    /\ flock' = IF FlockWorks THEN [flock EXCEPT ![fd[c]] = c] ELSE flock
    /\ pc' = [pc EXCEPT ![c] = "write"]
    /\ UNCHANGED <<path, fd, rpc, stale>>

\* Encode the record, unlock, close: the caller has its token.
Write(c) ==
    /\ pc[c] = "write"
    /\ content' = [content EXCEPT ![fd[c]] = lease[c]]
    /\ flock' = IF FlockWorks THEN [flock EXCEPT ![fd[c]] = Nil] ELSE flock
    /\ pc' = [pc EXCEPT ![c] = "held"]
    /\ stale' = (stale \/ Expired(lease[c]))
    /\ UNCHANGED <<path, fd, lease, rpc>>

\* Release reads the file without the flock: does it carry the caller's token?
ReadsOwnToken(c) == path # Nil /\ content[path].token = lease[c].token

ReleaseMatch(c) ==
    /\ pc[c] = "held"
    /\ ReadsOwnToken(c)
    /\ pc' = [pc EXCEPT ![c] = "remove"]
    /\ UNCHANGED <<path, content, flock, fd, lease, rpc, stale>>

\* No file, an empty one or another's token: the lock is left alone.
ReleaseMismatch(c) ==
    /\ pc[c] = "held"
    /\ ~ReadsOwnToken(c)
    /\ Done(c)
    /\ UNCHANGED <<path, content, flock, rpc, stale>>

\* os.Remove(path): whatever the path names by now.
ReleaseRemove(c) ==
    /\ pc[c] = "remove"
    /\ path' = Nil
    /\ Done(c)
    /\ UNCHANGED <<content, flock, rpc, stale>>

\* IsBusy reads an expired record (now > ExpiresAt, one second later than
\* TryAcquire's test).  Its other outcomes change nothing.
IsBusyRead(r) ==
    /\ rpc[r] = "idle"
    /\ path # Nil
    /\ content[path].token # Nil /\ content[path].left = -1
    /\ rpc' = [rpc EXCEPT ![r] = "remove"]
    /\ UNCHANGED <<path, content, flock, pc, fd, lease, stale>>

IsBusyRemove(r) ==
    /\ rpc[r] = "remove"
    /\ path' = Nil
    /\ rpc' = [rpc EXCEPT ![r] = "idle"]
    /\ UNCHANGED <<content, flock, pc, fd, lease, stale>>

\* One second passes.
Tick ==
    /\ content' = [i \in Files |-> Aged(content[i])]
    /\ lease' = [c \in Turns |-> Aged(lease[c])]
    /\ stale' = (stale \/ \E i \in Files : Reachable(i) /\ Expired(Aged(content[i])))
    /\ UNCHANGED <<path, flock, pc, fd, rpc>>

\* The process dies: flocks and callers vanish, files stay.
Crash ==
    /\ flock' = [i \in Files |-> Nil]
    /\ pc' = [c \in Turns |-> "idle"]
    /\ fd' = [c \in Turns |-> Nil]
    /\ lease' = [c \in Turns |-> Empty]
    /\ rpc' = [r \in Readers |-> "idle"]
    /\ UNCHANGED <<path, content, stale>>

TryAcquire(c) == Open(c) \/ Busy(c) \/ Claim(c) \/ Write(c)
Release(c)    == ReleaseMatch(c) \/ ReleaseMismatch(c) \/ ReleaseRemove(c)
IsBusy(r)     == IsBusyRead(r) \/ IsBusyRemove(r)

Next == \/ \E c \in Turns : TryAcquire(c) \/ Release(c)
        \/ \E r \in Readers : IsBusy(r)
        \/ Tick
        \/ Crash

Spec == Init /\ [][Next]_vars
-----------------------------------------------------------------------------
TypeOK == /\ path \in Files \cup {Nil}
          /\ content \in [Files -> Record]
          /\ flock \in [Files -> Turns \cup {Nil}]
          /\ pc \in [Turns -> {"idle", "open", "write", "held", "remove"}]
          /\ fd \in [Turns -> Files \cup {Nil}]
          /\ lease \in [Turns -> Record]
          /\ rpc \in [Readers -> {"idle", "remove"}]
          /\ stale \in BOOLEAN

\* A turn keeps the thread to itself until some lease lapses: two callers hold
\* a token at once only after a record expired under a slow, stalled or dead
\* holder.  Concerns every path through TryAcquire, Release and IsBusy, among
\* them a flock granted on a file that Release has meanwhile unlinked.
MutualExclusion == ~stale => \A c, d \in Turns : Holds(c) /\ Holds(d) => c = d

\* "refuses to overwrite an unexpired lock" (lock.go:19), in every state, also
\* after leases lapsed: while a holder's lease runs, the file it wrote still
\* carries its record.
NeverOverwritesUnexpired ==
    \A c \in Turns : Holds(c) /\ lease[c].left > 0 => content[fd[c]] = lease[c]

\* The lock file implements the lease of LeaseLock.
Owner == IF ~stale /\ \E c \in Turns : Holds(c)
         THEN CHOOSE c \in Turns : Holds(c)
         ELSE Nil

Promise == INSTANCE LeaseLock WITH owner <- Owner, lapsed <- stale

ImplementsLease == Promise!Spec
=============================================================================
