------------------------- MODULE ThreadLock_proofs -------------------------
(***************************************************************************)
(* Proofs about the lock file for every set of callers, readers, files and *)
(* tokens and every TTL.  They hold where flock works (flock_unix.go);     *)
(* flock_other.go makes it a no-op, and nothing is shown there.            *)
(***************************************************************************)
EXTENDS ThreadLock, TLAPS

Opened(c)  == fd[c] # Nil
HasRecord(i) == content[i].token # Nil

\* What is true of a single caller at each point of TryAcquire ... Release.
CallerInv ==
    \A c \in Turns :
        /\ pc[c] # "idle" => fd[c] \in Files
        /\ pc[c] \in {"write", "held", "remove"} => lease[c].token # Nil
        /\ pc[c] = "write" => flock[fd[c]] = c /\ content[fd[c]] = Empty

\* Tokens are random: no two callers ever hold the same one.
TokensDiffer ==
    \A c, d \in Turns : c # d /\ lease[c].token # Nil => lease[c].token # lease[d].token

\* Until a lease lapses: every holder's record is the one the path names; only
\* the file the path names can be empty; no record within reach has expired;
\* and no reader is about to remove one.
FreshInv ==
    ~stale =>
        /\ \A c \in Turns : Holds(c) => path = fd[c] /\ content[fd[c]] = lease[c]
        /\ \A c \in Turns : Opened(c) /\ ~HasRecord(fd[c]) => path = fd[c]
        /\ \A i \in Files : Reachable(i) /\ HasRecord(i) => content[i].left > 0
        /\ \A r \in Readers : rpc[r] = "idle"

IInv == /\ TypeOK
        /\ CallerInv
        /\ TokensDiffer
        /\ NeverOverwritesUnexpired
        /\ FreshInv
-----------------------------------------------------------------------------
\* Ageing keeps a record a record and its token, and never makes it younger.
LEMMA AgedRecord ==
    ASSUME NEW rec \in Record
    PROVE  /\ Aged(rec) \in Record
           /\ Aged(rec).token = rec.token
           /\ Aged(rec).left <= rec.left
           /\ rec.left > 0 => Aged(rec).left = rec.left - 1
BY TTLAssumption, SMT DEF Aged, Record, Left

LEMMA EmptyRecord == Empty \in Record /\ Empty.token = Nil /\ Aged(Empty) = Empty
BY TTLAssumption, SMT DEF Aged, Record, Left, Empty

\* The types of all variables are kept by the initial state and every step.
THEOREM TypeCorrect == Spec => []TypeOK
<1>1. Init => TypeOK
  BY EmptyRecord DEF Init, TypeOK
<1>2. TypeOK /\ [Next]_vars => TypeOK'
  <2> SUFFICES ASSUME TypeOK, [Next]_vars PROVE TypeOK'
    OBVIOUS
  <2> USE DEF TypeOK
  <2>1. ASSUME NEW c \in Turns, Open(c) PROVE TypeOK'
    BY <2>1, EmptyRecord DEF Open
  <2>2. ASSUME NEW c \in Turns, Busy(c) PROVE TypeOK'
    BY <2>2, EmptyRecord DEF Busy, Done
  <2>3. ASSUME NEW c \in Turns, Claim(c) PROVE TypeOK'
    <3>1. lease' \in [Turns -> Record]
      BY <2>3, TTLAssumption DEF Claim, Record, Left
    <3>2. QED
      BY <2>3, <3>1, EmptyRecord DEF Claim
  <2>4. ASSUME NEW c \in Turns, Write(c) PROVE TypeOK'
    BY <2>4 DEF Write
  <2>5. ASSUME NEW c \in Turns, ReleaseMatch(c) PROVE TypeOK'
    BY <2>5 DEF ReleaseMatch
  <2>6. ASSUME NEW c \in Turns, ReleaseMismatch(c) PROVE TypeOK'
    BY <2>6, EmptyRecord DEF ReleaseMismatch, Done
  <2>7. ASSUME NEW c \in Turns, ReleaseRemove(c) PROVE TypeOK'
    BY <2>7, EmptyRecord DEF ReleaseRemove, Done
  <2>8. ASSUME NEW r \in Readers, IsBusyRead(r) PROVE TypeOK'
    BY <2>8 DEF IsBusyRead
  <2>9. ASSUME NEW r \in Readers, IsBusyRemove(r) PROVE TypeOK'
    BY <2>9 DEF IsBusyRemove
  <2>10. CASE Tick
    BY <2>10, AgedRecord DEF Tick
  <2>11. CASE Crash
    BY <2>11, EmptyRecord DEF Crash
  <2>12. CASE UNCHANGED vars
    BY <2>12 DEF vars
  <2>13. QED
    BY <2>1, <2>2, <2>3, <2>4, <2>5, <2>6, <2>7, <2>8, <2>9, <2>10, <2>11, <2>12
       DEF Next, TryAcquire, Release, IsBusy
<1>3. QED
  BY <1>1, <1>2, PTL DEF Spec
-----------------------------------------------------------------------------
\* Where flock works, the strengthened invariant is inductive.
LEMMA IInvInit == Init => IInv
BY NilFresh, EmptyRecord
   DEF Init, IInv, TypeOK, CallerInv, TokensDiffer, NeverOverwritesUnexpired,
       FreshInv, Holds, Opened, HasRecord, Reachable

\* One holder at most: two would have the record of one file, hence one token.
LEMMA OneHolder ==
    ASSUME IInv, ~stale, NEW c \in Turns, NEW d \in Turns, Holds(c), Holds(d)
    PROVE  c = d
BY DEF IInv, FreshInv, TokensDiffer, CallerInv, Holds

\* Opening the lock file disturbs nothing: a new file has no other opener.
LEMMA OpenStep ==
    ASSUME IInv, NEW c \in Turns, Open(c)
    PROVE  CallerInv' /\ TokensDiffer' /\ NeverOverwritesUnexpired' /\ FreshInv'
<1> USE DEF IInv, TypeOK, Open
<1>1. \A d \in Turns : fd[d] # Nil => content'[fd[d]] = content[fd[d]]
  BY NilFresh DEF Reachable
<1>2. CallerInv'
  BY <1>1, NilFresh DEF CallerInv, Reachable
<1>3. TokensDiffer'
  BY DEF TokensDiffer
<1>4. NeverOverwritesUnexpired'
  BY <1>1, NilFresh DEF NeverOverwritesUnexpired, CallerInv, Holds
<1>5. FreshInv'
  BY <1>1, NilFresh, EmptyRecord
     DEF FreshInv, CallerInv, Holds, Opened, HasRecord, Reachable
<1>6. QED
  BY <1>2, <1>3, <1>4, <1>5

\* A caller whose call ends without touching the path or a file disturbs nothing.
LEMMA DoneStep ==
    ASSUME IInv, NEW c \in Turns, pc[c] # "write", Done(c), UNCHANGED <<path, content, flock, rpc, stale>>
    PROVE  CallerInv' /\ TokensDiffer' /\ NeverOverwritesUnexpired' /\ FreshInv'
BY NilFresh, EmptyRecord
   DEF IInv, TypeOK, Done, CallerInv, TokensDiffer, NeverOverwritesUnexpired,
       FreshInv, Holds, Opened, HasRecord, Reachable

\* The truncate of TryAcquire hits no running lease: the record it found was
\* not live, and the flock keeps other writers of the file out.
LEMMA ClaimStep ==
    ASSUME FlockWorks, IInv, NEW c \in Turns, Claim(c)
    PROVE  CallerInv' /\ TokensDiffer' /\ NeverOverwritesUnexpired' /\ FreshInv'
<1> USE DEF IInv, TypeOK
<1>1. fd[c] \in Files /\ flock[fd[c]] = Nil /\ ~Live(content[fd[c]]) /\ pc[c] = "open"
  BY DEF Claim, Granted, CallerInv
<1>2. PICK t \in Tokens : FreshToken(t) /\ lease' = [lease EXCEPT ![c] = [token |-> t, left |-> TTL]]
  BY DEF Claim
<1>3. CallerInv'
  BY <1>1, <1>2, NilFresh DEF CallerInv, Claim
<1>4. TokensDiffer'
  BY <1>2, NilFresh DEF TokensDiffer, FreshToken
<1>5. NeverOverwritesUnexpired'
  <2> SUFFICES ASSUME NEW d \in Turns, Holds(d)', lease'[d].left > 0
               PROVE  content'[fd'[d]] = lease'[d]
    BY DEF NeverOverwritesUnexpired
  <2>1. d # c /\ Holds(d) /\ lease'[d] = lease[d] /\ fd'[d] = fd[d] /\ fd[d] \in Files
    BY <1>1, <1>2 DEF Claim, Holds, CallerInv
  <2>2. content[fd[d]] = lease[d] /\ lease[d].token # Nil
    BY <2>1 DEF NeverOverwritesUnexpired, CallerInv, Holds
  <2>3. fd[d] # fd[c]
    BY <1>1, <2>1, <2>2 DEF Live
  <2>4. QED
    BY <2>1, <2>2, <2>3, <1>1 DEF Claim
<1>6. FreshInv'
  <2> SUFFICES ASSUME ~stale PROVE FreshInv'
    BY DEF FreshInv, Claim
  <2>1. ~HasRecord(fd[c])
    <3>1. content[fd[c]].left \in Int
      BY <1>1 DEF Record, Left
    <3>2. QED
      BY <1>1, <3>1 DEF FreshInv, Live, HasRecord, Reachable
  <2>2. path = fd[c]
    BY <1>1, <2>1, NilFresh DEF FreshInv, Opened
  <2>3. \A d \in Turns : ~Holds(d)
    BY <2>1, <2>2 DEF FreshInv, HasRecord, CallerInv, Holds
  <2>4. \A d \in Turns : ~Holds(d)'
    BY <2>3, <1>1 DEF Claim, Holds
  <2>5. \A d \in Turns : (Opened(d) /\ ~HasRecord(fd[d]))' => path' = fd'[d]
    BY <1>1, <2>2 DEF FreshInv, Claim, Opened, HasRecord
  <2>6. \A i \in Files : (Reachable(i) /\ HasRecord(i))' => content'[i].left > 0
    BY <1>1, EmptyRecord DEF FreshInv, Claim, Reachable, HasRecord
  <2>7. QED
    BY <2>4, <2>5, <2>6 DEF FreshInv, Claim
<1>7. QED
  BY <1>3, <1>4, <1>5, <1>6

\* The new holder wrote its record in the file it alone had emptied, which,
\* until a lease lapses, is the one the path names.
LEMMA WriteStep ==
    ASSUME FlockWorks, IInv, NEW c \in Turns, Write(c)
    PROVE  CallerInv' /\ TokensDiffer' /\ NeverOverwritesUnexpired' /\ FreshInv'
<1> USE DEF IInv, TypeOK
<1>1. /\ pc[c] = "write" /\ fd[c] \in Files /\ flock[fd[c]] = c
      /\ content[fd[c]] = Empty /\ lease[c].token # Nil
  BY DEF Write, CallerInv
<1>2. \A d \in Turns : pc[d] = "write" /\ fd[d] = fd[c] => d = c
  BY <1>1 DEF CallerInv
<1>3. CallerInv'
  BY <1>1, <1>2 DEF CallerInv, Write
<1>4. TokensDiffer'
  BY DEF TokensDiffer, Write
<1>5. NeverOverwritesUnexpired'
  BY <1>1, EmptyRecord DEF NeverOverwritesUnexpired, CallerInv, Write, Holds
<1>6. FreshInv'
  <2> SUFFICES ASSUME ~stale, ~Expired(lease[c]) PROVE FreshInv'
    BY DEF FreshInv, Write
  <2>1. path = fd[c] /\ ~HasRecord(fd[c])
    BY <1>1, EmptyRecord, NilFresh DEF FreshInv, Opened, HasRecord
  <2>2. \A d \in Turns : Holds(d)' => path' = fd'[d] /\ content'[fd'[d]] = lease'[d]
    BY <1>1, <2>1, EmptyRecord DEF FreshInv, Write, Holds, CallerInv, HasRecord
  <2>3. \A d \in Turns : (Opened(d) /\ ~HasRecord(fd[d]))' => path' = fd'[d]
    BY <1>1, <2>1 DEF FreshInv, Write, Opened, HasRecord
  <2>4. lease[c].left > 0
    BY <1>1 DEF Expired, Record, Left
  <2>5. \A i \in Files : (Reachable(i) /\ HasRecord(i))' => content'[i].left > 0
    BY <1>1, <2>4 DEF FreshInv, Write, Reachable, HasRecord
  <2>6. QED
    BY <2>2, <2>3, <2>5 DEF FreshInv, Write
<1>7. QED
  BY <1>3, <1>4, <1>5, <1>6

\* Removing the path: the remover's own record until a lease lapses.
LEMMA ReleaseRemoveStep ==
    ASSUME IInv, NEW c \in Turns, ReleaseRemove(c)
    PROVE  CallerInv' /\ TokensDiffer' /\ NeverOverwritesUnexpired' /\ FreshInv'
<1> USE DEF IInv, TypeOK
<1>1. CallerInv' /\ TokensDiffer' /\ NeverOverwritesUnexpired'
  BY EmptyRecord DEF ReleaseRemove, Done, CallerInv, TokensDiffer, NeverOverwritesUnexpired, Holds
<1>2. FreshInv'
  <2> SUFFICES ASSUME ~stale PROVE FreshInv'
    BY DEF FreshInv, ReleaseRemove
  <2>1. Holds(c) /\ path = fd[c] /\ HasRecord(path)
    BY DEF ReleaseRemove, Holds, FreshInv, CallerInv, HasRecord
  <2>2. \A d \in Turns : ~Holds(d)'
    <3>1. \A d \in Turns : Holds(d) => d = c
      BY <2>1, OneHolder
    <3>2. QED
      BY <3>1 DEF ReleaseRemove, Done, Holds
  <2>3. \A d \in Turns : Opened(d)' => HasRecord(fd[d])' /\ Opened(d)
    BY <2>1, NilFresh DEF FreshInv, ReleaseRemove, Done, Opened, HasRecord
  <2>4. \A i \in Files : (Reachable(i) /\ HasRecord(i))' => content'[i].left > 0
    BY NilFresh DEF FreshInv, ReleaseRemove, Done, Reachable, HasRecord
  <2>5. QED
    BY <2>2, <2>3, <2>4 DEF FreshInv, ReleaseRemove, Opened, HasRecord
<1>3. QED
  BY <1>1, <1>2

\* One second passes: records and leases age together.
LEMMA TickStep ==
    ASSUME IInv, Tick
    PROVE  CallerInv' /\ TokensDiffer' /\ NeverOverwritesUnexpired' /\ FreshInv'
<1> USE DEF IInv, TypeOK, Tick
<1>1. CallerInv'
  BY AgedRecord, EmptyRecord DEF CallerInv
<1>2. TokensDiffer'
  BY AgedRecord DEF TokensDiffer
<1>3. NeverOverwritesUnexpired'
  <2> SUFFICES ASSUME NEW c \in Turns, Holds(c), Aged(lease[c]).left > 0
               PROVE  Aged(content[fd[c]]) = Aged(lease[c]) /\ fd[c] \in Files
    BY DEF NeverOverwritesUnexpired, Holds
  <2>1. lease[c].left > 0
    BY AgedRecord DEF Record, Left
  <2>2. QED
    BY <2>1 DEF NeverOverwritesUnexpired, CallerInv, Holds
<1>4. FreshInv'
  <2> SUFFICES ASSUME ~stale, \A i \in Files : Reachable(i) => ~Expired(Aged(content[i]))
               PROVE  FreshInv'
    BY DEF FreshInv
  <2>1. \A i \in Files : (Reachable(i) /\ HasRecord(i))' => content'[i].left > 0
    BY AgedRecord DEF Reachable, HasRecord, Expired, Record, Left
  <2>2. \A c \in Turns : Holds(c)' => path' = fd'[c] /\ content'[fd'[c]] = lease'[c]
    BY DEF FreshInv, Holds, CallerInv
  <2>3. \A c \in Turns : (Opened(c) /\ ~HasRecord(fd[c]))' => path' = fd'[c]
    BY AgedRecord DEF FreshInv, Opened, HasRecord
  <2>4. QED
    BY <2>1, <2>2, <2>3 DEF FreshInv
<1>5. QED
  BY <1>1, <1>2, <1>3, <1>4

\* The invariant is inductive: one case per action.
LEMMA IInvStep == FlockWorks /\ IInv /\ TypeOK' /\ [Next]_vars => IInv'
<1> SUFFICES ASSUME FlockWorks, IInv, [Next]_vars
             PROVE  CallerInv' /\ TokensDiffer' /\ NeverOverwritesUnexpired' /\ FreshInv'
  BY DEF IInv
<1> DEFINE Kept == CallerInv' /\ TokensDiffer' /\ NeverOverwritesUnexpired' /\ FreshInv'
<1>1. ASSUME NEW c \in Turns, Open(c) PROVE Kept
  BY <1>1, OpenStep
<1>2. ASSUME NEW c \in Turns, Busy(c) PROVE Kept
  BY <1>2, DoneStep DEF Busy, Granted
<1>3. ASSUME NEW c \in Turns, Claim(c) PROVE Kept
  BY <1>3, ClaimStep
<1>4. ASSUME NEW c \in Turns, Write(c) PROVE Kept
  BY <1>4, WriteStep
<1>5. ASSUME NEW c \in Turns, ReleaseMatch(c) PROVE Kept
  BY <1>5 DEF ReleaseMatch, IInv, TypeOK, CallerInv, TokensDiffer, NeverOverwritesUnexpired,
              FreshInv, Holds, Opened, HasRecord, Reachable
<1>6. ASSUME NEW c \in Turns, ReleaseMismatch(c) PROVE Kept
  BY <1>6, DoneStep DEF ReleaseMismatch
<1>7. ASSUME NEW c \in Turns, ReleaseRemove(c) PROVE Kept
  BY <1>7, ReleaseRemoveStep
<1>8. ASSUME NEW r \in Readers, IsBusyRead(r) PROVE Kept
  <2>1. stale
    BY <1>8 DEF IsBusyRead, IInv, FreshInv, Reachable, HasRecord, TypeOK
  <2>2. QED
    BY <1>8, <2>1 DEF IsBusyRead, IInv, CallerInv, TokensDiffer, NeverOverwritesUnexpired, FreshInv, Holds
<1>9. ASSUME NEW r \in Readers, IsBusyRemove(r) PROVE Kept
  <2>1. stale
    BY <1>9 DEF IsBusyRemove, IInv, FreshInv
  <2>2. QED
    BY <1>9, <2>1 DEF IsBusyRemove, IInv, CallerInv, TokensDiffer, NeverOverwritesUnexpired, FreshInv, Holds
<1>10. CASE Tick
  BY <1>10, TickStep
<1>11. CASE Crash
  BY <1>11, EmptyRecord, NilFresh
     DEF Crash, IInv, TypeOK, CallerInv, TokensDiffer, NeverOverwritesUnexpired,
         FreshInv, Holds, Opened, HasRecord, Reachable
<1>12. CASE UNCHANGED vars
  BY <1>12 DEF vars, IInv, CallerInv, TokensDiffer, NeverOverwritesUnexpired,
         FreshInv, Holds, Opened, HasRecord, Reachable
<1>13. QED
  BY <1>1, <1>2, <1>3, <1>4, <1>5, <1>6, <1>7, <1>8, <1>9, <1>10, <1>11, <1>12
     DEF Next, TryAcquire, Release, IsBusy

\* The inductive invariant holds throughout, where flock works.
THEOREM Inductive == ASSUME FlockWorks PROVE Spec => []IInv
<1>1. Spec => []TypeOK
  BY TypeCorrect
<1>2. IInv /\ TypeOK' /\ [Next]_vars => IInv'
  BY IInvStep
<1>3. QED
  BY <1>1, <1>2, IInvInit, PTL DEF Spec

\* A turn keeps its thread to itself until some lease lapses (lock.go:45-97),
\* whatever the number of callers, readers and files and whatever the TTL.
THEOREM Exclusive == ASSUME FlockWorks PROVE Spec => []MutualExclusion
<1>1. IInv => MutualExclusion
  BY OneHolder DEF MutualExclusion
<1>2. Spec => []IInv
  BY Inductive
<1>3. QED
  BY <1>1, <1>2, PTL

\* "refuses to overwrite an unexpired lock" (lock.go:19), also after leases lapsed.
THEOREM NeverOverwrites == ASSUME FlockWorks PROVE Spec => []NeverOverwritesUnexpired
<1>1. IInv => NeverOverwritesUnexpired
  BY DEF IInv
<1>2. Spec => []IInv
  BY Inductive
<1>3. QED
  BY <1>1, <1>2, PTL
-----------------------------------------------------------------------------
\* The refinement mapping: while nothing has lapsed the owner is the one holder.
LEMMA OwnerIsHolder ==
    ASSUME IInv, ~stale, NEW c \in Turns, Holds(c)
    PROVE  Owner = c
BY OneHolder DEF Owner

LEMMA NobodyOwns ==
    ASSUME stale \/ \A c \in Turns : ~Holds(c)
    PROVE  Owner = Nil
BY DEF Owner

\* Every step of the lock file is a step of the lease or leaves it alone.
LEMMA LeaseStep ==
    ASSUME FlockWorks, IInv, IInv', [Next]_vars
    PROVE  [Promise!Next]_(Promise!leaseVars)
<1> USE DEF Promise!leaseVars
<1>1. stale' \in BOOLEAN /\ stale \in BOOLEAN
  BY DEF IInv, TypeOK
<1>2. CASE stale'
  <2>1. Owner' = Nil
    BY <1>2 DEF Owner
  <2>2. stale' = TRUE
    BY <1>2, <1>1
  <2>3. QED
    BY <2>1, <2>2 DEF Promise!Next, Promise!Lapse
<1>3. CASE ~stale' /\ \A c \in Turns : ~Holds(c)'
  <2>1. Owner' = Nil
    BY <1>3 DEF Owner
  <2>2. stale = FALSE /\ stale' = FALSE
    BY <1>1, <1>3 DEF Next, TryAcquire, Release, IsBusy, Open, Busy, Claim, Write, ReleaseMatch,
       ReleaseMismatch, ReleaseRemove, IsBusyRead, IsBusyRemove, Tick, Crash, vars
  <2>3. QED
    BY <2>1, <2>2 DEF Promise!Next, Promise!Release
<1>4. ASSUME ~stale', NEW c \in Turns, Holds(c)' PROVE [Promise!Next]_(Promise!leaseVars)
  <2>1. stale = FALSE /\ stale' = FALSE
    BY <1>1, <1>4 DEF Next, TryAcquire, Release, IsBusy, Open, Busy, Claim, Write, ReleaseMatch,
       ReleaseMismatch, ReleaseRemove, IsBusyRead, IsBusyRemove, Tick, Crash, vars
  <2>2. Owner' = c
    <3>1. \A d \in Turns : Holds(d)' => d = c
      BY <1>4 DEF IInv, FreshInv, TokensDiffer, CallerInv, Holds
    <3>2. QED
      BY <1>4, <3>1 DEF Owner
  <2>3. CASE Holds(c)
    BY <2>1, <2>2, <2>3, OwnerIsHolder
  <2>4. CASE ~Holds(c)
    <3>1. Write(c)
      BY <1>4, <2>4 DEF IInv, TypeOK, Next, TryAcquire, Release, IsBusy, Open, Busy, Claim, Write,
         ReleaseMatch, ReleaseMismatch, ReleaseRemove, IsBusyRead, IsBusyRemove, Tick, Crash,
         Done, Holds, vars
    <3>2. \A d \in Turns : ~Holds(d)
      <4> SUFFICES ASSUME NEW d \in Turns, Holds(d) PROVE FALSE
        OBVIOUS
      <4>1. d # c
        BY <2>4
      <4>2. Holds(d)'
        BY <3>1, <4>1 DEF Write, Holds, IInv, TypeOK
      <4>3. QED
        BY <1>4, <4>1, <4>2 DEF IInv, FreshInv, TokensDiffer, CallerInv, Holds
    <3>3. Owner = Nil
      BY <3>2 DEF Owner
    <3>4. QED
      BY <2>1, <2>2, <3>3 DEF Promise!Next, Promise!Acquire
  <2>5. QED
    BY <2>3, <2>4
<1>5. QED
  BY <1>2, <1>3, <1>4

\* The lock file implements the lease that repository.ThreadLock promises.
THEOREM Implements == ASSUME FlockWorks PROVE Spec => ImplementsLease
<1>1. Init => Promise!Init
  BY DEF Init, Promise!Init, Owner, Holds
<1>2. IInv /\ IInv' /\ [Next]_vars => [Promise!Next]_(Promise!leaseVars)
  BY LeaseStep
<1>3. Spec => []IInv
  BY Inductive
<1>4. QED
  BY <1>1, <1>2, <1>3, PTL DEF Spec, ImplementsLease, Promise!Spec
=============================================================================
