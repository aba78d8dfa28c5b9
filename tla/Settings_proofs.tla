---------------------------- MODULE Settings_proofs ----------------------------
(***************************************************************************)
(* Proofs about the settings, for any providers, models, users, documents   *)
(* left by earlier runs, and any number of requests and crashes.            *)
(***************************************************************************)
EXTENDS Settings, SequenceTheorems, FiniteSetTheorems, WellFoundedInduction, TLAPS

\* A document as the proofs see it: its fields, users with roles, and a list of
\* providers with their fields.  What the models of a provider are does not matter.
Entry(sp) == sp = [id |-> sp.id, key |-> sp.key, enabled |-> sp.enabled, models |-> sp.models]

Document(doc) ==
    /\ doc = [users |-> doc.users, providers |-> doc.providers, active |-> doc.active,
              knobs |-> doc.knobs]
    /\ \E S \in SUBSET Users : doc.users \in [S -> Roles]
    /\ doc.providers \in Seq(Range(doc.providers))
    /\ \A i \in 1..Len(doc.providers) : Entry(doc.providers[i])

Good(doc) == Document(doc) /\ OwnerIn(doc) /\ IdsOnce(doc)

NoneIsNoDocument == \A doc : Document(doc) => doc # None

OpShape ==
    \/ op = Idle
    \/ /\ \/ op = [step |-> op.step, doc |-> op.doc, reload |-> op.reload, left |-> op.left]
          \/ op = [step |-> op.step, doc |-> op.doc, reload |-> op.reload, left |-> op.left,
                   at |-> op.at]
       /\ op.step \in {"fetch", "create", "write", "rename", "reload"}
       /\ op.reload \in BOOLEAN /\ op.left \in Seq(Range(Parts))
       /\ op.step = "fetch" => op.reload

\* Every document on its way to the disk is good, the temporary file has it
\* when it is about to be renamed, and a request that reloads nothing leaves
\* what the parts read as it was.
OpInv ==
    /\ OpShape
    /\ op.step # "idle" => Good(op.doc)
    /\ op.step = "rename" => tmp = op.doc
    /\ op.step \in {"create", "write", "rename"} /\ ~op.reload =>
            ApplySettingsFile(op.doc) = ApplySettingsFile(Loaded)

\* The disk has the last answered document until the rename, and the one of
\* the request after it.
DiskInv ==
    /\ file # None => Good(file)
    /\ file = IF op.step = "reload" THEN op.doc ELSE acked

\* The parts run with what is on the disk, the ones still to be reloaded excepted.
PartsInv ==
    /\ DOMAIN running = AllParts
    /\ up => \A p \in Range(Parts) :
               \/ op.step = "reload" /\ p \in Range(op.left)
               \/ running[p] = ApplySettingsFile(Loaded)

IInv == OpInv /\ DiskInv /\ PartsInv

\* The parts that are built once run with what the process started from.
BornInv == up => \A p \in BuiltOnce : running[p] = ApplySettingsFile(born)
-----------------------------------------------------------------------------
(* Documents. *)

LEMMA SeedIsGood == ASSUME SettingsAssumption PROVE Good(DefaultSeedFile)
<1> DEFINE users == [u \in {Owner} |-> "owner"]
<1>1. users \in [{Owner} -> Roles] /\ {Owner} \in SUBSET Users
  BY DEF Roles, SettingsAssumption
<1>2. Range(<<>>) = {} /\ <<>> \in Seq({})
  BY DEF Range
<1>3. Document(DefaultSeedFile)
  <2> DEFINE doc == DefaultSeedFile
  <2>1. doc.users = users /\ doc.providers = <<>> /\ doc.active = None /\ doc.knobs = Env.knobs
    BY DEF DefaultSeedFile
  <2>2. doc = [users |-> users, providers |-> <<>>, active |-> None, knobs |-> Env.knobs]
    BY DEF DefaultSeedFile
  <2> HIDE DEF doc
  <2>3. doc.providers \in Seq(Range(doc.providers)) /\ 1..Len(doc.providers) = {}
    BY <1>2, <2>1
  <2>4. Document(doc)
    BY <1>1, <2>1, <2>2, <2>3 DEF Document
  <2> QED
    BY <2>4 DEF doc
<1>4. OwnerIn(DefaultSeedFile)
  <2>1. Owner \in DOMAIN users /\ users[Owner] = "owner"
    OBVIOUS
  <2>2. DefaultSeedFile.users = users
    BY DEF DefaultSeedFile
  <2> QED
    BY <2>1, <2>2 DEF OwnerIn, Owners
<1>5. IdsOnce(DefaultSeedFile)
  BY DEF IdsOnce, DefaultSeedFile
<1> QED
  BY <1>3, <1>4, <1>5 DEF Good

LEMMA LoadedIsGood == ASSUME SettingsAssumption, DiskInv PROVE Good(Loaded)
BY SeedIsGood DEF DiskInv, Loaded

\* A process without a file runs with its own configuration, which is also
\* what the seed makes of it.
LEMMA SeedRuns == ASSUME SettingsAssumption PROVE ApplySettingsFile(DefaultSeedFile) = Env
<1>1. DefaultSeedFile.providers = <<>> /\ DefaultSeedFile.active = None
        /\ DefaultSeedFile.knobs = Env.knobs
  BY DEF DefaultSeedFile
<1>2. [k \in Knobs |-> Knob(k, Env.knobs[k])] = Env.knobs
  BY DEF Knob, SettingsAssumption
<1>3. ApplySettingsFile(DefaultSeedFile) = [Env EXCEPT !.knobs = Env.knobs, !.active = @]
  BY <1>1, <1>2 DEF ApplySettingsFile
<1> QED
  BY <1>3 DEF SettingsAssumption

\* The parts read nothing of a document but its providers, active id and knobs.
LEMMA PartsRead ==
    ASSUME NEW doc, NEW new, new.providers = doc.providers, new.active = doc.active,
           new.knobs = doc.knobs
    PROVE  ApplySettingsFile(new) = ApplySettingsFile(doc)
BY DEF ApplySettingsFile, IdsOf, IndexOf

LEMMA UsersDoNotRun ==
    ASSUME NEW doc, Document(doc), NEW users
    PROVE  ApplySettingsFile([doc EXCEPT !.users = users]) = ApplySettingsFile(doc)
<1> DEFINE new == [doc EXCEPT !.users = users]
<1>1. new.providers = doc.providers /\ new.active = doc.active /\ new.knobs = doc.knobs
  BY DEF Document
<1> HIDE DEF new
<1>2. ApplySettingsFile(new) = ApplySettingsFile(doc)
  BY <1>1, PartsRead
<1> QED
  BY <1>2 DEF new

\* New users with an owner among them make a good document.
LEMMA GoodUsers ==
    ASSUME NEW doc, Good(doc), NEW S \in SUBSET Users, NEW users \in [S -> Roles],
           NEW u \in S, users[u] = "owner"
    PROVE  Good([doc EXCEPT !.users = users])
<1> DEFINE new == [doc EXCEPT !.users = users]
<1>1. Document(new) /\ new.users = users /\ new.providers = doc.providers
  BY DEF Good, Document
<1>2. u \in Owners(new.users)
  BY <1>1 DEF Owners
<1> QED
  BY <1>1, <1>2 DEF Good, OwnerIn, IdsOnce

\* What is left of a sequence without one of its elements.
LEMMA RemoveAtIs ==
    ASSUME NEW ps, ps \in Seq(Range(ps)), NEW i \in 1..Len(ps)
    PROVE  /\ RemoveAt(ps, i) \in Seq(Range(ps)) /\ Len(RemoveAt(ps, i)) = Len(ps) - 1
           /\ \A j \in 1..Len(RemoveAt(ps, i)) :
                /\ (IF j < i THEN j ELSE j + 1) \in 1..Len(ps)
                /\ RemoveAt(ps, i)[j] = ps[IF j < i THEN j ELSE j + 1]
<1> DEFINE rest == RemoveAt(ps, i)
           before == SubSeq(ps, 1, i - 1)
           after == SubSeq(ps, i + 1, Len(ps))
           from(j) == IF j < i THEN j ELSE j + 1
<1>a. i \in 1..Len(ps) /\ Len(ps) \in Nat
  OBVIOUS
<1>b. before \in Seq(Range(ps)) /\ Len(before) = i - 1
        /\ \A j \in 1..(i - 1) : before[j] = ps[j]
  BY <1>a
<1>c. after \in Seq(Range(ps)) /\ Len(after) = Len(ps) - i
        /\ \A j \in 1..(Len(ps) - i) : after[j] = ps[i + j]
  <2>1. i + 1 \in 1..(Len(ps) + 1)
    BY <1>a
  <2>2. after \in Seq(Range(ps))
          /\ Len(after) = (IF i + 1 <= Len(ps) THEN Len(ps) - (i + 1) + 1 ELSE 0)
          /\ \A j \in 1..(Len(ps) - (i + 1) + 1) : after[j] = ps[(i + 1) + j - 1]
    BY <1>a, <2>1, SubSeqProperties
  <2> QED
    BY <1>a, <2>2
<1>d. rest = before \o after
  BY DEF RemoveAt
<1> HIDE DEF before, after, rest
<1>e. rest \in Seq(Range(ps)) /\ Len(rest) = Len(ps) - 1
        /\ \A j \in 1..Len(rest) : rest[j] = IF j < i THEN before[j] ELSE after[j - (i - 1)]
  BY <1>a, <1>b, <1>c, <1>d
<1>f. ASSUME NEW j \in 1..Len(rest) PROVE from(j) \in 1..Len(ps) /\ rest[j] = ps[from(j)]
  <2>1. CASE j < i
    BY <1>a, <1>b, <1>e, <2>1
  <2>2. CASE ~(j < i)
    <3>1. j - (i - 1) \in 1..(Len(ps) - i) /\ i + (j - (i - 1)) = j + 1
      BY <1>a, <1>e, <2>2
    <3>2. rest[j] = after[j - (i - 1)] /\ from(j) = j + 1
      BY <1>e, <2>2
    <3>3. after[j - (i - 1)] = ps[i + (j - (i - 1))]
      BY <1>c, <3>1
    <3> QED
      BY <1>a, <1>e, <3>1, <3>2, <3>3
  <2> QED
    BY <2>1, <2>2
<1> QED
  BY <1>e, <1>f DEF rest

\* New providers, each once, make a good document.
LEMMA GoodProviders ==
    ASSUME NEW doc, Good(doc), NEW providers, NEW active, providers \in Seq(Range(providers)),
           \A i \in 1..Len(providers) : Entry(providers[i]),
           \A i, j \in 1..Len(providers) : providers[i].id = providers[j].id => i = j
    PROVE  Good([doc EXCEPT !.providers = providers, !.active = active])
<1> DEFINE new == [doc EXCEPT !.providers = providers, !.active = active]
<1>a. doc = [users |-> doc.users, providers |-> doc.providers, active |-> doc.active,
             knobs |-> doc.knobs]
  BY DEF Good, Document
<1>b. new = [users |-> doc.users, providers |-> providers, active |-> active, knobs |-> doc.knobs]
  <2> DEFINE mid == [doc EXCEPT !.providers = providers]
  <2>1. mid = [users |-> doc.users, providers |-> providers, active |-> doc.active,
               knobs |-> doc.knobs]
    BY <1>a
  <2>2. new = [mid EXCEPT !.active = active]
    OBVIOUS
  <2> HIDE DEF mid, new
  <2>3. mid.users = doc.users /\ mid.providers = providers /\ mid.knobs = doc.knobs
    BY <2>1
  <2> QED
    BY <2>1, <2>2, <2>3
<1> HIDE DEF new
<1>c. new.users = doc.users /\ new.providers = providers /\ new.active = active
        /\ new.knobs = doc.knobs
  BY <1>b
<1>1. Document(new)
  BY <1>b, <1>c DEF Good, Document
<1>2. Good(new)
  BY <1>1, <1>c DEF Good, OwnerIn, IdsOnce
<1> QED
  BY <1>2 DEF new

\* One provider changed in place makes a good document.
LEMMA GoodEntry ==
    ASSUME NEW doc, Good(doc), NEW i \in DOMAIN doc.providers, NEW sp, Entry(sp),
           sp.id = doc.providers[i].id
    PROVE  Good([doc EXCEPT !.providers[i] = sp])
<1> DEFINE ps == [doc.providers EXCEPT ![i] = sp]
<1>1. doc.providers \in Seq(Range(doc.providers))
        /\ \A j \in 1..Len(doc.providers) : Entry(doc.providers[j])
  BY DEF Good, Document
<1>2. Len(ps) = Len(doc.providers) /\ DOMAIN ps = 1..Len(ps) /\ Len(ps) \in Nat
        /\ \A j \in 1..Len(ps) : ps[j] = IF j = i THEN sp ELSE doc.providers[j]
  BY <1>1
<1>3. \A j, k \in 1..Len(ps) : ps[j].id = ps[k].id => j = k
  BY <1>1, <1>2 DEF Good, IdsOnce
<1>4. ps \in Seq(Range(ps))
  <2>1. ps \in Seq(Range(doc.providers) \cup {sp})
    BY <1>1
  <2> QED
    BY <2>1, SeqOfRange
<1>5. Good([doc EXCEPT !.providers = ps, !.active = doc.active])
  BY <1>1, <1>2, <1>3, <1>4, GoodProviders
<1>6. [doc EXCEPT !.providers = ps, !.active = doc.active] = [doc EXCEPT !.providers[i] = sp]
  BY DEF Good, Document
<1> QED
  BY <1>5, <1>6

-----------------------------------------------------------------------------
(* Steps. *)

LEMMA StartIsGood ==
    ASSUME SettingsAssumption, NEW doc \in Start, doc # None PROVE Good(doc)
<1>1. doc \in Documents /\ OwnerIn(doc) /\ IdsOnce(doc)
  BY DEF SettingsAssumption
<1>2. doc.providers \in Seq(Entries)
  BY <1>1 DEF Documents
<1>3. doc.providers \in Seq(Range(doc.providers))
  BY <1>2, SeqOfRange
<1>4. \A i \in 1..Len(doc.providers) : Entry(doc.providers[i])
  <2> TAKE i \in 1..Len(doc.providers)
  <2>1. doc.providers[i] \in Entries
    BY <1>2
  <2> QED
    BY <2>1 DEF Entries, Entry
<1>5. Document(doc)
  BY <1>1, <1>3, <1>4 DEF Documents, Document
<1> QED
  BY <1>1, <1>5 DEF Good

LEMMA InitIInv == SettingsAssumption /\ SettingsInit => IInv
<1> SUFFICES ASSUME SettingsAssumption, SettingsInit PROVE IInv
  OBVIOUS
<1>1. file # None => Good(file)
  BY StartIsGood DEF SettingsInit
<1>2. OpInv /\ DiskInv /\ PartsInv
  BY <1>1 DEF SettingsInit, Idle, OpShape, OpInv, DiskInv, PartsInv
<1> QED
  BY <1>2 DEF IInv

\* A request that takes the mutex with a good document keeps the invariant.
LEMMA Taken ==
    ASSUME IInv, Request, NEW doc, Good(doc), NEW reload \in BOOLEAN,
           reload \/ ApplySettingsFile(doc) = ApplySettingsFile(Loaded),
           Takes(doc, reload)
    PROVE  IInv'
<1>1. op' = [step |-> "create", doc |-> doc, reload |-> reload, left |-> <<>>]
        /\ UNCHANGED <<file, tmp, up, running, crashes, acked>>
  BY DEF Takes
<1>2. up /\ op.step = "idle"
  BY DEF Request
<1>3. Loaded' = Loaded
  BY <1>1 DEF Loaded
<1>4. OpShape'
  <2>1. op'.step = "create" /\ op'.doc = doc /\ op'.reload = reload /\ op'.left = <<>>
    BY <1>1
  <2>2. <<>> \in Seq(Range(Parts))
    OBVIOUS
  <2>3. op'.reload \in BOOLEAN
    BY <2>1, Zenon
  <2> QED
    BY <1>1, <2>1, <2>2, <2>3 DEF OpShape
<1>6. OpInv'
  BY <1>1, <1>3, <1>4 DEF OpInv
<1>7. DiskInv'
  BY <1>1, <1>2 DEF IInv, DiskInv
<1>8. PartsInv'
  BY <1>1, <1>2, <1>3 DEF IInv, PartsInv
<1> QED
  BY <1>6, <1>7, <1>8 DEF IInv

LEMMA StepUsers ==
    ASSUME SettingsAssumption, IInv, CreateUser \/ UpdateUser \/ DeleteUser
    PROVE  IInv'
<1>1. Good(Loaded)
  BY LoadedIsGood DEF IInv
<1>3. PICK S \in SUBSET Users : Loaded.users \in [S -> Roles]
  BY <1>1 DEF Good, Document
<1>4. PICK o \in S : Loaded.users[o] = "owner"
  BY <1>1, <1>3 DEF Good, OwnerIn, Owners
<1>5. ASSUME NEW R \in SUBSET Users, NEW users \in [R -> Roles], NEW u \in R, users[u] = "owner",
             Request, Takes([Loaded EXCEPT !.users = users], FALSE), UNCHANGED strays
      PROVE  IInv'
  <2>1. Good([Loaded EXCEPT !.users = users])
    BY <1>1, <1>5, GoodUsers
  <2>2. ApplySettingsFile([Loaded EXCEPT !.users = users]) = ApplySettingsFile(Loaded)
    BY <1>1, UsersDoNotRun DEF Good
  <2> QED
    BY <1>5, <2>1, <2>2, Taken
<1>6. CASE CreateUser
  <2>1. PICK u \in Users \ DOMAIN Loaded.users, r \in Roles :
            /\ Request
            /\ Takes([Loaded EXCEPT !.users = [v \in DOMAIN @ \cup {u} |-> IF v = u THEN r ELSE @[v]]], FALSE)
            /\ UNCHANGED strays
    BY <1>6 DEF CreateUser
  <2> DEFINE users == [v \in DOMAIN Loaded.users \cup {u} |-> IF v = u THEN r ELSE Loaded.users[v]]
  <2>2. users \in [S \cup {u} -> Roles] /\ o \in S \cup {u} /\ users[o] = "owner"
    BY <1>3, <1>4, <2>1
  <2>3. S \cup {u} \in SUBSET Users
    BY <1>3, <2>1
  <2> QED
    BY <1>5, <2>1, <2>2, <2>3
<1>7. CASE UpdateUser
  <2>1. PICK u \in DOMAIN Loaded.users, r \in Roles :
            /\ Request
            /\ ~(Loaded.users[u] = "owner" /\ r # "owner" /\ Cardinality(Owners(Loaded.users)) <= 1)
            /\ Takes([Loaded EXCEPT !.users[u] = r], FALSE)
            /\ UNCHANGED strays
    BY <1>7 DEF UpdateUser
  <2> DEFINE users == [Loaded.users EXCEPT ![u] = r]
  <2>2. users \in [S -> Roles] /\ u \in S
    BY <1>3, <2>1
  <2>3. [Loaded EXCEPT !.users[u] = r] = [Loaded EXCEPT !.users = users]
    BY <1>1 DEF Good, Document
  <2>4. PICK v \in S : users[v] = "owner"
    <3>1. CASE r = "owner" \/ o # u
      BY <1>3, <1>4, <2>2, <3>1
    <3>2. CASE r # "owner" /\ o = u
      <4>1. ~(Cardinality(Owners(Loaded.users)) <= 1)
        BY <1>4, <2>1, <3>2
      <4>2. Owners(Loaded.users) # {u}
        <5>1. Cardinality({u}) = 1
          BY FS_Singleton
        <5> QED
          BY <4>1, <5>1
      <4>3. PICK w \in Owners(Loaded.users) : w # u
        BY <1>3, <1>4, <3>2, <4>2 DEF Owners
      <4>4. w \in S /\ users[w] = "owner"
        BY <1>3, <4>3 DEF Owners
      <4> QED
        BY <4>4
    <3> QED
      BY <3>1, <3>2
  <2> QED
    BY <1>5, <2>1, <2>2, <2>3, <2>4
<1>8. CASE DeleteUser
  <2>1. PICK u \in DOMAIN Loaded.users :
            /\ Request
            /\ ~(Loaded.users[u] = "owner" /\ Cardinality(Owners(Loaded.users)) <= 1)
            /\ Takes([Loaded EXCEPT !.users = [v \in DOMAIN @ \ {u} |-> @[v]]], FALSE)
            /\ UNCHANGED strays
    BY <1>8 DEF DeleteUser
  <2> DEFINE users == [v \in DOMAIN Loaded.users \ {u} |-> Loaded.users[v]]
  <2>2. users \in [S \ {u} -> Roles] /\ \A v \in S \ {u} : users[v] = Loaded.users[v]
    BY <1>3
  <2>3. PICK w \in S \ {u} : Loaded.users[w] = "owner"
    <3>1. CASE o # u
      BY <1>4, <3>1
    <3>2. CASE o = u
      <4>1. ~(Cardinality(Owners(Loaded.users)) <= 1)
        BY <1>4, <2>1, <3>2
      <4>2. Owners(Loaded.users) # {u}
        <5>1. Cardinality({u}) = 1
          BY FS_Singleton
        <5> QED
          BY <4>1, <5>1
      <4> QED
        BY <1>3, <1>4, <3>2, <4>2 DEF Owners
    <3> QED
      BY <3>1, <3>2
  <2>4. users[w] = "owner" /\ S \ {u} \in SUBSET Users
    BY <2>2, <2>3
  <2> QED
    BY <1>5, <2>1, <2>2, <2>3, <2>4
<1> QED
  BY <1>6, <1>7, <1>8

\* Requests that change the providers, or a knob, and reload the parts.
LEMMA StepProviders ==
    ASSUME SettingsAssumption, IInv,
           \/ CreateProvider \/ UpdateProvider \/ DeleteProvider
           \/ AddModel \/ RemoveModel \/ PatchConfig
    PROVE  IInv'
<1> DEFINE ps == Loaded.providers
<1>1. Good(Loaded)
  BY LoadedIsGood DEF IInv
<1>2. ps \in Seq(Range(ps)) /\ DOMAIN ps = 1..Len(ps) /\ \A i \in 1..Len(ps) : Entry(ps[i])
  BY <1>1 DEF Good, Document
<1>3. \A i, j \in 1..Len(ps) : ps[i].id = ps[j].id => i = j
  BY <1>1, <1>2 DEF Good, IdsOnce
<1>4. ASSUME NEW doc, Good(doc), Request, Takes(doc, TRUE) PROVE IInv'
  BY <1>4, Taken
<1>5. CASE CreateProvider
  <2>1. PICK p \in Providers \ IdsOf(Loaded), key, enabled \in BOOLEAN, m \in Models \cup {None} :
            LET sp == [id |-> p, key |-> key, enabled |-> enabled,
                       models |-> IF m = None THEN <<>> ELSE <<m>>]
            IN  /\ Request
                /\ Takes([Loaded EXCEPT !.providers = Append(@, sp),
                                        !.active = IF @ = None THEN p ELSE @], TRUE)
                /\ UNCHANGED strays
    BY <1>5 DEF CreateProvider
  <2> DEFINE sp == [id |-> p, key |-> key, enabled |-> enabled,
                    models |-> IF m = None THEN <<>> ELSE <<m>>]
  <2>2. Entry(sp) /\ sp.id = p
    BY DEF Entry
  <2>3. \A i \in 1..Len(ps) : ps[i].id # p
    BY <1>2, <2>1 DEF IdsOf
  <2>4. Request /\ Takes([Loaded EXCEPT !.providers = Append(ps, sp),
                             !.active = IF Loaded.active = None THEN p ELSE Loaded.active], TRUE)
    BY <1>1, <2>1 DEF Good, Document
  <2> HIDE DEF ps, sp
  <2> DEFINE new == Append(ps, sp)
  <2>5. /\ new \in Seq(Range(ps) \cup {sp}) /\ Len(new) = Len(ps) + 1
        /\ \A i \in 1..Len(new) : new[i] = IF i = Len(new) THEN sp ELSE ps[i]
    BY <1>2
  <2>6. new \in Seq(Range(new))
    BY <2>5, SeqOfRange
  <2>7. \A i \in 1..Len(new) : Entry(new[i])
    BY <1>2, <2>2, <2>5
  <2>8. \A i, j \in 1..Len(new) : new[i].id = new[j].id => i = j
    BY <1>2, <1>3, <2>2, <2>3, <2>5
  <2> HIDE DEF new
  <2>9. Good([Loaded EXCEPT !.providers = new,
                 !.active = IF Loaded.active = None THEN p ELSE Loaded.active])
    BY <1>1, <2>6, <2>7, <2>8, GoodProviders
  <2> QED
    BY <1>4, <2>4, <2>9 DEF new
<1>6. CASE UpdateProvider
  <2>1. PICK i \in DOMAIN Loaded.providers : \E sp \in Updated(Loaded.providers[i]) :
            Request /\ Takes([Loaded EXCEPT !.providers[i] = sp], TRUE)
    BY <1>6 DEF UpdateProvider
  <2>2. PICK sp \in Updated(ps[i]) : Request /\ Takes([Loaded EXCEPT !.providers[i] = sp], TRUE)
    BY <2>1
  <2>3. Entry(ps[i])
    BY <1>2
  <2>4. Entry(sp) /\ sp.id = ps[i].id
    BY <2>2, <2>3 DEF Updated, Entry
  <2>5. Good([Loaded EXCEPT !.providers[i] = sp])
    BY <1>1, <2>4, GoodEntry
  <2> QED
    BY <1>4, <2>2, <2>5
<1>7. CASE DeleteProvider
  <2>1. PICK i \in DOMAIN Loaded.providers : Request /\ Takes(WithoutProvider(Loaded, i), TRUE)
    BY <1>7 DEF DeleteProvider
  <2> DEFINE rest == RemoveAt(ps, i)
             active == IF Loaded.active # ps[i].id THEN Loaded.active
                       ELSE IF rest = <<>> THEN None ELSE rest[1].id
  <2>2. WithoutProvider(Loaded, i) = [Loaded EXCEPT !.providers = rest, !.active = active]
    BY <1>1 DEF WithoutProvider, Good, Document
  <2> DEFINE from(j) == IF j < i THEN j ELSE j + 1
  <2>a. i \in 1..Len(ps) /\ Len(ps) \in Nat
    BY <1>2
  <2>e. rest \in Seq(Range(ps)) /\ Len(rest) = Len(ps) - 1
          /\ \A j \in 1..Len(rest) : from(j) \in 1..Len(ps) /\ rest[j] = ps[from(j)]
    BY <1>2, <2>a, RemoveAtIs
  <2>f. \A j \in 1..Len(rest) : from(j) \in 1..Len(ps) /\ rest[j] = ps[from(j)]
    BY <2>e
  <2> HIDE DEF ps, rest
  <2>4. rest \in Seq(Range(rest))
    BY <2>e, SeqOfRange
  <2>5. \A j \in 1..Len(rest) : Entry(rest[j])
    BY <1>2, <2>f
  <2>6. ASSUME NEW j \in 1..Len(rest), NEW k \in 1..Len(rest), rest[j].id = rest[k].id PROVE j = k
    <3>1. from(j) = from(k)
      BY <1>3, <2>6, <2>f
    <3> QED
      BY <2>a, <2>e, <3>1
  <2> HIDE DEF active
  <2>7. Good([Loaded EXCEPT !.providers = rest, !.active = active])
    BY <1>1, <2>4, <2>5, <2>6, GoodProviders
  <2> QED
    BY <1>4, <2>1, <2>2, <2>7
<1>8. ASSUME NEW i \in DOMAIN Loaded.providers, NEW models, Request,
             Takes([Loaded EXCEPT !.providers[i].models = models], TRUE)
      PROVE  IInv'
  <2> DEFINE sp == [ps[i] EXCEPT !.models = models]
  <2>1. Entry(ps[i])
    BY <1>2
  <2>2. Entry(sp) /\ sp.id = ps[i].id
    BY <2>1 DEF Entry
  <2>3. [Loaded EXCEPT !.providers[i].models = models] = [Loaded EXCEPT !.providers[i] = sp]
    OBVIOUS
  <2> HIDE DEF sp
  <2>4. Good([Loaded EXCEPT !.providers[i] = sp])
    BY <1>1, <2>2, GoodEntry
  <2> QED
    BY <1>4, <1>8, <2>3, <2>4
<1>9. CASE AddModel
  <2>1. PICK i \in DOMAIN Loaded.providers, m \in Models :
            Request /\ Takes([Loaded EXCEPT !.providers[i].models = Append(@, m)], TRUE)
    BY <1>9 DEF AddModel
  <2>2. Takes([Loaded EXCEPT !.providers[i].models = Append(Loaded.providers[i].models, m)], TRUE)
    BY <1>1, <1>2, <2>1 DEF Good, Document, Entry
  <2> QED
    BY <1>8, <2>1, <2>2
<1>10. CASE RemoveModel
  <2>1. PICK i \in DOMAIN Loaded.providers : \E m \in Range(Loaded.providers[i].models) :
            Request /\ Takes([Loaded EXCEPT !.providers[i].models = WithoutModel(@, m)], TRUE)
    BY <1>10 DEF RemoveModel
  <2>2. \E models : Request /\ Takes([Loaded EXCEPT !.providers[i].models = models], TRUE)
    BY <1>1, <1>2, <2>1 DEF Good, Document, Entry
  <2> QED
    BY <1>8, <2>2
<1>11. CASE PatchConfig
  <2>1. CASE \E k \in Knobs, v \in 0..1 : Request /\ Takes([Loaded EXCEPT !.knobs[k] = v], TRUE)
    <3>1. PICK k \in Knobs, v \in 0..1 : Request /\ Takes([Loaded EXCEPT !.knobs[k] = v], TRUE)
      BY <2>1
    <3>2. Good([Loaded EXCEPT !.knobs[k] = v])
      BY <1>1 DEF Good, Document, OwnerIn, IdsOnce
    <3> QED
      BY <1>4, <3>1, <3>2
  <2>2. CASE \E p \in Providers \cup {None} : Request /\ Takes([Loaded EXCEPT !.active = p], TRUE)
    <3>1. PICK p \in Providers \cup {None} : Request /\ Takes([Loaded EXCEPT !.active = p], TRUE)
      BY <2>2
    <3>2. Good([Loaded EXCEPT !.active = p])
      BY <1>1 DEF Good, Document, OwnerIn, IdsOnce
    <3> QED
      BY <1>4, <3>1, <3>2
  <2> QED
    BY <1>11, <2>1, <2>2 DEF PatchConfig
<1> QED
  BY <1>5, <1>6, <1>7, <1>9, <1>10, <1>11

\* The import asks for models while it holds the mutex.
LEMMA StepImport == ASSUME SettingsAssumption, IInv, ImportModels \/ Fetched PROVE IInv'
<1>1. CASE ImportModels
  <2>1. PICK i \in DOMAIN Loaded.providers :
            op' = [step |-> "fetch", doc |-> Loaded, reload |-> TRUE, left |-> <<>>, at |-> i]
    BY <1>1 DEF ImportModels
  <2>2. up /\ op.step = "idle" /\ UNCHANGED <<file, tmp, up, running, acked>> /\ Loaded' = Loaded
    BY <1>1 DEF ImportModels, Request, Loaded
  <2>3. Good(Loaded)
    BY LoadedIsGood DEF IInv
  <2>4. op'.step = "fetch" /\ op'.doc = Loaded /\ op'.reload = TRUE /\ op'.left = <<>> /\ op'.at = i
    BY <2>1
  <2>5. OpShape'
    BY <2>1, <2>4 DEF OpShape
  <2>6. OpInv'
    BY <2>2, <2>3, <2>4, <2>5 DEF OpInv
  <2>7. DiskInv' /\ PartsInv'
    BY <2>2, <2>4 DEF IInv, DiskInv, PartsInv
  <2> QED
    BY <2>6, <2>7 DEF IInv
<1>2. CASE Fetched
  <2>1. op.step = "fetch" /\ UNCHANGED <<file, tmp, up, running, acked>> /\ Loaded' = Loaded
    BY <1>2 DEF Fetched, Loaded
  <2>2. CASE op' = Idle
    BY <2>1, <2>2 DEF IInv, OpInv, OpShape, DiskInv, PartsInv, Idle
  <2>3. CASE \E ms \in SUBSET Models :
               LET new == ms \ Range(op.doc.providers[op.at].models)
               IN  op' = [op EXCEPT !.step = "create",
                             !.doc.providers[op.at].models = @ \o SetToSeq(new)]
    <3>1. Good(op.doc) /\ OpShape /\ op # Idle
      BY <2>1 DEF IInv, OpInv, Idle
    <3>2. PICK ms \in SUBSET Models :
            op' = [op EXCEPT !.step = "create",
                     !.doc.providers[op.at].models =
                        @ \o SetToSeq(ms \ Range(op.doc.providers[op.at].models))]
      BY <2>3
    <3>3. PICK models : op' = [op EXCEPT !.step = "create", !.doc.providers[op.at].models = models]
      BY <3>1, <3>2 DEF OpShape
    <3> DEFINE doc == [op.doc EXCEPT !.providers[op.at].models = models]
    <3>4. op' = [op EXCEPT !.step = "create", !.doc = doc]
      BY <3>1, <3>3 DEF OpShape
    <3>5. Good(doc)
      <4>1. CASE op.at \in DOMAIN op.doc.providers
        <5> DEFINE sp == [op.doc.providers[op.at] EXCEPT !.models = models]
        <5>1. Entry(op.doc.providers[op.at])
          BY <3>1, <4>1 DEF Good, Document
        <5>2. Entry(sp) /\ sp.id = op.doc.providers[op.at].id
          BY <5>1 DEF Entry
        <5>3. doc = [op.doc EXCEPT !.providers[op.at] = sp]
          OBVIOUS
        <5> HIDE DEF sp, doc
        <5> QED
          BY <3>1, <4>1, <5>2, <5>3, GoodEntry
      <4>2. CASE op.at \notin DOMAIN op.doc.providers
        <5>1. doc = op.doc
          BY <3>1, <4>2 DEF Good, Document
        <5> QED
          BY <3>1, <5>1
      <4> QED
        BY <4>1, <4>2
    <3> HIDE DEF doc
    <3>6. op'.step = "create" /\ op'.doc = doc /\ op'.reload = op.reload /\ op'.left = op.left
      BY <3>1, <3>4 DEF OpShape
    <3>7. op' = [step |-> op'.step, doc |-> op'.doc, reload |-> op'.reload, left |-> op'.left]
            \/ op' = [step |-> op'.step, doc |-> op'.doc, reload |-> op'.reload,
                      left |-> op'.left, at |-> op'.at]
      BY <3>1, <3>4 DEF OpShape
    <3>8. OpShape' /\ op'.reload
      BY <2>1, <3>1, <3>6, <3>7 DEF OpShape
    <3>9. OpInv'
      BY <3>5, <3>6, <3>8 DEF OpInv
    <3>10. DiskInv' /\ PartsInv'
      BY <2>1, <3>6 DEF IInv, DiskInv, PartsInv
    <3> QED
      BY <3>9, <3>10 DEF IInv
  <2> QED
    BY <1>2, <2>2, <2>3 DEF Fetched
<1> QED
  BY <1>1, <1>2

\* A change of the step, and of what is left to reload, keeps the rest of a request.
LEMMA OpMoves ==
    \A s \in {"create", "write", "rename", "reload"}, left \in Seq(Range(Parts)) :
        OpShape /\ op # Idle /\ op' = [op EXCEPT !.step = s, !.left = left]
        => /\ OpShape' /\ op'.step = s /\ op'.left = left
           /\ op'.doc = op.doc /\ op'.reload = op.reload
<1> TAKE s \in {"create", "write", "rename", "reload"}, left \in Seq(Range(Parts))
<1> HAVE OpShape /\ op # Idle /\ op' = [op EXCEPT !.step = s, !.left = left]
<1>1. op'.step = s /\ op'.left = left /\ op'.doc = op.doc /\ op'.reload = op.reload
  BY DEF OpShape
<1>2. op' = [step |-> op'.step, doc |-> op'.doc, reload |-> op'.reload, left |-> op'.left]
        \/ op' = [step |-> op'.step, doc |-> op'.doc, reload |-> op'.reload,
                  left |-> op'.left, at |-> op'.at]
  BY DEF OpShape
<1> QED
  BY <1>1, <1>2 DEF OpShape

\* The save fails before the rename, or the document becomes the file.
LEMMA StepSave ==
    ASSUME NoneIsNoDocument, IInv, SaveOpens \/ SaveWrites \/ SaveRenames PROVE IInv'
<1>1. OpShape /\ op # Idle /\ op.step \in {"create", "write", "rename"}
  BY DEF IInv, OpInv, SaveOpens, SaveWrites, SaveRenames, Idle
<1>2. Good(op.doc) /\ op.left \in Seq(Range(Parts))
  BY <1>1 DEF IInv, OpInv, OpShape, Idle
<1>3. up /\ UNCHANGED <<up, running, acked>>
  BY DEF SaveOpens, SaveWrites, SaveRenames
<1>4. ASSUME op' = Idle, UNCHANGED file PROVE IInv'
  <2>1. op'.step = "idle" /\ OpShape' /\ Loaded' = Loaded
    BY <1>4 DEF Idle, OpShape, Loaded
  <2>2. OpInv'
    BY <2>1 DEF OpInv
  <2>3. DiskInv' /\ PartsInv'
    BY <1>1, <1>3, <1>4, <2>1 DEF IInv, DiskInv, PartsInv
  <2> QED
    BY <2>2, <2>3 DEF IInv
<1>5. ASSUME NEW s \in {"write", "rename"}, op' = [op EXCEPT !.step = s], UNCHANGED file,
             s = "rename" => tmp' = op.doc
      PROVE  IInv'
  <2>1. op' = [op EXCEPT !.step = s, !.left = op.left]
    BY <1>1, <1>5 DEF OpShape
  <2>2. OpShape' /\ op'.step = s /\ op'.doc = op.doc /\ op'.reload = op.reload
    BY <1>1, <1>2, <2>1, OpMoves
  <2>3. Loaded' = Loaded
    BY <1>5 DEF Loaded
  <2>4. OpInv'
    BY <1>1, <1>2, <1>5, <2>2, <2>3 DEF IInv, OpInv
  <2>5. DiskInv' /\ PartsInv'
    BY <1>1, <1>3, <1>5, <2>2, <2>3 DEF IInv, DiskInv, PartsInv
  <2> QED
    BY <2>4, <2>5 DEF IInv
<1>6. CASE SaveOpens
  BY <1>4, <1>5, <1>6 DEF SaveOpens, Failed
<1>7. CASE SaveWrites
  BY <1>4, <1>5, <1>7 DEF SaveWrites, Failed
<1>8. CASE SaveRenames
  <2>1. CASE Failed /\ UNCHANGED file
    BY <1>4, <2>1 DEF Failed
  <2>2. CASE /\ file' = tmp
             /\ op' = [op EXCEPT !.step = "reload", !.left = IF op.reload THEN Parts ELSE <<>>]
    <3> DEFINE left == IF op.reload THEN Parts ELSE <<>>
    <3>1. left \in Seq(Range(Parts))
      <4>1. Parts \in Seq(Range(Parts)) /\ <<>> \in Seq(Range(Parts))
        BY DEF Parts, Range
      <4> QED
        BY <4>1
    <3>2. op' = [op EXCEPT !.step = "reload", !.left = left]
      BY <2>2
    <3> HIDE DEF left
    <3>3. OpShape' /\ op'.step = "reload" /\ op'.left = left /\ op'.doc = op.doc
            /\ op'.reload = op.reload
      BY <1>1, <3>1, <3>2, OpMoves
    <3>4. tmp = op.doc /\ op.step = "rename"
      BY <1>8 DEF SaveRenames, IInv, OpInv
    <3>5. file' = op.doc /\ file' # None /\ Loaded' = op.doc
      BY <1>2, <2>2, <3>4 DEF Good, NoneIsNoDocument, Loaded
    <3>6. OpInv' /\ DiskInv'
      BY <1>2, <3>3, <3>5 DEF OpInv, DiskInv
    <3>7. PartsInv'
      <4>1. CASE op.reload
        BY <1>3, <3>3, <4>1 DEF IInv, PartsInv, left
      <4>2. CASE ~op.reload
        <5>1. ApplySettingsFile(op.doc) = ApplySettingsFile(Loaded)
          BY <1>1, <4>2 DEF IInv, OpInv
        <5> QED
          BY <1>1, <1>3, <3>5, <5>1 DEF IInv, PartsInv
      <4> QED
        BY <4>1, <4>2
    <3> QED
      BY <3>6, <3>7 DEF IInv
  <2> QED
    BY <1>8, <2>1, <2>2 DEF SaveRenames
<1> QED
  BY <1>6, <1>7, <1>8

\* Each part takes the saved document in its turn, and then the request is answered.
LEMMA StepReload ==
    ASSUME NoneIsNoDocument, IInv, ReloadPart \/ Answer PROVE IInv'
<1>1. OpShape /\ op # Idle /\ op.step = "reload" /\ up /\ UNCHANGED <<file, tmp, up>>
  BY DEF IInv, OpInv, ReloadPart, Answer, Idle
<1>2. Good(op.doc) /\ op.left \in Seq(Range(Parts))
  BY <1>1 DEF IInv, OpInv, OpShape, Idle
<1>3. file = op.doc /\ Loaded = op.doc /\ Loaded' = Loaded
  BY <1>1, <1>2 DEF IInv, DiskInv, Good, NoneIsNoDocument, Loaded
<1>4. CASE ReloadPart
  <2>1. op.left # <<>> /\ op' = [op EXCEPT !.left = Tail(op.left)]
          /\ running' = [running EXCEPT ![Head(op.left)] = ApplySettingsFile(op.doc)]
    BY <1>1, <1>4 DEF ReloadPart, OpShape
  <2>2. Tail(op.left) \in Seq(Range(Parts))
    BY <1>2, <2>1
  <2>3. op' = [op EXCEPT !.step = "reload", !.left = Tail(op.left)]
    BY <1>1, <2>1 DEF OpShape
  <2>4. OpShape' /\ op'.step = "reload" /\ op'.left = Tail(op.left) /\ op'.doc = op.doc
    BY <1>1, <2>2, <2>3, OpMoves
  <2>5. OpInv' /\ DiskInv'
    BY <1>1, <1>2, <1>3, <2>4 DEF IInv, OpInv, DiskInv
  <2>6. \A p \in Range(op.left) : p = Head(op.left) \/ p \in Range(Tail(op.left))
    <3> DEFINE left == op.left
    <3>1. left \in Seq(Range(Parts)) /\ left # <<>>
      BY <1>2, <2>1
    <3> HIDE DEF left
    <3>2. ASSUME NEW i \in 1..Len(left) PROVE left[i] = Head(left) \/ left[i] \in Range(Tail(left))
      <4>1. CASE i = 1
        BY <3>1, <4>1
      <4>2. CASE i # 1
        <5>1. i - 1 \in DOMAIN Tail(left) /\ Tail(left)[i - 1] = left[i]
          BY <3>1, <4>2
        <5> QED
          BY <5>1 DEF Range
      <4> QED
        BY <4>1, <4>2
    <3>3. \A p \in Range(left) : p = Head(left) \/ p \in Range(Tail(left))
      BY <3>1, <3>2 DEF Range
    <3> QED
      BY <3>3 DEF left
  <2>7. \A p \in Range(Parts) : running'[p] = ApplySettingsFile(op.doc) \/ running'[p] = running[p]
    BY <2>1 DEF IInv, PartsInv, AllParts
  <2>8. Head(op.left) \in Range(Parts) /\ DOMAIN running = AllParts
          /\ running'[Head(op.left)] = ApplySettingsFile(op.doc) /\ DOMAIN running' = AllParts
    BY <1>2, <2>1 DEF IInv, PartsInv, AllParts
  <2>9. ASSUME NEW p \in Range(Parts)
        PROVE  p \in Range(Tail(op.left)) \/ running'[p] = ApplySettingsFile(op.doc)
    <3>1. CASE p \in Range(op.left)
      BY <2>6, <2>8, <3>1
    <3>2. CASE p \notin Range(op.left)
      BY <1>1, <1>3, <2>7, <3>2 DEF IInv, PartsInv
    <3> QED
      BY <3>1, <3>2
  <2>10. PartsInv'
    BY <1>1, <1>3, <2>4, <2>8, <2>9 DEF PartsInv
  <2> QED
    BY <2>5, <2>10 DEF IInv
<1>5. CASE Answer
  <2>1. op.left = <<>> /\ op' = Idle /\ acked' = op.doc /\ UNCHANGED running
    BY <1>5 DEF Answer
  <2>2. op'.step = "idle" /\ OpShape'
    BY <2>1 DEF Idle, OpShape
  <2>3. OpInv' /\ DiskInv'
    BY <1>1, <1>2, <1>3, <2>1, <2>2 DEF IInv, OpInv, DiskInv
  <2>4. PartsInv'
    BY <1>1, <1>3, <2>1, <2>2 DEF IInv, PartsInv, Range
  <2> QED
    BY <2>3, <2>4 DEF IInv
<1> QED
  BY <1>4, <1>5

\* A start of the process finds or seeds the document, and every part takes it.
LEMMA StepBoot ==
    ASSUME SettingsAssumption, NoneIsNoDocument, IInv, Boot PROVE IInv'
<1>1. PICK seeded \in BOOLEAN :
        LET doc == IF file = None /\ seeded THEN DefaultSeedFile ELSE file IN
        /\ file' = doc
        /\ running' = [p \in AllParts |-> IF doc = None THEN Env ELSE ApplySettingsFile(doc)]
        /\ acked' = doc
  BY DEF Boot
<1>2. up' = TRUE /\ op' = Idle /\ op'.step = "idle"
  BY DEF Boot, Idle
<1> DEFINE doc == IF file = None /\ seeded THEN DefaultSeedFile ELSE file
<1>3. Good(DefaultSeedFile) /\ DefaultSeedFile # None
  BY SeedIsGood DEF Good, NoneIsNoDocument
<1>4. file' = doc /\ acked' = doc /\ (doc # None => Good(doc))
        /\ running' = [p \in AllParts |-> IF doc = None THEN Env ELSE ApplySettingsFile(doc)]
  BY <1>1, <1>3 DEF IInv, DiskInv
<1> HIDE DEF doc
<1>5. OpInv'
  BY <1>2 DEF OpInv, OpShape
<1>6. DiskInv'
  BY <1>2, <1>4 DEF DiskInv
<1>7. ASSUME NEW p \in Range(Parts) PROVE running'[p] = ApplySettingsFile(Loaded')
  <2>1. CASE doc = None
    BY <1>4, <2>1, SeedRuns DEF Loaded, AllParts
  <2>2. CASE doc # None
    BY <1>4, <2>2 DEF Loaded, AllParts
  <2> QED
    BY <2>1, <2>2
<1>8. DOMAIN running' = AllParts
  BY <1>4
<1>9. PartsInv'
  BY <1>7, <1>8 DEF PartsInv
<1> QED
  BY <1>5, <1>6, <1>9 DEF IInv

LEMMA StepIInv == SettingsAssumption /\ NoneIsNoDocument /\ IInv /\ [SettingsNext]_settingsVars => IInv'
<1> SUFFICES ASSUME SettingsAssumption, NoneIsNoDocument, IInv, [SettingsNext]_settingsVars PROVE IInv'
  OBVIOUS
<1>1. CASE Boot
  BY <1>1, StepBoot
<1>2. CASE Crash
  BY <1>2 DEF Crash, IInv, OpInv, OpShape, DiskInv, PartsInv, Loaded
<1>3. CASE CreateUser \/ UpdateUser \/ DeleteUser
  BY <1>3, StepUsers
<1>4. CASE \/ CreateProvider \/ UpdateProvider \/ DeleteProvider
           \/ AddModel \/ RemoveModel \/ PatchConfig
  BY <1>4, StepProviders
<1>5. CASE ImportModels \/ Fetched
  BY <1>5, StepImport
<1>6. CASE SaveOpens \/ SaveWrites \/ SaveRenames
  BY <1>6, StepSave
<1>7. CASE ReloadPart \/ Answer
  BY <1>7, StepReload
<1>8. CASE UNCHANGED settingsVars
  BY <1>8 DEF settingsVars, IInv, OpInv, OpShape, DiskInv, PartsInv, Loaded
<1> QED
  BY <1>1, <1>2, <1>3, <1>4, <1>5, <1>6, <1>7, <1>8 DEF SettingsNext

LEMMA OnceOrAgain == BuiltOnce \cap Range(Parts) = {}
<1>1. Range(Parts) = {"router", "catalog", "vision", "effort", "worker"}
  BY DEF Parts, Range
<1> QED
  BY <1>1 DEF BuiltOnce

\* Only a start of the process touches the parts that are built once.
LEMMA StepBorn ==
    SettingsAssumption /\ IInv /\ BornInv /\ [SettingsNext]_settingsVars => BornInv'
<1> SUFFICES ASSUME SettingsAssumption, IInv, BornInv, [SettingsNext]_settingsVars PROVE BornInv'
  OBVIOUS
<1>1. CASE Boot
  <2>1. PICK seeded \in BOOLEAN :
          LET doc == IF file = None /\ seeded THEN DefaultSeedFile ELSE file IN
          /\ running' = [p \in AllParts |-> IF doc = None THEN Env ELSE ApplySettingsFile(doc)]
          /\ born' = IF doc = None THEN DefaultSeedFile ELSE doc
    BY <1>1 DEF Boot
  <2> DEFINE doc == IF file = None /\ seeded THEN DefaultSeedFile ELSE file
  <2>2. /\ running' = [p \in AllParts |-> IF doc = None THEN Env ELSE ApplySettingsFile(doc)]
        /\ born' = IF doc = None THEN DefaultSeedFile ELSE doc
    BY <2>1
  <2> HIDE DEF doc
  <2>3. ASSUME NEW p \in BuiltOnce PROVE running'[p] = ApplySettingsFile(born')
    BY <2>2, <2>3, SeedRuns DEF AllParts
  <2> QED
    BY <2>3 DEF BornInv
<1>2. CASE ReloadPart
  <2>1. op.left \in Seq(Range(Parts)) /\ op.left # <<>> /\ up /\ UNCHANGED <<up, born>>
          /\ running' = [running EXCEPT ![Head(op.left)] = ApplySettingsFile(op.doc)]
    BY <1>2 DEF IInv, OpInv, OpShape, ReloadPart, Idle
  <2>2. Head(op.left) \in Range(Parts) /\ DOMAIN running = AllParts
    BY <2>1 DEF IInv, PartsInv
  <2>3. \A p \in BuiltOnce : running'[p] = running[p]
    BY <2>1, <2>2, OnceOrAgain DEF AllParts
  <2> QED
    BY <2>1, <2>3 DEF BornInv
<1>3. CASE \/ CreateUser \/ UpdateUser \/ DeleteUser \/ CreateProvider \/ UpdateProvider
           \/ DeleteProvider \/ AddModel \/ RemoveModel \/ PatchConfig
  <2>1. UNCHANGED <<up, running, born>>
    BY <1>3 DEF CreateUser, UpdateUser, DeleteUser, CreateProvider, UpdateProvider, DeleteProvider,
                AddModel, RemoveModel, PatchConfig, Takes
  <2> QED
    BY <2>1 DEF BornInv
<1>4. CASE ImportModels \/ Fetched \/ SaveOpens \/ SaveWrites \/ SaveRenames \/ Answer
  <2>1. UNCHANGED <<up, running, born>>
    BY <1>4 DEF ImportModels, Fetched, SaveOpens, SaveWrites, SaveRenames, Answer
  <2> QED
    BY <2>1 DEF BornInv
<1>5. CASE Crash \/ UNCHANGED settingsVars
  BY <1>5 DEF Crash, settingsVars, BornInv
<1> QED
  BY <1>1, <1>2, <1>3, <1>4, <1>5 DEF SettingsNext

LEMMA Durable == IInv /\ BornInv => RunningIsDurable
<1> SUFFICES ASSUME IInv, BornInv PROVE RunningIsDurable
  OBVIOUS
<1>1. ASSUME up, op.step = "idle"
      PROVE  file = acked /\ \A p \in Range(Parts) : running[p] = ApplySettingsFile(Loaded)
  BY <1>1 DEF IInv, DiskInv, PartsInv
<1>2. ASSUME ~up PROVE file \in {acked} \cup (IF op.step = "idle" THEN {} ELSE {op.doc})
  BY DEF IInv, DiskInv
<1> QED
  BY <1>1, <1>2 DEF RunningIsDurable, BornInv

\* The documents on their way to the disk and on it are good, and the parts that
\* still differ from it are about to be reloaded (Store.Save, Runtime.Reload).
THEOREM Inductive == ASSUME SettingsAssumption, NoneIsNoDocument PROVE SettingsSpec => []IInv
BY InitIInv, StepIInv, PTL DEF SettingsSpec

\* Between two requests every part that is reloaded runs with what is on the disk, and
\* that is the document of the last answered request or of the one a crash cut short;
\* the parts that are built once run with what the process started from (persistLocked,
\* reloadLocked, main).
THEOREM RunsWhatIsStored ==
    ASSUME SettingsAssumption, NoneIsNoDocument PROVE SettingsSpec => []RunningIsDurable
<1>1. SettingsInit => BornInv
  BY DEF SettingsInit, BornInv
<1>2. SettingsSpec => []BornInv
  BY <1>1, StepBorn, Inductive, PTL DEF SettingsSpec
<1> QED
  BY <1>2, Durable, Inductive, PTL

-----------------------------------------------------------------------------
(* The active provider. *)

\* A document's providers are known ones, and its active one is among them, was
\* patched in without being (S), or is not set.
ActiveKnown(doc, S) ==
    /\ \A i \in DOMAIN doc.providers : doc.providers[i].id \in Providers
    /\ doc.active \in IdsOf(doc) \cup S \cup {None}

ActiveInv ==
    /\ file # None => ActiveKnown(file, strays)
    /\ op.step # "idle" => ActiveKnown(op.doc, strays)

LEMMA LoadedActiveKnown == ActiveInv => ActiveKnown(Loaded, strays)
<1>1. ActiveKnown(DefaultSeedFile, strays)
  BY DEF DefaultSeedFile, ActiveKnown
<1> QED
  BY <1>1 DEF ActiveInv, Loaded

\* Whatever keeps the ids and the active one of a document keeps its active one known.
LEMMA ActiveKnownAlike ==
    ASSUME NEW doc, NEW new, NEW S, ActiveKnown(doc, S), new.active = doc.active,
           DOMAIN new.providers = DOMAIN doc.providers,
           \A i \in DOMAIN doc.providers : new.providers[i].id = doc.providers[i].id
    PROVE  ActiveKnown(new, S)
BY DEF ActiveKnown, IdsOf

LEMMA ActiveKnownEntry ==
    ASSUME NEW doc, Good(doc), NEW S, ActiveKnown(doc, S), NEW i \in DOMAIN doc.providers, NEW sp,
           sp.id = doc.providers[i].id
    PROVE  ActiveKnown([doc EXCEPT !.providers[i] = sp], S)
<1> DEFINE new == [doc EXCEPT !.providers[i] = sp]
<1>1. new.active = doc.active /\ new.providers = [doc.providers EXCEPT ![i] = sp]
  BY DEF Good, Document
<1> HIDE DEF new
<1>2. ActiveKnown(new, S)
  BY <1>1, ActiveKnownAlike
<1> QED
  BY <1>2 DEF new

LEMMA ActiveKnownModels ==
    ASSUME NEW doc, Good(doc), NEW S, ActiveKnown(doc, S), NEW i, NEW models
    PROVE  ActiveKnown([doc EXCEPT !.providers[i].models = models], S)
<1>1. CASE i \in DOMAIN doc.providers
  <2> DEFINE sp == [doc.providers[i] EXCEPT !.models = models]
  <2>1. Entry(doc.providers[i])
    BY <1>1 DEF Good, Document
  <2>2. sp.id = doc.providers[i].id
    BY <2>1 DEF Entry
  <2>3. [doc EXCEPT !.providers[i].models = models] = [doc EXCEPT !.providers[i] = sp]
    OBVIOUS
  <2> HIDE DEF sp
  <2> QED
    BY <1>1, <2>2, <2>3, ActiveKnownEntry
<1>2. CASE i \notin DOMAIN doc.providers
  <2>1. [doc EXCEPT !.providers[i].models = models] = doc
    BY <1>2 DEF Good, Document
  <2> QED
    BY <2>1
<1> QED
  BY <1>1, <1>2

\* A request takes the mutex with a document whose active provider is known.
LEMMA ActiveTaken ==
    ASSUME ActiveInv, NEW doc, NEW reload, Takes(doc, reload), ActiveKnown(doc, strays'),
           strays \subseteq strays'
    PROVE  ActiveInv'
<1>1. op'.doc = doc /\ file' = file
  BY DEF Takes
<1> QED
  BY <1>1 DEF ActiveInv, ActiveKnown

LEMMA ActiveRequests ==
    ASSUME SettingsAssumption, IInv, ActiveInv,
           \/ CreateUser \/ UpdateUser \/ DeleteUser
           \/ CreateProvider \/ UpdateProvider \/ DeleteProvider
           \/ AddModel \/ RemoveModel \/ PatchConfig
    PROVE  ActiveInv'
<1> DEFINE ps == Loaded.providers
<1>1. Good(Loaded) /\ ActiveKnown(Loaded, strays)
  BY LoadedIsGood, LoadedActiveKnown DEF IInv
<1>2. ps \in Seq(Range(ps)) /\ DOMAIN ps = 1..Len(ps) /\ Len(ps) \in Nat
        /\ \A i \in 1..Len(ps) : Entry(ps[i])
  BY <1>1 DEF Good, Document
<1>3. ASSUME NEW doc, NEW reload, Takes(doc, reload), ActiveKnown(doc, strays), UNCHANGED strays
      PROVE  ActiveInv'
  BY <1>3, ActiveTaken
<1>4. ASSUME NEW users, Takes([Loaded EXCEPT !.users = users], FALSE), UNCHANGED strays
      PROVE  ActiveInv'
  <2> DEFINE new == [Loaded EXCEPT !.users = users]
  <2>1. new.active = Loaded.active /\ new.providers = ps
    BY <1>1 DEF Good, Document
  <2> HIDE DEF new
  <2>2. ActiveKnown(new, strays)
    BY <1>1, <2>1, ActiveKnownAlike
  <2> QED
    BY <1>3, <1>4, <2>2 DEF new
<1>5. CASE CreateUser
  <2>1. \E users : Takes([Loaded EXCEPT !.users = users], FALSE) /\ UNCHANGED strays
    BY <1>1, <1>5 DEF CreateUser, Good, Document
  <2> QED
    BY <1>4, <2>1
<1>6. CASE UpdateUser
  <2>1. \E users : Takes([Loaded EXCEPT !.users = users], FALSE) /\ UNCHANGED strays
    BY <1>1, <1>6 DEF UpdateUser, Good, Document
  <2> QED
    BY <1>4, <2>1
<1>7. CASE DeleteUser
  <2>1. \E users : Takes([Loaded EXCEPT !.users = users], FALSE) /\ UNCHANGED strays
    BY <1>1, <1>7 DEF DeleteUser, Good, Document
  <2> QED
    BY <1>4, <2>1
<1>8. CASE CreateProvider
  <2>1. PICK p \in Providers \ IdsOf(Loaded), key, enabled \in BOOLEAN, m \in Models \cup {None} :
            LET sp == [id |-> p, key |-> key, enabled |-> enabled,
                       models |-> IF m = None THEN <<>> ELSE <<m>>]
            IN  /\ Takes([Loaded EXCEPT !.providers = Append(@, sp),
                                        !.active = IF @ = None THEN p ELSE @], TRUE)
                /\ UNCHANGED strays
    BY <1>8 DEF CreateProvider
  <2> DEFINE sp == [id |-> p, key |-> key, enabled |-> enabled,
                    models |-> IF m = None THEN <<>> ELSE <<m>>]
             active == IF Loaded.active = None THEN p ELSE Loaded.active
             new == [Loaded EXCEPT !.providers = Append(ps, sp), !.active = active]
  <2>2. sp.id = p
    OBVIOUS
  <2>3. Takes(new, TRUE) /\ UNCHANGED strays
    BY <1>1, <2>1 DEF Good, Document
  <2>4. new.providers = Append(ps, sp) /\ new.active = active
    <3>1. Loaded = [users |-> Loaded.users, providers |-> ps, active |-> Loaded.active,
                    knobs |-> Loaded.knobs]
      BY <1>1 DEF Good, Document
    <3> HIDE DEF ps, sp, active
    <3> QED
      BY <3>1
  <2> HIDE DEF ps, sp, new
  <2>5. /\ DOMAIN new.providers = 1..(Len(ps) + 1)
        /\ \A j \in 1..Len(ps) : new.providers[j] = ps[j]
        /\ new.providers[Len(ps) + 1] = sp
    BY <1>2, <2>4
  <2>6. IdsOf(new) = IdsOf(Loaded) \cup {p}
    <3>1. IdsOf(Loaded) = {ps[j].id : j \in 1..Len(ps)}
      BY <1>2 DEF IdsOf, ps
    <3>2. \A j \in 1..(Len(ps) + 1) : j \in 1..Len(ps) \/ j = Len(ps) + 1
      BY <1>2
    <3>3. \A j \in 1..Len(ps) : j \in 1..(Len(ps) + 1)
      BY <1>2
    <3>4. Len(ps) + 1 \in 1..(Len(ps) + 1)
      BY <1>2
    <3>5. IdsOf(new) = {new.providers[j].id : j \in 1..(Len(ps) + 1)}
      BY <2>5 DEF IdsOf
    <3>6. \A j \in 1..Len(ps) : new.providers[j].id = ps[j].id
      BY <2>5
    <3>7. new.providers[Len(ps) + 1].id = p
      BY <2>2, <2>5
    <3>8. ASSUME NEW x PROVE x \in IdsOf(new) <=> x \in IdsOf(Loaded) \cup {p}
      <4>1. x \in IdsOf(new) <=> \E j \in 1..(Len(ps) + 1) : x = new.providers[j].id
        BY <3>5
      <4>2. x \in IdsOf(Loaded) <=> \E j \in 1..Len(ps) : x = ps[j].id
        BY <3>1
      <4>3. (\E j \in 1..(Len(ps) + 1) : x = new.providers[j].id)
              <=> ((\E j \in 1..Len(ps) : x = ps[j].id) \/ x = p)
        BY <3>2, <3>3, <3>4, <3>6, <3>7
      <4> QED
        BY <4>1, <4>2, <4>3
    <3> QED
      BY <3>8
  <2>7. \A q \in IdsOf(new) : q \in Providers
    BY <1>1, <2>1, <2>6 DEF ActiveKnown, IdsOf
  <2>8. ActiveKnown(new, strays)
    BY <1>1, <2>4, <2>6, <2>7 DEF ActiveKnown, IdsOf
  <2> QED
    BY <1>3, <2>3, <2>8
<1>9. CASE UpdateProvider
  <2>1. PICK i \in DOMAIN ps : \E sp \in Updated(ps[i]) :
            Takes([Loaded EXCEPT !.providers[i] = sp], TRUE) /\ UNCHANGED strays
    BY <1>9 DEF UpdateProvider
  <2>2. PICK sp \in Updated(ps[i]) :
            Takes([Loaded EXCEPT !.providers[i] = sp], TRUE) /\ UNCHANGED strays
    BY <2>1
  <2>3. sp.id = ps[i].id
    <3>1. Entry(ps[i])
      BY <1>2
    <3> QED
      BY <2>2, <3>1 DEF Updated, Entry
  <2> QED
    BY <1>1, <1>3, <2>2, <2>3, ActiveKnownEntry
<1>10. CASE DeleteProvider
  <2>1. PICK i \in DOMAIN ps : Takes(WithoutProvider(Loaded, i), TRUE) /\ UNCHANGED strays
    BY <1>10 DEF DeleteProvider
  <2> DEFINE rest == RemoveAt(ps, i)
             active == IF Loaded.active # ps[i].id THEN Loaded.active
                       ELSE IF rest = <<>> THEN None ELSE rest[1].id
             new == [Loaded EXCEPT !.providers = rest, !.active = active]
             from(j) == IF j < i THEN j ELSE j + 1
  <2>2. WithoutProvider(Loaded, i) = new
    BY <1>1 DEF WithoutProvider, Good, Document
  <2>3. new.providers = rest /\ new.active = active
    <3>1. Loaded = [users |-> Loaded.users, providers |-> ps, active |-> Loaded.active,
                    knobs |-> Loaded.knobs]
      BY <1>1 DEF Good, Document
    <3> HIDE DEF ps, rest, active
    <3> QED
      BY <3>1
  <2>4. rest \in Seq(Range(ps)) /\ Len(rest) = Len(ps) - 1
          /\ \A j \in 1..Len(rest) : from(j) \in 1..Len(ps) /\ rest[j] = ps[from(j)]
    BY <1>2, <2>1, RemoveAtIs
  <2> HIDE DEF ps, rest, new
  <2>5. DOMAIN rest = 1..Len(rest) /\ i \in 1..Len(ps)
    BY <1>2, <2>1, <2>4
  <2>6. \A j \in DOMAIN rest : rest[j].id \in Providers
    BY <1>1, <1>2, <2>4, <2>5 DEF ActiveKnown, ps
  <2>7. ASSUME NEW k \in 1..Len(ps), k # i PROVE ps[k].id \in IdsOf(new)
    <3> DEFINE j == IF k < i THEN k ELSE k - 1
    <3>1. j \in 1..Len(rest) /\ from(j) = k
      BY <1>2, <2>4, <2>5, <2>7
    <3>2. rest[j] = ps[k]
      BY <2>4, <3>1
    <3> QED
      BY <2>3, <2>5, <3>1, <3>2 DEF IdsOf
  <2>8. active \in IdsOf(new) \cup strays \cup {None}
    <3>1. CASE Loaded.active # ps[i].id
      <4>1. ASSUME Loaded.active \in IdsOf(Loaded) PROVE Loaded.active \in IdsOf(new)
        <5>1. PICK k \in 1..Len(ps) : ps[k].id = Loaded.active
          BY <1>2, <4>1 DEF IdsOf, ps
        <5> QED
          BY <2>7, <3>1, <5>1
      <4> QED
        BY <1>1, <3>1, <4>1 DEF ActiveKnown
    <3>2. CASE rest # <<>> /\ Loaded.active = ps[i].id
      <4>1. 1 \in DOMAIN rest
        BY <1>2, <2>4, <2>5, <3>2
      <4> QED
        BY <2>3, <3>2, <4>1 DEF IdsOf
    <3> QED
      BY <3>1, <3>2
  <2>9. ActiveKnown(new, strays)
    BY <2>3, <2>6, <2>8 DEF ActiveKnown
  <2> QED
    BY <1>3, <2>1, <2>2, <2>9
<1>11. CASE AddModel \/ RemoveModel
  <2>1. \E i, models : Takes([Loaded EXCEPT !.providers[i].models = models], TRUE) /\ UNCHANGED strays
    <3>1. CASE AddModel
      <4>1. PICK i \in DOMAIN ps, m \in Models :
              Takes([Loaded EXCEPT !.providers[i].models = Append(@, m)], TRUE) /\ UNCHANGED strays
        BY <3>1 DEF AddModel
      <4>2. Takes([Loaded EXCEPT !.providers[i].models = Append(ps[i].models, m)], TRUE)
        BY <1>1, <1>2, <4>1 DEF Good, Document, Entry
      <4> QED
        BY <4>1, <4>2
    <3>2. CASE RemoveModel
      BY <1>1, <1>2, <3>2 DEF RemoveModel, Good, Document, Entry
    <3> QED
      BY <1>11, <3>1, <3>2
  <2> QED
    BY <1>1, <1>3, <2>1, ActiveKnownModels
<1>12. CASE PatchConfig
  <2>1. CASE \E k \in Knobs, v \in 0..1 :
               Takes([Loaded EXCEPT !.knobs[k] = v], TRUE) /\ UNCHANGED strays
    <3>1. PICK k \in Knobs, v \in 0..1 :
               Takes([Loaded EXCEPT !.knobs[k] = v], TRUE) /\ UNCHANGED strays
      BY <2>1
    <3> DEFINE new == [Loaded EXCEPT !.knobs[k] = v]
    <3>2. new.active = Loaded.active /\ new.providers = ps
      BY <1>1 DEF Good, Document
    <3> HIDE DEF new
    <3>3. ActiveKnown(new, strays)
      BY <1>1, <3>2, ActiveKnownAlike
    <3> QED
      BY <1>3, <3>1, <3>3 DEF new
  <2>2. CASE \E p \in Providers \cup {None} :
               /\ Takes([Loaded EXCEPT !.active = p], TRUE)
               /\ strays' = IF p \in IdsOf(Loaded) \cup {None} THEN strays ELSE strays \cup {p}
    <3>1. PICK p \in Providers \cup {None} :
               /\ Takes([Loaded EXCEPT !.active = p], TRUE)
               /\ strays' = IF p \in IdsOf(Loaded) \cup {None} THEN strays ELSE strays \cup {p}
      BY <2>2
    <3> DEFINE new == [Loaded EXCEPT !.active = p]
    <3>2. new.active = p /\ new.providers = ps
      BY <1>1 DEF Good, Document
    <3> HIDE DEF new
    <3>3. IdsOf(new) = IdsOf(Loaded)
      BY <3>2 DEF IdsOf
    <3>4. ActiveKnown(new, strays') /\ strays \subseteq strays'
      BY <1>1, <3>1, <3>2, <3>3 DEF ActiveKnown
    <3> QED
      BY <3>1, <3>4, ActiveTaken DEF new
  <2> QED
    BY <1>12, <2>1, <2>2 DEF PatchConfig
<1> QED
  BY <1>5, <1>6, <1>7, <1>8, <1>9, <1>10, <1>11, <1>12

LEMMA StepActive ==
    ASSUME SettingsAssumption, NoneIsNoDocument, IInv, ActiveInv, [SettingsNext]_settingsVars
    PROVE  ActiveInv'
<1>1. CASE Boot
  <2>1. ActiveKnown(DefaultSeedFile, strays)
    BY DEF DefaultSeedFile, ActiveKnown
  <2>2. op' = Idle /\ strays' = strays /\ file' \in {file, DefaultSeedFile}
    BY <1>1 DEF Boot
  <2> QED
    BY <2>1, <2>2 DEF ActiveInv, Idle
<1>2. CASE \/ CreateUser \/ UpdateUser \/ DeleteUser
           \/ CreateProvider \/ UpdateProvider \/ DeleteProvider
           \/ AddModel \/ RemoveModel \/ PatchConfig
  BY <1>2, ActiveRequests
<1>3. CASE ImportModels
  <2>1. op'.doc = Loaded /\ UNCHANGED <<file, strays>>
    BY <1>3 DEF ImportModels
  <2> QED
    BY <2>1, LoadedActiveKnown DEF ActiveInv
<1>4. CASE Fetched
  <2>a. op.step = "fetch" /\ UNCHANGED <<file, strays>>
    BY <1>4 DEF Fetched
  <2>b. op # Idle /\ OpShape /\ Good(op.doc) /\ ActiveKnown(op.doc, strays)
    BY <2>a DEF Idle, IInv, OpInv, ActiveInv
  <2>1. op.step = "fetch" /\ op # Idle /\ OpShape /\ Good(op.doc) /\ ActiveKnown(op.doc, strays)
          /\ UNCHANGED <<file, strays>>
    BY <2>a, <2>b
  <2>2. CASE op' = Idle
    BY <2>1, <2>2 DEF ActiveInv, Idle
  <2>3. CASE \E models : op' = [op EXCEPT !.step = "create", !.doc.providers[op.at].models = models]
    <3>1. PICK models : op' = [op EXCEPT !.step = "create", !.doc.providers[op.at].models = models]
      BY <2>3
    <3> DEFINE doc == [op.doc EXCEPT !.providers[op.at].models = models]
    <3>2. op' = [op EXCEPT !.step = "create", !.doc = doc]
      BY <2>1, <3>1 DEF OpShape
    <3> HIDE DEF doc
    <3>3. op'.doc = doc
      BY <2>1, <3>2 DEF OpShape
    <3>4. ActiveKnown(doc, strays)
      BY <2>1, ActiveKnownModels DEF doc
    <3> QED
      BY <2>1, <3>3, <3>4 DEF ActiveInv
  <2>4. op' = Idle \/ \E models : op' = [op EXCEPT !.step = "create", !.doc.providers[op.at].models = models]
    BY <1>4, <2>1 DEF Fetched, OpShape
  <2> QED
    BY <2>2, <2>3, <2>4
<1>5. CASE Crash \/ SaveOpens \/ SaveWrites \/ SaveRenames \/ ReloadPart \/ Answer \/ UNCHANGED settingsVars
  <2>1. OpShape /\ strays' = strays
    BY <1>5 DEF IInv, OpInv, Crash, SaveOpens, SaveWrites, SaveRenames, ReloadPart, Answer, settingsVars
  <2>2. op' = Idle \/ op' = op \/ (op'.doc = op.doc /\ op.step # "idle")
    <3>1. CASE SaveOpens \/ SaveWrites \/ SaveRenames
      <4>1. op # Idle /\ op.step # "idle"
        BY <3>1 DEF Idle, SaveOpens, SaveWrites, SaveRenames
      <4>2. \/ op' = Idle
            \/ \E s : op' = [op EXCEPT !.step = s]
            \/ \E s, left : op' = [op EXCEPT !.step = s, !.left = left]
        BY <3>1 DEF SaveOpens, SaveWrites, SaveRenames, Failed
      <4> QED
        BY <2>1, <4>1, <4>2 DEF OpShape
    <3>2. CASE ReloadPart \/ Answer
      <4>1. op # Idle /\ op.step # "idle"
        BY <3>2 DEF Idle, ReloadPart, Answer
      <4>2. op' = Idle \/ \E left : op' = [op EXCEPT !.left = left]
        BY <2>1, <3>2, <4>1 DEF ReloadPart, Answer, OpShape
      <4> QED
        BY <2>1, <4>1, <4>2 DEF OpShape
    <3>3. CASE Crash \/ UNCHANGED settingsVars
      BY <3>3 DEF Crash, settingsVars
    <3> QED
      BY <1>5, <3>1, <3>2, <3>3
  <2>3. file' = file \/ (file' = op.doc /\ op.step # "idle")
    BY <1>5 DEF IInv, OpInv, Crash, SaveOpens, SaveWrites, SaveRenames, ReloadPart, Answer, settingsVars
  <2> QED
    BY <2>1, <2>2, <2>3 DEF ActiveInv, Idle
<1> QED
  BY <1>1, <1>2, <1>3, <1>4, <1>5 DEF SettingsNext

LEMMA ActiveInit == SettingsAssumption /\ SettingsInit => ActiveInv
<1> SUFFICES ASSUME SettingsAssumption, SettingsInit PROVE ActiveInv
  OBVIOUS
<1>1. ASSUME file # None PROVE ActiveKnown(file, strays)
  <2>1. file \in Documents /\ strays = {file.active} \ (IdsOf(file) \cup {None})
    BY <1>1 DEF SettingsInit, SettingsAssumption
  <2>2. file.providers \in Seq(Entries)
    BY <2>1 DEF Documents
  <2>3. \A i \in DOMAIN file.providers : file.providers[i] \in Entries
    BY <2>2
  <2> QED
    BY <2>1, <2>3 DEF ActiveKnown, Entries
<1> QED
  BY <1>1 DEF SettingsInit, ActiveInv, Idle

LEMMA LeastOf ==
    ASSUME NEW S \in SUBSET Nat, S # {}
    PROVE  Min(S) \in S /\ \A y \in S : Min(S) <= y
<1> DEFINE Less == {ss \in Nat \X Nat : ss[1] < ss[2]}
<1>1. OpToRel(<, Nat) = Less
  BY DEF OpToRel
<1>2. PICK x \in S : \A y \in S : ~ (<<y, x>> \in Less)
  BY <1>1, NatLessThanWellFounded, WFMin
<1>3. \A y \in S : x <= y
  <2> TAKE y \in S
  <2>1. <<y, x>> \notin Less
    BY <1>2
  <2> QED
    BY <2>1
<1> QED
  BY <1>3 DEF Min

\* Without an active id the first enabled provider is active, if there is one.
LEMMA FirstEnabledIs ==
    ASSUME SettingsAssumption, NEW doc, \A i \in DOMAIN doc.providers : doc.providers[i].id \in Providers
    PROVE  \/ FirstEnabled(doc.providers) \in IdsOf(doc)
           \/ /\ FirstEnabled(doc.providers) = None
              /\ \A i \in DOMAIN doc.providers : ~doc.providers[i].enabled
<1> DEFINE on == {i \in DOMAIN Order : \E j \in DOMAIN doc.providers :
                     doc.providers[j].id = Order[i] /\ doc.providers[j].enabled}
<1>1. DOMAIN Order \subseteq Nat
  BY DEF SettingsAssumption
<1>2. FirstEnabled(doc.providers) = IF on = {} THEN None ELSE Order[Min(on)]
  BY DEF FirstEnabled
<1>3. CASE on = {}
  <2>1. ASSUME NEW j \in DOMAIN doc.providers, doc.providers[j].enabled PROVE FALSE
    <3>1. PICK i \in DOMAIN Order : Order[i] = doc.providers[j].id
      BY DEF Providers, Range
    <3> QED
      BY <1>3, <2>1, <3>1
  <2> QED
    BY <1>2, <1>3, <2>1
<1>4. CASE on # {}
  <2>1. Min(on) \in on
    BY <1>1, <1>4, LeastOf
  <2> HIDE DEF on
  <2>2. Order[Min(on)] \in IdsOf(doc)
    BY <2>1 DEF on, IdsOf
  <2> QED
    BY <1>2, <1>4, <2>2
<1> QED
  BY <1>3, <1>4

LEMMA ActiveIsListed == ASSUME SettingsAssumption, ActiveInv PROVE ActiveListed
<1>1. ActiveKnown(Loaded, strays)
  BY LoadedActiveKnown
<1>2. SUFFICES ASSUME Loaded.providers # <<>>
      PROVE  LET active == ApplySettingsFile(Loaded).active IN
             \/ active \in IdsOf(Loaded) \cup strays
             \/ active = None /\ \A i \in DOMAIN Loaded.providers : ~Loaded.providers[i].enabled
  BY DEF ActiveListed
<1>3. ApplySettingsFile(Loaded).active
        = IF Loaded.active # None THEN Loaded.active ELSE FirstEnabled(Loaded.providers)
  BY <1>2 DEF ApplySettingsFile
<1>4. CASE Loaded.active # None
  BY <1>1, <1>3, <1>4 DEF ActiveKnown
<1>5. CASE Loaded.active = None
  <2>1. \/ FirstEnabled(Loaded.providers) \in IdsOf(Loaded)
        \/ /\ FirstEnabled(Loaded.providers) = None
           /\ \A i \in DOMAIN Loaded.providers : ~Loaded.providers[i].enabled
    BY <1>1, FirstEnabledIs DEF ActiveKnown
  <2> QED
    BY <1>3, <1>5, <2>1
<1> QED
  BY <1>4, <1>5

\* No sequence of requests, failed saves and crashes leaves a document without an
\* owner, with a provider twice, or with an active provider that is neither listed
\* nor was patched in as such (DeleteProvider elects another one, and the merge
\* takes the first that is enabled).
THEOREM Sound ==
    ASSUME SettingsAssumption, NoneIsNoDocument PROVE SettingsSpec => []DocumentSound
<1>1. IInv /\ ActiveInv => DocumentSound
  BY LoadedIsGood, ActiveIsListed DEF IInv, Good, OwnerRemains, IdsUnique, DocumentSound
<1>2. SettingsInit => ActiveInv
  BY ActiveInit
<1>3. IInv /\ ActiveInv /\ [SettingsNext]_settingsVars => ActiveInv'
  BY StepActive
<1> QED
  BY <1>1, <1>2, <1>3, Inductive, PTL DEF SettingsSpec

-----------------------------------------------------------------------------
(* Types.  The documents of the requests are of the declared type, the        *)
(* sequences of models that FlattenSeq and SetToSeq build included.           *)

\* What FlattenSeq unfolds to, up to the m-th of the sequences.
Flattens(ss, m, F) == \A i \in 1..m : F[i] = IF i = 1 THEN ss[1] ELSE F[i - 1] \o ss[i]

LEMMA Flattening ==
    ASSUME NEW S, NEW n \in Nat, NEW ss \in [1..n -> Seq(S)]
    PROVE  \E F \in [1..n -> Seq(S)] : Flattens(ss, n, F)
<1> DEFINE Bad == {m \in 0..n : \A F \in [1..m -> Seq(S)] : ~Flattens(ss, m, F)}
<1>1. 0 \notin Bad
  <2>1. [i \in 1..0 |-> <<>>] \in [1..0 -> Seq(S)] /\ 1..0 = {}
    OBVIOUS
  <2> QED
    BY <2>1 DEF Flattens
<1>2. ASSUME NEW m \in 1..n, m - 1 \notin Bad PROVE m \notin Bad
  <2>1. PICK F \in [1..(m - 1) -> Seq(S)] : Flattens(ss, m - 1, F)
    BY <1>2
  <2> DEFINE new == IF m = 1 THEN ss[1] ELSE F[m - 1] \o ss[m]
             G == [i \in 1..m |-> IF i = m THEN new ELSE F[i]]
  <2>2. new \in Seq(S)
    <3>1. CASE m = 1
      BY <3>1
    <3>2. CASE m # 1
      <4>1. F[m - 1] \in Seq(S) /\ ss[m] \in Seq(S)
        BY <3>2
      <4> QED
        BY <3>2, <4>1
    <3> QED
      BY <3>1, <3>2
  <2> HIDE DEF new
  <2>3. G \in [1..m -> Seq(S)] /\ G[m] = new /\ \A i \in 1..(m - 1) : G[i] = F[i]
    BY <2>1, <2>2
  <2> HIDE DEF G
  <2>4. Flattens(ss, m, G)
    <3> SUFFICES ASSUME NEW i \in 1..m PROVE G[i] = IF i = 1 THEN ss[1] ELSE G[i - 1] \o ss[i]
      BY DEF Flattens
    <3>1. CASE i = m /\ i = 1
      BY <2>3, <3>1 DEF new
    <3>2. CASE i = m /\ i # 1
      <4>1. m - 1 \in 1..(m - 1)
        BY <3>2
      <4>2. G[m - 1] = F[m - 1]
        BY <2>3, <4>1
      <4> QED
        BY <2>3, <3>2, <4>2 DEF new
    <3>3. CASE i # m /\ i = 1
      <4>1. 1 \in 1..(m - 1)
        BY <3>3
      <4> QED
        BY <2>1, <2>3, <3>3, <4>1 DEF Flattens
    <3>4. CASE i # m /\ i # 1
      <4>1. i \in 1..(m - 1) /\ i - 1 \in 1..(m - 1)
        BY <3>4
      <4>2. G[i] = F[i] /\ G[i - 1] = F[i - 1]
        BY <2>3, <4>1
      <4>3. F[i] = F[i - 1] \o ss[i]
        BY <2>1, <3>4, <4>1 DEF Flattens
      <4> QED
        BY <3>4, <4>2, <4>3
    <3> QED
      BY <3>1, <3>2, <3>3, <3>4
  <2> QED
    BY <2>3, <2>4
<1>3. Bad = {}
  <2> SUFFICES ASSUME Bad # {} PROVE FALSE
    OBVIOUS
  <2>1. Bad \subseteq 0..n
    OBVIOUS
  <2> HIDE DEF Bad
  <2> DEFINE m == Min(Bad)
  <2>2. m \in Bad /\ \A y \in Bad : m <= y
    BY <2>1, LeastOf
  <2> HIDE DEF m
  <2>3. m \in 1..n /\ ~(m <= m - 1)
    BY <1>1, <2>1, <2>2
  <2>4. m - 1 \notin Bad
    BY <2>2, <2>3
  <2> QED
    BY <1>2, <2>2, <2>3, <2>4
<1>4. n \in 0..n
  OBVIOUS
<1> QED
  BY <1>3, <1>4

LEMMA FlattenedIs ==
    ASSUME NEW S, NEW ss \in Seq(Seq(S))
    PROVE  FlattenSeq(ss) \in Seq(S)
<1> DEFINE n == Len(ss)
           Unfolds(F) == F = [i \in 1..n |-> IF i = 1 THEN ss[i] ELSE F[i - 1] \o ss[i]]
           G == CHOOSE F : Unfolds(F)
           Bad == {i \in 1..n : G[i] \notin Seq(S)}
<1>1. n \in Nat /\ ss \in [1..n -> Seq(S)] /\ \A i \in 1..n : ss[i] \in Seq(S)
  OBVIOUS
<1>2. PICK F \in [1..n -> Seq(S)] : Flattens(ss, n, F)
  BY <1>1, Flattening
<1>3. CASE n = 0
  <2>1. ss = <<>>
    BY <1>3, EmptySeq
  <2> QED
    BY <1>3, <2>1 DEF FlattenSeq
<1>4. CASE n # 0
  <2>1. FlattenSeq(ss) = G[n]
    BY <1>4 DEF FlattenSeq
  <2>2. Unfolds(F)
    <3>1. \A i \in 1..n : F[i] = IF i = 1 THEN ss[i] ELSE F[i - 1] \o ss[i]
      BY <1>2 DEF Flattens
    <3> QED
      BY <1>2, <3>1
  <2>3. Unfolds(G)
    BY <2>2
  <2>4. \A i \in 1..n : G[i] = IF i = 1 THEN ss[i] ELSE G[i - 1] \o ss[i]
    BY <2>3
  <2> HIDE DEF G, Unfolds, n
  <2>5. \A i \in 1..n : i \notin Bad <=> G[i] \in Seq(S)
    OBVIOUS
  <2>6. Bad \subseteq 1..n
    OBVIOUS
  <2> HIDE DEF Bad
  <2>7. Bad = {}
    <3> SUFFICES ASSUME Bad # {} PROVE FALSE
      OBVIOUS
    <3> DEFINE j == Min(Bad)
    <3>1. j \in Bad /\ \A y \in Bad : j <= y
      BY <1>1, <2>6, LeastOf
    <3> HIDE DEF j
    <3>2. j \in 1..n
      BY <2>6, <3>1
    <3>3. CASE j = 1
      BY <1>1, <2>4, <2>5, <3>1, <3>2, <3>3
    <3>4. CASE j # 1
      <4>1. j - 1 \in 1..n /\ j - 1 \notin Bad
        BY <1>1, <3>1, <3>2, <3>4
      <4>2. G[j - 1] \in Seq(S) /\ ss[j] \in Seq(S)
        BY <1>1, <2>5, <3>2, <4>1
      <4>3. G[j] = G[j - 1] \o ss[j]
        BY <2>4, <3>2, <3>4
      <4>4. G[j] \in Seq(S)
        BY <4>2, <4>3
      <4> QED
        BY <2>5, <3>1, <3>2, <4>4
    <3> QED
      BY <3>3, <3>4
  <2>8. n \in 1..n
    BY <1>1, <1>4
  <2> QED
    BY <2>1, <2>5, <2>7, <2>8
<1> QED
  BY <1>3, <1>4

\* The models that remain are models.
LEMMA WithoutModelIs ==
    ASSUME NEW models \in Seq(Models), NEW m PROVE WithoutModel(models, m) \in Seq(Models)
<1> DEFINE ss == [j \in DOMAIN models |-> IF models[j] = m THEN <<>> ELSE <<models[j]>>]
<1>1. ss \in [1..Len(models) -> Seq(Models)]
  BY DEF ss
<1>2. ss \in Seq(Seq(Models))
  BY <1>1
<1> HIDE DEF ss
<1>3. FlattenSeq(ss) \in Seq(Models)
  BY <1>2, FlattenedIs
<1> QED
  BY <1>3 DEF WithoutModel, ss

\* ... and so are those that the importer found.
LEMMA SetToSeqIs ==
    ASSUME NEW S, IsFiniteSet(S) PROVE SetToSeq(S) \in Seq(S)
<1> DEFINE n == Cardinality(S)
<1>1. n \in Nat /\ ExistsBijection(1..n, S)
  BY FS_CardinalityType
<1> HIDE DEF n
<1>2. PICK f : f \in Bijection(1..n, S)
  BY <1>1 DEF ExistsBijection
<1>3. f \in [1..n -> S] /\ IsInjective(f)
  BY <1>2 DEF Bijection, Injection
<1>4. SetToSeq(S) \in [1..n -> S]
  BY <1>3 DEF SetToSeq, n
<1> QED
  BY <1>1, <1>4

\* The fields of a document.
LEMMA DocumentIs ==
    ASSUME NEW doc \in Documents
    PROVE  /\ doc = [users |-> doc.users, providers |-> doc.providers, active |-> doc.active,
                     knobs |-> doc.knobs]
           /\ doc.users \in UNION {[S -> Roles] : S \in SUBSET Users}
           /\ doc.providers \in Seq(Entries) /\ doc.active \in Providers \cup {None}
           /\ doc.knobs \in [Knobs -> Nat \cup {None}]
BY DEF Documents

LEMMA DocumentMade ==
    ASSUME NEW users \in UNION {[S -> Roles] : S \in SUBSET Users}, NEW providers \in Seq(Entries),
           NEW active \in Providers \cup {None}, NEW knobs \in [Knobs -> Nat \cup {None}]
    PROVE  [users |-> users, providers |-> providers, active |-> active, knobs |-> knobs] \in Documents
BY DEF Documents

LEMMA SeedIsTyped == ASSUME SettingsAssumption PROVE DefaultSeedFile \in Documents
<1> DEFINE users == [u \in {Owner} |-> "owner"]
<1>1. users \in [{Owner} -> Roles] /\ {Owner} \in SUBSET Users
  BY DEF Roles, SettingsAssumption
<1>2. users \in UNION {[S -> Roles] : S \in SUBSET Users}
  BY <1>1
<1>3. <<>> \in Seq(Entries) /\ Env.knobs \in [Knobs -> Nat \cup {None}]
  BY DEF SettingsAssumption
<1> HIDE DEF users
<1> QED
  BY <1>2, <1>3, DocumentMade DEF DefaultSeedFile, users

\* What a request does to a field of a document.
LEMMA TypedUsers ==
    ASSUME NEW doc \in Documents, NEW S \in SUBSET Users, NEW users \in [S -> Roles]
    PROVE  [doc EXCEPT !.users = users] \in Documents
<1>1. users \in UNION {[R -> Roles] : R \in SUBSET Users}
  OBVIOUS
<1>2. [users |-> users, providers |-> doc.providers, active |-> doc.active, knobs |-> doc.knobs] \in Documents
  BY <1>1, DocumentIs, DocumentMade
<1>3. [doc EXCEPT !.users = users]
        = [users |-> users, providers |-> doc.providers, active |-> doc.active, knobs |-> doc.knobs]
  BY DocumentIs
<1> QED
  BY <1>2, <1>3

LEMMA TypedProviders ==
    ASSUME NEW doc \in Documents, NEW providers \in Seq(Entries), NEW active \in Providers \cup {None}
    PROVE  [doc EXCEPT !.providers = providers, !.active = active] \in Documents
<1> DEFINE mid == [doc EXCEPT !.providers = providers]
<1>1. mid = [users |-> doc.users, providers |-> providers, active |-> doc.active, knobs |-> doc.knobs]
  BY DocumentIs
<1>2. [doc EXCEPT !.providers = providers, !.active = active] = [mid EXCEPT !.active = active]
  OBVIOUS
<1> HIDE DEF mid
<1>3. [mid EXCEPT !.active = active]
        = [users |-> doc.users, providers |-> providers, active |-> active, knobs |-> doc.knobs]
  BY <1>1
<1>4. [users |-> doc.users, providers |-> providers, active |-> active, knobs |-> doc.knobs] \in Documents
  BY DocumentIs, DocumentMade
<1> QED
  BY <1>2, <1>3, <1>4 DEF mid

LEMMA TypedEntry ==
    ASSUME NEW doc \in Documents, NEW i \in DOMAIN doc.providers, NEW sp \in Entries
    PROVE  [doc EXCEPT !.providers[i] = sp] \in Documents
<1> DEFINE ps == [doc.providers EXCEPT ![i] = sp]
<1>1. doc.providers \in Seq(Entries)
  BY DocumentIs
<1>2. ps \in Seq(Entries)
  BY <1>1
<1>3. [doc EXCEPT !.providers[i] = sp]
        = [users |-> doc.users, providers |-> ps, active |-> doc.active, knobs |-> doc.knobs]
  BY DocumentIs
<1> HIDE DEF ps
<1>4. [users |-> doc.users, providers |-> ps, active |-> doc.active, knobs |-> doc.knobs] \in Documents
  BY <1>2, DocumentIs, DocumentMade
<1> QED
  BY <1>3, <1>4

LEMMA TypedModels ==
    ASSUME NEW doc \in Documents, NEW i \in DOMAIN doc.providers, NEW models \in Seq(Models)
    PROVE  [doc EXCEPT !.providers[i].models = models] \in Documents
<1> DEFINE sp == [doc.providers[i] EXCEPT !.models = models]
<1>1. doc.providers[i] \in Entries
  <2>1. doc.providers \in Seq(Entries)
    BY DocumentIs
  <2> QED
    BY <2>1
<1>2. sp \in Entries
  BY <1>1 DEF Entries
<1>3. [doc EXCEPT !.providers[i].models = models] = [doc EXCEPT !.providers[i] = sp]
  OBVIOUS
<1> HIDE DEF sp
<1> QED
  BY <1>2, <1>3, TypedEntry

-----------------------------------------------------------------------------
(* The documents that the requests take, save and load. *)

LEMMA LoadedIsTyped ==
    ASSUME SettingsAssumption, SettingsTypeOK PROVE Loaded \in Documents
BY SeedIsTyped DEF Loaded, SettingsTypeOK

\* A request takes the mutex with a typed document.
LEMMA TypedTaken ==
    ASSUME SettingsAssumption, SettingsTypeOK, Request, NEW doc \in Documents, NEW reload \in BOOLEAN,
           Takes(doc, reload), strays' \subseteq Providers
    PROVE  SettingsTypeOK'
<1>1. op' = [step |-> "create", doc |-> doc, reload |-> reload, left |-> <<>>]
  BY DEF Takes
<1>2. <<>> \in Seq(Range(Parts))
  OBVIOUS
<1>3. op' \in [step : Saves, doc : Documents, reload : BOOLEAN, left : Seq(Range(Parts))]
  BY <1>1, <1>2 DEF Saves
<1>4. op' \in Ops
  BY <1>3 DEF Ops
<1>5. ops' \in 0..MaxOps
  BY DEF Request, SettingsTypeOK, SettingsAssumption
<1> QED
  BY <1>4, <1>5 DEF Takes, SettingsTypeOK

LEMMA TypedUserRequests ==
    ASSUME SettingsAssumption, SettingsTypeOK, CreateUser \/ UpdateUser \/ DeleteUser
    PROVE  SettingsTypeOK'
<1>1. Loaded \in Documents
  BY LoadedIsTyped
<1>2. PICK S \in SUBSET Users : Loaded.users \in [S -> Roles]
  BY <1>1, DocumentIs
<1>3. ASSUME NEW R \in SUBSET Users, NEW users \in [R -> Roles], Request,
             Takes([Loaded EXCEPT !.users = users], FALSE), UNCHANGED strays
      PROVE  SettingsTypeOK'
  <2>1. [Loaded EXCEPT !.users = users] \in Documents
    BY <1>1, TypedUsers
  <2>2. strays' \subseteq Providers
    BY <1>3 DEF SettingsTypeOK
  <2> QED
    BY <1>3, <2>1, <2>2, TypedTaken
<1>4. CASE CreateUser
  <2>1. PICK u \in Users \ DOMAIN Loaded.users, r \in Roles :
            /\ Request
            /\ Takes([Loaded EXCEPT !.users = [v \in DOMAIN @ \cup {u} |-> IF v = u THEN r ELSE @[v]]], FALSE)
            /\ UNCHANGED strays
    BY <1>4 DEF CreateUser
  <2> DEFINE users == [v \in DOMAIN Loaded.users \cup {u} |-> IF v = u THEN r ELSE Loaded.users[v]]
  <2>2. users \in [S \cup {u} -> Roles] /\ S \cup {u} \in SUBSET Users
    BY <1>2, <2>1
  <2>3. Takes([Loaded EXCEPT !.users = users], FALSE)
    BY <1>1, <2>1, DocumentIs
  <2> HIDE DEF users
  <2> QED
    BY <1>3, <2>1, <2>2, <2>3
<1>5. CASE UpdateUser
  <2>1. PICK u \in DOMAIN Loaded.users, r \in Roles :
            Request /\ Takes([Loaded EXCEPT !.users[u] = r], FALSE) /\ UNCHANGED strays
    BY <1>5 DEF UpdateUser
  <2> DEFINE users == [Loaded.users EXCEPT ![u] = r]
  <2>2. users \in [S -> Roles]
    BY <1>2, <2>1
  <2>3. [Loaded EXCEPT !.users[u] = r] = [Loaded EXCEPT !.users = users]
    BY <1>1, DocumentIs
  <2> HIDE DEF users
  <2> QED
    BY <1>2, <1>3, <2>1, <2>2, <2>3
<1>6. CASE DeleteUser
  <2>1. PICK u \in DOMAIN Loaded.users :
            /\ Request
            /\ Takes([Loaded EXCEPT !.users = [v \in DOMAIN @ \ {u} |-> @[v]]], FALSE)
            /\ UNCHANGED strays
    BY <1>6 DEF DeleteUser
  <2> DEFINE users == [v \in DOMAIN Loaded.users \ {u} |-> Loaded.users[v]]
  <2>2. users \in [S \ {u} -> Roles] /\ S \ {u} \in SUBSET Users
    BY <1>2
  <2>3. Takes([Loaded EXCEPT !.users = users], FALSE)
    BY <1>1, <2>1, DocumentIs
  <2> HIDE DEF users
  <2> QED
    BY <1>3, <2>1, <2>2, <2>3
<1> QED
  BY <1>4, <1>5, <1>6

LEMMA TypedProviderRequests ==
    ASSUME SettingsAssumption, SettingsTypeOK, CreateProvider \/ UpdateProvider \/ DeleteProvider
    PROVE  SettingsTypeOK'
<1> DEFINE ps == Loaded.providers
<1>1. Loaded \in Documents /\ ps \in Seq(Entries) /\ Loaded.active \in Providers \cup {None}
  BY LoadedIsTyped, DocumentIs
<1>2. ASSUME NEW doc \in Documents, Request, Takes(doc, TRUE), UNCHANGED strays PROVE SettingsTypeOK'
  <2>1. strays' \subseteq Providers
    BY <1>2 DEF SettingsTypeOK
  <2> QED
    BY <1>2, <2>1, TypedTaken
<1>3. CASE CreateProvider
  <2>1. PICK p \in Providers \ IdsOf(Loaded), key, enabled \in BOOLEAN, m \in Models \cup {None} :
            LET sp == [id |-> p, key |-> key, enabled |-> enabled,
                       models |-> IF m = None THEN <<>> ELSE <<m>>]
            IN  /\ Request
                /\ Takes([Loaded EXCEPT !.providers = Append(@, sp),
                                        !.active = IF @ = None THEN p ELSE @], TRUE)
                /\ UNCHANGED strays
    BY <1>3 DEF CreateProvider
  <2> DEFINE models == IF m = None THEN <<>> ELSE <<m>>
             sp == [id |-> p, key |-> key, enabled |-> enabled, models |-> models]
             active == IF Loaded.active = None THEN p ELSE Loaded.active
  <2>2. models \in Seq(Models)
    <3>1. CASE m = None
      BY <3>1
    <3>2. CASE m # None
      <4>1. m \in Models
        BY <3>2
      <4> QED
        BY <3>2, <4>1
    <3> QED
      BY <3>1, <3>2
  <2> HIDE DEF models
  <2>3. sp \in Entries
    BY <2>2 DEF Entries
  <2>4. Request /\ UNCHANGED strays
          /\ Takes([Loaded EXCEPT !.providers = Append(ps, sp), !.active = active], TRUE)
    BY <1>1, <2>1, DocumentIs DEF models
  <2> HIDE DEF sp, ps
  <2>5. Append(ps, sp) \in Seq(Entries) /\ active \in Providers \cup {None}
    BY <1>1, <2>3
  <2> HIDE DEF active
  <2>6. [Loaded EXCEPT !.providers = Append(ps, sp), !.active = active] \in Documents
    BY <1>1, <2>5, TypedProviders
  <2> QED
    BY <1>2, <2>4, <2>6
<1>4. CASE UpdateProvider
  <2>1. PICK i \in DOMAIN ps : \E sp \in Updated(ps[i]) :
            Request /\ Takes([Loaded EXCEPT !.providers[i] = sp], TRUE) /\ UNCHANGED strays
    BY <1>4 DEF UpdateProvider
  <2>2. PICK sp \in Updated(ps[i]) :
            Request /\ Takes([Loaded EXCEPT !.providers[i] = sp], TRUE) /\ UNCHANGED strays
    BY <2>1
  <2>3. ps[i] \in Entries
    BY <1>1
  <2>4. sp \in Entries
    <3> DEFINE old == ps[i]
    <3>1. old \in Entries /\ sp \in Updated(old)
      BY <2>2, <2>3
    <3> HIDE DEF old
    <3>2. old.models \in Seq(Models) /\ <<>> \in Seq(Models)
      BY <3>1 DEF Entries
    <3>3. ASSUME NEW models \in Seq(Models) PROVE [old EXCEPT !.models = models] \in Entries
      BY <3>1 DEF Entries
    <3>4. ASSUME NEW m \in Models PROVE (IF old.models = <<>> THEN <<m>> ELSE [old.models EXCEPT ![1] = m]) \in Seq(Models)
      <4>1. <<m>> \in Seq(Models)
        OBVIOUS
      <4>2. [old.models EXCEPT ![1] = m] \in Seq(Models)
        <5> DEFINE models == old.models
        <5>1. models \in Seq(Models)
          BY <3>2
        <5> HIDE DEF models
        <5>2. Len(models) \in Nat /\ models \in [1..Len(models) -> Models]
          BY <5>1
        <5>3. [models EXCEPT ![1] = m] \in [1..Len(models) -> Models]
          BY <5>2, Zenon
        <5>4. [models EXCEPT ![1] = m] \in Seq(Models)
          BY <5>2, <5>3
        <5> QED
          BY <5>4 DEF models
      <4> QED
        BY <4>1, <4>2
    <3>5. CASE \E m \in Models :
                 sp = [old EXCEPT !.models = IF @ = <<>> THEN <<m>> ELSE [@ EXCEPT ![1] = m]]
      <4>1. PICK m \in Models :
                 sp = [old EXCEPT !.models = IF @ = <<>> THEN <<m>> ELSE [@ EXCEPT ![1] = m]]
        BY <3>5
      <4> DEFINE new == IF old.models = <<>> THEN <<m>> ELSE [old.models EXCEPT ![1] = m]
      <4>2. sp = [old EXCEPT !.models = new] /\ new \in Seq(Models)
        BY <3>1, <3>4, <4>1 DEF Entries
      <4> HIDE DEF new
      <4> QED
        BY <3>3, <4>2
    <3>6. CASE sp = [old EXCEPT !.models = <<>>]
      BY <3>2, <3>3, <3>6
    <3>7. CASE sp = [old EXCEPT !.key = TRUE] \/ \E b \in BOOLEAN : sp = [old EXCEPT !.enabled = b]
      BY <3>1, <3>7 DEF Entries
    <3> QED
      BY <3>1, <3>5, <3>6, <3>7 DEF Updated
  <2>5. [Loaded EXCEPT !.providers[i] = sp] \in Documents
    BY <1>1, <2>4, TypedEntry
  <2> QED
    BY <1>2, <2>2, <2>5
<1>5. CASE DeleteProvider
  <2>1. PICK i \in DOMAIN ps : Request /\ Takes(WithoutProvider(Loaded, i), TRUE) /\ UNCHANGED strays
    BY <1>5 DEF DeleteProvider
  <2> DEFINE rest == RemoveAt(ps, i)
             active == IF Loaded.active # ps[i].id THEN Loaded.active
                       ELSE IF rest = <<>> THEN None ELSE rest[1].id
  <2>2. WithoutProvider(Loaded, i) = [Loaded EXCEPT !.providers = rest, !.active = active]
    BY <1>1, DocumentIs DEF WithoutProvider
  <2>3. rest \in Seq(Entries)
    <3>1. ps \in Seq(Range(ps)) /\ Range(ps) \subseteq Entries /\ i \in 1..Len(ps)
      BY <1>1, SeqOfRange DEF Range
    <3> HIDE DEF ps, rest
    <3>2. RemoveAt(ps, i) \in Seq(Range(ps))
      BY <3>1, RemoveAtIs
    <3>3. RemoveAt(ps, i) \in Seq(Entries)
      BY <3>1, <3>2
    <3> QED
      BY <3>3 DEF rest
  <2> HIDE DEF rest
  <2>4. active \in Providers \cup {None}
    <3>1. rest # <<>> => rest[1] \in Entries
      BY <2>3
    <3> QED
      BY <1>1, <3>1 DEF Entries
  <2> HIDE DEF active
  <2>5. [Loaded EXCEPT !.providers = rest, !.active = active] \in Documents
    BY <1>1, <2>3, <2>4, TypedProviders
  <2> QED
    BY <1>2, <2>1, <2>2, <2>5
<1> QED
  BY <1>3, <1>4, <1>5

LEMMA TypedModelRequests ==
    ASSUME SettingsAssumption, SettingsTypeOK, AddModel \/ RemoveModel \/ PatchConfig
    PROVE  SettingsTypeOK'
<1> DEFINE ps == Loaded.providers
<1>1. Loaded \in Documents /\ ps \in Seq(Entries)
  BY LoadedIsTyped, DocumentIs
<1>2. \A i \in DOMAIN ps : ps[i] \in Entries /\ ps[i].models \in Seq(Models)
  <2>1. \A i \in DOMAIN ps : ps[i] \in Entries
    BY <1>1
  <2>2. \A sp \in Entries : sp.models \in Seq(Models)
    BY DEF Entries
  <2> QED
    BY <2>1, <2>2
<1>3. ASSUME NEW i \in DOMAIN ps, NEW models \in Seq(Models), Request,
             Takes([Loaded EXCEPT !.providers[i].models = models], TRUE), UNCHANGED strays
      PROVE  SettingsTypeOK'
  <2>1. [Loaded EXCEPT !.providers[i].models = models] \in Documents
    BY <1>1, TypedModels
  <2>2. strays' \subseteq Providers
    BY <1>3 DEF SettingsTypeOK
  <2> QED
    BY <1>3, <2>1, <2>2, TypedTaken
<1>4. CASE AddModel
  <2>1. PICK i \in DOMAIN Loaded.providers, m \in Models :
            /\ Request
            /\ Takes([Loaded EXCEPT !.providers[i].models = Append(@, m)], TRUE)
            /\ UNCHANGED strays
    BY <1>4 DEF AddModel
  <2>2. Takes([Loaded EXCEPT !.providers[i].models = Append(ps[i].models, m)], TRUE)
    BY <1>1, <1>2, <2>1, DocumentIs DEF Entries
  <2>3. Append(ps[i].models, m) \in Seq(Models)
    BY <1>2
  <2> QED
    BY <1>3, <2>1, <2>2, <2>3
<1>5. CASE RemoveModel
  <2>1. PICK i \in DOMAIN Loaded.providers : \E m \in Range(Loaded.providers[i].models) :
            /\ Request
            /\ Takes([Loaded EXCEPT !.providers[i].models = WithoutModel(@, m)], TRUE)
            /\ UNCHANGED strays
    BY <1>5 DEF RemoveModel
  <2>2. PICK m \in Range(Loaded.providers[i].models) :
            /\ Request
            /\ Takes([Loaded EXCEPT !.providers[i].models = WithoutModel(@, m)], TRUE)
            /\ UNCHANGED strays
    BY <2>1
  <2>3. Takes([Loaded EXCEPT !.providers[i].models = WithoutModel(ps[i].models, m)], TRUE)
    BY <1>1, <1>2, <2>2, DocumentIs DEF Entries
  <2>4. WithoutModel(ps[i].models, m) \in Seq(Models)
    BY <1>2, WithoutModelIs
  <2> QED
    BY <1>3, <2>2, <2>3, <2>4
<1>6. CASE PatchConfig
  <2>1. CASE \E k \in Knobs, v \in 0..1 :
               Request /\ Takes([Loaded EXCEPT !.knobs[k] = v], TRUE) /\ UNCHANGED strays
    <3>1. PICK k \in Knobs, v \in 0..1 :
               Request /\ Takes([Loaded EXCEPT !.knobs[k] = v], TRUE) /\ UNCHANGED strays
      BY <2>1
    <3> DEFINE knobs == [Loaded.knobs EXCEPT ![k] = v]
    <3>2. knobs \in [Knobs -> Nat \cup {None}]
      BY <1>1, DocumentIs
    <3>3. [Loaded EXCEPT !.knobs[k] = v]
            = [users |-> Loaded.users, providers |-> ps, active |-> Loaded.active, knobs |-> knobs]
      BY <1>1, DocumentIs
    <3> HIDE DEF knobs
    <3>4. [users |-> Loaded.users, providers |-> ps, active |-> Loaded.active, knobs |-> knobs] \in Documents
      BY <1>1, <3>2, DocumentIs, DocumentMade
    <3>5. strays' \subseteq Providers
      BY <3>1 DEF SettingsTypeOK
    <3> QED
      BY <3>1, <3>3, <3>4, <3>5, TypedTaken
  <2>2. CASE \E p \in Providers \cup {None} :
               /\ Request
               /\ Takes([Loaded EXCEPT !.active = p], TRUE)
               /\ strays' = IF p \in IdsOf(Loaded) \cup {None} THEN strays ELSE strays \cup {p}
    <3>1. PICK p \in Providers \cup {None} :
               /\ Request
               /\ Takes([Loaded EXCEPT !.active = p], TRUE)
               /\ strays' = IF p \in IdsOf(Loaded) \cup {None} THEN strays ELSE strays \cup {p}
      BY <2>2
    <3>2. [Loaded EXCEPT !.active = p]
            = [users |-> Loaded.users, providers |-> ps, active |-> p, knobs |-> Loaded.knobs]
      BY <1>1, DocumentIs
    <3>3. [users |-> Loaded.users, providers |-> ps, active |-> p, knobs |-> Loaded.knobs] \in Documents
      BY <1>1, DocumentIs, DocumentMade
    <3>4. strays' \subseteq Providers
      BY <3>1 DEF SettingsTypeOK
    <3> QED
      BY <3>1, <3>2, <3>3, <3>4, TypedTaken
  <2> QED
    BY <1>6, <2>1, <2>2 DEF PatchConfig
<1> QED
  BY <1>4, <1>5, <1>6

\* What a request that holds the mutex may be.
LEMMA OpIs ==
    ASSUME SettingsTypeOK, op # Idle
    PROVE  /\ \/ op \in [step : Saves, doc : Documents, reload : BOOLEAN, left : Seq(Range(Parts))]
              \/ op \in [step : Saves \cup {"fetch"}, doc : Documents, reload : {TRUE},
                         left : Seq(Range(Parts)), at : Nat]
           /\ op.doc \in Documents /\ op.left \in Seq(Range(Parts))
BY DEF SettingsTypeOK, Ops

\* A change of a request in one of its parts.
LEMMA OpGoes ==
    ASSUME SettingsTypeOK, op # Idle, NEW s \in Saves, NEW doc \in Documents,
           NEW left \in Seq(Range(Parts)), op' = [op EXCEPT !.step = s, !.doc = doc, !.left = left]
    PROVE  op' \in Ops
<1>1. CASE op \in [step : Saves, doc : Documents, reload : BOOLEAN, left : Seq(Range(Parts))]
  BY <1>1 DEF Ops
<1>2. CASE op \in [step : Saves \cup {"fetch"}, doc : Documents, reload : {TRUE},
                   left : Seq(Range(Parts)), at : Nat]
  BY <1>2 DEF Ops
<1> QED
  BY <1>1, <1>2, OpIs

LEMMA TypedImport ==
    ASSUME SettingsAssumption, SettingsTypeOK, ImportModels \/ Fetched PROVE SettingsTypeOK'
<1>1. CASE ImportModels
  <2>1. PICK i \in DOMAIN Loaded.providers :
            op' = [step |-> "fetch", doc |-> Loaded, reload |-> TRUE, left |-> <<>>, at |-> i]
    BY <1>1 DEF ImportModels
  <2>2. Loaded \in Documents /\ i \in Nat /\ <<>> \in Seq(Range(Parts))
    <3>1. Loaded \in Documents
      BY LoadedIsTyped
    <3>2. Loaded.providers \in Seq(Entries)
      BY <3>1, DocumentIs
    <3>3. <<>> \in Seq(Range(Parts))
      OBVIOUS
    <3> QED
      BY <3>1, <3>2, <3>3
  <2>3. op' \in Ops
    BY <2>1, <2>2 DEF Ops
  <2>4. ops' \in 0..MaxOps /\ UNCHANGED <<file, up, running, born, crashes, strays>>
    BY <1>1 DEF ImportModels, Request, SettingsTypeOK, SettingsAssumption
  <2> QED
    BY <2>3, <2>4 DEF SettingsTypeOK
<1>2. CASE Fetched
  <2>1. op.step = "fetch" /\ UNCHANGED <<file, up, running, born, ops, crashes, strays>> /\ op # Idle
    <3>1. op.step = "fetch" /\ UNCHANGED <<file, up, running, born, ops, crashes, strays>>
      BY <1>2 DEF Fetched
    <3> QED
      BY <3>1 DEF Idle
  <2>2. CASE op' = Idle
    BY <2>1, <2>2 DEF SettingsTypeOK, Ops
  <2>3. CASE \E ms \in SUBSET Models :
               LET new == ms \ Range(op.doc.providers[op.at].models)
               IN  op' = [op EXCEPT !.step = "create",
                             !.doc.providers[op.at].models = @ \o SetToSeq(new)]
    <3>1. PICK ms \in SUBSET Models :
            op' = [op EXCEPT !.step = "create",
                     !.doc.providers[op.at].models =
                        @ \o SetToSeq(ms \ Range(op.doc.providers[op.at].models))]
      BY <2>3
    <3> DEFINE found == SetToSeq(ms \ Range(op.doc.providers[op.at].models))
               models == op.doc.providers[op.at].models \o found
               doc == [op.doc EXCEPT !.providers[op.at].models = models]
    <3>2. op.doc \in Documents /\ op.left \in Seq(Range(Parts))
      BY <2>1, OpIs
    <3>3. op' = [op EXCEPT !.step = "create", !.doc = doc, !.left = op.left]
      <4>1. \/ op \in [step : Saves, doc : Documents, reload : BOOLEAN, left : Seq(Range(Parts))]
            \/ op \in [step : Saves \cup {"fetch"}, doc : Documents, reload : {TRUE},
                       left : Seq(Range(Parts)), at : Nat]
        BY <2>1, OpIs
      <4> HIDE DEF found
      <4>2. op' = [op EXCEPT !.step = "create", !.doc.providers[op.at].models = @ \o found]
        BY <3>1 DEF found
      <4> QED
        BY <3>2, <4>1, <4>2, DocumentIs
    <3>4. doc \in Documents
      <4>1. CASE op.at \in DOMAIN op.doc.providers
        <5>1. found \in Seq(Models)
          <6> DEFINE new == ms \ Range(op.doc.providers[op.at].models)
          <6>1. IsFiniteSet(new) /\ new \subseteq Models
            BY FS_Subset DEF SettingsAssumption
          <6> HIDE DEF new
          <6>2. SetToSeq(new) \in Seq(Models)
            BY <6>1, SetToSeqIs
          <6> QED
            BY <6>2 DEF new
        <5>2. op.doc.providers[op.at].models \in Seq(Models)
          <6>1. op.doc.providers \in Seq(Entries)
            BY <3>2, DocumentIs
          <6>2. op.doc.providers[op.at] \in Entries
            BY <4>1, <6>1
          <6> QED
            BY <6>2 DEF Entries
        <5> HIDE DEF found
        <5>3. models \in Seq(Models)
          BY <5>1, <5>2
        <5> HIDE DEF models
        <5> QED
          BY <3>2, <4>1, <5>3, TypedModels
      <4>2. CASE op.at \notin DOMAIN op.doc.providers
        <5>1. doc = op.doc
          BY <3>2, <4>2, DocumentIs
        <5> QED
          BY <3>2, <5>1
      <4> QED
        BY <4>1, <4>2
    <3> HIDE DEF doc
    <3>5. op' \in Ops
      BY <2>1, <3>2, <3>3, <3>4, OpGoes DEF Saves
    <3> QED
      BY <2>1, <3>5 DEF SettingsTypeOK
  <2> QED
    BY <1>2, <2>2, <2>3 DEF Fetched
<1> QED
  BY <1>1, <1>2

\* The save moves on, or fails; the file is the document that was written.
LEMMA TypedSave ==
    ASSUME SettingsTypeOK, IInv, SaveOpens \/ SaveWrites \/ SaveRenames PROVE SettingsTypeOK'
<1>1. op # Idle /\ UNCHANGED <<up, running, born, ops, crashes, strays>>
  BY DEF SaveOpens, SaveWrites, SaveRenames, Idle
<1>2. op.doc \in Documents /\ op.left \in Seq(Range(Parts))
  BY <1>1, OpIs
<1>3. ASSUME op' = Idle, UNCHANGED file PROVE SettingsTypeOK'
  BY <1>1, <1>3 DEF SettingsTypeOK, Ops
<1>4. ASSUME NEW s \in Saves, NEW left \in Seq(Range(Parts)),
             op' = [op EXCEPT !.step = s, !.left = left], file' \in {file, op.doc}
      PROVE  SettingsTypeOK'
  <2>1. op' = [op EXCEPT !.step = s, !.doc = op.doc, !.left = left]
    BY <1>1, <1>4, OpIs
  <2>2. op' \in Ops
    BY <1>1, <1>2, <2>1, OpGoes
  <2> QED
    BY <1>1, <1>2, <1>4, <2>2 DEF SettingsTypeOK
<1>5. ASSUME NEW s \in Saves, op' = [op EXCEPT !.step = s], UNCHANGED file PROVE SettingsTypeOK'
  <2>1. op' = [op EXCEPT !.step = s, !.left = op.left]
    BY <1>1, <1>5, OpIs
  <2> QED
    BY <1>2, <1>4, <1>5, <2>1
<1>6. CASE SaveOpens
  BY <1>3, <1>5, <1>6 DEF SaveOpens, Failed, Saves
<1>7. CASE SaveWrites
  BY <1>3, <1>5, <1>7 DEF SaveWrites, Failed, Saves
<1>8. CASE SaveRenames
  <2>1. CASE Failed /\ UNCHANGED file
    BY <1>3, <2>1 DEF Failed
  <2>2. CASE /\ file' = tmp
             /\ op' = [op EXCEPT !.step = "reload", !.left = IF op.reload THEN Parts ELSE <<>>]
    <3> DEFINE left == IF op.reload THEN Parts ELSE <<>>
    <3>1. left \in Seq(Range(Parts))
      <4>1. Parts \in Seq(Range(Parts)) /\ <<>> \in Seq(Range(Parts))
        BY DEF Parts, Range
      <4> QED
        BY <4>1
    <3>2. op' = [op EXCEPT !.step = "reload", !.left = left]
      BY <2>2
    <3> HIDE DEF left
    <3>3. file' = op.doc
      BY <1>8, <2>2 DEF SaveRenames, IInv, OpInv
    <3> QED
      BY <1>4, <3>1, <3>2, <3>3 DEF Saves
  <2> QED
    BY <1>8, <2>1, <2>2 DEF SaveRenames
<1> QED
  BY <1>6, <1>7, <1>8

LEMMA TypedReload ==
    ASSUME SettingsTypeOK, ReloadPart \/ Answer PROVE SettingsTypeOK'
<1>1. op # Idle /\ op.step = "reload" /\ UNCHANGED <<file, up, born, ops, crashes, strays>>
  BY DEF ReloadPart, Answer, Idle
<1>2. CASE ReloadPart
  <2>1. op.left # <<>> /\ op' = [op EXCEPT !.left = Tail(@)] /\ DOMAIN running' = DOMAIN running
    BY <1>2 DEF ReloadPart
  <2>2. op.doc \in Documents /\ op.left \in Seq(Range(Parts))
    BY <1>1, OpIs
  <2>3. Tail(op.left) \in Seq(Range(Parts))
    BY <2>1, <2>2
  <2>4. op' = [op EXCEPT !.step = "reload", !.doc = op.doc, !.left = Tail(op.left)]
    BY <1>1, <2>1, OpIs
  <2>5. op' \in Ops
    BY <1>1, <2>2, <2>3, <2>4, OpGoes DEF Saves
  <2> QED
    BY <1>1, <2>1, <2>5 DEF SettingsTypeOK
<1>3. CASE Answer
  BY <1>1, <1>3 DEF Answer, SettingsTypeOK, Ops
<1> QED
  BY <1>2, <1>3

LEMMA TypedStep ==
    ASSUME SettingsAssumption, SettingsTypeOK, IInv, [SettingsNext]_settingsVars
    PROVE  SettingsTypeOK'
<1>1. CASE Boot
  <2>1. file' \in {file, DefaultSeedFile} /\ op' = Idle /\ up' = TRUE /\ DOMAIN running' = AllParts
          /\ UNCHANGED <<ops, crashes, strays>>
    BY <1>1 DEF Boot
  <2>2. born' \in Documents
    <3>1. PICK seeded \in BOOLEAN :
            LET doc == IF file = None /\ seeded THEN DefaultSeedFile ELSE file IN
            born' = IF doc = None THEN DefaultSeedFile ELSE doc
      BY <1>1 DEF Boot
    <3>2. born' = DefaultSeedFile \/ (file # None /\ born' = file)
      BY <3>1
    <3> QED
      BY <3>2, SeedIsTyped DEF SettingsTypeOK
  <2> QED
    BY <2>1, <2>2, SeedIsTyped DEF SettingsTypeOK, Ops
<1>2. CASE Crash
  <2>1. crashes' \in 0..MaxCrashes
    BY <1>2 DEF Crash, SettingsTypeOK, SettingsAssumption
  <2>2. up' = FALSE /\ UNCHANGED <<file, running, born, op, ops, strays>>
    BY <1>2 DEF Crash
  <2> QED
    BY <2>1, <2>2 DEF SettingsTypeOK
<1>3. CASE UNCHANGED settingsVars
  BY <1>3 DEF settingsVars, SettingsTypeOK
<1> QED
  BY <1>1, <1>2, <1>3, TypedUserRequests, TypedProviderRequests, TypedModelRequests, TypedImport,
     TypedSave, TypedReload DEF SettingsNext

LEMMA TypedInit == SettingsAssumption /\ SettingsInit => SettingsTypeOK
<1> SUFFICES ASSUME SettingsAssumption, SettingsInit PROVE SettingsTypeOK
  OBVIOUS
<1>1. file \in Documents \cup {None}
  BY DEF SettingsInit, SettingsAssumption
<1>2. strays \subseteq Providers
  <2>1. file # None => file.active \in Providers \cup {None}
    BY <1>1, DocumentIs
  <2> QED
    BY <2>1 DEF SettingsInit
<1>3. DOMAIN running = AllParts /\ born \in Documents /\ up = FALSE /\ op \in Ops /\ ops \in 0..MaxOps /\ crashes \in 0..MaxCrashes
  BY SeedIsTyped DEF SettingsInit, Ops, SettingsAssumption
<1> QED
  BY <1>1, <1>2, <1>3 DEF SettingsTypeOK

\* The document on the disk, and the one that a request is about to save, have the
\* fields and values that the store reads and writes, whatever the importer finds,
\* and the parts that run are the ones that Runtime.Reload goes through and the ones
\* that main builds once.
THEOREM SettingsTypeCorrect ==
    ASSUME SettingsAssumption, NoneIsNoDocument PROVE SettingsSpec => []SettingsTypeOK
<1>1. SettingsTypeOK /\ IInv /\ [SettingsNext]_settingsVars => SettingsTypeOK'
  BY TypedStep
<1>2. SettingsInit => SettingsTypeOK
  BY TypedInit
<1> QED
  BY <1>1, <1>2, Inductive, PTL DEF SettingsSpec
=============================================================================
