--------------------------- MODULE Compaction_proofs ---------------------------
(***************************************************************************)
(* Proofs about compaction, for any number of turns, items and recent      *)
(* turns.  The argument: as long as no turn is retried late, the turns of  *)
(* the transcript come one after the other, so what lies at or before a    *)
(* checkpoint belongs to turns that were old then, and old turns stay old. *)
(***************************************************************************)
EXTENDS Compaction, FiniteSetTheorems, WellFoundedInduction, TLAPS

Types == {"user_message", "agent_message", "turn.failed", "turn.resumed", "context_compacted"}

Items == [turn : Turns, type : Types, through : Nat, excerpt : SUBSET Nat]

\* Turns come one after the other.
Ordered(its) == \A i, j \in Seqs(its) : i < j => First(its, its[i].turn) <= First(its, its[j].turn)

\* The last item is the running turn's.
Running == pc # "idle" => items # <<>> /\ items[Len(items)].turn = turn

InOrder == ~RetriedLate => Ordered(items)

\* Every checkpoint covers what it compacts.
Covered == ~RetriedLate => \A k \in Compacts(items) : 1..items[k].through \subseteq items[k].excerpt

\* A summary is made of turns that are old, then and now.
Excerpts == \A k \in Compacts(items) : items[k].excerpt \subseteq OldItems(items)

IInv == /\ items \in Seq(Items) /\ TypeOK
        /\ Running /\ InOrder /\ Covered /\ Excerpts
        /\ pc = "chat" => prompt = Shown(items)
-----------------------------------------------------------------------------
(* Numbers, and turns in a transcript *)

\* A set of numbers has a least one; a bounded one has a greatest.
LEMMA HasMin ==
    ASSUME NEW S \in SUBSET Nat, S # {}
    PROVE  Min(S) \in S /\ \A y \in S : Min(S) <= y
<1> DEFINE Less == {ss \in Nat \X Nat : ss[1] < ss[2]}
<1>1. OpToRel(<, Nat) = Less
  BY DEF OpToRel
<1>2. PICK x \in S : \A y \in S : ~ (<<y, x>> \in Less)
  BY <1>1, NatLessThanWellFounded, WFMin
<1>3. \A y \in S : x <= y
  <2> TAKE y \in S
  <2>1. <<y, x>> \notin Less
    BY <1>2
  <2>2. x \in Nat /\ y \in Nat
    OBVIOUS
  <2>3. ~(y < x)
    BY <2>1, <2>2
  <2> QED
    BY <2>2, <2>3
<1> QED
  BY <1>3 DEF Min

LEMMA HasMax ==
    ASSUME NEW n \in Nat, NEW S \in SUBSET (0..n), S # {}
    PROVE  Max(S) \in S /\ \A y \in S : Max(S) >= y
<1> DEFINE T == {n - x : x \in S}
<1>1. T \in SUBSET Nat /\ T # {}
  <2>1. \A x \in S : n - x \in Nat
    OBVIOUS
  <2> QED
    BY <2>1
<1>2. Min(T) \in T /\ \A y \in T : Min(T) <= y
  BY <1>1, HasMin
<1>3. PICK x \in S : Min(T) = n - x
  BY <1>2
<1>4. \A y \in S : n - y \in T
  OBVIOUS
<1>5. \A y \in S : x >= y
  <2> TAKE y \in S
  <2>1. n - x <= n - y
    BY <1>2, <1>3, <1>4
  <2> QED
    BY <2>1
<1> QED
  BY <1>5 DEF Max

\* First is the place of the turn's first item.
LEMMA FirstIs ==
    ASSUME NEW its \in Seq(Items), NEW t \in TurnsOf(its)
    PROVE  /\ First(its, t) \in Seqs(its) /\ its[First(its, t)].turn = t
           /\ \A i \in Seqs(its) : its[i].turn = t => First(its, t) <= i
<1> DEFINE S == {i \in Seqs(its) : its[i].turn = t}
<1>1. S \in SUBSET Nat /\ S # {}
  BY DEF TurnsOf, Seqs
<1>2. Min(S) \in S /\ \A y \in S : Min(S) <= y
  BY <1>1, HasMin
<1> QED
  BY <1>2 DEF First

\* An item at the end moves no turn.
LEMMA FirstKept ==
    ASSUME NEW its \in Seq(Items), NEW x \in Items, NEW t \in TurnsOf(its)
    PROVE  t \in TurnsOf(Append(its, x)) /\ First(Append(its, x), t) = First(its, t)
<1> DEFINE more == Append(its, x)
<1>1. /\ more \in Seq(Items) /\ Len(more) = Len(its) + 1 /\ Len(its) \in Nat
      /\ \A i \in Seqs(its) : i \in Seqs(more) /\ more[i] = its[i]
      /\ \A i \in Seqs(more) : i <= Len(its) => i \in Seqs(its)
  BY DEF Seqs
<1> HIDE DEF more
<1>2. /\ First(its, t) \in Seqs(its) /\ its[First(its, t)].turn = t
      /\ \A i \in Seqs(its) : its[i].turn = t => First(its, t) <= i
  BY FirstIs
<1>3. t \in TurnsOf(more)
  BY <1>1, <1>2 DEF TurnsOf
<1>4. /\ First(more, t) \in Seqs(more) /\ more[First(more, t)].turn = t
      /\ \A i \in Seqs(more) : more[i].turn = t => First(more, t) <= i
  BY <1>1, <1>3, FirstIs
<1>5. First(more, t) <= First(its, t)
  BY <1>1, <1>2, <1>4
<1>6. First(more, t) \in Seqs(its) /\ First(more, t) \in Nat /\ First(its, t) \in Nat
  BY <1>1, <1>2, <1>4, <1>5 DEF Seqs
<1>7. First(its, t) <= First(more, t)
  BY <1>1, <1>2, <1>4, <1>6
<1> QED
  BY <1>3, <1>5, <1>6, <1>7 DEF more

LEMMA TurnsFinite ==
    ASSUME NEW its \in Seq(Items)
    PROVE  IsFiniteSet(TurnsOf(its))
<1> DEFINE f == [i \in Seqs(its) |-> its[i].turn]
<1>1. f \in Surjection(Seqs(its), TurnsOf(its))
  BY DEF Surjection, TurnsOf
<1>2. IsFiniteSet(Seqs(its))
  BY FS_Interval DEF Seqs
<1> QED
  BY <1>1, <1>2, FS_Surjection

\* Turns that began after t.
After(its, t) == {u \in TurnsOf(its) : First(its, u) > First(its, t)}

LEMMA AfterFinite ==
    ASSUME NEW its \in Seq(Items), NEW t
    PROVE  IsFiniteSet(After(its, t)) /\ Cardinality(After(its, t)) \in Nat
<1>1. After(its, t) \in SUBSET TurnsOf(its)
  BY DEF After
<1> QED
  BY <1>1, TurnsFinite, FS_Subset, FS_CardinalityType

LEMMA OldIs ==
    ASSUME NEW its \in Seq(Items), NEW i \in Seqs(its)
    PROVE  i \in OldItems(its) <=> Cardinality(After(its, its[i].turn)) >= Recent
BY DEF OldItems, OldTurns, After, TurnsOf

\* Old items stay old.
LEMMA OldKept ==
    ASSUME NEW its \in Seq(Items), NEW x \in Items
    PROVE  OldItems(its) \subseteq OldItems(Append(its, x))
<1> DEFINE more == Append(its, x)
<1>1. more \in Seq(Items) /\ \A i \in Seqs(its) : i \in Seqs(more) /\ more[i] = its[i]
  BY DEF Seqs
<1>2. \A t \in TurnsOf(its) : t \in TurnsOf(more) /\ First(more, t) = First(its, t)
  BY FirstKept
<1> HIDE DEF more
<1> SUFFICES ASSUME NEW i \in OldItems(its) PROVE i \in OldItems(more)
  BY DEF more
<1>3. i \in Seqs(its) /\ its[i].turn \in TurnsOf(its)
  BY DEF OldItems, TurnsOf
<1>4. After(its, its[i].turn) \in SUBSET After(more, more[i].turn)
  BY <1>1, <1>2, <1>3 DEF After
<1>5. Cardinality(After(its, its[i].turn)) <= Cardinality(After(more, more[i].turn))
  BY <1>1, <1>4, AfterFinite, FS_Subset
<1>6. /\ Cardinality(After(its, its[i].turn)) \in Nat /\ Cardinality(After(more, more[i].turn)) \in Nat
      /\ Recent \in Nat
  BY <1>1, AfterFinite, RecentAssumption
<1>7. Cardinality(After(its, its[i].turn)) >= Recent
  BY <1>3, OldIs
<1>8. Cardinality(After(more, more[i].turn)) >= Recent
  BY <1>5, <1>6, <1>7
<1> QED
  BY <1>1, <1>3, <1>8, OldIs

\* In an ordered transcript everything before an old item is old.
LEMMA OldPrefix ==
    ASSUME NEW its \in Seq(Items), Ordered(its), NEW m \in OldItems(its), NEW i \in 1..m
    PROVE  i \in OldItems(its)
<1>1. m \in Seqs(its) /\ i \in Seqs(its) /\ i <= m /\ i \in Nat /\ m \in Nat
  BY DEF OldItems, Seqs
<1>2. CASE i = m
  BY <1>2
<1>3. CASE i < m
  <2>1. First(its, its[i].turn) <= First(its, its[m].turn)
    BY <1>1, <1>3 DEF Ordered
  <2>2. \A u \in TurnsOf(its) : First(its, u) \in Nat
    BY FirstIs DEF Seqs
  <2>3. its[i].turn \in TurnsOf(its) /\ its[m].turn \in TurnsOf(its)
    BY <1>1 DEF TurnsOf
  <2>4. After(its, its[m].turn) \in SUBSET After(its, its[i].turn)
    BY <2>1, <2>2, <2>3 DEF After
  <2>5. Cardinality(After(its, its[m].turn)) <= Cardinality(After(its, its[i].turn))
    BY <2>4, AfterFinite, FS_Subset
  <2>6. /\ Cardinality(After(its, its[i].turn)) \in Nat /\ Cardinality(After(its, its[m].turn)) \in Nat
        /\ Recent \in Nat
    BY AfterFinite, RecentAssumption
  <2>7. Cardinality(After(its, its[m].turn)) >= Recent
    BY <1>1, OldIs
  <2>8. Cardinality(After(its, its[i].turn)) >= Recent
    BY <2>5, <2>6, <2>7
  <2> QED
    BY <1>1, <2>8, OldIs
<1> QED
  BY <1>1, <1>2, <1>3
-----------------------------------------------------------------------------
(* Steps *)

\* The transcript with x at its end.
LEMMA Longer ==
    ASSUME IInv, NEW x \in Items, items' = Append(items, x)
    PROVE  /\ items \in Seq(Items) /\ items' \in Seq(Items) /\ Len(items) \in Nat
           /\ Len(items') = Len(items) + 1 /\ items'[Len(items) + 1] = x
           /\ \A i \in Seqs(items) : i \in Seqs(items') /\ i <= Len(items) /\ items'[i] = items[i]
           /\ \A i \in Seqs(items') : i \in Seqs(items) \/ i = Len(items) + 1
           /\ Len(items) + 1 \in Seqs(items')
           /\ Seqs(items) \subseteq Nat /\ Seqs(items') \subseteq Nat
           /\ \A t \in TurnsOf(items) : t \in TurnsOf(items') /\ First(items', t) = First(items, t)
           /\ OldItems(items) \subseteq OldItems(items')
BY FirstKept, OldKept DEF IInv, Seqs

\* A turn that was retried late remains so.
LEMMA LateKept ==
    ASSUME IInv, NEW x \in Items, items' = Append(items, x), ~RetriedLate'
    PROVE  ~RetriedLate /\ Ordered(items)
<1>1. ~RetriedLate
  <2> SUFFICES ASSUME NEW j \in Seqs(items), items[j].type = "turn.resumed", NEW i \in 1..(j - 1),
                      First(items, items[i].turn) > First(items, items[j].turn)
               PROVE  FALSE
    BY DEF RetriedLate
  <2>1. i \in Seqs(items) /\ i \in 1..(j - 1)
    BY Longer DEF Seqs
  <2>2. items[i].turn \in TurnsOf(items) /\ items[j].turn \in TurnsOf(items)
    BY <2>1 DEF TurnsOf
  <2>3. /\ j \in Seqs(items') /\ items'[j] = items[j] /\ items'[i] = items[i]
        /\ First(items', items'[i].turn) > First(items', items'[j].turn)
    BY <2>1, <2>2, Longer
  <2> QED
    BY <2>1, <2>3 DEF RetriedLate
<1> QED
  BY <1>1 DEF IInv, InOrder

\* Where x may come from, so that order is kept.
Follows(x) == \/ x.turn \notin TurnsOf(items)
              \/ x.type = "turn.resumed"
              \/ items # <<>> /\ x.turn = items[Len(items)].turn

LEMMA OrderKept ==
    ASSUME IInv, NEW x \in Items, items' = Append(items, x), Follows(x)
    PROVE  InOrder'
<1> SUFFICES ASSUME ~RetriedLate', NEW i \in Seqs(items'), NEW j \in Seqs(items'), i < j
             PROVE  First(items', items'[i].turn) <= First(items', items'[j].turn)
  BY DEF InOrder, Ordered
<1>1. ~RetriedLate /\ Ordered(items)
  BY LateKept
<1>2. i \in Seqs(items) /\ items'[i] = items[i] /\ items[i].turn \in TurnsOf(items)
  <2>1. i \in Seqs(items)
    BY Longer
  <2> QED
    BY <2>1, Longer DEF TurnsOf
<1>3. CASE j \in Seqs(items)
  <2>1. items[j].turn \in TurnsOf(items)
    BY <1>3 DEF TurnsOf
  <2>2. First(items, items[i].turn) <= First(items, items[j].turn)
    BY <1>1, <1>2, <1>3 DEF Ordered
  <2> QED
    BY <1>2, <1>3, <2>1, <2>2, Longer
<1>4. CASE j = Len(items) + 1
  <2>1. items'[j] = x /\ x.turn \in TurnsOf(items')
    BY <1>4, Longer DEF TurnsOf
  <2>2. First(items', x.turn) \in Seqs(items') /\ items'[First(items', x.turn)].turn = x.turn
    BY <2>1, Longer, FirstIs
  <2>3. /\ First(items', items[i].turn) \in Seqs(items') /\ First(items', items[i].turn) <= i
        /\ items[i].turn \in TurnsOf(items')
    BY <1>2, Longer, FirstIs
  <2>4. First(items', x.turn) \in Nat /\ First(items', items[i].turn) \in Nat /\ i \in Nat /\ Len(items) \in Nat
    BY <1>2, <2>2, <2>3, Longer
  <2>5. CASE x.turn \notin TurnsOf(items)
    <3>1. First(items', x.turn) \notin Seqs(items)
      BY <2>2, <2>5, Longer DEF TurnsOf
    <3>2. First(items', x.turn) = j
      BY <1>4, <2>2, <3>1, Longer
    <3> QED
      BY <1>2, <2>1, <2>3, <2>4, <3>2
  <2>6. CASE x.type = "turn.resumed"
    <3>1. ~ (First(items', items'[i].turn) > First(items', items'[j].turn))
      <4>1. i \in 1..(j - 1)
        BY <1>2, <1>4 DEF Seqs, IInv
      <4> QED
        BY <2>1, <2>6, <4>1 DEF RetriedLate
    <3> QED
      BY <1>2, <2>1, <2>4, <3>1
  <2>7. CASE items # <<>> /\ x.turn = items[Len(items)].turn
    <3>1. Len(items) \in Seqs(items) /\ i <= Len(items)
      BY <1>2, <2>7, Longer DEF Seqs
    <3>2. x.turn \in TurnsOf(items)
      BY <2>7, <3>1 DEF TurnsOf
    <3>3. First(items, items[i].turn) <= First(items, x.turn)
      <4>1. CASE i < Len(items)
        BY <1>1, <1>2, <2>7, <3>1, <4>1 DEF Ordered
      <4>2. CASE i = Len(items)
        BY <1>2, <2>4, <2>7, <4>2, Longer
      <4> QED
        BY <2>4, <3>1, <4>1, <4>2
    <3> QED
      BY <1>2, <2>1, <3>2, <3>3, Longer
  <2> QED
    BY <2>5, <2>6, <2>7 DEF Follows
<1> QED
  BY <1>3, <1>4, Longer

\* A checkpoint of this transcript, or no checkpoint.
Cuts(x) == IF x.type = "context_compacted"
           THEN OldItems(items) # {} /\ x.excerpt = OldItems(items) /\ x.through = ThroughSeq(items)
           ELSE x.through = 0 /\ x.excerpt = {}

LEMMA ThroughIs ==
    ASSUME IInv, OldItems(items) # {}
    PROVE  /\ ThroughSeq(items) \in OldItems(items) /\ ThroughSeq(items) \in Seqs(items)
           /\ OldItems(items) \subseteq Seqs(items)
<1>1. Len(items) \in Nat /\ OldItems(items) \in SUBSET (0..Len(items)) /\ OldItems(items) \subseteq Seqs(items)
  BY DEF IInv, OldItems, Seqs
<1> QED
  BY <1>1, HasMax DEF ThroughSeq

LEMMA Appends ==
    ASSUME IInv, NEW x \in Items, items' = Append(items, x), Follows(x), Cuts(x), turn' = x.turn,
           pc' \in {"idle", "context", "chat"}, prompt' \subseteq Seqs(items'),
           pc' = "chat" => prompt' = Shown(items')
    PROVE  IInv'
<1>1. Running'
  BY Longer DEF Running
<1>2. InOrder'
  BY OrderKept
<1>3. Compacts(items') \subseteq Compacts(items) \cup {Len(items) + 1}
  BY Longer DEF Compacts
<1>4. Covered'
  <2> SUFFICES ASSUME ~RetriedLate', NEW k \in Compacts(items')
               PROVE  1..items'[k].through \subseteq items'[k].excerpt
    BY DEF Covered
  <2>1. ~RetriedLate /\ Ordered(items)
    BY LateKept
  <2>2. CASE k \in Compacts(items)
    <3>1. k \in Seqs(items) /\ items'[k] = items[k]
      BY <2>2, Longer DEF Compacts
    <3>2. 1..items[k].through \subseteq items[k].excerpt
      BY <2>1, <2>2 DEF IInv, Covered
    <3> QED
      BY <3>1, <3>2
  <2>3. CASE k = Len(items) + 1
    <3>1. items'[k] = x /\ x.type = "context_compacted"
      BY <2>3, Longer DEF Compacts
    <3>2. OldItems(items) # {} /\ x.excerpt = OldItems(items) /\ x.through = ThroughSeq(items)
      BY <3>1 DEF Cuts
    <3>3. 1..ThroughSeq(items) \subseteq OldItems(items)
      BY <2>1, <3>2, ThroughIs, OldPrefix DEF IInv
    <3> QED
      BY <3>1, <3>2, <3>3
  <2> QED
    BY <1>3, <2>2, <2>3
<1>5. Excerpts'
  <2> SUFFICES ASSUME NEW k \in Compacts(items')
               PROVE  items'[k].excerpt \subseteq OldItems(items')
    BY DEF Excerpts
  <2>1. CASE k \in Compacts(items)
    BY <2>1, Longer DEF IInv, Excerpts, Compacts
  <2>2. CASE k = Len(items) + 1
    <3>1. items'[k] = x
      BY <2>2, Longer
    <3>2. x.excerpt \subseteq OldItems(items)
      BY DEF Cuts
    <3> QED
      BY <3>1, <3>2, Longer
  <2> QED
    BY <1>3, <2>1, <2>2
<1>6. TypeOK'
  <2>1. x.through \in 0..Len(items) /\ x.excerpt \subseteq 1..Len(items)
    <3>1. CASE x.type = "context_compacted"
      BY <3>1, ThroughIs DEF Cuts, Seqs
    <3>2. CASE x.type # "context_compacted"
      BY <3>2, Longer DEF Cuts
    <3> QED
      BY <3>1, <3>2
  <2>2. ASSUME NEW i \in Seqs(items')
        PROVE  /\ items'[i].turn \in Turns /\ items'[i].type \in Types
               /\ items'[i].through \in 0..(i - 1) /\ items'[i].excerpt \subseteq 1..(i - 1)
    <3>1. CASE i \in Seqs(items)
      <4>1. items'[i] = items[i]
        BY <3>1, Longer
      <4> QED
        BY <3>1, <4>1 DEF IInv, TypeOK, Types
    <3>2. CASE i = Len(items) + 1
      <4>1. items'[i] = x /\ i - 1 = Len(items)
        BY <3>2, Longer
      <4> QED
        BY <2>1, <4>1 DEF Items
    <3> QED
      BY <3>1, <3>2, Longer
  <2>3. turn' \in Turns
    BY DEF Items
  <2> QED
    BY <2>2, <2>3 DEF TypeOK, Types
<1> QED
  BY <1>1, <1>2, <1>4, <1>5, <1>6, Longer DEF IInv

LEMMA ItemIs ==
    ASSUME NEW t \in Turns, NEW type \in Types
    PROVE  /\ Item(t, type) \in Items /\ Item(t, type).turn = t /\ Item(t, type).type = type
           /\ Item(t, type).through = 0 /\ Item(t, type).excerpt = {}
BY DEF Item, Items

LEMMA ShownIs == ASSUME NEW its PROVE Shown(its) \subseteq Seqs(its)
BY DEF Shown, Messages

LEMMA InitIInv == Init => IInv
<1> SUFFICES ASSUME Init PROVE IInv
  OBVIOUS
<1>1. items \in Seq(Items) /\ Seqs(items) = {} /\ pc = "idle" /\ turn \in Turns /\ prompt = {}
  BY DEF Init, Seqs
<1> QED
  BY <1>1 DEF IInv, TypeOK, Running, InOrder, Ordered, Covered, Excerpts, Compacts

LEMMA StepIInv == IInv /\ [Next]_vars => IInv'
<1> SUFFICES ASSUME IInv, [Next]_vars PROVE IInv'
  OBVIOUS
<1>1. ASSUME NEW t \in Turns, StartTurn(t) PROVE IInv'
  <2> DEFINE x == Item(t, "user_message")
  <2>1. x \in Items /\ x.turn = t /\ x.type = "user_message" /\ x.through = 0 /\ x.excerpt = {}
    BY ItemIs DEF Types
  <2>2. items' = Append(items, x) /\ turn' = t /\ pc' = "context" /\ prompt' = prompt
    BY <1>1 DEF StartTurn
  <2> HIDE DEF x
  <2>3. prompt \subseteq Seqs(items')
    BY <2>1, <2>2, Longer DEF IInv, TypeOK
  <2>4. Follows(x) /\ Cuts(x)
    BY <1>1, <2>1 DEF StartTurn, Follows, Cuts
  <2> QED
    BY <2>1, <2>2, <2>3, <2>4, Appends
<1>2. ASSUME NEW t \in Turns, RetryTurn(t) PROVE IInv'
  <2> DEFINE x == Item(t, "turn.resumed")
  <2>1. x \in Items /\ x.turn = t /\ x.type = "turn.resumed" /\ x.through = 0 /\ x.excerpt = {}
    BY ItemIs DEF Types
  <2>2. items' = Append(items, x) /\ turn' = t /\ pc' = "context" /\ prompt' = prompt
    BY <1>2 DEF RetryTurn
  <2> HIDE DEF x
  <2>3. prompt \subseteq Seqs(items')
    BY <2>1, <2>2, Longer DEF IInv, TypeOK
  <2>4. Follows(x) /\ Cuts(x)
    BY <2>1 DEF Follows, Cuts
  <2> QED
    BY <2>1, <2>2, <2>3, <2>4, Appends
<1>3. CASE Uncompacted
  <2>1. prompt' = Shown(items') /\ items' = items /\ turn' = turn /\ pc = "context" /\ pc' = "chat"
    BY <1>3 DEF Uncompacted
  <2> QED
    BY <2>1, ShownIs DEF IInv, TypeOK, Running, InOrder, RetriedLate, Ordered, Covered, Excerpts
<1>4. CASE Compacted
  <2> DEFINE x == [Item(turn, "context_compacted") EXCEPT
                     !.through = ThroughSeq(items), !.excerpt = OldItems(items)]
  <2>1. /\ items' = Append(items, x) /\ prompt' = Shown(items') /\ pc = "context" /\ pc' = "chat"
        /\ turn' = turn /\ OldItems(items) # {}
    BY <1>4 DEF Compacted
  <2>2. ThroughSeq(items) \in Nat /\ OldItems(items) \in SUBSET Nat
    BY <2>1, ThroughIs DEF Seqs
  <2>3. /\ x \in Items /\ x.turn = turn /\ x.type = "context_compacted"
        /\ x.through = ThroughSeq(items) /\ x.excerpt = OldItems(items)
    BY <2>2 DEF IInv, TypeOK, Item, Items, Types
  <2> HIDE DEF x
  <2>4. Follows(x) /\ Cuts(x)
    BY <2>1, <2>3 DEF IInv, Running, Follows, Cuts
  <2> QED
    BY <2>1, <2>3, <2>4, ShownIs, Appends
<1>5. ASSUME NEW type \in {"agent_message", "turn.failed"}, EndTurn(type) PROVE IInv'
  <2> DEFINE x == Item(turn, type)
  <2>1. x \in Items /\ x.turn = turn /\ x.type = type /\ x.through = 0 /\ x.excerpt = {}
    BY ItemIs DEF Types, IInv, TypeOK
  <2>2. /\ items' = Append(items, x) /\ turn' = turn /\ pc = "chat" /\ pc' = "idle"
        /\ prompt' = prompt
    BY <1>5 DEF EndTurn
  <2> HIDE DEF x
  <2>3. prompt \subseteq Seqs(items')
    BY <2>1, <2>2, Longer DEF IInv, TypeOK
  <2>4. Follows(x) /\ Cuts(x)
    BY <2>1, <2>2 DEF IInv, Running, Follows, Cuts
  <2> QED
    BY <2>1, <2>2, <2>3, <2>4, Appends
<1>6. CASE UNCHANGED vars
  BY <1>6 DEF vars, IInv, TypeOK, Running, InOrder, RetriedLate, Ordered, Covered, Excerpts
<1> QED
  BY <1>1, <1>2, <1>3, <1>4, <1>5, <1>6 DEF Next

\* The latest checkpoint, and what lies at or before it.
LEMMA Hidden ==
    ASSUME IInv, pc = "chat", ~RetriedLate, NEW i \in Messages(items), i \notin prompt
    PROVE  Compacts(items) # {} /\ i \in Summarised /\ i \in OldItems(items)
<1>1. Compacts(items) # {} /\ i \in Seqs(items)
  BY DEF IInv, Shown, Messages
<1>2. Max(Compacts(items)) \in Compacts(items)
  <2>1. Len(items) \in Nat /\ Compacts(items) \in SUBSET (0..Len(items))
    BY DEF IInv, Compacts, Seqs
  <2> QED
    BY <1>1, <2>1, HasMax
<1> DEFINE k == Max(Compacts(items))
<1>3. k \in Seqs(items) /\ items[k].through \in Nat /\ i \in Nat /\ i >= 1
  BY <1>1, <1>2 DEF IInv, TypeOK, Compacts, Seqs
<1>4. ~(i > items[k].through)
  BY <1>1 DEF IInv, Shown
<1>5. i \in 1..items[k].through
  BY <1>3, <1>4
<1>6. i \in items[k].excerpt
  BY <1>2, <1>5 DEF IInv, Covered
<1>7. i \in OldItems(items)
  BY <1>2, <1>6 DEF IInv, Excerpts
<1> QED
  BY <1>1, <1>6, <1>7 DEF Summarised

LEMMA SafeSummary == IInv => NothingUnsummarised
BY Hidden DEF NothingUnsummarised

LEMMA SafeRecent == IInv => RecentTurnsRawInOrder
<1> SUFFICES ASSUME IInv, ~RetriedLate, pc = "chat", NEW i \in Messages(items),
                    items[i].turn = turn \/ items[i].turn \notin OldTurns(items), i \notin prompt
             PROVE  FALSE
  BY DEF RecentTurnsRawInOrder, RecentTurnsRaw
<1>1. i \in OldItems(items)
  BY Hidden
<1>2. items[i].turn = turn /\ i \in Seqs(items)
  BY <1>1 DEF OldItems
<1> DEFINE n == Len(items)
<1>3. n \in Seqs(items) /\ items[n].turn = turn /\ n \in Nat /\ items \in Seq(Items)
  BY DEF IInv, Running, Seqs
<1>4. After(items, turn) = {}
  <2> SUFFICES ASSUME NEW u \in TurnsOf(items), First(items, u) > First(items, turn) PROVE FALSE
    BY DEF After
  <2>1. PICK j \in Seqs(items) : items[j].turn = u
    BY DEF TurnsOf
  <2>2. First(items, u) \in Nat /\ First(items, turn) \in Nat
    <3>1. turn \in TurnsOf(items)
      BY <1>3 DEF TurnsOf
    <3> QED
      BY <1>3, <3>1, FirstIs DEF Seqs
  <2>3. j <= n /\ j \in Nat
    BY DEF Seqs
  <2>4. CASE j = n
    BY <1>3, <2>1, <2>2, <2>4
  <2>5. CASE j < n
    <3>1. First(items, u) <= First(items, turn)
      BY <1>3, <2>1, <2>5 DEF IInv, InOrder, Ordered
    <3> QED
      BY <2>2, <3>1
  <2> QED
    BY <1>3, <2>3, <2>4, <2>5
<1>5. Cardinality(After(items, turn)) >= Recent
  BY <1>1, <1>2, <1>3, OldIs
<1> QED
  BY <1>4, <1>5, FS_EmptySet, RecentAssumption
-----------------------------------------------------------------------------
\* The invariant of transcript, checkpoints and prompt holds throughout.
THEOREM Inductive == Spec => []IInv
BY InitIInv, StepIInv, PTL DEF Spec

\* The types of transcript and prompt are kept by every step.
THEOREM TypeCorrect == Spec => []TypeOK
<1>1. IInv => TypeOK
  BY DEF IInv
<1> QED
  BY <1>1, Inductive, PTL

\* What the model is not shown is in the latest summary (maybeCompact,
\* buildMessages), however often the thread was compacted.
THEOREM NothingLost == Spec => []NothingUnsummarised
BY SafeSummary, Inductive, PTL

\* The running turn and the last Recent turns are shown raw, unless a turn was
\* retried after a newer one (maybeCompact, buildMessages).
THEOREM RecentShown == Spec => []RecentTurnsRawInOrder
BY SafeRecent, Inductive, PTL
=============================================================================
