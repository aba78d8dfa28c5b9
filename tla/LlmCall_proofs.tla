--------------------------- MODULE LlmCall_proofs ---------------------------
(***************************************************************************)
(* Proofs about a call of the language model, for any number of calls,     *)
(* providers, configurations, answers, streams and reloads.                *)
(*                                                                         *)
(* Calls meet in the configuration and the cursor file only, so the        *)
(* invariant is one of each call (CallInv), and a step of a call has to    *)
(* keep it for the record that replaces the call's.                        *)
(***************************************************************************)
EXTENDS LlmCall, SequenceTheorems, FiniteSetTheorems, WellFoundedInduction, TLAPS

Fields == {"pc", "pinned", "snap", "cands", "tries", "attempts", "retries", "last", "api",
           "stream", "fallback", "asm", "fed", "streamed", "result", "cancelled", "delay",
           "start", "late", "requests", "slept", "overtaken", "answer", "own", "dirty"}

Shape(k) ==
    /\ DOMAIN k = Fields
    /\ k.attempts \in Nat /\ k.retries \in Nat /\ k.requests \in Nat
    /\ k.delay \in Int /\ k.slept \in Int /\ k.late \in Nat
    /\ k.snap \in Configs /\ k.overtaken \in BOOLEAN /\ k.cancelled \in BOOLEAN

\* A request is paid for by its attempt, and its fallback is paid for in advance.
Work(k) ==
    /\ k.pc = "start" => k.attempts = 0
    /\ k.attempts <= k.snap.budget
    /\ k.requests <= 2 * k.attempts
    /\ k.pc = "open" => k.requests + 2 <= 2 * k.attempts
    /\ k.pc = "sent" /\ k.fallback => k.requests + 1 <= 2 * k.attempts

\* The wait of a retry is paid for when the retry is counted.
Waits(k) ==
    /\ k.delay <= MaxDelay
    /\ k.slept <= MaxDelay * k.retries
    /\ k.pc \in {"backoff", "asleep"} => k.retries > 0 /\ k.slept <= MaxDelay * (k.retries - 1)

\* A request that began after the cancellation is the last one.
Late(k) ==
    /\ k.late <= 1
    /\ k.late = 1 => /\ k.cancelled
                     /\ k.pc \in {"sent", "backoff", "failed"} \/ (k.pc = "next" /\ k.cands = <<>>)

Fresh(k) == k.pc # "start" /\ ~k.overtaken => k.snap = cfg

Refused(k) ==
    k.last.why = "unusable" =>
        /\ k.pc = "failed"
        /\ k.overtaken \/ \E p \in DOMAIN k.snap.prov : k.snap.prov[p].enabled /\ ~k.snap.prov[p].key

Rotated(k) ==
    k.pc \in {"truncate", "write"} =>
        /\ k.start \in Nat /\ k.cands \in Seq(Providers) /\ k.cands # <<>>
        /\ Range(k.cands) = Enabled(k.snap) /\ IsInjective(k.cands)

CallInv(k) == /\ Shape(k) /\ Work(k) /\ Waits(k) /\ Late(k) /\ Fresh(k) /\ Refused(k)
              /\ Rotated(k)

IInv == /\ cfg \in Configs /\ cursor \in Nat \cup {Torn} /\ DOMAIN call = Calls
        /\ \A c \in Calls : CallInv(call[c])
LEMMA ConfigIs ==
    ASSUME NEW f \in Configs
    PROVE  f.budget \in Nat \ {0} /\ DOMAIN f.prov \subseteq Providers
BY CallAssumption
-----------------------------------------------------------------------------
(* The order of the providers *)

LEMMA Least ==
    ASSUME NEW S \in SUBSET Nat, S # {}
    PROVE  \E x \in S : \A y \in S : x <= y
<1> DEFINE Less == {ss \in Nat \X Nat : ss[1] < ss[2]}
<1>1. OpToRel(<, Nat) = Less
  BY DEF OpToRel
<1>2. PICK x \in S : \A y \in S : ~ (<<y, x>> \in Less)
  BY <1>1, NatLessThanWellFounded, WFMin
<1>3. \A y \in S : x <= y
  <2> TAKE y \in S
  <2>1. <<y, x>> \notin Less
    BY <1>2
  <2> QED
    BY <2>1
<1> QED
  BY <1>3

\* A set of providers can be listed in order: the places of Order are gone
\* through one by one.
LEMMA Listable ==
    ASSUME NEW E \in SUBSET Providers
    PROVE  \E n \in Nat : \E s \in [1..n -> E] :
              Range(s) = E /\ \A i, j \in 1..n : i < j => Sorts(s[i], s[j])
<1> DEFINE Upto(m) == E \cap {Order[i] : i \in 1..m}
           Lists(n, s, m) == /\ s \in [1..n -> E] /\ \A p : p \in Upto(m) <=> \E i \in 1..n : s[i] = p
                             /\ \A i, j \in 1..n : i < j => Sorts(s[i], s[j])
           Listed(m) == \E n \in Nat : \E s : Lists(n, s, m)
           Bad == {m \in 0..Len(Order) : ~Listed(m)}
<1>1. Order \in Seq(Providers) /\ Len(Order) \in Nat /\ DOMAIN Order = 1..Len(Order)
  BY CallAssumption, LenProperties
<1>2. Listed(0)
  <2>1. Lists(0, <<>>, 0)
    OBVIOUS
  <2> QED
    BY <2>1
<1>3. ASSUME NEW m \in 1..Len(Order), Listed(m - 1) PROVE Listed(m)
  <2>0. PICK n \in Nat : \E s : Lists(n, s, m - 1)
    BY <1>3
  <2>1. PICK s : Lists(n, s, m - 1)
    BY <2>0
  <2>2. Upto(m) = Upto(m - 1) \cup (E \cap {Order[m]})
    BY <1>1
  <2>3. CASE Order[m] \notin E
    <3>1. Lists(n, s, m)
      BY <2>1, <2>2, <2>3
    <3> QED
      BY <3>1
  <2>4. CASE Order[m] \in E
    <3> DEFINE t == [i \in 1..(n + 1) |-> IF i = n + 1 THEN Order[m] ELSE s[i]]
    <3>1. t \in [1..(n + 1) -> E] /\ t[n + 1] = Order[m] /\ \A i \in 1..n : t[i] = s[i]
      BY <2>1, <2>4
    <3> HIDE DEF t
    <3>2. \A i \in 1..n : Sorts(t[i], t[n + 1])
      <4> TAKE i \in 1..n
      <4>1. s[i] \in Upto(m - 1)
        BY <2>1
      <4>2. PICK j \in 1..(m - 1) : Order[j] = s[i]
        BY <4>1
      <4>3. j \in DOMAIN Order /\ m \in DOMAIN Order /\ j < m
        BY <1>1
      <4> QED
        BY <3>1, <4>2, <4>3 DEF Sorts
    <3>3. \A i, j \in 1..(n + 1) : i < j => Sorts(t[i], t[j])
      <4> TAKE i, j \in 1..(n + 1)
      <4> HAVE i < j
      <4>1. CASE j = n + 1
        BY <4>1, <3>2
      <4>2. CASE j # n + 1
        BY <4>2, <2>1, <3>1
      <4> QED
        BY <4>1, <4>2
    <3>4. \A p : p \in Upto(m) <=> \E i \in 1..(n + 1) : t[i] = p
      <4> TAKE p
      <4>1. p \in Upto(m) <=> p = Order[m] \/ \E i \in 1..n : s[i] = p
        BY <2>1, <2>2, <2>4
      <4> QED
        BY <4>1, <3>1
    <3>5. Lists(n + 1, t, m) /\ n + 1 \in Nat
      BY <3>1, <3>3, <3>4
    <3> QED
      BY <3>5
  <2> QED
    BY <2>3, <2>4
<1>4. Bad = {}
  <2> SUFFICES ASSUME Bad # {} PROVE FALSE
    OBVIOUS
  <2> HIDE DEF Listed
  <2>1. Bad \subseteq Nat
    BY <1>1
  <2>2. PICK m \in Bad : \A y \in Bad : m <= y
    BY <2>1, Least
  <2>3. m \in 0..Len(Order) /\ ~Listed(m)
    OBVIOUS
  <2>4. m \in 1..Len(Order) /\ m - 1 \in 0..Len(Order)
    BY <1>1, <1>2, <2>3
  <2>5. m - 1 \notin Bad
    BY <2>2, <2>4
  <2> QED
    BY <1>3, <2>3, <2>4, <2>5
<1>5. Listed(Len(Order))
  <2> HIDE DEF Listed
  <2>1. Len(Order) \in 0..Len(Order) /\ Len(Order) \notin Bad
    BY <1>1, <1>4
  <2> QED
    BY <2>1
<1>6. Upto(Len(Order)) = E
  BY <1>1 DEF Providers, Range
<1>a. PICK n \in Nat : \E s : Lists(n, s, Len(Order))
  BY <1>5
<1>7. PICK s : Lists(n, s, Len(Order))
  BY <1>a
<1>8. Range(s) = E
  BY <1>6, <1>7 DEF Range
<1> QED
  BY <1>7, <1>8

LEMMA InOrderIs ==
    ASSUME NEW E \in SUBSET Providers
    PROVE  InOrder(E) \in Seq(Providers) /\ Range(InOrder(E)) = E /\ IsInjective(InOrder(E))
<1> DEFINE Lists(s) == Range(s) = E /\ \A i, j \in DOMAIN s : i < j => Sorts(s[i], s[j])
<1>2. PICK n \in Nat : \E s \in [1..n -> E] :
                Range(s) = E /\ \A i, j \in 1..n : i < j => Sorts(s[i], s[j])
  BY Listable
<1>0. PICK s \in [1..n -> E] : Range(s) = E /\ \A i, j \in 1..n : i < j => Sorts(s[i], s[j])
  BY <1>2
<1>3. \A p : ~Sorts(p, p)
  BY CallAssumption, LenProperties DEF Sorts, IsInjective
<1>4. ASSUME NEW m \in Nat, NEW t \in [1..m -> E], Lists(t)
      PROVE  IsInjective(t) /\ t \in Seq(Providers)
  <2>1. IsInjective(t)
    BY <1>3, <1>4 DEF IsInjective
  <2> QED
    BY <2>1
<1>5. Cardinality(E) = n
  <2>1. IsInjective(s)
    BY <1>0, <1>4
  <2>2. s \in Bijection(1..n, E)
    BY <1>0, <2>1 DEF Bijection, Injection, Surjection, IsInjective, Range
  <2> QED
    BY <2>2, FS_CountingElements DEF ExistsBijection
<1>6. \E t \in [1..Cardinality(E) -> E] : Lists(t)
  BY <1>0, <1>5
<1>7. InOrder(E) \in [1..Cardinality(E) -> E] /\ Lists(InOrder(E))
  BY <1>6 DEF InOrder
<1> QED
  BY <1>4, <1>5, <1>7

LEMMA EnabledIs ==
    ASSUME NEW f \in Configs
    PROVE  /\ EnabledInOrder(f) \in Seq(Providers)
           /\ Range(EnabledInOrder(f)) = Enabled(f)
           /\ IsInjective(EnabledInOrder(f))
<1>1. Enabled(f) \in SUBSET Providers
  BY ConfigIs DEF Enabled
<1> QED
  BY <1>1, InOrderIs DEF EnabledInOrder

LEMMA ModIs == ASSUME NEW a \in Nat, NEW b \in Nat \ {0} PROVE a % b \in 0..(b - 1)
OBVIOUS

\* A rotation loses no element and doubles none.
LEMMA RotatedIs ==
    ASSUME NEW S, NEW s \in Seq(S), IsInjective(s), NEW start \in 0..(Len(s) - 1)
    PROVE  /\ RotatedBy(s, start) \in Seq(S) /\ RotatedBy(s, start) # <<>>
           /\ Range(RotatedBy(s, start)) = Range(s)
           /\ IsInjective(RotatedBy(s, start))
<1> DEFINE n == Len(s)
           a == SubSeq(s, start + 1, Len(s))
           b == SubSeq(s, 1, start)
           r == RotatedBy(s, start)
<1>1. n \in Nat /\ start \in Nat /\ start < n /\ DOMAIN s = 1..n
  BY LenProperties
<1>2. a \in Seq(S) /\ Len(a) = n - start /\ \A i \in 1..(n - start) : a[i] = s[start + i]
  BY <1>1
<1>3. b \in Seq(S) /\ Len(b) = start /\ \A i \in 1..start : b[i] = s[i]
  BY <1>1
<1>4. r = a \o b
  BY DEF RotatedBy
<1> HIDE DEF n, a, b, r
<1>5. /\ r \in Seq(S) /\ Len(r) = Len(a) + Len(b)
      /\ \A i \in 1..(Len(a) + Len(b)) : r[i] = IF i <= Len(a) THEN a[i] ELSE b[i - Len(a)]
  BY <1>2, <1>3, <1>4, ConcatProperties
<1>6. Len(r) = n /\ DOMAIN r = 1..n /\ r # <<>>
  BY <1>1, <1>2, <1>3, <1>5
<1>7. \A i \in 1..n : r[i] = IF i <= n - start THEN s[start + i] ELSE s[i - (n - start)]
  <2> TAKE i \in 1..n
  <2>1. CASE i <= n - start
    <3>1. i \in 1..(n - start) /\ i \in 1..(Len(a) + Len(b)) /\ i <= Len(a)
      BY <1>1, <1>2, <1>3, <2>1
    <3>2. r[i] = a[i]
      BY <1>5, <3>1
    <3>3. a[i] = s[start + i]
      BY <1>2, <3>1
    <3> QED
      BY <2>1, <3>2, <3>3
  <2>2. CASE ~ (i <= n - start)
    <3>1. i - (n - start) \in 1..start
      BY <1>1, <2>2
    <3> QED
      BY <1>1, <1>2, <1>3, <1>5, <2>2, <3>1
  <2> QED
    BY <2>1, <2>2
<1>8. \A i \in 1..n : \E j \in 1..n : s[i] = r[j]
  <2> TAKE i \in 1..n
  <2>1. CASE i > start
    <3>1. i - start \in 1..n /\ r[i - start] = s[i]
      BY <1>1, <1>7, <2>1
    <3> QED
      BY <3>1
  <2>2. CASE ~ (i > start)
    <3>1. i + (n - start) \in 1..n /\ r[i + (n - start)] = s[i]
      BY <1>1, <1>7, <2>2
    <3> QED
      BY <3>1
  <2> QED
    BY <2>1, <2>2
<1>9. \A j \in 1..n : \E i \in 1..n : /\ s[i] = r[j]
                                      /\ i = IF j <= n - start THEN start + j ELSE j - (n - start)
  <2> TAKE j \in 1..n
  <2>1. CASE j <= n - start
    <3>1. start + j \in 1..n /\ s[start + j] = r[j]
      BY <1>1, <1>7, <2>1
    <3> QED
      BY <2>1, <3>1
  <2>2. CASE ~ (j <= n - start)
    <3>1. j - (n - start) \in 1..n /\ s[j - (n - start)] = r[j]
      BY <1>1, <1>7, <2>2
    <3> QED
      BY <2>2, <3>1
  <2> QED
    BY <2>1, <2>2
<1>10. IsInjective(r)
  <2> SUFFICES ASSUME NEW i \in 1..n, NEW j \in 1..n, r[i] = r[j] PROVE i = j
    BY <1>6 DEF IsInjective
  <2>1. PICK x \in 1..n : s[x] = r[i] /\ x = IF i <= n - start THEN start + i ELSE i - (n - start)
    BY <1>9
  <2>2. PICK y \in 1..n : s[y] = r[j] /\ y = IF j <= n - start THEN start + j ELSE j - (n - start)
    BY <1>9
  <2>3. x = y
    BY <2>1, <2>2, <1>1 DEF IsInjective
  <2> QED
    BY <2>1, <2>2, <2>3, <1>1
<1>11. Range(r) = Range(s)
  <2>1. \A p : p \in Range(r) <=> \E j \in 1..n : p = r[j]
    BY <1>6 DEF Range
  <2>2. \A p : p \in Range(s) <=> \E i \in 1..n : p = s[i]
    BY <1>1 DEF Range
  <2>3. \A p : p \in Range(r) <=> p \in Range(s)
    BY <2>1, <2>2, <1>8, <1>9
  <2> QED
    BY <2>3
<1> QED
  BY <1>5, <1>6, <1>10, <1>11 DEF r
-----------------------------------------------------------------------------
(* Steps of a call *)

LEMMA NewCallIs == ASSUME NEW c \in Calls, NEW p, cfg \in Configs PROVE CallInv(NewCall(c, p, cfg))
<1> DEFINE k == NewCall(c, p, cfg)
<1>1. /\ DOMAIN k = Fields /\ k.pc = "start" /\ k.snap = cfg /\ k.attempts = 0 /\ k.retries = 0
      /\ k.requests = 0 /\ k.delay = 0 /\ k.slept = 0 /\ k.late = 0 /\ k.overtaken = FALSE
      /\ k.cancelled = FALSE /\ k.last = NoError
  BY DEF NewCall, Fields
<1> HIDE DEF k
<1>2. k.last.why = "none"
  BY <1>1 DEF NoError
<1>3. Shape(k) /\ Late(k) /\ Fresh(k) /\ Refused(k) /\ Rotated(k)
  <2>1. Shape(k)
    <3>1. k.snap \in Configs /\ k.overtaken \in BOOLEAN /\ k.cancelled \in BOOLEAN
      BY <1>1
    <3>2. /\ k.attempts \in Nat /\ k.retries \in Nat /\ k.requests \in Nat
          /\ k.delay \in Int /\ k.slept \in Int /\ k.late \in Nat
      BY <1>1
    <3> QED
      BY <1>1, <3>1, <3>2 DEF Shape
  <2>2. Late(k) /\ Fresh(k) /\ Rotated(k)
    BY <1>1 DEF Late, Fresh, Rotated
  <2>3. Refused(k)
    BY <1>2 DEF Refused
  <2> QED
    BY <2>1, <2>2, <2>3
<1>4. Work(k)
  BY <1>1, ConfigIs DEF Work
<1>5. Waits(k)
  BY <1>1, CallAssumption DEF Waits
<1> QED
  BY <1>1, <1>3, <1>4, <1>5 DEF CallInv, k

LEMMA InitIInv == Init => IInv
<1> SUFFICES ASSUME Init PROVE IInv
  OBVIOUS
<1>1. DOMAIN call = Calls /\ cfg \in Configs /\ cursor \in Nat \cup {Torn}
  BY DEF Init
<1>2. ASSUME NEW c \in Calls PROVE CallInv(call[c])
  <2>1. PICK d \in Calls : \E p \in Pins(d) : call[c] = NewCall(d, p, cfg)
    BY DEF Init
  <2> QED
    BY <1>1, <2>1, NewCallIs
<1> QED
  BY <1>1, <1>2 DEF IInv

\* A step that replaces the record of one call.
LEMMA BecomesKeeps ==
    ASSUME IInv, NEW c \in Calls, NEW r, Becomes(c, r), CallInv(r)
    PROVE  IInv'
<1>1. cfg' = cfg /\ cursor' = cursor /\ DOMAIN call' = Calls
      /\ \A d \in Calls : call'[d] = IF d = c THEN r ELSE call[d]
  BY DEF Becomes, IInv
<1>2. \A d \in Calls : CallInv(call'[d])
  BY <1>1 DEF IInv
<1>3. \A k : CallInv(k) => CallInv(k)'
  BY <1>1 DEF CallInv, Shape, Work, Waits, Late, Fresh, Refused, Rotated, Enabled
<1> QED
  BY <1>1, <1>2, <1>3 DEF IInv

\* The parts of the invariant read a few fields of a record.
LEMMA Quiet ==
    ASSUME NEW k, CallInv(k), NEW r, DOMAIN r = Fields,
           r.attempts = k.attempts, r.retries = k.retries, r.requests = k.requests,
           r.delay = k.delay, r.slept = k.slept, r.late = k.late, r.snap = k.snap,
           r.overtaken = k.overtaken, r.cancelled \in BOOLEAN, r.last = k.last,
           k.cancelled => r.cancelled,
           r.pc \notin {"open", "sent", "backoff", "truncate", "write"},
           r.pc = "start" => k.pc = "start",
           k.pc = "start" => r.pc = "start",
           r.pc = "asleep" => k.pc \in {"backoff", "asleep"},
           k.last.why = "unusable" => r.pc = "failed",
           k.late = 1 => r.pc = "failed" \/ (r.pc = "next" /\ r.cands = <<>>)
    PROVE  CallInv(r)
<1>1. Shape(r) /\ Work(r)
  BY DEF CallInv, Shape, Work
<1>2. Waits(r)
  BY DEF CallInv, Shape, Waits
<1>3. Late(r)
  BY DEF CallInv, Shape, Late
<1>4. Fresh(r)
  BY DEF CallInv, Fresh
<1>5. Refused(r)
  BY DEF CallInv, Refused
<1>6. Rotated(r)
  BY DEF Rotated
<1> QED
  BY <1>1, <1>2, <1>3, <1>4, <1>5, <1>6 DEF CallInv

LEMMA SkipDisabledStep == ASSUME IInv, NEW c \in Calls, SkipDisabled(c) PROVE IInv'
<1> DEFINE k == call[c]
           r == [k EXCEPT !.cands = Tail(@), !.tries = 0]
<1>1. CallInv(k) /\ DOMAIN k = Fields
  BY DEF IInv, CallInv, Shape
<1>2. k.pc = "next" /\ k.cands # <<>> /\ Becomes(c, r)
  BY DEF SkipDisabled, HasNext
<1> HIDE DEF k
<1>3. CallInv(r)
  <2>1. /\ DOMAIN r = Fields
        /\ \A x \in Fields \ {"cands", "tries"} : r[x] = k[x]
    BY <1>1
  <2>2. k.late # 1 /\ k.last.why # "unusable"
    BY <1>1, <1>2 DEF CallInv, Late, Refused
  <2> HIDE DEF r
  <2> QED
    BY <1>1, <1>2, <2>1, <2>2, Quiet DEF Fields, CallInv, Shape
<1> QED
  BY <1>2, <1>3, BecomesKeeps

LEMMA NextProviderStep == ASSUME IInv, NEW c \in Calls, NextProvider(c) PROVE IInv'
<1> DEFINE k == call[c]
           r == [k EXCEPT !.cands = Tail(@), !.tries = 0]
<1>1. CallInv(k) /\ DOMAIN k = Fields
  BY DEF IInv, CallInv, Shape
<1>2. k.pc = "next" /\ k.cands # <<>> /\ Becomes(c, r)
  BY DEF NextProvider, HasNext
<1> HIDE DEF k
<1>3. CallInv(r)
  <2>1. /\ DOMAIN r = Fields
        /\ \A x \in Fields \ {"cands", "tries"} : r[x] = k[x]
    BY <1>1
  <2>2. k.late # 1 /\ k.last.why # "unusable"
    BY <1>1, <1>2 DEF CallInv, Late, Refused
  <2> HIDE DEF r
  <2> QED
    BY <1>1, <1>2, <2>1, <2>2, Quiet DEF Fields, CallInv, Shape
<1> QED
  BY <1>2, <1>3, BecomesKeeps

\* Steps that change where the call is, and nothing that the invariant counts.
LEMMA MovesStep ==
    ASSUME IInv, NEW c \in Calls, NEW r, Becomes(c, r), DOMAIN r = Fields,
           call[c].pc \in {"backoff", "asleep", "reading", "recover"}
               \/ (call[c].pc = "sent" /\ call[c].late = 0),
           r.pc \in {"asleep", "failed", "reading", "done"},
           r.pc = "asleep" => call[c].pc = "backoff" /\ ~call[c].cancelled,
           call[c].pc = "backoff" => r.pc \in {"asleep", "failed"},
           \A x \in {"attempts", "retries", "requests", "delay", "slept", "late", "snap", "overtaken",
                     "cancelled", "last"} : r[x] = call[c][x]
    PROVE  IInv'
<1> DEFINE k == call[c]
<1>1. CallInv(k) /\ DOMAIN k = Fields
  BY DEF IInv, CallInv, Shape
<1>2. k.last.why # "unusable"
  BY <1>1 DEF CallInv, Refused
<1>3. k.late = 1 => r.pc = "failed"
  BY <1>1 DEF CallInv, Late
<1>4. CallInv(r)
  BY <1>1, <1>2, <1>3, Quiet DEF CallInv, Shape
<1> QED
  BY <1>4, BecomesKeeps

LEMMA WaitStep ==
    ASSUME IInv, NEW c \in Calls, StreamStarts(c) \/ Backoff(c) \/ WaitCancelled(c) \/ Recover(c)
    PROVE  IInv'
<1> DEFINE k == call[c]
<1>1. DOMAIN k = Fields
  BY DEF IInv, CallInv, Shape
<1>2. CASE StreamStarts(c)
  <2> DEFINE r == [k EXCEPT !.pc = "reading"]
  <2>1. DOMAIN r = Fields /\ r.pc = "reading" /\ \A x \in Fields \ {"pc"} : r[x] = k[x]
    BY <1>1 DEF Fields
  <2>2. k.pc = "sent" /\ k.late = 0 /\ Becomes(c, r)
    BY <1>2 DEF StreamStarts
  <2> HIDE DEF r
  <2> QED
    BY <2>1, <2>2, MovesStep DEF Fields
<1>3. CASE Backoff(c)
  <2> DEFINE r == [k EXCEPT !.pc = IF k.cancelled THEN "failed" ELSE "asleep"]
  <2>1. /\ DOMAIN r = Fields /\ \A x \in Fields \ {"pc"} : r[x] = k[x]
        /\ r.pc = IF k.cancelled THEN "failed" ELSE "asleep"
    BY <1>1 DEF Fields
  <2>2. k.pc = "backoff" /\ Becomes(c, r)
    BY <1>3 DEF Backoff
  <2> HIDE DEF r
  <2> QED
    BY <2>1, <2>2, MovesStep DEF Fields
<1>4. CASE WaitCancelled(c)
  <2> DEFINE r == [k EXCEPT !.pc = "failed"]
  <2>1. DOMAIN r = Fields /\ r.pc = "failed" /\ \A x \in Fields \ {"pc"} : r[x] = k[x]
    BY <1>1 DEF Fields
  <2>2. k.pc = "asleep" /\ Becomes(c, r)
    BY <1>4 DEF WaitCancelled
  <2> HIDE DEF r
  <2> QED
    BY <2>1, <2>2, MovesStep DEF Fields
<1>5. CASE Recover(c)
  <2> DEFINE r == [k EXCEPT !.pc = "done", !.result = RecoverXMLToolCalls(k.result, k.streamed)]
  <2>1. DOMAIN r = Fields /\ r.pc = "done" /\ \A x \in Fields \ {"pc", "result"} : r[x] = k[x]
    BY <1>1 DEF Fields
  <2>2. k.pc = "recover" /\ Becomes(c, r)
    BY <1>5 DEF Recover
  <2> HIDE DEF r
  <2> QED
    BY <2>1, <2>2, MovesStep DEF Fields
<1> QED
  BY <1>2, <1>3, <1>4, <1>5

LEMMA StreamEventStep ==
    ASSUME IInv, NEW c \in Calls, NEW e, StreamEvent(c, e) PROVE IInv'
<1> DEFINE k == call[c]
           r == [k EXCEPT !.asm = Feed(@, e), !.fed = @ + 1,
                          !.own = @ \o Emitted(e), !.streamed = @ \o Emitted(e)]
<1>1. CallInv(k) /\ DOMAIN k = Fields
  BY DEF IInv, CallInv, Shape
<1>2. DOMAIN r = Fields /\ \A x \in Fields \ {"asm", "fed", "own", "streamed"} : r[x] = k[x]
  BY <1>1 DEF Fields
<1>3. k.pc = "reading" /\ Becomes(c, r)
  BY DEF StreamEvent
<1> HIDE DEF r
<1> QED
  BY <1>1, <1>2, <1>3, MovesStep DEF Fields

LEMMA SnapshotStep == ASSUME IInv, NEW c \in Calls, Snapshot(c) PROVE IInv'
<1> DEFINE k == call[c]
           turns == Rotates(cfg, k.pinned)
           cands == CandidatesFor(cfg, k.pinned, cursor)
           start == IF turns THEN StartOf(cfg, cursor) ELSE 0
           r == [k EXCEPT !.snap = cfg, !.overtaken = FALSE, !.cands = cands, !.start = start,
                          !.pc = IF turns THEN "truncate" ELSE "next"]
<1>1. CallInv(k) /\ DOMAIN k = Fields /\ cfg \in Configs /\ cursor \in Nat \cup {Torn}
  BY DEF IInv, CallInv, Shape
<1>2. k.pc = "start" /\ Becomes(c, r)
  BY DEF Snapshot
<1>3. /\ DOMAIN r = Fields
      /\ \A x \in Fields \ {"snap", "overtaken", "cands", "start", "pc"} : r[x] = k[x]
      /\ r.snap = cfg /\ r.overtaken = FALSE /\ r.cands = cands /\ r.start = start
      /\ r.pc = IF turns THEN "truncate" ELSE "next"
  BY <1>1 DEF Fields
<1>4. turns => /\ start \in Nat /\ cands \in Seq(Providers) /\ cands # <<>>
               /\ Range(cands) = Enabled(cfg) /\ IsInjective(cands)
  <2> SUFFICES ASSUME turns
               PROVE  /\ start \in Nat /\ cands \in Seq(Providers) /\ cands # <<>>
                      /\ Range(cands) = Enabled(cfg) /\ IsInjective(cands)
    OBVIOUS
  <2> DEFINE on == EnabledInOrder(cfg)
  <2>1. on \in Seq(Providers) /\ Range(on) = Enabled(cfg) /\ IsInjective(on)
    BY <1>1, EnabledIs
  <2>2. Len(on) \in Nat \ {0}
    <3>1. Range(on) # {}
      BY <2>1 DEF Rotates
    <3> QED
      BY <2>1, <3>1, LenProperties DEF Range
  <2>3. StartOf(cfg, cursor) \in 0..(Len(on) - 1)
    <3> DEFINE at == IF cursor = Torn THEN 0 ELSE cursor
    <3>1. at \in Nat
      BY <1>1
    <3>2. StartOf(cfg, cursor) = at % Len(on)
      BY DEF StartOf
    <3> HIDE DEF at, on
    <3> QED
      BY <2>2, <3>1, <3>2, ModIs
  <2>4. cands = RotatedBy(on, StartOf(cfg, cursor))
    BY DEF CandidatesFor, Rotates
  <2>5. start \in Nat
    BY <2>3
  <2> HIDE DEF on, cands
  <2> QED
    BY <2>1, <2>3, <2>4, <2>5, RotatedIs
<1> HIDE DEF k, r, turns, cands, start
<1>5. CallInv(r)
  <2>1. k.late # 1 /\ k.last.why # "unusable"
    BY <1>1, <1>2 DEF CallInv, Late, Refused
  <2>2. Shape(r)
    <3>1. r.snap \in Configs /\ r.overtaken \in BOOLEAN
      BY <1>1, <1>3
    <3> QED
      BY <1>1, <1>3, <3>1 DEF CallInv, Shape, Fields
  <2>3. Work(r)
    <3>1. r.attempts = 0 /\ r.requests <= 0 /\ r.pc \in {"truncate", "next"} /\ 0 <= r.snap.budget
      BY <1>1, <1>2, <1>3, ConfigIs DEF CallInv, Work, Fields
    <3> QED
      BY <3>1 DEF Work
  <2>4. Waits(r) /\ Late(r)
    BY <1>1, <1>2, <1>3, <2>1 DEF CallInv, Waits, Late, Fields, Shape
  <2>5. Fresh(r) /\ Refused(r)
    BY <1>3, <2>1 DEF Fresh, Refused, Fields
  <2>6. Rotated(r)
    BY <1>3, <1>4 DEF Rotated
  <2> QED
    BY <2>2, <2>3, <2>4, <2>5, <2>6 DEF CallInv
<1> QED
  BY <1>2, <1>5, BecomesKeeps

LEMMA CursorStep == ASSUME IInv, NEW c \in Calls, CursorTruncate(c) \/ CursorWrite(c) PROVE IInv'
<1> DEFINE k == call[c]
           next == IF k.pc = "truncate" THEN "write" ELSE "next"
           r == [k EXCEPT !.pc = next]
<1>1. CallInv(k) /\ DOMAIN k = Fields
  BY DEF IInv, CallInv, Shape
<1>2. k.pc \in {"truncate", "write"} /\ call' = [call EXCEPT ![c] = r] /\ cfg' = cfg
  BY DEF CursorTruncate, CursorWrite
<1>3. DOMAIN r = Fields /\ r.pc = next /\ \A x \in Fields \ {"pc"} : r[x] = k[x]
  BY <1>1 DEF Fields
<1>4. cursor' \in Nat \cup {Torn}
  <2>1. CASE CursorTruncate(c)
    BY <2>1 DEF CursorTruncate
  <2>2. CASE CursorWrite(c)
    <3>1. k.start + 1 \in Nat /\ Len(k.cands) \in Nat \ {0}
      BY <1>1, <1>2, LenProperties DEF CallInv, Rotated
    <3>2. cursor' = (k.start + 1) % Len(k.cands)
      BY <2>2 DEF CursorWrite
    <3> HIDE DEF k
    <3>3. (k.start + 1) % Len(k.cands) \in 0..(Len(k.cands) - 1)
      BY <3>1, ModIs
    <3> QED
      BY <3>1, <3>2, <3>3
  <2> QED
    BY <2>1, <2>2
<1> HIDE DEF r, next
<1>5. CallInv(r)
  <2>1. k.late # 1 /\ k.last.why # "unusable"
    BY <1>1, <1>2 DEF CallInv, Late, Refused
  <2>2. r.pc \in {"write", "next"} /\ (r.pc = "write" => k.pc = "truncate")
    BY <1>3 DEF next
  <2>3. Shape(r)
    BY <1>1, <1>3 DEF CallInv, Shape, Fields
  <2>4. Work(r) /\ Waits(r)
    BY <1>1, <1>2, <1>3, <2>2 DEF CallInv, Work, Waits, Fields
  <2>5. Late(r) /\ Fresh(r) /\ Refused(r)
    BY <1>1, <1>2, <1>3, <2>1 DEF CallInv, Late, Fresh, Refused, Fields
  <2>6. Rotated(r)
    BY <1>1, <1>2, <1>3 DEF CallInv, Rotated, Fields
  <2> QED
    BY <2>3, <2>4, <2>5, <2>6 DEF CallInv
<1>6. DOMAIN call' = Calls /\ \A d \in Calls : call'[d] = IF d = c THEN r ELSE call[d]
  BY <1>2 DEF IInv
<1>7. \A x : CallInv(x) => CallInv(x)'
  BY <1>2 DEF CallInv, Shape, Work, Waits, Late, Fresh, Refused, Rotated, Enabled
<1> QED
  BY <1>2, <1>4, <1>5, <1>6, <1>7 DEF IInv

LEMMA AttemptStep == ASSUME IInv, NEW c \in Calls, Attempt(c) PROVE IInv'
<1> DEFINE k == call[c]
           p == Head(k.cands)
           refused == p \notin DOMAIN cfg.prov \/ ~cfg.prov[p].key
           r == IF refused
                THEN [k EXCEPT !.attempts = @ + 1, !.tries = @ + 1, !.pc = "failed",
                               !.last = Error("unusable", FALSE, 0)]
                ELSE [k EXCEPT !.attempts = @ + 1, !.tries = @ + 1, !.pc = "open",
                               !.api = cfg.prov[p].api]
<1>1. CallInv(k) /\ DOMAIN k = Fields
  BY DEF IInv, CallInv, Shape
<1>2. /\ k.pc = "next" /\ k.cands # <<>> /\ k.attempts < k.snap.budget /\ Becomes(c, r)
      /\ p \in DOMAIN k.snap.prov /\ k.snap.prov[p].enabled
  BY DEF Attempt, HasNext, Enabled
<1>3. /\ DOMAIN r = Fields /\ r.attempts = k.attempts + 1
      /\ \A x \in Fields \ {"attempts", "tries", "pc", "last", "api"} : r[x] = k[x]
      /\ refused => r.pc = "failed" /\ r.last = Error("unusable", FALSE, 0)
      /\ ~refused => r.pc = "open" /\ r.last = k.last
  BY <1>1 DEF Fields
<1> HIDE DEF r
<1>4. k.late # 1 /\ k.last.why # "unusable"
  BY <1>1, <1>2 DEF CallInv, Late, Refused
<1>5. r.snap = k.snap /\ r.overtaken = k.overtaken /\ r.pc \in {"failed", "open"}
  BY <1>3 DEF Fields
<1>6. Shape(r)
  BY <1>1, <1>3 DEF CallInv, Shape, Fields
<1>7. Work(r)
  <2>1. k.snap.budget \in Nat
    BY <1>1, ConfigIs DEF CallInv, Shape
  <2>2. /\ k.attempts \in Nat /\ k.requests \in Nat /\ k.requests <= 2 * k.attempts
        /\ r.requests = k.requests /\ r.attempts = k.attempts + 1
    BY <1>1, <1>3 DEF CallInv, Shape, Work, Fields
  <2>3. r.attempts <= r.snap.budget
    BY <1>2, <1>5, <2>1, <2>2
  <2>4. r.requests + 2 <= 2 * r.attempts
    BY <2>2
  <2> HIDE DEF k
  <2> QED
    BY <1>5, <2>2, <2>3, <2>4 DEF Work
<1>8. Waits(r)
  BY <1>1, <1>3, <1>5 DEF CallInv, Shape, Waits, Fields
<1>9. Late(r) /\ Rotated(r)
  BY <1>1, <1>3, <1>4, <1>5 DEF CallInv, Late, Rotated, Fields
<1>10. Fresh(r)
  BY <1>1, <1>2, <1>5 DEF CallInv, Fresh
<1>11. Refused(r)
  <2>1. CASE refused
    BY <1>1, <1>2, <1>3, <1>5, <2>1 DEF CallInv, Fresh, Refused
  <2>2. CASE ~refused
    BY <1>3, <1>4, <2>2 DEF Refused
  <2> QED
    BY <2>1, <2>2
<1>12. CallInv(r)
  BY <1>6, <1>7, <1>8, <1>9, <1>10, <1>11 DEF CallInv
<1> QED
  BY <1>2, <1>12, BecomesKeeps

LEMMA ExhaustedStep == ASSUME IInv, NEW c \in Calls, Exhausted(c) PROVE IInv'
<1> DEFINE k == call[c]
           last == IF k.last.why = "none" THEN Error("exhausted", TRUE, 0) ELSE k.last
           r == [k EXCEPT !.pc = "failed", !.last = last]
<1>1. CallInv(k) /\ DOMAIN k = Fields
  BY DEF IInv, CallInv, Shape
<1>2. k.pc = "next" /\ Becomes(c, r)
  BY DEF Exhausted
<1>3. /\ DOMAIN r = Fields /\ r.pc = "failed" /\ r.last = last
      /\ \A x \in Fields \ {"pc", "last"} : r[x] = k[x]
  BY <1>1 DEF Fields
<1>4. r.last.why # "unusable"
  BY <1>1, <1>2, <1>3 DEF CallInv, Refused, Error
<1> HIDE DEF r, last
<1>5. Shape(r)
  BY <1>1, <1>3 DEF CallInv, Shape, Fields
<1>6. Work(r) /\ Waits(r)
  BY <1>1, <1>2, <1>3 DEF CallInv, Work, Waits, Fields
<1>7. Late(r) /\ Fresh(r) /\ Refused(r) /\ Rotated(r)
  <2>1. Late(r)
    BY <1>1, <1>2, <1>3 DEF CallInv, Late, Fields
  <2>2. Fresh(r)
    BY <1>1, <1>2, <1>3 DEF CallInv, Fresh, Fields
  <2> QED
    BY <2>1, <2>2, <1>3, <1>4 DEF Refused, Rotated
<1>8. CallInv(r)
  BY <1>5, <1>6, <1>7 DEF CallInv
<1> QED
  BY <1>2, <1>8, BecomesKeeps

\* The counters of a record that goes on to another request, or to the end of one.
LEMMA RequestingIs ==
    ASSUME NEW k, CallInv(k), NEW q, DOMAIN q = Fields,
           k.late = 0,
           \A x \in {"attempts", "retries", "requests", "delay", "slept", "late", "snap", "overtaken",
                     "cancelled", "last"} : q[x] = k[x],
           k.requests + 1 <= 2 * k.attempts,
           q.fallback => k.requests + 2 <= 2 * k.attempts,
           k.pc \in {"open", "sent"}
    PROVE  CallInv(Requesting(q))
<1> DEFINE r == Requesting(q)
<1>0. q.requests = k.requests /\ q.late = 0 /\ q.cancelled = k.cancelled
  OBVIOUS
<1>1. /\ DOMAIN r = Fields /\ r.pc = "sent" /\ r.requests = k.requests + 1
      /\ r.late = IF k.cancelled THEN 1 ELSE 0
      /\ \A x \in Fields \ {"pc", "requests", "late"} : r[x] = q[x]
  <2>1. r = [q EXCEPT !.pc = "sent", !.requests = q.requests + 1,
                      !.late = IF q.cancelled THEN q.late + 1 ELSE q.late]
    BY DEF Requesting
  <2> HIDE DEF r
  <2>2. DOMAIN r = DOMAIN q
    BY <2>1
  <2>3. r.pc = "sent" /\ r.requests = q.requests + 1
        /\ r.late = (IF q.cancelled THEN q.late + 1 ELSE q.late)
    BY <2>1 DEF Fields
  <2>4. \A x \in Fields \ {"pc", "requests", "late"} : r[x] = q[x]
    BY <2>1
  <2> QED
    BY <1>0, <2>2, <2>3, <2>4
<1>2. /\ r.attempts = k.attempts /\ r.retries = k.retries /\ r.delay = k.delay /\ r.slept = k.slept
      /\ r.snap = k.snap /\ r.overtaken = k.overtaken /\ r.cancelled = k.cancelled
      /\ r.last = k.last /\ r.fallback = q.fallback
  BY <1>1 DEF Fields
<1> HIDE DEF r
<1>3. Shape(r)
  BY <1>1, <1>2 DEF CallInv, Shape
<1>4. Work(r)
  BY <1>1, <1>2 DEF CallInv, Shape, Work
<1>5. Waits(r)
  BY <1>1, <1>2 DEF CallInv, Waits
<1>6. Late(r) /\ Rotated(r)
  BY <1>1, <1>2 DEF Late, Rotated
<1>7. Fresh(r) /\ Refused(r)
  BY <1>1, <1>2 DEF CallInv, Fresh, Refused
<1> QED
  BY <1>3, <1>4, <1>5, <1>6, <1>7 DEF CallInv, r

LEMMA SendStep == ASSUME IInv, NEW c \in Calls, Send(c) PROVE IInv'
<1> DEFINE k == call[c]
           q == [k EXCEPT !.stream = cfg.stream /\ k.api # "messages", !.fallback = k.api # "messages"]
<1>1. CallInv(k) /\ DOMAIN k = Fields
  BY DEF IInv, CallInv, Shape
<1>2. k.pc = "open" /\ Becomes(c, Requesting(q))
  BY DEF Send
<1>3. DOMAIN q = Fields /\ \A x \in Fields \ {"stream", "fallback"} : q[x] = k[x]
  BY <1>1 DEF Fields
<1>4. k.late = 0
  BY <1>1, <1>2 DEF CallInv, Late, Shape
<1>5. k.requests + 1 <= 2 * k.attempts /\ k.requests + 2 <= 2 * k.attempts
  BY <1>1, <1>2 DEF CallInv, Work, Shape
<1> HIDE DEF k, q
<1>6. CallInv(Requesting(q))
  BY <1>1, <1>2, <1>3, <1>4, <1>5, RequestingIs DEF Fields
<1> QED
  BY <1>2, <1>6, BecomesKeeps

LEMMA DelayIs ==
    ASSUME NEW n \in Nat \ {0}, NEW after \in Nat
    PROVE  Delay(n, after) \in Int /\ Delay(n, after) <= MaxDelay
<1> DEFINE e == IF n > 21 THEN 20 ELSE n - 1
           asked == IF after > 0 THEN after ELSE BaseDelay * 2^e
<1>1. e \in Nat
  OBVIOUS
<1>2. 2^e \in Int
  BY <1>1
<1>3. BaseDelay * 2^e \in Int
  <2> DEFINE z == 2^e
  <2>1. z \in Int
    BY <1>2
  <2> HIDE DEF z
  <2>2. BaseDelay * z \in Int
    BY <2>1, CallAssumption
  <2> QED
    BY <2>2 DEF z
<1>4. asked \in Int
  BY <1>3
<1>5. Delay(n, after) = IF asked > MaxDelay THEN MaxDelay ELSE asked
  BY DEF Delay
<1> HIDE DEF asked
<1> QED
  BY <1>4, <1>5, CallAssumption

Reported == {"connect", "status", "body", "stream"}

\* An attempt that failed: the call ends, ends its attempts, or waits.
LEMMA FailingIs ==
    ASSUME NEW k, CallInv(k), k.pc \in {"sent", "reading"}, NEW err, err.why \in Reported,
           err.transient \in BOOLEAN, err.after \in Nat, k.late = 1 => err.transient
    PROVE  CallInv(Failing(k, err))
<1> DEFINE moreHere == k.tries < Slot(k).max /\ k.attempts < k.snap.budget
           moreProviders == Len(k.cands) > 1 /\ k.attempts < k.snap.budget
           dirty == k.dirty \/ ExtractXMLToolCalls(k.own) # <<>>
           seen == [k EXCEPT !.last = err, !.asm = NewAssembler, !.fed = 0, !.own = <<>>,
                             !.dirty = dirty]
           r == Failing(k, err)
<1>1. DOMAIN k = Fields
  BY DEF CallInv, Shape
<1>2. /\ DOMAIN seen = Fields /\ seen.last = err
      /\ \A x \in Fields \ {"last", "asm", "fed", "own", "dirty"} : seen[x] = k[x]
  BY <1>1 DEF Fields
<1>3. r = IF ~err.transient THEN [seen EXCEPT !.pc = "failed"]
          ELSE IF ~moreHere /\ ~moreProviders THEN [seen EXCEPT !.pc = "next", !.cands = <<>>]
          ELSE [seen EXCEPT !.pc = "backoff", !.retries = @ + 1, !.delay = Delay(k.retries + 1, err.after)]
  BY DEF Failing
<1> HIDE DEF r, seen, moreHere, moreProviders
<1>4. /\ DOMAIN r = Fields /\ r.last = err
      /\ \/ r.pc = "failed" /\ ~err.transient /\ r.retries = k.retries /\ r.delay = k.delay
         \/ r.pc = "next" /\ r.cands = <<>> /\ r.retries = k.retries /\ r.delay = k.delay
         \/ r.pc = "backoff" /\ r.retries = k.retries + 1 /\ r.delay = Delay(k.retries + 1, err.after)
      /\ r.attempts = k.attempts /\ r.requests = k.requests /\ r.slept = k.slept /\ r.late = k.late
      /\ r.snap = k.snap /\ r.overtaken = k.overtaken /\ r.cancelled = k.cancelled
  BY <1>2, <1>3 DEF Fields
<1>5. /\ k.retries \in Nat /\ k.slept \in Int /\ k.delay \in Int
      /\ k.slept <= MaxDelay * k.retries /\ k.delay <= MaxDelay
      /\ Delay(k.retries + 1, err.after) \in Int /\ Delay(k.retries + 1, err.after) <= MaxDelay
  BY DelayIs DEF CallInv, Shape, Waits
<1>6. Shape(r)
  BY <1>4, <1>5 DEF CallInv, Shape
<1>7. Work(r)
  BY <1>4 DEF CallInv, Work
<1>8. Waits(r)
  <2>1. CASE r.pc = "backoff"
    <3>1. r.retries - 1 = k.retries /\ MaxDelay * (r.retries - 1) = MaxDelay * k.retries /\ r.retries > 0
      BY <1>4, <1>5, <2>1
    <3>2. \A m, n \in Nat : m * (n + 1) = m * n + m /\ m * n \in Nat
      OBVIOUS
    <3>3. k.slept <= MaxDelay * r.retries
      <4>1. MaxDelay \in Nat /\ k.retries \in Nat /\ r.retries = k.retries + 1
        BY <1>4, <1>5, <2>1, CallAssumption
      <4>2. MaxDelay * r.retries = MaxDelay * k.retries + MaxDelay /\ MaxDelay * k.retries \in Nat
        BY <3>2, <4>1
      <4> HIDE DEF r
      <4> QED
        BY <1>5, <4>1, <4>2
    <3> QED
      BY <1>4, <1>5, <2>1, <3>1, <3>3 DEF Waits
  <2>2. CASE r.pc # "backoff"
    BY <1>4, <1>5, <2>2 DEF Waits
  <2> QED
    BY <2>1, <2>2
<1>9. Late(r) /\ Rotated(r)
  BY <1>4 DEF CallInv, Late, Rotated
<1>10. Fresh(r) /\ Refused(r)
  BY <1>4 DEF CallInv, Fresh, Refused, Reported
<1> QED
  BY <1>6, <1>7, <1>8, <1>9, <1>10 DEF CallInv, r

LEMMA AnsweringIs ==
    ASSUME NEW k, CallInv(k), k.pc \in {"sent", "reading"}, NEW payload, k.late = 0
    PROVE  CallInv(Answering(k, payload))
<1> DEFINE r == Answering(k, payload)
<1>1. DOMAIN k = Fields /\ k.late # 1 /\ k.last.why # "unusable"
  BY DEF CallInv, Shape, Refused
<1>2. /\ DOMAIN r = Fields /\ r.pc = "recover"
      /\ \A x \in Fields \ {"pc", "result", "answer", "asm", "fed"} : r[x] = k[x]
  BY <1>1 DEF Answering, Fields
<1>3. CallInv(r)
  <2> HIDE DEF r
  <2> QED
    BY <1>1, <1>2, Quiet DEF Fields, CallInv, Shape
<1> QED
  BY <1>3

\* The errors that are made up on the spot.
LEMMA FailingAs ==
    ASSUME NEW k, CallInv(k), k.pc \in {"sent", "reading"}, NEW why \in Reported,
           NEW transient \in BOOLEAN, NEW after \in Nat, transient \/ k.late = 0
    PROVE  CallInv(Failing(k, Error(why, transient, after)))
<1> DEFINE err == Error(why, transient, after)
<1>1. err.why = why /\ err.transient = transient /\ err.after = after
  BY DEF Error
<1> HIDE DEF err
<1>2. CallInv(Failing(k, err))
  BY <1>1, FailingIs
<1> QED
  BY <1>2 DEF err

LEMMA ReceiveStep == ASSUME IInv, NEW c \in Calls, NEW a \in Replies(c), Receive(c, a) PROVE IInv'
<1> DEFINE k == call[c]
           r == CASE a.kind = "connect" -> Failing(k, Error("connect", TRUE, 0))
                  [] a.kind = "status"  -> IF FallsBack(k, a) THEN Again(k)
                                           ELSE Failing(k, Error("status", a.transient, a.after))
                  [] a.kind = "body"    -> IF FallsBack(k, a) THEN Again(k)
                                           ELSE Failing(k, Error("body", FALSE, 0))
                  [] a.kind = "json"    -> IF FallsBack(k, a) THEN Again(k)
                                           ELSE Answering(k, a.payload)
<1>1. CallInv(k) /\ DOMAIN k = Fields
  BY DEF IInv, CallInv, Shape
<1>2. k.pc = "sent" /\ (k.late > 0 => a.kind = "connect") /\ Becomes(c, r)
  BY DEF Receive
<1>3. /\ a.kind \in {"connect", "status", "body", "json"}
      /\ a.kind = "status" => a.transient \in BOOLEAN /\ a.after \in Nat
  BY CallAssumption
<1>4. k.late \in {0, 1}
  BY <1>1 DEF CallInv, Shape, Late
<1> HIDE DEF k
<1>6. k.late = 0 /\ FallsBack(k, a) => CallInv(Again(k))
  <2> SUFFICES ASSUME k.late = 0, FallsBack(k, a) PROVE CallInv(Again(k))
    OBVIOUS
  <2> DEFINE q == [k EXCEPT !.stream = FALSE, !.fallback = FALSE]
  <2>1. DOMAIN q = Fields /\ q.fallback = FALSE /\ \A x \in Fields \ {"stream", "fallback"} : q[x] = k[x]
    BY <1>1 DEF Fields
  <2>2. k.requests + 1 <= 2 * k.attempts
    BY <1>1, <1>2 DEF CallInv, Work, FallsBack
  <2> HIDE DEF q
  <2>3. CallInv(Requesting(q))
    BY <1>1, <1>2, <2>1, <2>2, RequestingIs DEF Fields
  <2> QED
    BY <2>3 DEF Again, q
<1>7. CallInv(r)
  <2>1. CASE a.kind = "connect"
    <3>1. CallInv(Failing(k, Error("connect", TRUE, 0)))
      BY <1>1, <1>2, FailingAs DEF Reported
    <3> QED
      BY <2>1, <3>1
  <2>2. CASE a.kind = "status"
    <3>1. k.late = 0
      BY <1>2, <1>4, <2>2
    <3>2. CallInv(Failing(k, Error("status", a.transient, a.after)))
      BY <1>1, <1>2, <1>3, <2>2, <3>1, FailingAs DEF Reported
    <3> QED
      BY <1>6, <2>2, <3>1, <3>2
  <2>3. CASE a.kind = "body"
    <3>1. k.late = 0
      BY <1>2, <1>4, <2>3
    <3>2. CallInv(Failing(k, Error("body", FALSE, 0)))
      <4>1. \A t \in BOOLEAN : CallInv(Failing(k, Error("body", t, 0)))
        BY <1>1, <1>2, <3>1, FailingAs DEF Reported
      <4> QED
        BY <4>1
    <3> QED
      BY <1>6, <2>3, <3>1, <3>2
  <2>4. CASE a.kind = "json"
    <3>1. k.late = 0
      BY <1>2, <1>4, <2>4
    <3>2. CallInv(Answering(k, a.payload))
      BY <1>1, <1>2, <3>1, AnsweringIs
    <3> QED
      BY <1>6, <2>4, <3>1, <3>2
  <2> QED
    BY <1>3, <2>1, <2>2, <2>3, <2>4
<1> HIDE DEF r
<1> QED
  BY <1>2, <1>7, BecomesKeeps

LEMMA StreamStep == ASSUME IInv, NEW c \in Calls, StreamEnds(c) \/ StreamLost(c) PROVE IInv'
<1> DEFINE k == call[c]
           v == Verdict(k.asm)
<1>1. CallInv(k) /\ k.pc = "reading"
  BY DEF IInv, StreamEnds, StreamLost
<1>2. k.late = 0
  BY <1>1 DEF CallInv, Shape, Late
<1>4. CallInv(Failing(k, Error("stream", TRUE, 0))) /\ CallInv(Failing(k, Error("body", FALSE, 0)))
  <2>1. \A t \in BOOLEAN : CallInv(Failing(k, Error("stream", t, 0)))
    BY <1>1, <1>2, FailingAs DEF Reported
  <2>2. \A t \in BOOLEAN : CallInv(Failing(k, Error("body", t, 0)))
    BY <1>1, <1>2, FailingAs DEF Reported
  <2> QED
    BY <2>1, <2>2
<1>5. v \in {"bad", "transport", "payload"}
  BY DEF Verdict
<1>6. v = "payload" => CallInv(Answering(k, Payload(k.asm)))
  BY <1>1, <1>2, AnsweringIs
<1>7. CASE StreamEnds(c)
  <2> DEFINE r == CASE v = "payload"   -> Answering(k, Payload(k.asm))
                    [] v = "transport" -> Failing(k, Error("stream", TRUE, 0))
                    [] v = "bad"       -> Failing(k, Error("body", FALSE, 0))
  <2>1. Becomes(c, r)
    BY <1>7 DEF StreamEnds
  <2>2. CallInv(r)
    BY <1>4, <1>5, <1>6
  <2> HIDE DEF r
  <2> QED
    BY <2>1, <2>2, BecomesKeeps
<1>8. CASE StreamLost(c)
  <2>1. Becomes(c, Failing(k, Error("stream", TRUE, 0)))
    BY <1>8 DEF StreamLost
  <2> QED
    BY <1>4, <2>1, BecomesKeeps
<1> QED
  BY <1>7, <1>8

LEMMA WakeUpStep == ASSUME IInv, NEW c \in Calls, WakeUp(c) PROVE IInv'
<1> DEFINE k == call[c]
           r == [k EXCEPT !.pc = "next", !.slept = @ + k.delay, !.delay = 0]
<1>1. CallInv(k) /\ DOMAIN k = Fields
  BY DEF IInv, CallInv, Shape
<1>2. k.pc = "asleep" /\ Becomes(c, r)
  BY DEF WakeUp
<1>3. /\ DOMAIN r = Fields /\ r.pc = "next" /\ r.slept = k.slept + k.delay /\ r.delay = 0
      /\ \A x \in Fields \ {"pc", "slept", "delay"} : r[x] = k[x]
  BY <1>1 DEF Fields
<1> HIDE DEF k, r
<1>4. k.late # 1 /\ k.last.why # "unusable"
  BY <1>1, <1>2 DEF CallInv, Late, Refused
<1>5. Shape(r)
  BY <1>1, <1>3 DEF CallInv, Shape, Fields
<1>6. Work(r)
  BY <1>1, <1>2, <1>3 DEF CallInv, Work, Fields
<1>7. Waits(r)
  <2>1. /\ k.retries \in Nat /\ k.retries > 0 /\ k.slept \in Int /\ k.delay \in Int /\ k.delay <= MaxDelay
        /\ k.slept <= MaxDelay * (k.retries - 1) /\ r.retries = k.retries /\ MaxDelay \in Nat
    BY <1>1, <1>2, <1>3, CallAssumption DEF CallInv, Shape, Waits, Fields
  <2>2. MaxDelay * k.retries = MaxDelay * (k.retries - 1) + MaxDelay /\ MaxDelay * (k.retries - 1) \in Int
    BY <2>1
  <2>3. k.slept + k.delay <= MaxDelay * k.retries
    BY <2>1, <2>2
  <2> QED
    BY <1>3, <2>1, <2>3 DEF Waits
<1>8. Late(r) /\ Fresh(r) /\ Refused(r) /\ Rotated(r)
  <2>1. Late(r) /\ Rotated(r)
    BY <1>1, <1>3, <1>4 DEF CallInv, Late, Rotated, Fields
  <2>2. Fresh(r)
    BY <1>1, <1>2, <1>3 DEF CallInv, Fresh, Fields
  <2>3. Refused(r)
    BY <1>3, <1>4 DEF Refused, Fields
  <2> QED
    BY <2>1, <2>2, <2>3
<1> QED
  BY <1>2, <1>5, <1>6, <1>7, <1>8, BecomesKeeps DEF CallInv

LEMMA CancelStep == ASSUME IInv, NEW c \in Calls, Cancel(c) PROVE IInv'
<1> DEFINE k == call[c]
           r == [k EXCEPT !.cancelled = TRUE]
<1>1. CallInv(k) /\ DOMAIN k = Fields
  BY DEF IInv, CallInv, Shape
<1>2. ~k.cancelled /\ Becomes(c, r)
  BY DEF Cancel
<1>3. DOMAIN r = Fields /\ r.cancelled = TRUE /\ \A x \in Fields \ {"cancelled"} : r[x] = k[x]
  BY <1>1 DEF Fields
<1> HIDE DEF k, r
<1>4. k.late # 1
  BY <1>1, <1>2 DEF CallInv, Late
<1>5. Shape(r)
  BY <1>1, <1>3 DEF CallInv, Shape, Fields
<1>6. Work(r) /\ Waits(r)
  BY <1>1, <1>3 DEF CallInv, Work, Waits, Fields
<1>7. Late(r) /\ Fresh(r) /\ Refused(r) /\ Rotated(r)
  <2>1. Late(r)
    BY <1>1, <1>3, <1>4 DEF CallInv, Late, Fields
  <2>2. Fresh(r)
    BY <1>1, <1>3 DEF CallInv, Fresh, Fields
  <2>3. Refused(r)
    BY <1>1, <1>3 DEF CallInv, Refused, Fields
  <2>4. Rotated(r)
    BY <1>1, <1>3 DEF CallInv, Rotated, Fields
  <2> QED
    BY <2>1, <2>2, <2>3, <2>4
<1> QED
  BY <1>2, <1>5, <1>6, <1>7, BecomesKeeps DEF CallInv

LEMMA ReloadStep == ASSUME IInv, NEW f \in Configs, Reload(f) PROVE IInv'
<1>1. cfg' \in Configs /\ cursor' \in Nat \cup {Torn} /\ DOMAIN call' = Calls
  BY DEF IInv, Reload
<1>0. \A x : Shape(x) /\ Work(x) /\ Waits(x) /\ Late(x) /\ Rotated(x) /\ Refused(x)
             /\ (x.pc # "start" => x.overtaken) => CallInv(x)'
  BY DEF CallInv, Shape, Work, Waits, Late, Rotated, Refused, Fresh, Enabled
<1>2. ASSUME NEW c \in Calls
      PROVE  LET x == call'[c] IN
             /\ Shape(x) /\ Work(x) /\ Waits(x) /\ Late(x) /\ Rotated(x) /\ Refused(x)
             /\ (x.pc # "start" => x.overtaken)
  <2> DEFINE k == call[c]
             r == [k EXCEPT !.overtaken = @ \/ k.pc # "start"]
  <2>1. CallInv(k) /\ DOMAIN k = Fields /\ k.overtaken \in BOOLEAN
    BY DEF IInv, CallInv, Shape
  <2>2. call'[c] = r
    BY DEF Reload
  <2>3. /\ DOMAIN r = Fields /\ r.overtaken = (k.overtaken \/ k.pc # "start")
        /\ \A x \in Fields \ {"overtaken"} : r[x] = k[x]
    BY <2>1 DEF Fields
  <2> HIDE DEF k, r
  <2>4. Shape(r)
    BY <2>1, <2>3 DEF CallInv, Shape, Fields
  <2>5. Work(r) /\ Waits(r)
    BY <2>1, <2>3 DEF CallInv, Work, Waits, Fields
  <2>6. Late(r) /\ Rotated(r)
    BY <2>1, <2>3 DEF CallInv, Late, Rotated, Fields
  <2>7. Refused(r)
    BY <2>1, <2>3 DEF CallInv, Refused, Fields
  <2>8. r.pc # "start" => r.overtaken
    BY <2>3 DEF Fields
  <2> QED
    BY <2>2, <2>4, <2>5, <2>6, <2>7, <2>8
<1>3. \A c \in Calls : CallInv(call[c])'
  BY <1>0, <1>2
<1> QED
  BY <1>1, <1>3 DEF IInv
-----------------------------------------------------------------------------
(* The theorems *)

LEMMA StepIInv == IInv /\ [Next]_vars => IInv'
<1> SUFFICES ASSUME IInv, [Next]_vars PROVE IInv'
  OBVIOUS
<1>1. ASSUME NEW c \in Calls, Step(c) PROVE IInv'
  <2>1. CASE Snapshot(c) \/ CursorTruncate(c) \/ CursorWrite(c)
    BY <2>1, SnapshotStep, CursorStep
  <2>2. CASE SkipDisabled(c) \/ Attempt(c) \/ NextProvider(c) \/ Exhausted(c) \/ Send(c)
    BY <2>2, SkipDisabledStep, AttemptStep, NextProviderStep, ExhaustedStep, SendStep
  <2>3. CASE \E a \in Replies(c) : Receive(c, a)
    BY <2>3, ReceiveStep
  <2>4. CASE \E e \in Events(c) : StreamEvent(c, e)
    BY <2>4, StreamEventStep
  <2>5. CASE StreamStarts(c) \/ StreamEnds(c) \/ StreamLost(c)
    BY <2>5, WaitStep, StreamStep
  <2>6. CASE Backoff(c) \/ WakeUp(c) \/ WaitCancelled(c) \/ Recover(c)
    BY <2>6, WaitStep, WakeUpStep
  <2> QED
    BY <1>1, <2>1, <2>2, <2>3, <2>4, <2>5, <2>6 DEF Step
<1>2. ASSUME NEW c \in Calls, Cancel(c) PROVE IInv'
  BY <1>2, CancelStep
<1>3. ASSUME NEW f \in Configs, Reload(f) PROVE IInv'
  BY <1>3, ReloadStep
<1>4. CASE UNCHANGED vars
  BY <1>4 DEF vars, IInv, CallInv, Shape, Work, Waits, Late, Rotated, Refused, Fresh, Enabled
<1> QED
  BY <1>1, <1>2, <1>3, <1>4 DEF Next

\* What every call keeps, at every reachable state.
THEOREM Inductive == Spec => []IInv
BY InitIInv, StepIInv, PTL DEF Spec

\* A rotation offers every enabled provider once, whatever the cursor file holds
\* and whoever else rewrites it.
THEOREM RotationComplete == Spec => []RotationKeepsAll
<1>1. IInv => RotationKeepsAll
  BY DEF IInv, CallInv, Rotated, RotationKeepsAll, Enabled
<1> QED
  BY <1>1, Inductive, PTL

\* Two requests per attempt, attempts within the budget, waits within the ceiling.
THEOREM Bounded == Spec => []WorkBounded
<1>1. IInv => WorkBounded
  BY DEF IInv, CallInv, Work, Waits, WorkBounded
<1> QED
  BY <1>1, Inductive, PTL

\* The client refuses a provider that the snapshot lists as usable only after a reload.
THEOREM RefusedAfterReload == Spec => []UnusableOnlyAfterReload
<1>1. IInv => UnusableOnlyAfterReload
  BY DEF IInv, CallInv, Refused, UnusableOnlyAfterReload
<1> QED
  BY <1>1, Inductive, PTL

\* A cancelled call starts at most one more request.
THEOREM OneMoreRequest == Spec => []OneRequestAfterCancel
<1>1. IInv => OneRequestAfterCancel
  BY DEF IInv, CallInv, Late, OneRequestAfterCancel
<1> QED
  BY <1>1, Inductive, PTL
-----------------------------------------------------------------------------
(* What is spent of the attempts *)

\* The usable providers that are still ahead, the current one included.
Ahead(k) == Range(k.cands) \cap Enabled(k.snap)

Underway == {"truncate", "write", "next", "open", "sent", "reading", "backoff", "asleep"}
Trying == {"open", "sent", "reading", "backoff", "asleep"}

\* Made so far, and possible at the providers ahead, are all that is allowed,
\* where those made at the current provider are counted twice.
Ledger(k) ==
    /\ Ahead(k) \subseteq DOMAIN k.snap.prov
    /\ k.attempts + Cardinality(Tries(k.snap, Ahead(k)))
         = Cardinality(Tries(k.snap, Usable(k.snap))) + k.tries
    /\ k.tries <= IF Head(k.cands) \in Enabled(k.snap) THEN k.snap.prov[Head(k.cands)].max ELSE 0

Spent(k) ==
    /\ k.tries \in Nat
    /\ k.pc = "start" => k.tries = 0
    /\ k.pc \in Underway => k.cands \in Seq(Providers) /\ IsInjective(k.cands)
    /\ k.pc \in Underway /\ k.cands # <<>> => Ledger(k)
    /\ k.pc \in Underway /\ k.cands = <<>> => k.attempts = Allowed(k.snap)
    /\ k.pc \in Trying => k.cands # <<>> /\ Head(k.cands) \in Enabled(k.snap)
    /\ k.pc = "failed" /\ k.last.transient /\ ~k.cancelled => k.attempts = Allowed(k.snap)

SInv == \A c \in Calls : Spent(call[c])

LEMMA ProvidersFinite == IsFiniteSet(Providers)
<1>1. Order \in Seq(Providers) /\ Len(Order) \in Nat /\ DOMAIN Order = 1..Len(Order)
  BY CallAssumption, LenProperties
<1>2. Order \in Surjection(1..Len(Order), Providers)
  BY <1>1 DEF Surjection, Providers, Range
<1>3. IsFiniteSet(1..Len(Order))
  BY <1>1, FS_Interval
<1> QED
  BY <1>2, <1>3, FS_Surjection

\* The tries of a set of providers are finitely many, and a provider of the set
\* accounts for as many of them as it has attempts.
LEMMA TriesAre ==
    ASSUME NEW f \in Configs, NEW S \in SUBSET DOMAIN f.prov
    PROVE  /\ IsFiniteSet(Tries(f, S)) /\ Cardinality(Tries(f, S)) \in Nat
           /\ \A p \in S : /\ f.prov[p].max \in Nat
                           /\ Cardinality(Tries(f, S))
                                = Cardinality(Tries(f, S \ {p})) + f.prov[p].max
<1> DEFINE T(p) == {p} \X (1..f.prov[p].max)
           U == {T(p) : p \in S}
           g == [i \in 1..Len(Order) |-> IF Order[i] \in S THEN T(Order[i]) ELSE {}]
<1>1. Order \in Seq(Providers) /\ Len(Order) \in Nat /\ DOMAIN Order = 1..Len(Order)
  BY CallAssumption, LenProperties
<1>2. S \subseteq Providers /\ \A p \in S : f.prov[p].max \in Nat
  BY CallAssumption
<1>3. ASSUME NEW p \in S PROVE IsFiniteSet(T(p)) /\ Cardinality(T(p)) = f.prov[p].max
  <2> DEFINE m == f.prov[p].max
             I == 1..m
  <2>1. m \in Nat /\ T(p) = {p} \X I
    BY <1>2
  <2> HIDE DEF m, T
  <2>2. IsFiniteSet(I) /\ Cardinality(I) = m
    BY <2>1, FS_Interval
  <2>3. IsFiniteSet({p}) /\ Cardinality({p}) = 1
    BY FS_Singleton
  <2> HIDE DEF I
  <2>4. IsFiniteSet({p} \X I) /\ Cardinality({p} \X I) = Cardinality({p}) * Cardinality(I)
    BY <2>2, <2>3, FS_Product
  <2>5. Cardinality(T(p)) = m
    BY <2>1, <2>2, <2>3, <2>4
  <2> QED
    BY <2>1, <2>4, <2>5 DEF m
<1> HIDE DEF T
<1>4. g \in Surjection(1..Len(Order), Range(g))
  BY DEF Surjection, Range
<1>5. IsFiniteSet(Range(g))
  BY <1>1, <1>4, FS_Interval, FS_Surjection
<1>6. \A X \in Range(g) : IsFiniteSet(X)
  BY <1>3, FS_EmptySet DEF Range
<1>7. UNION Range(g) = UNION U
  <2>1. \A p \in S : \E i \in 1..Len(Order) : g[i] = T(p)
    <3> TAKE p \in S
    <3>1. PICK i \in DOMAIN Order : Order[i] = p
      BY <1>2 DEF Providers, Range
    <3> QED
      BY <1>1, <3>1
  <2>2. \A X \in Range(g) : X = {} \/ X \in U
    BY DEF Range
  <2>3. \A X \in U : X \in Range(g)
    BY <2>1 DEF Range
  <2> HIDE DEF g, U
  <2> QED
    BY <2>2, <2>3
<1>8. Tries(f, S) = UNION U
  BY DEF Tries, T
<1>9. IsFiniteSet(Tries(f, S))
  BY <1>5, <1>6, <1>7, <1>8, FS_UNION
<1>10. Cardinality(Tries(f, S)) \in Nat
  BY <1>9, FS_CardinalityType
<1>11. ASSUME NEW p \in S
       PROVE  Cardinality(Tries(f, S)) = Cardinality(Tries(f, S \ {p})) + f.prov[p].max
  <2> DEFINE R == Tries(f, S \ {p})
  <2>1. \A x : x \in Tries(f, S) <=> \E q \in S : x \in T(q)
    BY DEF Tries, T
  <2>2. \A x : x \in R <=> \E q \in S \ {p} : x \in T(q)
    BY DEF Tries, T
  <2>3. \A q, x : x \in T(q) => x[1] = q
    BY DEF T
  <2> HIDE DEF R
  <2>4. Tries(f, S) = R \cup T(p)
    BY <2>1, <2>2
  <2>5. R \cap T(p) = {}
    BY <2>2, <2>3
  <2>6. IsFiniteSet(R) /\ Cardinality(R) \in Nat
    <3>1. R \in SUBSET Tries(f, S)
      BY <2>4
    <3> QED
      BY <3>1, <1>9, FS_Subset, FS_CardinalityType
  <2>7. Cardinality(R \cup T(p)) = Cardinality(R) + Cardinality(T(p)) - Cardinality(R \cap T(p))
    BY <2>6, <1>3, FS_Union
  <2>8. Cardinality(R \cap T(p)) = 0
    BY <2>5, FS_EmptySet
  <2> QED
    BY <1>2, <1>3, <2>4, <2>6, <2>7, <2>8 DEF R
<1> QED
  BY <1>2, <1>9, <1>10, <1>11

LEMMA NoTries == ASSUME NEW f PROVE Cardinality(Tries(f, {})) = 0
<1>1. Tries(f, {}) = {}
  BY DEF Tries
<1> QED
  BY <1>1, FS_EmptySet

LEMMA AllowedIs ==
    ASSUME NEW f \in Configs
    PROVE  LET all == Cardinality(Tries(f, Usable(f))) IN
           /\ all \in Nat /\ Usable(f) \subseteq DOMAIN f.prov
           /\ Allowed(f) = IF all <= f.budget THEN all ELSE f.budget
<1> DEFINE all == Cardinality(Tries(f, Usable(f)))
<1>1. Usable(f) \subseteq DOMAIN f.prov
  BY DEF Usable, Enabled
<1>2. all \in Nat /\ f.budget \in Nat
  BY <1>1, TriesAre, ConfigIs
<1> HIDE DEF all
<1>3. \A a, b \in Nat : Min({a, b}) = IF b <= a THEN b ELSE a
  <2> TAKE a, b \in Nat
  <2>1. \E x \in {a, b} : \A y \in {a, b} : x <= y
    BY SMT
  <2>2. Min({a, b}) \in {a, b} /\ \A y \in {a, b} : Min({a, b}) <= y
    BY <2>1 DEF Min
  <2> QED
    BY <2>2
<1>4. Allowed(f) = Min({f.budget, all})
  BY DEF Allowed, all
<1> QED
  BY <1>1, <1>2, <1>3, <1>4 DEF all

\* A record whose candidates and counters are the old ones.
LEMMA SpentQuiet ==
    ASSUME NEW k, Spent(k), NEW r,
           r.cands = k.cands, r.tries = k.tries, r.attempts = k.attempts, r.snap = k.snap,
           r.pc = "start" => k.pc = "start",
           r.pc \in Underway => k.pc \in Underway,
           r.pc \in Trying => k.pc \in Trying,
           r.pc = "failed" /\ r.last.transient /\ ~r.cancelled
               => k.pc = "failed" /\ k.last.transient /\ ~k.cancelled
    PROVE  Spent(r)
<1>1. Ahead(r) = Ahead(k)
  BY DEF Ahead
<1>2. Ledger(k) => Ledger(r)
  BY <1>1 DEF Ledger
<1> QED
  BY <1>2 DEF Spent

LEMMA SpentBecomes ==
    ASSUME IInv, SInv, NEW c \in Calls, NEW r, call' = [call EXCEPT ![c] = r], Spent(r)
    PROVE  SInv'
<1>1. \A d \in Calls : call'[d] = IF d = c THEN r ELSE call[d]
  BY DEF IInv
<1>2. \A d \in Calls : Spent(call'[d])
  BY <1>1 DEF SInv
<1> QED
  BY <1>2 DEF SInv

\* With a provider at hand, the whole of the budget spent is all that is allowed.
LEMMA BudgetSpent ==
    ASSUME NEW k, CallInv(k), Spent(k), k.pc \in Underway, k.cands # <<>>,
           k.attempts >= k.snap.budget
    PROVE  k.attempts = Allowed(k.snap)
<1> DEFINE f == k.snap
           h == Head(k.cands)
           ahead == Cardinality(Tries(f, Ahead(k)))
           all == Cardinality(Tries(f, Usable(f)))
<1>1. f \in Configs /\ k.attempts \in Nat /\ f.budget \in Nat /\ k.attempts <= f.budget
  BY ConfigIs DEF CallInv, Shape, Work
<1>2. Ahead(k) \subseteq DOMAIN f.prov /\ k.attempts + ahead = all + k.tries /\ k.tries \in Nat
  BY DEF Spent, Ledger
<1>3. h \in Range(k.cands)
  <2>1. k.cands \in Seq(Providers) /\ k.cands # <<>>
    BY DEF Spent
  <2> QED
    BY <2>1, LenProperties DEF Range
<1>4. ahead \in Nat /\ k.tries <= ahead
  <2>1. ahead \in Nat
    BY <1>1, <1>2, TriesAre
  <2>2. CASE h \in Enabled(f)
    <3>1. h \in Ahead(k) /\ k.tries <= f.prov[h].max
      BY <1>3, <2>2 DEF Ahead, Spent, Ledger
    <3>2. Cardinality(Tries(f, Ahead(k) \ {h})) \in Nat
      <4>1. Ahead(k) \ {h} \in SUBSET DOMAIN f.prov
        BY <1>2
      <4> QED
        BY <1>1, <4>1, TriesAre
    <3>3. ahead = Cardinality(Tries(f, Ahead(k) \ {h})) + f.prov[h].max /\ f.prov[h].max \in Nat
      BY <1>1, <1>2, <3>1, TriesAre
    <3> QED
      BY <1>2, <2>1, <3>1, <3>2, <3>3
  <2>3. CASE h \notin Enabled(f)
    BY <1>2, <2>1, <2>3 DEF Spent, Ledger
  <2> QED
    BY <2>2, <2>3
<1>5. all \in Nat /\ Allowed(f) = IF all <= f.budget THEN all ELSE f.budget
  BY <1>1, AllowedIs
<1> HIDE DEF ahead, all
<1> QED
  BY <1>1, <1>2, <1>4, <1>5

\* Leaving a provider whose attempts are used up, or one that has none.
LEMMA Leaving ==
    ASSUME NEW k, CallInv(k), Spent(k), k.pc = "next", HasNext(k), NEW r,
           r.cands = Tail(k.cands), r.tries = 0, r.pc = "next", r.attempts = k.attempts,
           r.snap = k.snap,
           Head(k.cands) \in Enabled(k.snap) => k.tries >= k.snap.prov[Head(k.cands)].max
    PROVE  Spent(r)
<1> DEFINE f == k.snap
           s == k.cands
           h == Head(s)
           all == Cardinality(Tries(f, Usable(f)))
           rest == Cardinality(Tries(f, Ahead(r)))
<1>1. f \in Configs /\ k.attempts \in Nat /\ f.budget \in Nat /\ k.attempts < f.budget
  BY ConfigIs DEF CallInv, Shape, Work, HasNext
<1>2. s \in Seq(Providers) /\ IsInjective(s) /\ s # <<>> /\ k.tries \in Nat /\ Ledger(k)
  BY DEF Spent, HasNext, Underway
<1>3. /\ h = s[1] /\ Tail(s) \in Seq(Providers) /\ Len(s) \in Nat \ {0} /\ DOMAIN s = 1..Len(s)
      /\ Len(Tail(s)) = Len(s) - 1 /\ DOMAIN Tail(s) = 1..(Len(s) - 1)
      /\ \A i \in 1..(Len(s) - 1) : Tail(s)[i] = s[i + 1]
  BY <1>2, HeadTailProperties, LenProperties, EmptySeq
<1>4. IsInjective(Tail(s))
  <2> SUFFICES ASSUME NEW i \in 1..(Len(s) - 1), NEW j \in 1..(Len(s) - 1), Tail(s)[i] = Tail(s)[j]
               PROVE  i = j
    BY <1>3 DEF IsInjective
  <2>1. s[i + 1] = s[j + 1] /\ i + 1 \in DOMAIN s /\ j + 1 \in DOMAIN s
    BY <1>3
  <2>2. i + 1 = j + 1
    BY <1>2, <2>1 DEF IsInjective
  <2> QED
    BY <2>2
<1>5. Range(Tail(s)) = Range(s) \ {h}
  <2>1. \A p : p \in Range(Tail(s)) <=> \E i \in 1..(Len(s) - 1) : p = s[i + 1]
    <3> DEFINE t == Tail(s)
               n == Len(s) - 1
    <3>1. DOMAIN t = 1..n /\ \A i \in 1..n : t[i] = s[i + 1]
      BY <1>3
    <3> HIDE DEF t, n
    <3>2. \A p : p \in Range(t) <=> \E i \in 1..n : p = s[i + 1]
      BY <3>1 DEF Range
    <3> QED
      BY <3>2 DEF t, n
  <2>2. \A p : p \in Range(s) <=> \E i \in 1..Len(s) : p = s[i]
    BY <1>3 DEF Range
  <2>3. \A i \in 1..Len(s) : s[i] = h => i = 1
    <3> TAKE i \in 1..Len(s)
    <3> QED
      BY <1>2, <1>3 DEF IsInjective
  <2>4. \A p : p \in Range(Tail(s)) => p \in Range(s) /\ p # h
    <3> TAKE p
    <3> HAVE p \in Range(Tail(s))
    <3>1. PICK i \in 1..(Len(s) - 1) : p = s[i + 1]
      BY <2>1
    <3>2. i + 1 \in 1..Len(s) /\ i + 1 # 1
      BY <1>3
    <3> QED
      BY <2>2, <2>3, <3>1, <3>2
  <2>5. \A p : p \in Range(s) /\ p # h => p \in Range(Tail(s))
    <3> TAKE p
    <3> HAVE p \in Range(s) /\ p # h
    <3>1. PICK i \in 1..Len(s) : p = s[i]
      BY <2>2
    <3>2. i # 1
      BY <1>3, <3>1
    <3>3. i - 1 \in 1..(Len(s) - 1) /\ (i - 1) + 1 = i
      BY <1>3, <3>2
    <3> QED
      BY <2>1, <3>1, <3>3
  <2> QED
    BY <2>4, <2>5
<1>6. Ahead(r) = Ahead(k) \ {h} /\ h \in Range(s)
  <2>1. h \in Range(s)
    BY <1>3 DEF Range
  <2>2. Ahead(r) = Range(Tail(s)) \cap Enabled(f) /\ Ahead(k) = Range(s) \cap Enabled(f)
    BY DEF Ahead
  <2> HIDE DEF h, s, f
  <2> QED
    BY <1>5, <2>1, <2>2
<1>7. Ahead(r) \subseteq DOMAIN f.prov /\ rest \in Nat /\ all \in Nat
  <2>1. Ahead(r) \in SUBSET DOMAIN f.prov
    BY <1>2, <1>6 DEF Ledger
  <2> QED
    BY <1>1, <2>1, TriesAre, AllowedIs
<1>8. k.attempts + rest = all
  <2>1. CASE h \in Enabled(f)
    <3>1. h \in Ahead(k) /\ Ahead(k) \in SUBSET DOMAIN f.prov
      BY <1>2, <1>6, <2>1 DEF Ahead, Ledger
    <3>2. Cardinality(Tries(f, Ahead(k))) = rest + f.prov[h].max /\ f.prov[h].max \in Nat
      BY <1>1, <1>6, <3>1, TriesAre
    <3>3. k.tries = f.prov[h].max
      BY <1>2, <2>1, <3>2 DEF Ledger
    <3>4. k.attempts + Cardinality(Tries(f, Ahead(k))) = all + k.tries
      BY <1>2 DEF Ledger
    <3> HIDE DEF all, rest, f
    <3> QED
      BY <1>1, <1>7, <3>2, <3>3, <3>4
  <2>2. CASE h \notin Enabled(f)
    <3>1. Ahead(r) = Ahead(k)
      BY <1>6, <2>2 DEF Ahead
    <3>2. k.tries = 0
      BY <1>2, <2>2 DEF Ledger
    <3>3. k.attempts + rest = all + k.tries
      BY <1>2, <3>1 DEF Ledger
    <3> HIDE DEF all, rest
    <3> QED
      BY <1>1, <1>7, <3>2, <3>3
  <2> QED
    BY <2>1, <2>2
<1>9. r.cands # <<>> => Ledger(r)
  <2>0. ASSUME r.cands # <<>> PROVE 0 <= IF Head(r.cands) \in Enabled(f) THEN f.prov[Head(r.cands)].max ELSE 0
    <3>1. \A p \in Enabled(f) : f.prov[p].max \in Nat
      BY <1>1, CallAssumption DEF Enabled
    <3> DEFINE most == IF Head(r.cands) \in Enabled(f) THEN f.prov[Head(r.cands)].max ELSE 0
    <3>2. most \in Nat
      BY <3>1
    <3> HIDE DEF most
    <3>3. 0 <= most
      BY <3>2
    <3> QED
      BY <3>3 DEF most
  <2>1. r.attempts + rest = all + r.tries
    <3> HIDE DEF rest, all
    <3> QED
      BY <1>7, <1>8
  <2> QED
    BY <1>7, <2>0, <2>1 DEF Ledger
<1>10. r.cands = <<>> => r.attempts = Allowed(r.snap)
  <2> SUFFICES ASSUME r.cands = <<>> PROVE k.attempts = Allowed(f)
    OBVIOUS
  <2>1. Ahead(r) = {}
    <3>1. \A p \in Range(<<>>) : FALSE
      BY DEF Range
    <3> QED
      BY <3>1 DEF Ahead
  <2>2. rest = 0
    BY <2>1, NoTries
  <2>3. Allowed(f) = IF all <= f.budget THEN all ELSE f.budget
    BY <1>1, AllowedIs
  <2> HIDE DEF rest, all
  <2> QED
    BY <1>1, <1>7, <1>8, <2>2, <2>3
<1> QED
  BY <1>3, <1>4, <1>9, <1>10 DEF Spent, Trying

LEMMA SeqRange == ASSUME NEW S, NEW s \in Seq(S) PROVE Range(s) = {s[i] : i \in 1..Len(s)} /\ Range(s) \subseteq S
BY LenProperties DEF Range

LEMMA HeadedIs ==
    ASSUME NEW f \in Configs, NEW p \in Enabled(f)
    PROVE  /\ HeadedBy(p, f) \in Seq(Providers) /\ Range(HeadedBy(p, f)) = Enabled(f)
           /\ IsInjective(HeadedBy(p, f))
<1> DEFINE t == InOrder(Enabled(f) \ {p})
           s == HeadedBy(p, f)
<1>1. Enabled(f) \subseteq Providers /\ p \in Providers
  BY ConfigIs DEF Enabled
<1>2. t \in Seq(Providers) /\ Range(t) = Enabled(f) \ {p} /\ IsInjective(t)
  BY <1>1, InOrderIs
<1>3. s = <<p>> \o t
  BY DEF HeadedBy
<1> HIDE DEF t, s
<1>4. Len(t) \in Nat /\ DOMAIN t = 1..Len(t)
  BY <1>2, LenProperties
<1>5. /\ s \in Seq(Providers) /\ Len(s) = Len(t) + 1 /\ DOMAIN s = 1..(Len(t) + 1) /\ s[1] = p
      /\ \A i \in 1..Len(t) : s[i + 1] = t[i]
  <2>1. <<p>> \in Seq(Providers)
    BY <1>1
  <2> QED
    BY <1>2, <1>3, <1>4, <2>1
<1>6. \A i \in 2..(Len(t) + 1) : s[i] = t[i - 1] /\ i - 1 \in 1..Len(t) /\ s[i] \in Enabled(f) \ {p}
  <2> TAKE i \in 2..(Len(t) + 1)
  <2>1. i - 1 \in 1..Len(t) /\ (i - 1) + 1 = i
    BY <1>4
  <2>2. s[i] = t[i - 1]
    BY <1>5, <2>1
  <2> QED
    BY <1>2, <1>4, <2>1, <2>2 DEF Range
<1>7. Range(s) = Enabled(f)
  <2>1. \A q \in Enabled(f) \ {p} : \E i \in 1..Len(t) : t[i] = q
    BY <1>2, <1>4 DEF Range
  <2>2. \A q \in Enabled(f) \ {p} : \E j \in DOMAIN s : s[j] = q
    <3> TAKE q \in Enabled(f) \ {p}
    <3>1. PICK i \in 1..Len(t) : t[i] = q
      BY <2>1
    <3>2. i + 1 \in DOMAIN s /\ s[i + 1] = q
      BY <1>4, <1>5, <3>1
    <3> QED
      BY <3>2
  <2>3. 1 \in DOMAIN s
    BY <1>4, <1>5
  <2>4. \A j \in DOMAIN s : s[j] \in Enabled(f)
    BY <1>4, <1>5, <1>6
  <2> QED
    BY <1>5, <2>2, <2>3, <2>4 DEF Range
<1>8. IsInjective(s)
  <2> SUFFICES ASSUME NEW i \in 1..(Len(t) + 1), NEW j \in 1..(Len(t) + 1), s[i] = s[j] PROVE i = j
    BY <1>5 DEF IsInjective
  <2>1. CASE i = 1 \/ j = 1
    BY <1>4, <1>5, <1>6, <2>1
  <2>2. CASE i # 1 /\ j # 1
    <3>1. i \in 2..(Len(t) + 1) /\ j \in 2..(Len(t) + 1)
      BY <1>4, <2>2
    <3>2. t[i - 1] = t[j - 1] /\ i - 1 \in DOMAIN t /\ j - 1 \in DOMAIN t
      BY <1>4, <1>6, <3>1
    <3>3. i - 1 = j - 1
      BY <1>2, <3>2 DEF IsInjective
    <3> QED
      BY <3>1, <3>3
  <2> QED
    BY <2>1, <2>2
<1> QED
  BY <1>5, <1>7, <1>8 DEF s

\* The candidates are the providers that may be used, once each, whatever the
\* strategy (a switch may name a provider that is off).
LEMMA CandidatesAre ==
    ASSUME NEW f \in Configs, NEW pinned, NEW at \in Nat \cup {Torn}
    PROVE  LET s == CandidatesFor(f, pinned, at) IN
           s \in Seq(Providers) /\ IsInjective(s) /\ Range(s) \cap Enabled(f) = Usable(f)
<1> DEFINE s == CandidatesFor(f, pinned, at)
           on == EnabledInOrder(f)
<1>1. on \in Seq(Providers) /\ Range(on) = Enabled(f) /\ IsInjective(on)
  BY EnabledIs
<1>2. f.strategy \in Strategies /\ f.active \in Providers \cup {None}
  BY CallAssumption
<1> HIDE DEF on
<1>3. CASE f.strategy = "switch" /\ f.active # None
  <2>1. s = <<f.active>>
    BY <1>3 DEF CandidatesFor, Rotates
  <2>2. s \in Seq(Providers) /\ Len(s) = 1 /\ s[1] = f.active /\ DOMAIN s = {1}
    BY <1>2, <1>3, <2>1
  <2> HIDE DEF s
  <2>3. IsInjective(s) /\ Range(s) = {f.active}
    BY <2>2 DEF IsInjective, Range
  <2> QED
    BY <1>3, <2>2, <2>3 DEF Usable, s
<1>4. CASE ~ (f.strategy = "switch" /\ f.active # None)
  <2>1. Usable(f) = Enabled(f)
    BY <1>4 DEF Usable
  <2>2. \/ s = on
        \/ \E p \in Enabled(f) : s = HeadedBy(p, f)
        \/ Rotates(f, pinned) /\ s = RotatedBy(on, StartOf(f, at))
    BY <1>4 DEF CandidatesFor, on
  <2>3. CASE Rotates(f, pinned) /\ s = RotatedBy(on, StartOf(f, at))
    <3>1. Len(on) \in Nat \ {0}
      <4>1. Range(on) # {}
        BY <1>1, <2>3 DEF Rotates
      <4> QED
        BY <1>1, <4>1, LenProperties DEF Range
    <3>2. StartOf(f, at) \in 0..(Len(on) - 1)
      <4> DEFINE a == IF at = Torn THEN 0 ELSE at
      <4>1. a \in Nat
        OBVIOUS
      <4>2. StartOf(f, at) = a % Len(on)
        BY DEF StartOf, on
      <4> HIDE DEF a
      <4> QED
        BY <3>1, <4>1, <4>2, ModIs
    <3> HIDE DEF s
    <3>3. s \in Seq(Providers) /\ Range(s) = Range(on) /\ IsInjective(s)
      BY <1>1, <2>3, <3>2, RotatedIs
    <3> QED
      BY <1>1, <2>1, <3>3 DEF s
  <2> HIDE DEF s
  <2>4. CASE \E p \in Enabled(f) : s = HeadedBy(p, f)
    <3>1. s \in Seq(Providers) /\ Range(s) = Enabled(f) /\ IsInjective(s)
      BY <2>4, HeadedIs
    <3> QED
      BY <2>1, <3>1 DEF s
  <2>5. CASE s = on
    BY <1>1, <2>1, <2>5 DEF s
  <2> QED
    BY <2>2, <2>3, <2>4, <2>5
<1> QED
  BY <1>3, <1>4

LEMMA SnapshotSpends == ASSUME IInv, SInv, NEW c \in Calls, Snapshot(c) PROVE SInv'
<1> DEFINE k == call[c]
           f == cfg
           turns == Rotates(cfg, k.pinned)
           cands == CandidatesFor(cfg, k.pinned, cursor)
           start == IF turns THEN StartOf(cfg, cursor) ELSE 0
           r == [k EXCEPT !.snap = cfg, !.overtaken = FALSE, !.cands = cands, !.start = start,
                          !.pc = IF turns THEN "truncate" ELSE "next"]
           all == Cardinality(Tries(f, Usable(f)))
<1>1. CallInv(k) /\ DOMAIN k = Fields /\ cfg \in Configs /\ cursor \in Nat \cup {Torn} /\ Spent(k)
  BY DEF IInv, CallInv, Shape, SInv
<1>2. k.pc = "start" /\ call' = [call EXCEPT ![c] = r]
  BY DEF Snapshot, Becomes
<1>3. /\ r.snap = f /\ r.cands = cands /\ r.pc \in {"truncate", "next"}
      /\ r.tries = k.tries /\ r.attempts = k.attempts
  BY <1>1 DEF Fields
<1>4. k.attempts = 0 /\ k.tries = 0
  BY <1>1, <1>2 DEF CallInv, Work, Spent
<1>5. cands \in Seq(Providers) /\ IsInjective(cands) /\ Range(cands) \cap Enabled(f) = Usable(f)
  BY <1>1, CandidatesAre
<1> HIDE DEF r, cands, k
<1>6. Ahead(r) = Usable(f)
  BY <1>3, <1>5 DEF Ahead
<1>7. all \in Nat /\ f.budget \in Nat \ {0} /\ Usable(f) \subseteq DOMAIN f.prov
      /\ Allowed(f) = IF all <= f.budget THEN all ELSE f.budget
  BY <1>1, AllowedIs, ConfigIs
<1>8. Ledger(r)
  <2> DEFINE most == IF Head(r.cands) \in Enabled(f) THEN f.prov[Head(r.cands)].max ELSE 0
  <2>1. most \in Nat
    BY <1>1, CallAssumption DEF Enabled
  <2> HIDE DEF most
  <2>2. r.tries <= most
    BY <1>3, <1>4, <2>1
  <2>3. r.attempts + Cardinality(Tries(f, Ahead(r))) = all + r.tries
    <3> HIDE DEF all
    <3> QED
      BY <1>3, <1>4, <1>6, <1>7 DEF all
  <2> QED
    BY <1>3, <1>6, <1>7, <2>2, <2>3 DEF Ledger, most
<1>9. r.cands = <<>> => r.attempts = Allowed(r.snap)
  <2> SUFFICES ASSUME r.cands = <<>> PROVE 0 = Allowed(f)
    BY <1>3, <1>4
  <2>1. Usable(f) = {}
    <3>1. \A p \in Range(<<>>) : FALSE
      BY DEF Range
    <3> QED
      BY <3>1, <1>6 DEF Ahead
  <2>2. all = 0
    BY <2>1, NoTries
  <2> QED
    BY <1>7, <2>2
<1>10. Spent(r)
  BY <1>3, <1>4, <1>5, <1>8, <1>9 DEF Spent, Trying
<1> QED
  BY <1>2, <1>10, SpentBecomes

LEMMA LeavingSpends ==
    ASSUME IInv, SInv, NEW c \in Calls, SkipDisabled(c) \/ NextProvider(c) PROVE SInv'
<1> DEFINE k == call[c]
           r == [k EXCEPT !.cands = Tail(@), !.tries = 0]
<1>1. CallInv(k) /\ DOMAIN k = Fields /\ Spent(k)
  BY DEF IInv, CallInv, Shape, SInv
<1>2. /\ k.pc = "next" /\ HasNext(k) /\ call' = [call EXCEPT ![c] = r]
      /\ Head(k.cands) \in Enabled(k.snap) => k.tries >= k.snap.prov[Head(k.cands)].max
  BY DEF SkipDisabled, NextProvider, Becomes, Slot
<1>3. /\ r.cands = Tail(k.cands) /\ r.tries = 0 /\ r.pc = k.pc /\ r.attempts = k.attempts
      /\ r.snap = k.snap
  BY <1>1 DEF Fields
<1> HIDE DEF k, r
<1>4. Spent(r)
  BY <1>1, <1>2, <1>3, Leaving
<1> QED
  BY <1>2, <1>4, SpentBecomes DEF k

LEMMA AttemptSpends == ASSUME IInv, SInv, NEW c \in Calls, Attempt(c) PROVE SInv'
<1> DEFINE k == call[c]
           p == Head(k.cands)
           f == k.snap
           refused == p \notin DOMAIN cfg.prov \/ ~cfg.prov[p].key
           r == IF refused
                THEN [k EXCEPT !.attempts = @ + 1, !.tries = @ + 1, !.pc = "failed",
                               !.last = Error("unusable", FALSE, 0)]
                ELSE [k EXCEPT !.attempts = @ + 1, !.tries = @ + 1, !.pc = "open",
                               !.api = cfg.prov[p].api]
<1>1. CallInv(k) /\ DOMAIN k = Fields /\ Spent(k)
  BY DEF IInv, CallInv, Shape, SInv
<1>2. /\ k.pc = "next" /\ k.cands # <<>> /\ call' = [call EXCEPT ![c] = r]
      /\ p \in Enabled(f) /\ k.tries < f.prov[p].max
  BY DEF Attempt, HasNext, Becomes, Slot
<1>3. /\ r.cands = k.cands /\ r.snap = f /\ r.attempts = k.attempts + 1 /\ r.tries = k.tries + 1
      /\ refused => r.pc = "failed" /\ r.last = Error("unusable", FALSE, 0)
      /\ ~refused => r.pc = "open"
  BY <1>1 DEF Fields
<1> HIDE DEF r, refused
<1>4. /\ k.cands \in Seq(Providers) /\ IsInjective(k.cands) /\ Ledger(k) /\ k.tries \in Nat
      /\ k.attempts \in Nat /\ f \in Configs
  BY <1>1, <1>2 DEF Spent, Underway, CallInv, Shape
<1>5. r.tries \in Nat
  BY <1>3, <1>4
<1>6. Ledger(r)
  <2> DEFINE all == Cardinality(Tries(f, Usable(f)))
             ahead == Cardinality(Tries(f, Ahead(k)))
             most == f.prov[p].max
  <2>1. Ahead(r) = Ahead(k) /\ Ahead(k) \in SUBSET DOMAIN f.prov
    BY <1>3, <1>4 DEF Ahead, Ledger
  <2>2. all \in Nat /\ ahead \in Nat
    BY <1>4, <2>1, TriesAre, AllowedIs
  <2>3. most \in Nat /\ k.tries < most
    BY <1>2, <1>4, CallAssumption DEF Enabled
  <2>4. k.attempts + ahead = all + k.tries
    BY <1>4 DEF Ledger
  <2>5. r.attempts + ahead = all + r.tries /\ r.tries <= most
    <3>1. /\ r.attempts = k.attempts + 1 /\ r.tries = k.tries + 1
          /\ k.attempts \in Nat /\ k.tries \in Nat
      BY <1>3, <1>4
    <3> HIDE DEF all, ahead, most, k
    <3>2. r.tries <= most
      BY <2>3, <3>1
    <3>3. r.attempts + ahead = all + r.tries
      BY <2>2, <2>4, <3>1
    <3> QED
      BY <3>2, <3>3
  <2> QED
    BY <1>2, <1>3, <2>1, <2>5 DEF Ledger
<1>7. r.pc = "failed" => ~r.last.transient
  BY <1>3 DEF Error
<1>8. Spent(r)
  BY <1>2, <1>3, <1>4, <1>5, <1>6, <1>7 DEF Spent, Underway, Trying
<1> QED
  BY <1>2, <1>8, SpentBecomes

LEMMA ExhaustedSpends == ASSUME IInv, SInv, NEW c \in Calls, Exhausted(c) PROVE SInv'
<1> DEFINE k == call[c]
           last == IF k.last.why = "none" THEN Error("exhausted", TRUE, 0) ELSE k.last
           r == [k EXCEPT !.pc = "failed", !.last = last]
<1>1. CallInv(k) /\ DOMAIN k = Fields /\ Spent(k)
  BY DEF IInv, CallInv, Shape, SInv
<1>2. k.pc = "next" /\ ~HasNext(k) /\ call' = [call EXCEPT ![c] = r]
  BY DEF Exhausted, Becomes
<1>3. /\ r.pc = "failed" /\ r.cands = k.cands /\ r.snap = k.snap /\ r.attempts = k.attempts
      /\ r.tries = k.tries
  BY <1>1 DEF Fields
<1> HIDE DEF k, r
<1>4. k.attempts = Allowed(k.snap)
  <2>1. CASE k.cands = <<>>
    BY <1>1, <1>2, <2>1 DEF Spent, Underway
  <2>2. CASE k.cands # <<>>
    <3>1. k.attempts >= k.snap.budget
      BY <1>1, <1>2, <2>2, ConfigIs DEF HasNext, CallInv, Shape
    <3> QED
      BY <1>1, <1>2, <2>2, <3>1, BudgetSpent DEF Underway
  <2> QED
    BY <2>1, <2>2
<1>5. Spent(r)
  BY <1>1, <1>3, <1>4 DEF Spent, Underway, Trying
<1> QED
  BY <1>2, <1>5, SpentBecomes DEF k

\* An attempt that failed for a transient reason goes on, unless it was the last
\* that is allowed.
LEMMA FailingSpends ==
    ASSUME NEW k, CallInv(k), Spent(k), k.pc \in {"sent", "reading"}, NEW err,
           err.transient \in BOOLEAN
    PROVE  Spent(Failing(k, err))
<1> DEFINE f == k.snap
           h == Head(k.cands)
           moreHere == k.tries < f.prov[h].max /\ k.attempts < f.budget
           moreProviders == Len(k.cands) > 1 /\ k.attempts < f.budget
           dirty == k.dirty \/ ExtractXMLToolCalls(k.own) # <<>>
           seen == [k EXCEPT !.last = err, !.asm = NewAssembler, !.fed = 0, !.own = <<>>,
                             !.dirty = dirty]
           r == Failing(k, err)
<1> SUFFICES Spent(r)
  OBVIOUS
<1>1. DOMAIN k = Fields
  BY DEF CallInv, Shape
<1>2. /\ DOMAIN seen = Fields /\ seen.last = err
      /\ \A x \in Fields \ {"last", "asm", "fed", "own", "dirty"} : seen[x] = k[x]
  BY <1>1 DEF Fields
<1>3. r = IF ~err.transient THEN [seen EXCEPT !.pc = "failed"]
          ELSE IF ~moreHere /\ ~moreProviders THEN [seen EXCEPT !.pc = "next", !.cands = <<>>]
          ELSE [seen EXCEPT !.pc = "backoff", !.retries = @ + 1, !.delay = Delay(k.retries + 1, err.after)]
  BY DEF Failing, Slot
<1> HIDE DEF r, seen, moreHere, moreProviders
<1>4. /\ r.last = err /\ r.tries = k.tries /\ r.attempts = k.attempts /\ r.snap = f
      /\ \/ r.pc = "failed" /\ ~err.transient
         \/ r.pc = "next" /\ r.cands = <<>> /\ ~moreHere /\ ~moreProviders
         \/ r.pc = "backoff" /\ r.cands = k.cands
  BY <1>2, <1>3 DEF Fields
<1>5. /\ k.cands \in Seq(Providers) /\ k.cands # <<>> /\ h \in Enabled(f)
      /\ Ledger(k) /\ k.tries \in Nat /\ k.attempts \in Nat /\ f \in Configs /\ f.budget \in Nat
  BY ConfigIs DEF Spent, Underway, Trying, CallInv, Shape
<1>6. CASE r.pc = "failed" /\ ~err.transient
  BY <1>4, <1>5, <1>6 DEF Spent, Underway, Trying
<1>7. CASE r.pc = "backoff" /\ r.cands = k.cands
  BY <1>4, <1>7, SpentQuiet DEF Underway, Trying
<1>8. CASE r.pc = "next" /\ r.cands = <<>> /\ ~moreHere /\ ~moreProviders
  <2>1. k.attempts = Allowed(f)
    <3>1. CASE k.attempts >= f.budget
      BY <1>5, <3>1, BudgetSpent DEF Underway
    <3>2. CASE k.attempts < f.budget
      <4> DEFINE all == Cardinality(Tries(f, Usable(f)))
                 ahead == Cardinality(Tries(f, {h}))
                 most == f.prov[h].max
      <4>1. most \in Nat /\ h \in DOMAIN f.prov
        BY <1>5, CallAssumption DEF Enabled
      <4>2. k.tries = most
        <5>1. k.tries <= most /\ ~ (k.tries < most)
          BY <1>5, <1>8, <3>2 DEF Ledger, moreHere
        <5> HIDE DEF most
        <5> QED
          BY <1>5, <4>1, <5>1
      <4>3. Len(k.cands) = 1 /\ h = k.cands[1]
        <5>1. Len(k.cands) \in Nat \ {0} /\ h = k.cands[1]
          BY <1>5, LenProperties, EmptySeq
        <5>2. ~ (Len(k.cands) > 1)
          BY <1>8, <3>2 DEF moreProviders
        <5> DEFINE n == Len(k.cands)
        <5>3. n \in Nat \ {0} /\ ~ (n > 1)
          BY <5>1, <5>2
        <5> HIDE DEF n
        <5>4. n = 1
          BY <5>3
        <5> QED
          BY <5>1, <5>4 DEF n
      <4>4. Ahead(k) = {h}
        <5>1. Range(k.cands) = {h}
          BY <1>5, <4>3, SeqRange
        <5> QED
          BY <1>5, <5>1 DEF Ahead
      <4>5. ahead = Cardinality(Tries(f, {})) + most
        <5>1. {h} \in SUBSET DOMAIN f.prov /\ {h} \ {h} = {}
          BY <4>1
        <5> QED
          BY <1>5, <5>1, TriesAre
      <4>6. ahead = most
        BY <4>1, <4>5, NoTries
      <4>7. k.attempts + ahead = all + k.tries
        BY <1>5, <4>4 DEF Ledger
      <4>8. all \in Nat /\ Allowed(f) = IF all <= f.budget THEN all ELSE f.budget
        BY <1>5, AllowedIs
      <4> HIDE DEF all, ahead, most
      <4> QED
        BY <1>5, <3>2, <4>1, <4>2, <4>6, <4>7, <4>8
    <3> QED
      BY <1>5, <3>1, <3>2
  <2>2. <<>> \in Seq(Providers) /\ IsInjective(<<>>)
    BY DEF IsInjective
  <2> QED
    BY <1>4, <1>5, <1>8, <2>1, <2>2 DEF Spent, Trying
<1> QED
  BY <1>4, <1>6, <1>7, <1>8

LEMMA ErrorSpends ==
    ASSUME NEW k, CallInv(k), Spent(k), k.pc \in {"sent", "reading"}, NEW why, NEW t \in BOOLEAN,
           NEW after
    PROVE  Spent(Failing(k, Error(why, t, after)))
<1>1. Error(why, t, after).transient \in BOOLEAN
  BY DEF Error
<1> QED
  BY <1>1, FailingSpends

LEMMA AgainSpends ==
    ASSUME NEW k, DOMAIN k = Fields, Spent(k), k.pc \in {"open", "sent"}, NEW q, DOMAIN q = Fields,
           q.cands = k.cands, q.tries = k.tries, q.attempts = k.attempts, q.snap = k.snap
    PROVE  Spent(Requesting(q))
<1> DEFINE r == Requesting(q)
<1>1. r = [q EXCEPT !.pc = "sent", !.requests = q.requests + 1,
                    !.late = IF q.cancelled THEN q.late + 1 ELSE q.late]
  BY DEF Requesting
<1> HIDE DEF r
<1>2. /\ r.pc = "sent" /\ r.cands = k.cands /\ r.tries = k.tries /\ r.attempts = k.attempts
      /\ r.snap = k.snap
  BY <1>1 DEF Fields
<1>3. Spent(r)
  BY <1>2, SpentQuiet DEF Underway, Trying
<1> QED
  BY <1>3 DEF r

LEMMA AnsweringSpends ==
    ASSUME NEW k, DOMAIN k = Fields, Spent(k), NEW payload
    PROVE  Spent(Answering(k, payload))
<1> DEFINE r == Answering(k, payload)
<1>1. /\ r.pc = "recover" /\ r.cands = k.cands /\ r.tries = k.tries /\ r.attempts = k.attempts
      /\ r.snap = k.snap
  BY DEF Answering, Fields
<1> HIDE DEF r
<1>2. Spent(r)
  BY <1>1, SpentQuiet DEF Underway, Trying
<1> QED
  BY <1>2 DEF r

LEMMA ReceiveSpends ==
    ASSUME IInv, SInv, NEW c \in Calls, NEW a \in Replies(c), Receive(c, a) PROVE SInv'
<1> DEFINE k == call[c]
           r == CASE a.kind = "connect" -> Failing(k, Error("connect", TRUE, 0))
                  [] a.kind = "status"  -> IF FallsBack(k, a) THEN Again(k)
                                           ELSE Failing(k, Error("status", a.transient, a.after))
                  [] a.kind = "body"    -> IF FallsBack(k, a) THEN Again(k)
                                           ELSE Failing(k, Error("body", FALSE, 0))
                  [] a.kind = "json"    -> IF FallsBack(k, a) THEN Again(k)
                                           ELSE Answering(k, a.payload)
<1>1. CallInv(k) /\ DOMAIN k = Fields /\ Spent(k)
  BY DEF IInv, CallInv, Shape, SInv
<1>2. k.pc = "sent" /\ call' = [call EXCEPT ![c] = r]
  BY DEF Receive, Becomes
<1>3. /\ a.kind \in {"connect", "status", "body", "json"}
      /\ a.kind = "status" => a.transient \in BOOLEAN
  BY CallAssumption
<1> HIDE DEF k
<1>4. Spent(Again(k))
  <2> DEFINE q == [k EXCEPT !.stream = FALSE, !.fallback = FALSE]
  <2>1. /\ DOMAIN q = Fields /\ q.cands = k.cands /\ q.tries = k.tries /\ q.attempts = k.attempts
        /\ q.snap = k.snap
    BY <1>1 DEF Fields
  <2> HIDE DEF q
  <2>2. Spent(Requesting(q))
    BY <1>1, <1>2, <2>1, AgainSpends
  <2> QED
    BY <2>2 DEF Again, q
<1>5. \A why, after : \A t \in BOOLEAN : Spent(Failing(k, Error(why, t, after)))
  BY <1>1, <1>2, ErrorSpends
<1>7. Spent(Answering(k, a.payload))
  BY <1>1, AnsweringSpends
<1>8. Spent(r)
  <2>1. CASE a.kind = "connect"
    BY <1>5, <2>1
  <2>2. CASE a.kind = "status"
    BY <1>3, <1>4, <1>5, <2>2
  <2>3. CASE a.kind = "body"
    BY <1>4, <1>5, <2>3
  <2>4. CASE a.kind = "json"
    BY <1>4, <1>7, <2>4
  <2> QED
    BY <1>3, <2>1, <2>2, <2>3, <2>4
<1> HIDE DEF r
<1> QED
  BY <1>2, <1>8, SpentBecomes

LEMMA StreamSpends ==
    ASSUME IInv, SInv, NEW c \in Calls, StreamEnds(c) \/ StreamLost(c) PROVE SInv'
<1> DEFINE k == call[c]
           v == Verdict(k.asm)
<1>1. CallInv(k) /\ DOMAIN k = Fields /\ Spent(k) /\ k.pc = "reading"
  BY DEF IInv, CallInv, Shape, SInv, StreamEnds, StreamLost
<1>2. Spent(Failing(k, Error("stream", TRUE, 0))) /\ Spent(Failing(k, Error("body", FALSE, 0)))
  <2>1. \A why : \A t \in BOOLEAN : Spent(Failing(k, Error(why, t, 0)))
    BY <1>1, ErrorSpends
  <2> QED
    BY <2>1
<1>3. Spent(Answering(k, Payload(k.asm)))
  BY <1>1, AnsweringSpends
<1>4. CASE StreamEnds(c)
  <2> DEFINE r == CASE v = "payload"   -> Answering(k, Payload(k.asm))
                    [] v = "transport" -> Failing(k, Error("stream", TRUE, 0))
                    [] v = "bad"       -> Failing(k, Error("body", FALSE, 0))
  <2>1. call' = [call EXCEPT ![c] = r]
    BY <1>4 DEF StreamEnds, Becomes
  <2>2. v \in {"bad", "transport", "payload"}
    BY DEF Verdict
  <2>3. Spent(r)
    BY <1>2, <1>3, <2>2
  <2> HIDE DEF r
  <2> QED
    BY <2>1, <2>3, SpentBecomes
<1>5. CASE StreamLost(c)
  BY <1>2, <1>5, SpentBecomes DEF StreamLost, Becomes
<1> QED
  BY <1>4, <1>5

\* Steps that leave the candidates and the counters alone.
LEMMA OtherSpends ==
    ASSUME IInv, SInv, NEW c \in Calls, NEW e,
           \/ CursorTruncate(c) \/ CursorWrite(c) \/ Send(c) \/ StreamStarts(c) \/ StreamEvent(c, e)
           \/ Backoff(c) \/ WakeUp(c) \/ WaitCancelled(c) \/ Recover(c) \/ Cancel(c)
    PROVE  SInv'
<1> DEFINE k == call[c]
           Same(r) == /\ r.cands = k.cands /\ r.tries = k.tries /\ r.attempts = k.attempts
                      /\ r.snap = k.snap
<1>1. CallInv(k) /\ DOMAIN k = Fields /\ Spent(k)
  BY DEF IInv, CallInv, Shape, SInv
<1>2. CASE CursorTruncate(c)
  <2> DEFINE r == [k EXCEPT !.pc = "write"]
  <2>1. k.pc = "truncate" /\ call' = [call EXCEPT ![c] = r] /\ Same(r) /\ r.pc = "write"
    BY <1>1, <1>2 DEF CursorTruncate, Fields
  <2> HIDE DEF r
  <2>2. Spent(r)
    BY <1>1, <2>1, SpentQuiet DEF Underway, Trying
  <2> QED
    BY <2>1, <2>2, SpentBecomes
<1>3. CASE CursorWrite(c) \/ WakeUp(c)
  <2> DEFINE r == IF k.pc = "write" THEN [k EXCEPT !.pc = "next"]
                  ELSE [k EXCEPT !.pc = "next", !.slept = @ + k.delay, !.delay = 0]
  <2>1. /\ k.pc \in {"write", "asleep"} /\ call' = [call EXCEPT ![c] = r]
        /\ Same(r) /\ r.pc = "next"
    BY <1>1, <1>3 DEF CursorWrite, WakeUp, Becomes, Fields
  <2> HIDE DEF r
  <2>2. Spent(r)
    BY <1>1, <2>1, SpentQuiet DEF Underway, Trying
  <2> QED
    BY <2>1, <2>2, SpentBecomes
<1>4. CASE Send(c)
  <2> DEFINE q == [k EXCEPT !.stream = cfg.stream /\ k.api # "messages", !.fallback = k.api # "messages"]
  <2>1. k.pc = "open" /\ call' = [call EXCEPT ![c] = Requesting(q)] /\ DOMAIN q = Fields /\ Same(q)
    BY <1>1, <1>4 DEF Send, Becomes, Fields
  <2> HIDE DEF q
  <2>2. Spent(Requesting(q))
    BY <1>1, <2>1, AgainSpends
  <2> QED
    BY <2>1, <2>2, SpentBecomes
<1>5. CASE StreamStarts(c)
  <2> DEFINE r == [k EXCEPT !.pc = "reading"]
  <2>1. k.pc = "sent" /\ call' = [call EXCEPT ![c] = r] /\ Same(r) /\ r.pc = "reading"
    BY <1>1, <1>5 DEF StreamStarts, Becomes, Fields
  <2> HIDE DEF r
  <2>2. Spent(r)
    BY <1>1, <2>1, SpentQuiet DEF Underway, Trying
  <2> QED
    BY <2>1, <2>2, SpentBecomes
<1>6. CASE StreamEvent(c, e)
  <2> DEFINE r == [k EXCEPT !.asm = Feed(@, e), !.fed = @ + 1,
                            !.own = @ \o Emitted(e), !.streamed = @ \o Emitted(e)]
  <2>1. call' = [call EXCEPT ![c] = r] /\ Same(r) /\ k.pc = "reading" /\ r.pc = k.pc
    BY <1>1, <1>6 DEF StreamEvent, Becomes, Fields
  <2> HIDE DEF r
  <2>2. Spent(r)
    BY <1>1, <2>1, SpentQuiet DEF Underway, Trying
  <2> QED
    BY <2>1, <2>2, SpentBecomes
<1>7. CASE Backoff(c)
  <2> DEFINE r == [k EXCEPT !.pc = IF k.cancelled THEN "failed" ELSE "asleep"]
  <2>1. /\ k.pc = "backoff" /\ call' = [call EXCEPT ![c] = r] /\ Same(r)
        /\ r.cancelled = k.cancelled /\ r.pc = IF k.cancelled THEN "failed" ELSE "asleep"
    BY <1>1, <1>7 DEF Backoff, Becomes, Fields
  <2> HIDE DEF r
  <2>2. Spent(r)
    BY <1>1, <2>1, SpentQuiet DEF Underway, Trying
  <2> QED
    BY <2>1, <2>2, SpentBecomes
<1>8. CASE WaitCancelled(c)
  <2> DEFINE r == [k EXCEPT !.pc = "failed"]
  <2>1. /\ k.cancelled /\ call' = [call EXCEPT ![c] = r] /\ Same(r)
        /\ r.cancelled = k.cancelled /\ r.pc = "failed"
    BY <1>1, <1>8 DEF WaitCancelled, Becomes, Fields
  <2> HIDE DEF r
  <2>2. Spent(r)
    BY <1>1, <2>1, SpentQuiet DEF Underway, Trying
  <2> QED
    BY <2>1, <2>2, SpentBecomes
<1>9. CASE Recover(c)
  <2> DEFINE r == [k EXCEPT !.pc = "done", !.result = RecoverXMLToolCalls(k.result, k.streamed)]
  <2>1. call' = [call EXCEPT ![c] = r] /\ Same(r) /\ r.pc = "done"
    BY <1>1, <1>9 DEF Recover, Becomes, Fields
  <2> HIDE DEF r
  <2>2. Spent(r)
    BY <1>1, <2>1, SpentQuiet DEF Underway, Trying
  <2> QED
    BY <2>1, <2>2, SpentBecomes
<1>10. CASE Cancel(c)
  <2> DEFINE r == [k EXCEPT !.cancelled = TRUE]
  <2>1. call' = [call EXCEPT ![c] = r] /\ Same(r) /\ r.pc = k.pc /\ r.cancelled
    BY <1>1, <1>10 DEF Cancel, Becomes, Fields
  <2> HIDE DEF r
  <2>2. Spent(r)
    BY <1>1, <2>1, SpentQuiet
  <2> QED
    BY <2>1, <2>2, SpentBecomes
<1> QED
  BY <1>2, <1>3, <1>4, <1>5, <1>6, <1>7, <1>8, <1>9, <1>10

LEMMA ReloadSpends == ASSUME IInv, SInv, NEW f \in Configs, Reload(f) PROVE SInv'
<1>1. ASSUME NEW c \in Calls PROVE Spent(call'[c])
  <2> DEFINE k == call[c]
             r == [k EXCEPT !.overtaken = @ \/ k.pc # "start"]
  <2>1. DOMAIN k = Fields /\ Spent(k) /\ call'[c] = r
    BY DEF IInv, CallInv, Shape, SInv, Reload
  <2>2. \A x \in Fields \ {"overtaken"} : r[x] = k[x]
    BY <2>1 DEF Fields
  <2>3. /\ r.cands = k.cands /\ r.tries = k.tries /\ r.attempts = k.attempts /\ r.snap = k.snap
        /\ r.pc = k.pc /\ r.last = k.last /\ r.cancelled = k.cancelled
    BY <2>2 DEF Fields
  <2> HIDE DEF k, r
  <2>4. Spent(r)
    BY <2>1, <2>3, SpentQuiet
  <2> QED
    BY <2>1, <2>4
<1> QED
  BY <1>1 DEF SInv

LEMMA InitSInv == Init => SInv
<1> SUFFICES ASSUME Init, NEW c \in Calls PROVE Spent(call[c])
  BY DEF SInv
<1>1. PICK d \in Calls : \E p \in Pins(d) : call[c] = NewCall(d, p, cfg)
  BY DEF Init
<1>2. call[c].pc = "start" /\ call[c].tries = 0
  BY <1>1 DEF NewCall
<1> QED
  BY <1>2 DEF Spent, Underway, Trying

LEMMA StepSInv == IInv /\ SInv /\ [Next]_vars => SInv'
<1> SUFFICES ASSUME IInv, SInv, [Next]_vars PROVE SInv'
  OBVIOUS
<1>1. ASSUME NEW c \in Calls, Step(c) PROVE SInv'
  <2>1. CASE Snapshot(c) \/ SkipDisabled(c) \/ NextProvider(c) \/ Attempt(c) \/ Exhausted(c)
    BY <2>1, SnapshotSpends, LeavingSpends, AttemptSpends, ExhaustedSpends
  <2>2. CASE \E a \in Replies(c) : Receive(c, a)
    BY <2>2, ReceiveSpends
  <2>3. CASE StreamEnds(c) \/ StreamLost(c)
    BY <2>3, StreamSpends
  <2>4. CASE \E e \in Events(c) : StreamEvent(c, e)
    BY <2>4, OtherSpends
  <2>5. CASE \/ CursorTruncate(c) \/ CursorWrite(c) \/ Send(c) \/ StreamStarts(c)
             \/ Backoff(c) \/ WakeUp(c) \/ WaitCancelled(c) \/ Recover(c)
    BY <2>5, OtherSpends
  <2> QED
    BY <1>1, <2>1, <2>2, <2>3, <2>4, <2>5 DEF Step
<1>2. ASSUME NEW c \in Calls, Cancel(c) PROVE SInv'
  BY <1>2, OtherSpends
<1>3. ASSUME NEW f \in Configs, Reload(f) PROVE SInv'
  BY <1>3, ReloadSpends
<1>4. CASE UNCHANGED vars
  BY <1>4 DEF vars, SInv
<1> QED
  BY <1>1, <1>2, <1>3, <1>4 DEF Next

\* A call that gives up on transient errors has made every attempt that its
\* snapshot allows, whatever the answers, the cursor and the reloads.
THEOREM GivesUpLate == Spec => []GivesUpOnlyWhenSpent
<1>1. SInv => GivesUpOnlyWhenSpent
  BY DEF SInv, Spent, GivesUpOnlyWhenSpent
<1>2. Spec => []SInv
  BY InitIInv, StepIInv, InitSInv, StepSInv, PTL DEF Spec
<1> QED
  BY <1>1, <1>2, PTL
-----------------------------------------------------------------------------
(* Sequences that are put together *)

LEMMA IsSeqIs ==
    ASSUME NEW s
    PROVE  IsSeq(s) <=> \E n \in Nat : \E S : s \in [1..n -> S]
<1>1. ASSUME IsSeq(s) PROVE \E n \in Nat : \E S : s \in [1..n -> S]
  <2>1. s \in [1..Len(s) -> Range(s)] /\ Len(s) \in Nat
    BY <1>1, LenProperties DEF IsSeq
  <2> QED
    BY <2>1
<1>2. ASSUME NEW n \in Nat, \E S : s \in [1..n -> S] PROVE IsSeq(s)
  <2>1. PICK S : s \in [1..n -> S]
    BY <1>2
  <2>2. s \in [1..n -> Range(s)]
    BY <2>1 DEF Range
  <2> QED
    BY <2>2 DEF IsSeq
<1> QED
  BY <1>1, <1>2

LEMMA InSeq == ASSUME NEW S, NEW s \in Seq(S) PROVE IsSeq(s) /\ Range(s) \subseteq S
<1>1. s \in [1..Len(s) -> S] /\ Len(s) \in Nat
  BY LenProperties
<1> QED
  BY <1>1, IsSeqIs DEF Range

LEMMA IsSeqHas ==
    ASSUME NEW s, IsSeq(s)
    PROVE  /\ Len(s) \in Nat /\ DOMAIN s = 1..Len(s) /\ \A i \in 1..Len(s) : s[i] \in Range(s)
           /\ Range(s) = {s[i] : i \in 1..Len(s)}
BY LenProperties DEF IsSeq, Range

LEMMA CatIs ==
    ASSUME NEW s, IsSeq(s), NEW t, IsSeq(t)
    PROVE  /\ IsSeq(s \o t) /\ Len(s \o t) = Len(s) + Len(t)
           /\ Range(s \o t) = Range(s) \cup Range(t)
           /\ \A i \in 1..Len(s) : (s \o t)[i] = s[i]
           /\ \A i \in 1..Len(t) : (s \o t)[Len(s) + i] = t[i]
<1> DEFINE S == Range(s) \cup Range(t)
           r == s \o t
<1>1. s \in Seq(S) /\ t \in Seq(S)
  <2>1. s \in Seq(Range(s)) /\ t \in Seq(Range(t))
    BY DEF IsSeq
  <2> QED
    BY <2>1
<1>2. /\ r \in Seq(S) /\ Len(r) = Len(s) + Len(t) /\ DOMAIN r = 1..(Len(s) + Len(t))
      /\ Len(s) \in Nat /\ Len(t) \in Nat /\ DOMAIN s = 1..Len(s) /\ DOMAIN t = 1..Len(t)
      /\ \A i \in 1..(Len(s) + Len(t)) : r[i] = IF i <= Len(s) THEN s[i] ELSE t[i - Len(s)]
  BY <1>1, ConcatProperties, LenProperties
<1> HIDE DEF r
<1>3. \A i \in 1..Len(s) : r[i] = s[i] /\ i \in DOMAIN r
  BY <1>2
<1>4. \A i \in 1..Len(t) : r[Len(s) + i] = t[i] /\ Len(s) + i \in DOMAIN r
  <2> TAKE i \in 1..Len(t)
  <2>1. Len(s) + i \in 1..(Len(s) + Len(t)) /\ ~ (Len(s) + i <= Len(s)) /\ (Len(s) + i) - Len(s) = i
    BY <1>2
  <2> QED
    BY <1>2, <2>1
<1>5. Range(r) = S
  <2>1. S \subseteq Range(r)
    <3>1. \A x \in Range(s) : x \in Range(r)
      BY <1>2, <1>3 DEF Range
    <3>2. \A x \in Range(t) : x \in Range(r)
      <4> TAKE x \in Range(t)
      <4>1. PICK i \in 1..Len(t) : x = t[i]
        BY <1>2 DEF Range
      <4> QED
        BY <1>4, <4>1 DEF Range
    <3> QED
      BY <3>1, <3>2
  <2> QED
    BY <1>2, <2>1, InSeq
<1>6. IsSeq(r)
  BY <1>2, InSeq
<1> QED
  BY <1>2, <1>3, <1>4, <1>5, <1>6 DEF r

LEMMA CatTexts ==
    ASSUME NEW s, IsText(s), NEW t, IsText(t)
    PROVE  IsText(s \o t)
BY CatIs DEF IsText

LEMMA NoText == IsSeq(<<>>) /\ IsText(<<>>) /\ Range(<<>>) = {}
<1>1. IsSeq(<<>>)
  <2>1. <<>> \in Seq({})
    OBVIOUS
  <2> QED
    BY <2>1, InSeq
<1>2. \A p \in Range(<<>>) : FALSE
  BY DEF Range
<1> QED
  BY <1>1, <1>2 DEF IsText

\* What is built one step after the other.
Built(f, n, v, g) == f[0] = v /\ \A i \in 1..n : f[i] = g[i][f[i - 1]]

LEMMA Piling ==
    ASSUME NEW n \in Nat, NEW V, NEW v \in V, NEW g \in [1..n -> [V -> V]]
    PROVE  \E f \in [0..n -> V] : Built(f, n, v, g)
<1> USE DEF Built
<1> DEFINE Piled(m, f) == f \in [0..m -> V] /\ Built(f, m, v, g)
           Bad == {m \in 0..n : \A f : ~Piled(m, f)}
<1>1. 0 \notin Bad
  <2>1. Piled(0, [i \in {0} |-> v])
    OBVIOUS
  <2> QED
    BY <2>1
<1>2. ASSUME NEW m \in 1..n, m - 1 \notin Bad PROVE m \notin Bad
  <2>1. PICK f : Piled(m - 1, f)
    BY <1>2
  <2> DEFINE h == [i \in 0..m |-> IF i = m THEN g[m][f[m - 1]] ELSE f[i]]
  <2>2. f[m - 1] \in V
    BY <2>1
  <2>3. g[m][f[m - 1]] \in V
    BY <2>2
  <2>4. h \in [0..m -> V] /\ h[m] = g[m][f[m - 1]] /\ \A i \in 0..(m - 1) : h[i] = f[i]
    BY <2>1, <2>3
  <2> HIDE DEF h
  <2>5. \A i \in 1..m : h[i] = g[i][h[i - 1]]
    BY <2>1, <2>4
  <2>6. Piled(m, h)
    BY <2>1, <2>4, <2>5
  <2> QED
    BY <2>6
<1>3. Bad = {}
  <2> SUFFICES ASSUME Bad # {} PROVE FALSE
    OBVIOUS
  <2>1. Bad \subseteq 0..n
    OBVIOUS
  <2> HIDE DEF Bad
  <2>2. PICK m \in Bad : \A y \in Bad : m <= y
    BY <2>1, Least
  <2>3. m \in 1..n
    BY <1>1, <2>1
  <2>4. m - 1 \notin Bad
    BY <2>2, <2>3
  <2> QED
    BY <1>2, <2>3, <2>4
<1>4. n \in 0..n
  OBVIOUS
<1>5. \E f : Piled(n, f)
  <2> HIDE DEF Piled
  <2> QED
    BY <1>3, <1>4
<1> QED
  BY <1>5

\* ... and is the only thing that is built so.
LEMMA PiledOnce ==
    ASSUME NEW n \in Nat, NEW f, NEW h, f[0] = h[0],
           \A i \in 1..n : f[i - 1] = h[i - 1] => f[i] = h[i]
    PROVE  f[n] = h[n]
<1> DEFINE Bad == {i \in 0..n : f[i] # h[i]}
<1>1. Bad \subseteq 0..n
  OBVIOUS
<1>2. \A i \in 0..n : i \notin Bad <=> f[i] = h[i]
  OBVIOUS
<1> HIDE DEF Bad
<1>3. Bad = {}
  <2> SUFFICES ASSUME Bad # {} PROVE FALSE
    OBVIOUS
  <2>1. PICK m \in Bad : \A y \in Bad : m <= y
    BY <1>1, Least
  <2>2. m \in 1..n /\ m - 1 \in 0..n
    BY <1>1, <1>2
  <2>3. m - 1 \notin Bad
    BY <2>1, <2>2
  <2> QED
    BY <1>2, <2>2, <2>3
<1> QED
  BY <1>2, <1>3

\* The sequences that FlattenSeq passes through.
Pile(ss, f) == f[0] = <<>> /\ \A i \in 1..Len(ss) : f[i] = f[i - 1] \o ss[i]

LEMMA Piles ==
    ASSUME NEW ss, IsSeq(ss), NEW S, \A x \in Range(ss) : x \in Seq(S)
    PROVE  \E f \in [0..Len(ss) -> Seq(S)] : Pile(ss, f)
<1> DEFINE n == Len(ss)
           g == [i \in 1..n |-> [v \in Seq(S) |-> v \o ss[i]]]
<1>1. n \in Nat /\ \A i \in 1..n : ss[i] \in Seq(S)
  BY IsSeqHas
<1>2. g \in [1..n -> [Seq(S) -> Seq(S)]]
  BY <1>1
<1>3. <<>> \in Seq(S)
  OBVIOUS
<1>4. \A i \in 1..n : \A v \in Seq(S) : g[i][v] = v \o ss[i]
  OBVIOUS
<1> DEFINE V == Seq(S)
<1>b. n \in Nat /\ <<>> \in V /\ g \in [1..n -> [V -> V]]
  BY <1>1, <1>2, <1>3
<1> HIDE DEF n, g, V
<1>c. PICK f \in [0..n -> V] : Built(f, n, <<>>, g)
  BY <1>b, Piling
<1> USE DEF V
<1>5. f \in [0..n -> Seq(S)] /\ f[0] = <<>> /\ \A i \in 1..n : f[i] = g[i][f[i - 1]]
  BY <1>c DEF Built
<1>6. \A i \in 1..n : f[i] = f[i - 1] \o ss[i]
  <2> TAKE i \in 1..n
  <2>1. i - 1 \in 0..n
    BY <1>1
  <2> QED
    BY <1>4, <1>5, <2>1
<1>7. Pile(ss, f)
  BY <1>5, <1>6 DEF Pile, n
<1> QED
  BY <1>5, <1>7 DEF n

LEMMA FlattenIs ==
    ASSUME NEW ss, IsSeq(ss), NEW S, \A x \in Range(ss) : x \in Seq(S), NEW f, Pile(ss, f)
    PROVE  FlattenSeq(ss) = f[Len(ss)] /\ FlattenSeq(ss) \in Seq(S)
<1> DEFINE n == Len(ss)
           Unfolds(F) == F = [i \in 1..n |-> IF i = 1 THEN ss[i] ELSE F[i - 1] \o ss[i]]
           G == CHOOSE F : Unfolds(F)
<1>1. n \in Nat /\ \A i \in 1..n : ss[i] \in Seq(S)
  BY IsSeqHas
<1>2. PICK h \in [0..n -> Seq(S)] : Pile(ss, h)
  BY Piles
<1>3. h[0] = <<>> /\ \A i \in 1..n : h[i] = h[i - 1] \o ss[i]
  BY <1>2 DEF Pile
<1>4. f[0] = <<>> /\ \A i \in 1..n : f[i] = f[i - 1] \o ss[i]
  BY DEF Pile
<1>5. f[n] = h[n]
  <2>1. \A i \in 1..n : f[i - 1] = h[i - 1] => f[i] = h[i]
    BY <1>3, <1>4
  <2>2. n \in Nat /\ f[0] = h[0]
    BY <1>1, <1>3, <1>4
  <2> HIDE DEF n
  <2> QED
    BY <2>1, <2>2, PiledOnce
<1>6. CASE n = 0
  <2>1. FlattenSeq(ss) = ss
    BY <1>6 DEF FlattenSeq
  <2>2. ss = <<>>
    BY <1>6, EmptySeq DEF IsSeq
  <2> QED
    BY <1>3, <1>4, <1>6, <2>1, <2>2
<1>7. CASE n # 0
  <2>1. FlattenSeq(ss) = G[n]
    BY <1>7 DEF FlattenSeq
  <2>2. n \in 1..n /\ 1 \in 1..n
    BY <1>1, <1>7
  <2>a. ss[1] \in Seq(S) /\ h[1] = <<>> \o ss[1]
    <3> HIDE DEF n
    <3>1. h[1] = h[1 - 1] \o ss[1]
      BY <1>3, <2>2
    <3>2. h[1 - 1] = <<>>
      BY <1>3
    <3>3. ss[1] \in Seq(S)
      BY <1>1, <2>2
    <3> QED
      BY <3>1, <3>2, <3>3
  <2>b. h[1] = ss[1]
    BY <2>a, ConcatEmptySeq
  <2> DEFINE H == [i \in 1..n |-> h[i]]
  <2>3. Unfolds(H)
    <3>1. \A i \in 1..n : h[i] = IF i = 1 THEN ss[i] ELSE H[i - 1] \o ss[i]
      <4> TAKE i \in 1..n
      <4>1. CASE i = 1
        BY <2>b, <4>1
      <4>2. CASE i # 1
        <5>1. i - 1 \in 1..n
          BY <1>1, <4>2
        <5>2. H[i - 1] = h[i - 1]
          BY <5>1
        <5> QED
          BY <1>3, <4>2, <5>2
      <4> QED
        BY <4>1, <4>2
    <3> QED
      BY <3>1
  <2>4. Unfolds(G)
    BY <2>3
  <2>5. \A i \in 1..n : G[i] = IF i = 1 THEN ss[i] ELSE G[i - 1] \o ss[i]
    BY <2>4
  <2> HIDE DEF G, H, Unfolds
  <2> DEFINE K == [i \in 0..n |-> IF i = 0 THEN <<>> ELSE G[i]]
  <2>6. K[0] = <<>> /\ \A i \in 1..n : K[i] = G[i]
    BY <1>1
  <2> HIDE DEF K, n
  <2>7. \A i \in 1..n : K[i - 1] = h[i - 1] => K[i] = h[i]
    <3> SUFFICES ASSUME NEW i \in 1..n, K[i - 1] = h[i - 1] PROVE K[i] = h[i]
      OBVIOUS
    <3>1. CASE i = 1
      <4>1. G[1] = ss[1]
        BY <2>2, <2>5
      <4> QED
        BY <2>2, <2>6, <2>b, <3>1, <4>1
    <3>2. CASE i # 1
      <4>1. i - 1 \in 1..n
        BY <1>1, <3>2
      <4>2. K[i] = K[i - 1] \o ss[i]
        BY <2>5, <2>6, <3>2, <4>1
      <4> QED
        BY <1>3, <4>2
    <3> QED
      BY <3>1, <3>2
  <2>8. K[n] = h[n]
    <3>1. K[0] = h[0] /\ n \in Nat
      BY <1>1, <1>3, <2>6
    <3> QED
      BY <2>7, <3>1, PiledOnce
  <2>9. G[n] = h[n] /\ h[n] \in Seq(S)
    BY <1>1, <1>2, <2>2, <2>6, <2>8
  <2> QED
    BY <1>5, <2>1, <2>9 DEF n
<1> QED
  BY <1>6, <1>7

LEMMA FlattenSeqIs ==
    ASSUME NEW ss, IsSeq(ss), \A x \in Range(ss) : IsSeq(x)
    PROVE  /\ IsSeq(FlattenSeq(ss))
           /\ \A y \in Range(FlattenSeq(ss)) : \E x \in Range(ss) : y \in Range(x)
<1> DEFINE S == UNION {Range(x) : x \in Range(ss)}
<1>1. \A x \in Range(ss) : x \in Seq(S)
  <2> TAKE x \in Range(ss)
  <2>1. x \in Seq(Range(x)) /\ Range(x) \subseteq S
    BY DEF IsSeq
  <2> HIDE DEF S
  <2> QED
    BY <2>1, SeqMonotonic
<1>2. \A y \in S : \E x \in Range(ss) : y \in Range(x)
  OBVIOUS
<1> HIDE DEF S
<1>3. PICK f \in [0..Len(ss) -> Seq(S)] : Pile(ss, f)
  BY <1>1, Piles
<1>4. FlattenSeq(ss) \in Seq(S)
  BY <1>1, <1>3, FlattenIs
<1> QED
  BY <1>2, <1>4, InSeq

LEMMA FlattenCat ==
    ASSUME NEW ss, IsSeq(ss), \A x \in Range(ss) : IsSeq(x),
           NEW tt, IsSeq(tt), \A x \in Range(tt) : IsSeq(x)
    PROVE  FlattenSeq(ss \o tt) = FlattenSeq(ss) \o FlattenSeq(tt)
<1> DEFINE n == Len(ss)
           m == Len(tt)
           uu == ss \o tt
           S == UNION {Range(x) : x \in Range(ss) \cup Range(tt)}
<1>0. \A x \in Range(ss) \cup Range(tt) : x \in Seq(S)
  <2> TAKE x \in Range(ss) \cup Range(tt)
  <2>1. x \in Seq(Range(x)) /\ Range(x) \subseteq S
    BY DEF IsSeq
  <2> HIDE DEF S
  <2> QED
    BY <2>1, SeqMonotonic
<1>a. (\A x \in Range(ss) : x \in Seq(S)) /\ \A x \in Range(tt) : x \in Seq(S)
  BY <1>0
<1> HIDE DEF S
<1>1. /\ IsSeq(uu) /\ Len(uu) = n + m /\ n \in Nat /\ m \in Nat
      /\ \A x \in Range(uu) : x \in Seq(S)
      /\ \A i \in 1..n : uu[i] = ss[i]
      /\ \A i \in 1..m : uu[n + i] = tt[i]
  <2>1. /\ IsSeq(uu) /\ Len(uu) = n + m /\ Range(uu) = Range(ss) \cup Range(tt)
        /\ \A i \in 1..n : uu[i] = ss[i]
        /\ \A i \in 1..m : uu[n + i] = tt[i]
    BY CatIs
  <2>2. n \in Nat /\ m \in Nat
    BY IsSeqHas
  <2> HIDE DEF n, m, uu
  <2> QED
    BY <1>0, <2>1, <2>2
<1>2. \A i \in 1..m : tt[i] \in Seq(S)
  BY <1>a, IsSeqHas
<1> HIDE DEF uu
<1>3. PICK g \in [0..n -> Seq(S)] : Pile(ss, g)
  BY <1>a, Piles
<1>4. PICK h \in [0..m -> Seq(S)] : Pile(tt, h)
  BY <1>a, Piles
<1>5. PICK f \in [0..(n + m) -> Seq(S)] : Pile(uu, f)
  BY <1>1, Piles
<1>6. FlattenSeq(ss) = g[n] /\ FlattenSeq(tt) = h[m] /\ FlattenSeq(uu) = f[n + m]
  BY <1>1, <1>3, <1>4, <1>5, <1>a, FlattenIs
<1>7. /\ g[0] = <<>> /\ \A i \in 1..n : g[i] = g[i - 1] \o ss[i]
      /\ h[0] = <<>> /\ \A i \in 1..m : h[i] = h[i - 1] \o tt[i]
      /\ f[0] = <<>> /\ \A i \in 1..(n + m) : f[i] = f[i - 1] \o uu[i]
  BY <1>1, <1>3, <1>4, <1>5 DEF Pile
<1> HIDE DEF n, m
<1>8. f[n] = g[n]
  <2>1. \A i \in 1..n : f[i - 1] = g[i - 1] => f[i] = g[i]
    <3> TAKE i \in 1..n
    <3>1. i \in 1..(n + m)
      BY <1>1
    <3> QED
      BY <1>1, <1>7, <3>1
  <2>2. f[0] = g[0]
    BY <1>7
  <2> QED
    BY <1>1, <2>1, <2>2, PiledOnce
<1>9. g[n] \in Seq(S)
  BY <1>1, <1>3
<1> DEFINE K == [i \in 0..m |-> f[n + i]]
           L == [i \in 0..m |-> g[n] \o h[i]]
<1>10. K[0] = L[0]
  <2>1. K[0] = f[n] /\ L[0] = g[n] \o <<>>
    <3>1. 0 \in 0..m /\ n + 0 = n
      BY <1>1
    <3>2. K[0] = f[n + 0] /\ L[0] = g[n] \o h[0]
      BY <3>1
    <3> QED
      BY <1>7, <3>1, <3>2
  <2>2. g[n] \o <<>> = g[n]
    BY <1>9, ConcatEmptySeq
  <2> QED
    BY <1>8, <2>1, <2>2
<1>11. \A i \in 1..m : K[i - 1] = L[i - 1] => K[i] = L[i]
  <2> SUFFICES ASSUME NEW i \in 1..m, K[i - 1] = L[i - 1] PROVE K[i] = L[i]
    OBVIOUS
  <2>1. i - 1 \in 0..m /\ i \in 0..m /\ n + i \in 1..(n + m) /\ (n + i) - 1 = n + (i - 1)
    BY <1>1
  <2>2. K[i] = f[n + i] /\ L[i] = g[n] \o h[i] /\ f[n + (i - 1)] = g[n] \o h[i - 1]
    BY <2>1
  <2>3. f[n + i] = f[n + (i - 1)] \o tt[i]
    <3>1. f[n + i] = f[(n + i) - 1] \o uu[n + i]
      BY <1>7, <2>1
    <3> QED
      BY <1>1, <2>1, <3>1
  <2>4. h[i] = h[i - 1] \o tt[i]
    BY <1>7
  <2>5. h[i - 1] \in Seq(S) /\ tt[i] \in Seq(S)
    BY <1>2, <1>4, <2>1
  <2>6. (g[n] \o h[i - 1]) \o tt[i] = g[n] \o (h[i - 1] \o tt[i])
    <3> DEFINE x == g[n]
               y == h[i - 1]
               z == tt[i]
    <3>1. x \in Seq(S) /\ y \in Seq(S) /\ z \in Seq(S)
      BY <1>9, <2>5
    <3> HIDE DEF x, y, z
    <3>2. (x \o y) \o z = x \o (y \o z)
      BY <3>1
    <3> QED
      BY <3>2 DEF x, y, z
  <2> QED
    BY <2>2, <2>3, <2>4, <2>6
<1>12. K[m] = L[m]
  <2> HIDE DEF K, L
  <2> QED
    BY <1>1, <1>10, <1>11, PiledOnce
<1>13. f[n + m] = g[n] \o h[m]
  BY <1>1, <1>12
<1> QED
  BY <1>6, <1>13 DEF uu

\* The written calls of a piece of text.
Blocks(t) == [i \in DOMAIN t |-> IF t[i].kind = "xml" THEN t[i].calls ELSE <<>>]

LEMMA BlocksAre ==
    ASSUME NEW t, IsText(t)
    PROVE  /\ IsSeq(Blocks(t)) /\ Len(Blocks(t)) = Len(t)
           /\ \A x \in Range(Blocks(t)) : IsSeq(x)
<1> DEFINE n == Len(t)
           b == Blocks(t)
<1>1. n \in Nat /\ DOMAIN t = 1..n /\ \A i \in 1..n : t[i] \in Range(t)
  BY IsSeqHas DEF IsText
<1>2. DOMAIN b = 1..n /\ \A i \in 1..n : b[i] = IF t[i].kind = "xml" THEN t[i].calls ELSE <<>>
  BY <1>1 DEF Blocks
<1>3. \A x \in Range(b) : IsSeq(x)
  BY <1>1, <1>2, NoText DEF IsText, Range
<1>4. b \in [1..n -> Range(b)]
  BY <1>1 DEF Blocks, Range
<1> HIDE DEF b
<1>5. IsSeq(b)
  BY <1>1, <1>4, IsSeqIs
<1>6. Len(b) = n
  <2>1. b \in Seq(Range(b)) /\ Len(b) \in Nat /\ 1..n = 1..Len(b)
    BY <1>2, <1>5, IsSeqHas DEF IsSeq
  <2> HIDE DEF n
  <2> QED
    BY <1>1, <2>1, LenProperties, IsASeq, <1>4
<1> QED
  BY <1>3, <1>5, <1>6 DEF b

LEMMA ExtractIs ==
    ASSUME NEW t, IsText(t)
    PROVE  IsSeq(ExtractXMLToolCalls(t))
<1>1. ExtractXMLToolCalls(t) = FlattenSeq(Blocks(t))
  BY DEF ExtractXMLToolCalls, Blocks
<1> QED
  BY <1>1, BlocksAre, FlattenSeqIs

LEMMA ExtractNothing == ExtractXMLToolCalls(<<>>) = <<>>
<1>1. [i \in DOMAIN <<>> |-> IF <<>>[i].kind = "xml" THEN <<>>[i].calls ELSE <<>>] = <<>>
  OBVIOUS
<1>2. FlattenSeq(<<>>) = <<>>
  BY DEF FlattenSeq
<1> QED
  BY <1>1, <1>2 DEF ExtractXMLToolCalls

\* The calls of a text that goes on are those so far and those that follow.
LEMMA ExtractCat ==
    ASSUME NEW s, IsText(s), NEW t, IsText(t)
    PROVE  ExtractXMLToolCalls(s \o t) = ExtractXMLToolCalls(s) \o ExtractXMLToolCalls(t)
<1> DEFINE n == Len(s)
           m == Len(t)
           u == s \o t
           b == Blocks(s) \o Blocks(t)
<1>1. \A x : ExtractXMLToolCalls(x) = FlattenSeq(Blocks(x))
  BY DEF ExtractXMLToolCalls, Blocks
<1>2. /\ IsSeq(Blocks(s)) /\ Len(Blocks(s)) = n /\ \A x \in Range(Blocks(s)) : IsSeq(x)
      /\ IsSeq(Blocks(t)) /\ Len(Blocks(t)) = m /\ \A x \in Range(Blocks(t)) : IsSeq(x)
  BY BlocksAre
<1>3. IsSeq(b) /\ Len(b) = n + m
  BY <1>2, CatIs
<1>4. /\ IsSeq(u) /\ Len(u) = n + m /\ n \in Nat /\ m \in Nat /\ DOMAIN s = 1..n /\ DOMAIN t = 1..m
      /\ \A i \in 1..n : u[i] = s[i]
      /\ \A i \in 1..m : u[n + i] = t[i]
  BY CatIs, IsSeqHas DEF IsText
<1>5. /\ \A i \in 1..n : b[i] = Blocks(s)[i]
      /\ \A i \in 1..m : b[n + i] = Blocks(t)[i]
  BY <1>2, CatIs
<1> HIDE DEF n, m, u, b
<1>6. DOMAIN u = 1..(n + m) /\ DOMAIN b = 1..(n + m)
  BY <1>3, <1>4, IsSeqHas
<1>7. \A i \in 1..(n + m) : b[i] = Blocks(u)[i]
  <2> TAKE i \in 1..(n + m)
  <2>1. CASE i <= n
    <3>1. i \in 1..n
      BY <1>4, <2>1
    <3> QED
      BY <1>4, <1>5, <1>6, <3>1 DEF Blocks
  <2>2. CASE ~(i <= n)
    <3>1. i - n \in 1..m /\ n + (i - n) = i
      BY <1>4, <2>2
    <3>2. b[i] = Blocks(t)[i - n] /\ u[i] = t[i - n]
      BY <1>4, <1>5, <3>1
    <3> QED
      BY <1>4, <1>6, <3>1, <3>2 DEF Blocks
  <2> QED
    BY <2>1, <2>2
<1>8. Blocks(u) = b
  <2>1. Blocks(u) = [i \in 1..(n + m) |-> Blocks(u)[i]]
    BY <1>6 DEF Blocks
  <2>2. b = [i \in 1..(n + m) |-> b[i]]
    BY <1>3, <1>6 DEF IsSeq
  <2> QED
    BY <1>7, <2>1, <2>2
<1>9. FlattenSeq(b) = FlattenSeq(Blocks(s)) \o FlattenSeq(Blocks(t))
  <2> DEFINE ss == Blocks(s)
             tt == Blocks(t)
  <2>1. /\ IsSeq(ss) /\ \A x \in Range(ss) : IsSeq(x)
        /\ IsSeq(tt) /\ \A x \in Range(tt) : IsSeq(x)
    BY <1>2
  <2>2. b = ss \o tt
    BY DEF b
  <2> HIDE DEF ss, tt
  <2>3. FlattenSeq(ss \o tt) = FlattenSeq(ss) \o FlattenSeq(tt)
    BY <2>1, FlattenCat
  <2> QED
    BY <2>2, <2>3 DEF ss, tt
<1> QED
  BY <1>1, <1>8, <1>9 DEF u
-----------------------------------------------------------------------------
(* Counting calls *)

Upto(s, j, n) == Cardinality({k \in 1..j : s[k].name = n})

LEMMA UptoIs ==
    ASSUME NEW s, NEW n, NEW j \in Nat
    PROVE  /\ Upto(s, 0, n) = 0 /\ Upto(s, j, n) \in Nat
           /\ Upto(s, j + 1, n) = IF s[j + 1].name = n THEN Upto(s, j, n) + 1 ELSE Upto(s, j, n)
<1> DEFINE C(i) == {k \in 1..i : s[k].name = n}
<1>1. C(0) = {}
  OBVIOUS
<1>2. IsFiniteSet(1..j) /\ C(j) \subseteq 1..j
  BY FS_Interval
<1>3. IsFiniteSet(C(j)) /\ j + 1 \notin C(j)
  BY <1>2, FS_Subset
<1>4. C(j + 1) = IF s[j + 1].name = n THEN C(j) \cup {j + 1} ELSE C(j)
  <2>1. 1..(j + 1) = (1..j) \cup {j + 1}
    OBVIOUS
  <2> QED
    BY <2>1
<1>5. \A i : Upto(s, i, n) = Cardinality(C(i))
  BY DEF Upto
<1> HIDE DEF C
<1>6. Cardinality(C(j)) \in Nat /\ Cardinality(C(j) \cup {j + 1}) = Cardinality(C(j)) + 1
  BY <1>3, FS_CardinalityType, FS_AddElement
<1> QED
  BY <1>1, <1>4, <1>5, <1>6, FS_EmptySet

LEMMA UptoSame ==
    ASSUME NEW s, NEW t, NEW n, NEW j \in Nat, \A k \in 1..j : s[k].name = t[k].name
    PROVE  Upto(s, j, n) = Upto(t, j, n)
<1>1. {k \in 1..j : s[k].name = n} = {k \in 1..j : t[k].name = n}
  OBVIOUS
<1> QED
  BY <1>1 DEF Upto

LEMMA CountIs ==
    ASSUME NEW s, IsSeq(s), NEW n
    PROVE  Count(s, n) = Upto(s, Len(s), n) /\ Count(s, n) \in Nat
<1>1. Len(s) \in Nat /\ DOMAIN s = 1..Len(s)
  BY IsSeqHas
<1>2. Count(s, n) = Upto(s, Len(s), n)
  BY <1>1 DEF Count, Upto
<1> QED
  BY <1>1, <1>2, UptoIs

LEMMA AppendIs ==
    ASSUME NEW s, IsSeq(s), NEW x
    PROVE  /\ IsSeq(Append(s, x)) /\ Len(Append(s, x)) = Len(s) + 1
           /\ Append(s, x)[Len(s) + 1] = x
           /\ \A i \in 1..Len(s) : Append(s, x)[i] = s[i]
           /\ Range(Append(s, x)) = Range(s) \cup {x}
<1> DEFINE S == Range(s) \cup {x}
           r == Append(s, x)
<1>1. s \in Seq(S) /\ x \in S
  <2>1. s \in Seq(Range(s)) /\ Range(s) \subseteq S
    BY DEF IsSeq
  <2> HIDE DEF S
  <2>2. s \in Seq(S)
    BY <2>1, SeqMonotonic
  <2> QED
    BY <2>2 DEF S
<1> HIDE DEF S
<1>2. /\ r \in Seq(S) /\ Len(r) = Len(s) + 1 /\ r[Len(s) + 1] = x
      /\ \A i \in 1..Len(s) : r[i] = s[i]
  BY <1>1, AppendProperties
<1> HIDE DEF r
<1>3. IsSeq(r) /\ Range(r) \subseteq S
  BY <1>2, InSeq
<1>4. DOMAIN r = 1..(Len(s) + 1) /\ DOMAIN s = 1..Len(s) /\ Len(s) \in Nat
  BY <1>2, <1>3, IsSeqHas
<1>5. S \subseteq Range(r)
  <2>1. x \in Range(r)
    BY <1>2, <1>4 DEF Range
  <2>2. \A y \in Range(s) : y \in Range(r)
    <3> TAKE y \in Range(s)
    <3>1. PICK i \in 1..Len(s) : y = s[i]
      BY <1>4 DEF Range
    <3> QED
      BY <1>2, <1>4, <3>1 DEF Range
  <2> QED
    BY <2>1, <2>2 DEF S
<1> QED
  BY <1>2, <1>3, <1>5 DEF S, r

LEMMA CountAppend ==
    ASSUME NEW s, IsSeq(s), NEW x, NEW n
    PROVE  Count(Append(s, x), n) = IF x.name = n THEN Count(s, n) + 1 ELSE Count(s, n)
<1> DEFINE r == Append(s, x)
           l == Len(s)
<1>1. /\ IsSeq(r) /\ Len(r) = l + 1 /\ r[l + 1] = x /\ \A i \in 1..l : r[i] = s[i]
      /\ l \in Nat
  BY AppendIs, IsSeqHas
<1> HIDE DEF r
<1>2. Count(r, n) = Upto(r, l + 1, n) /\ Count(s, n) = Upto(s, l, n)
  BY <1>1, CountIs
<1> HIDE DEF l
<1>3. Upto(r, l, n) = Upto(s, l, n)
  BY <1>1, UptoSame
<1>4. Upto(r, l + 1, n) = IF r[l + 1].name = n THEN Upto(r, l, n) + 1 ELSE Upto(r, l, n)
  BY <1>1, UptoIs
<1> QED
  BY <1>1, <1>2, <1>3, <1>4 DEF r

-----------------------------------------------------------------------------
(* Native and written calls together *)

Larger(a, b) == IF a < b THEN b ELSE a

\* The native calls first, each with its name and the arguments it came with,
\* and of every name as many calls as in the larger of the two.
Together(m, api, xml) ==
    /\ IsSeq(m) /\ Len(api) <= Len(m)
    /\ \A i \in 1..Len(api) : /\ m[i].name = api[i].name
                              /\ api[i].args # <<>> => m[i].args = api[i].args
    /\ \A n : Count(m, n) = Larger(Count(api, n), Count(xml, n))

\* Merged as its recursive function builds it.
Unfolded(api, xml, filled, u) ==
    /\ Merged(api, xml) = filled \o u[Len(xml)]
    /\ IsSeq(filled) /\ Len(filled) = Len(api)
    /\ \A i \in 1..Len(api) : /\ filled[i].name = api[i].name
                              /\ api[i].args # <<>> => filled[i].args = api[i].args
    /\ u \in [0..Len(xml) -> Seq(Range(xml))] /\ u[0] = <<>>
    /\ \A j \in 1..Len(xml) :
         u[j] = IF Nth(xml, j) > Count(api, xml[j].name) THEN Append(u[j - 1], xml[j])
                ELSE u[j - 1]

LEMMA MergedUnfolds ==
    ASSUME NEW api, IsSeq(api), NEW xml, IsSeq(xml)
    PROVE  \E filled, u : Unfolded(api, xml, filled, u)
<1> DEFINE l == Len(xml)
           a == Len(api)
           partner(i) == {j \in DOMAIN xml : /\ xml[j].name = api[i].name
                                             /\ Nth(xml, j) = Nth(api, i)}
           fill(i) == IF api[i].args = <<>> /\ partner(i) # {}
                      THEN xml[CHOOSE j \in partner(i) : TRUE] ELSE api[i]
           filled == [i \in DOMAIN api |-> fill(i)]
           more(j) == Nth(xml, j) > Count(api, xml[j].name)
           Unfolds(u) == u = [j \in 0..l |-> IF j = 0 THEN <<>>
                                             ELSE IF more(j) THEN Append(u[j - 1], xml[j])
                                             ELSE u[j - 1]]
           unused == CHOOSE u : Unfolds(u)
           V == Seq(Range(xml))
           g == [j \in 1..l |-> [v \in V |-> IF more(j) THEN Append(v, xml[j]) ELSE v]]
<1>1. /\ l \in Nat /\ DOMAIN xml = 1..l /\ \A j \in 1..l : xml[j] \in Range(xml)
      /\ a \in Nat /\ DOMAIN api = 1..a
  BY IsSeqHas
<1>2. Merged(api, xml) = filled \o unused[l]
  BY DEF Merged
<1>3. \A i \in 1..a : /\ fill(i).name = api[i].name
                      /\ api[i].args # <<>> => fill(i).args = api[i].args
  <2> TAKE i \in 1..a
  <2>1. CASE api[i].args = <<>> /\ partner(i) # {}
    <3>1. (CHOOSE j \in partner(i) : TRUE) \in partner(i)
      BY <2>1
    <3> QED
      BY <2>1, <3>1
  <2>2. CASE ~(api[i].args = <<>> /\ partner(i) # {})
    BY <2>2
  <2> QED
    BY <2>1, <2>2
<1> HIDE DEF fill
<1>4. /\ IsSeq(filled) /\ Len(filled) = a
      /\ \A i \in 1..a : filled[i] = fill(i)
  <2>1. filled \in [1..a -> Range(filled)] /\ \A i \in 1..a : filled[i] = fill(i)
    BY <1>1 DEF Range
  <2> HIDE DEF filled
  <2> QED
    BY <1>1, <2>1, IsSeqIs, LenProperties DEF IsSeq
<1> HIDE DEF filled, more
<1>5. g \in [1..l -> [V -> V]] /\ <<>> \in V
  BY <1>1
<1>6. \A j \in 1..l : \A v \in V : g[j][v] = IF more(j) THEN Append(v, xml[j]) ELSE v
  OBVIOUS
<1> HIDE DEF g, V
<1>7. PICK h \in [0..l -> V] : Built(h, l, <<>>, g)
  BY <1>1, <1>5, Piling
<1>8. /\ h[0] = <<>>
      /\ \A j \in 1..l : h[j] = IF more(j) THEN Append(h[j - 1], xml[j]) ELSE h[j - 1]
  <2>1. \A j \in 1..l : h[j] = g[j][h[j - 1]] /\ h[j - 1] \in V
    BY <1>1, <1>7 DEF Built
  <2> QED
    BY <1>6, <1>7, <2>1 DEF Built
<1>9. Unfolds(h)
  <2>1. h = [j \in 0..l |-> h[j]]
    BY <1>7
  <2>2. \A j \in 0..l : h[j] = IF j = 0 THEN <<>> ELSE IF more(j) THEN Append(h[j - 1], xml[j])
                               ELSE h[j - 1]
    <3> TAKE j \in 0..l
    <3>1. j = 0 \/ j \in 1..l
      BY <1>1
    <3> QED
      BY <1>8, <3>1
  <2> QED
    BY <2>1, <2>2
<1>10. Unfolds(unused)
  BY <1>9
<1>11. /\ DOMAIN unused = 0..l /\ unused[0] = <<>>
       /\ \A j \in 1..l : unused[j] = IF more(j) THEN Append(unused[j - 1], xml[j]) ELSE unused[j - 1]
  <2> HIDE DEF unused
  <2>1. DOMAIN unused = 0..l
    BY <1>10
  <2>2. \A j \in 0..l : unused[j] = IF j = 0 THEN <<>>
                                    ELSE IF more(j) THEN Append(unused[j - 1], xml[j])
                                    ELSE unused[j - 1]
    BY <1>10
  <2>3. 0 \in 0..l /\ \A j \in 1..l : j \in 0..l /\ j # 0
    BY <1>1
  <2> QED
    BY <2>1, <2>2, <2>3
<1> HIDE DEF unused, Unfolds, l
<1>12. \A j \in 0..l : unused[j] = h[j]
  <2> TAKE j \in 0..l
  <2>1. \A i \in 1..j : unused[i - 1] = h[i - 1] => unused[i] = h[i]
    <3> TAKE i \in 1..j
    <3>1. i \in 1..l
      BY <1>1
    <3> QED
      BY <1>8, <1>11, <3>1
  <2>2. unused[0] = h[0] /\ j \in Nat
    BY <1>1, <1>8, <1>11
  <2> QED
    BY <2>1, <2>2, PiledOnce
<1>13. Merged(api, xml) = filled \o h[l]
  <2>1. l \in 0..l
    BY <1>1
  <2>2. unused[l] = h[l]
    BY <1>12, <2>1
  <2> QED
    BY <1>2, <2>2
<1>14. \A j \in 1..l : h[j] = IF Nth(xml, j) > Count(api, xml[j].name)
                              THEN Append(h[j - 1], xml[j]) ELSE h[j - 1]
  BY <1>8 DEF more
<1>15. \A i \in 1..a : /\ filled[i].name = api[i].name
                       /\ api[i].args # <<>> => filled[i].args = api[i].args
  BY <1>3, <1>4
<1>16. Unfolded(api, xml, filled, h)
  BY <1>4, <1>7, <1>8, <1>13, <1>14, <1>15 DEF V, l, Unfolded
<1> QED
  BY <1>16

LEMMA MergedIs ==
    ASSUME NEW api, IsSeq(api), NEW xml, IsSeq(xml)
    PROVE  Together(Merged(api, xml), api, xml)
<1> DEFINE l == Len(xml)
           a == Len(api)
<1>1. l \in Nat /\ a \in Nat
  BY IsSeqHas
<1>a. PICK filled, u : Unfolded(api, xml, filled, u)
  BY MergedUnfolds
<1>2. /\ Merged(api, xml) = filled \o u[Len(xml)]
      /\ IsSeq(filled) /\ Len(filled) = Len(api)
      /\ \A i \in 1..Len(api) : /\ filled[i].name = api[i].name
                                /\ api[i].args # <<>> => filled[i].args = api[i].args
      /\ u \in [0..Len(xml) -> Seq(Range(xml))] /\ u[0] = <<>>
      /\ \A j \in 1..Len(xml) :
           u[j] = IF Nth(xml, j) > Count(api, xml[j].name) THEN Append(u[j - 1], xml[j])
                  ELSE u[j - 1]
  BY <1>a DEF Unfolded
<1> HIDE DEF l, a
<1> DEFINE m(j) == filled \o u[j]
           Counted(j) == \A n : Count(m(j), n)
                                  = IF Upto(xml, j, n) <= Count(api, n) THEN Count(api, n)
                                    ELSE Upto(xml, j, n)
<1>3. \A j \in 0..l : IsSeq(u[j])
  BY <1>2, InSeq DEF l
<1>4. \A j \in 0..l : /\ IsSeq(m(j)) /\ Len(m(j)) = a + Len(u[j])
                      /\ \A i \in 1..a : m(j)[i] = filled[i]
  <2> TAKE j \in 0..l
  <2> DEFINE w == u[j]
  <2>1. IsSeq(w) /\ IsSeq(filled)
    BY <1>2, <1>3
  <2> HIDE DEF w
  <2>2. /\ IsSeq(filled \o w) /\ Len(filled \o w) = Len(filled) + Len(w)
        /\ \A i \in 1..Len(filled) : (filled \o w)[i] = filled[i]
    BY <2>1, CatIs
  <2> QED
    BY <1>2, <2>2 DEF a, w
<1>5. \A n : Count(filled, n) = Count(api, n) /\ Count(api, n) \in Nat
  <2> TAKE n
  <2>1. Count(filled, n) = Upto(filled, a, n) /\ Count(api, n) = Upto(api, a, n) /\ Count(api, n) \in Nat
    BY <1>2, CountIs DEF a
  <2>2. \A i \in 1..a : filled[i].name = api[i].name
    BY <1>2 DEF a
  <2>3. Upto(filled, a, n) = Upto(api, a, n)
    BY <1>1, <2>2, UptoSame
  <2> QED
    BY <2>1, <2>3
<1>6. Counted(0)
  <2>1. filled \o <<>> = filled
    BY <1>2, ConcatEmptySeq DEF IsSeq
  <2>2. m(0) = filled
    BY <1>2, <2>1
  <2>3. \A n : Upto(xml, 0, n) = 0
    BY UptoIs
  <2> HIDE DEF m
  <2> QED
    BY <1>5, <2>2, <2>3
<1>7. ASSUME NEW j \in 1..l, Counted(j - 1) PROVE Counted(j)
  <2> DEFINE x == xml[j]
             k == j - 1
  <2>1. k \in 0..l /\ k \in Nat /\ k + 1 = j
    BY <1>1
  <2>2. u[j] = IF Upto(xml, j, x.name) > Count(api, x.name) THEN Append(u[k], x) ELSE u[k]
    BY <1>2 DEF l, Nth, Upto
  <2>3. m(j) = IF Upto(xml, j, x.name) > Count(api, x.name) THEN Append(m(k), x) ELSE m(k)
    <3>1. IsSeq(u[k]) /\ IsSeq(filled)
      BY <1>2, <1>3, <2>1
    <3>2. filled \o Append(u[k], x) = Append(filled \o u[k], x)
      <4> DEFINE S == (Range(filled) \cup Range(u[k])) \cup {x}
      <4>1. /\ filled \in Seq(Range(filled)) /\ Range(filled) \subseteq S
            /\ u[k] \in Seq(Range(u[k])) /\ Range(u[k]) \subseteq S /\ x \in S
        BY <3>1 DEF IsSeq
      <4> HIDE DEF S
      <4>2. filled \in Seq(S) /\ u[k] \in Seq(S) /\ x \in S
        BY <4>1, SeqMonotonic
      <4> HIDE DEF k, x
      <4> DEFINE w == u[k]
      <4>3. w \in Seq(S)
        BY <4>2
      <4> HIDE DEF w
      <4>4. filled \o Append(w, x) = Append(filled \o w, x)
        BY <4>2, <4>3
      <4> QED
        BY <4>4 DEF w
    <3> QED
      BY <2>2, <3>2
  <2>4. \A n : /\ Upto(xml, j, n) = IF x.name = n THEN Upto(xml, k, n) + 1 ELSE Upto(xml, k, n)
               /\ Upto(xml, k, n) \in Nat
    BY <2>1, UptoIs
  <2>5. IsSeq(m(k))
    BY <1>4, <2>1
  <2>6. \A n : Count(m(k), n) = IF Upto(xml, k, n) <= Count(api, n) THEN Count(api, n)
                                ELSE Upto(xml, k, n)
    BY <1>7
  <2> HIDE DEF m, k, x
  <2>7. \A n : Count(Append(m(k), x), n) = IF x.name = n THEN Count(m(k), n) + 1 ELSE Count(m(k), n)
    BY <2>5, CountAppend
  <2> SUFFICES ASSUME NEW n
               PROVE  Count(m(j), n) = IF Upto(xml, j, n) <= Count(api, n) THEN Count(api, n)
                                       ELSE Upto(xml, j, n)
    OBVIOUS
  <2> DEFINE c == Count(api, n)
             before == Upto(xml, k, n)
  <2>8. c \in Nat /\ before \in Nat
    BY <1>5, <2>4
  <2>9. CASE x.name = n
    <3>1. /\ Upto(xml, j, n) = before + 1
          /\ Count(m(k), n) = IF before <= c THEN c ELSE before
          /\ Count(m(j), n) = IF before + 1 > c THEN Count(m(k), n) + 1 ELSE Count(m(k), n)
      BY <2>3, <2>4, <2>6, <2>7, <2>9
    <3> HIDE DEF c, before
    <3> QED
      BY <2>8, <3>1 DEF c
  <2>10. CASE x.name # n
    <3>1. /\ Upto(xml, j, n) = before
          /\ Count(m(j), n) = Count(m(k), n)
      BY <2>3, <2>4, <2>7, <2>10
    <3> QED
      BY <2>6, <3>1
  <2> QED
    BY <2>9, <2>10
<1>8. Counted(l)
  <2> DEFINE Bad == {j \in 0..l : ~Counted(j)}
  <2> HIDE DEF Counted
  <2>1. Bad \subseteq Nat
    BY <1>1
  <2>2. \A j \in 0..l : j \notin Bad <=> Counted(j)
    OBVIOUS
  <2>3. Bad \subseteq 0..l
    OBVIOUS
  <2> HIDE DEF Bad
  <2>4. Bad = {}
    <3> SUFFICES ASSUME Bad # {} PROVE FALSE
      OBVIOUS
    <3>1. PICK j \in Bad : \A y \in Bad : j <= y
      BY <2>1, Least
    <3>2. j \in 1..l /\ j - 1 \in 0..l
      BY <1>1, <1>6, <2>2, <2>3
    <3>3. j - 1 \notin Bad
      BY <3>1, <3>2
    <3> QED
      BY <1>7, <2>2, <2>3, <3>2, <3>3
  <2>5. l \in 0..l
    BY <1>1
  <2> QED
    BY <2>2, <2>4, <2>5
<1> DEFINE r == m(l)
<1>9. Merged(api, xml) = r
  BY <1>2 DEF l
<1>10. IsSeq(r) /\ a <= Len(r) /\ \A i \in 1..a : r[i] = filled[i]
  <2>1. l \in 0..l /\ IsSeq(u[l])
    BY <1>1, <1>3
  <2>2. Len(u[l]) \in Nat
    BY <2>1, IsSeqHas
  <2>3. IsSeq(r) /\ Len(r) = a + Len(u[l]) /\ \A i \in 1..a : r[i] = filled[i]
    BY <1>4, <2>1
  <2> HIDE DEF r
  <2> QED
    BY <1>1, <2>2, <2>3
<1>11. \A n : Count(xml, n) = Upto(xml, l, n) /\ Count(xml, n) \in Nat
  BY CountIs DEF l
<1>12. \A n : Count(r, n) = Larger(Count(api, n), Count(xml, n))
  <2> TAKE n
  <2>1. Count(r, n) = IF Upto(xml, l, n) <= Count(api, n) THEN Count(api, n) ELSE Upto(xml, l, n)
    BY <1>8
  <2> HIDE DEF r
  <2> QED
    BY <1>5, <1>11, <2>1 DEF Larger
<1> HIDE DEF r
<1>13. Together(r, api, xml)
  BY <1>2, <1>10, <1>12 DEF Together, a
<1> QED
  BY <1>9, <1>13

LEMMA NoneCounted == \A n : Count(<<>>, n) = 0
<1>1. \A n : {k \in DOMAIN <<>> : <<>>[k].name = n} = {}
  OBVIOUS
<1> QED
  BY <1>1, FS_EmptySet DEF Count

\* What the client does with a payload.
LEMMA MergeIs ==
    ASSUME NEW api, IsSeq(api), NEW t, IsText(t)
    PROVE  Together(MergeXMLToolCalls(api, t).calls, api, ExtractXMLToolCalls(t))
<1> DEFINE xml == ExtractXMLToolCalls(t)
           r == MergeXMLToolCalls(api, t)
<1>1. IsSeq(xml)
  BY ExtractIs
<1>2. r.calls = IF xml = <<>> THEN api ELSE Merged(api, xml)
  BY DEF MergeXMLToolCalls
<1> HIDE DEF xml, r
<1>3. CASE xml = <<>>
  <2>1. \A n : Count(xml, n) = 0 /\ Count(api, n) \in Nat
    BY <1>3, NoneCounted, CountIs
  <2>2. Len(api) \in Nat
    BY IsSeqHas
  <2> QED
    BY <1>2, <1>3, <2>1, <2>2 DEF Together, Larger, r, xml
<1>4. CASE xml # <<>>
  BY <1>1, <1>2, <1>4, MergedIs DEF r, xml
<1> QED
  BY <1>3, <1>4

\* What the worker does with what it saw streamed.
LEMMA RecoverIs ==
    ASSUME NEW res, IsSeq(res.calls), NEW t, IsText(t)
    PROVE  Together(RecoverXMLToolCalls(res, t).calls, res.calls, ExtractXMLToolCalls(t))
<1> DEFINE xml == ExtractXMLToolCalls(t)
           api == res.calls
           m == MergeXMLToolCalls(api, t)
           r == RecoverXMLToolCalls(res, t)
<1>1. Together(m.calls, api, xml)
  BY MergeIs
<1>2. r.calls = m.calls \/ (r = res /\ Len(m.calls) = Len(api))
  BY DEF RecoverXMLToolCalls
<1> HIDE DEF xml, api, m, r
<1>3. CASE r.calls = m.calls
  BY <1>1, <1>3 DEF r, xml, api
<1>4. CASE r = res /\ Len(m.calls) = Len(api)
  <2> DEFINE l == Len(api)
  <2>1. l \in Nat
    BY IsSeqHas DEF api
  <2>2. \A n : Count(m.calls, n) = Count(api, n)
    <3> TAKE n
    <3>1. Count(m.calls, n) = Upto(m.calls, l, n) /\ Count(api, n) = Upto(api, l, n)
      BY <1>1, <1>4, CountIs DEF Together, api
    <3>2. \A i \in 1..l : m.calls[i].name = api[i].name
      BY <1>1 DEF Together
    <3> HIDE DEF l
    <3> QED
      BY <2>1, <3>1, <3>2, UptoSame
  <2>3. r.calls = api
    BY <1>4 DEF api
  <2>4. Together(api, api, xml)
    BY <1>1, <2>1, <2>2 DEF Together, api
  <2> QED
    BY <2>3, <2>4 DEF r, xml, api
<1> QED
  BY <1>2, <1>3, <1>4
-----------------------------------------------------------------------------
(* What was heard *)

Slots == {"resp", "chat", "failed", "completed", "incomplete", "deltas", "done", "items",
          "content", "tools"}

Assembled(a) ==
    /\ DOMAIN a = Slots
    /\ IsText(a.deltas) /\ IsText(a.done) /\ IsText(a.content)
    /\ IsSeq(a.items) /\ \A x \in Range(a.items) : IsItem(x)
    /\ \E b \in Nat : DOMAIN a.tools \subseteq 0..b

Answer(p) == IsSeq(p.calls) /\ IsText(p.text)

\* As long as no attempt that streamed calls was given up, the calls of all
\* that was streamed are those of the attempt under way.
Heard(k) ==
    /\ Assembled(k.asm) /\ IsText(k.own) /\ IsText(k.streamed) /\ k.dirty \in BOOLEAN
    /\ k.dirty \/ ExtractXMLToolCalls(k.streamed) = ExtractXMLToolCalls(k.own)
    /\ k.pc \in {"recover", "done"} => Answer(k.answer)
    /\ k.pc = "recover" => k.result = Parsed(k.answer)
    /\ k.pc = "done" => k.result = RecoverXMLToolCalls(Parsed(k.answer), k.streamed)

HInv == \A c \in Calls : Heard(call[c])

LEMMA OneIs == ASSUME NEW x PROVE IsSeq(<<x>>) /\ Range(<<x>>) = {x}
<1>1. <<x>> \in Seq({x}) /\ <<x>>[1] = x /\ DOMAIN <<x>> = {1}
  OBVIOUS
<1>2. Range(<<x>>) = {x}
  BY <1>1 DEF Range
<1> QED
  BY <1>1, <1>2, InSeq

LEMMA NewAssembled == Assembled(NewAssembler)
<1>1. /\ DOMAIN NewAssembler = Slots /\ NewAssembler.deltas = <<>> /\ NewAssembler.done = <<>>
      /\ NewAssembler.content = <<>> /\ NewAssembler.items = <<>> /\ NewAssembler.tools = <<>>
  BY DEF NewAssembler, Slots
<1>2. DOMAIN <<>> \subseteq 0..0 /\ 0 \in Nat
  OBVIOUS
<1> HIDE DEF NewAssembler
<1> QED
  BY <1>1, <1>2, NoText DEF Assembled

LEMMA EmittedIs == ASSUME NEW e, IsEvent(e) PROVE IsText(Emitted(e))
BY NoText DEF IsEvent, Emitted

LEMMA FeedIs ==
    ASSUME NEW a, Assembled(a), NEW e, IsEvent(e)
    PROVE  Assembled(Feed(a, e))
<1> DEFINE r == Feed(a, e)
           SameBut(b, changed) == DOMAIN b = Slots /\ \A x \in Slots \ changed : b[x] = a[x]
<1>1. DOMAIN a = Slots
  BY DEF Assembled
<1>2. ASSUME NEW b, SameBut(b, {"resp", "chat", "failed", "completed", "incomplete"}) PROVE Assembled(b)
  <2>1. /\ DOMAIN b = Slots /\ b.deltas = a.deltas /\ b.done = a.done /\ b.content = a.content
        /\ b.items = a.items /\ b.tools = a.tools
    BY <1>2 DEF Slots
  <2> QED
    BY <2>1 DEF Assembled
<1>3. CASE e.type \in {"error", "ping", "incomplete", "failed"}
  <2>1. SameBut(r, {"resp", "chat", "failed", "completed", "incomplete"})
    BY <1>1, <1>3 DEF Feed, FeedResponses, Slots
  <2> HIDE DEF r, SameBut
  <2>2. Assembled(r)
    BY <1>2, <2>1
  <2> QED
    BY <2>2 DEF r
<1>4. CASE e.type = "chunk"
  <2> DEFINE seen(i) == IF i \in DOMAIN a.tools THEN a.tools[i].parts ELSE <<>>
             slot(t) == [name |-> t.name, parts |-> seen(t.index) \o t.parts]
             tools == IF e.tool = <<>> THEN a.tools
                      ELSE [i \in DOMAIN a.tools \cup {e.tool[1].index} |->
                              IF i = e.tool[1].index THEN slot(e.tool[1]) ELSE a.tools[i]]
  <2>1. r = [a EXCEPT !.chat = TRUE, !.content = @ \o e.text, !.tools = tools]
    BY <1>4 DEF Feed, FeedChat
  <2> HIDE DEF r
  <2>2. \E b \in Nat : DOMAIN tools \subseteq 0..b
    <3>1. PICK b \in Nat : DOMAIN a.tools \subseteq 0..b
      BY DEF Assembled
    <3>2. CASE e.tool = <<>>
      BY <3>1, <3>2
    <3>3. CASE e.tool # <<>>
      <4> DEFINE i == e.tool[1].index
                 top == IF b < i THEN i ELSE b
      <4>1. i \in Nat /\ DOMAIN tools = DOMAIN a.tools \cup {i}
        BY <1>4, <3>3 DEF IsEvent
      <4> HIDE DEF i, tools
      <4>2. top \in Nat /\ DOMAIN tools \subseteq 0..top
        BY <3>1, <4>1
      <4> QED
        BY <4>2
    <3> QED
      BY <3>2, <3>3
  <2> HIDE DEF tools
  <2>3. /\ DOMAIN r = Slots /\ r.deltas = a.deltas /\ r.done = a.done
        /\ r.items = a.items /\ r.content = a.content \o e.text /\ r.tools = tools
    BY <1>1, <2>1 DEF Slots
  <2>4. IsText(a.content \o e.text)
    BY <1>4, CatTexts DEF Assembled, IsEvent
  <2>5. Assembled(r)
    BY <2>2, <2>3, <2>4 DEF Assembled
  <2> QED
    BY <2>5 DEF r
<1>5. CASE e.type = "delta"
  <2>1. r = [[a EXCEPT !.resp = TRUE] EXCEPT !.deltas = @ \o e.text]
    BY <1>5 DEF Feed, FeedResponses
  <2> HIDE DEF r
  <2>2. /\ DOMAIN r = Slots /\ r.deltas = a.deltas \o e.text /\ r.done = a.done
        /\ r.items = a.items /\ r.content = a.content /\ r.tools = a.tools
    BY <1>1, <2>1 DEF Slots
  <2>3. IsText(a.deltas \o e.text)
    BY <1>5, CatTexts DEF Assembled, IsEvent
  <2>4. Assembled(r)
    BY <2>2, <2>3 DEF Assembled
  <2> QED
    BY <2>4 DEF r
<1>6. CASE e.type = "text.done"
  <2>1. r = [[a EXCEPT !.resp = TRUE] EXCEPT !.done = e.text]
    BY <1>6 DEF Feed, FeedResponses
  <2> HIDE DEF r
  <2>2. /\ DOMAIN r = Slots /\ r.deltas = a.deltas /\ r.done = e.text
        /\ r.items = a.items /\ r.content = a.content /\ r.tools = a.tools
    BY <1>1, <2>1 DEF Slots
  <2>3. Assembled(r)
    BY <1>6, <2>2 DEF Assembled, IsEvent
  <2> QED
    BY <2>3 DEF r
<1>7. CASE e.type \in {"item.done", "completed"}
  <2> DEFINE items == IF e.type = "item.done" THEN Append(a.items, e.item)
                      ELSE IF e.output = <<>> THEN a.items ELSE e.output
  <2>1. r = IF e.type = "item.done" THEN [[a EXCEPT !.resp = TRUE] EXCEPT !.items = items]
            ELSE [[a EXCEPT !.resp = TRUE] EXCEPT !.completed = TRUE, !.failed = a.failed \/ e.err,
                                                  !.items = items]
    <3>1. CASE e.type = "item.done"
      BY <3>1, <1>1 DEF Feed, FeedResponses, Slots
    <3>2. CASE e.type = "completed"
      BY <3>2, <1>1 DEF Feed, FeedResponses, Slots
    <3> QED
      BY <1>7, <3>1, <3>2
  <2>2. IsSeq(items) /\ \A x \in Range(items) : IsItem(x)
    <3>1. CASE e.type = "item.done"
      <4>1. IsSeq(a.items) /\ (\A x \in Range(a.items) : IsItem(x)) /\ IsItem(e.item)
        BY <3>1 DEF Assembled, IsEvent
      <4>2. IsSeq(Append(a.items, e.item)) /\ Range(Append(a.items, e.item)) = Range(a.items) \cup {e.item}
        BY <4>1, AppendIs
      <4> QED
        BY <3>1, <4>1, <4>2
    <3>2. CASE e.type = "completed"
      BY <3>2 DEF Assembled, IsEvent
    <3> QED
      BY <1>7, <3>1, <3>2
  <2> HIDE DEF items, r
  <2>3. /\ DOMAIN r = Slots /\ r.deltas = a.deltas /\ r.done = a.done
        /\ r.items = items /\ r.content = a.content /\ r.tools = a.tools
    BY <1>1, <2>1 DEF Slots
  <2>4. Assembled(r)
    BY <2>2, <2>3 DEF Assembled
  <2> QED
    BY <2>4 DEF r
<1> QED
  BY <1>3, <1>4, <1>5, <1>6, <1>7 DEF IsEvent

LEMMA GreatestIs == ASSUME NEW b \in Nat, NEW S \in SUBSET (0..b), S # {} PROVE Max(S) \in Nat
<1> DEFINE B == {y \in Nat : \A x \in S : x <= y}
<1>1. b \in B
  OBVIOUS
<1>2. PICK m \in B : \A y \in B : m <= y
  BY <1>1, Least
<1>3. m \in S
  <2> SUFFICES ASSUME m \notin S PROVE FALSE
    OBVIOUS
  <2>1. PICK x \in S : TRUE
    OBVIOUS
  <2>2. m \in Nat /\ \A y \in S : y \in Nat /\ y <= m /\ y # m
    BY <1>2
  <2>3. m - 1 \in B
    BY <2>1, <2>2
  <2> HIDE DEF B
  <2> QED
    BY <1>2, <2>2, <2>3
<1>4. \E x \in S : \A y \in S : x >= y
  BY <1>2, <1>3
<1>5. Max(S) \in S
  BY <1>4 DEF Max
<1>6. \A x \in S : x \in Nat
  OBVIOUS
<1> QED
  BY <1>5, <1>6

LEMMA ListIs ==
    ASSUME NEW n \in Nat, NEW s, DOMAIN s = 1..n, s = [i \in 1..n |-> s[i]]
    PROVE  IsSeq(s) /\ Range(s) = {s[i] : i \in 1..n}
<1>1. Range(s) = {s[i] : i \in 1..n}
  BY DEF Range
<1>2. s \in [1..n -> Range(s)]
  BY <1>1
<1> QED
  BY <1>1, <1>2, IsSeqIs

LEMMA ChatAnswer == ASSUME NEW a, Assembled(a) PROVE Answer(ChatPayload(a))
<1> DEFINE tool(i) == IF i \in DOMAIN a.tools
                      THEN <<Call(a.tools[i].name, ArgsOf(a.tools[i].parts))>> ELSE <<>>
           top == Max(DOMAIN a.tools) + 1
           s == [n \in 1..top |-> tool(n - 1)]
           r == ChatPayload(a)
<1>1. r.text = a.content /\ r.calls = IF DOMAIN a.tools = {} THEN <<>> ELSE FlattenSeq(s)
  BY DEF ChatPayload
<1>2. \A i : IsSeq(tool(i))
  BY OneIs, NoText
<1> HIDE DEF tool, r
<1>3. CASE DOMAIN a.tools = {}
  BY <1>1, <1>3, NoText DEF Answer, Assembled, r
<1>4. CASE DOMAIN a.tools # {}
  <2>1. top \in Nat
    <3> DEFINE S == DOMAIN a.tools
    <3>1. PICK b \in Nat : S \subseteq 0..b
      BY DEF Assembled
    <3>2. S # {}
      BY <1>4
    <3> HIDE DEF S
    <3>3. Max(S) \in Nat
      BY <3>1, <3>2, GreatestIs
    <3> QED
      BY <3>3 DEF S
  <2>2. DOMAIN s = 1..top /\ s = [i \in 1..top |-> s[i]] /\ \A i \in 1..top : s[i] = tool(i - 1)
    OBVIOUS
  <2> HIDE DEF s, top
  <2>3. IsSeq(s) /\ \A x \in Range(s) : IsSeq(x)
    BY <1>2, <2>1, <2>2, ListIs
  <2>4. IsSeq(FlattenSeq(s))
    BY <2>3, FlattenSeqIs
  <2> QED
    BY <1>1, <1>4, <2>4 DEF Answer, Assembled, r
<1> QED
  BY <1>3, <1>4

LEMMA ResponsesAnswer == ASSUME NEW a, Assembled(a) PROVE Answer(ResponsesPayload(a))
<1> DEFINE text == IF a.done # <<>> THEN a.done ELSE a.deltas
           calls(x) == IF x.item = "call" THEN <<x.call>> ELSE <<>>
           words(x) == IF x.item = "message" THEN x.text ELSE <<>>
           cs == [i \in DOMAIN a.items |-> calls(a.items[i])]
           ws == [i \in DOMAIN a.items |-> words(a.items[i])]
           n == Len(a.items)
           r == ResponsesPayload(a)
<1>1. r.calls = FlattenSeq(cs) /\ r.text = IF FlattenSeq(ws) = <<>> THEN text ELSE FlattenSeq(ws)
  BY DEF ResponsesPayload
<1>2. n \in Nat /\ DOMAIN a.items = 1..n /\ \A i \in 1..n : IsItem(a.items[i])
  BY IsSeqHas DEF Assembled
<1>3. IsText(text)
  BY DEF Assembled
<1>4. \A x : IsSeq(calls(x))
  BY OneIs, NoText
<1>5. \A x : IsItem(x) => IsText(words(x))
  BY NoText DEF IsItem
<1>6. /\ DOMAIN cs = 1..n /\ cs = [i \in 1..n |-> cs[i]] /\ \A i \in 1..n : cs[i] = calls(a.items[i])
      /\ DOMAIN ws = 1..n /\ ws = [i \in 1..n |-> ws[i]] /\ \A i \in 1..n : ws[i] = words(a.items[i])
  BY <1>2
<1> HIDE DEF text, calls, words, cs, ws, n, r
<1>7. IsSeq(FlattenSeq(cs))
  <2>1. IsSeq(cs) /\ \A x \in Range(cs) : IsSeq(x)
    BY <1>2, <1>4, <1>6, ListIs
  <2> QED
    BY <2>1, FlattenSeqIs
<1>8. IsText(FlattenSeq(ws))
  <2>1. IsSeq(ws) /\ \A x \in Range(ws) : IsText(x)
    BY <1>2, <1>5, <1>6, ListIs
  <2>2. /\ IsSeq(FlattenSeq(ws))
        /\ \A y \in Range(FlattenSeq(ws)) : \E x \in Range(ws) : y \in Range(x)
    BY <2>1, FlattenSeqIs DEF IsText
  <2> QED
    BY <2>1, <2>2 DEF IsText
<1> QED
  BY <1>1, <1>3, <1>7, <1>8 DEF Answer, r

LEMMA PayloadAnswer == ASSUME NEW a, Assembled(a) PROVE Answer(Payload(a))
BY ChatAnswer, ResponsesAnswer DEF Payload

\* What is executed in the end, in terms of what was answered and streamed.
LEMMA ParsedIs ==
    ASSUME NEW p, Answer(p)
    PROVE  Together(Parsed(p).calls, p.calls, ExtractXMLToolCalls(p.text))
BY MergeIs DEF Answer, Parsed

LEMMA HeardQuiet ==
    ASSUME NEW k, Heard(k), NEW r, r.asm = k.asm, r.own = k.own, r.streamed = k.streamed,
           r.dirty = k.dirty, r.answer = k.answer, r.result = k.result,
           r.pc \in {"recover", "done"} => r.pc = k.pc
    PROVE  Heard(r)
BY DEF Heard

LEMMA HeardBecomes ==
    ASSUME IInv, HInv, NEW c \in Calls, NEW r, call' = [call EXCEPT ![c] = r], Heard(r)
    PROVE  HInv'
<1>1. \A d \in Calls : call'[d] = IF d = c THEN r ELSE call[d]
  BY DEF IInv
<1>2. \A d \in Calls : Heard(call'[d])
  BY <1>1 DEF HInv
<1> QED
  BY <1>2 DEF HInv

\* A failed attempt leaves nothing behind but what it streamed; if that were
\* calls, they are remembered.
LEMMA FailingHears ==
    ASSUME NEW k, DOMAIN k = Fields, Heard(k), NEW err
    PROVE  Heard(Failing(k, err))
<1> DEFINE moreHere == k.tries < Slot(k).max /\ k.attempts < k.snap.budget
           moreProviders == Len(k.cands) > 1 /\ k.attempts < k.snap.budget
           dirty == k.dirty \/ ExtractXMLToolCalls(k.own) # <<>>
           seen == [k EXCEPT !.last = err, !.asm = NewAssembler, !.fed = 0, !.own = <<>>,
                             !.dirty = dirty]
           r == Failing(k, err)
<1>1. /\ DOMAIN seen = Fields /\ seen.asm = NewAssembler /\ seen.own = <<>> /\ seen.dirty = dirty
      /\ seen.streamed = k.streamed
  BY DEF Fields
<1>2. \/ r = [seen EXCEPT !.pc = "failed"]
      \/ r = [seen EXCEPT !.pc = "next", !.cands = <<>>]
      \/ r = [seen EXCEPT !.pc = "backoff", !.retries = @ + 1, !.delay = Delay(k.retries + 1, err.after)]
  BY DEF Failing
<1> HIDE DEF r, seen
<1>3. /\ r.asm = NewAssembler /\ r.own = <<>> /\ r.dirty = dirty /\ r.streamed = k.streamed
      /\ r.pc \in {"failed", "next", "backoff"}
  BY <1>1, <1>2 DEF Fields
<1>4. k.dirty \in BOOLEAN /\ IsText(k.streamed)
      /\ (k.dirty \/ ExtractXMLToolCalls(k.streamed) = ExtractXMLToolCalls(k.own))
  BY DEF Heard
<1>5. dirty \in BOOLEAN /\ (dirty \/ ExtractXMLToolCalls(k.streamed) = <<>>)
  BY <1>4
<1> HIDE DEF dirty
<1>6. Heard(r)
  BY <1>3, <1>4, <1>5, NoText, NewAssembled, ExtractNothing DEF Heard
<1> QED
  BY <1>6 DEF r

LEMMA AgainHears ==
    ASSUME NEW k, Heard(k), NEW q, DOMAIN q = Fields,
           q.asm = k.asm, q.own = k.own, q.streamed = k.streamed, q.dirty = k.dirty,
           q.answer = k.answer, q.result = k.result
    PROVE  Heard(Requesting(q))
<1> DEFINE r == Requesting(q)
<1>1. /\ r.pc = "sent" /\ r.asm = k.asm /\ r.own = k.own /\ r.streamed = k.streamed
      /\ r.dirty = k.dirty /\ r.answer = k.answer /\ r.result = k.result
  BY DEF Requesting, Fields
<1> HIDE DEF r
<1>2. Heard(r)
  BY <1>1, HeardQuiet
<1> QED
  BY <1>2 DEF r

LEMMA AnsweringHears ==
    ASSUME NEW k, DOMAIN k = Fields, Heard(k), NEW p, Answer(p)
    PROVE  Heard(Answering(k, p))
<1> DEFINE r == Answering(k, p)
<1>1. /\ r.pc = "recover" /\ r.asm = NewAssembler /\ r.own = k.own /\ r.streamed = k.streamed
      /\ r.dirty = k.dirty /\ r.answer = p /\ r.result = Parsed(p)
  BY DEF Answering, Fields
<1> HIDE DEF r
<1>2. Heard(r)
  BY <1>1, NewAssembled DEF Heard
<1> QED
  BY <1>2 DEF r

LEMMA ReceiveHears ==
    ASSUME IInv, HInv, NEW c \in Calls, NEW a \in Replies(c), Receive(c, a) PROVE HInv'
<1> DEFINE k == call[c]
           r == CASE a.kind = "connect" -> Failing(k, Error("connect", TRUE, 0))
                  [] a.kind = "status"  -> IF FallsBack(k, a) THEN Again(k)
                                           ELSE Failing(k, Error("status", a.transient, a.after))
                  [] a.kind = "body"    -> IF FallsBack(k, a) THEN Again(k)
                                           ELSE Failing(k, Error("body", FALSE, 0))
                  [] a.kind = "json"    -> IF FallsBack(k, a) THEN Again(k)
                                           ELSE Answering(k, a.payload)
<1>1. DOMAIN k = Fields /\ Heard(k)
  BY DEF IInv, CallInv, Shape, HInv
<1>2. call' = [call EXCEPT ![c] = r]
  BY DEF Receive, Becomes
<1>3. /\ a.kind \in {"connect", "status", "body", "json"}
      /\ a.kind = "json" => Answer(a.payload)
  BY CallAssumption DEF Answer
<1> HIDE DEF k
<1>4. Heard(Again(k))
  <2> DEFINE q == [k EXCEPT !.stream = FALSE, !.fallback = FALSE]
  <2>1. /\ DOMAIN q = Fields /\ q.asm = k.asm /\ q.own = k.own /\ q.streamed = k.streamed
        /\ q.dirty = k.dirty /\ q.answer = k.answer /\ q.result = k.result
    BY <1>1 DEF Fields
  <2> HIDE DEF q
  <2>2. Heard(Requesting(q))
    BY <1>1, <2>1, AgainHears
  <2> QED
    BY <2>2 DEF Again, q
<1>5. \A err : Heard(Failing(k, err))
  BY <1>1, FailingHears
<1>6. a.kind = "json" => Heard(Answering(k, a.payload))
  BY <1>1, <1>3, AnsweringHears
<1>7. Heard(r)
  BY <1>3, <1>4, <1>5, <1>6
<1> HIDE DEF r
<1> QED
  BY <1>2, <1>7, HeardBecomes

LEMMA StreamHears ==
    ASSUME IInv, HInv, NEW c \in Calls, StreamEnds(c) \/ StreamLost(c) PROVE HInv'
<1> DEFINE k == call[c]
           v == Verdict(k.asm)
<1>1. DOMAIN k = Fields /\ Heard(k)
  BY DEF IInv, CallInv, Shape, HInv
<1>2. \A err : Heard(Failing(k, err))
  BY <1>1, FailingHears
<1>3. Heard(Answering(k, Payload(k.asm)))
  <2>1. Answer(Payload(k.asm))
    BY <1>1, PayloadAnswer DEF Heard
  <2> QED
    BY <1>1, <2>1, AnsweringHears
<1>4. CASE StreamEnds(c)
  <2> DEFINE r == CASE v = "payload"   -> Answering(k, Payload(k.asm))
                    [] v = "transport" -> Failing(k, Error("stream", TRUE, 0))
                    [] v = "bad"       -> Failing(k, Error("body", FALSE, 0))
  <2>1. call' = [call EXCEPT ![c] = r]
    BY <1>4 DEF StreamEnds, Becomes
  <2>2. v \in {"bad", "transport", "payload"}
    BY DEF Verdict
  <2>3. Heard(r)
    BY <1>2, <1>3, <2>2
  <2> HIDE DEF r
  <2> QED
    BY <2>1, <2>3, HeardBecomes
<1>5. CASE StreamLost(c)
  BY <1>2, <1>5, HeardBecomes DEF StreamLost, Becomes
<1> QED
  BY <1>4, <1>5

LEMMA EventHears ==
    ASSUME IInv, HInv, NEW c \in Calls, NEW e \in Events(c), StreamEvent(c, e) PROVE HInv'
<1> DEFINE k == call[c]
           r == [k EXCEPT !.asm = Feed(@, e), !.fed = @ + 1,
                          !.own = @ \o Emitted(e), !.streamed = @ \o Emitted(e)]
           X(t) == ExtractXMLToolCalls(t)
<1>1. DOMAIN k = Fields /\ Heard(k) /\ IsEvent(e)
  BY CallAssumption DEF IInv, CallInv, Shape, HInv
<1>2. /\ call' = [call EXCEPT ![c] = r] /\ r.pc = k.pc /\ k.pc = "reading"
      /\ r.asm = Feed(k.asm, e) /\ r.own = k.own \o Emitted(e) /\ r.dirty = k.dirty
      /\ r.streamed = k.streamed \o Emitted(e)
  BY <1>1 DEF StreamEvent, Becomes, Fields
<1> HIDE DEF k, r
<1>3. Assembled(r.asm) /\ IsText(r.own) /\ IsText(r.streamed)
  BY <1>1, <1>2, FeedIs, EmittedIs, CatTexts DEF Heard
<1>4. X(r.own) = X(k.own) \o X(Emitted(e)) /\ X(r.streamed) = X(k.streamed) \o X(Emitted(e))
  BY <1>1, <1>2, EmittedIs, ExtractCat DEF Heard
<1> HIDE DEF X
<1>5. r.dirty \in BOOLEAN /\ (r.dirty \/ X(r.streamed) = X(r.own))
  <2>1. k.dirty \in BOOLEAN /\ (k.dirty \/ X(k.streamed) = X(k.own))
    BY <1>1 DEF Heard, X
  <2> QED
    BY <1>2, <1>4, <2>1
<1>6. Heard(r)
  BY <1>2, <1>3, <1>5 DEF Heard, X
<1> QED
  BY <1>2, <1>6, HeardBecomes

LEMMA RecoverHears == ASSUME IInv, HInv, NEW c \in Calls, Recover(c) PROVE HInv'
<1> DEFINE k == call[c]
           r == [k EXCEPT !.pc = "done", !.result = RecoverXMLToolCalls(k.result, k.streamed)]
<1>1. DOMAIN k = Fields /\ Heard(k) /\ k.pc = "recover"
  BY DEF IInv, CallInv, Shape, HInv, Recover
<1>2. /\ call' = [call EXCEPT ![c] = r] /\ r.pc = "done" /\ r.asm = k.asm /\ r.own = k.own
      /\ r.dirty = k.dirty /\ r.streamed = k.streamed /\ r.answer = k.answer
      /\ r.result = RecoverXMLToolCalls(k.result, k.streamed)
  BY <1>1 DEF Recover, Becomes, Fields
<1> HIDE DEF k, r
<1>3. k.result = Parsed(k.answer) /\ Answer(k.answer)
  BY <1>1 DEF Heard
<1>4. Heard(r)
  BY <1>1, <1>2, <1>3 DEF Heard
<1> QED
  BY <1>2, <1>4, HeardBecomes

\* Steps that neither hear nor say anything.
LEMMA OtherHears ==
    ASSUME IInv, HInv, NEW c \in Calls,
           \/ Snapshot(c) \/ CursorTruncate(c) \/ CursorWrite(c) \/ SkipDisabled(c) \/ Attempt(c)
           \/ NextProvider(c) \/ Exhausted(c) \/ Send(c) \/ StreamStarts(c) \/ Backoff(c)
           \/ WakeUp(c) \/ WaitCancelled(c) \/ Cancel(c)
    PROVE  HInv'
<1> DEFINE k == call[c]
           Same(r) == /\ r.asm = k.asm /\ r.own = k.own /\ r.streamed = k.streamed
                      /\ r.dirty = k.dirty /\ r.answer = k.answer /\ r.result = k.result
<1>1. DOMAIN k = Fields /\ Heard(k)
  BY DEF IInv, CallInv, Shape, HInv
<1>2. \A r : call' = [call EXCEPT ![c] = r] /\ Same(r) /\ (r.pc \in {"recover", "done"} => r.pc = k.pc)
               => HInv'
  BY <1>1, HeardQuiet, HeardBecomes
<1>3. CASE Snapshot(c) \/ CursorTruncate(c) \/ CursorWrite(c)
  <2> DEFINE r == IF k.pc = "start"
                  THEN [k EXCEPT !.snap = cfg, !.overtaken = FALSE,
                                 !.cands = CandidatesFor(cfg, k.pinned, cursor),
                                 !.start = IF Rotates(cfg, k.pinned) THEN StartOf(cfg, cursor) ELSE 0,
                                 !.pc = IF Rotates(cfg, k.pinned) THEN "truncate" ELSE "next"]
                  ELSE [k EXCEPT !.pc = IF k.pc = "truncate" THEN "write" ELSE "next"]
  <2>1. call' = [call EXCEPT ![c] = r]
    BY <1>3 DEF Snapshot, CursorTruncate, CursorWrite, Becomes
  <2>2. Same(r) /\ r.pc \in {"truncate", "write", "next"}
    BY <1>1 DEF Fields
  <2> HIDE DEF r, Same
  <2> QED
    BY <1>2, <2>1, <2>2
<1>4. CASE SkipDisabled(c) \/ NextProvider(c)
  <2> DEFINE r == [k EXCEPT !.cands = Tail(@), !.tries = 0]
  <2>1. call' = [call EXCEPT ![c] = r]
    BY <1>4 DEF SkipDisabled, NextProvider, Becomes
  <2>2. Same(r) /\ r.pc = k.pc
    BY <1>1 DEF Fields
  <2> HIDE DEF r, Same
  <2> QED
    BY <1>2, <2>1, <2>2
<1>5. CASE Attempt(c)
  <2> DEFINE p == Head(k.cands)
             r == IF p \notin DOMAIN cfg.prov \/ ~cfg.prov[p].key
                  THEN [k EXCEPT !.attempts = @ + 1, !.tries = @ + 1, !.pc = "failed",
                                 !.last = Error("unusable", FALSE, 0)]
                  ELSE [k EXCEPT !.attempts = @ + 1, !.tries = @ + 1, !.pc = "open",
                                 !.api = cfg.prov[p].api]
  <2>1. call' = [call EXCEPT ![c] = r]
    BY <1>5 DEF Attempt, Becomes
  <2>2. Same(r) /\ r.pc \in {"failed", "open"}
    BY <1>1 DEF Fields
  <2> HIDE DEF r, Same
  <2> QED
    BY <1>2, <2>1, <2>2
<1>6. CASE Exhausted(c)
  <2> DEFINE r == [k EXCEPT !.pc = "failed",
                            !.last = IF @.why = "none" THEN Error("exhausted", TRUE, 0) ELSE @]
  <2>1. call' = [call EXCEPT ![c] = r]
    BY <1>6 DEF Exhausted, Becomes
  <2>2. Same(r) /\ r.pc = "failed"
    BY <1>1 DEF Fields
  <2> HIDE DEF r, Same
  <2> QED
    BY <1>2, <2>1, <2>2
<1>7. CASE Send(c)
  <2> DEFINE q == [k EXCEPT !.stream = cfg.stream /\ k.api # "messages", !.fallback = k.api # "messages"]
             r == Requesting(q)
  <2>1. call' = [call EXCEPT ![c] = r]
    BY <1>7 DEF Send, Becomes
  <2>2. DOMAIN q = Fields /\ Same(q)
    BY <1>1 DEF Fields
  <2> HIDE DEF q
  <2>3. Heard(r)
    BY <1>1, <2>2, AgainHears
  <2> HIDE DEF r
  <2> QED
    BY <2>1, <2>3, HeardBecomes
<1>8. CASE StreamStarts(c) \/ Backoff(c) \/ WaitCancelled(c)
  <2> DEFINE r == [k EXCEPT !.pc = IF k.pc = "sent" THEN "reading"
                                   ELSE IF k.cancelled THEN "failed" ELSE "asleep"]
  <2>1. call' = [call EXCEPT ![c] = r]
    BY <1>8 DEF StreamStarts, Backoff, WaitCancelled, Becomes
  <2>2. Same(r) /\ r.pc \in {"reading", "failed", "asleep"}
    BY <1>1 DEF Fields
  <2> HIDE DEF r, Same
  <2> QED
    BY <1>2, <2>1, <2>2
<1>9. CASE WakeUp(c)
  <2> DEFINE r == [k EXCEPT !.pc = "next", !.slept = @ + k.delay, !.delay = 0]
  <2>1. call' = [call EXCEPT ![c] = r]
    BY <1>9 DEF WakeUp, Becomes
  <2>2. Same(r) /\ r.pc = "next"
    BY <1>1 DEF Fields
  <2> HIDE DEF r, Same
  <2> QED
    BY <1>2, <2>1, <2>2
<1>10. CASE Cancel(c)
  <2> DEFINE r == [k EXCEPT !.cancelled = TRUE]
  <2>1. call' = [call EXCEPT ![c] = r]
    BY <1>10 DEF Cancel, Becomes
  <2>2. Same(r) /\ r.pc = k.pc
    BY <1>1 DEF Fields
  <2> HIDE DEF r, Same
  <2> QED
    BY <1>2, <2>1, <2>2
<1> QED
  BY <1>3, <1>4, <1>5, <1>6, <1>7, <1>8, <1>9, <1>10

LEMMA ReloadHears == ASSUME IInv, HInv, NEW f \in Configs, Reload(f) PROVE HInv'
<1>1. ASSUME NEW c \in Calls PROVE Heard(call'[c])
  <2> DEFINE k == call[c]
             r == [k EXCEPT !.overtaken = @ \/ k.pc # "start"]
  <2>1. DOMAIN k = Fields /\ Heard(k) /\ call'[c] = r
    BY DEF IInv, CallInv, Shape, HInv, Reload
  <2>2. \A x \in Fields \ {"overtaken"} : r[x] = k[x]
    BY <2>1 DEF Fields
  <2>3. /\ r.asm = k.asm /\ r.own = k.own /\ r.streamed = k.streamed
        /\ r.dirty = k.dirty /\ r.answer = k.answer /\ r.result = k.result /\ r.pc = k.pc
    BY <2>2 DEF Fields
  <2> HIDE DEF k, r
  <2>4. Heard(r)
    BY <2>1, <2>3, HeardQuiet
  <2> QED
    BY <2>1, <2>4
<1> QED
  BY <1>1 DEF HInv

LEMMA InitHInv == Init => HInv
<1> SUFFICES ASSUME Init, NEW c \in Calls PROVE Heard(call[c])
  BY DEF HInv
<1>1. PICK d \in Calls : \E p \in Pins(d) : call[c] = NewCall(d, p, cfg)
  BY DEF Init
<1> DEFINE k == call[c]
<1>2. /\ k.pc = "start" /\ k.asm = NewAssembler /\ k.own = <<>> /\ k.streamed = <<>> /\ k.dirty = FALSE
  BY <1>1 DEF NewCall
<1> HIDE DEF k
<1>3. Heard(k)
  BY <1>2, NewAssembled, NoText DEF Heard
<1> QED
  BY <1>3 DEF k

LEMMA StepHInv == IInv /\ HInv /\ [Next]_vars => HInv'
<1> SUFFICES ASSUME IInv, HInv, [Next]_vars PROVE HInv'
  OBVIOUS
<1>1. ASSUME NEW c \in Calls, Step(c) PROVE HInv'
  <2>1. CASE \E a \in Replies(c) : Receive(c, a)
    BY <2>1, ReceiveHears
  <2>2. CASE StreamEnds(c) \/ StreamLost(c)
    BY <2>2, StreamHears
  <2>3. CASE \E e \in Events(c) : StreamEvent(c, e)
    BY <2>3, EventHears
  <2>4. CASE Recover(c)
    BY <2>4, RecoverHears
  <2>5. CASE \/ Snapshot(c) \/ CursorTruncate(c) \/ CursorWrite(c) \/ SkipDisabled(c) \/ Attempt(c)
             \/ NextProvider(c) \/ Exhausted(c) \/ Send(c) \/ StreamStarts(c) \/ Backoff(c)
             \/ WakeUp(c) \/ WaitCancelled(c)
    BY <2>5, OtherHears
  <2> QED
    BY <1>1, <2>1, <2>2, <2>3, <2>4, <2>5 DEF Step
<1>2. ASSUME NEW c \in Calls, Cancel(c) PROVE HInv'
  BY <1>2, OtherHears
<1>3. ASSUME NEW f \in Configs, Reload(f) PROVE HInv'
  BY <1>3, ReloadHears
<1>4. CASE UNCHANGED vars
  BY <1>4 DEF vars, HInv
<1> QED
  BY <1>1, <1>2, <1>3, <1>4 DEF Next

LEMMA MostIs ==
    ASSUME NEW a \in Nat, NEW b \in Nat, NEW d \in Nat
    PROVE  Most({a, b, d}) = Larger(Larger(a, b), d)
<1> DEFINE S == {a, b, d}
           m == Larger(Larger(a, b), d)
<1>1. m \in S /\ \A y \in S : y <= m
  BY DEF Larger
<1>2. \A x \in S : x \in Nat
  OBVIOUS
<1> HIDE DEF S, m
<1>3. Most(S) \in S /\ \A y \in S : y <= Most(S)
  BY <1>1 DEF Most
<1>4. Most(S) = m
  BY <1>1, <1>2, <1>3
<1> QED
  BY <1>4 DEF S, m

\* Every call that was answered or written is executed once, and a native one
\* with the arguments it came with.
THEOREM CallsOnce == Spec => []EachCallOnce
<1>1. HInv => EachCallOnce
  <2> SUFFICES ASSUME HInv, NEW c \in Calls, call[c].pc = "done"
               PROVE  LET k == call[c]
                          names == {k.result.calls[i].name : i \in DOMAIN k.result.calls}
                          delivered(n, stream) ==
                              Most({Count(k.answer.calls, n),
                                    Count(ExtractXMLToolCalls(k.answer.text), n),
                                    Count(ExtractXMLToolCalls(stream), n)})
                      IN  /\ \A n \in names :
                               /\ Count(k.result.calls, n) = delivered(n, k.streamed)
                               /\ ~k.dirty => Count(k.result.calls, n) = delivered(n, k.own)
                          /\ \A i \in DOMAIN k.answer.calls :
                               /\ k.result.calls[i].name = k.answer.calls[i].name
                               /\ k.answer.calls[i].args # <<>>
                                    => k.result.calls[i].args = k.answer.calls[i].args
    BY DEF EachCallOnce
  <2> DEFINE k == call[c]
             p == Parsed(k.answer)
             api == k.answer.calls
             mid == p.calls
             out == k.result.calls
             inText == ExtractXMLToolCalls(k.answer.text)
             inOwn == ExtractXMLToolCalls(k.own)
             inAll == ExtractXMLToolCalls(k.streamed)
  <2>1. /\ Answer(k.answer) /\ IsText(k.streamed) /\ IsText(k.own)
        /\ k.result = RecoverXMLToolCalls(p, k.streamed)
        /\ k.dirty \in BOOLEAN /\ (k.dirty \/ inAll = inOwn)
    BY DEF HInv, Heard
  <2>2. Together(mid, api, inText)
    BY <2>1, ParsedIs
  <2>3. Together(out, mid, inAll)
    BY <2>1, <2>2, RecoverIs DEF Together
  <2>4. /\ IsSeq(api) /\ IsSeq(inText) /\ IsSeq(inAll) /\ IsSeq(mid)
    BY <2>1, <2>2, ExtractIs DEF Answer, Together
  <2>5. \A n : Count(api, n) \in Nat /\ Count(inText, n) \in Nat /\ Count(inAll, n) \in Nat
    BY <2>4, CountIs
  <2>6. Len(api) \in Nat /\ Len(mid) \in Nat /\ DOMAIN api = 1..Len(api)
    BY <2>4, IsSeqHas
  <2>7. k.dirty = (k.dirty = TRUE)
    BY <2>1
  <2> HIDE DEF k, p, api, mid, out, inText, inOwn, inAll
  <2>8. ASSUME NEW n
        PROVE  Count(out, n) = Most({Count(api, n), Count(inText, n), Count(inAll, n)})
    <3>1. Count(out, n) = Larger(Larger(Count(api, n), Count(inText, n)), Count(inAll, n))
      BY <2>2, <2>3 DEF Together
    <3> QED
      BY <2>5, <3>1, MostIs
  <2>10. ASSUME ~k.dirty, NEW n
         PROVE  Count(out, n) = Most({Count(api, n), Count(inText, n), Count(inOwn, n)})
    <3>1. inAll = inOwn
      BY <2>1, <2>10
    <3> QED
      BY <2>8, <3>1
  <2>9. \A i \in DOMAIN api : /\ out[i].name = api[i].name
                              /\ api[i].args # <<>> => out[i].args = api[i].args
    <3> TAKE i \in DOMAIN api
    <3>1. i \in 1..Len(api) /\ Len(api) <= Len(mid)
      BY <2>2, <2>6 DEF Together
    <3>2. i \in 1..Len(mid)
      BY <2>6, <3>1
    <3> QED
      BY <2>2, <2>3, <3>1, <3>2 DEF Together
  <2> QED
    BY <2>8, <2>9, <2>10 DEF k, api, out, inText, inOwn, inAll
<1>2. Spec => []HInv
  BY InitIInv, StepIInv, InitHInv, StepHInv, PTL DEF Spec
<1> QED
  BY <1>1, <1>2, PTL
=============================================================================
