------------------------- MODULE EventStream_proofs -------------------------
(***************************************************************************)
(* Proofs about the event stream, for any number of items, lost            *)
(* connections and openings of the conversation.                           *)
(*                                                                         *)
(* An item is issued when its seq is taken and for as long as its line is   *)
(* in the file or still to be written.  The file is in seq order, so what  *)
(* a streamer has read, what is on the wire and the page's cursor meet     *)
(* without a gap: an issued item is behind the page's cursor, on the wire, *)
(* behind the streamer's cursor, read, or yet to be read.                  *)
(***************************************************************************)
EXTENDS EventStream, SequenceTheorems, WellFoundedInduction, TLAPS

\* A line that is being written has its seq, and is not in the file yet.
Issued == Lines \cup (IF WorkerAt("append") THEN {head} ELSE {})

LogInv ==
    /\ head \in Seqs
    /\ worker \in [at : {"idle", "locked", "run", "append", "notify", "closing"}, end : BOOLEAN]
    /\ lines \in Seq(Seqs) /\ lines # <<>>
    /\ \A i, j \in 1..Len(lines) : i < j => lines[i] < lines[j]
    /\ \A s \in Lines : s <= head
    /\ WorkerAt("append") => \A s \in Lines : s < head
    /\ ends \subseteq Lines

\* The streamer's snapshot: the lines after its cursor, in order and without a gap.
ConnInv ==
    /\ conn \in [at : {"none", "read", "emit", "wait"}, cursor : 0..MaxSeq,
                 todo : Seq(Seqs), wake : BOOLEAN]
    /\ conn.at = "emit" <=> conn.todo # <<>>
    /\ conn.cursor <= head
    /\ \A i \in 1..Len(conn.todo) : conn.todo[i] \in Lines /\ conn.cursor < conn.todo[i]
    /\ \A i, j \in 1..Len(conn.todo) : i < j => conn.todo[i] < conn.todo[j]
    /\ \A i \in 1..Len(conn.todo) : \A s \in Issued :
          conn.cursor < s /\ s <= conn.todo[i] => s \in ToSet(conn.todo)

\* What the streamer sent beyond the page's cursor is on the wire, without a gap.
WireInv ==
    /\ wire \in Seq(Seqs)
    /\ \A i \in 1..Len(wire) : wire[i] \in Lines
    /\ \A i \in 1..Len(wire) : \A s \in Issued :
          cursor < s /\ s < wire[i] => \E j \in 1..(i - 1) : wire[j] = s
    /\ conn.at # "none" => \A s \in Issued : cursor < s /\ s <= conn.cursor => s \in ToSet(wire)
    /\ conn.at = "none" => wire = <<>>

PageInv ==
    /\ queue \in Seq(Seqs)
    /\ \A i \in 1..Len(queue) : queue[i] \in Lines
    /\ shown \subseteq Lines
    /\ cursor \in Seqs /\ cursor <= head /\ skipped \subseteq Seqs
    /\ busy \in BOOLEAN /\ stream \in {"idle", "open", "retry"}
    /\ stream = "open" <=> conn.at # "none"
    /\ \A s \in Issued : s <= cursor => s \in shown \cup ToSet(queue) \cup skipped

CallInv ==
    /\ get \in [at : {"none", "row", "lines", "head", "busy", "answer"}, active : BOOLEAN,
                busy : BOOLEAN, lines : SUBSET Lines, head : 0..MaxSeq]
    /\ get.head <= head
    /\ get.at \in {"head", "busy", "answer"} => get.head \in Seqs
    /\ post \in [at : {"none", "asked", "started", "accepted"}, head : 0..MaxSeq]
    /\ post.head <= head

\* A streamer that is past its read, and will not be woken, has read every line.
ReadAll ==
    conn.at \in {"emit", "wait"} /\ ~conn.wake /\ ~WorkerAt("notify") =>
        \A s \in Lines : s <= conn.cursor \/ s \in ToSet(conn.todo)

IInv == LogInv /\ ConnInv /\ WireInv /\ PageInv /\ CallInv /\ ReadAll
-----------------------------------------------------------------------------
(* Sequences *)

LEMMA Greatest ==
    ASSUME NEW n \in Nat, NEW S \in SUBSET (0..n), S # {}
    PROVE  \E x \in S : \A y \in S : y <= x
<1> DEFINE Less == {ss \in Nat \X Nat : ss[1] < ss[2]}
           T == {n - y : y \in S}
<1>1. OpToRel(<, Nat) = Less
  BY DEF OpToRel
<1>2. T \subseteq Nat /\ T # {}
  <2>1. \A y \in S : y \in 0..n
    OBVIOUS
  <2>2. \A y \in S : n - y \in Nat
    BY <2>1
  <2> QED
    BY <2>2
<1>3. PICK z \in T : \A y \in T : ~ (<<y, z>> \in Less)
  BY <1>1, <1>2, NatLessThanWellFounded, WFMin
<1>4. PICK x \in S : z = n - x
  OBVIOUS
<1>5. \A y \in S : ~ (n - y < n - x)
  <2> TAKE y \in S
  <2>1. <<n - y, z>> \notin Less
    BY <1>3
  <2> QED
    BY <2>1, <1>4
<1> QED
  BY <1>5

LEMMA Elements ==
    ASSUME NEW S, NEW q \in Seq(S)
    PROVE  /\ \A i \in 1..Len(q) : q[i] \in ToSet(q)
           /\ \A x \in ToSet(q) : \E i \in 1..Len(q) : x = q[i]
BY DEF ToSet

LEMMA AppendIs ==
    ASSUME NEW S, NEW q \in Seq(S), NEW x \in S
    PROVE  /\ Append(q, x) \in Seq(S) /\ Len(Append(q, x)) = Len(q) + 1
           /\ \A i \in 1..Len(q) : Append(q, x)[i] = q[i]
           /\ Append(q, x)[Len(q) + 1] = x
           /\ ToSet(Append(q, x)) = ToSet(q) \cup {x}
BY DEF ToSet

LEMMA TailIs ==
    ASSUME NEW S, NEW q \in Seq(S), q # <<>>
    PROVE  /\ Tail(q) \in Seq(S) /\ Len(Tail(q)) = Len(q) - 1 /\ Len(q) \in Nat \ {0}
           /\ \A i \in 1..(Len(q) - 1) : Tail(q)[i] = q[i + 1]
           /\ Head(q) = q[1] /\ Head(q) \in S
           /\ ToSet(q) = ToSet(Tail(q)) \cup {Head(q)}
<1>1. Tail(q) \in Seq(S) /\ Len(Tail(q)) = Len(q) - 1 /\ Len(q) \in Nat \ {0}
  OBVIOUS
<1>2. \A i \in 1..(Len(q) - 1) : Tail(q)[i] = q[i + 1]
  OBVIOUS
<1>3. Head(q) = q[1] /\ Head(q) \in S
  OBVIOUS
<1>4. ASSUME NEW x \in ToSet(q) PROVE x \in ToSet(Tail(q)) \cup {Head(q)}
  <2>1. PICK i \in 1..Len(q) : x = q[i]
    BY DEF ToSet
  <2>2. CASE i = 1
    BY <2>1, <2>2, <1>3
  <2>3. CASE i # 1
    <3>1. i - 1 \in 1..Len(Tail(q)) /\ x = Tail(q)[i - 1]
      BY <1>1, <1>2, <2>1, <2>3
    <3> QED
      BY <3>1, <1>1, Elements
  <2> QED
    BY <2>2, <2>3
<1>5. ASSUME NEW x \in ToSet(Tail(q)) PROVE x \in ToSet(q)
  <2>1. PICK i \in 1..Len(Tail(q)) : x = Tail(q)[i]
    BY <1>1 DEF ToSet
  <2> QED
    BY <2>1, <1>1, <1>2 DEF ToSet
<1>6. Head(q) \in ToSet(q)
  BY <1>1, <1>3 DEF ToSet
<1> QED
  BY <1>1, <1>2, <1>3, <1>4, <1>5, <1>6

\* The filter of GetThread returns the lines after a seq, all of them, in order.
LEMMA AfterIs ==
    ASSUME LogInv, NEW c \in Nat
    PROVE  /\ After(c) \in Seq(Seqs)
           /\ \A i \in 1..Len(After(c)) : After(c)[i] \in Lines /\ c < After(c)[i]
           /\ \A i, j \in 1..Len(After(c)) : i < j => After(c)[i] < After(c)[j]
           /\ \A s \in Lines : c < s => s \in ToSet(After(c))
<1> DEFINE Splits(n) == \A i \in 1..Len(lines) : i <= n <=> lines[i] <= c
           Low == {i \in 0..Len(lines) : i = 0 \/ lines[i] <= c}
<1>1. lines \in Seq(Seqs) /\ Len(lines) \in Nat /\ \A i \in 1..Len(lines) : lines[i] \in Nat
  <2>1. lines \in Seq(Seqs) /\ Seqs \subseteq Nat
    BY DEF LogInv, Seqs
  <2>2. \A i \in 1..Len(lines) : lines[i] \in Seqs
    BY <2>1
  <2> QED
    BY <2>1, <2>2, LenProperties
<1>2. Low \in SUBSET (0..Len(lines)) /\ Low # {}
  BY <1>1
<1>3. PICK m \in Low : \A y \in Low : y <= m
  BY <1>1, <1>2, Greatest
<1>4. Splits(m)
  <2> TAKE i \in 1..Len(lines)
  <2>1. i <= m => lines[i] <= c
    <3>1. CASE i = m
      BY <3>1, <1>1
    <3>2. CASE i < m
      <4>1. lines[i] < lines[m] /\ lines[m] <= c
        BY <3>2, <1>1 DEF LogInv
      <4> QED
        BY <4>1, <1>1
    <3> QED
      BY <3>1, <3>2, <1>1
  <2>2. lines[i] <= c => i <= m
    BY <1>1, <1>3
  <2> QED
    BY <2>1, <2>2
<1> DEFINE upTo == CHOOSE n \in 0..Len(lines) : Splits(n)
<1>5. upTo \in 0..Len(lines) /\ Splits(upTo)
  BY <1>3, <1>4
<1>6. After(c) = SubSeq(lines, upTo + 1, Len(lines))
  BY DEF After
<1> HIDE DEF upTo
<1>7. /\ After(c) \in Seq(Seqs) /\ Len(After(c)) = Len(lines) - upTo
      /\ \A i \in 1..Len(After(c)) : After(c)[i] = lines[upTo + i]
  <2>1. upTo + 1 \in 1..(Len(lines) + 1)
    BY <1>5, <1>1
  <2> QED
    BY <1>1, <1>5, <1>6, <2>1
<1>8. \A i \in 1..Len(After(c)) : After(c)[i] \in Lines /\ c < After(c)[i]
  <2> TAKE i \in 1..Len(After(c))
  <2>1. upTo + i \in 1..Len(lines) /\ ~ (upTo + i <= upTo)
    BY <1>1, <1>5, <1>7
  <2>2. ~ (lines[upTo + i] <= c)
    BY <2>1, <1>5
  <2> QED
    BY <2>1, <2>2, <1>1, <1>7 DEF Lines, ToSet
<1>9. \A i, j \in 1..Len(After(c)) : i < j => After(c)[i] < After(c)[j]
  BY <1>1, <1>5, <1>7 DEF LogInv
<1>10. \A s \in Lines : c < s => s \in ToSet(After(c))
  <2> SUFFICES ASSUME NEW i \in 1..Len(lines), c < lines[i] PROVE lines[i] \in ToSet(After(c))
    BY <1>1 DEF Lines, ToSet
  <2>1. i - upTo \in 1..Len(After(c)) /\ lines[i] = After(c)[i - upTo]
    BY <1>1, <1>5, <1>7
  <2> QED
    BY <2>1, <1>7 DEF ToSet
<1> QED
  BY <1>7, <1>8, <1>9, <1>10
-----------------------------------------------------------------------------
(* The worker *)

InRange ==
    /\ Seqs \subseteq Nat /\ 0 \in 0..MaxSeq /\ head \in Nat
    /\ Lines \subseteq Issued /\ Issued \subseteq Seqs
    /\ \A s \in Issued : s \in Nat /\ s <= head
    /\ ~WorkerAt("append") => Issued = Lines

LEMMA Ranges == LogInv => InRange
<1> SUFFICES ASSUME LogInv PROVE InRange
  OBVIOUS
<1>1. Lines \subseteq Seqs
  BY Elements DEF LogInv, Lines
<1> QED
  BY <1>1, SeqAssumption DEF LogInv, Issued, Seqs, InRange

LEMMA InitIInv == Init => IInv
<1> SUFFICES ASSUME Init PROVE IInv
  OBVIOUS
<1> USE DEF Init
<1>1. 1 \in Seqs /\ 0 \in 0..MaxSeq
  BY SeqAssumption DEF Seqs
<1>2. lines \in Seq(Seqs) /\ Len(lines) = 1 /\ lines # <<>> /\ lines[1] = 1
  BY <1>1
<1>3. Lines = {1} /\ Issued = {1}
  BY <1>2 DEF Lines, Issued, WorkerAt, ToSet
<1>4. LogInv
  BY <1>1, <1>2, <1>3 DEF LogInv, WorkerAt
<1>5. ConnInv
  BY <1>1, <1>3 DEF ConnInv, NoConn
<1>6. WireInv
  BY <1>1, <1>3 DEF WireInv, NoConn
<1>7. PageInv
  <2>1. queue \in Seq(Seqs) /\ Len(queue) = 0
    OBVIOUS
  <2>2. stream = "open" <=> conn.at # "none"
    BY DEF NoConn
  <2>3. \A i \in 1..Len(queue) : queue[i] \in Lines
    BY <2>1
  <2>4. \A s \in Issued : s <= cursor => s \in shown \cup ToSet(queue) \cup skipped
    BY <1>3
  <2>5. cursor <= head
    OBVIOUS
  <2> QED
    BY <2>1, <1>1, <1>3, <2>2, <2>3, <2>4, <2>5 DEF PageInv
<1>8. CallInv
  BY <1>1 DEF CallInv, NoGet, NoPost
<1>9. ReadAll
  BY DEF ReadAll, NoConn
<1> QED
  BY <1>4, <1>5, <1>6, <1>7, <1>8, <1>9 DEF IInv

\* Items beyond the seq file's head disturb nobody: nothing was sent or read from there.
LEMMA Grows ==
    ASSUME IInv, LogInv', Lines \subseteq Lines', head <= head',
           \A s \in Issued' : s \in Issued \/ head < s,
           conn' = [conn EXCEPT !.wake = conn'.wake], conn'.wake \in BOOLEAN,
           post' \in [at : {"none", "asked", "started", "accepted"}, head : 0..MaxSeq],
           post'.head <= head',
           UNCHANGED <<wire, page, get>>
    PROVE  ConnInv' /\ WireInv' /\ PageInv' /\ CallInv'
<1>1. InRange /\ InRange'
  BY Ranges, PTL DEF IInv
<1>2. (\A s \in Issued' : s \in Nat) /\ (\A s \in Issued : s \in Nat /\ s <= head)
  BY <1>1 DEF InRange
<1>3. /\ conn \in [at : {"none", "read", "emit", "wait"}, cursor : 0..MaxSeq, todo : Seq(Seqs), wake : BOOLEAN]
      /\ conn'.at = conn.at /\ conn'.cursor = conn.cursor /\ conn'.todo = conn.todo
      /\ conn' \in [at : {"none", "read", "emit", "wait"}, cursor : 0..MaxSeq, todo : Seq(Seqs), wake : BOOLEAN]
  BY DEF IInv, ConnInv
<1>4. head \in Nat /\ head' \in Nat
  BY <1>1 DEF InRange
<1>5. /\ \A i \in 1..Len(conn.todo) : conn.todo[i] \in Nat /\ conn.todo[i] <= head
      /\ \A i \in 1..Len(wire) : wire[i] \in Nat /\ wire[i] <= head
      /\ conn.cursor \in Nat /\ conn.cursor <= head /\ cursor \in Nat /\ cursor <= head
  BY <1>1 DEF IInv, ConnInv, WireInv, PageInv, Seqs, InRange
<1>6. ConnInv'
  BY <1>2, <1>3, <1>4, <1>5 DEF IInv, ConnInv
<1>7. WireInv'
  <2>1. \A i \in 1..Len(wire) : \A s \in Issued' :
          cursor < s /\ s < wire[i] => \E j \in 1..(i - 1) : wire[j] = s
    BY <1>2, <1>4, <1>5 DEF IInv, WireInv
  <2>2. conn.at # "none" => \A s \in Issued' : cursor < s /\ s <= conn.cursor => s \in ToSet(wire)
    BY <1>2, <1>4, <1>5 DEF IInv, WireInv
  <2> QED
    BY <2>1, <2>2, <1>3 DEF IInv, WireInv, page
<1>8. PageInv'
  BY <1>2, <1>3, <1>4, <1>5 DEF IInv, PageInv, page
<1>9. CallInv'
  BY <1>4 DEF IInv, CallInv
<1> QED
  BY <1>6, <1>7, <1>8, <1>9

LEMMA OtherTurnStep == ASSUME IInv, OtherTurn \/ Acquire \/ Release \/ TurnAccepted PROVE IInv'
<1> USE DEF OtherTurn, Acquire, Release, TurnAccepted, NoPost, log, page, calls, bounds, WorkerAt
<1>1. InRange
  BY Ranges DEF IInv
<1>0. /\ worker.at # "append" /\ worker'.at # "append"
      /\ worker' \in [at : {"idle", "locked", "run", "append", "notify", "closing"}, end : BOOLEAN]
      /\ UNCHANGED <<lines, ends, head>>
  <2>1. worker \in [at : {"idle", "locked", "run", "append", "notify", "closing"}, end : BOOLEAN]
    BY DEF IInv, LogInv
  <2>2. CASE OtherTurn
    BY <2>1, <2>2
  <2>3. CASE Acquire
    BY <2>1, <2>3
  <2>4. CASE Release
    BY <2>1, <2>4
  <2>5. CASE TurnAccepted
    BY <2>1, <2>5
  <2> QED
    BY <2>2, <2>3, <2>4, <2>5
<1>2. Lines' = Lines /\ Issued' = Issued
  BY <1>0 DEF Lines, Issued
<1>3. LogInv'
  BY <1>0, <1>2 DEF IInv, LogInv
<1>4. conn' = conn /\ conn = [conn EXCEPT !.wake = conn.wake] /\ conn.wake \in BOOLEAN
  BY DEF IInv, ConnInv
<1>5. /\ post' \in [at : {"none", "asked", "started", "accepted"}, head : 0..MaxSeq]
      /\ post'.head <= head'
  <2>1. /\ post \in [at : {"none", "asked", "started", "accepted"}, head : 0..MaxSeq]
        /\ post.head <= head /\ head \in 0..MaxSeq /\ head' = head /\ head <= head /\ 0 <= head
        /\ 0 \in 0..MaxSeq
    BY <1>0, <1>1 DEF IInv, CallInv, LogInv, Seqs, InRange
  <2>2. post' \in {post, [at |-> "accepted", head |-> head], [at |-> "started", head |-> 0]}
    OBVIOUS
  <2> QED
    BY <2>1, <2>2
<1>6. UNCHANGED <<wire, page, get>> /\ head' = head /\ head <= head
  BY <1>1 DEF InRange
<1>7. ConnInv' /\ WireInv' /\ PageInv' /\ CallInv'
  BY <1>2, <1>3, <1>4, <1>5, <1>6, Grows
<1>8. ReadAll'
  BY <1>2, <1>4 DEF IInv, ReadAll
<1> QED
  BY <1>3, <1>7, <1>8 DEF IInv

LEMMA NextSeqStep == ASSUME IInv, NEW end \in BOOLEAN, NextSeq(end) PROVE IInv'
<1> USE DEF NextSeq, log, page, calls, bounds, WorkerAt
<1>1. InRange
  BY Ranges DEF IInv
<1>2. Lines' = Lines /\ Issued' = Issued \cup {head + 1} /\ head' = head + 1 /\ head \in Nat
  BY <1>1 DEF Lines, Issued, InRange
<1>3. LogInv'
  <2>1. \A s \in Lines : s \in Nat /\ s <= head
    BY <1>1 DEF InRange
  <2>2. head + 1 \in Seqs
    BY <1>2, SeqAssumption DEF Seqs
  <2> QED
    BY <1>2, <2>1, <2>2 DEF IInv, LogInv
<1>4. conn' = conn /\ conn = [conn EXCEPT !.wake = conn.wake] /\ conn.wake \in BOOLEAN
  BY DEF IInv, ConnInv
<1>5. /\ post' \in [at : {"none", "asked", "started", "accepted"}, head : 0..MaxSeq]
      /\ post'.head <= head'
  BY <1>2 DEF IInv, CallInv
<1>6. UNCHANGED <<wire, page, get>> /\ head <= head' /\ \A s \in Issued' : s \in Issued \/ head < s
  BY <1>2
<1>7. ConnInv' /\ WireInv' /\ PageInv' /\ CallInv'
  BY <1>2, <1>3, <1>4, <1>5, <1>6, Grows
<1>8. ReadAll'
  BY <1>2, <1>4 DEF IInv, ReadAll
<1> QED
  BY <1>3, <1>7, <1>8 DEF IInv

LEMMA AppendLineStep == ASSUME IInv, AppendLine PROVE IInv'
<1> USE DEF AppendLine, log, page, calls, bounds, WorkerAt
<1>1. InRange /\ head \in Seqs /\ lines \in Seq(Seqs)
  BY Ranges DEF IInv, LogInv
<1>2. /\ lines' \in Seq(Seqs) /\ Len(lines') = Len(lines) + 1
      /\ \A i \in 1..Len(lines) : lines'[i] = lines[i]
      /\ lines'[Len(lines) + 1] = head
      /\ Lines' = Lines \cup {head}
  BY <1>1, AppendIs DEF Lines
<1>3. Issued' = Issued /\ Lines \subseteq Lines'
  BY <1>2 DEF Issued, IInv, LogInv
<1>4. LogInv'
  <2>1. \A s \in Lines : s \in Nat /\ s < head
    BY <1>1 DEF InRange, IInv, LogInv
  <2>2. \A i, j \in 1..Len(lines') : i < j => lines'[i] < lines'[j]
    <3> TAKE i, j \in 1..Len(lines')
    <3> HAVE i < j
    <3>1. i \in 1..Len(lines) /\ lines'[i] = lines[i] /\ lines[i] \in Lines /\ Len(lines) \in Nat
      BY <1>1, <1>2, Elements DEF Lines
    <3>2. CASE j = Len(lines) + 1
      BY <1>2, <2>1, <3>1, <3>2
    <3>3. CASE j # Len(lines) + 1
      BY <1>2, <3>1, <3>3 DEF IInv, LogInv
    <3> QED
      BY <3>2, <3>3
  <2>3. \A s \in Lines' : s <= head
    BY <1>1, <1>2, <2>1 DEF InRange
  <2>4. ends' \subseteq Lines' /\ lines' # <<>> /\ head' = head
    BY <1>1, <1>2 DEF IInv, LogInv
  <2>5. worker'.at = "notify"
        /\ worker' \in [at : {"idle", "locked", "run", "append", "notify", "closing"}, end : BOOLEAN]
    BY DEF IInv, LogInv
  <2> QED
    BY <1>1, <1>2, <2>2, <2>3, <2>4, <2>5 DEF LogInv
<1>5. conn' = conn /\ conn = [conn EXCEPT !.wake = conn.wake] /\ conn.wake \in BOOLEAN
  BY DEF IInv, ConnInv
<1>6. /\ post' \in [at : {"none", "asked", "started", "accepted"}, head : 0..MaxSeq]
      /\ post'.head <= head'
  BY DEF IInv, CallInv
<1>7. UNCHANGED <<wire, page, get>> /\ head <= head'
  BY <1>1 DEF InRange
<1>8. ConnInv' /\ WireInv' /\ PageInv' /\ CallInv'
  BY <1>3, <1>4, <1>5, <1>6, <1>7, Grows
<1>9. ReadAll'
  BY DEF IInv, LogInv, ReadAll
<1> QED
  BY <1>4, <1>8, <1>9 DEF IInv

LEMMA AppendFailsStep == ASSUME IInv, AppendFails PROVE IInv'
<1> USE DEF AppendFails, log, page, calls, bounds, WorkerAt
<1>1. InRange
  BY Ranges DEF IInv
<1>2. Lines' = Lines /\ Issued' \subseteq Issued
  BY DEF Lines, Issued
<1>3. LogInv'
  BY <1>2 DEF IInv, LogInv
<1>4. conn' = conn /\ conn = [conn EXCEPT !.wake = conn.wake] /\ conn.wake \in BOOLEAN
  BY DEF IInv, ConnInv
<1>5. /\ post' \in [at : {"none", "asked", "started", "accepted"}, head : 0..MaxSeq]
      /\ post'.head <= head'
  BY DEF IInv, CallInv
<1>6. UNCHANGED <<wire, page, get>> /\ head' = head /\ head <= head
  BY <1>1 DEF InRange
<1>7. ConnInv' /\ WireInv' /\ PageInv' /\ CallInv'
  BY <1>2, <1>3, <1>4, <1>5, <1>6, Grows
<1>8. ReadAll'
  BY <1>2, <1>4 DEF IInv, ReadAll
<1> QED
  BY <1>3, <1>7, <1>8 DEF IInv

LEMMA NotifyStep == ASSUME IInv, Notify PROVE IInv'
<1> USE DEF Notify, log, page, calls, bounds, WorkerAt
<1>1. InRange
  BY Ranges DEF IInv
<1>2. Lines' = Lines /\ Issued' = Issued
  BY DEF Lines, Issued
<1>3. LogInv'
  BY <1>2 DEF IInv, LogInv
<1>4. /\ conn' = [conn EXCEPT !.wake = conn'.wake]
      /\ conn'.wake = (conn.at # "none") /\ conn'.at = conn.at
  BY DEF IInv, ConnInv
<1>5. /\ post' \in [at : {"none", "asked", "started", "accepted"}, head : 0..MaxSeq]
      /\ post'.head <= head'
  BY DEF IInv, CallInv
<1>6. UNCHANGED <<wire, page, get>> /\ head' = head /\ head <= head /\ conn'.wake \in BOOLEAN
  BY <1>1, <1>4 DEF InRange
<1>7. ConnInv' /\ WireInv' /\ PageInv' /\ CallInv'
  BY <1>2, <1>3, <1>4, <1>5, <1>6, Grows
<1>8. ReadAll'
  BY <1>4 DEF ReadAll
<1> QED
  BY <1>3, <1>7, <1>8 DEF IInv
-----------------------------------------------------------------------------
(* The streamer *)

LEMMA LogKept ==
    ASSUME LogInv, UNCHANGED <<log, worker>>
    PROVE  LogInv' /\ Lines' = Lines /\ Issued' = Issued /\ head' = head /\ InRange
<1>1. Lines' = Lines /\ Issued' = Issued
  BY DEF log, Lines, Issued, WorkerAt
<1>2. LogInv'
  BY <1>1 DEF log, LogInv, WorkerAt
<1> QED
  BY <1>1, <1>2, Ranges DEF log

LEMMA EmitReadStep == ASSUME IInv, EmitRead PROVE IInv'
<1> USE DEF EmitRead, page, calls, bounds
<1>1. LogInv' /\ Lines' = Lines /\ Issued' = Issued /\ head' = head /\ InRange
  BY LogKept DEF IInv
<1> DEFINE new == After(conn.cursor)
<1>2. /\ new \in Seq(Seqs)
      /\ \A i \in 1..Len(new) : new[i] \in Lines /\ conn.cursor < new[i]
      /\ \A i, j \in 1..Len(new) : i < j => new[i] < new[j]
      /\ \A s \in Lines : conn.cursor < s => s \in ToSet(new)
  BY AfterIs DEF IInv, ConnInv
<1>3. /\ conn' = [conn EXCEPT !.todo = new, !.at = IF new = <<>> THEN "wait" ELSE "emit"]
      /\ UNCHANGED <<log, worker, wire, queue, shown, cursor, busy, stream, skipped, get, post>>
  OBVIOUS
<1> HIDE DEF new, EmitRead
<1>4. /\ conn' \in [at : {"none", "read", "emit", "wait"}, cursor : 0..MaxSeq,
                    todo : Seq(Seqs), wake : BOOLEAN]
      /\ conn'.cursor = conn.cursor /\ conn'.todo = new /\ conn'.at # "none"
      /\ conn'.wake = conn.wake /\ (conn'.at = "emit" <=> new # <<>>)
      /\ conn.cursor <= head
  BY <1>2, <1>3 DEF IInv, ConnInv
<1>5. conn.at # "none"
  BY DEF EmitRead
<1>6. \A i \in 1..Len(new) : \A s \in Issued :
         conn.cursor < s /\ s <= new[i] => s \in ToSet(new)
  <2> TAKE i \in 1..Len(new)
  <2> TAKE s \in Issued
  <2> HAVE conn.cursor < s /\ s <= new[i]
  <2>1. new[i] \in Lines /\ conn.cursor < s
    BY <1>2
  <2>2. s \in Lines
    BY <1>1, <2>1 DEF Issued, IInv, LogInv, InRange
  <2> QED
    BY <1>2, <2>1, <2>2
<1>7. ConnInv'
  BY <1>1, <1>2, <1>3, <1>4, <1>6 DEF ConnInv
<1>8. WireInv' /\ PageInv'
  BY <1>1, <1>3, <1>4, <1>5 DEF IInv, WireInv, PageInv
<1>9. CallInv'
  BY <1>1, <1>3 DEF IInv, CallInv
<1>10. ReadAll'
  BY <1>1, <1>2, <1>4 DEF IInv, ConnInv, ReadAll, InRange
<1> QED
  BY <1>1, <1>7, <1>8, <1>9, <1>10 DEF IInv

LEMMA EmitStep == ASSUME IInv, Emit PROVE IInv'
<1> USE DEF Emit, page, calls, bounds
<1>1. LogInv' /\ Lines' = Lines /\ Issued' = Issued /\ head' = head /\ InRange
  BY LogKept DEF IInv
<1> DEFINE todo == conn.todo
           x == Head(todo)
<1>2. /\ conn \in [at : {"none", "read", "emit", "wait"}, cursor : 0..MaxSeq,
                   todo : Seq(Seqs), wake : BOOLEAN]
      /\ todo \in Seq(Seqs) /\ todo # <<>>
  BY DEF IInv, ConnInv
<1>3. /\ Tail(todo) \in Seq(Seqs) /\ Len(Tail(todo)) = Len(todo) - 1 /\ Len(todo) \in Nat \ {0}
      /\ \A i \in 1..(Len(todo) - 1) : Tail(todo)[i] = todo[i + 1]
      /\ x = todo[1] /\ x \in Seqs
      /\ ToSet(todo) = ToSet(Tail(todo)) \cup {x}
  BY <1>2, TailIs
<1>4. /\ conn' = [conn EXCEPT !.cursor = x, !.todo = Tail(todo),
                              !.at = IF Len(todo) = 1 THEN "wait" ELSE "emit"]
      /\ wire' = Append(wire, x) /\ conn.at # "none"
      /\ UNCHANGED <<log, worker, queue, shown, cursor, busy, stream, skipped, get, post>>
  BY <1>2
<1> HIDE DEF Emit
<1>5. /\ conn' \in [at : {"none", "read", "emit", "wait"}, cursor : 0..MaxSeq,
                    todo : Seq(Seqs), wake : BOOLEAN]
      /\ conn'.cursor = x /\ conn'.todo = Tail(todo) /\ conn'.at # "none" /\ conn'.wake = conn.wake
      /\ conn'.at = IF Len(todo) = 1 THEN "wait" ELSE "emit"
  <2>1. x \in 0..MaxSeq
    BY <1>3 DEF Seqs
  <2> HIDE DEF todo, x
  <2> QED
    BY <1>2, <1>3, <1>4, <2>1
<1>6. /\ x \in Lines /\ conn.cursor < x /\ x <= head
      /\ \A i \in 1..Len(Tail(todo)) : Tail(todo)[i] \in Lines /\ x < Tail(todo)[i]
      /\ \A i, j \in 1..Len(Tail(todo)) : i < j => Tail(todo)[i] < Tail(todo)[j]
  BY <1>1, <1>3 DEF IInv, LogInv, ConnInv
<1>7. conn'.at = "emit" <=> Tail(todo) # <<>>
  <2>1. Tail(todo) = <<>> <=> Len(Tail(todo)) = 0
    BY <1>3, EmptySeq
  <2> HIDE DEF todo
  <2> QED
    BY <2>1, <1>3, <1>5
<1>8. /\ \A s \in Lines \cup Issued : s \in Nat
      /\ conn.cursor \in Nat /\ x \in Nat /\ cursor \in Nat
  <2>1. x \in Nat /\ cursor \in Nat
    BY <1>1, <1>3 DEF InRange, IInv, PageInv
  <2>2. conn.cursor \in 0..MaxSeq
    BY <1>2
  <2> QED
    BY <2>1, <2>2, <1>1, SeqAssumption DEF InRange
<1>9. \A s \in Issued : conn.cursor < s /\ s < x => FALSE
  <2> SUFFICES ASSUME NEW s \in Issued, conn.cursor < s, s < x PROVE FALSE
    OBVIOUS
  <2>1. s \in ToSet(todo)
    BY <1>3, <1>8 DEF IInv, ConnInv
  <2>2. PICK i \in 1..Len(todo) : s = todo[i]
    BY <2>1, <1>2, Elements
  <2>3. i = 1 \/ x < s
    BY <1>3, <2>2 DEF IInv, ConnInv
  <2> QED
    BY <2>2, <2>3, <1>3, <1>8
<1>10. ConnInv'
  <2>1. \A i \in 1..Len(Tail(todo)) : \A s \in Issued :
           x < s /\ s <= Tail(todo)[i] => s \in ToSet(Tail(todo))
    <3> TAKE i \in 1..Len(Tail(todo))
    <3> TAKE s \in Issued
    <3> HAVE x < s /\ s <= Tail(todo)[i]
    <3>1. i + 1 \in 1..Len(todo) /\ s <= todo[i + 1] /\ conn.cursor < s
      BY <1>3, <1>6, <1>8
    <3>2. s \in ToSet(todo) /\ s # x
      BY <3>1, <1>8 DEF IInv, ConnInv
    <3> QED
      BY <3>2, <1>3
  <2> QED
    BY <1>1, <1>5, <1>6, <1>7, <2>1 DEF ConnInv
<1>11. /\ wire \in Seq(Seqs) /\ wire' \in Seq(Seqs) /\ Len(wire') = Len(wire) + 1 /\ Len(wire) \in Nat
       /\ \A i \in 1..Len(wire) : wire'[i] = wire[i]
       /\ wire'[Len(wire) + 1] = x
       /\ ToSet(wire') = ToSet(wire) \cup {x}
  BY <1>3, <1>4, AppendIs, LenProperties DEF IInv, WireInv
<1>12. WireInv'
  <2>1. \A i \in 1..Len(wire') : wire'[i] \in Lines
    BY <1>6, <1>11 DEF IInv, WireInv
  <2>2. \A s \in Issued : cursor < s /\ s <= conn.cursor => s \in ToSet(wire)
    BY <1>4 DEF IInv, WireInv
  <2>3. \A s \in Issued : cursor < s /\ s <= x => s \in ToSet(wire')
    BY <2>2, <1>8, <1>9, <1>11
  <2>4. \A i \in 1..Len(wire') : \A s \in Issued :
          cursor < s /\ s < wire'[i] => \E j \in 1..(i - 1) : wire'[j] = s
    <3> TAKE i \in 1..Len(wire')
    <3> TAKE s \in Issued
    <3> HAVE cursor < s /\ s < wire'[i]
    <3>1. CASE i = Len(wire) + 1
      <4>1. s \in ToSet(wire)
        BY <3>1, <2>2, <1>8, <1>9, <1>11
      <4> QED
        BY <4>1, <3>1, <1>11, Elements
    <3>2. CASE i # Len(wire) + 1
      <4>1. i \in 1..Len(wire) /\ wire'[i] = wire[i]
        BY <3>2, <1>11
      <4>2. PICK j \in 1..(i - 1) : wire[j] = s
        BY <4>1 DEF IInv, WireInv
      <4> QED
        BY <4>1, <4>2, <1>11
    <3> QED
      BY <3>1, <3>2
  <2> QED
    BY <1>1, <1>4, <1>5, <1>11, <2>1, <2>3, <2>4 DEF WireInv
<1>13. PageInv'
  BY <1>1, <1>4, <1>5 DEF IInv, PageInv
<1>14. CallInv'
  BY <1>1, <1>4 DEF IInv, CallInv
<1>15. ReadAll'
  <2>1. UNCHANGED worker /\ (WorkerAt("notify") <=> WorkerAt("notify")')
    BY <1>4 DEF WorkerAt
  <2>2. conn.at = "emit"
    BY DEF Emit
  <2> QED
    BY <2>1, <2>2, <1>1, <1>3, <1>5, <1>6, <1>8 DEF IInv, ReadAll
<1> QED
  BY <1>1, <1>10, <1>12, <1>13, <1>14, <1>15 DEF IInv

LEMMA WakeStep == ASSUME IInv, Wake \/ Tick PROVE IInv'
<1> USE DEF Wake, Tick, page, calls, bounds
<1>1. LogInv' /\ Lines' = Lines /\ Issued' = Issued /\ head' = head /\ InRange
  BY LogKept DEF IInv
<1>2. /\ conn' \in [at : {"none", "read", "emit", "wait"}, cursor : 0..MaxSeq,
                    todo : Seq(Seqs), wake : BOOLEAN]
      /\ conn'.cursor = conn.cursor /\ conn'.todo = conn.todo /\ conn'.at = "read" /\ conn.at = "wait"
      /\ UNCHANGED <<wire, queue, shown, cursor, busy, stream, skipped, get, post>>
  <2>1. conn \in [at : {"none", "read", "emit", "wait"}, cursor : 0..MaxSeq,
                  todo : Seq(Seqs), wake : BOOLEAN]
    BY DEF IInv, ConnInv
  <2>2. CASE Wake
    BY <2>1, <2>2
  <2>3. CASE Tick
    BY <2>1, <2>3
  <2> QED
    BY <2>2, <2>3
<1>3. ConnInv'
  BY <1>1, <1>2 DEF IInv, ConnInv
<1>4. WireInv' /\ PageInv'
  BY <1>1, <1>2 DEF IInv, WireInv, PageInv
<1>5. CallInv' /\ ReadAll'
  BY <1>1, <1>2 DEF IInv, CallInv, ReadAll
<1> QED
  BY <1>1, <1>3, <1>4, <1>5 DEF IInv
-----------------------------------------------------------------------------
(* The page *)

LEMMA ReceiveStep == ASSUME IInv, Receive PROVE IInv'
<1> USE DEF Receive, calls, bounds
<1>1. LogInv' /\ Lines' = Lines /\ Issued' = Issued /\ head' = head /\ InRange
  BY LogKept DEF IInv
<1> DEFINE x == Head(wire)
<1>2. /\ wire' \in Seq(Seqs) /\ Len(wire') = Len(wire) - 1 /\ Len(wire) \in Nat \ {0}
      /\ \A i \in 1..(Len(wire) - 1) : wire'[i] = wire[i + 1]
      /\ x = wire[1] /\ x \in Seqs
      /\ ToSet(wire) = ToSet(wire') \cup {x}
  BY TailIs DEF IInv, WireInv
<1>3. /\ \/ x > cursor /\ cursor' = x /\ queue' = Append(queue, x)
         \/ ~ (x > cursor) /\ cursor' = cursor /\ queue' = queue
      /\ UNCHANGED <<log, worker, conn, shown, busy, stream, skipped, get, post>>
      /\ wire # <<>>
  OBVIOUS
<1> HIDE DEF x, Receive
<1>4. /\ x \in Lines /\ x \in Nat /\ cursor \in Nat /\ x <= head
      /\ \A s \in Issued : s \in Nat
      /\ \A i \in 1..Len(wire) : wire[i] \in Nat
  <2>1. \A i \in 1..Len(wire) : wire[i] \in Lines
    BY DEF IInv, WireInv
  <2>2. \A s \in Lines : s \in Nat /\ s <= head
    BY <1>1 DEF InRange
  <2>3. x \in Lines /\ cursor \in Nat
    BY <1>1, <1>2, <2>1 DEF IInv, PageInv, InRange
  <2> QED
    BY <1>1, <2>1, <2>2, <2>3 DEF InRange
<1>5. cursor' \in Nat /\ cursor <= cursor' /\ x <= cursor'
  BY <1>3, <1>4
<1>6. \A s \in Issued : cursor < s /\ s <= cursor' => s = x
  <2> SUFFICES ASSUME NEW s \in Issued, cursor < s, s <= cursor' PROVE s = x
    OBVIOUS
  <2>1. cursor' = x /\ s \in Nat
    BY <1>3, <1>4
  <2>2. s < wire[1] => \E j \in 1..(1 - 1) : wire[j] = s
    BY <1>2 DEF IInv, WireInv
  <2> QED
    BY <2>1, <2>2, <1>2, <1>4
<1>7. WireInv'
  <2>1. \A i \in 1..Len(wire') : wire'[i] \in Lines
    BY <1>2 DEF IInv, WireInv
  <2>2. \A i \in 1..Len(wire') : \A s \in Issued :
          cursor' < s /\ s < wire'[i] => \E j \in 1..(i - 1) : wire'[j] = s
    <3> TAKE i \in 1..Len(wire')
    <3> TAKE s \in Issued
    <3> HAVE cursor' < s /\ s < wire'[i]
    <3>1. i + 1 \in 1..Len(wire) /\ s < wire[i + 1] /\ cursor < s /\ s # x
      BY <1>2, <1>4, <1>5
    <3>2. PICK j \in 1..((i + 1) - 1) : wire[j] = s
      BY <3>1 DEF IInv, WireInv
    <3>3. j # 1
      BY <3>1, <3>2, <1>2
    <3>4. j - 1 \in 1..(i - 1) /\ wire'[j - 1] = s
      BY <3>2, <3>3, <1>2
    <3> QED
      BY <3>4
  <2>3. conn.at # "none" =>
           \A s \in Issued : cursor' < s /\ s <= conn.cursor => s \in ToSet(wire')
    BY <1>2, <1>4, <1>5 DEF IInv, WireInv
  <2>4. conn.at # "none"
    BY <1>3 DEF IInv, WireInv
  <2> QED
    BY <1>1, <1>2, <1>3, <2>1, <2>2, <2>3, <2>4 DEF WireInv
<1>8. PageInv'
  <2>1. /\ queue' \in Seq(Seqs)
        /\ \A i \in 1..Len(queue') : queue'[i] \in Lines
        /\ ToSet(queue') = IF x > cursor THEN ToSet(queue) \cup {x} ELSE ToSet(queue)
    <3>1. CASE x > cursor
      <4>1. /\ queue' \in Seq(Seqs) /\ Len(queue') = Len(queue) + 1 /\ Len(queue) \in Nat
            /\ \A i \in 1..Len(queue) : queue'[i] = queue[i]
            /\ queue'[Len(queue) + 1] = x
            /\ ToSet(queue') = ToSet(queue) \cup {x}
        <5>1. queue \in Seq(Seqs) /\ queue' = Append(queue, x)
          BY <3>1, <1>3, <1>4 DEF IInv, PageInv
        <5> QED
          BY <5>1, <1>2, AppendIs, LenProperties
      <4>2. \A i \in 1..Len(queue') : queue'[i] \in Lines
        <5> TAKE i \in 1..Len(queue')
        <5>1. i = Len(queue) + 1 \/ i \in 1..Len(queue)
          BY <4>1
        <5> QED
          BY <5>1, <4>1, <1>4 DEF IInv, PageInv
      <4> QED
        BY <4>1, <4>2, <3>1
    <3>2. CASE ~ (x > cursor)
      BY <3>2, <1>3 DEF IInv, PageInv
    <3> QED
      BY <3>1, <3>2
  <2>2. \A s \in Issued : s <= cursor' => s \in shown \cup ToSet(queue') \cup skipped
    <3> TAKE s \in Issued
    <3> HAVE s <= cursor'
    <3>1. CASE s <= cursor
      BY <3>1, <2>1 DEF IInv, PageInv
    <3>2. CASE ~ (s <= cursor)
      BY <3>2, <2>1, <1>3, <1>4, <1>6
    <3> QED
      BY <3>1, <3>2
  <2>3. cursor' \in Seqs /\ cursor' <= head
    BY <1>2, <1>3, <1>4 DEF IInv, PageInv
  <2> QED
    BY <1>1, <1>3, <2>1, <2>2, <2>3 DEF IInv, PageInv
<1>9. ConnInv' /\ CallInv'
  BY <1>1, <1>3 DEF IInv, ConnInv, CallInv
<1>10. ReadAll'
  BY <1>1, <1>3 DEF IInv, ReadAll, WorkerAt
<1> QED
  BY <1>1, <1>7, <1>8, <1>9, <1>10 DEF IInv

\* No streamer, nothing on the wire.
LEMMA Cut ==
    ASSUME LogInv', conn' = NoConn, wire' = <<>>
    PROVE  ConnInv' /\ WireInv' /\ ReadAll'
<1>1. InRange'
  BY Ranges, PTL
<1>2. /\ conn' \in [at : {"none", "read", "emit", "wait"}, cursor : 0..MaxSeq,
                    todo : Seq(Seqs), wake : BOOLEAN]
      /\ conn'.at = "none" /\ conn'.cursor = 0 /\ conn'.todo = <<>> /\ 0 <= head'
  BY <1>1 DEF NoConn, InRange
<1> QED
  BY <1>2 DEF ConnInv, WireInv, ReadAll

\* A streamer that starts from a seq.
LEMMA Starts ==
    ASSUME LogInv', NEW from \in Seqs, from <= head', conn' = Subscribed(from), wire' = <<>>,
           cursor' = from
    PROVE  ConnInv' /\ WireInv' /\ ReadAll'
<1>1. InRange'
  BY Ranges, PTL
<1>2. /\ conn' \in [at : {"none", "read", "emit", "wait"}, cursor : 0..MaxSeq,
                    todo : Seq(Seqs), wake : BOOLEAN]
      /\ conn'.at = "read" /\ conn'.cursor = from /\ conn'.todo = <<>>
      /\ from \in Nat /\ \A s \in Issued' : s \in Nat
  BY <1>1 DEF Subscribed, InRange, Seqs
<1> QED
  BY <1>2 DEF ConnInv, WireInv, ReadAll

LEMMA PaintStep == ASSUME IInv, Paint PROVE IInv'
<1> USE DEF Paint, calls, bounds
<1>1. LogInv' /\ Lines' = Lines /\ Issued' = Issued /\ head' = head /\ InRange
  BY LogKept DEF IInv
<1>2. /\ queue' \in Seq(Seqs) /\ Len(queue') = Len(queue) - 1 /\ Len(queue) \in Nat \ {0}
      /\ \A i \in 1..(Len(queue) - 1) : queue'[i] = queue[i + 1]
      /\ Head(queue) = queue[1]
      /\ ToSet(queue) = ToSet(queue') \cup {Head(queue)}
  BY TailIs DEF IInv, PageInv
<1>3. Head(queue) \in Lines /\ \A i \in 1..Len(queue') : queue'[i] \in Lines
  BY <1>2 DEF IInv, PageInv
<1>4. busy' \in BOOLEAN /\ stream' \in {"idle", "open", "retry"} /\ (stream' = "open" <=> conn'.at # "none")
  <2>1. CASE Head(queue) \in ends
    <3>1. busy' = FALSE /\ stream' = "idle" /\ conn'.at = "none"
      BY <2>1 DEF NoConn
    <3> QED
      BY <3>1
  <2>2. CASE Head(queue) \notin ends
    BY <2>2 DEF IInv, PageInv
  <2> QED
    BY <2>1, <2>2
<1>5. PageInv'
  BY <1>1, <1>2, <1>3, <1>4 DEF IInv, PageInv
<1>6. CallInv'
  BY <1>1 DEF IInv, CallInv
<1>7. ConnInv' /\ WireInv' /\ ReadAll'
  <2>1. CASE Head(queue) \in ends
    BY <2>1, <1>1, Cut
  <2>2. CASE Head(queue) \notin ends
    BY <2>2, <1>1 DEF IInv, ConnInv, WireInv, ReadAll, WorkerAt
  <2> QED
    BY <2>1, <2>2
<1> QED
  BY <1>1, <1>5, <1>6, <1>7 DEF IInv

LEMMA DisconnectStep == ASSUME IInv, Disconnect PROVE IInv'
<1> USE DEF Disconnect, calls, bounds
<1>1. LogInv' /\ Lines' = Lines /\ Issued' = Issued /\ head' = head /\ InRange
  BY LogKept DEF IInv
<1>2. ConnInv' /\ WireInv' /\ ReadAll'
  BY <1>1, Cut
<1>3. PageInv' /\ CallInv'
  BY <1>1 DEF IInv, PageInv, CallInv, NoConn
<1> QED
  BY <1>1, <1>2, <1>3 DEF IInv

LEMMA ReconnectStep == ASSUME IInv, Reconnect PROVE IInv'
<1> USE DEF Reconnect, calls, bounds
<1>1. LogInv' /\ Lines' = Lines /\ Issued' = Issued /\ head' = head /\ InRange
  BY LogKept DEF IInv
<1>2. wire' = <<>> /\ cursor \in Seqs /\ cursor <= head' /\ cursor' = cursor
  BY <1>1 DEF IInv, WireInv, PageInv
<1>3. ConnInv' /\ WireInv' /\ ReadAll'
  BY <1>1, <1>2, Starts
<1>4. PageInv' /\ CallInv'
  BY <1>1 DEF IInv, PageInv, CallInv, Subscribed
<1> QED
  BY <1>1, <1>3, <1>4 DEF IInv

\* openEvents leaves to history what it does not show.
LEMMA Opens ==
    ASSUME IInv, UNCHANGED <<log, worker>>, NEW from \in Seqs, from <= head,
           NEW visible \in SUBSET Lines, NEW subscribes \in BOOLEAN,
           OpenEvents(from, visible, subscribes), busy' \in BOOLEAN
    PROVE  LogInv' /\ ConnInv' /\ WireInv' /\ PageInv' /\ ReadAll'
<1> USE DEF OpenEvents
<1>1. LogInv' /\ Lines' = Lines /\ Issued' = Issued /\ head' = head /\ InRange
  BY LogKept DEF IInv
<1>2. ConnInv' /\ WireInv' /\ ReadAll'
  <2>1. CASE subscribes
    BY <2>1, <1>1, Starts
  <2>2. CASE ~subscribes
    BY <2>2, <1>1, Cut
  <2> QED
    BY <2>1, <2>2
<1>3. PageInv'
  <2>1. stream' \in {"idle", "open", "retry"} /\ (stream' = "open" <=> conn'.at # "none")
    BY DEF NoConn, Subscribed
  <2>2. \A s \in Issued : s <= from => s \in visible \cup (1..from \ visible)
    BY <1>1 DEF InRange, Seqs
  <2>3. 1..from \subseteq Seqs
    BY SeqAssumption DEF Seqs
  <2>4. queue' \in Seq(Seqs) /\ Len(queue') = 0
    OBVIOUS
  <2> QED
    BY <1>1, <2>1, <2>2, <2>3, <2>4 DEF PageInv
<1> QED
  BY <1>1, <1>2, <1>3

LEMMA TurnAnsweredStep == ASSUME IInv, TurnAnswered PROVE IInv'
<1> USE DEF TurnAnswered, bounds
<1>1. InRange
  BY Ranges DEF IInv
<1> DEFINE from == MaxOf(cursor, post.head)
<1>2. from \in Seqs /\ from <= head /\ shown \in SUBSET Lines /\ busy \in BOOLEAN
  BY <1>1 DEF IInv, LogInv, PageInv, CallInv, MaxOf, Seqs
<1>3. LogInv' /\ ConnInv' /\ WireInv' /\ PageInv' /\ ReadAll'
  BY <1>2, Opens
<1>4. CallInv'
  BY <1>1 DEF CallInv, NoPost, NoGet, log, InRange
<1> QED
  BY <1>3, <1>4 DEF IInv

LEMMA HydrateStep == ASSUME IInv, Hydrate PROVE IInv'
<1> USE DEF Hydrate, bounds
<1>1. LogInv' /\ Lines' = Lines /\ Issued' = Issued /\ head' = head /\ InRange
  BY LogKept DEF IInv
<1>2. /\ get.head \in Seqs /\ get.head <= head /\ get.lines \in SUBSET Lines
      /\ get.busy \in BOOLEAN /\ (get.busy /\ get.active) \in BOOLEAN
  BY DEF IInv, CallInv
<1>3. LogInv' /\ ConnInv' /\ WireInv' /\ PageInv' /\ ReadAll'
  BY <1>2, Opens
<1>4. CallInv'
  BY <1>1 DEF IInv, CallInv, NoGet, InRange
<1> QED
  BY <1>3, <1>4 DEF IInv

LEMMA OpenConversationStep == ASSUME IInv, OpenConversation PROVE IInv'
<1> USE DEF OpenConversation
<1>1. LogInv' /\ Lines' = Lines /\ Issued' = Issued /\ head' = head /\ InRange
  BY LogKept DEF IInv
<1>2. ConnInv' /\ WireInv' /\ ReadAll'
  BY <1>1, Cut
<1>3. PageInv'
  <2>1. stream' = "idle" /\ conn'.at = "none"
    BY DEF NoConn
  <2>2. \A s \in Issued : s <= cursor => s \in shown \cup (1..cursor \ shown)
    BY <1>1 DEF InRange, Seqs
  <2>3. 1..cursor \subseteq Seqs
    <3>1. cursor \in 1..MaxSeq
      BY DEF Seqs, IInv, PageInv
    <3> QED
      BY <3>1, SeqAssumption DEF Seqs
  <2>4. queue' \in Seq(Seqs) /\ Len(queue') = 0
    OBVIOUS
  <2> QED
    BY <1>1, <2>1, <2>2, <2>3, <2>4 DEF IInv, PageInv
<1>4. CallInv'
  <2>1. /\ get'.at = "row" /\ get'.head = 0
        /\ get' \in [at : {"none", "row", "lines", "head", "busy", "answer"}, active : BOOLEAN,
                     busy : BOOLEAN, lines : SUBSET Lines, head : 0..MaxSeq]
    BY <1>1 DEF NoGet, InRange
  <2> QED
    BY <1>1, <2>1 DEF IInv, CallInv, InRange
<1> QED
  BY <1>1, <1>2, <1>3, <1>4 DEF IInv

\* A step of a call disturbs neither the streamer nor what the page shows.
LEMMA CallStep ==
    ASSUME IInv, UNCHANGED <<log, worker, conn, wire, queue, shown, cursor, stream, skipped>>,
           busy' \in BOOLEAN
    PROVE  LogInv' /\ ConnInv' /\ WireInv' /\ PageInv' /\ ReadAll' /\ Lines' = Lines /\ head' = head
<1>1. LogInv' /\ Lines' = Lines /\ Issued' = Issued /\ head' = head /\ InRange
  BY LogKept DEF IInv
<1>2. ConnInv' /\ WireInv' /\ PageInv'
  <2>1. ConnInv'
    BY <1>1 DEF IInv, ConnInv
  <2>2. WireInv'
    BY <1>1 DEF IInv, WireInv
  <2>3. PageInv'
    BY <1>1 DEF IInv, PageInv
  <2> QED
    BY <2>1, <2>2, <2>3
<1>3. ReadAll'
  BY <1>1 DEF IInv, ReadAll, WorkerAt
<1> QED
  BY <1>1, <1>2, <1>3

LEMMA SendStep == ASSUME IInv, Send \/ TurnRefused PROVE IInv'
<1>1. /\ UNCHANGED <<log, worker, conn, wire, queue, shown, cursor, stream, skipped, get>>
      /\ busy' \in BOOLEAN
      /\ post' \in {NoPost, [NoPost EXCEPT !.at = "asked"]}
  BY DEF Send, TurnRefused
<1>2. /\ LogInv' /\ ConnInv' /\ WireInv' /\ PageInv' /\ ReadAll' /\ Lines' = Lines /\ head' = head
  BY <1>1, CallStep
<1>3. CallInv'
  <2>1. post'.head = 0 /\ post' \in [at : {"none", "asked", "started", "accepted"}, head : 0..MaxSeq]
    BY <1>1, SeqAssumption DEF NoPost
  <2>2. 0 <= head
    BY Ranges DEF IInv, InRange
  <2> QED
    BY <1>1, <1>2, <2>1, <2>2 DEF IInv, CallInv
<1> QED
  BY <1>2, <1>3 DEF IInv

LEMMA GetStep ==
    ASSUME IInv, GetRow \/ GetLines \/ GetHead \/ GetBusy \/ GetFails PROVE IInv'
<1>1. UNCHANGED <<log, worker, conn, wire, queue, shown, cursor, busy, stream, skipped, post>>
  BY DEF GetRow, GetLines, GetHead, GetBusy, GetFails, page
<1>2. /\ LogInv' /\ ConnInv' /\ WireInv' /\ PageInv' /\ ReadAll' /\ Lines' = Lines /\ head' = head
  BY <1>1, CallStep DEF IInv, PageInv
<1>3. InRange
  BY Ranges DEF IInv
<1>4. Last(lines) \in Seqs /\ Last(lines) <= head
  <2>1. Len(lines) \in 1..Len(lines) /\ lines[Len(lines)] \in Lines
    BY Elements DEF IInv, LogInv, Lines
  <2> QED
    BY <2>1, <1>3 DEF Last, InRange, IInv, LogInv
<1>5. /\ get' \in [at : {"none", "row", "lines", "head", "busy", "answer"}, active : BOOLEAN,
                   busy : BOOLEAN, lines : SUBSET Lines, head : 0..MaxSeq]
      /\ get'.head <= head
      /\ get'.at \in {"head", "busy", "answer"} => get'.head \in Seqs
  <2>1. get \in [at : {"none", "row", "lines", "head", "busy", "answer"}, active : BOOLEAN,
                 busy : BOOLEAN, lines : SUBSET Lines, head : 0..MaxSeq]
    BY DEF IInv, CallInv
  <2>2. CASE GetRow
    <3>1. PICK active \in RowActive : get' = [get EXCEPT !.at = "lines", !.active = active]
      BY <2>2 DEF GetRow
    <3>2. active \in BOOLEAN
      BY <3>1 DEF RowActive
    <3> QED
      BY <3>1, <3>2, <2>1 DEF IInv, CallInv
  <2>3. CASE GetLines
    <3>1. Last(lines) \in 0..MaxSeq /\ Lines \in SUBSET Lines
      BY <1>4 DEF Seqs
    <3>2. get' = [get EXCEPT !.at = "head", !.lines = Lines, !.head = Last(lines)]
      BY <2>3 DEF GetLines
    <3> HIDE DEF Lines
    <3> QED
      BY <2>1, <3>1, <3>2, <1>4
  <2>4. CASE GetHead
    <3>1. MaxOf(get.head, head) \in Seqs /\ MaxOf(get.head, head) <= head
      BY <2>4, <1>3 DEF GetHead, MaxOf, IInv, CallInv, LogInv, Seqs
    <3>2. get' = [get EXCEPT !.at = "busy", !.head = MaxOf(@, head)] /\ MaxOf(get.head, head) \in 0..MaxSeq
      BY <2>4, <3>1 DEF GetHead, Seqs
    <3> QED
      BY <2>1, <3>1, <3>2
  <2>5. CASE GetBusy
    <3>1. Locked \in BOOLEAN
      BY DEF Locked
    <3> QED
      BY <2>1, <2>5, <3>1 DEF GetBusy, IInv, CallInv
  <2>6. CASE GetFails
    BY <2>6, <1>3 DEF GetFails, NoGet, InRange
  <2> QED
    BY <2>2, <2>3, <2>4, <2>5, <2>6
<1>6. CallInv'
  BY <1>1, <1>2, <1>5 DEF IInv, CallInv
<1> QED
  BY <1>2, <1>6 DEF IInv
-----------------------------------------------------------------------------
(* The theorems *)

LEMMA StepIInv == IInv /\ [Next]_vars => IInv'
<1> SUFFICES ASSUME IInv, [Next]_vars PROVE IInv'
  OBVIOUS
<1>1. CASE Worker
  BY <1>1, OtherTurnStep, NextSeqStep, AppendLineStep, AppendFailsStep, NotifyStep DEF Worker
<1>2. CASE Streamer \/ Tick
  BY <1>2, EmitReadStep, EmitStep, WakeStep DEF Streamer
<1>3. CASE Receive \/ Paint \/ Disconnect \/ Reconnect
  BY <1>3, ReceiveStep, PaintStep, DisconnectStep, ReconnectStep
<1>4. CASE Send \/ TurnAccepted \/ TurnRefused \/ TurnAnswered
  BY <1>4, SendStep, OtherTurnStep, TurnAnsweredStep
<1>5. CASE OpenConversation \/ Get
  BY <1>5, OpenConversationStep, GetStep, HydrateStep DEF Get
<1>6. CASE UNCHANGED vars
  <2>1. UNCHANGED <<log, worker, conn, wire, queue, shown, cursor, busy, stream, skipped, get, post>>
    BY <1>6 DEF vars, log
  <2>2. LogInv' /\ ConnInv' /\ WireInv' /\ PageInv' /\ ReadAll' /\ Lines' = Lines /\ head' = head
    BY <2>1, CallStep DEF IInv, PageInv
  <2>3. CallInv'
    BY <2>1, <2>2 DEF IInv, CallInv
  <2> QED
    BY <2>2, <2>3 DEF IInv
<1> QED
  BY <1>1, <1>2, <1>3, <1>4, <1>5, <1>6 DEF Next

LEMMA SafeTypes == IInv => TypeOK
<1> SUFFICES ASSUME IInv PROVE TypeOK
  OBVIOUS
<1>1. InRange
  BY Ranges DEF IInv
<1>2. IsInjective(lines)
  <2>1. \A i \in 1..Len(lines) : lines[i] \in Nat
    BY <1>1, Elements DEF IInv, LogInv, InRange, Lines
  <2>2. DOMAIN lines = 1..Len(lines) /\ Len(lines) \in Nat
    BY DEF IInv, LogInv
  <2> QED
    BY <2>1, <2>2 DEF IsInjective, IInv, LogInv
<1>3. ToSet(conn.todo) \subseteq Lines /\ ToSet(wire) \subseteq Lines /\ ToSet(queue) \subseteq Lines
  BY Elements DEF IInv, ConnInv, WireInv, PageInv
<1>4. Lines \subseteq Seqs /\ ends \subseteq Lines /\ head \in Seqs
      /\ worker \in [at : {"idle", "locked", "run", "append", "notify", "closing"}, end : BOOLEAN]
  BY <1>1 DEF IInv, LogInv, InRange
<1>5. /\ conn.at \in {"none", "read", "emit", "wait"} /\ conn.wake \in BOOLEAN
      /\ conn.cursor \in 0..MaxSeq
      /\ (conn.at = "emit") = (conn.todo # <<>>)
  BY DEF IInv, ConnInv
<1>6. /\ shown \subseteq Lines /\ cursor \in Seqs /\ skipped \subseteq Seqs
      /\ busy \in BOOLEAN /\ stream \in {"idle", "open", "retry"}
  BY DEF IInv, PageInv
<1>7. /\ get.at \in {"none", "row", "lines", "head", "busy", "answer"}
      /\ get.active \in BOOLEAN /\ get.busy \in BOOLEAN
      /\ get.lines \subseteq Lines /\ get.head \in 0..MaxSeq
      /\ post.at \in {"none", "asked", "started", "accepted"} /\ post.head \in 0..MaxSeq
  BY DEF IInv, CallInv
<1> QED
  BY <1>2, <1>3, <1>4, <1>5, <1>6, <1>7 DEF TypeOK

LEMMA SafeSkips == IInv => OnlyReopenSkips
<1> SUFFICES ASSUME IInv, NEW i \in 1..Len(lines), lines[i] <= cursor
             PROVE  lines[i] \in shown \cup ToSet(queue) \cup skipped
  BY DEF OnlyReopenSkips
<1>1. lines[i] \in Issued
  BY Ranges, Elements DEF IInv, LogInv, InRange, Lines
<1> QED
  BY <1>1 DEF IInv, PageInv

LEMMA SafeWake == IInv => NoLostWake
<1> SUFFICES ASSUME IInv, conn.at = "wait", ~conn.wake, ~WorkerAt("notify"), NEW s \in Lines
             PROVE  s <= conn.cursor
  BY DEF NoLostWake
<1>1. conn.todo = <<>> /\ ToSet(conn.todo) = {}
  BY DEF IInv, ConnInv, ToSet
<1> QED
  BY <1>1 DEF IInv, ReadAll

\* The invariant holds at every reachable state.
THEOREM Inductive == Spec => []IInv
BY InitIInv, StepIInv, PTL DEF Spec

\* Every variable keeps its type: the file holds no seq twice, and the page shows,
\* and holds on the wire and in its queue, only items of the file.
THEOREM TypeCorrect == Spec => []TypeOK
BY Inductive, SafeTypes, PTL

\* Streaming, painting, waking, a lost connection and its resumption skip no item,
\* however many connections are lost.
THEOREM NothingSkipped == Spec => []OnlyReopenSkips
BY Inductive, SafeSkips, PTL

\* A streamer that waits without a wake has sent the whole file.
THEOREM WakesSuffice == Spec => []NoLostWake
BY Inductive, SafeWake, PTL
=============================================================================
