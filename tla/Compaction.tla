---------------------------- MODULE Compaction -----------------------------
(***************************************************************************)
(* The context of a turn (internal/infrastructure/worker): what of the     *)
(* thread's transcript the model is shown (buildMessages, worker.go) once  *)
(* older turns have been replaced by a summary (maybeCompact, compact.go). *)
(*                                                                         *)
(* An item is its turn, its type and, for a context_compacted item, the    *)
(* seq it compacts through and, as history, the seqs its excerpt was made  *)
(* of; its seq is its place.  Tool items, reasoning and thread.started,    *)
(* which has no turn, are left out, and so is the size of texts: whether   *)
(* the estimate exceeds the budget is a choice.                            *)
(***************************************************************************)
EXTENDS Naturals, Sequences, FiniteSets, FiniteSetsExt

CONSTANTS Turns,
          Recent,     \* ContextRecentTurns, at least 1
          MaxItems    \* items of the thread (bound)

ASSUME RecentAssumption == Recent \in Nat \ {0}

VARIABLES items,   \* the transcript
          turn,    \* the running turn, or the last one
          pc,      \* "idle", "context" (about to load the transcript), "chat"
          prompt   \* seqs of the items the model is shown

vars == <<items, turn, pc, prompt>>

Item(t, type) == [turn |-> t, type |-> type, through |-> 0, excerpt |-> {}]

Init == items = <<>> /\ turn \in Turns /\ pc = "idle" /\ prompt = {}

Seqs(its) == 1..Len(its)

TurnsOf(its) == {its[i].turn : i \in Seqs(its)}

\* uniqueTurnIDs: turns in the order of their first item.
First(its, t) == Min({i \in Seqs(its) : its[i].turn = t})

\* All turns but the last Recent of that order.
OldTurns(its) ==
    {t \in TurnsOf(its) : Cardinality({u \in TurnsOf(its) : First(its, u) > First(its, t)}) >= Recent}

OldItems(its) == {i \in Seqs(its) : its[i].turn \in OldTurns(its)}

\* Mutant: the checkpoint's own seq.
ThroughSeq_m(its) == Len(its) + 1

\* Mutant: everything up to the checkpoint.
ThroughSeq_n(its) == Len(its)

\* compacted_through_seq: the highest seq of an old turn.
ThroughSeq(its) == Max(OldItems(its))

\* Items that become messages.
Messages(its) == {i \in Seqs(its) : its[i].type \in {"user_message", "agent_message"}}

Compacts(its) == {i \in Seqs(its) : its[i].type = "context_compacted"}

\* Mutant: what lies after the last checkpoint.
Shown_m(its) == IF Compacts(its) = {} THEN Messages(its)
                ELSE {i \in Messages(its) : i > Max(Compacts(its))}

\* buildMessages: everything, or what lies after the last checkpoint's seq.
Shown(its) ==
    IF Compacts(its) = {} THEN Messages(its)
    ELSE {i \in Messages(its) : i > its[Max(Compacts(its))].through}
-----------------------------------------------------------------------------
\* Bound: room for the turn's items.
Room == Len(items) + 3 <= MaxItems

StartTurn(t) ==
    /\ pc = "idle" /\ Room
    /\ t \notin TurnsOf(items)
    /\ items' = Append(items, Item(t, "user_message"))
    /\ turn' = t /\ pc' = "context"
    /\ UNCHANGED prompt

\* RetryTurn: any turn that ended in turn.failed, however old.
RetryTurn(t) ==
    /\ pc = "idle" /\ Room
    /\ t \in TurnsOf(items)
    /\ \E i \in Seqs(items) : /\ items[i] = Item(t, "turn.failed")
                              /\ \A j \in Seqs(items) : j > i => items[j].turn # t
    /\ items' = Append(items, Item(t, "turn.resumed"))
    /\ turn' = t /\ pc' = "context"
    /\ UNCHANGED prompt

\* Under the budget, too few turns, no usable excerpt, or the append failed.
Uncompacted ==
    /\ pc = "context"
    /\ prompt' = Shown(items)
    /\ pc' = "chat"
    /\ UNCHANGED <<items, turn>>

\* Over the budget: the excerpt of the old turns' items is summarised.
Compacted ==
    /\ pc = "context"
    /\ OldItems(items) # {}
    /\ items' = Append(items, [Item(turn, "context_compacted") EXCEPT
                                 !.through = ThroughSeq(items), !.excerpt = OldItems(items)])
    /\ prompt' = Shown(items')
    /\ pc' = "chat"
    /\ UNCHANGED turn

\* The turn ends with an answer or with turn.failed.
EndTurn(type) ==
    /\ pc = "chat"
    /\ items' = Append(items, Item(turn, type))
    /\ pc' = "idle"
    /\ UNCHANGED <<turn, prompt>>

Next == \/ \E t \in Turns : StartTurn(t) \/ RetryTurn(t)
        \/ Uncompacted \/ Compacted
        \/ \E type \in {"agent_message", "turn.failed"} : EndTurn(type)

Spec == Init /\ [][Next]_vars
-----------------------------------------------------------------------------
(* Properties *)

TypeOK ==
    /\ \A i \in Seqs(items) :
          /\ items[i].turn \in Turns
          /\ items[i].type \in {"user_message", "agent_message", "turn.failed", "turn.resumed", "context_compacted"}
          /\ items[i].through \in 0..(i - 1) /\ items[i].excerpt \subseteq 1..(i - 1)
    /\ turn \in Turns /\ pc \in {"idle", "context", "chat"} /\ prompt \subseteq Seqs(items)

\* A turn was retried after a newer one had begun.
RetriedLate ==
    \E j \in Seqs(items) : /\ items[j].type = "turn.resumed"
                           /\ \E i \in 1..(j - 1) : First(items, items[i].turn) > First(items, items[j].turn)

Summarised == IF Compacts(items) = {} THEN {} ELSE items[Max(Compacts(items))].excerpt

\* What the model is not shown went into its summary: as long as no old turn is
\* retried, an item leaves the prompt only into the excerpt of the latest summary,
\* whatever checkpoints came before it (compact.go:49-69, worker.go:711-748).  That
\* the excerpt is cut to ContextSummaryMaxChars is not modelled.
NothingUnsummarised ==
    pc = "chat" /\ ~RetriedLate => Messages(items) \subseteq prompt \cup Summarised

\* "keep the last BP_CONTEXT_RECENT_TURNS raw (never drop the latest user turn)"
\* (docs/architecture/turn-loop.md:84): the model is shown the items of the running
\* turn and of the last Recent turns.
RecentTurnsRaw ==
    pc = "chat" => \A i \in Messages(items) :
                       items[i].turn = turn \/ items[i].turn \notin OldTurns(items) => i \in prompt

\* The same, as long as no turn is retried after a newer one.
RecentTurnsRawInOrder == ~RetriedLate => RecentTurnsRaw
=============================================================================
