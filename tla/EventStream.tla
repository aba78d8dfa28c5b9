---------------------------- MODULE EventStream ----------------------------
(***************************************************************************)
(* How the items of one thread reach one browser: the worker's AppendItem  *)
(* (repository/jsonl/store.go) and Notify (sse/notifying_store.go,         *)
(* sse/hub.go), the streamer of a connection (sse/streamer.go), and the    *)
(* page's durable cursor, paint queue, hydration and reconnects            *)
(* (web/js/ui/chat.js).                                                    *)
(*                                                                         *)
(* One worker at a time appends to the thread (TurnLifecycle), so the file *)
(* is in seq order; a failed append leaves a hole.  Other people's turns   *)
(* run while the page is not subscribed.  Ephemeral deltas are left out:   *)
(* they carry no seq and the page drops them for the durable item.         *)
(***************************************************************************)
EXTENDS Naturals, Sequences, SequencesExt

CONSTANTS MaxSeq,    \* items a thread gets (bound)
          MaxDrops,  \* lost connections, below the page's retry budget (bound)
          MaxOpens   \* openings of the conversation (bound)

ASSUME SeqAssumption == MaxSeq \in Nat \ {0}

VARIABLES lines,    \* seqs of the lines of the thread's jsonl file, in file order
          ends,     \* which of them are turn.completed or turn.failed
          head,     \* the thread's seq file
          worker,   \* where the turn's worker is, and whether its item ends the turn
          conn,     \* the streamer behind the page's connection
          wire,     \* frames on their way to the page
          queue,    \* liveEventQueue: accepted, not painted yet
          shown,    \* items on the page
          cursor,   \* lastAppliedSeq
          busy,     \* the page waits for a turn: composer locked, "Thinking..."
          stream,   \* "idle", "open" or "retry" (a reconnect is scheduled)
          get,      \* the page's GET of the thread
          post,     \* the page's POST of a turn
          skipped,  \* seqs a re-opened stream began after, never shown (history)
          drops, opens

vars == <<lines, ends, head, worker, conn, wire, queue, shown, cursor, busy, stream,
          get, post, skipped, drops, opens>>

log    == <<lines, ends, head>>
page   == <<queue, shown, cursor, busy, stream, skipped>>
calls  == <<get, post>>
bounds == <<drops, opens>>

NoConn == [at |-> "none", cursor |-> 0, todo |-> <<>>, wake |-> FALSE]
NoGet  == [at |-> "none", active |-> FALSE, busy |-> FALSE, lines |-> {}, head |-> 0]
NoPost == [at |-> "none", head |-> 0]

\* The page shows an idle thread that has its thread.started only.
Init == /\ lines = <<1>> /\ ends = {} /\ head = 1
        /\ worker = [at |-> "idle", end |-> FALSE]
        /\ conn = NoConn /\ wire = <<>>
        /\ queue = <<>> /\ shown = {1} /\ cursor = 1 /\ busy = FALSE /\ stream = "idle"
        /\ get = NoGet /\ post = NoPost
        /\ skipped = {}
        /\ drops = 0 /\ opens = 0

Lines == ToSet(lines)

MaxOf(m, n) == IF m > n THEN m ELSE n

WorkerAt(place) == worker.at = place

\* The lock is taken from TryAcquire to Release.  The session row names the active
\* turn from Acquire to ClearActiveTurn, which is one of the steps of "closing".
Locked == ~WorkerAt("idle")

RowActive == CASE worker.at \in {"idle", "locked"} -> {FALSE}
               [] WorkerAt("closing") -> BOOLEAN
               [] OTHER -> {TRUE}
-----------------------------------------------------------------------------
(* The worker *)

\* Another page's turn.  Bound: there is room for the item that ends it.
OtherTurn ==
    /\ WorkerAt("idle") /\ head < MaxSeq
    /\ worker' = [at |-> "locked", end |-> FALSE]
    /\ UNCHANGED <<log, conn, wire, page, calls, bounds>>

\* SpeakFloor.Acquire, StartTurn's SeqHead, Enqueue; the page's own POST is answered.
Acquire ==
    /\ WorkerAt("locked")
    /\ worker' = [worker EXCEPT !.at = "run"]
    /\ post' = IF post.at = "started" THEN [at |-> "accepted", head |-> head] ELSE post
    /\ UNCHANGED <<log, conn, wire, page, get, bounds>>

\* Mutant: the seq file is truncated and not written.
NextSeq_m(end) ==
    /\ WorkerAt("run") /\ head < MaxSeq
    /\ end \/ head + 1 < MaxSeq
    /\ worker' = [at |-> "append", end |-> end]
    /\ UNCHANGED <<log, conn, wire, page, calls, bounds>>

\* nextSeq: the seq file is ahead of the jsonl file.  Bound: the last seq ends
\* the turn.
NextSeq(end) ==
    /\ WorkerAt("run") /\ head < MaxSeq
    /\ end \/ head + 1 < MaxSeq
    /\ head' = head + 1
    /\ worker' = [at |-> "append", end |-> end]
    /\ UNCHANGED <<lines, ends, conn, wire, page, calls, bounds>>

AppendLine ==
    /\ WorkerAt("append")
    /\ lines' = Append(lines, head)
    /\ ends' = IF worker.end THEN ends \cup {head} ELSE ends
    /\ worker' = [worker EXCEPT !.at = "notify"]
    /\ UNCHANGED <<head, conn, wire, page, calls, bounds>>

\* The line is not written, and the turn goes on to its turn.failed.  Not for a
\* turn's last item: TurnLifecycle has the turns that end in silence.
AppendFails ==
    /\ WorkerAt("append") /\ ~worker.end
    /\ worker' = [worker EXCEPT !.at = "run"]
    /\ UNCHANGED <<log, conn, wire, page, calls, bounds>>

\* Mutant: an unbuffered channel.
Notify_m ==
    /\ WorkerAt("notify")
    /\ conn' = [conn EXCEPT !.wake = @ \/ conn.at = "wait"]
    /\ worker' = [worker EXCEPT !.at = IF worker.end THEN "closing" ELSE "run"]
    /\ UNCHANGED <<log, wire, page, calls, bounds>>

\* Hub.Notify: a buffer of one, waiting or not.
Notify ==
    /\ WorkerAt("notify")
    /\ conn' = [conn EXCEPT !.wake = conn.at # "none"]
    /\ worker' = [worker EXCEPT !.at = IF worker.end THEN "closing" ELSE "run"]
    /\ UNCHANGED <<log, wire, page, calls, bounds>>

\* Title, ClearActiveTurn, Release.
Release ==
    /\ WorkerAt("closing")
    /\ worker' = [at |-> "idle", end |-> FALSE]
    /\ UNCHANGED <<log, conn, wire, page, calls, bounds>>
-----------------------------------------------------------------------------
(* The streamer: emitNew, then wait for a wake, the ticker or a delta *)

\* GetThread(seq): the lines after a seq, in file order, which is seq order.
After(seq) ==
    LET upTo == CHOOSE n \in 0..Len(lines) : \A i \in 1..Len(lines) : i <= n <=> lines[i] <= seq
    IN  SubSeq(lines, upTo + 1, Len(lines))

EmitRead ==
    /\ conn.at = "read"
    /\ LET new == After(conn.cursor) IN
       conn' = [conn EXCEPT !.todo = new, !.at = IF new = <<>> THEN "wait" ELSE "emit"]
    /\ UNCHANGED <<log, worker, wire, page, calls, bounds>>

Emit ==
    /\ conn.at = "emit"
    /\ wire' = Append(wire, Head(conn.todo))
    /\ conn' = [conn EXCEPT !.cursor = Head(conn.todo), !.todo = Tail(@),
                            !.at = IF Len(conn.todo) = 1 THEN "wait" ELSE "emit"]
    /\ UNCHANGED <<log, worker, page, calls, bounds>>

Wake ==
    /\ conn.at = "wait" /\ conn.wake
    /\ conn' = [conn EXCEPT !.at = "read", !.wake = FALSE]
    /\ UNCHANGED <<log, worker, wire, page, calls, bounds>>

\* The 1.5 s safety poll.
Tick ==
    /\ conn.at = "wait"
    /\ conn' = [conn EXCEPT !.at = "read"]
    /\ UNCHANGED <<log, worker, wire, page, calls, bounds>>
-----------------------------------------------------------------------------
(* The page *)

\* startSubscription: the streamer subscribes to the hub before it reads.
Subscribed(from) == [at |-> "read", cursor |-> from, todo |-> <<>>, wake |-> FALSE]

\* onEvent: a frame at or below the cursor is dropped, another one moves it.
Receive ==
    /\ wire # <<>>
    /\ wire' = Tail(wire)
    /\ IF Head(wire) > cursor
       THEN cursor' = Head(wire) /\ queue' = Append(queue, Head(wire))
       ELSE UNCHANGED <<cursor, queue>>
    /\ UNCHANGED <<log, worker, conn, shown, busy, stream, skipped, calls, bounds>>

\* flushLiveEventQueue, once a frame; the end of a turn stops the stream.
Paint ==
    /\ queue # <<>>
    /\ queue' = Tail(queue)
    /\ shown' = shown \cup {Head(queue)}
    /\ IF Head(queue) \in ends
       THEN busy' = FALSE /\ stream' = "idle" /\ conn' = NoConn /\ wire' = <<>>
       ELSE UNCHANGED <<busy, stream, conn, wire>>
    /\ UNCHANGED <<log, worker, cursor, skipped, calls, bounds>>

\* Mutant: no reconnect is scheduled.
Disconnect_m ==
    /\ stream = "open" /\ busy /\ drops < MaxDrops
    /\ conn' = NoConn /\ wire' = <<>>
    /\ stream' = "idle"
    /\ drops' = drops + 1
    /\ UNCHANGED <<log, worker, queue, shown, cursor, busy, skipped, calls, opens>>

\* The connection breaks, or the page gives up a stale one.
Disconnect ==
    /\ stream = "open" /\ busy /\ drops < MaxDrops
    /\ conn' = NoConn /\ wire' = <<>>
    /\ stream' = "retry"
    /\ drops' = drops + 1
    /\ UNCHANGED <<log, worker, queue, shown, cursor, busy, skipped, calls, opens>>

\* Mutant: a reconnect clears the paint queue (closeEvents for closeEventSource).
Reconnect_m ==
    /\ stream = "retry" /\ busy
    /\ conn' = Subscribed(cursor)
    /\ stream' = "open"
    /\ queue' = <<>>
    /\ UNCHANGED <<log, worker, wire, shown, cursor, busy, skipped, calls, bounds>>

Reconnect ==
    /\ stream = "retry" /\ busy
    /\ conn' = Subscribed(cursor)
    /\ stream' = "open"
    /\ UNCHANGED <<log, worker, wire, queue, shown, cursor, busy, skipped, calls, bounds>>

\* openEvents: what was accepted but not painted is cleared, the cursor is set to
\* the given seq, and the page subscribes if it is to.
OpenEvents(from, visible, subscribes) ==
    /\ queue' = <<>> /\ wire' = <<>>
    /\ shown' = visible
    /\ cursor' = from
    /\ skipped' = 1..from \ visible
    /\ stream' = IF subscribes THEN "open" ELSE "idle"
    /\ conn' = IF subscribes THEN Subscribed(from) ELSE NoConn

\* send or retry: the composer is locked until the answer.
Send ==
    /\ ~busy /\ post = NoPost
    /\ busy' = TRUE
    /\ post' = [NoPost EXCEPT !.at = "asked"]
    /\ UNCHANGED <<log, worker, conn, wire, queue, shown, cursor, stream, skipped, get, bounds>>

\* StartTurn takes the lock.
TurnAccepted ==
    /\ post.at = "asked" /\ WorkerAt("idle") /\ head < MaxSeq
    /\ post' = [NoPost EXCEPT !.at = "started"]
    /\ worker' = [at |-> "locked", end |-> FALSE]
    /\ UNCHANGED <<log, conn, wire, page, get, bounds>>

\* Refused: the thread is busy, the floor is taken, or any other error.
TurnRefused ==
    /\ post.at = "asked"
    /\ post' = NoPost
    /\ busy' = FALSE
    /\ UNCHANGED <<log, worker, conn, wire, queue, shown, cursor, stream, skipped, get, bounds>>

\* The answer: events are opened from its seq_head, and a GET still under way
\* is void (streamGeneration).
TurnAnswered ==
    /\ post.at = "accepted"
    /\ OpenEvents(MaxOf(cursor, post.head), shown, busy)
    /\ post' = NoPost /\ get' = NoGet
    /\ UNCHANGED <<log, worker, busy, bounds>>

\* openConversation: the old stream ends, and the thread is fetched.
OpenConversation ==
    /\ opens < MaxOpens
    /\ opens' = opens + 1
    /\ get' = [NoGet EXCEPT !.at = "row"]
    /\ queue' = <<>> /\ wire' = <<>> /\ conn' = NoConn /\ stream' = "idle"
    /\ skipped' = 1..cursor \ shown
    /\ UNCHANGED <<log, worker, shown, cursor, busy, post, drops>>

\* Store.GetThread: the row, the lines, the seq file; then IsBusy.
GetRow ==
    /\ get.at = "row"
    /\ \E active \in RowActive : get' = [get EXCEPT !.at = "lines", !.active = active]
    /\ UNCHANGED <<log, worker, conn, wire, page, post, bounds>>

GetLines ==
    /\ get.at = "lines"
    /\ get' = [get EXCEPT !.at = "head", !.lines = Lines, !.head = Last(lines)]
    /\ UNCHANGED <<log, worker, conn, wire, page, post, bounds>>

GetHead ==
    /\ get.at = "head"
    /\ get' = [get EXCEPT !.at = "busy", !.head = MaxOf(@, head)]
    /\ UNCHANGED <<log, worker, conn, wire, page, post, bounds>>

GetBusy ==
    /\ get.at = "busy"
    /\ get' = [get EXCEPT !.at = "answer", !.busy = Locked]
    /\ UNCHANGED <<log, worker, conn, wire, page, post, bounds>>

\* hydrateItems, the cursor from seq_head, and openEvents if the lock is taken and
\* the row named an active turn; the page waits in any case if the lock is taken.
Hydrate ==
    /\ get.at = "answer"
    /\ OpenEvents(get.head, get.lines, get.busy /\ get.active)
    /\ busy' = get.busy
    /\ get' = NoGet
    /\ UNCHANGED <<log, worker, post, bounds>>

\* The GET fails: the page keeps what it shows, and stays without a stream.
GetFails ==
    /\ get.at # "none"
    /\ get' = NoGet
    /\ UNCHANGED <<log, worker, conn, wire, page, post, bounds>>

Worker == OtherTurn \/ Acquire \/ (\E end \in BOOLEAN : NextSeq(end)) \/ AppendLine \/ AppendFails \/ Notify \/ Release

Streamer == EmitRead \/ Emit \/ Wake

Get == GetRow \/ GetLines \/ GetHead \/ GetBusy \/ Hydrate \/ GetFails

Next == \/ Worker \/ Streamer \/ Tick
        \/ Receive \/ Paint \/ Disconnect \/ Reconnect
        \/ Send \/ TurnAccepted \/ TurnRefused \/ TurnAnswered
        \/ OpenConversation \/ Get

\* A running turn goes on to its end and lets go; the streamer runs on wakes
\* alone, without its ticker; the network delivers; the page paints, reconnects
\* and gets its answers.
Fairness == /\ WF_vars(Acquire \/ (\E end \in BOOLEAN : NextSeq(end)) \/ AppendLine \/ Notify \/ Release)
            /\ WF_vars(Streamer) /\ WF_vars(Receive) /\ WF_vars(Paint) /\ WF_vars(Reconnect)
            /\ WF_vars(TurnAccepted \/ TurnRefused) /\ WF_vars(TurnAnswered) /\ WF_vars(Get)

Spec == Init /\ [][Next]_vars /\ Fairness
-----------------------------------------------------------------------------
(* Properties *)

Seqs == 1..MaxSeq

TypeOK ==
    /\ IsInjective(lines) /\ Lines \subseteq Seqs /\ ends \subseteq Lines /\ head \in Seqs
    /\ worker \in [at : {"idle", "locked", "run", "append", "notify", "closing"}, end : BOOLEAN]
    /\ conn.at \in {"none", "read", "emit", "wait"} /\ conn.wake \in BOOLEAN
    /\ conn.cursor \in 0..MaxSeq /\ ToSet(conn.todo) \subseteq Lines
    /\ (conn.at = "emit") = (conn.todo # <<>>)
    /\ ToSet(wire) \cup ToSet(queue) \cup shown \subseteq Lines
    /\ cursor \in Seqs /\ skipped \subseteq Seqs
    /\ busy \in BOOLEAN /\ stream \in {"idle", "open", "retry"}
    /\ get.at \in {"none", "row", "lines", "head", "busy", "answer"}
    /\ get.active \in BOOLEAN /\ get.busy \in BOOLEAN
    /\ get.lines \subseteq Lines /\ get.head \in 0..MaxSeq
    /\ post.at \in {"none", "asked", "started", "accepted"} /\ post.head \in 0..MaxSeq

\* The cursor never passes an item the page does not show, except where a stream
\* is opened anew from a seq_head: streaming, painting, waking, a lost connection
\* and its resumption skip nothing (docs/architecture/realtime-streaming.md:48,50).
OnlyReopenSkips ==
    \A i \in 1..Len(lines) : lines[i] <= cursor => lines[i] \in shown \cup ToSet(queue) \cup skipped

\* A streamer that waits, with no wake pending and no Notify to come, has sent
\* every line of the file: the 1.5 s ticker is not needed (streamer.go:28).
NoLostWake ==
    conn.at = "wait" /\ ~conn.wake /\ ~WorkerAt("notify") => \A s \in Lines : s <= conn.cursor

\* The end of a turn is on its way to the page: still to be written beyond the
\* cursor, in the file beyond the cursor, or waiting to be painted.
EndAhead == \/ worker.at \in {"locked", "run"}
            \/ worker.at \in {"append", "notify"} /\ (~worker.end \/ head > cursor)
            \/ \E e \in ends : e > cursor \/ e \in ToSet(queue)

\* A page that waits with a stream, and whose turn's end is still to come, stops
\* waiting, whatever connections it loses on the way; or it has a call under way
\* whose answer opens the stream anew.
WaitEnds == busy /\ stream # "idle" /\ EndAhead ~> ~busy \/ get # NoGet \/ post # NoPost

\* "Completion, interruption, request failure, or exhausted reconnect removes it
\* cleanly" (docs/architecture/realtime-streaming.md:56, of the "Thinking..."
\* placeholder a waiting page shows).
PlaceholderRemoved == busy ~> ~busy
=============================================================================
