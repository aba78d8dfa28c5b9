-------------------------------- MODULE LlmCall --------------------------------
(***************************************************************************)
(* One call of the language model: Router.Chat (router.go, backoff.go) over *)
(* Client.ChatWithProvider and postJSONStream (client.go), event streams    *)
(* read with hooks (stream.go), and the recovery of written tool calls in   *)
(* the worker (worker.go).  Several calls share the round-robin cursor, and *)
(* settings may be reloaded under them: the router works on the snapshot it *)
(* took, the client looks at the configuration of the moment.               *)
(***************************************************************************)
EXTENDS LlmReply

CONSTANTS
    Calls,              \* calls of Router.Chat
    Order,              \* provider ids, sorted
    None,               \* no provider
    Configs,            \* configurations that settings may produce
    Crowds,             \* sets of calls that are made in one behaviour
    Pins(_),            \* the provider pinned by an earlier round, per call
    Replies(_),         \* answers of a provider that are no stream, per call
    Events(_),          \* events of a stream, per call
    MaxEvents,          \* bound: events of one stream
    MaxReloads,         \* bound: reloads
    BaseDelay, MaxDelay \* of the retry policy

Providers == Range(Order)
Strategies == {"failover", "round_robin", "switch"}

ASSUME CallAssumption ==
    /\ Order \in Seq(Providers) /\ IsInjective(Order) /\ None \notin Providers
    /\ BaseDelay \in Nat \ {0} /\ MaxDelay \in Nat /\ BaseDelay <= MaxDelay
    /\ MaxEvents \in Nat /\ MaxReloads \in Nat
    /\ \A f \in Configs :
         /\ f.strategy \in Strategies /\ f.active \in Providers \cup {None}
         /\ f.budget \in Nat \ {0} /\ f.stream \in BOOLEAN
         /\ DOMAIN f.prov \subseteq Providers
         /\ \A p \in DOMAIN f.prov : f.prov[p].max \in Nat \ {0}
    /\ Crowds \subseteq SUBSET Calls
    /\ \A c \in Calls : \A r \in Replies(c) :
         /\ r.kind \in {"connect", "status", "body", "json"} /\ r.streamish \in BOOLEAN
         /\ r.kind = "status" => r.transient \in BOOLEAN /\ r.after \in Nat
         /\ r.kind = "json" => IsSeq(r.payload.calls) /\ IsText(r.payload.text)
    /\ \A c \in Calls : \A e \in Events(c) : IsEvent(e)

VARIABLES
    cfg,        \* the configuration of router and client
    reloads,    \* how often it was replaced
    cursor,     \* the round-robin cursor file, Torn while it is rewritten
    made,       \* the calls that are made
    call        \* call[c]: the state of a call

vars == <<cfg, reloads, cursor, made, call>>

Torn == -1
Dialects == {"chat", "responses", "messages"}
NoError == [transient |-> FALSE, after |-> 0, why |-> "none"]
Error(why, transient, after) == [why |-> why, transient |-> transient, after |-> after]

-----------------------------------------------------------------------------
(* The order in which providers are tried. *)

(* A plausible slip: providers that are switched off are candidates too. *)
Enabled_m(f) == DOMAIN f.prov

Enabled(f) == {p \in DOMAIN f.prov : f.prov[p].enabled}

Sorts(p, q) == \E i, j \in DOMAIN Order : i < j /\ Order[i] = p /\ Order[j] = q

InOrder(S) ==
    CHOOSE s \in [1..Cardinality(S) -> S] :
        Range(s) = S /\ \A i, j \in DOMAIN s : i < j => Sorts(s[i], s[j])

EnabledInOrder(f) == InOrder(Enabled(f))

HeadedBy(p, f) == <<p>> \o InOrder(Enabled(f) \ {p})

(* A plausible slip: off by one, the provider at the cursor is lost. *)
RotatedBy_m(s, start) == SubSeq(s, start + 2, Len(s)) \o SubSeq(s, 1, start)

RotatedBy(s, start) == SubSeq(s, start + 1, Len(s)) \o SubSeq(s, 1, start)

(* Does this call use the cursor?  A pinned provider that is enabled goes   *)
(* before the rotation.                                                     *)
Rotates(f, pinned) ==
    f.strategy = "round_robin" /\ pinned \notin Enabled(f) /\ Enabled(f) # {}

StartOf(f, at) == (IF at = Torn THEN 0 ELSE at) % Len(EnabledInOrder(f))

CandidatesFor(f, pinned, at) ==
    LET on == EnabledInOrder(f)
    IN  CASE f.strategy = "switch" -> IF f.active # None THEN <<f.active>> ELSE on
          [] f.strategy # "switch" /\ pinned \in Enabled(f) -> HeadedBy(pinned, f)
          [] Rotates(f, pinned) -> RotatedBy(on, StartOf(f, at))
          [] f.strategy = "failover" /\ pinned \notin Enabled(f) /\ f.active \in Enabled(f)
               -> HeadedBy(f.active, f)
          [] OTHER -> on

(* Backoff: what the provider asked for, else exponential, within a ceiling. *)
(* Jitter is left out: it moves the delay, and the ceiling holds after it.   *)
Delay(n, after) ==
    LET asked == IF after > 0 THEN after ELSE BaseDelay * 2^(IF n > 21 THEN 20 ELSE n - 1)
    IN  IF asked > MaxDelay THEN MaxDelay ELSE asked

-----------------------------------------------------------------------------
NewCall(c, pin, f) ==
    [pc |-> "start", pinned |-> pin, snap |-> f, cands |-> <<>>, tries |-> 0, attempts |-> 0,
     retries |-> 0, last |-> NoError, api |-> "chat", stream |-> FALSE, fallback |-> FALSE,
     asm |-> NewAssembler, fed |-> 0, streamed |-> <<>>, result |-> [calls |-> <<>>, text |-> <<>>],
     cancelled |-> FALSE, delay |-> 0, start |-> 0,
     \* history: requests after the cancellation, all requests, time slept, a
     \* reload since the snapshot, the payload of the answer, the text this
     \* attempt streamed, and whether one that was given up streamed calls
     late |-> 0, requests |-> 0, slept |-> 0, overtaken |-> FALSE,
     answer |-> [calls |-> <<>>, text |-> <<>>], own |-> <<>>, dirty |-> FALSE]

Init == /\ cfg \in Configs
        /\ reloads = 0 /\ cursor = 0 /\ made \in Crowds
        /\ call \in [Calls -> UNION {{NewCall(c, p, cfg) : p \in Pins(c)} : c \in Calls}]
        /\ \A c \in Calls : call[c].pinned \in Pins(c)

(* The record of c becomes r and nothing else changes. *)
Becomes(c, r) == call' = [call EXCEPT ![c] = r] /\ UNCHANGED <<cfg, reloads, cursor, made>>

(* Calls meet in the cursor and the configuration only, so streams and      *)
(* cancellations are followed in a call that is made alone.                 *)
Alone(c) == made = {c}

Over(c) == call[c].pc \in {"done", "failed"}

(* Router.Chat takes its snapshot; the rotation reads the cursor file. *)
Snapshot(c) ==
    LET k == call[c] IN
    /\ c \in made /\ k.pc = "start"
    /\ Becomes(c, [k EXCEPT !.snap = cfg, !.overtaken = FALSE,
                            !.cands = CandidatesFor(cfg, k.pinned, cursor),
                            !.start = IF Rotates(cfg, k.pinned) THEN StartOf(cfg, cursor) ELSE 0,
                            !.pc = IF Rotates(cfg, k.pinned) THEN "truncate" ELSE "next"])

(* os.WriteFile empties the file before it writes the next start. *)
CursorTruncate(c) ==
    /\ call[c].pc = "truncate"
    /\ cursor' = Torn
    /\ call' = [call EXCEPT ![c].pc = "write"]
    /\ UNCHANGED <<cfg, reloads, made>>

CursorWrite(c) ==
    /\ call[c].pc = "write"
    /\ cursor' = (call[c].start + 1) % Len(call[c].cands)
    /\ call' = [call EXCEPT ![c].pc = "next"]
    /\ UNCHANGED <<cfg, reloads, made>>

(* The loops over providers and attempts. *)
Slot(k) == k.snap.prov[Head(k.cands)]

(* A plausible slip: the last attempt of the budget is not made. *)
HasNext_m(k) == k.cands # <<>> /\ k.attempts + 1 < k.snap.budget

HasNext(k) == k.cands # <<>> /\ k.attempts < k.snap.budget

(* A plausible slip: the loop goes on without leaving the provider. *)
SkipDisabled_m(c) ==
    LET k == call[c] IN
    /\ k.pc = "next" /\ HasNext(k)
    /\ Head(k.cands) \notin Enabled(k.snap)
    /\ Becomes(c, [k EXCEPT !.tries = 0])

SkipDisabled(c) ==
    LET k == call[c] IN
    /\ k.pc = "next" /\ HasNext(k)
    /\ Head(k.cands) \notin Enabled(k.snap)
    /\ Becomes(c, [k EXCEPT !.cands = Tail(@), !.tries = 0])

(* The lookup of ChatWithProvider: in the configuration of now. *)
Attempt(c) ==
    LET k == call[c]  p == Head(k.cands) IN
    /\ k.pc = "next" /\ HasNext(k)
    /\ p \in Enabled(k.snap) /\ k.tries < Slot(k).max
    /\ Becomes(c,
         IF p \notin DOMAIN cfg.prov \/ ~cfg.prov[p].key
         THEN [k EXCEPT !.attempts = @ + 1, !.tries = @ + 1, !.pc = "failed",
                        !.last = Error("unusable", FALSE, 0)]
         ELSE [k EXCEPT !.attempts = @ + 1, !.tries = @ + 1, !.pc = "open",
                        !.api = cfg.prov[p].api])

NextProvider(c) ==
    LET k == call[c] IN
    /\ k.pc = "next" /\ HasNext(k)
    /\ Head(k.cands) \in Enabled(k.snap) /\ k.tries >= Slot(k).max
    /\ Becomes(c, [k EXCEPT !.cands = Tail(@), !.tries = 0])

Exhausted(c) ==
    LET k == call[c] IN
    /\ k.pc = "next" /\ ~HasNext(k)
    /\ Becomes(c, [k EXCEPT !.pc = "failed",
                            !.last = IF @.why = "none" THEN Error("exhausted", TRUE, 0) ELSE @])

Requesting(k) == [k EXCEPT !.pc = "sent", !.requests = @ + 1,
                           !.late = IF k.cancelled THEN @ + 1 ELSE @]

(* The request; the Messages dialect neither streams nor falls back. *)
Send(c) ==
    LET k == call[c] IN
    /\ k.pc = "open"
    /\ Becomes(c, Requesting([k EXCEPT !.stream = cfg.stream /\ k.api # "messages",
                                       !.fallback = k.api # "messages"]))

(* An attempt failed.  A lasting error ends the call; otherwise it waits if *)
(* there is another attempt, here or at a later provider.                   *)
Failing(k, err) ==
    LET moreHere == k.tries < Slot(k).max /\ k.attempts < k.snap.budget
        moreProviders == Len(k.cands) > 1 /\ k.attempts < k.snap.budget
        seen == [k EXCEPT !.last = err, !.asm = NewAssembler, !.fed = 0, !.own = <<>>,
                          !.dirty = @ \/ ExtractXMLToolCalls(k.own) # <<>>]
    IN  IF ~err.transient THEN [seen EXCEPT !.pc = "failed"]
        ELSE IF ~moreHere /\ ~moreProviders THEN [seen EXCEPT !.pc = "next", !.cands = <<>>]
        ELSE [seen EXCEPT !.pc = "backoff", !.retries = @ + 1,
                          !.delay = Delay(k.retries + 1, err.after)]

Answering(k, payload) ==
    [k EXCEPT !.pc = "recover", !.result = Parsed(payload), !.answer = payload,
              !.asm = NewAssembler, !.fed = 0]

FallsBack(k, r) == k.stream /\ k.fallback /\ r.streamish

(* A plausible slip: the fallback may fall back again. *)
Again_m(k) == Requesting(k)

(* The same request without streaming, once. *)
Again(k) == Requesting([k EXCEPT !.stream = FALSE, !.fallback = FALSE])

(* An answer that is no stream: no connection, an HTTP error, an unusable   *)
(* body, a refusal to stream in a 200, or a payload.  A request that was    *)
(* started after the cancellation only fails.                               *)
Receive(c, r) ==
    LET k == call[c] IN
    /\ k.pc = "sent"
    /\ k.late > 0 => r.kind = "connect"
    /\ Becomes(c,
         CASE r.kind = "connect" -> Failing(k, Error("connect", TRUE, 0))
           [] r.kind = "status"  -> IF FallsBack(k, r) THEN Again(k)
                                    ELSE Failing(k, Error("status", r.transient, r.after))
           [] r.kind = "body"    -> IF FallsBack(k, r) THEN Again(k)
                                    ELSE Failing(k, Error("body", FALSE, 0))
           [] r.kind = "json"    -> IF FallsBack(k, r) THEN Again(k)
                                    ELSE Answering(k, r.payload))

StreamStarts(c) ==
    LET k == call[c] IN
    /\ Alone(c)
    /\ k.pc = "sent" /\ k.late = 0 /\ k.stream /\ Events(c) # {}
    /\ Becomes(c, [k EXCEPT !.pc = "reading"])

(* An event is assembled, and its text goes to the hooks at once. *)
StreamEvent(c, e) ==
    LET k == call[c] IN
    /\ k.pc = "reading" /\ k.fed < MaxEvents
    /\ e.type = "chunk" => k.api = "chat"
    /\ e.type \in {"delta", "text.done", "item.done", "completed", "incomplete", "failed"}
         => k.api = "responses"
    /\ Becomes(c, [k EXCEPT !.asm = Feed(@, e), !.fed = @ + 1,
                            !.own = @ \o Emitted(e), !.streamed = @ \o Emitted(e)])

StreamEnds(c) ==
    LET k == call[c]  v == Verdict(k.asm) IN
    /\ k.pc = "reading" /\ k.fed > 0
    /\ Becomes(c, CASE v = "payload"   -> Answering(k, Payload(k.asm))
                    [] v = "transport" -> Failing(k, Error("stream", TRUE, 0))
                    [] v = "bad"       -> Failing(k, Error("body", FALSE, 0)))

(* The connection is lost while the stream is read, or the read is cancelled. *)
StreamLost(c) ==
    LET k == call[c] IN
    /\ k.pc = "reading"
    /\ Becomes(c, Failing(k, Error("stream", TRUE, 0)))

(* A plausible slip: the wait does not look at the context. *)
Backoff_m(c) ==
    LET k == call[c] IN
    /\ k.pc = "backoff"
    /\ Becomes(c, [k EXCEPT !.pc = "asleep"])

(* policy.wait: never asleep once the context is done. *)
Backoff(c) ==
    LET k == call[c] IN
    /\ k.pc = "backoff"
    /\ Becomes(c, [k EXCEPT !.pc = IF k.cancelled THEN "failed" ELSE "asleep"])

(* When the timer fires as the context ends, either branch may be taken. *)
WakeUp(c) ==
    LET k == call[c] IN
    /\ k.pc = "asleep"
    /\ Becomes(c, [k EXCEPT !.pc = "next", !.slept = @ + k.delay, !.delay = 0])

WaitCancelled(c) ==
    /\ call[c].pc = "asleep" /\ call[c].cancelled
    /\ Becomes(c, [call[c] EXCEPT !.pc = "failed"])

(* The worker: calls that were written in the streamed text. *)
Recover(c) ==
    LET k == call[c] IN
    /\ k.pc = "recover"
    /\ Becomes(c, [k EXCEPT !.pc = "done",
                            !.result = RecoverXMLToolCalls(k.result, k.streamed)])

(* Stop, or the end of the turn's time. *)
Cancel(c) ==
    /\ Alone(c) /\ ~Over(c) /\ ~call[c].cancelled
    /\ Becomes(c, [call[c] EXCEPT !.cancelled = TRUE])

(* Runtime.Reload: router and client under the router's lock. *)
Reload(f) ==
    /\ reloads < MaxReloads /\ f # cfg
    /\ cfg' = f /\ reloads' = reloads + 1
    /\ call' = [c \in Calls |-> [call[c] EXCEPT !.overtaken = @ \/ call[c].pc # "start"]]
    /\ UNCHANGED <<cursor, made>>

Step(c) ==
    \/ Snapshot(c) \/ CursorTruncate(c) \/ CursorWrite(c)
    \/ SkipDisabled(c) \/ Attempt(c) \/ NextProvider(c) \/ Exhausted(c) \/ Send(c)
    \/ \E r \in Replies(c) : Receive(c, r)
    \/ StreamStarts(c) \/ (\E e \in Events(c) : StreamEvent(c, e))
    \/ StreamLost(c) \/ StreamEnds(c)
    \/ Backoff(c) \/ WakeUp(c) \/ WaitCancelled(c) \/ Recover(c)

Next == \/ \E c \in Calls : Step(c) \/ Cancel(c)
        \/ \E f \in Configs : Reload(f)

(* A call is code that runs, and the client has a timeout: while some call  *)
(* can take a step, one of them does.                                       *)
Spec == Init /\ [][Next]_vars /\ WF_vars(\E c \in Calls : Step(c))
-----------------------------------------------------------------------------
(* Whatever concurrent calls and reloads do to the cursor file, a rotation  *)
(* offers every enabled provider of its snapshot exactly once.              *)
RotationKeepsAll ==
    \A c \in Calls :
        call[c].pc \in {"truncate", "write"} =>
            /\ Range(call[c].cands) = {p \in DOMAIN call[c].snap.prov : call[c].snap.prov[p].enabled}
            /\ IsInjective(call[c].cands)

(* A call gives up on transient errors only when it is cancelled or has     *)
(* made every attempt that its snapshot allows: of each provider it may     *)
(* use, or of the whole budget (Router.Chat).                               *)
Usable(f) == {p \in Enabled(f) : f.strategy = "switch" /\ f.active # None => p = f.active}

Tries(f, S) == UNION {{p} \X (1..f.prov[p].max) : p \in S}

Allowed(f) == Min({f.budget, Cardinality(Tries(f, Usable(f)))})

GivesUpOnlyWhenSpent ==
    \A c \in Calls :
        call[c].pc = "failed" /\ call[c].last.transient /\ ~call[c].cancelled
            => call[c].attempts = Allowed(call[c].snap)

(* Failures are never more work than the configuration allows: two requests *)
(* per attempt (one fallback), attempts within the budget, and waits within *)
(* the ceiling, whatever Retry-After says.                                  *)
WorkBounded ==
    \A c \in Calls : /\ call[c].requests <= 2 * call[c].attempts
                     /\ call[c].attempts <= call[c].snap.budget
                     /\ call[c].delay <= MaxDelay
                     /\ call[c].slept <= MaxDelay * call[c].retries

(* A provider that the snapshot lists as usable is refused by the client    *)
(* only when settings were reloaded in between (router.go snapshot against  *)
(* ChatWithProvider's own lookup): this ends the call, without failover.    *)
UnusableOnlyAfterReload ==
    \A c \in Calls :
        LET f == call[c].snap IN
        call[c].pc = "failed" /\ call[c].last.why = "unusable" =>
            call[c].overtaken \/ \E p \in DOMAIN f.prov : f.prov[p].enabled /\ ~f.prov[p].key

(* Every tool call is executed once, however it was delivered: natively, in *)
(* the text, in the stream, or in several of these; and a native call keeps *)
(* the arguments it came with.  Calls that an attempt streamed before it    *)
(* was lost are recovered next to those of the attempt that replaced it     *)
(* (worker.go:374): then a call is executed as often as it was streamed in  *)
(* all, and never more often.                                               *)
Most(S) == CHOOSE x \in S : \A y \in S : y <= x

EachCallOnce ==
    \A c \in Calls :
        LET k == call[c]
            names == {k.result.calls[i].name : i \in DOMAIN k.result.calls}
            delivered(n, stream) ==
                Most({Count(k.answer.calls, n), Count(ExtractXMLToolCalls(k.answer.text), n),
                      Count(ExtractXMLToolCalls(stream), n)})
        IN  k.pc = "done" =>
              /\ \A n \in names : /\ Count(k.result.calls, n) = delivered(n, k.streamed)
                                  /\ ~k.dirty => Count(k.result.calls, n) = delivered(n, k.own)
              /\ \A i \in DOMAIN k.answer.calls :
                   /\ k.result.calls[i].name = k.answer.calls[i].name
                   /\ k.answer.calls[i].args # <<>>
                        => k.result.calls[i].args = k.answer.calls[i].args

(* Once the call is cancelled at most one more request is started: the      *)
(* fallback of an answer under way, or one whose wait had just ended.       *)
OneRequestAfterCancel == \A c \in Calls : call[c].late <= 1

(* Every call ends, with an answer or an error. *)
CallEnds == <>(\A c \in made : Over(c))
=============================================================================
