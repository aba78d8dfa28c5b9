--------------------------- MODULE TurnLifecycle ---------------------------
(***************************************************************************)
(* One thread's chat turns: the requests that start, retry and interrupt   *)
(* them (internal/usecase/webchat/methods.go) and the worker goroutine     *)
(* that runs them (internal/infrastructure/worker/worker.go).              *)
(*                                                                         *)
(* A slot is one request and, once it is enqueued, the run it became.      *)
(* Between the checks of a request and its TryAcquire, and between any two *)
(* store calls of a run, other slots may step.  The thread lock is atomic  *)
(* here (ThreadLock opens it up), and so is each update of the session row *)
(* (SessionIndex opens that up).  Of a turn's transcript only what         *)
(* findUserMessage, isRetryableFailed and the properties read is kept:     *)
(* reasoning and context_compacted items are left out.                     *)
(***************************************************************************)
EXTENDS Naturals, FiniteSets

CONSTANTS Slots,       \* concurrent requests
          Admins,
          Turns,       \* turn ids idgen can hand out (bound)
          MaxRounds,   \* MaxToolRounds
          MaxCalls,    \* tool calls the model may ask for in a round (bound)
          MaxResumes,  \* retries after which a turn is not retried again (bound)
          Nil

ASSUME RoundsAssumption == MaxRounds \in Nat \ {0} /\ MaxCalls \in Nat \ {0}
ASSUME NilAssumption    == Nil \notin Slots \cup Admins \cup Turns

VARIABLES log,      \* per turn: what its transcript items amount to
          row,      \* the thread's session row: active turn, initiator, floor
          lock,     \* the slot whose token is in the lock file
          flags,    \* turns with an interrupt flag file
          run       \* per slot: the request or run

vars == <<log, row, lock, flags, run>>

NewTurn == [author |-> Nil, user |-> FALSE, ended |-> FALSE, completed |-> FALSE,
            empty |-> FALSE, failed |-> "no", resumes |-> 0]

Idle == [pc |-> "idle", admin |-> Nil, turn |-> Nil, retry |-> FALSE, raced |-> FALSE,
         round |-> 0, calls |-> 0, same |-> 0, nudged |-> FALSE, toolOnly |-> FALSE,
         cancelled |-> FALSE, lost |-> FALSE]

Init == /\ log = [t \in Turns |-> NewTurn]
        /\ row = [active |-> Nil, initiator |-> Nil, holder |-> Nil, fresh |-> FALSE]
        /\ lock = Nil
        /\ flags = {}
        /\ run = [p \in Slots |-> Idle]

\* Where a run is inside a round, that is, where its interrupt poller lives.
InRound == {"chat", "calls", "exec"}

\* Where the worker goroutine is.
Working == {"begin", "started", "mark", "stub", "round", "finish", "complete",
            "fail", "clear", "release"} \cup InRound

At(p, pc) == run[p].pc = pc
-----------------------------------------------------------------------------
(* Transcript items *)

\* AppendItem, seen through the scan of isRetryableFailed; ended: the turn's last
\* item is a terminal one.  What failed says once the turn completed is not read.
Appended(t, type, code) ==
    [log EXCEPT ![t] =
        [log[t] EXCEPT !.ended = type \in {"turn.completed", "turn.failed"},
                       !.user = @ \/ type = "user_message",
                       !.resumes = IF type = "turn.resumed" THEN @ + 1 ELSE @,
                       !.empty = IF type = "agent_message" THEN code = "empty"
                                 ELSE IF type = "turn.failed" THEN FALSE ELSE @,
                       !.completed = IF type = "turn.completed" THEN TRUE
                                     ELSE IF type = "turn.failed" THEN FALSE ELSE @,
                       !.failed = IF type = "turn.failed" THEN code
                                  ELSE IF type = "turn.completed" THEN "no" ELSE @]]

Retryable(t) == IF log[t].completed THEN log[t].empty
                ELSE log[t].failed \notin {"no", "interrupted"}

\* SpeakFloor.Assert: nobody, the caller itself, or a holder whose time is up.
FloorFree(a) == row.holder \in {Nil, a} \/ ~row.fresh
-----------------------------------------------------------------------------
(* Requests *)

\* Mutant: StartTurn without Floor.Assert.
StartTurn_m(p, a) ==
    /\ At(p, "idle")
    /\ run' = [run EXCEPT ![p].pc = "checked", ![p].admin = a]
    /\ UNCHANGED <<log, row, lock, flags>>

\* StartTurn up to the redacted message: the thread exists, the floor is free.
StartTurn(p, a) ==
    /\ At(p, "idle")
    /\ FloorFree(a)
    /\ run' = [run EXCEPT ![p].pc = "checked", ![p].admin = a]
    /\ UNCHANGED <<log, row, lock, flags>>

\* RetryTurn up to Floor.Assert.
RetryTurn(p, a, t) ==
    /\ At(p, "idle")
    /\ log[t].user /\ Retryable(t)
    /\ log[t].author = a
    /\ log[t].resumes < MaxResumes
    /\ FloorFree(a)
    /\ run' = [run EXCEPT ![p].pc = "checked", ![p].admin = a, ![p].turn = t, ![p].retry = TRUE]
    /\ UNCHANGED <<log, row, lock, flags>>

\* The turn of a retry, or an id never handed out.
TurnFor(p) == IF run[p].retry THEN {run[p].turn} ELSE {t \in Turns : log[t].author = Nil}

\* Bound: no new turn when all ids are used.
TryAcquire(p) ==
    /\ At(p, "checked")
    /\ lock = Nil
    /\ TurnFor(p) # {}
    /\ lock' = p
    /\ run' = [run EXCEPT ![p].pc = "locked"]
    /\ UNCHANGED <<log, row, flags>>

\* 409 thread_busy.
ThreadBusy(p) ==
    /\ At(p, "checked")
    /\ lock # Nil
    /\ run' = [run EXCEPT ![p] = Idle]
    /\ UNCHANGED <<log, row, lock, flags>>

\* Mutant: Acquire keeps an initiator that a dead run left behind.
FloorAcquire_m(p) ==
    /\ At(p, "locked")
    /\ \E t \in TurnFor(p) :
          /\ row' = [active |-> t, initiator |-> IF row.initiator = Nil THEN run[p].admin ELSE row.initiator,
                     holder |-> run[p].admin, fresh |-> TRUE]
          /\ log' = [log EXCEPT ![t].author = run[p].admin]
          /\ run' = [run EXCEPT ![p].pc = "queued", ![p].turn = t]
    /\ UNCHANGED <<lock, flags>>

\* A new turn id, then SpeakFloor.Acquire: it takes the floor from whoever has
\* it.  Requests still between their checks and TryAcquire have been overtaken.
FloorAcquire(p) ==
    /\ At(p, "locked")
    /\ \E t \in TurnFor(p) :
          /\ row' = [active |-> t, initiator |-> run[p].admin, holder |-> run[p].admin, fresh |-> TRUE]
          /\ log' = [log EXCEPT ![t].author = run[p].admin]
          /\ run' = [q \in Slots |->
                        IF q = p THEN [run[p] EXCEPT !.pc = "queued", !.turn = t, !.raced = FALSE]
                        ELSE [run[q] EXCEPT !.raced = @ \/ (run[q].pc = "checked" /\ run[q].admin # run[p].admin)]]
    /\ UNCHANGED <<lock, flags>>

\* Floor.Acquire fails, or, in StartTurn, SeqHead does: Release, nothing enqueued.
StartFails(p) ==
    /\ At(p, "locked") \/ (At(p, "queued") /\ ~run[p].retry)
    /\ lock' = Nil
    /\ run' = [run EXCEPT ![p] = Idle]
    /\ UNCHANGED <<log, row, flags>>

\* Mutant: the handler releases the lock when it returns.
Enqueue_m(p) ==
    /\ At(p, "queued")
    /\ run' = [run EXCEPT ![p].pc = "begin"]
    /\ lock' = Nil
    /\ UNCHANGED <<log, row, flags>>

Enqueue(p) ==
    /\ At(p, "queued")
    /\ run' = [run EXCEPT ![p].pc = "begin"]
    /\ UNCHANGED <<log, row, lock, flags>>

\* InterruptTurn: refused only when another admin's turn is the active one.
\* Bound: no flag for a turn that will not run any more and so never reads it.
InterruptTurn(a, t) ==
    /\ Retryable(t) \/ \E p \in Slots : run[p].turn = t
    /\ row.initiator \in {Nil, a}
    /\ flags' = flags \cup {t}
    /\ UNCHANGED <<log, row, lock, run>>
-----------------------------------------------------------------------------
(* The run *)

\* The run moves on; what belonged to its round ends with the round
\* (cancelRound), and what belonged to the loop ends with the loop.  retry is read
\* once, by Begin.
Moved(p, next) ==
    CASE next \in {"fail", "clear"} ->
           [Idle EXCEPT !.pc = next, !.admin = run[p].admin, !.turn = run[p].turn]
      [] next \in {"started", "mark"} -> [run[p] EXCEPT !.pc = next, !.retry = FALSE]
      [] next = "round" -> [run[p] EXCEPT !.pc = next, !.calls = 0, !.cancelled = FALSE]
      [] next = "finish" -> [run[p] EXCEPT !.pc = next, !.calls = 0, !.cancelled = FALSE,
                                           !.same = 0, !.nudged = FALSE]
      [] OTHER -> [run[p] EXCEPT !.pc = next]

Goto(p, next) == run' = [run EXCEPT ![p] = Moved(p, next)]

\* One item is appended and the run moves on.
Item(p, type, code, next) == log' = Appended(run[p].turn, type, code) /\ Goto(p, next)

\* A final answer is appended: lastToolOnly is reset and the loop is left.
Answer(p, code) ==
    /\ log' = Appended(run[p].turn, "agent_message", code)
    /\ run' = [run EXCEPT ![p] = [Moved(p, "finish") EXCEPT !.toolOnly = FALSE]]

Begin(p) ==
    /\ At(p, "begin")
    /\ IF run[p].retry THEN Item(p, "turn.resumed", "", "mark")
                       ELSE Item(p, "user_message", "", "started")
    /\ UNCHANGED <<row, lock, flags>>

\* findTurnUserText cannot read the thread: run records it and returns no error.
ResumeNotFound(p) ==
    /\ At(p, "begin") /\ run[p].retry
    /\ Item(p, "turn.failed", "error", "clear")
    /\ UNCHANGED <<row, lock, flags>>

TurnStarted(p) ==
    /\ At(p, "started")
    /\ Item(p, "turn.started", "", "mark")
    /\ UNCHANGED <<row, lock, flags>>

\* markActiveTurn; then the stub or the agent loop, as the configuration says.
MarkActive(p) ==
    /\ At(p, "mark")
    /\ row' = [row EXCEPT !.active = run[p].turn, !.initiator = run[p].admin,
                          !.holder = IF @ = Nil THEN run[p].admin ELSE @]
    /\ \E next \in {"stub", "round"} : Goto(p, next)
    /\ UNCHANGED <<log, lock, flags>>

StubReply(p) ==
    /\ At(p, "stub")
    /\ Item(p, "agent_message", "text", "complete")
    /\ UNCHANGED <<row, lock, flags>>

\* Mutant: the interrupted run leaves without turn.failed.
RoundInterrupted_m(p) ==
    /\ At(p, "round") /\ run[p].round < MaxRounds
    /\ run[p].turn \in flags
    /\ flags' = flags \ {run[p].turn}
    /\ Goto(p, "clear")
    /\ UNCHANGED <<log, row, lock>>

\* The flag is up at the top of a round: cleared, turn.failed, no error.
RoundInterrupted(p) ==
    /\ At(p, "round") /\ run[p].round < MaxRounds
    /\ run[p].turn \in flags
    /\ flags' = flags \ {run[p].turn}
    /\ Item(p, "turn.failed", "interrupted", "clear")
    /\ UNCHANGED <<row, lock>>

\* Mutant: no bound on the rounds.
RoundStarts_m(p) ==
    /\ At(p, "round")
    /\ run[p].turn \notin flags
    /\ run' = [run EXCEPT ![p].pc = "chat", ![p].round = @ + 1]
    /\ UNCHANGED <<log, row, lock, flags>>

\* Mutant: the round is not counted.
RoundStarts_n(p) ==
    /\ At(p, "round") /\ run[p].round < MaxRounds
    /\ run[p].turn \notin flags
    /\ run' = [run EXCEPT ![p].pc = "chat"]
    /\ UNCHANGED <<log, row, lock, flags>>

RoundStarts(p) ==
    /\ At(p, "round") /\ run[p].round < MaxRounds
    /\ run[p].turn \notin flags
    /\ run' = [run EXCEPT ![p].pc = "chat", ![p].round = @ + 1]
    /\ UNCHANGED <<log, row, lock, flags>>

RoundsOver(p) ==
    /\ At(p, "round") /\ run[p].round = MaxRounds
    /\ Goto(p, "finish")
    /\ UNCHANGED <<log, row, lock, flags>>

\* The poller of the round, every 100 ms: IsRequested, Clear, cancelRound.
Poll(p) ==
    /\ run[p].pc \in InRound /\ ~run[p].cancelled
    /\ run[p].turn \in flags
    /\ flags' = flags \ {run[p].turn}
    /\ run' = [run EXCEPT ![p].cancelled = TRUE]
    /\ UNCHANGED <<log, row, lock>>

\* Chat or Execute fails because the poller cancelled the round and the job's own
\* context is alive: turn.failed, then the loop is left like after an answer.
Stopped(p) ==
    /\ run[p].pc \in {"chat", "exec"}
    /\ run[p].cancelled
    /\ Item(p, "turn.failed", "interrupted", "finish")
    /\ UNCHANGED <<row, lock, flags>>

\* Chat fails otherwise (the job's timeout too), or foreign code under Chat or
\* Execute panics.
Fails(p) ==
    /\ run[p].pc \in {"chat", "exec"}
    /\ Goto(p, "fail")
    /\ UNCHANGED <<log, row, lock, flags>>

ChatText(p) ==
    /\ At(p, "chat")
    /\ Answer(p, "text")
    /\ UNCHANGED <<row, lock, flags>>

\* No text and no call: one nudge per run, and only with a round left.
ChatNudge(p) ==
    /\ At(p, "chat")
    /\ ~run[p].nudged /\ run[p].round < MaxRounds
    /\ run' = [run EXCEPT ![p] = [Moved(p, "round") EXCEPT !.nudged = TRUE]]
    /\ UNCHANGED <<log, row, lock, flags>>

ChatEmpty(p) ==
    /\ At(p, "chat")
    /\ run[p].nudged \/ run[p].round = MaxRounds
    /\ Answer(p, "empty")
    /\ UNCHANGED <<row, lock, flags>>

\* n calls, with the fingerprint of the previous tool round or another one.
ChatTools(p, n) ==
    /\ At(p, "chat")
    /\ \E same \in {0, IF run[p].toolOnly THEN run[p].same + 1 ELSE 0} :
          run' = [run EXCEPT ![p].pc = "calls", ![p].calls = n, ![p].toolOnly = TRUE, ![p].same = same]
    /\ UNCHANGED <<log, row, lock, flags>>

ToolCall(p) ==
    /\ At(p, "calls") /\ run[p].calls > 0
    /\ Item(p, "tool_call", "", "exec")
    /\ UNCHANGED <<row, lock, flags>>

\* A result, or an error turned into an envelope: also when the round was
\* cancelled, if Execute reports no error or the job's context is over.
ToolResult(p) ==
    /\ At(p, "exec")
    /\ log' = Appended(run[p].turn, "tool_result", "")
    /\ run' = [run EXCEPT ![p].pc = "calls", ![p].calls = @ - 1]
    /\ UNCHANGED <<row, lock, flags>>

CallsDone(p) ==
    /\ At(p, "calls") /\ run[p].calls = 0 /\ run[p].same < 2
    /\ Goto(p, "round")
    /\ UNCHANGED <<log, row, lock, flags>>

\* The same calls for the third time: a runtime message ends the loop.
RepeatedCalls(p) ==
    /\ At(p, "calls") /\ run[p].calls = 0 /\ run[p].same >= 2
    /\ Answer(p, "runtime")
    /\ UNCHANGED <<row, lock, flags>>

OutOfRounds(p) == run[p].round >= MaxRounds /\ run[p].toolOnly

MaxRoundsMessage(p) ==
    /\ At(p, "finish") /\ OutOfRounds(p)
    /\ Item(p, "agent_message", "runtime", "complete")
    /\ UNCHANGED <<row, lock, flags>>

Complete(p) ==
    /\ At(p, "complete") \/ (At(p, "finish") /\ ~OutOfRounds(p))
    /\ Item(p, "turn.completed", "", "clear")
    /\ UNCHANGED <<row, lock, flags>>

\* A store call (or the prompt loading) fails and run returns the error.
StoreFails(p) ==
    /\ run[p].pc \in Working \ {"fail", "clear", "release"}
    /\ Goto(p, "fail")
    /\ UNCHANGED <<log, row, lock, flags>>

\* process: run returned an error or panicked; the append may fail as well.
Fail(p) ==
    /\ At(p, "fail")
    /\ \/ Item(p, "turn.failed", "error", "clear")
       \/ run' = [run EXCEPT ![p] = [Moved(p, "clear") EXCEPT !.lost = TRUE]] /\ UNCHANGED log
    /\ UNCHANGED <<row, lock, flags>>

\* The deferred ClearActiveTurn, whichever turn is active; its error is ignored.
ClearActive(p) ==
    /\ At(p, "clear")
    /\ run' = [run EXCEPT ![p].pc = "release"]
    /\ row' = [row EXCEPT !.active = Nil, !.initiator = Nil] \/ UNCHANGED row
    /\ UNCHANGED <<log, lock, flags>>

ReleaseLock(p) ==
    /\ At(p, "release")
    /\ lock' = IF lock = p THEN Nil ELSE lock
    /\ run' = [run EXCEPT ![p] = Idle]
    /\ UNCHANGED <<log, row, flags>>
-----------------------------------------------------------------------------
(* Time and failures *)

FloorLapses ==
    /\ row.fresh
    /\ row' = [row EXCEPT !.fresh = FALSE]
    /\ UNCHANGED <<log, lock, flags, run>>

\* The record of a dead process expires.  A running turn's does not: by default
\* lock_ttl_sec (300) exceeds turn_job_timeout_sec (120).
LockExpires ==
    /\ lock # Nil /\ run[lock].pc \in {"idle", "checked"}
    /\ lock' = Nil
    /\ UNCHANGED <<log, row, flags, run>>

\* The process dies and restarts: files stay.
Crash ==
    /\ run' = [p \in Slots |-> Idle]
    /\ UNCHANGED <<log, row, lock, flags>>

Request(p) == \/ \E a \in Admins : StartTurn(p, a) \/ \E t \in Turns : RetryTurn(p, a, t)
              \/ TryAcquire(p) \/ ThreadBusy(p) \/ FloorAcquire(p) \/ StartFails(p) \/ Enqueue(p)

Round(p) == \/ RoundInterrupted(p) \/ RoundStarts(p) \/ RoundsOver(p)
            \/ Stopped(p) \/ Fails(p) \/ ChatText(p) \/ ChatNudge(p) \/ ChatEmpty(p)
            \/ \E n \in 1..MaxCalls : ChatTools(p, n)
            \/ ToolCall(p) \/ ToolResult(p) \/ CallsDone(p) \/ RepeatedCalls(p)

Work(p) == \/ Begin(p) \/ ResumeNotFound(p) \/ TurnStarted(p) \/ MarkActive(p) \/ StubReply(p)
           \/ Round(p) \/ MaxRoundsMessage(p) \/ Complete(p)
           \/ StoreFails(p) \/ Fail(p) \/ ClearActive(p) \/ ReleaseLock(p)

Next == \/ \E p \in Slots : Request(p) \/ Work(p) \/ Poll(p)
        \/ \E a \in Admins, t \in Turns : InterruptTurn(a, t)
        \/ FloorLapses \/ LockExpires \/ Crash

\* A started handler and a worker goroutine run on (Chat and Execute return, at
\* the latest, when the job's context is over), and the clock does.
Fairness == /\ \A p \in Slots : WF_vars(Work(p)) /\ WF_vars(FloorAcquire(p) \/ StartFails(p) \/ Enqueue(p))
            /\ WF_vars(LockExpires)

Spec == Init /\ [][Next]_vars /\ Fairness
-----------------------------------------------------------------------------
(* Properties *)

TypeOK ==
    /\ log \in [Turns -> [author : Admins \cup {Nil}, user : BOOLEAN, ended : BOOLEAN,
                         completed : BOOLEAN, empty : BOOLEAN,
                         failed : {"no", "interrupted", "error"}, resumes : Nat]]
    /\ row \in [active : Turns \cup {Nil}, initiator : Admins \cup {Nil},
                holder : Admins \cup {Nil}, fresh : BOOLEAN]
    /\ lock \in Slots \cup {Nil}
    /\ flags \subseteq Turns
    /\ run \in [Slots -> [pc : {"idle", "checked", "locked", "queued"} \cup Working,
                         admin : Admins \cup {Nil}, turn : Turns \cup {Nil}, retry : BOOLEAN,
                         raced : BOOLEAN, round : 0..MaxRounds, calls : 0..MaxCalls,
                         same : Nat, nudged : BOOLEAN, toolOnly : BOOLEAN,
                         cancelled : BOOLEAN, lost : BOOLEAN]]

\* A slot that has the thread: from TryAcquire to Release.
HasThread(p) == run[p].pc \notin {"idle", "checked"}

\* "single active turn worker per thread" (docs/architecture/README.md:148): the
\* token of whoever has the thread is the one in the lock file, so that no
\* failure path of a request and no end of a run lets a second worker in.
OneRunPerThread == \A p \in Slots : HasThread(p) => lock = p

\* From FloorAcquire until it is cleared, a run finds its own turn, initiator and
\* floor in the session row: it is the one InterruptTurn and the others'
\* Floor.Assert read, and no earlier run's ClearActiveTurn may hit it.
RowFollowsRun ==
    \A p \in Slots : run[p].pc \in (Working \cup {"queued"}) \ {"release"} =>
        row.active = run[p].turn /\ row.initiator = run[p].admin /\ row.holder = run[p].admin

\* A run never ends in silence: before it lets go of the thread its turn's last
\* item is turn.completed or turn.failed, which the UI waits for, unless the
\* store refused that very item.
NoSilentEnd ==
    \A p \in Slots : run[p].pc \in {"clear", "release"} /\ ~run[p].lost =>
        log[run[p].turn].ended

\* The speak floor changes hands before its time only to a request that another
\* turn overtook between its Floor.Assert and its TryAcquire (methods.go:147-170).
FloorTakenOnlyWhenOvertaken ==
    [][\A p \in Slots : FloorAcquire(p) /\ row.fresh /\ row.holder # run[p].admin => run[p].raced]_vars

\* Whatever happens to the run, a panic and a crash included, its thread is free
\* again some time (worker.go:108-111, LockExpires).
LockReleased == \A p \in Slots : lock = p ~> lock # p

\* The turn's last item is turn.failed.
HasFailed(t) == log[t].ended /\ ~log[t].completed

\* "turn.failed (interrupted) and stop" (docs/architecture/turn-loop.md:86): a turn
\* that has failed does not go on unless it is retried.
StoppedTurnStaysStopped ==
    [][\A t \in Turns : HasFailed(t) => HasFailed(t)' \/ log'[t].resumes > log[t].resumes]_vars
=============================================================================
