# A TLA+ verification of BuatPostingan

BuatPostingan is a chat service with an agent behind it: a Go server that keeps
every thread in append-only JSONL files, a worker goroutine per turn that calls a
language model and tools in rounds, and a page that follows the thread over
server-sent events. There is no database behind the chat: what protects a thread is
lock files, read-modify-append of rows, and the order of a few deferred calls. Around
that core stand services with state of their own: the router of model calls with its
stream decoder, the settings document and the parts it configures, MCP sessions,
static pages, attachments, the documentation index, logins and the caches of model
capabilities. All of these are modelled here and checked with TLC on small instances,
and every safety property that a passing run checks is also proved for every instance.

Paths below are relative to the repository, with these prefixes left out: `usecase/`,
`domain/` and `config/` are under `internal/`; `repository/`, `worker/`, `sse/`, `auth/`
and `network/` under `internal/infrastructure/`, and `jsonl/` in its `repository/`;
`llm/`, `tools/`, `mcp/` and `docs/` in its `service/`, unless they name the
documentation (`docs/architecture/...`). A bare `worker.go` is `worker/worker.go`.

## 1. Inventory

### Thread lock — `jsonl/lock.go`, `jsonl/flock*.go`, `domain/repository/thread.go`
- State: one file `threads/{id}.lock` with a JSON record (token, expiry), the
  advisory flock on it while it is being changed.
- Operations: `TryAcquire` (open the file, wait for its flock, and under it read the
  record and, if none is live, truncate and write), `Release` (read the path without
  the flock, compare the token, remove the path), `IsBusy` (read without the flock,
  remove an expired record).
- Interactions: `StartTurn`/`RetryTurn` take it, the worker gives it back, `GetThread`
  runs `IsBusy`, `SoftDeleteThread` only looks whether the file is there.
- Hard: the path may change its file between any two system calls; a lease may lapse
  under its holder; on platforms without flock the lock does nothing.
- Correct when: one turn at a time has the thread as long as no lease has lapsed, and
  no unexpired record is ever overwritten.

### Turns — `usecase/webchat/methods.go`, `worker/worker.go`, `jsonl/floor.go`, `jsonl/interrupt.go`
- State: the transcript, the active turn, its initiator and the speak floor in the
  session row, the lock, interrupt flag files, and the locals of each run (round,
  fingerprints of calls, nudge, what was cancelled).
- Operations: `StartTurn`, `RetryTurn`, `InterruptTurn`; the run: user message,
  `turn.started`, mark, rounds of `Chat` and `Execute`, the answer, `turn.completed`;
  `process`'s panic handler and its deferred clear and release.
- Interactions: requests race each other up to `TryAcquire`; the poller of a round
  races the call it may cancel; a crash leaves row, lock and flags behind.
- Correct when: one run per thread; the row is that run's from `Acquire` to the clear;
  no run ends without a terminal item; the floor is respected; the lock is freed.

### Session index — `jsonl/store.go`, `jsonl/meta.go`, `jsonl/floor.go`, `worker/title.go`
- State: `session_index.jsonl`; a thread's state is its last row (title and source,
  status, active turn, floor).
- Operations: `Acquire`, `markActiveTurn`, `ClearActiveTurn`, `applyAutoTitle`,
  `RenameThread`, `SoftDeleteThread`: each reads the last row, changes its copy and
  appends the whole copy. Only the append holds a flock.
- Hard: any two of them may overlap, and the title job outlives its turn and its lock.
- Correct when: each update has the effect it would have if it were atomic, as long
  as none is lost; two turns' updates never overlap; nothing is written to a deleted
  thread.

### Event stream — `jsonl/store.go`, `sse/`, `web/js/ui/chat.js`, `web/js/api/real/driver.js`
- State: the seq file and the lines, the hub's subscribers with a wake of one, the
  streamer's cursor, the page's cursor, paint queue, busy flag and calls under way.
- Operations: `AppendItem` (seq, then line), `Notify`, `Subscribe`/`emitNew`, and the
  page's accept, paint, reconnect, send, open and hydrate.
- Hard: a wake between read and wait; a connection lost with frames under way; a page
  that puts its picture together from reads made at different moments.
- Correct when: no durable item is skipped and a page that waits stops waiting.

### Context compaction — `worker/compact.go`, `worker/worker.go` (`buildMessages`)
- State: the transcript with `context_compacted` items.
- Operations: choose the old turns, summarise their items, append a checkpoint, show
  the model what lies after it.
- Hard: several checkpoints, and retries that write an old turn's items after newer ones.
- Correct when: what is not shown is in the summary, and the recent turns are shown raw.

### Model calls — `llm/router.go`, `llm/backoff.go`, `llm/client.go`, `llm/stream.go`, `llm/messages.go`, `llm/xml_tool_parse.go`
- State: the cursor file of the rotation, the configuration of router and client, and
  per call the snapshot, candidates, attempts, the stream's assembler, what the hooks saw.
- Operations: order the providers; an attempt (lookup, request, fallback without
  streaming, reading of a body or a stream); wait and retry; merge written and native
  tool calls, once in the client and once in the worker.
- Interactions: calls of all threads share the cursor file; `Runtime.Reload` replaces
  the configuration under them; the turn's context cancels them.
- Hard: two nested limits and three ways out of the loops; a cut stream may look like
  an answer; one tool call arrives natively, in the text and in the stream.
- Correct when: every provider that may be used is tried before a call gives up on
  transient errors, work stays within the budget, every tool call is executed
  once, and the call ends.

### Settings — `usecase/settings/`, `repository/appconfig/`, `config/settings_merge.go`, `llm/runtime.go`, `cmd/app/main.go`
- State: `config.json` and its temporary file, the configuration each part runs with. Some
  parts take a new one while they run (router, catalog, the policies, the worker); others
  are built once (the TTLs of lock and floor, the documentation options, MCP, the tools).
- Operations: requests about users, providers, models and knobs; import of models;
  save (open, write, rename), reload of the parts one by one; the start of the process.
- Hard: a failure or death between any two of these; long sequences of legal requests.
- Correct when: the parts that are reloaded run with what is on the disk and the others
  with what the process started from, the disk has what was answered, an owner remains,
  providers are unique, and the active one exists.

### MCP sessions — `mcp/manager.go`, `mcp/policy.go`, `tools/mcp.go`
- State: a pool with one session per server. Operations: list, call, drop, close.
- Hard: sessions are dialed outside the mutex; every error of a call drops the session
  of its server, whoever uses it and whoever's error it is; the names the listing gives
  are changed on the way out and parsed on the way back.
- Correct when: no session is lost, what the listing allows is not refused when called,
  and its session is closed under it only after an error of a call of that server.

### Static pages — `tools/pages.go`, `tools/pages_ui.go`
- State: a directory per page, markers in `.published`. Operations: create, edit,
  publish, unpublish, delete.
- Hard: nothing is locked, every file operation may fail, and a look that fails counts
  as "not published".
- Correct when: a page is published only because somebody published that page.

### Attachments — `repository/attachments/store.go`, `tools/attachments.go`
- State: a data file and a metadata file per upload. Operations: save, list, the tools.
- Correct when: what is listed can be read, by exactly one of the two tools.

### Documentation index — `docs/index.go`, `docs/build.go`, `cmd/app/main.go`
- State: the index, its status file. Operations: build at every start, the gate.
- Correct when: turns run only over the index this process built.

### Logins — `auth/store.go`, `network/ratelimit.go`, `delivery/http/auth.go`
- State: rows of sessions, windows of failures. Operations: login, logout, expiry.
- Hard: insert, count and trim are three statements; the limiter asks and records in two.
- Correct when: at most N sessions remain, the newest ones, and failures are bounded.

### Effort and the picker — `llm/effort_policy.go`, `llm/client.go`, `llm/catalog.go`
- State: the client's effort policy with what it knows of each base URL and model, filled
  outside the mutex and replaced as a whole by a reload; the picker's list.
- Hard: a request takes its provider and its policy at two moments, and what it asks the
  provider comes back after settings have changed; the listing, the choice and the request
  search the settings each in its own way.
- Correct when: a request carries an effort its model accepts by what the settings it was
  decided under know, and the model that was shown and chosen is the one that is asked.

### Not modelled

| component or part | why |
|---|---|
| model importer (`llm/model_importer.go`), provider presets | paging over a list and a static table; `Settings` takes what an import finds as a choice and presets as `KeyOptional` |
| tools: registry, files, grep, exec, web, skills, healer | I/O on files, processes and the web without shared state of their own; `Execute` is a choice among its outcomes |
| page preview, process configuration, prompts, stub reply | reads and texts; the process configuration is the constant `Env` of `Settings`, the stub's branch of a run is `StubReply` |
| vision policy, the picker's own effort policy (`llm/vision_policy.go`, `cmd/app/main.go:162`) | caches like the client's, emptied instead of replaced by a reload; what they decide (pixels, the modes offered) is a reading for one screen or one tool |
| HTTP delivery, presenters, web pages, mock API, domain types, commands, deployment | encoding, rendering, layout and wiring; the page's handling of the stream is in `EventStream` |
| of the turn: payloads of tools, reasoning items, parallel prompts | data of a round that decides nothing about its control |
| of the stream: ephemeral deltas, keep-alive, the page's retry budget | deltas are repeated by the durable item; the budget is a count of failures |
| of compaction: tool items, the token estimate | the estimate is a choice, so that every pattern of checkpoints occurs |
| of the LLM client: request bodies, identifiers, text formats character by character | wire formats; what they decide is modelled by its result |
| of the documentation index: chunking, scoring | text processing over one snapshot |
| of the accounts: bootstrap user, cookies, client addresses | one-time work and parsing |

### Hazards that no property covers
`PROJECT.json` lists the hazards the modules were written for, and why some of those
have a property with an exception or none at all. The code has others: those that a module
has as they are, and no property could say more of, and those that need data or a component
that is not modelled:

- Where flock is a no-op (`jsonl/flock_other.go:8`) the storage mutex its comment relies on
  does not exist: two callers may both find the file free. Runs and theorems assume
  `FlockWorks`.
- `Acquire` sets the row active again, so that a turn that passed its check before a delete
  brings the thread back (`jsonl/floor.go:65`); `SessionRow` has this as what happens.
- A stream that is closed after some text looks like an answer (`llm/stream.go:346`): a chat
  stream with or without its last mark. `Verdict` has it as the code has it.
- The page opens the stream at the head that `StartTurn` answers, and never shows what others
  wrote since it last read (`web/js/ui/chat.js:1442`); `OnlyReopenSkips` excepts these items.
- A probe for effort that failed, also because its turn was stopped, is remembered as a
  guess until the next reload (`llm/effort_policy.go:183`); `EffortFits` measures by it.
- A stop without an active turn raises the flag of a failed turn, and nothing removes
  it: the retry of that turn stops at once (`usecase/webchat/methods.go:381`).
- `Worker.Reload` assigns the configuration while runs read its fields (`worker.go:77`),
  and the payload map of a delta is shared by all subscribers of which each deletes a key
  of it (`sse/streamer.go:73`): data races.
- A line torn by a crash has no newline, and the next row is appended to it
  (`jsonl/meta.go:135`).
- A painted `turn.resumed` sets the page busy although the stream may have ended with an
  earlier item of the turn (`web/js/ui/chat.js:1097`).
- The token estimate counts summarised turns too: once over the budget, every later
  turn compacts (`worker/compact.go:28`).
- `ImportModels` holds the mutex of the settings while it asks the provider
  (`usecase/settings/service.go:553`): every other settings request waits.
- `AllowPixels` judges the active provider, the request may go to the pinned one.

## 2. Plan

Done, in this order: (1) `ThreadLock` and its promise `LeaseLock`; (2)
`TurnLifecycle`; (3) `SessionIndex` and its promise `SessionRow`; (4) `EventStream`;
(5) `Compaction`; (6) `LlmReply` and `LlmCall`; (7) `McpSessions` and `Pages`; (8)
`Settings` and `DocsIndex`; (9) `Attachments`, `Accounts`, `EffortPolicy` and
`ModelPicker`; (10) the proofs of (1), (2), (3), (5), `Pages`, `Settings`, `Attachments`
and `DocsIndex`; (11) those of (4), (6) and of the other services; (12) the budget and
the answers of `LlmCall`, the types of `Settings`, and the services side by side.

Left, the most important first:

13. Tool items in `Compaction`: a stop during `Execute` leaves a `tool_call` without its
    `tool_result` (`worker.go:446`), which the fold of the transcript into chat messages
    carries into every later prompt.
14. The torn line of `jsonl/meta.go`: lines as cut or whole in `SessionIndex`.

The modules share no variables: each opens up one mechanism and takes the others as
atomic. `TurnLifecycle` uses the lock as `LeaseLock` promises it and the row as
`SessionRow` promises it; `SessionIndex` uses the lock in the same way; `EventStream`
uses the worker as `TurnLifecycle` shows it to be (one at a time, with a last item).
`TurnLifecycle`'s choice at a `Chat` is what `LlmCall` shows to end, `LlmCall`'s
configurations are the ones `Settings` produces and `Reload` is its `ReloadPart`;
`ModelPicker` gives `LlmCall` its pinned provider. What the abstractions cost is
therefore in the promises: everything about a thread is said for the time before the
first lapsed lease or the first lost update.

## 3. Modules

### `LeaseLock`, `ThreadLock`, `MCThreadLock`, `ThreadLock_proofs`
`LeaseLock` is the promise of `repository.ThreadLock`: an owner, taken only when there
is none, until a lease lapses. `ThreadLock` has the path, the files (inodes) and
their records, the flock of each, and a program counter per caller and reader.

| action | code |
|---|---|
| `Open` | `withFileLock`: open or create the file the path names |
| `Busy`, `Claim` | the flock is granted, once nobody else has it, and a live record is found; or the file is truncated under it with a new token and expiry chosen |
| `Write` | the record is written, the flock goes with the close |
| `ReleaseMatch`, `ReleaseMismatch`, `ReleaseRemove` | `Release`: read and compare without the flock, remove the path afterwards |
| `IsBusyRead`, `IsBusyRemove` | `IsBusy`: read, and remove what had expired |
| `Tick`, `Crash` | the clock; the death of the process |

A record carries the seconds it has left in place of an absolute expiry, so that the
clock needs no bound. `stale` is a history variable: some record that is still
reachable has expired. The constant `FlockWorks` chooses between `flock_unix.go` and
the no-op of `flock_other.go`; runs and theorems are about `TRUE`.

### `TurnLifecycle`, `MCTurnLifecycle`, `TurnLifecycle_proofs`
A slot is a request and then the run it became. `StartTurn`, `RetryTurn`,
`TryAcquire`, `ThreadBusy`, `FloorAcquire`, `StartFails` and `Enqueue` are the request
in `methods.go`; `Begin` to `Complete` follow `Worker.run` and `runAgent`; `Fail`,
`ClearActive` and `ReleaseLock` are `process`. `Poll` is the goroutine of a round.
`log` keeps of a turn's items what `findUserMessage` and `isRetryableFailed` read.
`Chat` and `Execute` are choices among their outcomes: text, nothing, tool calls, an
error, a cancelled round, a panic. `StoreFails` may happen at every store call.
Two entries of a slot are history: `raced` (another admin's turn got the floor since
this request's checks) and `lost` (the store refused the last item).

### `SessionRow`, `SessionIndex`, `MCSessionIndex`, `SessionIndex_proofs`
`SessionRow` has the row as its readers see it, one atomic action per update, and when
each may happen: no title over a manual one, no delete under a running turn, the
active turn cleared by its own run only. `SessionIndex` splits every update in its
read (`...Read`, which takes a copy in `snap`) and its append (`...Append`). `behind`
holds the writers whose copy is no longer the last row, and `lost` becomes true when
one of them appends; both are history. The refinement maps the row to itself and
`running` to the lock's turn from `Acquire`'s append to its release.

`AcquireRead/Append` is `SpeakFloor.Acquire`, `MarkRead/Append` `markActiveTurn`,
`ClearRead/Append` the deferred `ClearActiveTurn`, `ApplyRead/Append` `applyAutoTitle` —
in the turn itself with the stub, in a goroutine of its own with a model —
`RenameRead/Append` and `DeleteRead/Stat/Remove/Append` the side bar's calls. The errors
of removing the files are ignored (`store.go:192`), so a delete may leave a transcript
(`"left"`); what it must not have is one that was written after it looked for the lock
(`NothingAfterDelete`). Every read and append may fail. `Crash` keeps the files and
forgets the rest.

### `EventStream`, `MCEventStream`, `EventStream_proofs`
The worker (`NextSeq`, `AppendLine`, `AppendFails`, `Notify`, `Release`), the streamer
(`EmitRead`, `Emit`, `Wake`, and `Tick` for its 1.5 s ticker), the page (`Receive`,
`Paint`, `Disconnect`, `Reconnect`, `Send`, `TurnAnswered`, `OpenConversation`,
`Hydrate`) and the three reads of `GetThread` with `IsBusy` after them. `skipped` is
history: the seqs a stream that was opened anew, and not resumed, began after.

### `Compaction`, `MCCompaction`, `Compaction_proofs`
A transcript of items whose place is their seq. `StartTurn`, `RetryTurn`, `EndTurn`
append what turns append; `Compacted` and `Uncompacted` are `maybeCompact` with
`buildMessages` after it. Whether the estimate exceeds the budget is a choice, so
every pattern of checkpoints occurs. `excerpt` in an item is history.

### `LlmReply`, `LlmCall`, `MCLlmCall`, `LlmCall_proofs`
`LlmReply` has the pure part as operators: `Feed` and `Verdict` are the assembler of
`stream.go`, `ParseArgs`, `ParseKimiArgs` and `ExtractXMLToolCalls` the text formats,
`Merged` and `RecoverXMLToolCalls` the two merges. Text is a sequence of pieces, words
or blocks of calls (`IsText`; `IsItem` and `IsEvent` type what a stream carries, and
`CallAssumption` asks no more of payloads and streams than that). Lists of lists are
flattened, and the calls that only the text has are kept, by recursive functions, so that
the proofs can follow them. `LlmCall` is one call per element of `Calls`:

| action | code |
|---|---|
| `Snapshot`, `CursorTruncate`, `CursorWrite` | `Router.Chat`: snapshot and candidates; the cursor file is truncated and then written |
| `SkipDisabled`, `Attempt`, `NextProvider`, `Exhausted` | the two loops over providers and attempts; `ChatWithProvider`'s own lookup |
| `Send`, `Receive`, `StreamStarts`, `StreamEvent`, `StreamEnds`, `StreamLost` | a request, its fallback without streaming, its answer or its stream |
| `Backoff`, `WakeUp`, `WaitCancelled` | `policy.wait` |
| `Recover` | the worker's merge with everything that was streamed |
| `Cancel`, `Reload` | the turn's context ends; settings are saved |

History in a call: `late` (requests after the cancellation), `overtaken` (a reload since
the snapshot), `dirty` (a lost attempt had streamed calls), `own`, `answer`, `slept`,
`requests`. Calls meet only in the cursor and in the configuration, so streams
and cancellations are followed in a call that is made alone (`Crowds`).

### `Settings`, `Settings_proofs`
Every request of the use case is an action that takes the mutex with the document it is
going to save (`CreateUser` to `PatchConfig`; `ImportModels` waits for `Fetched`). The
save is `SaveOpens`, `SaveWrites`, `SaveRenames` (each may fail), then `ReloadPart` for
each part in the order of `Runtime.Reload`, then `Answer`. `ApplySettingsFile` is the
merge. The process keeps a configuration per part: the ones in `Parts` are reloaded, the
ones in `BuiltOnce` are set by `Boot` alone. Of the product knobs two stand for all: one
of the worker, which is reloaded and accepts a zero in the patch that the merge then
ignores (`reserve_tokens`), and one of the lock, which is built once and accepts no zero
(`lock_ttl_sec`). History: `born` (the document the process started from), `acked` (the
last document answered) and `strays` (ids patched to be active without a provider of that
name).

### `McpSessions`
`CallTool` and `ListTools` are the tools, `LooksUp`, `Dial`, `Store`, `CloseSpare` the two
looks of `Manager.session` around the dial, `ServerAnswers`, `Drop` and `Close` the rest.
Names are sequences of the parts between double underscores, so that an id containing one
is parsed as the code parses it; `Sanitized` is `sanitizeSegment`, which turns spaces into
underscores, and `LeadsBack` says which listed names are parsed as what they stand for. An
error is one of the server, of the protocol or of a caller that stopped; all of them drop
the session. History: `erred` (servers of a call that ended in an error of its own) and
`to` (the server of a call that the listing promised).

### `Pages`
One page id; `Create...`, `Edit...`, `Publish...`, `Unpublish...`, `Delete...` are the
file operations of the tools one by one, each of which may fail; delete runs the
unpublish as its part, unless it does not see that the page is published. History:
`wanted`, `crossed` and `stray`, which say whether the page was published on request, or
by a marker that a publish set while a delete was under way or that a delete missed.

### `Attachments`
`Save` checks size and kind; `Opens` and `Fills` are `os.WriteFile` of the data and then
of the metadata; `Undo` removes the data; `UploadDies` is a death of the process. `Listed`,
`Get`, `ReadAttachment`, `ReadImage`, `PixelsShown` are the readers. `late` is history:
uploads whose metadata was complete when writing it was reported as failed.

### `DocsIndex`
`Starts`, then once or twice `Removes`, `MarksBuilding`, `Collects`, `Renames`,
`MarksReady` or `MarksFailed` (`NewIndex` builds only when there is no index, `main`
always); `Edited` and `Dies` at any time. `Status`, `Usable` and `Load` are what the gate
and the tools read. `kept` is history: this process could not remove the old index.

### `Accounts`
`Allow` and `Authenticate` are the limiter around the password check,
`PurgeExpiredSessions`, `CreateSession`, `CountSessions`, `TrimUserSessions` the login's
statements, `Expires`, `UserBySession` and `Logout` the end of sessions. History:
`rushed` and `overlapped`, for attempts and changes of sessions at the same time.

### `EffortPolicy`
`WantedLevelFor` and `MapToSupported` translate an effort mode. `Chat` takes the provider
in force (one of the messages API gets no effort), `ApplyEffort` the policy and the mode,
`EffortLookup`, `Probe` and `StoreInfo` are the policy's cache, by base URL and model, and
the question to the provider outside the mutex. `EffortReload` is `Client.Reload`, which
makes a new policy: `policies` has all of them, since a request under way goes on with the
one it took. History: `since` in a request and `at` in what was found, the settings under
which either was taken.

### `ModelPicker`
`ListModels`, `ResolveModel` and `FirstAsked` are the three searches over the same
configuration; `Lists`, `PickerStartTurn`, `FirstRequest` use them one after the other,
with `PickerReload` in between. A slot may be `bare` (no key, and a family that needs one):
the picker still shows its list, and the client refuses the request (`Serves`). `hidden`
are the models chat does not offer. `Upper` is the case of the letters: a choice that is
spelled like a provider is taken for the provider. `Shadowed` names the models an earlier
provider has too, shown or not.

### `MCServices`, `Services_proofs`
The eight services from `Settings` to `ModelPicker` share no state, so one module takes
them all and `focus` names the one that a behaviour exercises while the others rest in
an initial state. All eight are extended, so that the run checks the very definitions the
theorems state; that is why their names carry the service (`McpInit`, `PagesNext`). Each
service's states are explored completely; no combination of two services is explored,
because none can affect the other. `Services_proofs` has the proofs of all of them but
`Settings`, which has `Settings_proofs`, and joins them: `ServicesRunEach` shows that
what the run explores is a behaviour of each service's own specification.

## 4. Runs

| run | question | instance | result |
|---|---|---|---|
| `lock` | exclusion, no overwriting of a live record, refinement of `LeaseLock` | 2 callers, 1 reader, 3 files, 5 tokens, TTL 2 | holds, 11,234 states |
| `turn` | one run, its row, its end, the floor | 2 slots, 2 admins, 2 turns, 2 rounds, 1 call, 1 retry each | holds, 1.5 million states |
| `turn_live` | every lock is freed | 2 slots, 1 turn, 3 rounds, 2 calls | holds, 24 thousand states |
| `turn_stop` | a stopped turn stays stopped | 1 slot | **violated** |
| `index` | refinement of `SessionRow`, no overlap of turns, nothing is written after a delete | 2 turns, 1 title job, 1 rename, 1 delete | holds, 1.06 million states |
| `index_title` | manual titles are kept | 1 turn, 1 rename, 1 title job | **violated** |
| `stream` | nothing skipped, no wake lost, waiting ends | 4 seqs, 1 lost connection, 1 opening | holds, 102 thousand states |
| `stream_hydrate` | waiting always ends | 3 seqs, 1 opening | **violated** |
| `compact` | nothing unsummarised, recent turns raw in order | 4 turns, 2 kept, 13 items | holds, 10.6 thousand states |
| `compact_retry` | recent turns raw | 3 turns, 2 kept, 10 items | **violated** |
| `llm` | rotation, budget, tool calls once, cancellation, the call ends | 1 call with every answer and stream, or 2 that race for the cursor; 4 configurations, 1 reload, 2 events per stream | holds, 267 thousand states |
| `services` | one to three properties per service, below | each service from its own initial states | holds, 1.4 million states |

The run `services` asks of

- `Settings`: whether the file, the parts (reloaded or built once) and the answers agree
  (`RunningIsDurable`) and the document stays sound (`DocumentSound`), over 2 users, 2
  providers, 2 models, 2 requests and 1 crash, from an empty disk and from a document;
- `McpSessions`: that no session is lost (`SessionsOwned`) and what is listed can be
  called (`ListedCallWorks`), with 2 calls, a listing and 3 servers, of which one has a
  tool with a space in its name and one an id that is parsed as another;
- `Pages`: `PublishedOnRequest`, with 5 calls on one page;
- `Attachments`: `ListedIsReadable`, with 3 uploads around the limits;
- `DocsIndex`: `UsableIsCurrent`, with 3 versions of the files and 4 starts;
- `Accounts`: `LoginsSound` (sessions capped, the newest kept, failures bounded), with 3
  logins, 1 session kept, and limits of 1 and 2 failures;
- `EffortPolicy`: `EffortFits`, with 2 requests, 3 modes, 2 models and 4 settings, of the
  three APIs and without a base URL;
- `ModelPicker`: `PickedIsServed`, over all pairs of slots with up to two models, with and
  without a key, a hidden model, a model spelled like a provider, both strategies, and 2
  later settings.

Why the bounds are enough. *Lock:* the path names one file and each caller may have
another one open, so three files and a token for each record and caller let every
overlap occur; a TTL of 2 has a last second, a lapse and a time before it. *Turn:* two
requests are what it takes to overtake, two turns to have a retry race a new one; two
rounds make both the nudge and the last round happen. `turn_live` has three rounds
because the third identical round of calls ends a run. *Index:* an update can only be
undone by one other, and the proofs remove the bound. *Stream:* the first item, a turn
with an item and an end, and one more. *Compact:* with two turns kept, four turns and
13 items give several checkpoints of growing reach. *LLM:* the configurations are failover
with retries, rotation around a provider that is switched off, a switch to a provider
that is off, and one provider that does not stream; two events make text before a loss,
a call in two fragments, and a terminal event after something. *Services:* two requests
are a change and another on top of it, with a crash at each step of either; two calls
race to dial one server and drop each other's session; a create, a publish, a delete and
two more calls can make a page again under an old marker; one session kept and three
logins trim twice. The proofs remove the bounds of all services.

- `index` has the constraint `UntilLost`: no property says anything after an update
  was lost, and states beyond the first loss are not explored further.
  Its view `Seen` takes states as one that differ only in which writers without a copy are
  `behind`: an append asks only for those with a copy, and the read that takes a copy ends
  it, so such states have the same future.
- Symmetry is used where the constants are compared for equality only. No run that
  checks a liveness property uses it.
- Deadlock is not checked in `stream`, `stream_hydrate`, `compact`,
  `compact_retry`, `llm` and `services`: bounds (seqs, items, starts) stop the model when
  they are used up, and calls, uploads and logins end. In the others the absence of a
  deadlock is part of the result.

### Fairness
`TurnLifecycle`: a handler that has the lock and a worker goroutine go on (the Go
scheduler runs them, and `Chat` and `Execute` return at the latest when the job's
context is over), and the clock passes (`LockExpires`). Requests, interrupts, store
failures and crashes are not fair. `EventStream`: a running turn goes on; the streamer
runs whenever a wake is pending — its ticker is *not* assumed, so the result does not
rest on it; the network delivers, the page paints, reconnects within its budget and
gets an answer to its calls. `AppendFails`, lost connections and openings are not fair.
`LlmCall`: while some call can take a step, one of them does
(`WF_vars(\E c \in Calls : Step(c))`): a call is running code, and the client's timeout
ends a request that is not answered. Cancellation and reloads are not fair. `ThreadLock`,
`SessionIndex`, `Compaction` and the services of `MCServices` have safety properties only.

### What the properties except
Where the code lets something go wrong that no document forbids, the model has it and the
property names it, so that everything else is still checked:

| property | exception | the code behind it |
|---|---|---|
| `FloorTakenOnlyWhenOvertaken` | `raced` | the floor is asserted before the lock is taken (`usecase/webchat/methods.go:147`) |
| `NoSilentEnd` | `lost` | the store refused the last item |
| `OnlyReopenSkips` | `skipped` | a stream opened anew begins at the head |
| `EachCallOnce` | `dirty` | calls streamed by an attempt that was then lost are executed next to those of its successor (`worker.go:374`) |
| `UnusableOnlyAfterReload` | `overtaken` | the client looks its provider up in later settings than the router's snapshot |
| `DocumentSound` | `strays` | a patch accepts any id as the active provider |
| `ListedCallWorks` | `erred`, `shut` | any error of a call closes the session other calls share (`mcp/manager.go:185`) |
| `ListedCallWorks` | `LeadsBack` | a listed name with a space in it, or with an id that has a double underscore, is not parsed as what it stands for (`mcp/manager.go:375`) |
| `PublishedOnRequest` | `stray` | a publish overlaps a delete (`tools/pages_ui.go:79`), or the delete's look at the marker fails and counts as "not published" (`tools/pages.go:442`) |
| `ListedIsReadable` | `late` | an error after the metadata was written removes the data only |
| `UsableIsCurrent` | `kept` | an error of removing the old index is ignored |
| `LoginsSound` | `overlapped`, `rushed` | statements of two logins interleave |
| `PickedIsServed` | `Shadowed`, lists without models, a model spelled like a provider, "switch" | three searches over the same settings |
| `PickedIsServed` | "failed", only if the provider shown has no key | the picker shows a provider for its list (`llm/catalog.go`), the client asks for the key (`llm/client.go:73`) |

### What the violated runs show
- `turn_stop`: a stop that arrives during a model or tool call appends `turn.failed`,
  leaves the round loop, and falls into the code that completes the turn
  (`worker/worker.go:354-359`, `446-451`, then `593`), so that the stopped turn counts
  as completed. `docs/architecture/turn-loop.md:86` says "`turn.failed` (`interrupted`)
  and stop". A stop seen at the top of a round does stop.
- `index_title`: between the read and the append of a turn's update (or of a title
  job) a rename is appended, and the older copy is written over it. `turn-loop.md:94`
  says "Manual titles are never overwritten".
- `stream_hydrate`: a conversation opened while the lock is taken but no active turn
  is in the row sets the page waiting without opening a stream (`chat.js:1301`).
  `docs/architecture/realtime-streaming.md:56` says of the placeholder that every way
  a turn ends "removes it cleanly".
- `compact_retry`: the checkpoint is the highest seq of an *old* turn, and a retried
  old turn has the newest items, so the messages of the recent turns are neither shown
  nor summarised. `turn-loop.md:84` says "keep the last `BP_CONTEXT_RECENT_TURNS` raw
  (never drop the latest user turn)".

## 5. Proofs

`ThreadLock_proofs` (assuming `FlockWorks` for all but the types, a positive TTL and
that `Nil` is nobody). `MutualExclusion` is not inductive: one must know why a second
caller cannot find the file empty. `IInv` adds what each caller's place says about
its file, flock and lease (`CallerInv`), that tokens of leases and records differ
(`TokensDiffer`), and, until a lease has lapsed, that a holder's record is in the file
the path names (`FreshInv`). One lemma per kind of action shows that it keeps these
parts; `OneHolder` then gives exclusion, and `LeaseStep` maps each step to a step of
`LeaseLock` or to a stutter.

`SessionIndex_proofs` (assuming only that the four kinds of writers are disjoint and
`Nil` is none of them). `IInv` says which places each kind of writer can be at
(`Roles`), that the turn in a turn's places is the lock's (`LockHeld`), that the copy
of a writer that has not fallen behind is the row (`Fresh`), what a title job's copy
satisfies (`Guarded`), that a running turn is the row's active turn from `Acquire` to
the clear (`Marked`), and for deletes that a fresh delete excludes a running turn
(`Alone`, `Gone`). One step per action shows it inductive; `StepImplements` then maps
every step to `SessionRow`.

`TurnLifecycle_proofs` (assuming positive bounds and that `Nil` is nobody). `IInv` adds to
the run's properties that a run has a turn and an admin (`HasTurn`), that calls are left
while one executes (`Calling`), and that what `Floor.Assert` saw still holds for a request
nobody overtook (`FloorHeld`). Lemma `KeepsIInv` says once what a step of the run that
has the thread leaves alone; nearly every action of a run is then an instance
of it, and requests, interrupts, expiry and crashes are steps of their own.

`Compaction_proofs`. As long as no turn is retried late, the turns of the transcript
come one after the other (`InOrder`); so what lies at or before a checkpoint belongs to
turns that were old then (`Covered`), and turns that are old stay old, also as the
transcript grows (`Excerpts`, lemma `OldKept`). Least and greatest elements of sets of
numbers come from the well-foundedness of the naturals.

`EventStream_proofs` (assuming that there is room for one item). The cursor of the page is
the end of a chain, so `IInv` has one part per link. An item is *issued* when its seq is
taken and stays so once its line is written; the file is in the order of its seqs
(`LogInv`); what the streamer has read is what the file had after its cursor
(`ConnInv`, lemma `AfterIs`); what it sent is on the wire without a gap (`WireInv`); what
is behind the page's cursor was accepted, or a stream opened anew began after it
(`PageInv`); and what a GET has read is no newer than the seq file (`CallInv`). `ReadAll`
is the strengthening of `NoLostWake`: a streamer past its read whom nobody will wake has
read every line, because an item is written before its `Notify`.

`LlmCall_proofs` (assuming `CallAssumption`). Calls meet in the configuration and the
cursor file only, so the invariant is one of each call's record, and each action has a
lemma that its new record keeps it. `Work`: the fallback of a request without streaming is
paid for when the attempt is counted. `Waits`: a wait is paid for when the retry is
counted. `Late`: a request that began after the cancellation is the last one. `Fresh` and
`Refused`: as long as nothing was reloaded the router's snapshot is the client's
configuration. `Rotated`: the candidates are the enabled providers, each once, wherever
the cursor points; it needs that the sort by priority and the rotation are permutations.

Two properties have an invariant of their own beside it. `SInv`, for
`GivesUpOnlyWhenSpent`, keeps the ledger of a call. The attempts a configuration allows
are counted as the set of pairs of a usable provider and a number up to its `max`
(`Tries`), which makes a sum over providers a cardinality. At every moment the attempts
made and the pairs still ahead (those of the candidates not yet left) are the pairs
allowed and those tried at the current provider, which are counted twice (`Ledger`); a
failed attempt moves one pair, and leaving a provider removes those that are spent. With
no candidate left, nothing is ahead, and the attempts are all that was allowed. `HInv`,
for `EachCallOnce`, says what each call has heard: unless an attempt that had streamed
calls was given up (`dirty`), the calls in all that was streamed are those in the attempt
under way (`Heard`). That rests on the text operators being homomorphisms: the calls of a
text in two parts are those of the first and then those of the second (`ExtractCat`, from
`FlattenCat`), so text from a lost attempt without calls adds none. `Together` then says
what a merge keeps: the native calls in their order, with their arguments where they had
any, and of each name as many as the larger of the two lists has (`MergeIs`, `RecoverIs`,
from counting lemmas about the recursive function in `Merged`). Merging twice with lists
of the same calls therefore adds nothing.

`Settings_proofs` (assuming `SettingsAssumption`: what the process is given, a
configuration without gaps and stored documents with an owner and unique providers; and
`NoneIsNoDocument`). `IInv` follows a request to the disk: every document on its way has
an owner and unique providers, the temporary file has it when it is renamed, and a
request that reloads nothing leaves what the parts read as it was (`OpInv`); the disk has
the last answered document, or the request's after the rename (`DiskInv`); a part that
is reloaded and differs from the disk is still to be reloaded, and one that is built once
has what the process started from (`PartsInv`). `ActiveInv` adds that the
active provider of each such document is listed or was patched in as it came (`strays`).
It holds because `DeleteProvider` elects another one in the document itself, and the merge
takes the first that is enabled (lemmas `RemoveAtIs`, `FirstEnabledIs`). The types need
`IInv`, which has what is in the temporary file when it is renamed, and what the two
operators that build lists return: `FlattenedIs` (the models left after a removal) and
`SetToSeqIs` (the models found by an import).

`Services_proofs` has a part for each of the seven other services, under the assumption
named after it; the assumptions type the constants and demand little more: finite sets of
logins, calls and servers, names of MCP servers that are not empty, and that one tool name
of a server means one tool.
- *Pages:* `StrayMarker`: a marker without a page, or beside a delete that is past its
  unpublish, was set by a publish that a delete overlapped, or a delete missed it;
  `Publishing`: a publish under way has seen the page, or a delete crossed it.
- *Attachments*, *documentation index:* `UploadInv` says what the two files of an upload
  hold at each step of `Save`, `BuildInv` what the index file holds at each point of a build.
- *Model picker:* the options are the listing of the settings in force, and the turn's
  provider is what `ResolveModel` finds in them, until they change. `ListedResolves` is the
  heart: the listing and the search agree on every model that no earlier provider has and
  that is not spelled like a provider. No disjointness of the two kinds of ids is assumed.
- *Effort policy:* `PoliciesInv`: what a policy remembers is no older than the settings it
  was made for; `RequestSound`: a request decides by the policy of the settings it found,
  and what it has found is no older than those. `ResolvedFits` shows the translation of
  modes correct for any list of levels.
- *Accounts:* `Rowed`: every login that inserted a row has a time of its own. `Capped`: too
  many rows are still to be counted by some login, or to be deleted by one that counted
  them all — this is what survives overlapping logins. `Kept`: without overlap a session
  that was given up has as many newer ones as are kept; `OldestHaveNewer` counts them.
- *MCP sessions:* `CallSound` follows a session through its call: a spare one is connected
  and not in the pool, the one in use is the pool's as long as it is connected, and when
  it is not, some call of the server ended in an error or the manager was shut.
  `PromisedIsAdmitted` shows that what the listing allows by name and description the call
  allows by name alone, for a name that leads back. `DialFindsNumber` says that the
  model's finite set of session numbers never runs out, so that no dial is missing from
  the run.
- *Side by side:* a step of `MCServices` is a step of one service and a stutter of the
  others (`ServicesStep`), so its specification implies those of all eight, and
  `ServicesTypeCorrect` and `ServicesSafe` carry every theorem over to it, with
  `ServicesAssumption` as the only assumption beside `NoneIsNoDocument`.

The assumptions that are operators are hypotheses of their theorems; `ServicesAssumption`
takes them together, and TLC evaluates it for the instance of the run. `NoneIsNoDocument`
is not among those, since it quantifies over everything; `None` is a model value in the
run.

| theorem | for every value of the constants |
|---|---|
| `TypeCorrect`, `SettingsTypeCorrect`, and `PagesTypeCorrect` to `McpTypeCorrect` | the types (those of `LlmCall` are in its `Inductive`) |
| `Inductive` of each module (`PagesInductive` to `McpInductive` in `Services_proofs`) | the strengthened invariant |
| `ThreadLock_proofs`: `Exclusive`, `NeverOverwrites`, `Implements` | the safety of the lock; it implements `LeaseLock` |
| `SessionIndex_proofs`: `UpdatesInTurn`, `NothingWritten`, `Implements` | the safety of the index; it implements `SessionRow` |
| `TurnLifecycle_proofs`: `Exclusion`, `RowTrue`, `NotSilent`, `FloorRespected` | one run at a time, its row, its end, the floor |
| `Compaction_proofs`: `NothingLost`, `RecentShown` | what is hidden is summarised, the recent turns are raw |
| `EventStream_proofs`: `NothingSkipped`, `WakesSuffice` | no durable item is skipped, no wake is lost |
| `LlmCall_proofs`: `RotationComplete`, `Bounded`, `RefusedAfterReload`, `OneMoreRequest` | rotation, budget, reloads, cancellation |
| `LlmCall_proofs`: `GivesUpLate`, `CallsOnce` | a call fails for a transient reason only when every attempt is spent; native and written calls are executed once |
| `Settings_proofs`: `RunsWhatIsStored`, `Sound` | the file, the parts that are reloaded, those built once and the answers agree; the document stays sound |
| `Services_proofs`: `PublishedByRequest`, `ListedReadable`, `IndexCurrent`, `PickServed`, `SentEffortFits`, `LoginsHold`, `NoSessionLost`, `ListedIsCallable` | what the run `services` asks of each service |
| `Services_proofs`: `ServicesRunEach`, `ServicesTypeCorrect`, `ServicesSafe` | the specification of the run `services` implies each service's, with its types and properties |

Only model-checked: the liveness properties (`LockReleased`, `WaitEnds`, `CallEnds`), which
are beyond the proof system used, and the properties of the violated runs.

## 6. Limits
- One thread at a time: threads share nothing but the index file, whose rows are per
  thread, and the append lock on it.
- Lines are written whole: a torn last line is listed among the uncovered hazards.
- The lock is assumed to outlive a turn in `TurnLifecycle` and `SessionIndex` (the
  defaults, 300 s against 120 s); `ThreadLock` shows what happens until a lease lapses.
- Ephemeral deltas, sizes of texts, the page's retry budget and rendering are left out.
- `LlmCall`: jitter is left out (the ceiling holds after it); a stream has two events; the
  provider's answers are a representative of each kind, not every text.
- `Pages` and `Accounts` follow one page, and one user at one address: others share no
  state with them.
- `Accounts` gives logins rising stamps. The code sorts RFC 3339 texts with nanoseconds
  (`auth/store.go:151`, `175`), whose trailing zeros are cut: the order differs for logins
  within the same instant or across a clock that goes back.
- `McpSessions`: ids and names have no spaces around them, and no part of an id ends in an
  underscore.
- `docs/architecture/settings-config.md:114` says that the stub is "env-only"; the code,
  and `ApplySettingsFile`, also switch to it when a stored document has no usable provider.
- The disk keeps what was renamed: `fsync` and the order of writes below the file system
  are taken as promised.

## 7. Running
`tlc -config lock.cfg MCThreadLock` (and likewise the other configurations with the
module named in `PROJECT.json`); `tlapm ThreadLock_proofs.tla`, and likewise
`TurnLifecycle_proofs`, `SessionIndex_proofs`, `EventStream_proofs`, `Compaction_proofs`,
`LlmCall_proofs`, `Settings_proofs` and `Services_proofs`. Operators whose names end in
`_m` or `_n` are mutants, plausible bugs that `PROJECT.json` pairs with the property each
must break; no specification uses them.
