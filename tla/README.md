# Verification of YonerAI

TLA+ models of the concurrent core of YonerAI, their TLC configurations, and
TLAPS proofs. `PROJECT.json` lists the components, runs, mutants, the source
lines of every definition, findings, hazards and theorems.

Check a run with `tlc -config <cfg> <MC module>`, a proof with `tlapm <module>`.

## 1. The system

YonerAI is one assistant with several surfaces. The parts that keep state and
meet each other:

| part | state | operations | hard behaviour |
|---|---|---|---|
| Core event bus `core/.../engine/simple_worker.py`, `api/routes/runs.py` | per run: one listener queue, a backlog, the terminal event; per tool call: expected, submitted, a future or a parked result | emit, listen (SSE), POST results, wait for a result | late and reconnecting clients, cleanups that come late, timeouts racing results, limits |
| Tool calls `core/.../mcp/runner.py`, `database/repo.py` | a `ToolCall` row: status, owner, lease token and expiry, result; one GPU semaphore | register, claim, execute, store, poll | several invocations of one call, leases, crash, handler timeouts |
| Run loop `core/.../brain/process.py`, `api/routes/messages.py` | `Run` row, idempotency key, context of the passes | POST messages, the passes of MainProcess, final/error | order of event and status, crash, retries |
| Relay `src/relay/app.py`, `src/services/relay_node.py` | nodes, offers, sessions, pending futures per node connection | node websocket, pairing, client websocket, forwarding | reconnects before the loss is noticed, timeouts, late answers, shared ids |
| Identity link `api/routes/auth.py`, `repo.py` | link codes, failure counters, user ids in all tables | make, verify, merge | several commits per operation |
| File tickets `api/routes/files.py`, `repo.py` | ticket rows | issue, consume | racing consumers |
| Surface runs, sessions `api/routes/agent_runs.py`, `sessions.py` | bounded in-memory stores | create, post results, read | eviction |
| Scheduler `src/cogs/scheduler.py`, `src/storage.py` | tasks with their next time, runs of a task, one semaphore per instance | tick, claim, ask the Core, post, settle; toggle, delete, reload | several instances, stale lists of due tasks, crash between claim and execution, audit rows left behind |
| Approvals `src/cogs/tools/tool_handler.py`, `src/utils/approvals.py`, `src/storage.py` | one row per tool call id | store, notify, poll, decide, expire, verify | polls racing decisions and expiry, two executions of one call, two commands of the owner, restart |
| Rest of the bot: cost manager, GPU context, MCP client, web agent loop (`src/...`) | in-memory maps | see `PROJECT.json` | resets with reservations in flight, overlapping switches |
| Hybrid local node `core/.../hybrid` | enrollments, nonces | enroll, approve, revoke, verify documents | one-time codes; mostly pure |
| CLI sync `clients/cli/yonerai_cli/services/realtime_sync_client_service.py` | a state file: per conversation a cursor and the ids seen | poll, fetch a body, record, write | several invocations on one file, kill and failure halfway, lost updates |
| Rest of the CLI `clients/cli` | local ledger, sessions | native runs, updates, screens | single requests |
| Self evolution, planning, providers, status pages, web clients, installers | none of their own, or presentation | | |

How they interact: a surface posts a message to the Core and opens an SSE
stream; the run loop emits events to the bus and runs tools through ToolRunner;
a tool that must act on the surface is *dispatched* as an event, the surface
executes it and posts the result, for which the run loop waits. A phone or
browser reaches a node's Core through the relay. The Core and the relay are
single asyncio loops: what a coroutine does between two suspensions is atomic,
everything else interleaves. SQLite serialises statements; check and update are
atomic only within one statement.

What makes each part correct:

* event bus: a stream is an unbroken, ordered piece of the run's events; who is
  registered when the run ends sees the terminal event; one POST per tool call
  is accepted and is neither lost during the run nor kept after it; waits end.
* tool calls: handlers of one call do not overlap; everybody who is told that a
  call has completed is told the same result; a lost call becomes claimable.
* relay: an answer goes to the request it is for; nobody waits at an entry that
  is gone or on a connection that is gone; a connected node is reachable.
* run loop: one terminal event per run, in an order with the stored answer and
  status on which clients can rely; one run per idempotency key, also after
  accounts were linked.
* scheduler: a task is claimed once per interval, whoever ticks; its audit rows do
  not claim more than happened.
* approvals: nothing risky runs without a decision on *this* request; decisions stay.
* CLI sync: nothing before a cursor is missing, and what is published arrives.
* the others: see the hazards in `PROJECT.json`.

## 2. Modules

| module | what | |
|---|---|---|
| `EventManager` | the bus and its two routes | `MCEventManager`, `EventManagerProofs`, `EventManagerToolProofs` |
| `ToolLease` | `ToolRunner.run_tool` over a `ToolCall` row | `MCToolLease`, `ToolLeaseProofs` |
| `Relay` | relay and node connector | `MCRelay`, `RelayProofs` |
| `RunStream` | what a client sees of a run: one ordered stream, of which a connection gets an unbroken piece | implemented by `EventManager` |
| `ResultHandover` | what a run loop sees of a tool call it waits for: one result, a timeout, or a cancellation, by the end of the run or by the timer of the pass | implemented by `EventManager` |
| `SerialCalls` | what callers of a tool see: attempts one after the other, the first success is the last and is told to all | implemented by `ToolLease` |
| `RunContract` | what the Core promises of a run: status, stored answer, terminal event | implemented by `CoreRun`, used by `Scheduler` |
| `ApprovalGate` | what the owner sees of an approval: one decision per call, and no tool runs against it | implemented by `Approvals` |
| `Timetable` | what the owner of a scheduled task sees: when it occurs, the row and the one message of an occurrence | implemented by `Scheduler` |
| `InOrderFeed` | what a device sees of an account's events: bodies in the order of the cursors | implemented by `SyncReceiver` |
| `CoreRun` | POST /messages, linking of accounts, `MainProcess.run`; implements `RunContract` | `MCCoreRun`, `CoreRunProofs` |
| `Approvals` | the approval gate of the bot's tool handler | `MCApprovals`, `ApprovalsProofs` |
| `Scheduler` | the scheduler cog and its rows, over the Core as `RunContract` | `MCScheduler`, `MCSchedulerDue`, `SchedulerProofs` |
| `SyncReceiver` | the receiving side of the CLI's sync and its state file | `MCSyncReceiver`, `SyncReceiverProofs` |

`CoreRun` and `Scheduler` meet in `RunContract`: `CoreRun` is shown to implement it
step by step, and `Scheduler` composes its jobs with it, so what is shown of the
scheduler rests on what the contract allows and not on how the run loop gets there.

The seven abstract modules have no buffers, leases, codes, slots, copies or retries: each says in a
page what its users rely on. The detailed module names them with `INSTANCE ... WITH`, the
substitution being the refinement mapping (`Told`; `Stage` and `Taken`; `AtWork` and
`ToldResult`; `Verdict`, `Outcome` and `AskedFor`; `Switch` and `Begun`), and the abstract specification is a
property of its run (`KeepsStream`, `HandsOverOnce`, `CallsAreSerial`, `KeepsContract`,
`KeepsGate`, `KeepsTimetable`, `ReadsInOrder`) and a theorem. What the abstract modules allow is as telling as
what they forbid: `SerialCalls` leaves out calls that need the GPU, because their leases run
out in the queue, and those whose results are normalised, which takes any time; `ApprovalGate` lets a contested call run after its approval was withdrawn, or be refused although it
was not; `ResultHandover` lets a wait time out or be cancelled although a result was taken;
`RunContract` lets an error be told of an answer whose insert did not return, and a completed
run become failed; `InOrderFeed` has `Damage`, which permits any cursor that is not ahead of
what has arrived once an update was lost or an id dropped. Without one of these, TLC finds the steps of the code that need it.

Operators named after a mistake (`BacklogOnly`, `DecideAnyway`, `SettleFailed`, ...)
stand before the definition they imitate. No action uses them; they are the
mutants with which each property is shown to depend on the code.

### EventManager

One action per stretch of code between two suspensions. `log[r]` is the history
of what was published, and events are positions in it: `buffer`, `inbox` and
`got` hold positions, so "no gap" is arithmetic. `listeners`, `terminal`,
`buffer`, `stamp`, `expected`, `submitted`, `parked` are the dictionaries of
`EventManager`; `older` is the insertion order of `_event_buffer`, which decides
what overflow evicts. `Listen` is `listen` up to its first yield, `Deliver` a
yield and the check for a disconnect in the route, `Cancel` the cancellation of
the response, `Cleanup` the `finally`. `inbox` is the rest of the replay followed
by the queue; the code reads them in that order. `ReleaseToolResults` is part of
`Emit`: the locks are never contended, because nothing is awaited under them.

`TimeOut` and `FinishWait` are two steps because `asyncio.wait_for` cancels the
future when its timer fires and raises only when the waiting task resumes; a POST
can be handled in between. `CancelWait` is the timer of the agent band
(`process.py:1599`), which cancels the pass, and with it the wait, while the run is open: the
`finally` of the wait forgets the call, the handler at `process.py:1541` swallows the
cancellation, and the run loop goes on. A future that holds a result already hands it over all
the same, as `wait_for` does on the repository's Python 3.11; on 3.12 it would not.
`BeginWait` also begins from `idle`: a call whose stored result is returned again is waited for
without having been asked for (`process.py:1521`), so every POST is refused. A generator whose
registration a later listen replaced waits on a queue nothing feeds; `ListenersReleased` speaks
of registered ones, and `orphan` shows the other kind. `accepts_tool_result` and `submit_tool_result` run
without a suspension in between, so `PostResult` is one step.

### ToolLease

A row is `status`, `owner`, `lease` (whose token it holds), `left` (time until
`expires_at`, negative when it is over) and `result` (whose result is stored).
An invocation walks from `idle` over `claiming`, `queueing` (for the GPU),
`executing` and `storing` to `done`, or `polling`, or `raised`. `age` is the time
it has spent at its label; a claim compares and stamps with the time at which it
was *called*, `age` ago. `Tick` lets time pass for everybody unless somebody is
overdue: a handler ends within `Timeout` (`wait_for`), a statement within `Lag`
(`busy_timeout`). Each statement has a `Lag` of its own: when the update of a completed call
fails (`StoreFails`), the update that stores the failure begins anew. `Normalize` is the
normalisation of a result before it is stored, for the calls that have one: it takes any time and
may fail. `Abandon` is an invocation that an exception or a cancellation takes out of `run_tool`:
its row stays as it is, and an update it was waiting for may be carried out nevertheless. `Crash` ends all invocations and frees the semaphore; rows stay.
Time stops being counted when a lease has been over for longer than `Lag`, beyond
which no comparison changes.

### Relay

`Conns` are websockets of connectors, each used once: `unused`, `up`, `lost` (the
relay has not noticed), `closed`. A connector without a working socket connects
again, while its earlier connections may still be `lost`. `pending[h][i]` names
the client whose future waits under id `i`; `fut` and `held` are that future.
`wire[h]` is what the connector has yet to answer, in order. `Done` is the
`finally` of a request; `Send` and `TimeOut` are steps of their own, because other
handlers run while a request is sent or waits. The node id stands for the
connector's code, which it keeps over all connections. `FreshIds` are ids used by
one request only ("always generate a unique `id` per request", `docs/PROTOCOL.md`);
the other ids may be used again and by other clients.

### RunContract and CoreRun

`RunContract` has four variables: the status of a run's row, whether its answer is in the
conversation, whether the insert of the answer is unconfirmed, and the terminal event the run
was told with. It says in which order these move: an error is stored before it is told, and is
told of no answer whose insert has returned; an answer is stored before `final` is told;
`completed` comes after that; nothing follows `failed`, and nothing but `failed` follows
`completed`. The last two clauses are as weak as the code makes them: the refresh after the
commit of an answer may raise (`repo.py:268`, `unconfirmed`), which tells an error of an answer
that is there, and the trace written after `completed` is in the same `try`
(`process.py:1695`, the label `reporting` and `TraceFails`), which stores `failed` over it.

`CoreRun` has the same four variables and everything that decides about them. A request
(`post`) resolves its user, checks the key and creates the run in transactions of their
own, so that two requests under one key, and a link of their accounts, can come in
between; the unique index then lets one insert succeed, and the loser is refused with
status 500 (nothing catches the `IntegrityError`). The refresh after the commit of a run may
raise too (`repo.py:237`): its request is refused, and the run stays `queued` with no task. A link (`link`) verifies a code, merges the users (`Merge` moves identities and runs,
and fails as a whole when both have a run under one key), and forgets the code. `pc[r]`
is where the task of a run stands: a label for each place at which `MainProcess.run`
awaits something that matters, among them the three ways to fail, the pass that runs out
of time (`timedOut`), the whole run that does (`expired`), and any exception (`fault`),
each of which stores the failure and then tells it. `StatementFails` is a statement of
the database that raises, `Crash` the end of the process: rows stay, tasks do not, and
the code takes none of them up again. Of the bus only the first terminal event of a run
is kept, which is what `EventManager` shows to be enough.

### Approvals

`row` is `approval_requests` by `tool_call_id`. `exec[e]` is an execution at one of the
awaits of the gate: it stores the request (`Save`, the upsert that keeps a decision),
looks for an earlier decision (`Look`), asks, stores its code, notifies, and polls;
`PollDecided`, `PollExpired` and `PollTimeout` are the outcomes of a poll, `Verify` and
`Revoke` what happens after an approval. `Verify` compares the arguments only (`ArgsOf`), as the
hash in the code does. `Revoke` may fail: silently, and the tool is refused with its row still
approved, or with an exception, and the tool runs. A command of the owner reads the row and then
decides by a conditional update (`Read`, `Conclude`), so two commands, and an expiry, can
race. `past` says that a time has passed: of the row, and of the copy that an execution
waits with, which need not pass together. `GateFails` is the exception path of the tool
handler, which lets the tool run; such executions are named `unguarded`, and `KeepsGate` and
`ExecutedWereApproved` say nothing else of them than that this is how they come about. A request stands for actor, tool and arguments; a call
id may come back with another request.

### Scheduler

`Tick` reads the due tasks (a batch `q` with the time of reading), `Claim` is the
conditional update for the next of them, in which the list may be stale; an unload may come
between a claim and the start of its job; `Begin`, `Ask`,
`Hear` or `HearNothing`, `Post`, `Store` and `StoreFailure` are the job, which holds its
instance's semaphore from `Begin` on. A trace may raise at two places: after the row is
inserted and before the `try` (`scheduler.py:93`), which leaves the row `running` for good
(`stuck`), and after the row is stored as `ok` (161), which settles it again as `failed`. `Toggle` and `Delete` are the user's commands,
`Unload`, `Load` and `Crash` those of the process. `Ask` is `Accept` of `RunContract`, or
finds the run of its key; `CoreStep` is any other step of the contract for a run some job
waits for, except `Complete`, which no job can see.

### SyncReceiver

`file` is the state file, `proc[p].copy` what an invocation has loaded. Per event an
invocation loads the file (`Take`), decides whether it knows the event, fetches its body
(`Fetch`), and saves (`Open`, `Write`): the file is written in place, so another
invocation may read it empty (`Loads`), and overwrite it. `Fail` and `Kill` are a request
or an opening of the file that fails and a process that is killed; `Publish` is the feed,
which is outside the repository. `feed` pages are asked for after the account's cursor,
the largest of any conversation; a `firestore` page always starts at the first event.
`intact` is a history variable: no update was lost and no id a reader needs was dropped.
An event that repeats an idempotency key moves no cursor. When a whole page consists of
repeats, `WedgedAt`, every later page is the same one; `--limit` may be 1, and then a single
repeat is such a page. `EveryBodyArrives` therefore says that a body arrives or the receiver stays
wedged before it, and `OnlyRepeatsWedge` that nothing but repeats does this.

## 3. Runs

| run | instance | question and answer |
|---|---|---|
| `streams` | 3 runs, 2 connections, 4 events of one run, the end of the others, buffer of 2, 1 buffered run, 1 tick (465,533 states) | streams are unbroken and ordered; backlogs are bounded, whoever is registered at the end holds it; the bus is a `RunStream` |
| `bus` | 1 run, 2 connections, 1 call, 2 POSTs, their updates and the end of the run, buffer of 2 (164,296 states) | one POST per call is accepted; it is kept during the run and forgotten after it; the bus is a `ResultHandover`; a registered client sees the end, listeners are released, waits end |
| `lease` | 3 invocations of 2 calls, 1 of them normalised, 2 users, Timeout 2, Slack 2, Lag 1 (898,664 states) | handlers of one call do not overlap; the leases are `SerialCalls` |
| `gpu` | 3 invocations of 2 GPU calls, 1 of them normalised, Timeout 1, Slack 0, Lag 0 (190,682 states) | leases that run out in the queue do no harm to the stored result; everybody ends; lost calls are claimable |
| `relay_traffic` | 1 node, 2 connections, 2 clients with 1 request each, 2 ids of which 1 fresh, room for 1 pending request (86,603 states) | entries, futures and registrations match; answers under fresh ids are the request's own; every request ends |
| `core_run` | 2 runs, 2 users, 2 identities, 1 key, 2 POSTs, 1 link, 1 code, 2 turns, 1 fault (1,228,284 states) | one run per key, also over a link; every step of a run is one of `RunContract`; a task that ends has told how |
| `gate` | 2 executions of 1 call id, a critical request and one with other arguments, 2 commands, 1 fault (730,972 states) | nothing runs without approval, verdicts agree, the owner's code is the expected one, executions end; the gate is an `ApprovalGate` |
| `jobs` | 2 instances, 1 task, times 0 to 2, interval 1, limit and cap 1, 1 fault (1,286,302 states) | the audit is true, rows are in hand; the scheduler is a `Timetable` |
| `due` | 1 instance, 3 tasks, ticks of 2, times 0 to 2, interval 1, 1 fault; the owner changes 1 of the tasks (91,892 states) | due tasks are claimed, and none is overtaken twice |
| `sync_feed` | a repeated `poll` and one `firestore-poll`, 6 events in 2 conversations, 3 of them under one key, 2 with a body, pages of 2, 2 ids kept, 1 fault (303,055 states) | nothing is skipped, bodies arrive or the receiver is wedged, by repeats only; the receiver is an `InOrderFeed` |
| `orphan` | 1 run, 2 connections, 2 updates and the end | counterexample, see below |
| `sync_firestore` | one repeated `firestore-poll`, as above without faults | counterexample, see below |

Why the bounds are enough. `streams`: a buffer of 2 in 4 events is trimmed and shows the order
of a replay, a limit of one buffered run with three runs overflows twice, so that one run too many
would be seen, one tick expires a TTL of 0, and two connections give a takeover and a late
cleanup; two of the runs need no more than their ends. `bus`: two POSTs are a first and a
duplicate, or one that comes after the wait; besides the updates these publish and the end of the
run no events are needed. Several calls of one run are left to the proofs, which are closed under steps of other
keys. `lease`: the third invocation polls while two race; `Lag` makes claims late by half the
slack, the worst case the assumption allows, and the second update after a failed one is late
once more. `gpu`: while one executes, a second waits past its lease and a third claims it again; with
no slack this is quickly reached. `relay_traffic`:
the second connection overlaps the first, the cap of 1 is reached and refuses, and the
id that is not fresh is shared by two clients; a second request of one client under a fresh
id needs more than this instance and is covered by the proof of `OwnAnswers`.
`core_run`: two POSTs of one key race each other, a link and a crash, and the second
run shows whether one task or merge touches another's row; one fault reaches each failure
path, including a failure while a failure is stored. `gate`: the second execution is the duplicate
of a call, or the same call id with other arguments; two commands decide against each other. A
request of another tool with the same arguments is left to the proof. `jobs`: two
instances read the same due task; three times give two intervals, so that a stale list
claims in a later one. `due`: with ticks of two, one of three due tasks is left out, and one fault
breaks a tick off after its first claim; two intervals let a task be claimed twice while another
waits. The jobs stay where they were made, since none of their steps touches the clock, the tasks
or a loop. `sync_feed`: pages of 2 in 6 events end within a conversation; events 2, 3 and 4 come
under one key, so that 3 and 4 are a page of repeats, with event 5 behind it; event 2 comes without
a body and event 3 repeats its key with one. Up to the wedge each conversation has recorded one
event, so that the file is still intact there; when damage lets the receiver pass, event 6 is
the third of its conversation and drops an id.

Bounds appear as constants (`MaxEvents`, `MaxUpdates`, `MaxTime`, `MaxRequests`, `MaxTurns`, `MaxFaults`,
the sizes of sets) and in the guards, never as state constraints. Symmetry is used in
`streams` (connections, and the runs with one bound), `lease` and `core_run`, where invariants and refinements without fairness are checked;
these quantify over the symmetric sets and name no member. It is never used with liveness. Types are not listed among the properties of the runs:
they are theorems. The models stop when the events, connections or requests
of an instance are used up, so deadlock is not checked.

### Where the code does not do what it says

Two runs check a statement of the repository and end in a counterexample.

* `orphan`: a client reconnects while its earlier connection is being cancelled;
  the cleanup of the earlier one removes the newer registration
  (`simple_worker.py:62` pops whatever is there). Later events are buffered and the
  open stream waits for them.
* `sync_firestore`: the query of `firestore-poll` carries no cursor, so every page is the
  first one, and an event behind it never arrives at a CLI that polls only Firestore.
  `docs/codex/public_security_review_checkpoint.md:580` says the cursor is passed as
  `pageToken`.

What else was seen while modelling, and is behaviour of the models:

* of two concurrent POSTs under one idempotency key one is refused with status 500, although a
  replay must return the same `run_id` (`docs/contracts/external-agent-api.md:192-193`): both
  find no run (`messages.py:43`), the unique index refuses the second insert, and nothing
  catches the exception. `OneRunPerKey` speaks of requests that are answered with a run;
* an answer whose refresh fails after the commit (`repo.py:268`) is in the conversation of a run
  that is stored as failed and told as an error; a trace that fails after `completed` stores
  `failed` over it, with `final` told (`EndsAgree` and `AnswerIsNotAnError` name both);
* a page of repeated idempotency keys wedges a receiver of the feed, as said above;
* a trace that fails at `scheduler.py:93` leaves its row `running` and one that fails at 161
  makes an `ok` row `failed` although its answer was posted;
* an approval whose withdrawal fails silently (`storage.py:781`) refuses the call and leaves its
  row approved, so that the next execution under the call id may run;
* `delete_scheduled_task` deletes the rows of a task's runs before it knows that the owner matches
  (`storage.py:888`). Its only caller is the tool of the owner (`scheduler_tools.py:82`);
* a tool result that arrives between the timer of a wait and its `finally` is answered as
  accepted and handed to nobody (`TimeOut`, `FinishWait` of the bus);
* the lease of a GPU call starts before the wait for the semaphore. A long wait loses it:
  the call is executed by its first holder, answered as completed, and executed again by
  the next. What is *stored* as completed is not executed again
  (`NoExecutionAfterCompletion`), because the semaphore is fair;
* the cleanup of a node's earlier connection drops the offer the newer one has made
  (`relay/app.py:239`); the connector offers once per connection, so the node cannot be
  paired until it reconnects;
* the upsert of an approval replaces the request and keeps the status. When a call id comes
  back with another request, the row holds that request by the time it is compared, and an
  earlier approval is reused (`Save`, `Reusable`); only when the request is replaced while an
  execution waits is the difference seen and the approval withdrawn (`Revoke`). The
  properties about approvals therefore speak of call ids that come with one request
  (`Steady`), and `ApprovalGate` names the withdrawal (`Contested`). A rate limit that turns an
  execution away after it stored the request leaves a row without a code, the exception in
  `WaitingHasItsCode`;
* a crash leaves a run `queued` or `in_progress`, and a scheduled run `running`, for good;
* two invocations of the sync that save at once lose an update, and a cursor may then go
  back. Bodies are fetched again; none is skipped.

## 4. Fairness

Safety needs none. Weakly fair is what the event loop or the process does by itself:

* bus: `Deliver`, `Cancel`, `Cleanup`, `TimeOut`, `FinishWait`: a task that can run runs and
  timers fire. `CancelWait` need not happen;
* tool calls: `Claim`, `AcquireGpu`, `TimeOut`, `Normalize`, `Store`, `Poll` and the passing of
  time: a normalisation takes any time but ends;
* relay: `Send`, `TimeOut`, `Reply` and `Cleanup`, the last because the websocket server pings. That
  `Send` happens is an assumption on the websocket: `send_text` is not under the client's
  timeout (`relay/app.py:322-326`), and a send that never returned would hold its request;
* approvals: `Proceed`, the steps of an execution, and `CopyExpires`, the passing of the time
  it waits with;
* scheduler: `Tick` and `Claim` of a loaded instance, whose `_run_loop` sleeps a few seconds and
  ticks again, also after an exception. `DueTasksAreClaimed` asks for a task that the owner has
  stopped switching off (`Settled`);
* sync: the steps of an invocation, and `Poll` of those that are repeated, by the user or
  a timer of theirs: the CLI itself polls once.

Nothing is assumed of clients, nodes, run loops, tool handlers, the Core, the owner or
faults: `EveryRequestEnds` holds although a node may keep silent, `EveryInvocationEnds`
although a handler may never return by itself, `EveryExecutionEnds` although the owner never
decides, `RegisteredClientSeesEnd` without assuming that a run ends. `CoreRun` states no
liveness: a crash leaves runs unfinished and nothing promises otherwise.

## 5. Proofs

For every value of the constants that satisfies the assumptions in the modules:

* `EventManagerProofs`: `TypeCorrect`, `StreamSafety`, `BufferBounds`, and the refinement `BusKeepsStream`. `IInv` adds to the type that
  the only terminal event of a log is its last (`LogInv`), that a backlog is an
  unbroken end of the log while nobody is registered (`BufferInv`), and that the
  registered stream is up to date (`RegisteredInv`): without the last two a new event
  could not be known to continue what a stream has, and a backlog not to continue what
  an evicted one had. `BufferBounds` has an invariant of its own, `LineInv`: `older` is a
  strict total order of the buffered runs, and these are finitely many. Some run is then
  the first in line (`SomebodyIsFirst`), so that an eviction always finds one to remove.
  `BusKeepsStream` needs `IInv` where an event is delivered: that the next position in an
  inbox is one after the last received, and one the run has published.
* `EventManagerToolProofs`: `ToolSafety`, and the refinement `BusHandsOverOnce`. `ToolInv` says for each key where an accepted
  result is, depending on the phase of the call, and that a call nobody has asked for has none;
  it is closed under steps of other keys (`UntouchedKey`), so each action is looked at for its
  own key only. The refinement needs `HandInv` as well: what was accepted has been answered as
  accepted, so that no POST is taken twice. A wait may be cancelled by the end of its run or by
  the timer of the pass, with the run still open, and either way nothing is taken afterwards.
* `ToolLeaseProofs`: `LeaseTypeCorrect`, `LeaseSafety`, `LeaseFinality`, `CompletedCallsRest`,
  and the refinement `LeaseMakesCallsSerial`. The heart is
  `CoverInv`: what is left of a lease covers what is left of the handler, for a prompt call
  also of the update that stores its result, and the lateness of another claim. It needs
  `2 * Lag <= Slack`, which `busy_timeout` (30 s) and the 60 s of slack give with equality: one
  late claim and one update. A second update, which stores that the first has failed, has a lag
  of its own and is not covered; it stores no success, so `SerialCalls` lets another attempt
  begin meanwhile. Prompt calls (`PromptCalls`) are those that neither queue for the GPU nor have
  their result normalised, a step without a time limit. `QueueInv` is what makes
  the semaphore exclusive. `CompletedCallsRest` needs `OrderInv`: nobody is twice in that
  queue, and of the invocations of one call in it the holder of the lease comes last, or
  has left by a cancellation and will store nothing (`HolderGone`), so that a result is stored only
  after those that lost the lease have had their turn. The
  refinement needs `DoneInv` as well: only an invocation that has returned has an answer, so
  that everybody is told once. A claim is a beginning because `CoverInv` leaves nobody at
  work when a lease has run out.
* `RelayProofs`: `RelayTypeCorrect`, `RelaySafety`, `OwnAnswers`. `PendingInv` ties each
  entry to the handler that made it, which makes the check in the `finally` of a request
  (`cur is fut`) sufficient; `ConnInv` says that a working connection is the registered
  one, whatever cleanups are due; `IdInv` says that everything on a wire under a fresh id
  in use is that request. `BoundInv` is about cardinalities.
* `CoreRunProofs`: `CoreRunTypes`, `KeysNameOneRun`, `IdentityKeepsRuns`, `AnswersStand`,
  `TasksEndAsTold`, and the refinement `CoreRunKeepsContract`. `RunInv` says what a task's
  label implies of the variables of the contract (`LabelTells`), the unconfirmed answer and the
  failing trace included, that rows are unique
  under user and key (`RowsAreUnique`), and that what a request has read is current unless
  its identity moved meanwhile (`RequestsAreCurrent`). The refinement looks at each action
  under `RunInv`: those of requests and links create a run or stutter, those of a task move
  one run as a step of the contract or stutter, a crash stutters. `CoreRunIsTruthful` shows
  what the refinement is for: `Truthful` is proved of the contract alone
  (`ContractIsTruthful`) and carries over to every run loop that implements it.
* `ApprovalsProofs`: `ApprovalsTypes`, `ExecutionNeedsApproval`, `ExecutionsAgree`,
  `DecisionsStand`, `CodeReachesOwner`, and the refinement `ApprovalsKeepGate`. `ApprovalInv` ties the way an execution has gone to what the row still
  says (`RowStillSays`) and an approved row to what the owner read (`ApprovedWasGranted`).
  `CodeInv` says where the code of a pending row is on its way to the owner. The refinement
  needs `HeardStands`: the row behind an execution that has heard a decision, and has yet to
  compare its arguments, says approved or denied. A withdrawal that fails refuses the call
  without changing the row, or lets the tool run unguarded; `ApprovalGate` names both. `DecisionsStand` says of the row what the
  gate says of the verdict: it stays, but for the withdrawal.
* `SyncReceiverProofs`: `SyncTypes`, `SyncSkipsNothing`, `CursorsAdvance`, `SyncWedgesOnRepeats`,
  and the refinement `SyncReadsInOrder`. `SyncInv` requires honesty of
  *every copy* of the file, not only of the file, because any of them may be written next.
  `KnownInv` adds that, as long as no update was lost, the file knows every event before its
  cursors and before the event an invocation is at: such an event moves no cursor again. The
  refinement needs both, and `PublishedInv`: no cursor, in the file or in a copy, and no page
  is ahead of what was published. `SyncWedgesOnRepeats` needs `SeenInv`: an id in the file does
  not stand after the cursor of its conversation, so what is known after every cursor is known
  by its key.
* `SchedulerProofs`: `SchedulerTypes`, `TasksKeepTheirPace`, `AuditIsTrue`, `RowsAreSettled`, and the
  refinement `SchedulerKeepsTimetable`.
  `ClaimInv` says that the next time of a task is an interval past every claim, `AnswerInv`
  what a job knows of its answer through the contract, `RowInv` that rows begin with the slot and
  that one is left `running` by a crash, an unload, a failed update or a failed trace only.
  The refinement needs `WorkInv` as well: a job at work has its row, and has sent nothing before
  it comes to post, which makes its message the only one; with `AnswerInv` it is an answer to
  the job's own request.

Each follows Init => Inv, Inv /\ [Next]_vars => Inv', Inv => property, with one step
per action. A refinement is proved in the same manner: the initial states map to initial
states, and under the invariant each action maps to one named action of the abstract module
or to a stutter. The assumptions are the named ASSUMEs of the modules, all of them about
constants.

Only model-checked: the liveness properties of the passing runs, because fairness and
ENABLED are outside the prover's reach, and `NobodyIsOvertakenTwice`, which is about the history
variable of `MCSchedulerDue`; every other safety property of the runs is a theorem.
`StoredByHolder` and `OneGpuHandler` are theorems that no run repeats. What a
fold or a recursive definition computes for every input would need induction over data,
which the provers cannot do here.

## 6. Not modelled

Left out of the modelled parts: payloads and their shaping, permission checks before a
tool call is registered, what the normalisation of a result does (it is a step of any length that
may fail), the rate limit, Origin and size checks
of the relay, the HTTP call of the connector, `dispatch_mock_stream` and the resource lock
operations of `repo.py` (nothing calls either), how prompts are built and the budgets that
only shorten a pass, the counter of failed link codes, the scoring of risks, the text of
answers, the reconnects inside `stream_events`.

Parts without a module, and why:

* file tickets (`repo.py:634`): one race between two adjacent statements, listed as a hazard;
  the rest is file I/O;
* surface runs and sessions: bounded in-memory stores without awaits between check and update;
* cost ledger, GPU context switch: one clamped subtraction, and the killing of host programs
  whose behaviour is not in the repository; both are listed as hazards;
* MCP client: the pattern of `Relay` without reconnects;
* hybrid documents, official account sync, planning, routing, providers, self evolution: pure
  functions or single requests, nothing interleaves;
* CLI screens, web pages, installers, docs, and the Discord cogs around third-party
  libraries (voice, music, media, memory): presentation and I/O. They are most of the
  repository's lines, which is why the models map a small share of them: what they map is
  the part in which several actors meet.
