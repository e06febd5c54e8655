# TLA+ models of TGA3

TGA3 is a FastAPI control plane (`src/tga3/src/tga3`) that runs one *task* with
several agents: a Supervisor and a Reporter inside the control plane, and
workers in containers. The agents share a *blackboard*, an append-only log in
PostgreSQL, and a *dialogue*, the stream of messages the user reads. This
directory models the parts where concurrency, retries, crashes and lost
connections decide whether that is correct.

## 1. Inventory

| part | code | state | operations | talks to |
|---|---|---|---|---|
| Blackboard storage | `storage.py`, `blackboard.py`, `schema.sql` | rows of task, entries, artifacts, questions, messages, writeups; advisory and row locks | publish, answer_question, append_dialogue, create_question, register_artifact, delete_task | clients through a pool of connections |
| Readers | `blackboard.py` sync, `app.py` dialogue_stream | the number each reader reads after | sync, one page of the stream | storage, without a transaction |
| Task lifecycle | `coordinator.py`, `app.py` | `task_runs.state`, containers | create_and_start, stop_task, delete_task, answers | storage, Docker, gateway, automation |
| Supervisor | `host_agents.py` | jobs, `_SupervisorPending`, last number handled | changed, cancel, `_supervise`, `_advise` | blackboard, dialogue, model |
| Reporter | `host_agents.py` | `_reporter_jobs`, snapshot, `writeup.md` | `_report` | storage, model, coordinator |
| Gateway | `gateway.py`, `protocol.py` | connection per agent, pending requests | attach, request, notify, broadcast, disconnect_task | workers' WebSockets |
| Agent records | `coordinator.py`, `storage.py` | `agent_runs` | handle_agent_event, pause, resume, set_agent_model, update_agent | gateway, dialogue |
| Worker runtime | `workers/runtime.py` | prompt queue, wake flag and number, pause, stop, current cycle | `_receive`, `_work`, `run` | gateway, SDK adapter |
| SDK adapters | `workers/openai_worker.py`, `claude_worker.py` | model | run_cycle, set_model | SDKs |
| MCP server | `mcp_server.py` | none | sync, publish, artifact_register | blackboard |
| Container runtime | `docker_runtime.py` | containers | launch, stop | Docker |
| Configuration, skills, discovery | `config.py`, `skills.py`, `model_discovery.py` | files, config lock | apply_bundle, apply_document, write_package, discover | files, providers |
| In-memory storage | `storage.py` | the same rows, in dictionaries | the same | tests |
| Web console | `apps/web/src` | polled tasks and dialogue | polling, controls | HTTP, SSE |
| Command line, deployment | `cli.py`, `src/部署手册` | none | start-up | |

What is hard, and what must hold:

* **Storage**: several transactions per task at once, retries with idempotency
  keys, lost connections, two lock orders. Numbers must have no gap and no
  duplicate, a retry must not write twice, what an entry rests on must exist, a
  question must be answered once, every call must end.
* **Readers**: bounded pages read while transactions commit; nobody may miss or
  repeat an entry.
* **Worker runtime**: two coroutines that share a queue and three flags; no
  announced change may be lost, a pause must hold, a stopped session must end.
* **Task lifecycle and Reporter**: every coroutine writes the task's state
  blindly. Containers must be reclaimed, a report must rest on one snapshot, a
  conclusion must lead somewhere.
* **Supervisor**: debouncing with timers, a change that arrives during a
  consultation, cancellation. No change may be forgotten.
* **Gateway and agent records**: replaced connections, late replies, whole-row
  read-modify-write. An update must not be lost, a live worker must not be
  reported as gone, a command must end.
* **Configuration**: several files replaced one after the other, and a discovery
  that waits for a provider without the lock. A failed save must leave what was
  there; an old answer must not be saved over a newer configuration.
* **In-memory storage**: the tests run on it; its answers must be PostgreSQL's.

`PROJECT.json` lists every hazard with its line.

## 2. Modules

| module | role |
|---|---|
| `SharedLog` | abstract: an atomic append-only log; what the agents may rely on |
| `Blackboard` | the PostgreSQL transactions of one task, statement by statement; implements `SharedLog` |
| `BlackboardProofs` | the theorems about `Blackboard` |
| `MemoryStorage` | `InMemoryStorage`: a call as a function of what is stored |
| `StorageAgreement` | composes `Blackboard` with `MemoryStorage`: the same call, the same outcome |
| `StorageAgreementProofs` | the theorem about `StorageAgreement` |
| `BlackboardReaders` | composes `Blackboard` with agents that sync and a browser that streams |
| `BlackboardReadersProofs` | the theorems about `BlackboardReaders` |
| `WorkerSession` | the worker runtime |
| `WorkerSessionProofs` | the theorems about `WorkerSession` |
| `TaskLifecycle` | creation, stop, delete, report and questions of one task |
| `TaskLifecycleProofs` | the theorems about `TaskLifecycle` |
| `Supervisor` | the Supervisor's job, its timers and its consultations |
| `SupervisorProofs` | the theorems about `Supervisor` |
| `AgentControl` | one worker as the control plane sees it: connections, requests, events, its row in `agent_runs` |
| `AgentControlProofs` | the theorems about `AgentControl` |
| `Settings` | the documents below `config/`, their live copies, saves and discoveries |
| `SettingsProofs` | the theorems about `Settings` |
| `MC*` | requests, model values and symmetry for TLC |

### Blackboard

A client is a session of the connection pool; `pc` is the next statement of the
transaction it runs and `req` the call it serves. One action is one statement:
`LockQuestion` is `SELECT ... FOR UPDATE`, `LockTask` is `_lock`
(`pg_advisory_xact_lock`), `CheckPublish` and `CheckAnswer` the lookups and the
branches on them, `Allocate` the `UPDATE task_runs ... RETURNING` (or the
`DELETE`), which takes the row lock, and the `Write*` actions the INSERTs and
COMMIT. The INSERTs are one step with COMMIT because no other transaction sees
them before and the locks of the step before are still held; an INSERT that
violates a UNIQUE constraint is `WriteConflict`. `Abort` is a lost connection, a
cancelled request or a crash, at any statement. `DeadlockVictim` is PostgreSQL
breaking the cycle that `answer_question` (question, then task) and `delete_task`
(task, then by cascade questions) can close. Other transactions see committed
rows only, since `entries`, `messages` and the counters change at COMMIT.

An entry carries the call that wrote it; its UUID is identified with its number.
The text of bodies is not modelled.

`SharedLog` has four steps: register evidence, append, answer, drop. The
refinement maps the committed rows to the log, and every statement but the last
of a transaction to a stutter.

### MemoryStorage and StorageAgreement

`InMemoryStorage` calls itself a "behavioural reference used by tests"; nearly all
tests run on it. Its methods await nothing, so each is a function
(`Publish`, `Answer`, `AppendDialogue`, `DeleteTask`, ...) from a store to a store and a
reply. `Stored` maps the committed rows of `Blackboard` to such a store.
`AgreesWithMemory` says that the statement that ends a transaction does what the
function does at that moment, refusals included; calls cut off by `Abort` and by
the deadlock detector, which memory does not have, are not steps of `Step`. Two kinds
of `answer_question` end otherwise, and the property says how instead of leaving them
out: a `SecondAnswer` to a question leaves the rows as in memory, but its caller gets
what its own key was used for, or an error (`GetsOwnKey`); an answer under a `KeyTaken`
is refused and stores nothing. Both occur in the run (section 6).

### BlackboardReaders

A reader reads the counter (`SyncTask`) and then a page (`SyncEntries`), with
anything in between; the stream (`StreamPoll`) is one round of the SSE loop, and `Ordered`
the ORDER BY of its page.
`PageSize` stands for the limits of 500 and 200.

### WorkerSession

`rpc` is where `_receive` waits, `wpc` where `_work` waits; a step is what happens
between two awaits. A prompt is the `latest_seq` it names, 0 for the prompts
that name none. `Close` is the lost socket; sends raise after it and what was
buffered can still be read. `CancelWork` follows asyncio: the cancel goes to what
`_work` awaits, so inside its try block it is taken for a cancelled cycle.
History variables: `announced`, `handled`, `late`.

### TaskLifecycle

One control point per coroutine: `creator` (create_and_start), `handler[h]` (a
stop or delete request), `job` (the report), `asker[q]` and `answers` (questions),
`noticed` and `passed` (calls of `Automation.changed`). A step is one statement on
the task row, one call of Docker, or what happens between two awaits. Agent rows
are abstracted to "inserted", entries to their number. `LastRead` is the read of the
report, which stops at a limit (`scope.limit`, 10 000 in the code). `StopContainers` lets Docker
fail for any container (`refused` remembers which), as the code swallows the error.

### Supervisor

`told` and `checked` are calls of `Automation.changed` before and after their state
check, `rec` the `_SupervisorPending` records (a record outlives its place in
`registry` while a job holds it), `job` where `_supervise` or `_advise` waits. Instants
are kept as the ticks left until what they lead to: `quiet` until the debounce is
over, `intel` until the batch limit, `timer` until the `wait_for` ends, and `age` counts
from the writing of advice. `Tick` passes only when the event loop has nothing due;
calls of the database and the model may take any number of ticks. `WAITING_USER`,
`FINALIZING` and `REPORTING` are "other": the code tells them apart from RUNNING and from the
final states only. What the model answers is a choice, and so is whether advice
resembles earlier advice. History variables: `lost`, `over`, `shown`.

### AgentControl

A process is a request about the agent (of the user, or `_report` stopping the
workers) or the receive loop of one connection. What it still has to await is `prog`,
a sequence taken from `Script`: "get" and "put" are the two statements of
`update_agent`, which carries the row it has read in `held`. `Attach`, `CloseOld`,
`Receive` and `End` are `AgentGateway.attach`, in the order of its awaits; `pending`
and `counter` belong to a connection, as in `AgentConnection`. A socket is open,
lost (the worker or the network ended it) or closed (the gateway did); sends on a
lost one raise or vanish, and what was sent before can still be received.
`Serve` is the worker carrying out, or refusing, the next message. Inside the
worker, `WorkerSession` takes over. Sends of answers to the worker's own
notifications do not occur (it sends no ids). History variables: `sent`, `served`.

### Settings

`file` is what is on disk and `live` what `TGA3Config` holds. A save is `Begin`
(validation), one `Replace` per document, `Finish`; `Fail` is an exception at any of
them, `Restore` the rollback, `RestoreFails` an exception inside it. Saves hold
`config_lock` and await nothing, so `Free` keeps other requests out, and only
`Crash` comes between. `Discover` remembers the endpoint that was asked and
`DiscoverAnswers` merges a list of names into the configuration that is live by
then. A user may save any document, valid or not. History variable: `torn`.

## 3. Runs

| run | instance | shows |
|---|---|---|
| `blackboard` | 2 sessions, 2 workers, 2 keys, 1 artifact, 1 question, 10 calls, fairness | types, numbering, idempotency, grounded entries, one qa entry per question, no late failure, acknowledged writes, append-only, the outcome of `InMemoryStorage` or the stated other end of an answer, every call ends, implements `SharedLog` |
| `blackboard_readers` | 2 sessions, 1 reader and the stream, pages of 2, 3 entries and 2 messages | nothing is missed, a short page reaches `latest_seq`, the stream is in order and catches up |
| `worker_session` | 5 messages, 2 announced numbers | wake flag and marker agree, no change is lost, a pause holds, a change reaches a cycle, the session ends |
| `task` | 2 workers, 1 stop or delete and 5 entries; or 1 worker and 5 entries, of which the report reads 4; or 1 worker, 2 stops or deletes, 2 questions and 3 entries | the report rests on its snapshot, up to the limit of its read, COMPLETED can be downloaded, containers are reclaimed although questions overwrite the state, a conclusion leads to a report or a shown failure |
| `supervisor` | 4 entries (intel, findings, advice), ticks 1 / 2 / 1 / 2 for debounce, batch limit, silence and interval | types, no change is forgotten, nothing due waits, advice on intel is spaced |
| `supervisor_stops` | 2 entries, 1 question, 1 stop, fairness | every change reaches the model, no Supervisor outlives its task |
| `agent_control` | 6 pairs of commands, 2 connections at most | a live worker is the one in use, a recorded pause or model was carried out, every command ends |
| `settings` | 2 providers (1 built in), 2 agents (1 worker), 2 endpoints, 2 lists of models, 1 discovery at a time | the live configuration validates, a save is whole or changes nothing, a discovery touches only what it asked for |
| `supervisor_unread` | violation | see section 6 |
| `worker_pause_shown` | violation | see section 6 |
| `task_delete_leak` | violation | see section 6 |
| `task_question_hidden` | violation | see section 6 |

Why the bounds are enough. The locks and the two lock orders are pairwise: two
sessions close every cycle and every race of lookup and insert, and the proofs
remove the bound. Calls and questions run in
one instance, so an answer meets a publish under the same key, a delete and a
retry of itself. Keys and calls include one retry, one reuse of a key by another
writer, one by another kind, and one citation of an entry that is no finding.
A page of 2 with 3 entries is cut, and a second page is short. In the worker, 5
messages allow a pause, a resume and a stop around two changes. In the lifecycle
a behaviour starts in one of three scopes (variable `scope`), so that three
combinations share one run. 5 entries are the two prompts, a finding, a conclusion and a second conclusion
or a late entry, so a second report after a cancelled one and entries after the
snapshot occur; with a limit of 4 the fifth, which may be the conclusion, is beyond
what the report reads; 3 entries are enough where reports do not matter. For the Supervisor 4 entries are the
least that hold advice, a finding after it and a second piece of advice (its job
starts with a change, so the first entry is never advice); the durations keep
debounce < batch limit and silence < interval, so every timer can end before every
other. 2 calls of `changed` at a time are enough to overtake each other. Questions and
stops of the Supervisor are in the run with 2 entries, one change before and one during a
consultation.

Commands on an agent are pairwise too: what they share is one row, one
dictionary of connections and the ids of one connection, and the six pairs are
those whose steps meet there (two requests on one connection; a connection
replaced under a request; a stop with everything that writes the row). One report
of the worker per connection, beside its hello, is enough to overlap each
write. In `Settings` any number of saves may fall between the question and the answer of
a discovery; two discoveries differ from a discovery and a save only in what
`DiscoveryIsCurrent` already covers, the merge into what is live.

Deadlock is not checked where the modelled system stops: a worker that has ended
(`WorkerSession`), a Supervisor whose task is over (`Supervisor`), a task that is finished with nobody left to act
(`TaskLifecycle`), commands that have ended and connections that are over
(`AgentControl`), a control plane that does not start on files that do not validate
(`Settings`). In `Blackboard` it is checked.

### Fairness

* `Blackboard`: strong fairness of each client's steps, weak fairness of the
  deadlock detector. PostgreSQL queues lock requests, so a waiting statement is
  not overtaken for ever, and checks waits for cycles. Nothing makes a client
  call, and no abort is fair.
* `BlackboardReaders`: weak fairness of the stream's loop, which polls as long as
  the browser is connected.
* `WorkerSession`: weak fairness of both coroutines and of the end of a cycle (SDK
  turns and tool calls are limited). No message is assumed to arrive.
* `TaskLifecycle`: weak fairness of the creator, the report job, each started
  handler and the follow-ups; their awaits end or fail within the clients' time
  limits. Nobody has to publish, ask, answer, stop or delete.
* `Supervisor`: weak fairness of the job, of each call of `changed`, of a stop that has
  begun, and of time. The event loop runs what is ready; the database and the model
  answer or fail within their clients' limits.

* `AgentControl`: weak fairness of each command, which is that the database and Docker
  answer and that the timer of `wait_for` runs out. Neither the worker nor its
  connection has to do anything.
* `Settings`: none. Saves await nothing; there is no promise that one succeeds.

## 4. Proofs

`BlackboardProofs` proves, for every set of clients, workers, keys, artifacts,
questions and calls, with `BlackboardAssumption` alone: `TypeCorrect`,
`SequencesAreGapless`, `KeysAreUnique`, `EntriesAreGrounded`, `QuestionsAnsweredOnce`,
`PublishNeverFailsLate`, `AcknowledgedWritesStand`, `LogIsAppendOnly` and
`TransactionsImplementLog`.

The invariants are not inductive. `IInv` adds why they hold: `LockDiscipline`
(who holds which lock at which statement; it gives mutual exclusion between
lookup and COMMIT), `StatementsOfCall`, `QuestionReadStands` (what FOR UPDATE
read is still so), `AllocationStands` (the number a client holds is the next
one), `LookupStands` (what publish looked up still holds) and
`DeletedLeavesNothing`. `InvariantHolds` proves it inductive, one step per action;
`LookupStands` and `AllocationStands` at a write give the properties of the new
entry. The refinement is one lemma per action: writes map to `Append` or `Answer`,
`CascadeDelete` to `Drop`, the rest stutters.

`StorageAgreementProofs` proves `TransactionsAgreeWithMemory`, for every set of clients, keys,
artifacts and questions, from the same invariant. There is one lemma per statement that
ends a transaction: it says what the call is in memory (`WrittenIsExisting`,
`ValidIsChecked`, `TheAnswer`) and compares the store field by field. The invariant is
needed on both sides of a step: `LookupStands` and `QuestionReadStands` carry what was looked
to the COMMIT, `OneEntryPerKey` and `AnsweredOnce` make the entry a retry gets the only
one there is, and `AnsweredOnce` after the step keeps the earlier answers the same.
The two answers that end otherwise have lemmas of their own (`SecondAnswerGetsOwnKey`,
`TakenKeyIsRefused`), so the theorem covers every call, whatever its key.

`BlackboardReadersProofs` proves `ReadersTypeCorrect`, `NothingMissed`, `ShortPageIsAll` and
`StreamKeepsOrder` for any readers and any page size (`ReadersAssumption`: not 0).
`ReadersAreBlackboard` shows that readers leave the storage alone, so that every theorem
about `Blackboard` holds with them. `ReaderInv` says that as long as the task is there a
cursor is never ahead of the counter and everything up to it was given. Because
`GaplessSequences` is committed at every moment, a page is an interval (`PageIsInterval`) and
the counter only grows (`CountersGrow`); this is where a reader would miss what commits out
of order. A message's place in the stream is its number (`OrderedInterval`).

`WorkerSessionProofs` proves `TypeCorrect`, `OneMarker`, `NoChangeLost` and `OneCycleAtMost` for any
number of messages and changes (`WorkerAssumption`). `OneWakeQueued` counts markers;
`MarkerInv` says instead where the only one is. `ChangeNotLost` holds of the largest
announced number, and is not inductive while a cycle is finishing: `HandledInv` adds that a
cycle that ran to its end has handled its prompt, and `CarriedInv` says that a number at
least as large is on its way. `CheckpointInv` says which statements a worker with
one cycle begun after its pause can be at.

`TaskLifecycleProofs` proves `TypeCorrect`, `ReportRestsOnSnapshot`, `CompletedHasReport` and
`ContainersReclaimed` for any workers, requests, questions and entries
(`LifecycleAssumption`). `ReportInv` follows the report: from each of its statements on,
the snapshot, the body, the file and the row agree, the body and the file up to the
limit of the read, which may be any number, and as long as a report is being
written the task does not say COMPLETED, whatever else writes its state.
`ReclaimInv` follows the requests: one that has read the agents stops all of them,
and past that only containers Docker refused are left. It holds as long as no stop
overlapped the creation (`raced`); section 6 shows what happens otherwise.

`SupervisorProofs` proves `TypeCorrect`, `NothingForgotten`, `NothingDueWaits` and
`AdviceKeepsDistance` for any number of entries and any durations
(`SupervisorAssumption`). `HandoverInv` says that, as long as nothing was stopped, the record the
job holds is the one `changed` finds, and that what counts as handled is not ahead of what
the consultation read; with it no step can drop a change between the two. `SpacingInv`
says that what the consultation decided on still justifies the advice when it is
published. `AdviceKeepsDistance` assumes that the entries fit the page `_advise` reads: beyond
it there may be advice that was not read, and the run `supervisor_unread` shows a
consequence of that.

`AgentControlProofs` proves `LiveStaysReachable`, `RecordsWereServed` and `TypeCorrect` for every
number of connections, requests and messages, from `AgentControlAssumption` (the statuses a
worker reports, and names that are distinct). For the first the invariant is `ConnectionInv`:
`LiveIsReachable` and `Registered`, which says that connections are opened in order and
that only one that was opened has an open socket; without it a step of an older connection
could meet a live newer one that has not been registered. A connection that
`disconnect_task` has removed and not yet closed (`detached`) is the one exception. `RecordedWasServed` rests on
`ControlInv`, which follows a request from the row to the worker and back: `WireInv` (a message
or an answer on a connection carries an id whose pending request is of the same
command, and a positive answer is to one that was carried out), `Waiting` (only what
waits for its answer is pending, once), `ProgInv` (what a handler still has to do records a pause or a
model only of its own request, after the answer) and `RowInv` (neither the row nor
any row that was read and is to be written back records one that was not carried out).

`SettingsProofs` proves `LiveValidates`, `SavesAreWhole`, `DiscoveriesAreCurrent` and
`TypeCorrect`, from `SettingsAssumption` (no provider has the endpoint "none", lists of models and
answers are sequences, an answer lists a model). `SavedOrUntouched` speaks of what is there
when a save is over, so `SettingsInv` says what is there while it runs: `Planned` (what is to
be saved validates, and a save made by a discovery changes what the discovery may), and
`Progress` (what is in `done` is replaced on disk, every document that differs is in
`todo` or `done`, the originals are the live documents, and what is not in `done` is
still as in memory unless something was torn). At the last replacement `todo` is empty, so
all that differs is replaced; at the last restoration `done` is empty, so nothing is.
`TypeInv` adds the types of what a save holds and of what was asked: an answer is merged only
into a provider that is still there, and an agent it rebinds gets an id that is
listed.

Every inductive invariant was also checked by TLC, on the instance of its run. With these
theorems every invariant and every action property of section 3 holds for all values of
the constants the assumptions admit (`AdviceSpaced` for those with `MaxEntries` up to
`PageSize`).

Only model-checked: the liveness properties (`CallsEnd`, `StreamCatchesUp`,
`ChangeReachesCycle`, `SessionEnds`, `ConclusionIsReported`, `ChangeIsReviewed`, `JobsEnd`,
`CommandsEnd`). They need fairness and ENABLED, which the prover does not treat.

## 5. Plan

In this order, most important behaviour first; all but the last are done.

1. `SharedLog`, `Blackboard`, `BlackboardProofs`.
2. `BlackboardReaders`.
3. `WorkerSession`.
4. `TaskLifecycle`.
5. `Supervisor`.
6. `AgentControl`: connections replaced while their handlers run, requests with
   timeouts, read-modify-write of agent rows.
7. `Settings`: saves with failures at each replacement, and discoveries.
8. `MemoryStorage` and `StorageAgreement`.
9. Proofs: every safety property of the runs (done).
10. Left: the step lemmas under the liveness properties (that a step a fairness condition
    names brings its goal nearer), and `AgreesWithMemory` for writeups and agent rows.

## 6. Where code and documentation disagree

* `worker_pause_shown`: `_work` reports "running" (or "idle") after a pause that
  was served between its checkpoint and that message, so the pending-items page
  does not list the paused worker.
* `task_delete_leak`: deleting a task while a container is being launched leaves
  that container; the cleanup of create_and_start begins with an update of the
  deleted row, which raises.
* `task_question_hidden`: `attention` lists questions of waiting tasks only, and
  blind writes of RUNNING hide a question that still waits.

* `supervisor_unread`: `_advise` reads the first 500 entries from the start and then
  takes `latest_seq` for reviewed; what comes after entry 500 is never given to the
  model.

Met while modelling, without a run of their own:

* `update_agent` reads a row and writes all of it. An event of the worker that
  overlaps a stop can write "running" back over "stopping", and the disconnect is
  then recorded as FAILED; `tests/test_coordinator.py:66-89` expects that a stop never
  is. `RecordedWasServed` states what does hold.
* `apply_bundle` promises to "atomically replace all config documents"
  (`config.py:397`). A crash between two replacements leaves a mixture, which may not
  even validate at the next start; `SavedOrUntouched` excepts it by name.
* Two users who answer one question get different ends from the two storages. The
  second answer comes under a key of its own (`AnswerRequest` makes a fresh one,
  `app.py:40`), and PostgreSQL looks for that key, finds nothing and raises
  `ConflictError` (`storage.py:724-734`); `InMemoryStorage` returns the first answer's
  entry (`storage.py:310-311`). A test of two answers that runs in memory passes where
  production answers with an error. Neither stores a second answer. If the key of the
  second answer was used for something else, PostgreSQL returns that entry.
* An answer to a waiting question under a key the Supervisor has used for something
  else is refused by PostgreSQL (the INSERT fails) and accepted by `InMemoryStorage`.
  `AgreesWithMemory` states both ends.
* The report reads the oldest 10 000 entries up to its snapshot (`host_agents.py:475`).
  On a longer blackboard it misses the latest ones, the conclusion that started it
  possibly among them, and the task says COMPLETED all the same: the shape of
  `supervisor_unread`, at another limit. `ReportIsFixed` says that nothing else is
  missing, and `CompletedIsReported` that the file ends there.
* The end of a connection that was the current one awaits two statements before it
  records STOPPED or FAILED; the worker may connect again meanwhile, and its hello is
  then overwritten. `LiveIsReachable` is about the connection in use, not about the row.
* When the close of a replaced connection raises (`gateway.py:70`, before the try
  block), the new connection ends too and stays registered without a receive loop, until
  the worker connects again; requests to it fail or time out.
* A discovery can give two models one id (an id that is kept for its name, and a
  new name equal to that id); the first in the list then serves both.
* `get_task` resolves the model of each agent row in the live configuration, and
  raises for a task whose model a discovery has removed.
* `ensure_directories` runs after the live copies are set: when it raises, the request
  fails although the document is saved, and the skills root is not moved.

## 7. Not modelled

* Skills catalogue: packages of files, changed by synchronous methods that never
  interleave; no state in memory but the root.
* Web console: it polls, renders and keeps nothing the control plane relies on.
* Input files: a row and an entry written once under a fresh id.
* Inside `AgentControl`: `container_id`, `session_id`, `last_error` (shown, never
  decided on), heartbeats, and events that only append messages. A delete of a task
  that still runs is its stop followed by its delete.
* Inside `Settings`: which URL of a provider answers, paging, keys and profiles.
* Authentication, HTTP validation, file contents, prompts, model answers.
* Restart of the control plane: its jobs are in memory and nothing restarts them,
  so a restart is the end of every coroutine; it is listed as a hazard.
* Failures of the database inside a consultation of the Supervisor, other than of
  the model call: they end the job or the consultation as the modelled failures do.
* Scene prompts and conclusions in `Supervisor`: `changed` turns them away before it
  reaches the record; conclusions are in `TaskLifecycle`.
* Command line and deployment scripts: start-up only.
