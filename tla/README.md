# Cobalt Wren: a TLA+ verification project

Cobalt Wren runs automation workflows. A Django control plane keeps `Run` rows, accepts the
operations on them (start, resume, retry, cancel), executes the workflow either in the web
process or in worker processes fed by a job table, and records what happened. Workflows keep
their state in checkpoint stores and their results in artifact stores, and report to an event
sink. This directory models those parts in TLA+, checks the models with TLC and proves what
matters most with TLAPS. Paths below are relative to the repository; `cw/` stands for
`src/cobalt_wren/`.

## 1. Inventory of the system

| Component | Code | State | Operations | What is hard | What makes it correct |
|---|---|---|---|---|---|
| Checkpoint contract, memory store | `cw/integrations/checkpoint/base.py`, `memory_store.py` | per stream: records by id, ids by revision, head | save, load_latest, load_checkpoint, list_for_run | retries, stale parents | a stream is an append-only linear history of immutable versions; a repeated save is a success |
| Filesystem checkpoint store | `filesystem_store.py` | bodies by digest; two indexes of hard links; `head.json`; `pending.json`; a thread lock and an flock | the same, each preceded by a recovery | a crash or error between any two system calls, repairs interrupted in turn, several processes | same, plus: nothing returned is lost, own leftovers are never taken for corruption |
| PostgreSQL checkpoint store | `postgres_store.py` | one row per version, two unique keys | the same, one transaction each | READ COMMITTED, racing inserts | same history; conflicts reported as such |
| Run lifecycle | `cw/apps/automation/services/runs.py`, `execution.py`, `execution_result.py`, `policies/runs.py` | `Run.status` | start, resume, retry, cancel | the workflow runs between two transactions with no lock held | at most one execution of a run; a result is not overwritten; nobody leaves a run running |
| Execution control | `services/execution_control.py` | a token per run in each process | begin, request_cancellation, finish | process-local registry, keyed by run and not by execution | a cancellation reaches the execution |
| Execution jobs, worker | `services/jobs.py`, `dispatch.py`, `models/job.py`, `cw/cli/main.py` | `ExecutionJob.status`, heartbeat | enqueue, recover_stale, claim, execute, save | at-least-once execution, a stale check without heartbeats, late saves | one active job per run; an operation performed once; every job ends |
| Native workflow runtime | `cw/native/` | per execution: occurrences, buffered observations, deadline | step, retry, replay, execute | timeouts of threads that run on, retries, parallel steps, cancellation | an observation sequence that is well formed whatever fails |
| Deployment engine owner | `services/runtime.py`, `cw/api/engine.py` | engine, generation, signature, two locks | get_engine, prepare, reconfigure | lazy creation racing reconfiguration | a generation names one engine; a failed build changes nothing |
| Artifact stores and emission | `cw/integrations/artifact/`, `native/helpers.py` | immutable manifests and bodies; objects of a bucket; a dict | write, put, get, list_for_run | racing puts, partial publication, resent and late requests, threads on one dict | content under a key never changes; same content converges; what is shown is stored |
| Event sink | `cw/integrations/observability/` | rows of `RunEvent`, `ExecutionSpan`; the run they touch | one transaction per event or span | reads the run without a lock and saves it after its status has changed; suppressed failures | an event never brings an old status back |
| Live run view | `ui/run_live.py`, `cw/apps/web/views/run_live.py`, `live-run.js` | a revision per connection; the page, its event source and its timer | stream, fetch, fall back | separate queries, lost connections, two sources of fragments | the page does not go back, shows a whole end, and catches up |
| Workflow providers | `cw/integrations/workflows/` | spans and buffers of one execution | execute, resume, replay | parallel tasks and workers, reports that fail, pauses | spans are settled; a unit that reported a failure last is shown as failed |
| Integration projections and actions | `cw/apps/automation/services/integration_projections.py`, `ui/integration_actions.py`, `ui/builders.py` | snapshots, action records | publish, choose the current one, answer | records of one moment, forms that go out of date | a pause is answered once |
| Sample workflows | `packages/saga_workflow`, `packages/human_approval_workflow` | versions in a checkpoint store, one artifact in an artifact store | execute, resume | two stores written one after the other; memory stores that go with their engine | one outcome in each store, and in the result; a decision about what was shown |
| Plugins, validator, assembly | `cw/plugins/registry.py`, `cw/config/validator.py`, `cw/runtime/assembly.py` | registrations while an engine is created | register, discover, validate, assemble | order and conflicts of contributions | no engine of a configuration that does not hold |
| Normalisation, UI builders, redaction, LLM and tool clients, scaffold | see `PROJECT.json` | none that outlives a call | pure translations, presentation | - | - |

How they interact: the web views and the worker call the run lifecycle; the lifecycle locks the
run row in two transactions and, between them, has the engine owner prepare the workflow,
registers a token with execution control and runs the workflow; the workflow calls the native
runtime or a provider, which write checkpoints and artifacts and emit events; the worker and the
web processes share nothing but the database and the stores.

## 2. Plan

Order: what can lose or corrupt a user's work first.

1. `CheckpointStream` (abstract) and `FsCheckpointStore` (detailed, refines it), proofs in
   `FsCheckpointStoreProofs`. *Done.*
2. `RunLifecycle` with the tokens of every process, proofs in `RunLifecycleProofs`. *Done.*
3. `ExecutionJobs`, composed with `RunLifecycle` by INSTANCE and refining it. *Done.*
4. `NativeExecution`: one execution of the native runtime with its steps, attempts, timeouts and
   buffered observations. *Done; of the helpers only artifacts (5) and calls (6).*
5. The artifact stores: an abstract store of write-once objects, and the memory, the filesystem
   and the S3 store that implement it. *Done.*
6. The event sink (`RunRecords`) and the live view over it (`LiveRun`). *Done.*
7. The workflow providers with pause, resume and their projections (`IntegratedRuns`). *Done.*
8. `PgCheckpointStore`, the second refinement of `CheckpointStream`. *Done.*
9. The engine owner with the construction of engines, composed with 8 and with two workflow
   packages that pause (`Deployment`). *Done.*
10. Theorems about every component: `ExecutionJobsProofs`, `NativeExecutionProofs`,
    `ArtifactStoresProofs`, `LiveRunProofs`, `IntegratedRunsProofs`, `DeploymentProofs`. *Done:
    every invariant, action property and refinement that a run checks is a theorem.*

What composes what: `ExecutionJobs` takes `RunLifecycle` by INSTANCE. `ArtifactStores` extends
the three stores over `ArtifactCalls`, `LiveRun` extends `RunRecords`, `IntegratedRuns` extends
`LangGraphTasks` and `LlamaIndexSteps` over `ProviderRecords`, `Deployment` extends
`PgCheckpointStore`, `EngineOwner` (over `EngineConstruction`) and `DurableWorkflows`.
`CheckpointStream` and `ArtifactStore` are the abstract specifications; `RunLifecycle` is one
for `ExecutionJobs`.

## 3. The modules and the code

### CheckpointStream

The promise of a checkpoint store about one stream `(run_id, checkpoint_namespace)`. `chain` is
the set of committed versions, `tip` the newest. `Commit(r)` is `save` of a new identity whose
parent is the tip; every other answer, conflict or read returns committed versions (`Return`) or
nothing. It is `MemoryCheckpointStore`, whose operations are one critical section each.

### FsCheckpointStore

One stream directory. Every system call that another process or a restart can observe is an
action:

| Variable | Code |
|---|---|
| `body` | files under `bodies/sha256` |
| `byId`, `byRev` | hard links under `records/by-id`, `records/by-revision` |
| `head`, `pending` | `head.json`, `pending.json` |
| `lock` | the RLock and the flock of `_locked_stream`, held together |
| `pc`, `op`, `file` | a thread's place, operation and local record |
| `result`, `returned`, `faults` | its last outcome; history of answers; bound of the faults |

`Begin` takes the lock, `Inspect`, `Relink`, `WriteHead`, `UnlinkPending` and `Validate` are
`_recover_stream`, `SaveDecide` to `SaveReply` are `save`, `Read` the three reads, `Interrupt` a
system error or the death of the process between any two of them, `PublishElsewhere` the body of
a save of another stream. A file name is a function of the file's content, digests are collision
free, so an index is a set of files and "the two links are one file" is membership. `Large`
holds the requests whose record exceeds `_MAX_JSON_BYTES`: such a file is written and not read.

Left out: path safety, permissions, and the loss of unsynced data on power failure, which
`docs/contracts/integrations/CHECKPOINT_STORE.md` disclaims.

### RunLifecycle

`Accept` is the first transaction of start, resume and retry; `Prepare`, `BuildFailure` the
preparation of the workflow; `BeginControl`, `Invoke`, `FinishControl` the dispatch with its
token; `Complete` the second transaction, which writes the result whatever the status is by
then; `Cancel` and `CancelRolledBack` `cancel_run` in the process that serves it; `Raise` an
unexpected error; `Crash` the death of a process. `active` is `_active[run]` of every process.
`overlapped` and `interfered` are history variables for the properties.

### ExecutionJobs

The job rows of one run and the loop of every worker (`RecoverStale`, `Claim`, `Execute`,
`Perform`, `Save`), composed with `RunLifecycle`: the thread of a worker is the thread of the
lifecycle. `heartbeat_job` has no caller, so any claimed job may be taken for stale.

`Cancel` is `dispatch_cancel` in a web process, which has no token of a worker's execution. The
variable `hasty` remembers that a job was put back while its worker was alive.

### NativeExecution

One call of `NativeExecutable.execute`. The author's coroutine is free: it makes each call of
`ctx.step` once, in any order and several side by side, gives calls up (`Abandon`) and ends when
it likes (`End`).

| Variable | Code |
|---|---|
| `cancelled`, `expired` | what `WorkflowExecutionControl.check` finds |
| `turn` | the call that runs on the event loop between two awaits |
| `subjects` | `_subjects` |
| `stage`, `attempt`, `outcome` | the locals of each call of `step` |
| `running`, `late` | function calls in progress, and those of them nobody awaits any more |
| `buffer`, `replayed` | `_observations.operations` and the position of `replay` |
| `open`, `shown` | what the event sink has: open spans, the last snapshot of each step |
| `heard`, `faults` | history: a check has raised; failures of the sink |

`Enter` is the head of `step`, `Attempt` the head of its retry loop, `Invoke` the call of the
function with the effective timeout, `FunctionEnds` and `TimeOut` the two ends of the wait,
`Resume` everything between the wait and the next await or return, `Delay` `_retry_delay`,
`End`, `Drain` and `Return` what `asyncio.run` and `execute` do, `Replay` one operation of the
buffer. An asynchronous function that is given up is cancelled with its coroutine; a synchronous
one runs on in its thread. `Abandoned` calls end by `CancelledError`, which is not an
`Exception`, so `step` records nothing of them.

Left out: validation of names and timeouts, summaries, progress, metrics and artifacts, an
executor so full that a thread never starts, and functions that suppress their cancellation.

### ArtifactStore, ArtifactCalls, MemoryArtifacts, FilesystemArtifacts, S3Artifacts, ArtifactStores

`ArtifactStore` is the promise of the protocol in `base.py`: a write that was asked for takes
effect once (`Takes`), also when its caller was told of a failure, and the answers are those of
the store at some moment of the call (`Permitted`). `durable` is false of the memory store, whose
docstring keeps it to one process and which does not exclude its threads from each other.

`ArtifactCalls` has the callers: `Write` is `ctx.artifact.write`, with the key that
`build_artifact_identity` derives from the run and the stem of the name, `Created` the event that
follows and may fail, `Open` and `List` the readers, `Dies` and `Fails` the faults. Each store has
one action per access that another caller can observe:

| Store | State | Actions |
|---|---|---|
| memory | `items` is `_items` | look, insert; a listing that meets an insertion raises |
| filesystem | `bodies`, `manifests` are the hard links | publish the body, publish the manifest, load the manifest that was there first, read |
| S3 | `bucket`, `inflight` | look, conditional request, response lost and request sent again, late arrival |

Contents are known by run, name, body and canonical metadata. Temporary files, digests (collision
free), paging and tampering are left out. The precondition of S3 requests (a request with
`If-None-Match` creates the object or fails) is an assumption on the service.

### RunRecords, LiveRun

`RunRecords` has the rows of one run at the grain of transactions: `Transition` is
`_transition_run` of `services/runs.py`. An operation of `DjangoEventSink` is two steps: `Get`
reads the row of the run without a lock (`read` is what each thread has read), and `Report`
commits a change of spans or events and saves the row that was read (`Saved`, with the columns of
`update_fields`), or rolls back and is suppressed. Between the two any other thread may write the
row. Three threads report: the execution, a helper thread that may end its span late, and the
request that cancels; `Actor` says which of them an instance has, and `Outcome` how
its workflow may end. Commits are numbered, so a row
is known by the commit that touched it last.

`LiveRun` adds the queries of `build_run_live_spec` (`Queried`, then `Snapshot`), the loop of the
stream (`Accepted`, `Poll`, `Answer`) and `live-run.js`: `Deliver`, `ConnectionLost` with the
timer, `FetchFragment`, `AnswerFetch`, `ShowFetched`. `due` and `reported` are history: what the
execution had reported when its end was written.

### ProviderRecords, LangGraphTasks, LlamaIndexSteps, IntegratedRuns

`ProviderRecords` has the spans and the snapshots both providers write, with reports that fail,
and `current`, the choice of `_build_current_state`. `LangGraphTasks` reports while the
debug stream runs (`open` is `spans`, `interrupted` is `interrupts`): the parts come in any order,
also after the error of a task, until the stream raises; `LlamaIndexSteps` fills
`buffer` on the event loop (`stack` is `spans`, `pending` is `pending_terminals`) and replays it.
`IntegratedRuns` composes them with one run, its pauses and the users who answer: `OpenForm`,
`Submit` (the checks of the router, without a lock) and `Answer` (`resume_run` under the lock).
`failed` is history: the units whose last report is a failure.

### PgCheckpointStore, EngineConstruction, EngineOwner, DurableWorkflows, Deployment

`PgCheckpointStore` has one action per statement of `save`: by identity, head, its lock, INSERT,
COMMIT. Of PostgreSQL it assumes READ COMMITTED (a SELECT sees what is committed, a locked row
that has waited is looked at again), unique constraints that make an INSERT wait for another
that is not committed, and that a connection lost at COMMIT may or may not have committed.

`EngineConstruction` is pure: the registry (`Register`, `Discover`), the validator and the
assembly as operators on a record of settings; `Constructed` says whether `create_engine` returns.
`EngineOwner` is `DeploymentEngineOwner` at the grain of its locks: `get_engine` without and with
the lock, `prepare`, `reconfigure` with its candidate. `DurableWorkflows` computes what a call of
the saga or the approval puts, saves and returns. `Deployment` executes them: one run, its
operations and pages, each execution on the engine and the stores it was given.

Each engine assembles its stores from its configuration (`runtime/assembly.py:76-82`). In the model
store 0 is the one engines share (the table, the durable artifact store) and store e is the memory
of engine e (`CheckpointsOf`, `ArtifactsOf`), which no other engine sees. `artifacts` has the one
artifact of the workflow in each store. A durable store writes it once (`Put`; the three actual
stores are those of `ArtifactStores`); the memory store looks (`Put`) and inserts (`PutInMemory`),
and two executions of one engine may both get past the look.

## 4. What the runs check

| Run | Question | Properties |
|---|---|---|
| `fs_store` | Do saves and reads by two processes survive crashes and errors anywhere, and is every lock given back and every interrupted save decided? | `ReturnedStaysLoadable`, `NeverCondemned`, `RecoveredIsExact`, `NoLostRace`, `RetryIsIdempotent`, `ImplementsStream`, `LockIsGivenBack`, `IntentsAreResolved` |
| `fs_oversized` (violation) | Can everything a save has accepted be read? | `AcceptedIsReadable` |
| `lifecycle` | What do the row lock and the policies guarantee about a run that executes outside of both transactions? | `OverlapNeedsCancel`, `OrphanOnlyByFault`, `SucceededIsFinal`, `CancelHeardAtHome` |
| `jobs` | What survives the queue's at-least-once execution? | `PerformedOnce`, `OutcomeIsFinal`, `ImplementsLifecycle` |
| `jobs_live` | Does every job end, and does every run? | `JobsFinish`, `RunningEnds` |
| `jobs_cancel` (violation) | Can a worker's execution observe a cancellation? | `CancellationObservable` |
| `native` | Do records and functions stay in order when steps run side by side, time out and are stopped? | `HistoryIsOrderly`, `FunctionsAreAwaited`, `ShownIsRecorded`, `StopIsHeeded`, `DeadlineEnds` |
| `native_terminal` (violation) | Does every step that has ended get a terminal snapshot? | `EndedStepsAreTerminal` |
| `artifacts` | Is each backend the write-once store it promises to be, through races, crashes and unreliable requests? | `ImplementsStore`, `NoFalseAlarm`, `RecordedIsStored` |
| `live_view` | Does what the run services write survive threads that save rows they have read before, and does a page that watches the run show it in order and to the end? | `StatusIsDecided`, `EndIsShown`, `PageNeverGoesBack`, `PageCatchesUp` |
| `integrations` | Are the records of a provider settled when an execution ends, and is a pause answered once? | `SpansAreSettled`, `FailureIsCurrent`, `AnsweredOnce` |
| `deployment` | Do engines, stores and results stay together when the engine, and with it its stores, is replaced under a run that pauses? | `GenerationIsOneEngine`, `OneOutcome`, `DecidedAsSeen`, `ImplementsStream` |

Definitions whose comment begins with "Mutation:" are the code with a plausible bug. Each stands
before the definition it would replace, `PROJECT.json` says which, and with it TLC finds the
property violated.

`fs_store`, `lifecycle`, `jobs` and `native` also check `TypeOK` of their modules. Some properties
have a premise that keeps out what the code does not promise, and which the models show to
happen:

- `DecidedAsSeen` holds for answers that reach the store their page was built from, since the
  memory store starts its identifiers again with the process.
- `OneOutcome` has three parts. `OneEnd` has no premise: a checkpoint store has one final version
  of a saga at most, with nothing on top. `EndIsReconciled` compares that version with the durable
  artifact where every engine of the checkpoint store keeps its artifacts (`Keeps`), and the
  second half of `ResultIsEnd` compares the result with it where every engine does. An engine
  with the default artifact store, memory, loses the reconciliation with its process: the next
  execution puts one of its own, which may say something else. `ResultIsEnd` shows that a run
  succeeds with the final version of some store also then. All configurations that keep their
  artifacts are taken to name one durable store, and all that use PostgreSQL one table.
- `SpansAreSettled` excepts the spans that `LlamaIndexWorkflowsExecutable` leaves open
  (`LeftOpen`: it fails the spans on its stacks but not those of steps that have already stopped,
  `llamaindex_provider.py:385`, and on success the reverse).
- `FailureIsCurrent` is about units whose last report is a failure and was stored. A node of
  LangGraph that runs in several tasks may report the failure of one and then the success of
  another, of the same step; the later record is then current and the failure is not shown. The
  contract of the providers promises a failed state at the end for LlamaIndex only
  (`docs/architecture/design/OSS_NEUTRAL_WORKFLOW_INTEGRATION.md:294`).

### Bounds, and why they are enough

- **`fs_store`**: two processes, which is what a lock and its absence can tell apart; five
  requests that make every verdict of `save` occur (two contents for one identity, a competing
  root, a chain of two after either root); three free inodes, one more than a chain and its
  interrupted successor need at a time; two faults, so that the repair after an interruption is
  interrupted itself. One content is oversized, so both sides of `NeverCondemned` occur. Liveness
  is checked in the same run, which therefore has no symmetry.
- **`lifecycle`**: three threads, two of them in one process: a second execution beside a first,
  with a third party that cancels or retries, and a token that is or is not in the same process.
  Two faults allow a crash during what follows a rollback.
- **`jobs`**: two workers and three jobs, so a finished job, a requeued one and a new one exist
  together; two faults. The live run has two jobs and one fault.
- **`native`**: three calls on two occurrences: a synchronous step with its own timeout and two
  attempts, an asynchronous one with neither, and a call that uses the first occurrence again.
  So every kind of wait runs beside every other, a retry runs beside its own late thread, and the
  replay meets a failing sink. Retries of one step beside those of another are not in the
  instance, nor is the limit of `_MAX_STEP_OCCURRENCES` reached.

- **`artifacts`**: three calls at a time and in all, two of one run for names with one slot and
  one of another run; one body, metadata that redaction makes equal, metadata whose manifest is
  too long to be read, and metadata that is refused; two faults. So equal and unequal contents
  race for one key, and a resent request meets a late one.
- **`live_view`**: all three threads, one operation, three commits until reports begin to fail, one
  lost connection or failed fetch. Transitions are not bounded by the commits, so a row is read
  while the run executes and saved after its end or after a cancellation, by each of the threads.
  Any report may fail, so the three commits are the acceptance and any two of the reports. The
  workflow fails or pauses: a success is one more terminal status, which neither the sink nor the
  page tells from a failure.
- **`integrations`**: three tasks of two nodes, or two steps with two workers and three runs of
  steps; two pauses and two users; one failing report. So a node has parallel tasks, of which one
  may fail before or after the other succeeds, a worker runs again, and an answer meets the pause
  after its own. The two tasks of one node are symmetric, as are the users.
- **`deployment`**: two threads, four executions, two engines per history and one fault (a lost
  connection, a restart or a reconfiguration); a saga of two operations or the approval; five
  configurations: `on_table` (PostgreSQL, durable artifacts, discovered plugins), `on_memory`
  (checkpoints in memory, durable artifacts), `forgets` (PostgreSQL, artifacts in memory),
  `default` (both in memory, and the saga only, so that the approval finds no workflow) and
  `refused` (a clashing tool). Two threads race for everything the owner, the table and the memory
  stores exclude or do not; four executions give a first one, its cancellation, and two answers;
  two engines are one that keeps and one that forgets, in either order. 3.4 million distinct
  states.

Deadlock is checked for the file store, whose callers go on for ever. The other instances may
stop: a run that is finished, a worker that has no job, an execution that has returned.

### Fairness

- File store: a thread that holds the stream lock takes its next step (`WF_vars(Step(p))`). It
  does no waiting under the lock: every step is a system call. Nothing is assumed of the
  arrival of operations, of who gets the lock, or of crashes; a crash releases the flock.
- Jobs: a worker goes on with its loop, `while True` in `cw/cli/main.py`, a crashed one being
  started again, and its stale check comes around. This assumes that an execution of a workflow
  returns; `RunningEnds` and `JobsFinish` mean nothing without it.
- Native: the event loop, its timers and the replay go on, and the author's coroutine ends when
  it has no call in progress. No function of a step is assumed to end, which is the point of
  `DeadlineEnds`. `Drain` is fair because `asyncio.run` waits for its threads with a limit.

- Live view: the server polls and the browser delivers, reconnects and fires its timers
  (`WF_vars(Streaming)`, `WF_vars(Fetching)`): a polling loop and `setInterval`. Nothing is
  assumed of the threads that write, so `PageCatchesUp` holds of a run that hangs as well.

`artifacts`, `integrations` and `deployment` check safety only.

## 5. What is proved

Checked by TLAPS for every value of the constants under the named assumptions. Nothing bounds
the number of processes, threads, workers, clients, requests, jobs, calls or faults; a constant
that bounds a run of TLC (`MaxFaults`, `MaxCalls`, `MaxEngines`, ...) is any natural number. The
assumptions say what the constants stand for:

- `None` is told from everything it is the absence of (each `NoneAssumption`, `RowAssumption`,
  `RecordAssumption`, `HandleAssumption`).
- Requests are records that are not their own parent (`RequestAssumption`, the constraint of
  `CheckpointWriteRequest`), threads have a home process (`HomeAssumption`), workers are not web
  processes and there is a web process (`WorkerAssumption`).
- Calls of a Native workflow have an occurrence and a retry policy of at least one attempt
  (`CallAssumption`, the check of `RetryPolicy`); tasks have a node (`TaskAssumption`), workers of
  LlamaIndex are numbered (`StepAssumption`).
- Signatures are hashes without collisions (`ConfigAssumption`).
- The calls of artifact stores and what redaction makes of metadata are functions over the given
  sets (`CallsAssumption`).

Every proof module has the same layout: the inductive invariant `IInv` from named parts, lemmas
about the operators, one lemma per action (or per group of actions that have a shape in common)
that shows the parts it disturbs, `NextKeeps`, then `Invariance` (`Spec => []IInv`) and the
theorems, each a consequence of `IInv` or of a step from a state where it holds.

### FsCheckpointStoreProofs

The properties are not inductive. `IInv` adds to `TypeOK`:

- `LockInv`: who is inside an operation holds the lock. So one thread at a time is inside, and
  the facts below speak of one thread's position.
- `NamesInv`, `IndexInv`: one file per name; a file is linked by id before it is linked by
  revision; up to the head both links exist; the only record beyond the head is the one
  announced by the intent. This is why relinking is the right repair.
- `ChainInv`: the head is a linked record, revisions have no gap, and each names its
  predecessor as parent. This is why validation never fails on own files.
- `PendingInv`: an intent is that of the head (completed, not yet removed) or of the next
  revision with an id nobody else has. This is why completing it is always allowed.
- `ThreadInv`: at each position of `recover` and `save`, what the thread has read still holds.
- `ReturnedStaysLoadable` and `NeverCondemned` themselves.

One lemma per action shows that `IInv` is kept (`BeginKeeps` to `PublishElsewhereKeeps`); the
repairing branches share `LinkRevision`, `MoveHead` and `FinishKeeps`. From `IInv` follow
`TypeCorrect`, `Durability`, `NoFalseAlarm`, `RecoveryIsExact` and `LinksNeverCollide`;
`RetryIdempotence` is an action property on top of it. `Refinement` proves `Spec =>
ImplementsStream`: the replacement of `head.json` is `Commit` (`HeadCommits`), an answer is
`Return` (`ReturnMaps`), everything else is invisible (`Unseen`).

### RunLifecycleProofs

`OverlapNeedsCancel` needs to know why a second thread cannot get in: `Undisturbed` (without a
cancellation on the way, a run that is executed has the status `running`, which no policy
accepts), `Alone` (without an overlap one thread executes, and the status is `running` or
`cancelled`), `Registered` (that thread's token is the one of its process) and `HasResult`. With
`TypeOK` and `OrphanOnlyByFault` they are inductive. From them follow `TypeCorrect`,
`Exclusion`, `NoOrphan`, `SuccessIsFinal` and `CancelIsHeard`.

### ExecutionJobsProofs

The module instantiates `RunLifecycleProofs`, so that its theorems hold of the threads of
workers. `IInv` adds `Holding` (a worker that is not polling has a job in hand whose row exists),
`Exclusive` (until a job is put back while its worker is alive, a job in hand is claimed and in
one hand), and `Accounted`: without faults too, a claimed job is in a hand and a job that is
queued, or claimed and not yet accepted, has not been performed. From them follow `TypeCorrect`,
`AtMostOnce` and `FinishedJobsStay`. `LifecycleRefinement` shows that every step of a worker is a
step of the lifecycle or none of it. It needs `NoTokenInWeb`: `dispatch_cancel` looks for a token
in a web process and finds none, which is why it is the lifecycle's `Cancel` there. With it
`WorkersExclude` carries `Exclusion` and `NoOrphan` over to worker mode.

### NativeExecutionProofs

`HistoryIsOrderly` speaks of the whole buffer, a step appends to it for one occurrence. So `IInv`
says what the last record of a call in progress is (`Recorded`: none before the first attempt,
`retrying` of the attempt before, or `running` of this one), that a call has its occurrence to
itself (`Owns`, from the set of occurrences `step` checks and fills without an await between), and
that a call between its check and its function holds the event loop (`Holds`), so that no other
check can raise in between: this is `StopHeeded`. `Shows` relates the event sink to the part of
the buffer that has been replayed and gives `SinkIsTrue`; `OrderlyHistory` and `NoStrayFunctions`
are parts of the invariant.

### ArtifactStoresProofs

`IInv` says for every stage of a call what it has seen of the store and that it still holds
(`At`): bodies are published before their manifests, a manifest is never replaced and never
without its body (`FilesSound`), what a record shows is held (`Shows`). Stages belong to one
backend (`Staged`), which lets the three stores share one module. In `StoreRefinement` the
insertion into the dict, the link of the manifest and the arrival of the conditional request are
`Takes`; an answer is permitted because the store holds now, or held when the call began, what
the answer says. `AlarmsAreTrue` and `RecordsAreStored` follow from the invariant.

### LiveRunProofs

The order of everything on its way: rows count no more than was reported (`RecordsOrdered`); the
page, the snapshot being queried, the fragment that was sent and the one that was fetched lie in
the past of the rows (`Past`) and not in the past of the page (`Newer`); one fragment is on its way
at a time, and none once the page is terminal (`ViewOrderly`). This gives `EndsAreShown` and
`PagesAdvance`. `StatusShown` holds whatever rows the threads have read: a row that is saved has the
status and the result of the database and not those that were read, which is what `update_fields`
is for. `TerminalPageStays` is a theorem no run checks: a page with a terminal status
is final, also for a run that is retried.

### IntegratedRunsProofs

- `Controlled` and `Paused`: an execution takes place exactly while the run is running, and a run
  that waits, or is about to, has a pause that is not answered. This gives `OneAnswer`.
- `GraphSpans`: an open span of LangGraph is that of a task that runs, and none runs after the stream.
- `StepsTyped`, `Numbered`, `StepSpans`: as long as nothing has failed, a step of LlamaIndex has a
  span on its stack for each of its workers; the buffer starts spans in order and ends none before
  it has started it; every span is on a stack, waiting for its terminal, or ended by the buffer
  that is still to be replayed. With `GraphSpans` this gives `SpansSettle`.
- `GraphFailure` and `StepFailure`: no snapshot outnumbers that of the failure a unit has reported
  last. A node of LangGraph may report again after a failure, and is then no longer in `failed`.

`FailureShown` has the hypothesis `FewWorkers`: `_worker_sequence` numbers the snapshots of a worker
in tens and a failed snapshot counts from 10,000 (`llamaindex_provider.py:517`, `:378`), so that a
step with more than a thousand workers could have a running snapshot of the same moment win over
its failure. No workflow of the repository comes near, and the runs have two workers.

### DeploymentProofs

- `TableInv` and `Transaction`: the versions of the table are numbered without a gap and one for
  each identity (`Linear`); a transaction that has inserted its row is made on top of the newest
  version and is the only one that has. `INSERT` waits for a row that is not committed, and this
  is what makes `StreamRefinement` true under READ COMMITTED. `MemoryInv` is the same for the
  stores in memory.
- `OwnerInv`: a handle names an engine that was built, under its signature, and that of the
  current generation is the engine in place. This gives `OneEngine`.
- `Execution`, `PagesInv`: an execution saves after its artifact is stored, in the durable store for
  good, and ends after its version is; what it saves and puts agree (`Consistent`); a page shows
  what a version of its store has saved. `Linear` also says that nothing is saved on top of a final
  version of a saga, for the parent of what a saga saves is a version that is not final (`Save`):
  this is `OneEnd`, and needs no artifact. `Settled` says which rows may be added where the artifacts
  are kept. New engines only make the premises of `OneOutcome` stronger (`PremiseShrinks`). With
  them `OneOutcome` and `DecidedAsSeen` are inductive: `SagaAgrees` and `DecisionIsInformed`.

### Only model-checked

Liveness is out of the prover's reach: `LockIsGivenBack`, `IntentsAreResolved`, `JobsFinish`,
`RunningEnds`, `DeadlineEnds`, `PageCatchesUp`. Everything else the passing runs check is proved.

## 6. Findings

1. **A save that can never be read** (`fs_oversized`). `save` writes a record without a bound
   and reads it with one of 1 MiB (`filesystem_store.py:1129`, `:540`). The limits of
   `base.py` admit longer records. The save succeeds; then every operation on the stream that
   reads the record ends with an integrity error.
2. **A worker's execution cannot observe a cancellation** (`jobs_cancel`). The tokens are
   process-local (`execution_control.py:18`) and `dispatch_cancel` runs in the web process,
   while `docs/runtime/EXECUTION_WORKER.md:27` says that the execution can observe it.
3. **A step that ends in its retry delay keeps the snapshot `retrying`** (`native_terminal`).
   The check of `_retry_delay` (`native/__init__.py:370`) raises without a record. The deadline
   gets there by itself: an attempt it ends is recorded as `retrying`, because only
   `WorkflowCancelledError` is excluded from the retry (`:328`). The design document promises
   "started and terminal snapshots" of every step.

## 7. Not modelled, and why

- Configuration: loading and normalisation are translations of mappings into records without
  state; a `Config` is a value of its own and is known up to its signature.
- Redaction, summaries, validation of values and the rendering of pages: pure functions on text.
- Clients of language models and tools: wrappers around services that keep no state; their spans
  are the helper thread of `RunRecords`. Progress and metrics are reports like any other.
- Diagnostics: rows written once with a failure, which no step reads.
- The frameworks behind the providers are external: the model takes any order of events they
  permit. Retries and timeouts inside LlamaIndex are events of that order. Every revision of the
  approval has a proposal of its own.
- PostgreSQL, S3 and the file system are external too; what is assumed of them is named with the
  modules. Power loss is outside the contract of the stores
  (`docs/contracts/integrations/CHECKPOINT_STORE.md:144`), so the fewer directory syncs of the
  repairing branches are not looked at.
- One run at a time: runs share nothing but the keys of artifacts, and `artifacts` has two.
- Of `Run` the fields `started_at`, `finished_at` and `error_message`, which no step reads and
  which a retry does not reset. `heartbeat_job` has no caller in the repository and is no action.
- The opportunity research and plain Python samples, sequential; the scaffold and scripts,
  one-shot tools that write files.
