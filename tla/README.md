# KernelBlaster in TLA+

TLA+ models of KernelBlaster's job control, GPU services, artifact store,
optimization agent, model provider and measurement pipeline, the TLC runs that
check them on small instances and the TLAPS proofs of their safety properties for
every value of the constants.

    tlc -workers 2 -config JobRepository.cfg MCJobRepository.tla
    tlapm JobRepositoryProofs.tla

`PROJECT.json` names the components, the runs, for every definition the source
lines it stands for, for every property a plausible bug that breaks it
(a definition marked `Mutant:` beside the one it alters), the hazards of the
code and the properties aimed at each.

## 1. The system

An optimization run takes a CUDA task, lets a language model propose kernels
and keeps the one that is correct and fastest. `scripts/run_RL.py` starts a
workflow per task; the workflow's graph has one node, which creates an RL
agent; the agent asks a model provider for candidates, compiles and checks and
measures them on a GPU, and remembers what helped in a shared database.
Candidates are untrusted programs: they reach the GPU as *jobs*, through
services that keep evidence of everything they did.

| component | state it keeps | operations | talks to |
|---|---|---|---|
| Job repository `storage/repository.py` | SQLite: runs, jobs, attempts, leases, artifacts, links | submit, acquire, heartbeat, complete, cancel, delete a run, register | called by Control |
| Content-addressed store `storage/cas.py` | files named by digest | put, get | Control, Supervisor |
| Control `servers/control.py` | none of its own | HTTP over the two above; posts GPU jobs to the Supervisor | Supervisor, recorder |
| GPU supervisor `gpu_jobs/supervisor.py` | `_jobs`, `_idempotency`, `_gpu` semaphore, a task per job | submit, cancel, `_run` | Control (lease, complete, cancel), executors |
| Trusted executor `gpu_jobs/executor.py` | one subprocess | compile, run | Supervisor |
| Sandbox runtime `gpu_jobs/sandbox.py`, `sandbox_runner.py` | `_active_job`, Docker's volume and containers | execute, cancel_active | Supervisor, Docker |
| Profiler worker `profiler_jobs/worker.py` | semaphore, profiled process | profile | Control, GPU |
| Model provider `llm/*` | request and token counters | generate with retries | HTTP endpoint |
| Local batch queue `agents/utils/batch_queue.py` | queue, timer, lock, futures | submit, process, flush | a local model |
| Workflow `workflow/`, `graph/`, `outcomes.py` | the task's folder, its state file, RunOutcome | run with timeout, resume | agent |
| RL agent `agents/opt_ncu_rl.py`, `rl_agents.py` | rollouts, replay buffer | rollouts, policy update | provider, GPU, database |
| Optimization memory `agents/database.py` | JSON knowledge base | select, update, persist | RL agent |
| Legacy GPU and compile servers `servers/gpu.py`, `compile.py`, `agents/utils/commands.py` | queues, workers, temporary binaries | exec, compile | agent |
| Preflight `preflight/` | report of checks | run in order | operator |
| Measurement `benchmarking.py`, `profiling.py` | sessions | validity, paired gate | agent, scripts |
| Benchmark scripts `scripts/benchmark_*.py`, `analyze_core10_comparison.py` | a folder per task, suite and comparison files | correctness gates, timing, rows, report | GPU, candidate files |
| Run recorder `observability/recorder.py` | event log, manifest | record, close | Control's repository |

What is hard in it:

* **Leases** are fenced by rows and text timestamps; a worker's report may
  arrive after its lease lapsed, after another worker got the job, or twice.
  Right when a job has one holder, one verdict, by its holder, and the
  evidence of a verdict does not change.
* **The Supervisor** mixes asyncio cancellation, a semaphore, HTTP calls whose
  request or response may be lost, and a bounded memory of jobs. Right when
  one job is on the GPU, the GPU does not idle while a job waits, every job
  and every cancel request ends, and what it shows agrees with Control.
* **The sandbox** crosses from coroutines to threads that are not cancelled
  with them. Right when one container runs, a cancellation kills its own
  container, and everything created is removed.
* **The token budget** is shared by concurrent candidates that fail, retry
  and are cancelled. Right when the budget is a hard cap and no reservation
  is counted that nobody holds.
* **The batch queue** starts its workers by timers and by full batches. Right
  when no wake-up is lost, batches do not overlap and every caller is
  answered.
* **The workflow** has a deadline, a folder that survives crashes and a resume
  rule that reads it. Right when what resumption takes for a success is one.
* **The memory** is updated by concurrent rollouts and by policy updates
  and written to one snapshot. Right when nothing learned is lost or
  replaced, counts are those of what was done, and only a torn copy empties it.
* **The artifact store** is two durable things, files and rows, written by
  several processes. Right when a row never outlives its payload and what a
  run's close archived is what the run wrote.
* **Control and Supervisor** each know half of a job, and a restart of the
  Supervisor forgets its half. Right when no program runs without a lease of
  its own and only a fault leaves a job without anyone to run it.
* **The profiler worker** fixes a request's time before it waits for the GPU
  and retries some tools. Right when no request holds the GPU for longer
  than its plan allows.
* **Preflight** gives up early on services that go on. Right when the mode it
  reports is what Control has recorded.
* **The legacy servers** have queues, directories that are used again,
  clients that retry and processes that outlive them. Right when a binary is
  built from its own source and kept until it ran, and queues drain.
* **Measurement** reads files that people edit and is killed between writes.
  Right when only what passed every gate is timed, and a verified improvement
  is one that a confirmation of the present text earned.

## 2. What each module models

State variables carry the names of the code's attributes and tables, actions
those of its methods. Where a method has several awaits or critical sections,
it is several actions, one from each await to the next. `Init`, `Next` and `Spec`
are a module's own; where one module extends several, those of the others carry a
name: `DispatchSpec`, `WorkerSpec`, `BudgetSpec`, `ServersSpec`, `StoreSpec`.

| module | models | role |
|---|---|---|
| `LeaseService` | what the job store promises: admit, hand out under a fresh token, take back, decide once | abstract specification |
| `JobRepository` | `storage/repository.py`: a transaction is an action | refines `LeaseService` |
| `GpuSupervisor` | `gpu_jobs/supervisor.py`, `gpu_jobs/client.py` and the Control endpoints it calls | |
| `SandboxRuntime` | `gpu_jobs/sandbox.py`: coroutine, two kinds of threads, Docker | |
| `TokenBudget` | `llm/openai_compatible.py`: candidates and counters | |
| `BatchQueue` | `agents/utils/batch_queue.py` | |
| `TaskWorkflow` | `scripts/run_RL.py`'s loop, `workflow/workflow.py`, the graph's node, `RLNCUAgent.initialize` and `run`, `should_skip_folder` | |
| `OptimizationMemory` | `agents/database.py`, and the rollouts and policy updates of `opt_ncu_rl.py` and `rl_agents.py` that use it | |
| `LegacyServers` | `servers/compile.py`, `servers/gpu.py`, `agents/utils/commands.py` | |
| `ArtifactStore` | `storage/cas.py`, the artifact tables, Control's uploads, `observability/recorder.py` | |
| `Dispatch` | a job between `servers/control.py`, `gpu_jobs/supervisor.py` and its program, with restarts | component of `Preflight` |
| `ProfilerWorker` | `profiler_jobs/worker.py` | component of `Preflight` |
| `Preflight` | `preflight/runner.py`, `preflight/client.py` | composes the two above |
| `BenchmarkTask` | `scripts/benchmark_cuda.py` with `benchmarking.py` and `profiling.py` | component of `Benchmark` |
| `Benchmark` | `scripts/benchmark_candidates.py`, `benchmark_pytorch.py`, `analyze_core10_comparison.py` | composes tasks |
| `MC…` | the values and symmetries of the runs | |
| `…Proofs` | theorems, of one component or of two that share a theme (section 5) | |

### JobRepository

Every public method of the repository is one `BEGIN IMMEDIATE` transaction, so
it is one action; a method that raises changes nothing and is the negation of
a guard. A method reads the clock before it gets the database lock, hence the
action's `now` lags behind `clock` by up to `MaxLag`. Timestamps are compared
as text in the code; `Stamp` gives the place of a time in that order (the
fraction of a whole second is left out by `isoformat`, which puts it *after*
the rest of its second). An attempt and its lease are inserted together and
are one row, whose id is also the worker's credential. The action
`CompleteJob` has the code's two branches: an undecided job is decided under a
live lease, and a decided one only receives links, to its last attempt, or with
`attempt_id` NULL (0 here) when it was cancelled before anyone leased it.

A job's `work` is what `profiler_candidate` reads of its kind and payload, and a
link has a role. `ProfilerCandidate` is the set of what the lookup may answer:
the query has no `ORDER BY`, so any of the succeeded compile rows that link the
digest as their executable may be the one it reads, and a row whose payload lacks
the source bundle or the protocol is a refusal (`None`). `Accepted` says that it
is refused in no order. `EvidenceStable` says that no answer is ever taken back and
that an accepted executable is refused later only because a further compile row
without provenance was linked to it.

### GpuSupervisor

One event loop: an action is the code between two awaits. `tasks[t]` is a
`SupervisorJob` with the place of its `_run`; `killed` is a cancellation that
was requested and not yet raised; `wire` is its request to Control. A cancelled
request may be handled by Control after the task went on, which is why
`ControlLeases` looks at the wire and not at the place of the task.
`ReleaseGpu` is asyncio's semaphore: the permit goes to the first waiter not
cancelled. `Trimmed` is `_trim_recent`, which submit runs. Losses
(`LossyNetwork`) and expiries (`LeasesExpire`) are switched by constants, so
that a property that needs a reliable network says so in its run.

### SandboxRuntime

`tasks` is the executor's coroutine, `workers` the thread in `execute`, one
state per call of Docker, `killers` the thread in `cancel_active`, which reads
`_active_job` under the lock and kills it after. A cancelled coroutine abandons
its thread, unless the pool had not started it. Docker may refuse any creation
or start (`DockerFails`); forced removals succeed (section 7). `Begin` is the
Supervisor's semaphore. A cancellation may come at any moment of `execute`, and
twice: the Supervisor cancels the task for its client, at the deadline and when
it closes (`MaxCancels`).

### TokenBudget

Reservation, settlement and release are atomic with the code around them, as
the lock is never held across an await. `Reserve` has the code's refusal: the
exception is raised after `reservation` was assigned, so the handler gives
back what was never taken. `CancelledError` is not an `Exception`, so a
cancelled candidate gives nothing back. Two history variables measure both:
`forgiven` sums what refusals took off `_reserved_tokens`, `leaked` the
reservations of cancelled candidates. A candidate holds a reservation token by
token (`Tokens`), so what all of them hold is a cardinality. `Completed` takes
any usage: the prompt was only estimated, and `_create_completion` sends some
model families no limit on the completion, or a fixed one; `overrun` sums what
responses used beyond their reservation. `BudgetHeld` and `ReservedIsHeld` say
that nothing else separates the counters from what the candidates hold.

### BatchQueue

The tasks that will call `_process_batch` are counted by kind (`timers`
sleeping for the window, `starts` ready); `Process` is its first critical
section and `Finish` its `finally`; between them run the forward `passes`,
which a failed `gather` leaves behind. `flush` holds the lock and waits for
it.

### TaskWorkflow

`folders` is what survives the process: the final file (`absent`, `torn`
between the truncation and the writing of `write_text`, `whole`), the failure
marker and `.finished`. Everything else is one process and is lost by `Crash`
and `Exit`. `at[p]` is where the `process_problem` of a problem stands: an
action is the code between two awaits, or between two writes to the folder,
since the process may be killed anywhere. `Awaiting` are the places where
`wait_for` can cancel the workflow; from the gate's answer to the node's last
line nothing is awaited, so the deadline strikes before (`confirming`) or after
(`leaving`) the final file is written. The rollouts are tasks of their own,
which the cancellation of the workflow does not reach: `Abandoned` keeps those
that run. What they return no longer matters, only that they still use the GPU.

A measurement is a positive value in a class of comparable ones (its
`comparison_key`); `Trajectories` are what
a rollout may return, the empty one included. `Collect` folds a trajectory
into the best candidate as the code's loop does. `BLOCKED` is folded into
`failed`, which the workflow treats alike. `reports` is a history variable: the
outcome with which the last run in a folder returned.

### OptimizationMemory

The memory maps a state to its techniques and each of them to its
`usage_count`: predictions and confidences only steer choices, which are free.
An action is the code between two awaits, so two rollouts and a policy update
meet anywhere. `Discover` names a new state by the *size* of the memory.
`Plan` may take a technique of any state, while `Record` looks it up in the
state the step started from, after the awaits of a whole candidate. The
snapshot is `disk`: `Written` replaces it whole or not at all, `Launch` with
nothing there copies the shipped file in place (`Copied`), and `Crash` may come
between. `ByName` are the techniques that a memory without any gets: those
of the first bottleneck whose name the state's contains, so a shipped or a made-up
name (`latency_memory_bound`) gets them as a discovered one does; `DefaultsFor`
gives them by name. `FromMarkdown` gives states without techniques, because the lines
`_build_states_markdown` writes are not those `_parse_optimization_database`
looks for. `steps`, `saved` and `mishaps` are history variables.

### LegacyServers

`StartBuild` to `Made` are the compile worker's stages in `dir`, whose sources
are replaced and whose build directory is kept. `Upload`, `GiveUp` and `Retry`
are `_run_gpu_binary`; an item is one of its two attempts. `Get` to `Executed`
are the GPU worker; `End` leaves processes as orphans, and `Checked` sees those
that have opened a context.

### ArtifactStore

A digest is its payload. A put is a temporary file, a place in the tree and the
sync of the directory; a writer that finds the place taken stops there, which
`assumed` records. `PowerLoss` takes any entry whose directory was not synced;
SQLite's rows stay. The recorder's actions are the steps of `record_event` and
`close`, with a failure, a signal or a kill between any two. `StartRun` inserts a
row as `running`, or, of a dry run, with the status it will end with; a launch in
a record directory that was used before keeps its `events.jsonl` and goes on with
it, which is why events carry the number of their run. So `Ended` asks for
`finished_at` where a status alone does not tell.

### Dispatch, ProfilerWorker, Preflight

A job is seen from Control's row, the Supervisor's `view`, the program that
runs and the callbacks on the wire; each conversation is the steps the two
processes take in it. `Restart` of the Supervisor forgets `view` and may leave
the program running. So may the end of a coroutine, if the job is one of
`Generated`, which the sandbox executes: a cancellation or the deadline finds no
container to kill before `sandbox.py:450`, and Docker may refuse the kill and the
removal (`Abandons`). A success leaves a container only by such a refusal, which
counts as a fault. `Report` has Control's three answers: the verdict is taken, the
row is decided already and the report is answered as idempotent with 200, or the
lease is not this attempt's and the report is refused; the Supervisor shows
`failed` only after the last. In the worker, time is what the tool's phases took:
`budget` is fixed when a request arrives, `held` counts what it used of the GPU.
`Preflight` runs the checks in order; each of its requests may give up while the
service goes on (`HearProfile`, `SubmitAnswered`, `TimeUp`). Its `Next` composes
its own steps, those of the services and other clients' jobs.

### BenchmarkTask, Benchmark

`run[t]` is the process of one task and the files of its folder. The candidate
file is read at the first gate of its label and never again; `Edit` changes it
at any moment. `RunGate` is one executable, `Session` one paired session,
`EndRound` the one repetition of an unstable round. `WriteSummary` and
`WriteManifest` are two writes, and `Abort` may come between. `Benchmark` adds
the driver that waits for each child and keeps a row, and the report that is
made later from rows, folders and the sources as they are then. The bootstrap
is bounded from both sides (`GateVerdicts`): its verdict is left open where the
sessions do not decide it.

## 3. Runs

All passing runs end with the whole state space explored. A bound is named in
its module and given in the `.cfg`, or is the `CONSTRAINT` `Bounded` of the MC module.

| run | shows | bounds, and why they are enough |
|---|---|---|
| `job_store` | the job table and the lease table agree, fencing, one verdict (`LeasesAgree`), links are evidence of decisions, with an attempt or without, answers of the profiler lookup stay (`EvidenceStable`), no early recovery and no late report, refinement of `LeaseService` | half-second ticks, a stale reading of one tick: whole and fractional seconds on both sides of a deadline; one verdict, as a second one changes no guard. `Bounded` is of two cases: while time passes, two jobs and two attempts, so that jobs compete for attempts, one is handed out twice, and one is cancelled before any; at one moment, three jobs with an attempt each, two that may compile one executable, with provenance and without, and one that examines it |
| `supervisor` | one job on the GPU and no idle GPU (`GpuShared`), one live task per job, verdicts are the holders', finished tasks stay, tasks end and cancel requests are answered (`EveryoneIsAnswered`) | three tasks of two jobs and a cancel handler: a holder, a waiter and a resubmission; one remembered job, so trimming happens; requests and answers are lost and leases expire |
| `token_budget` | reservations counted are held or leaked, the budget is exceeded by forgiven and overrun tokens only, candidates end | three candidates of two sizes, a semaphore of two, both limits near, one retry, responses that use less and more than was reserved |
| `sandbox` | nothing is left of what was not cancelled, containers overlap only with those of lost cancellations, a stray kill needs a second cancellation, executions end | two jobs, two cancellations each, at any moment |
| `batch_queue` | no lost wake-up, one batch, no caller left behind (`RequestsAreKept`), every caller is answered or `flush` hangs | requests in batches of two, so that there are full batches, a remainder and a timer for it |
| `workflow` | resumption and files agree with what was reported (`FoldersAgree`), the gate gets the fastest candidate, only unawaited rollouts disturb it, problems end | two problems one at a time: what one leaves behind meets the other's gate; two rollouts, so that they end in both orders, each with one of four trajectories (empty, getting slower, one step, mixed units); three launches: a crash, a resumption, and one that reads what that left |
| `optimization_memory` | usage counts are history, the memory only grows, only a torn copy empties it, problems finish | two rollouts of a problem, so that both discover and record at once; one step each, as a step leaves nothing behind but the state it ends in; a policy update every second trajectory; two discovered states, so that a name may repeat; one shipped state whose name has default techniques and a made-up one whose name has none; two launches, the second of which reads what the first left |
| `legacy_servers` | a binary is of its own source, files are held while needed, only an unseen orphan shares a GPU, queues drain | two calls of two attempts each, two builders in directories of their own or a kept one, one GPU with two starts of its server: an orphan and its successor |
| `artifact_store` | a row loses its payload only through an entry taken for granted, what close archived is what was written | two writers of one payload and the recorder as a third; two launches, the second in a new directory or in that of the first, of a run and a dry run, as other statuses change no guard; two events of a launch, so that one is counted and one missed or late, or one beside other writers (`Bounded`) |
| `control_plane` | programs have a lease of their own, only a fault strands a job, the GPU is held within bounds, full mode is earned | three sandboxed stages and another client's trusted job; three leases, so that one job can be handed out again; one fault of any service at any moment: with two the properties that forgive a fault would forgive more; one remembered job |
| `benchmark` | only what passed is timed, verified improvements are earned, rows agree with folders | one task, as tasks share nothing but the driver, whose rows the report reads one by one; minima of one and two sessions for three and five, so that a confirmation still has a pair that disagrees; medians that are equal, 1 % and 7 % apart: on both sides of the material speedup, the spread limit and the self-check's range; two texts |
| `token_hard_cap` | violation, see section 6 | three candidates, a budget for one |

`job_store` and `token_hard_cap` use symmetry, of idempotency keys and of
candidates: they are only compared for equality, and no definition names one.
Neither has a liveness property.

`CHECK_DEADLOCK FALSE` is set where the system may stop: every task, request
or candidate the bounds allow was served. `job_store` keeps the deadlock check.

`EveryoneIsAnswered` and `QueuesDrain` are stated as eventual rest (`<>[]`): the
submissions and calls are bounded, so that is the same as an answer to each.

## 4. Fairness

Runs with safety properties only (`job_store`, `artifact_store`, `control_plane`,
`benchmark`) assume none. The others assume weak fairness of

* event-loop steps (`TaskStep`, `CallerStep`, `Coroutine`, `Proceed`,
  `TimerFires`, `StartRuns`, `Conclude`, `Step`): asyncio runs every ready callback;
* answers of remote parties (`ControlStep`, `Completed`/`Failed` in `Proceed`,
  the model's and the GPU's in `Step`): every HTTP client call has a timeout, so
  an answer or an error arrives;
* threads (`Work`, `Killer`): the operating system schedules them, and
  Docker's client has timeouts; the end of a polling loop is the deadline the
  code checks;
* `Generate`: a forward pass of the local model ends;
* `Copied`: a copy of a small file ends, or the process does;
* `Build`, `Execute` and `Wait`: the servers' workers take what is queued, their
  compilers and programs have timeouts, and so has every call of a client;
* `Prompt` and `TimeOut` of a problem: ready callbacks run, and the deadline of
  `wait_for` passes if nothing else ends the workflow. Rollouts, baselines, the
  gate and the model may hang: `ProblemsEnd` must follow from the deadline.

Nothing is assumed of a program inside a container, of clients (submitting,
cancelling), of expiry, of launches and restarts, or of losses.

## 5. Proofs

Every invariant and every action property of the passing runs, and the
refinement of `LeaseService`, is a theorem.

| module | theorems | by way of |
|---|---|---|
| `JobRepositoryProofs` | `TypeCorrect`, `LeasesAgreeHolds`, `LinksAreEvidenceHolds`, `EvidenceStays`, `LeasesEndOnTimeHolds`, `StoreImplementsLeaseService` | `Consistency` |
| `GpuSupervisorProofs` | `TypeCorrect`, `GpuSharedHolds` and its two parts, `OneLiveTaskPerJobHolds`, `VerdictIsTheHoldersHolds`, `FinishedStatusStays` | `Consistency` |
| `ProviderProofs`: `BatchQueue` | `TypeCorrect`, `RequestsAreKeptHolds` | `Consistency` |
| … `TokenBudget` | `ReservedIsHeldAlways`, `BudgetHeldAlways` | `BudgetInvariant` |
| `ExecutionProofs`: `SandboxRuntime` | `TypeCorrect`, `UncancelledCleansUp`, `OnlyOrphansShare`, `StrayKillsNeedTwoCancels` | `ThreadsAccounted` |
| … `LegacyServers` | `OutputsAreRight`, `FilesStay`, `SharingIsUnseen` | `ServersInvariant` |
| `StorageProofs`: `ArtifactStore` | `StoreTypeCorrect`, `LossesAreAssumed`, `ArchivesAgree` | `StoreInvariant` |
| … `OptimizationMemory` | `CountsAreHistory`, `MemorySurvives`, `NothingIsForgotten` | `LearningInvariant` |
| `PreflightProofs`: `Dispatch` | `LeasedPrograms`, `OnlyFaultsStrand` | `DispatchInvariant` |
| … `Preflight`, `ProfilerWorker` | `PreflightUsesDispatch`, `LeasedInPreflight`, `StrandedInPreflight`, `GpuTimeBounded`, `ReportsAreEarned` | `PreflightInvariant` |
| `TaskWorkflowProofs` | `TypeCorrect`, `ResumeAgrees`, `ReportsMatch`, `FoldersAgreeAlways`, `GateDisturbedByOrphansOnly`, `FastestReachesGate` | `Consistency`, `BestOfCollected` |
| `BenchmarkProofs` | `TimedOnlyWhatPassedAlways`, `VerifiedIsEarnedAlways`, `RowsAgreeWithFoldersAlways` | `SuiteConsistency` |

They hold for every value of the constants that satisfies the named
assumptions of the modules, which TLC evaluates for the values of the runs. Each
theorem on the right says that an inductive invariant always holds; the others
follow from it. The assumptions that are more than types and bounds:

* `Preflight`'s stages have jobs of their own (`StagesAreJobs`): the idempotency
  key of a stage names it.
* `OptimizationMemory`'s shipped file has states, and no technique in it was used
  (`ShippedAssumption`): so it is in the repository, where all its
  `usage_count`s are 0. A pair of a bottleneck and a number is the name of a
  discovered state only (`NamesAssumption`), and a missing or torn snapshot is no
  memory (`SnapshotAssumption`).
* `TaskWorkflow`'s trajectories are sequences of measurements, whose value
  `Measurement.__post_init__` wants positive (`TrajectoriesAssumption`).
* Of a `JobRepository` no job, run or digest is `None` (`NoneAssumption`), and the
  jobs of `Generated` are jobs (`GeneratedAssumption`); usages and reservations are
  numbers and nothing relates them (`UsagesAssumption`, `ReservationsAssumption`).
* The default techniques are any table by name (`ByBottleneckAssumption`,
  `DefaultsForAssumption`), and a run closes with one of the four statuses that
  the launchers use (`FinalStatusesAssumption`).
* The suite selects each task once (`OrderAssumption`, section 7).
* A builder is no caller, and `Nobody` neither (`LegacyServers`).

*JobRepository.* `IInv` is `Tables` (the types), `RowsLinked` (attempts beyond
`issued` are empty, an attempt has a lease and its job exists), `LeasesMatch`
(a job is active exactly while an attempt of it holds a lease),
`EarlierExpired` (every attempt but a job's last is expired) and
`VerdictsMatch` (a completed attempt gave its job its status; every other
decided job was cancelled). None is inductive alone: a recovery takes the lease of a
job back, and needs `EarlierExpired` to know that it was the only one; a grant
adds the last attempt, and needs `LeasesMatch` to know that a pending job has
no held lease to leave behind; a verdict needs both. Recovery is the same two
row updates in four methods, and lemmas state what it does once.
`LinksAreEvidenceHolds` adds to it that a link without an attempt is of a job that
no attempt is of: a decided job is never leased again, so it stays one.
`EvidenceStays` follows each compile row through the step: decided rows and their
links change only with their run, so a row that is new to the lookup is one that
was decided, or linked the executable, in this step.
`LeasesEndOnTimeHolds` is an action property: arithmetic over `Stamp`, with the
lag of the clock as a parameter, from the guards of recovery and completion.

*LeaseService.* `StoreImplementsLeaseService` maps a job to the holder and the
verdict its rows give it. Under `IInv` a job's holder is its last attempt, if
that one holds a lease. A grant is a step of the service because the new
attempt's number was in no row before; a recovery, of however many jobs, takes
back each of them; a completion is the service's decision if the job is
undecided, and a stutter otherwise, when only links are added.

*GpuSupervisor.* `IInv` is `RowsOK` (what a row says by itself: the place of
its `_run` tells the status, the result and the request on the wire), `GpuOK`
(the permit is held by one task or free, and free only if nobody waits),
`Unmade` (tasks beyond the last created one are untouched), `LiveOnce` (one
unfinished task per job), `HandlerOK` (a task whose end a cancel handler awaits
has the cancellation ahead of it or went through it; one that asks Control has
its task over) and `HeldOK` (Control's row names a task of the job, and its
verdict is that task's result). The lemma about `ReleaseGpu` is
used for every way of leaving the semaphore.

*SandboxRuntime.* `ThreadsOK` says where the two threads of a job may stand given
its coroutine and the cancellations it has had, `DockerOK` what there is of the
job in Docker at each place of the thread in `execute`. A stray kill needs the second
cancellation because the coroutine awaits the thread of the first: only a
coroutine cancelled twice is over while that thread is not. `OneInExecutor` is the Supervisor's
semaphore; without it two coroutines might share `_active_job`.

*LegacyServers.* The source of a caller is in one place: queued once or with one
builder (`QueuedOnce`, `QueuedOrBuilding`, `BuiltOnce`), so two builders never
share a caller's directory and `OwnSources` is kept. The same of uploads
(`RunOnce`, `QueuedOrRun`, `WorkersDiffer`): the end of a run removes a file no
other run needs. `WasUploaded` tells a retry's item from those seen before.

*BatchQueue.* `IInv` is `TypeOK`, `OneBatch`, `SomeoneWillProcess`,
`UnansweredIsHeld` and `TimerPending`: `_pending_timer` set means that a timer
sleeps. Without the last one the first caller after a timer's end would be
thought to have one.

*TokenBudget.* `ReservedIsHeld` bounds the counter from above by what is held
and leaked; the proof needs the bound from below too (`HeldIsReserved`: what is
held is counted, but for what was forgiven), since a refusal that subtracts a
reservation it never added is cut off at zero. A response that uses more than
it reserved raises `total` by no more than its reservation and what it adds to
`overrun`. A reservation that comes or goes
adds to or takes from a set of tokens disjoint from the others, whose
cardinality is its size.

*ArtifactStore.* `StoreInv` follows a payload from the writer's hand to the
index: what is indexed is durable or was assumed. For the recorder, `RowInv` and
`FilesInv` tell the row of the current run and its three files from the place
where `close` is, `CountsInv` tells the part of the log that is this run's (`Own`)
from the events counted, and `RunsInv` keeps former runs as they were left. A
reused directory brings the lines of former runs into the log, so what is said of
it is said of `Own`; a dry run's row has its last status throughout, so `Finished`
is what tells that it was closed.

*OptimizationMemory.* A new state is named after the size of the memory, so
`MemoryOnlyGrows` needs `WellNumbered`: the numbers in use are below that size.
The proof of `UsageIsHistory` follows the counts through the snapshot
(`Counted`, of the memory and of the disk, and `SameShipped` between them), and
needs `PlacedIn`: a rollout records in the state it started from, which is
still known or has no technique by that name. `EmptyOnlyAfterTornCopy` is from
`DiskInv`, what the snapshot may be while there is no memory.

*Dispatch, ProfilerWorker, Preflight.* `AttemptsOK` says that an attempt's number
stands for one thing, a program, a verdict under way or the past, except that a
container left behind may run on beside its own attempt's verdict, and
`SupervisorOK` that only the running job has a program that is no orphan: so no
two programs share a lease, and a row decided beside a program was decided by its
attempt. `ShownOK` says where a success that is shown has its verdict, and needs
`LatestOK`: what the Supervisor runs or shows as a success is the latest attempt it
has of the job, so none but its own verdict could make the row a failure; what an
idempotent answer can leave beside it is a cancellation. `FaultlessOK` is what holds until the first fault, and
gives `StrandedOnlyByFault`. In the worker `HeldAt` is the time a request can have
held the GPU at each place; `GpuHeldBounded` is its maximum.
`FullModeIsEarned` needs `SettledOK`: a stage that succeeded is accepted by
Control and not run again, which takes every step of the composed system, other
clients' jobs included. `PreflightUsesDispatch` says that the composition leaves
`Dispatch` what it is, which carries its theorems over.

*TaskWorkflow.* `IInv` is `TypeOK`, `Rows`, no problem away from `idle` while
the process is down, and at most `Concurrency` workflows at once. `Rows` says of
each problem that its folder, outcome, report and rollouts go with the place it
is at. Its parts are needed by one another: `ResumeAgreesWithReports` relates a
report of an earlier process to the markers it left, so `FolderOK` carries that
relation through crashes (`.finished` only beside the failure marker and a
report), and `MarkersOK` says when `Start` has removed them and the end of the
run not yet written them; `ReportsMatchFolder` needs `FinalOK`, what the final
file is at each place; `OnlyOrphansDisturbTheGate` needs `RolloutsOK` and, for
two workflows that are both let in, the cardinality of `Busy`.
`GateSeesTheFastest` has an invariant of its own, `BestInv`: the best candidate is
the fastest comparable one of the steps collected so far, and the gate opens
when all are. `Collect` folds `Faster` over a trajectory, so this needs
induction over its length (`FoldAdds`). The library's induction theorems take an
operator; `Induct` gets the same for a set of numbers from the theorem that the
strict subsets of a finite set are well-founded, which takes none.

*Benchmark.* `ProcessOK` follows the gates: those of a label are complete when
the next label's start, so both are complete at the first manifest, which
names the text read; the text built is that one. It alone gives
`TimedOnlyWhatPassed`. `VerdictOK` adds what a claim in a summary was made of
and what an exit code says of the final manifest; `RowsOK`, that a row is
`RowOf` its ended process; `ReportOK`, that what is called improved claims it
and that its manifest names the reported text. A row stays right because a
process that exited is never touched again (`ExitedStays`).

Outside the prover's reach, and left to TLC: liveness under fairness and
everything with `ENABLED` (`EveryoneIsAnswered`, `CandidatesEnd`, `ExecutionsEnd`,
`Answered`, `ProblemsEnd`, `ProblemsFinish`, `QueuesDrain`).

## 6. Disagreements between the code and what is said of it

One is a run that TLC ends with a counterexample.

* `token_hard_cap`: a test says concurrent reservations enforce a hard cap; a
  refused candidate releases another one's reservation and a third is let in.

The others were met while modelling. The models behave as the code does, and
the properties say what is left of the claim:

* A job cancelled before its container is registered (`sandbox.py:450`) runs
  beside the next one, where one concurrent job is declared:
  `OnlyOrphansOverlap` says that only such jobs do. Its row in Control is decided
  while it runs; `ProgramsAreLeased` allows that of such a container, under the
  attempt that decided the job, and of nothing else.
* The source guide says the final file is emitted only for an improvement; a
  deadline that passes once the node has written it reports a timeout beside it
  (`workflow.py:173`), and every later launch skips the folder as a success:
  `FoldersAgree` says what the file goes with.
* `update_parameters` (`rl_agents.py:316`) walks the keys of a state's entry as if they
  were its techniques: with any state in the memory a policy update raises
  before it asks for anything, and is only logged (`UpdateRaises`).
* A report for a decided job is answered as idempotent, whatever its verdict: a
  job that was cancelled in Control while its lease had expired can be shown as
  `succeeded` by the Supervisor for good (cancelled while queued, resubmitted after
  trimming, run, expired, then cleared by the late cancel request).
  `StrandedOnlyByFault` allows for a cancelled row after a fault, and for no other.
* `profiler_candidate` reads the first of the compile rows that link an executable
  and its query has no order (`repository.py:502`-`518`): with two such rows, one
  without provenance, whether the executable is a candidate is up to the database,
  and one that was can be refused after a later report. `EvidenceStable` says that
  nothing else takes it back.
* A completion of a pending job that was cancelled links its artifacts with no
  attempt (`repository.py:386`-`395`): `LinksAreEvidence` has that case.
* Usage may exceed its reservation, and so the budget, without any refusal: for
  some model families the request carries no limit on the completion, or 12288
  whatever `max_completion_tokens` is (`openai_compatible.py:357`-`374`).
  `BudgetHeld` counts it as `overrun`.
* A dry run of `run_portfolio.py` has its last status in Control from the start, so
  one that was killed looks ended without any file archived; a record directory
  that is used again keeps the events of the former run in the log that is archived
  for the next (`recorder.py:294`, `339`). `ArchiveAgrees` asks for `finished_at` of
  a dry run, and compares the summary with the run's own lines.
* Default techniques are chosen by whether the state's name contains a bottleneck's
  (`opt_ncu_rl.py:1951`-`1960`): `hybrid_bound` gets its own, `memory_latency_bound`
  nothing of memory's, `latency_memory_bound` those of `memory_bound`. `ByName` is
  that list, with nothing used yet, so counts stay history.
* When the report to Control fails, a terminal status already shown is replaced
  by `failed` (`supervisor.py:213`), even if Control took the report:
  `FinishedStays` is of the statuses other than `failed`, once the task is over.
* A job cancelled while its lease is being granted ends cancelled in the
  Supervisor and stays leased in Control until the lease expires:
  `StrandedOnlyByFault` counts the cancellation of such a request as a fault.
* A second cancellation lets the thread of the first kill the next job's
  container: `StrayKillsAreRepeated`.
* A comment says a batch waits for all its generations; `gather` raises the
  first failure and leaves the others running beside the next batch.
* `flush` waits for the lock it holds: `Answered` allows for it.
* A crash while the final file is filled leaves a torn one, which every later
  launch, with `--retry` and `--no-resume` too, takes for a success:
  `should_skip_folder` looks at the name only, and is asked before
  `--no-resume` ("Do not resume from existing results") is.
* The rollouts of a workflow that timed out go on beside the next problem's,
  so more problems than `--concurrency` use the GPU, and the next gate is
  measured beside them: `OnlyOrphansDisturbTheGate` says they are the only ones.
* A writer of the store that finds its payload there answers before the other
  writer has synced the directory; a power loss leaves a row without its
  payload: `OnlyAssumedEntriesAreLost`.
* A cmake that fails or times out leaves its build directory, and later
  requests in the same directory go straight to make (`compile.py:295`), which fails them
  all until the server is started again; they fail, so `OutputIsOfItsSource`
  and `QueuesDrain` hold.
* The profiler worker computes the time left before it waits for the GPU and
  does not look again: a request that waited runs past its deadline. And only a
  timeout kills its process, so that of a cancelled request may run on beside
  the next one's. `GpuHeldBounded` bounds what a request takes, not when.
* Preflight can report `events_only` although Control refused the correctness
  stage's callback: the mode is from what the Supervisor showed. Only full
  diagnostics need Control's rows. `profiler_candidate` looks for the digest of
  an executable in the jobs of all runs.
* The report of verified improvements does not look at a row's status nor at the
  `complete` flags: a task whose NCU profile blocked or whose child was killed
  after its summary may be a verified improvement, and a PyTorch method that
  lost sessions may be the best stable one. A candidate whose text is the baseline's may claim an improvement within
  its 5 %.
* `analyze_portfolio.py:82` accepts summaries of schema 1.0 only, while
  `benchmark_cuda.py` writes 2.0 (`benchmarking.py:17`). `result_analysis.py:135`
  calls a benchmark improved above 1.0 without asking whether a performance
  claim was allowed.
* `FeedbackAgent.run`, which `RLNCUAgent` overrides and nothing else calls, pairs
  answers with candidates by their index in lists of which one lost elements.

## 7. Abstractions

* Payloads, manifests, prompts, archives and logs are left out; an artifact is
  a digest. A validation that only rejects a request is the set of inputs that
  pass.
* `link_run_artifact` is in `ArtifactStore`, not in `JobRepository`: no job
  operation reads its table. Run metadata is read by none. `link_job_artifact` is
  called by no part of the program.
* An executor's verdict is any of the statuses it returns.
* Docker's forced removals succeed. `_remove` swallows a refusal and keeps no
  record, so nothing could be stated of it.
* In `TaskWorkflow` a launch's loop over the dataset and the removal of a folder
  or of the agent's directory are one step each; a marker that cannot be
  written is not created; the recording of a trajectory, with the policy
  update it may trigger, is part of `Collect`, which it can only delay.
* asyncio's semaphore and `wait_for`, Docker and the HTTP transport are
  modelled from how the code uses them.

* In `ArtifactStore` the recorder's own files survive a power loss, and a new
  directory of two letters is synced with its first entry.
* In `Dispatch` and `Preflight` lost requests and answers, leases that end and
  crashes of all services count as faults and are bounded together; the
  registry holds no job of an earlier preflight. What a probe of the
  environment sees is a free choice.
* In `Dispatch` the processes that a trusted compiler starts (nvcc's own children)
  are one program with it.
* A task that `--task-id` names twice is left out of `Benchmark`: its second child
  refuses the folder of the first, and the row it gets is `failed` beside the first
  one's files.
* In `Benchmark` a PyTorch measurement is whether the eager method has a row;
  latencies are session medians, and percentiles of samples are left out.
* In `LegacyServers` the programs of one upload are one process.

## 8. Not modelled

* Authentication, configuration and the trimming of logs: filters on requests
  and constants.
* The portfolio's documents, datasets and the scripts that build them or run
  baselines: sequential file processing without state between runs.
* `agents/feedback.py`'s `run`, `agents/reprofile.py` and
  `NCUFallbackProfilerBackend`: nothing in the program starts them.
* Prompts, parsing of answers, rewards and scores: they steer choices that the
  models leave free. The gap analysis of a policy update cannot take effect
  (section 6).
* The measurement of a rollout's file by `CudaEventsRunner`, its cache by path
  and digest, and the executable that a cache names and that may have vanished
  (`commands.py:199` ends the whole process then): rollouts write to directories of their
  own, and the measurement is one step of `OptimizationMemory` and `TaskWorkflow`.
* `result_analysis.py`: tables of finished runs. The bootstrap's sampling is
  floating point.
* The unpacking of bundles, container command lines and the capability manifest's
  schema: data and validation of one request.

What is not proved: liveness, with everything that needs `ENABLED`. The other
properties of the runs are theorems.
