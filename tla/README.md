# Verification of the EKBDA server

EKBDA is a Go server that keeps an enterprise knowledge base and drives a development
process from it: documents are imported and searched, a requirement is planned and
reviewed by model-backed roles, the approved plan becomes project artifacts, a
controlled code change is executed, delivered and released. This directory holds TLA+
models of the parts of the server whose correctness depends on order, concurrency and
failure, the TLC configurations that check them, and proofs of the properties that hold
for every size of system.

All paths below are relative to `src/`; those of Go files leave out `internal/` as well.
`PROJECT.json` maps every definition of every module to the lines it models.

## 1. The system

One process (`cmd/server/main.go`) holds all services. Several processes may share one
PostgreSQL database; without a database every service keeps its rows in memory behind a
mutex. The HTTP handlers (`internal/httpapi`) check permissions, decode, call one
service method and encode; they keep no state.

| component | state | operations | talks to |
|---|---|---|---|
| `agenttask` | table of tasks with lease and worker; per process a channel, a worker goroutine, a map of cancel functions | Create, Get, List, Cancel, Retry, Start, Close; worker, heartbeat, recovery pass | executors in `planning` and `initiative` |
| `evaluation` | suites, runs with lease and worker; channel, worker, cancel map | CreateSuite, StartRun, CancelRun, RetryRun, worker, heartbeat | runner, answer service |
| `planning` | sessions with a revision, a table of events per session | Create, SubmitClarifications, SubmitRoleReviews, ResolveReviewDecisions, Decide | model provider, knowledge, standards, `agenttask` |
| `initiative` | artifact packages (versioned per project and name), reviews | Create, Review | `planning` (approved sessions), model provider |
| `development` | sessions with a revision; worktrees and containers on disk | Create, Submit, Decide, Execute, Deliver, Recover | `initiative` (approved package), workspace, container runner, code host |
| `release` | releases with a revision, receipts of webhooks | Create, ReconcileCodePlatform, Decide, Trigger, RequestRollback, DecideRollback, TriggerRollback, Reconcile | `development` (delivered session), code host, deployment platform |
| `knowledge` | documents, chunks, versions | Import, MarkMissingSources, Search | embedding, reranking |
| `ingestion` | import jobs | Import, Start, Get; background goroutine | `knowledge` |
| `repositorysync` | reports of synchronisations; per process a map of those running | Sync, Get, List, LatestCompleted | git, `knowledge` |
| `standards` | versioned packages of rules | CreatePackage, ApplicablePackages, Validate | - |
| `agentquality` | none | quality gates on results | used by `agenttask` executors |
| `access`, `auth`, `answer`, `embedding`, `reranking`, `workspace`, `config` | grants, traces, worktrees | lookups and calls to providers | - |

### Which behaviours are hard

* **Leases and takeover** (`agenttask`, `evaluation`). Any process may claim a row whose
  lease ran out. The old holder may still be alive: its renewals, its cancel signal and
  its final write arrive late. Rows, channels and cancel functions are three copies of
  what is going on, updated in separate steps.
* **Read, call out, compare and swap** (`planning`, `development`, `release`). A session
  is read, a provider, a container or a code host is called, and the session is written
  back if its revision has not moved. The effect of the call remains when the write is
  refused.
* **Two-phase execution and recovery** (`development`). Execute and Deliver record that
  they began, act outside the database and record the outcome; Recover decides, by age
  alone, that a session which began will not finish.
* **Webhooks** (`release`). Notifications of the deployment platform arrive duplicated,
  out of order, and possibly before the call that started the run has stored the run's
  identifier.
* **Whole copies without a lock** (`knowledge`, `ingestion`, `repositorysync`). A
  document is read, embedded and written back as a whole, with no lock and no condition
  on the row. What keeps two writers apart is one primary key, that of the table of
  versions, in the same transaction. (`initiative`, `standards`, `access` and
  `evaluation` allocate their versions under a lock of the database.)
* **A world that moves while it is read** (`workspace`, `ingestion`). Files are read one
  by one while people edit, commit and check out; what was not seen is marked as
  deleted.
* **One task executed twice** (`planning`, `initiative` under `agenttask`). A task whose
  lease was lost is executed again while the first execution may still be at work; role
  reviews are kept apart by a revision, packages by nothing but their version.
* **Background jobs without recovery** (`ingestion`, `repositorysync`).

### What makes each component correct

* `agenttask`, `evaluation`: a settled row never changes; a task is not executed twice
  at a time unless a lease was lost; every accepted task settles; retries form chains of
  at most three attempts; a cancel request is not lost.
* `planning`: a session moves only along its diagram; the event log has exactly one
  event per revision; an approval is of the content that was reviewed.
* `initiative`: version numbers are unique per project and name; development takes no
  step but on a package whose every artifact was last approved for what it says, and
  whose trace leaves no requirement out.
* `development`: a session is executed and delivered at most once; what reaches the
  remote was approved by a second person and verified; the evidence is honest; no
  session stays in flight for ever; recovery disturbs nothing that is alive.
* `release`: a release moves only along its diagram, however webhooks arrive; a
  production release promotes an artifact that a staging release proved; rollback needs
  its own approval.
* `knowledge`, `ingestion`, `repositorysync`: the versions of a document are a log that
  no stale copy breaks; a job or a report that says completed tells the truth about the
  documents; what is imported from a repository is one commit.

## 2. Plan and modules

Order: the component with the most concurrency first, then those that act outside the
database, then the workflows and the documents.

| step | modules | state |
|---|---|---|
| 1 | `JobLifecycle` (abstract), `AgentTask` (refines it), `AgentTaskProofs` | done |
| 2 | `EvaluationRun`, the sibling of `AgentTask` (refines `JobLifecycle` too), `EvaluationRunProofs` | done |
| 3 | `Release` (refines `RevisionLog`), `ReleaseProofs` | done |
| 4 | `DevelopmentSession` (refines `RevisionLog`), `DevelopmentSessionProofs` | done |
| 5 | `RevisionLog` (abstract: rows with a revision and one event for each), `Planning` (refines it; composed with the role-review task of `agenttask`), `PlanningProofs` | done |
| 6 | `Knowledge` (documents and their writers; refines `RevisionLog`), extended by `DirectoryImport` and by `RepositorySync`; `KnowledgeProofs`, `ImportProofs` | done |
| 7 | `ProjectPackages` (composed with the task that makes a package and with development, which asks for approval), `ProjectPackagesProofs` | done |

Each `MC` module extends the module it is named after and adds symmetry or a view; each
`.cfg` gives the constants of one run. The two abstract modules are used by `INSTANCE`:
`JobLifecycle` by `AgentTask` and `EvaluationRun`, `RevisionLog` by
`DevelopmentSession`, `Release`, `Planning` and `Knowledge`. Where a component calls
another, the caller's module holds what it needs of the other: `Planning` and
`ProjectPackages` have the claims of a task that may be executed twice (what `AgentTask`
says of a claim is proved there), `ProjectPackages` has the steps of development that
ask for approval, and `DevelopmentSession` takes that approval as a choice.

Out of the prover's reach, and checked by TLC alone, is everything under fairness
(`Settles`, `CancelStops`, `RunsSettle`, `InFlightEnds`): liveness and `ENABLED`. What
is left is listed at the end.

## 3. Agent tasks

### State

`AgentTask` has one row per task id (`tasks`), one worker record per process (`worker`),
one channel of ids per process (`queue`) and, per process, the cancel calls that have
written their row but not yet looked for an execution to interrupt (`signals`). `faults`
counts what the environment did wrong.

| in the model | in the code |
|---|---|
| `tasks[t].status`, `.cancel`, `.owner`, `.attempt`, `.retryOf`, `.code` | columns of `agent_tasks` |
| `tasks[t].lease` | `lease_until >= now` |
| `owner = Gone` | the `worker_id` of a process that has exited (ids are random, never reused) |
| `worker[w].phase` | where `Service.process` is: before the claim (`idle`), after it (`claimed`), in the executor (`running`), after it (`returned`), before `Complete` (`decided`) |
| `worker[w].ctx` | `workContext.Err()` |
| `worker[w].beat` | the heartbeat goroutine has not given up |
| `worker[w].stopping` | `s.ctx.Err() != nil` |
| `queue[w]` | `s.queue` |

Actions follow the methods: `Create`, `Retry`, `RequestCancel` and `SignalCancel` (the
two halves of `Cancel`), `Boot`, `Tick` and `Dequeue` (the branches of `worker`),
`Begin`, `Return`, `Decide`, `Complete` (the parts of `process` between store calls),
`Heartbeat`, `Timeout`, and the environment's `LeaseExpires`, `Close`, `Stop` and
`Crash`.

Each store call is one step: the memory store holds its mutex, the PostgreSQL store uses
one statement, and the two agree on every condition modelled here. Two simplifications
are argued in the module: reading the original and inserting its retry are one step,
because a row that may be retried never changes again (which is itself checked and
proved as `SettledFrozen`); a crash between inserting a row and enqueueing its id is the
same as one right after both. A process that is closing does not claim: `process` is not
called, or its claim runs under a cancelled context.

### Faults and fairness

A fault is a crash, a shutdown, a store call that fails (for a claim, before or after it
took effect), or a lease that runs out although its holder's heartbeat is at work.
`MaxFaults` bounds how many happen; everything else is unbounded.

`Fairness` asks that processes are restarted, that the goroutine of a live process takes
its steps, that executors return and that time passes. Executors return because each
call they make takes the work context, which has a deadline; `Timeout` itself is not
assumed to happen. Clients are never obliged to do anything.

### Runs

| run | instance | shows |
|---|---|---|
| `agenttask_safety` | 2 tasks, 2 processes, channel of 1, 1 fault (765 000 states up to symmetry) | `FlagAgrees`, `OneExecution`, `SettledFrozen` |
| `agenttask_live` | 2 tasks, 1 process that is restarted, channel of 1, 2 faults | `Settles`, when ids are dropped and executions lost; refinement of `JobLifecycle` |
| `agenttask_cancel_kept` | 1 task, 2 processes, no fault | violated: see Findings |

Two processes are enough for a takeover; a third would only repeat what the second does,
and `OneExecution` is proved for any number. For liveness one process suffices: after a
restart it has another identity, and takes over from the one it was. A channel of one id
overflows as soon as two tasks wait. `RetryChain` (chains do not fork and end at three
attempts) and `TypeOK` need no run: they are proved for any number of tasks, and `Retry`
of `JobLifecycle` asks the same of each retry that TLC sees.

`FlagAgrees` relates the flag of a settled row to its status, and its error code to what
happened: `Cancel` writes the row first and looks for the execution to interrupt after
it, when the process may be at work on another task. If it found that one, a task nobody
asked to cancel would end as `lease_lost` with nothing wrong around it.

`Settles` is stated for tasks nobody asked to cancel. Of the others it is false: a
cancel request on a running row sets the flag and leaves the row to its worker
(`agenttask/memory_store.go:62`), and a row with the flag is neither listed nor claimed
(`:80`). If the process exits between the request and its next look at the flag, the
trace ends in a row that is `running`, has its flag set and a lease in the past, and
that nobody touches again. `planning/AGENT_TASK_STANDARD.md:21` draws the arrow from
running to canceled and `:56` says that an expired lease is executed again; neither says
what becomes of a row with both, so this is described here and not listed as a finding.

### Proofs

`AgentTaskProofs` proves, for any number of tasks and processes, any channel capacity
and any number of faults: `TypeCorrect`, `RetryChainCorrect`, `FlagAgreesCorrect`,
`SettledFrozenCorrect`, `OneExecutionCorrect` and `LifecycleImplemented`. The only
assumption is `Constants`: a finite set of tasks, two markers outside the sets, a
positive capacity.

The argument has three parts. `Typed` is the type invariant together with the fact that
a worker about to write has chosen an outcome; without it the row it writes could not be
typed. `TableMove` then lists what a step of any actor can do to the table; `Moves`
proves that every action is one of these. From there `RowShape` (a row that is not
running names no worker and has no lease, a row that does not exist names no original)
is inductive, and gives the freezing of settled rows, `RetryChain`, the first half of
`FlagAgrees` and the refinement, without looking at workers again. `OneExecution` needs
`Held`: while no fault has happened, whoever works on a task owns its row, its lease and
a heartbeat, so `Claimable` is false for it. The second half of `FlagAgrees` needs
`Honest` besides: until then a signal that is still to be sent, and an execution that
was interrupted, belong to a task that was asked to be cancelled or has settled
(`Wanted`), which no operation takes back; so the final read of an interrupted execution
sees the flag, and nobody writes `lease_lost`.

Only model-checked: `Settles` (liveness).

## 4. Evaluation runs

`EvaluationRun` has the variables of `AgentTask` with `runs` for `tasks`. What differs:

| in the code | in the model |
|---|---|
| `RequestCancel` settles a running row at once and clears its worker | `RequestCancel` writes `CanceledRow`; the worker goes on until it notices |
| `process` reads the suite after the claim, under the service context | `ReadSuite`, which fails when the process is closing |
| `process` reads the row for the cancel flag before the execution | `Check` |
| a score below the threshold is a completed run whose gate failed | the two verdicts of `Return` |
| shutdown after the execution leaves the row running | `Return` of a process that is stopping is its `Exit` |

`Row.gate` is the gate that a build waits for, and `GateAgrees` relates it to the
status. The report is what the gate says of it.

Two fairness conditions. `FairSpec` lets deadlines pass: `Settles` holds, cancel or not.
`PatientSpec` does not: an execution whose context nobody cancels may last for ever, so
that `CancelStops` has to be achieved by the signal, the check or the heartbeat.

| run | instance | shows |
|---|---|---|
| `evaluation_lifecycle` | 2 runs, 1 process that is restarted, channel of 1, 2 faults; `FairSpec` | types, `GateAgrees`, `Settles`, refinement of `JobLifecycle` |
| `evaluation_takeover` | 1 run, 2 processes, 2 faults; `PatientSpec` | `OneExecution`, `SettledFrozen`, `CancelStops` |

A retry and its original need two runs and a lost execution needs two holders; the first
run has one, the second the other. Their combination is `agenttask_safety`'s, where the
same fence protects the row. `CreateSuite` is not modelled: it allocates the next
version of a name under a lock and races nothing.

Two windows of a shutdown contradict the documentation. A process that closes between
the claim of a run and the read of its suite (`evaluation/service.go:227`) reads it
under a context that is already cancelled and settles the run as failed,
`suite_unavailable`; one that closes after its last check of the service context
(`:248`) takes the cancelled work context for a lost lease and settles it as failed,
`lease_lost`. `README.md:179` says that a service that exits forges no cancelled or
failed verdict and that another instance resumes the run. Both windows are in the model,
so no property of these runs claims what that line says: section 10.

### Proofs

`EvaluationRunProofs` proves, for any number of runs, processes and faults and any
capacity: `TypeCorrect`, `GateAgreesCorrect`, `SettledFrozenCorrect`,
`OneExecutionCorrect` and `LifecycleImplemented`. The argument is that of section 3:
`TableMove` lists what a step may do to the table and `RowShape` follows from it, and
with it everything that is said of rows. The difference is in `Held`. A cancel takes a
running row away from a worker that goes on executing, so a worker need not own its row.
`Keeps` says what it does have while nothing has gone wrong: it owns the row and the
lease, or the row has settled. Either way nobody else can claim the row, and
`WorkerMove`, which lists what a step does to the workers, carries `Alone`: no two of
them are at work on one run.

Only model-checked: `Settles`, `CancelStops` (liveness).

## 5. Releases

### State

| in the model | in the code |
|---|---|
| `requests[r]` | `release_requests`: `started` is the set of phases whose run id is stored, `source` the evidence of the code platform, `pinned` the digest that a production release must deploy |
| `log[r]` | `release_events` |
| `receipts` | `release_provider_receipts` |
| `calls` | a `Trigger` or `TriggerRollback` that has the provider's answer and has not written it, with the copy of the row it read |
| `runs[r][phase]` | the provider's run: the states it has been in, each of which a webhook may still report |

Every method reads a copy of the row, checks it, and compares and swaps on the revision.
Since every write moves the revision, a swap that succeeds finds the row that was read,
and read, checks and write are one step. Only a trigger acts outside in between: there
`TriggerCall` starts the run, `TriggerStore` writes or is refused, and `TriggerLost` is
the process that exited. The provider is external and modelled from how the code uses
it: one run for each idempotency key, whatever the number of calls; its end is
`RunMoves`. Webhooks are not queued: any state a run has been in may be reported at any
time, any number of times, out of order, under up to `Copies` event ids. Webhooks of the
two platforms, and different webhooks of one, have different event ids. A webhook about
a run whose id is not stored is refused, as `release/CONTROLLED_RELEASE_STANDARD.md:33`
says. The evidence of an artifact (signature, provenance, bill of materials, checks) is
one Boolean.

### Runs

| run | instance | shows |
|---|---|---|
| `release_one` | 1 staging release, 2 people, 1 digest, 1 event id per report; fair (450 000 states) | `AppliedOnce`, `Authorised`, `Truthful`, `ImplementsRevisionLog`, `NoRegress`, `RunsSettle` |
| `release_promotion` | 1 staging and 1 production release, 2 digests | `PromotionSound` |

One release is enough for the first run because releases share nothing but receipts; the
second has the pair that a promotion joins, and two digests so that the wrong one can be
deployed. Its view leaves the log out, which no action reads, and its constraint `Bound`
follows each release to its end with one webhook to spare.

`Fairness` is about the provider alone: it ends the runs it starts, and repeats the
webhook about the end until it is accepted. The server owes nothing by itself: a release
moves when somebody calls.

### Proofs

`ReleaseProofs` proves, for any number of releases, people, digests and event ids:
`TypeCorrect`, `RevisionLogImplemented`, `AppliedOnceCorrect`, `AuthorisedCorrect`,
`TruthfulCorrect`, `PromotionSoundCorrect`, `NoRegressCorrect`, and `LogFaithfulCorrect`,
which says of a state what the refinement says of the steps: a log has one event for
each revision, each starting where the one before it ended. `Constants` assumes that
staging and production ids are different and that the marker is none of the values.

The invariant `Inv` adds to the properties: `CallsRead` (the copy in a call is a row
that was ready to be triggered, and is the row itself while the revision is the same),
`RowsSound` (what each status implies about the other columns), `RunsSound` (a run
belongs to a row that was approved), `Promoted` (the pinned digest is the artifact of a
staging release that keeps it), `LogStarts` and `CausesKnown` (an event caused by a
webhook has its receipt). The properties are not inductive without them:
`PromotionSound`, for example, speaks of releases that are deployed, and rests on a
digest pinned long before. `RowStep` lists the nine ways in which a row may change and
`Steps` proves that every action is one of them or leaves the table alone; the rest is
by cases on that list. So is the refinement: `StepMoves` shows that each of the nine is
one of `StatusMoves`, the ways that the log allows, and `LogGrows` that a write is one
step of the log, which `CallsRead` makes true of a late answer as well.

Only model-checked: `RunsSettle` (liveness).

## 6. Development sessions

### State

| in the model | in the code |
|---|---|
| `sessions[s]` | `development_sessions`; `evidence[k]` is `execution` or `delivery`: its id, who asked, how it went, and how far the remote got as far as it says |
| `log[s]` | `development_session_events` |
| `requests` | calls that have read the row and passed every check and have not written; equal calls are one element, which stays as long as one of them may be left |
| `runs[i].stage`, `.passed` | where `Runner.Run` or `Deliverer.Deliver` is, and what it returned |
| `runs[i].directory`, `.remote` | the directory on the disk; nothing, the branch, or the pull request on the remote |
| `runs[i].told` | `branch_pushed` and `pull_request_url` of the evidence to be stored |
| `runs[i].late` | `updated_at` of the row is before the cutoff of Recover |
| `passes[w]` | the pass of `Recover` on a server: what it looks for, the rows it listed and has not visited, `cleanupIDs` |

`Ask` is a method up to its write; `Submit`, `Decide`, `Execute`, `Deliver` are the
writes, and the last two begin a run. `Isolate`, `Publish`, `Return` are the run,
`Record` and `Lose` its end. `Look`, `Mark`, `Clean`, `Abort` are the pass. A session
that the runner fails before it has a directory goes from `started` to `returned`.

Baseline, reviews of the package, patch, scanners, standards and commands decide by a
choice: a request that fails there has no step, a run that fails there returns `failed`.
A push or a pull request may take effect and be reported as failed (`told` stays behind
`remote`), after which `Deliver` attempts nothing more. All servers share the directory
trees, as the standard assumes when it speaks of the directories of other instances, and
have both the runner and the deliverer enabled; where one is disabled, Recover skips its
kind. The list of at most 1000 sessions of a pass is taken to hold them all.

### Faults and fairness

`MaxRequests` bounds the requests under way that are not alike. `MaxFaults` bounds
crashes, passes that fail, and runs that outlive their timeout and grace period on a
live server. A lost write of an outcome is not counted: the write uses the context of
the client's request, so any client that goes away causes one. `Fairness` asks that runs
return (every call they make has a deadline), that their outcome is written or lost,
that time passes, and that each server's 30 s ticker runs its passes.

### Runs

| run | instance | shows |
|---|---|---|
| `development` | 1 session, 2 people, 2 servers, 2 ids, any number of equal requests, 2 faults; fair | `LogFaithful`, `OneRunEach`, `SecondHand`, `Truthful`, `ImplementsRevisionLog`, `OnlyAbandonedCleaned`, `InFlightEnds` |

Sessions share nothing but a pass, which visits them in any order; two servers let two
passes, or a pass and a late outcome, meet at one row. Two ids are what a session needs
if it runs once of each kind, and let it run twice of one kind if it does not. One kind
of request at a time suffices for the race of two: in each status only one operation is
accepted, and a copy of it may stay behind and write late.

`LogFaithful` is the strongest invariant: the log equals `Story` of the row, so that no
interleaving adds, drops or reorders an event. `ImplementsRevisionLog` says of steps what
it says of states: the log only grows, by one event for each write of a row, and the
events lead through `Workflow` to the status of the row. What an event says of the
status is not stored with it; `Brings` is what its type stands for.

`OnlyAbandonedCleaned` says what recovery must not remove. That it removes everything it
should is not so: `Recover` marks the sessions one by one, keeps the ids to clean up
after in a local variable, and returns at the first error before `CleanupStale`
(`development/service.go:332`). A pass that fails, or a server that exits, between a
mark and the cleanup leaves the directory of the marked run; the session is no longer in
flight, so no later pass lists it and the directory stays. TLC finds this trace when the
removal of every marked run is asked for.
`development/CONTROLLED_EXECUTION_STANDARD.md:33` and
`development/CONTROLLED_DELIVERY_STANDARD.md:110` say that only directories of the run
in question are removed, which is what is checked and proved; neither says that the
removal is tried again.

### Proofs

`DevelopmentSessionProofs` proves, for any number of sessions, people, servers, ids,
requests and faults: `TypeCorrect`, `LogFaithfulCorrect`, `RevisionLogImplemented`,
`OneRunEachCorrect`, `SecondHandCorrect`, `TruthfulCorrect`,
`OnlyAbandonedCleanedCorrect`. `Constants` assumes only that the marker is none of the
values.

The inductive invariant `IInv` rests on three facts.

* The status of a row fixes its revision (`Rank`) and what its other columns may say
  (`RowSound`), so that the log can be computed from the row alone: this is what turns
  `LogFaithful`, which speaks of a whole history, into a fact about one state
  (`LogTells`).
* Whoever holds a revision - a request, a run, a pass of recovery - knows the status of
  the row as long as the revision is the same (`RequestsSound`, `EvidencesSound`,
  `PassesSound`). The compare-and-swap therefore writes only what follows from the row
  as it is.
* A session names a run before the run exists, so the two name each other (`Named`,
  `Tells`). A second run of one kind would have to be named by a session that names the
  first.

`RowStep` lists the six ways in which a row is written and `GoodStep` what each does to
row and log. `TableStep` and `RunsStep` say what any step does to the table and to the
runs, and `Onward` that a run only goes forward; with these, what is known is carried
over a step without opening its action again.

For the refinement `StepInv` proves with the invariant that a step writes one row in one
of these ways and logs it, or leaves table and log alone (`Goes`). `RowStepMoves` shows
that each way is one of `Workflow`, and `LogGrows` that the write is one step of the
log; `Led`, which says that the log leads to the row, is carried along.

Only model-checked: `InFlightEnds` (liveness).

## 7. Planning sessions

### State

`RevisionLog` is what a store with optimistic locking promises: rows with a status and a
revision, and a log that gains one event per revision, of a move that is allowed.

| in the model | in the code |
|---|---|
| `sessions[s]` | `planning_sessions`; `context` and `plan` are the snapshot the plan was built on and the one it cites, `reviewed`, `reviewContext`, `cites`, `items` the review cycle, `resolved` what people settled |
| `log[s]` | `planning_session_events` |
| `requests` | calls of the service under way, each with the copy of the row it works on; equal calls are one element, which stays as long as one of them may be left |
| `tasks[t]` | the role-review rows of `agent_tasks`: what they are for, and how often they were claimed |
| `world` | how often knowledge, standards or the repository changed |

`Create` is one step: nobody else knows the session before it is inserted. The other
four operations are split where the code waits. `AskClarify`, `AskReview`, `AskResolve`,
`AskDecide` are the handler (who may ask) and the service up to its checks; `Gather`
takes the snapshot; `BuildPlan`, `RoleReturns` (one goroutine each) and `Coordinate` are
the provider; `SubmitClarifications`, `SubmitRoleReviews`, `ResolveReviewDecisions`,
`Decide` are the writes, each of the whole copy under the compare-and-swap of
`Store.Update`. `Execute` and `Report` are the executor of `cmd/server/main.go` and the
worker that settles the task: only the last claim settles it. `Fail` and `Crash` may
come at any point, and a write may be stored and reported as failed.

What a provider returns is a choice. It may cite any snapshot, and the code refuses what
does not cite the one it was given; a snapshot is the moment it was taken at. Texts,
questions and answers are left out. A task is taken over by a later claim whether or not
the earlier one is still at work, which is more than `AgentTask` permits.

### Runs

| run | instance | shows |
|---|---|---|
| `planning` | 1 session, 2 people (an admin and an approver), 2 roles, 2 items, 2 requests at a time, 1 task claimed twice, 1 change of the world | `TypeOK`, `DecidedAsReviewed`, `TaskTruthful`, `ImplementsRevisionLog`, `NothingReplaced` |

Either person may be the author, and the other is then the second. Two requests are a
race, and one of them may be the second execution of the task. Two roles let one be
missing; one change tells a snapshot of before from one of after. Sessions share
nothing.

### Proofs

`PlanningProofs` proves all five, `TypeCorrect`, `DecidedAsReviewedCorrect`,
`TaskTruthfulCorrect`, `RevisionLogImplemented` and `NothingReplacedCorrect`, for any
number of everything. In `IInv`, `RowOK` says what a status implies of the other columns
(`Paced` how often the row can have been written, `Planned` that a plan cites its
snapshot, and so on). `InHand`: the copy of a request has passed the checks of its
operation, and is the row itself while the revision is the same. `Progress`: what a
request has gathered is of one snapshot, no older than its copy's. `Told`: an execution
that says stored knows the event it stored. Whoever writes has, by the compare-and-swap
and `InHand`, a copy of the row as it is; `RowOK` of the copy is then `RowOK` of the
row. `TaskTruthful` is not inductive without `Told`, because the completion of a task
comes after its write and other executions lie between.

## 8. Knowledge, directory imports, repository synchronisation

### State

`Knowledge` has the documents and the part of their callers that writes them; the two
modules that extend it add what the callers find.

| in the model | in the code |
|---|---|
| `rows[d]` | `knowledge_documents`; `content` stands for everything an import sets and is compared by hash |
| `versions[d]` | `knowledge_document_versions`, with the primary key (document, version) |
| `calls[c]` | where a caller is: the file it imports, the copy of the row that `FindBySource` gave it, the copies of `List` it has yet to mark as deleted |
| `disk`, `changes` | the files of the directory |
| `jobs[j]` | the status of `ingestion_jobs` |
| `trees`, `head`, `work`, `edits` | the commits, HEAD and the work tree of the repository |
| `running` | the map of synchronisations under way |
| `syncs[c]`, `reports` | what a synchronisation holds, and the table of reports |
| `still`, `alone`, `undone`, `touched` | nothing in the code: what the properties need to know of others |

`Find`, `Save`, `Update` and `StoreFails` are `Import` between its read and its
transaction, `Create` the request that creates one document; `ListActive` and
`MarkMissing` are `MarkMissingSources`. `DirectoryImport` adds `Start`, `Visit` and
`VisitUnlisted` (the walk), `Finish`, `Abort`, `Crash`, and `FileChanges`.
`RepositorySync` adds `Begin`, `ReadFile`, `Status`, `Accept`, `Refuse`, `ListUnseen`,
`WriteDocument`, `SaveReport`, `Fail`, `ProcessDies` for the synchronisation and `Edit`,
`Commit`, `Checkout` for the people at work. Its callers are `Syncs`, those that are not
`People`: nobody else writes documents there. Its definitions have names other than
those of `DirectoryImport`, because one module proves both.

No action holds a lock. `KeyFree`, the primary key of the versions, is the one thing
that refuses a stale copy. The PostgreSQL repository is modelled; the memory repository
has no such key, and with it two overlapping writers may both write the same version.
One embedding provider is assumed: with another provider `Import` would not skip a file
whose hash is the same.

### Runs

| run | instance | shows |
|---|---|---|
| `directory_import` | 2 jobs, 1 person who creates a document, 2 documents, 2 sources, 2 contents, 3 versions, 1 change of a file (933 605 states up to symmetry) | `CompletedTruthful`, `VersionsKept` |
| `repository_sync` | 3 synchronisations, 3 commits, 2 edits, 2 documents, 2 sources, 2 contents | `SyncTypeOK`, `OnlyCommitted`, `ReportTruthful`, `BaselineUnbroken` |

Two jobs in one directory overlap at every point; a person beside them creates the
second document of a source. Two sources let one be seen and the other be missing; three
versions are a creation, a change and a deletion. Three synchronisations are what a
baseline needs: a report, one with errors or none, and one that starts from the first.

`CompletedTruthful` speaks of jobs beside which nobody else wrote (`alone`), because
nothing in the code promises more: two first imports of one source make two documents,
and the older one stays active. `BaselineUnbroken` follows `README.md:276`: only reports
without errors move the baseline. One process and one name of the repository:
`README.md:279` says that processes do not exclude each other.

`OnlyCommitted` and `ReportTruthful` leave out synchronisations that were `undone`. The
second look at HEAD and the status (`workspace/service.go:123`, `:127`) do not tell a
change that was taken back: a file edited, read and restored, or a checkout of another
commit and back, while the files are read one by one. Then content that was never
committed, or of two commits, is imported under the name of one. Without `undone` TLC
finds both traces. `README.md:269` says that only the committed HEAD of a clean work
tree is synchronised, and that a work tree with changes is refused; in these windows the
work tree is clean whenever it is looked at.

An import job whose process exits, or whose last update fails, says running for ever
(`ingestion/service.go:92`), and a synchronisation that ends early leaves documents of a
commit that no report names. Both are in the model; `README.md:1163` and `:1170` say
that they are not recovered, and no property asks for it.

### Proofs

`KnowledgeProofs` has what both extensions need, for any number of documents, sources,
contents and callers. `Kept`: the versions of a document are numbered from one to the
version of its row, without repetition, and the last is the row. `Known`: every copy in
the hands of a caller is among them. A write of a stale copy would store a version that
is there, and the key refuses it; so whoever writes has a copy of the last version, and
the log grows by one (`LogGrows`). What one write does to the documents of a source is
said once, in `StoreEffect` and `MarkEffect`, and what it leaves alone in `StoreKeeps`
and `MarkKeeps`; imports and synchronisations both stand on these four.

`ImportProofs` proves the properties of both runs.

Of imports: `TypeCorrect`, `VersionsKeptCorrect` (the refinement of `RevisionLog`) and
`CompletedTruthfulCorrect`. `JobOK` says what a job knows while it goes along: `Walked`
and `Faithful` (which files it has come to, and that these are the ones on the disk if
none changed), `Stored` (what it saw is saved, if nobody else wrote), `Marked` (which
documents it has yet to mark), `Done` (what is true once it is over).

Of synchronisations: `SyncTypeCorrect`, `OnlyCommittedCorrect`, `ReportTruthfulCorrect`,
`BaselineUnbrokenCorrect` and `SyncVersionsKeptCorrect`. None of the properties is
inductive; `SyncInv` is:

* `AtMostOne`: the map `running` has one entry at most, and who is busy is in it. Where
  an import must ask whether somebody else wrote (`alone`), a synchronisation need not.
* `ReadsOne`: while HEAD is where it was first seen and nothing was taken back, the files
  read so far are those of the work tree whenever that is clean; and once the status has
  called it clean, they are the commit's. An edit in between makes the work tree dirty,
  and only a change that is taken back (`undone`) makes it clean again without a commit;
  a commit or a checkout moves HEAD. With the second look at HEAD this gives `Committed`,
  of which `OnlyCommitted` is the statement for all.
* `Imports` and `OneEach`: a file that was read is to come or seen; what was seen without
  an error is stored, and no two documents share a source, since a new one is created
  only where `FindBySource` found none and nobody else creates any.
* `LastDescribed`: so when a report without errors is stored, the active documents are
  its commit, source by source, and stay so until a document is written (`touched`).
  `ReportTruthful` counts them, which needs `OneEach`.
* `StartsFrom`: the commit a difference starts from is that of the last report without
  errors, from the moment it is looked up. No report is stored in between, because only
  the busy synchronisation stores any. `ReportsOK` keeps it for the reports that are
  stored, and keeps that the set `Latest`, if it is not empty, has a greatest member:
  `Previous` chooses it, and the provers have no induction to find it with.

TLC checked `SyncInv` as an invariant of the run before it was proved.

## 9. Project packages

### State

| in the model | in the code |
|---|---|
| `packages` | `project_packages`: name, version, planning session, content; `whole` and `covered` are what a reader and what `traceGaps` says of its trace |
| `reviews` | `project_package_artifact_reviews` |
| `calls` | creations under way, by a request or by an execution of a task |
| `tasks[t]` | the project-package rows of `agent_tasks` |
| `works[w]` | the package of a development session, and how many of its steps have begun |
| `grants` | requests to `development` that found the package approved and are still to write |

`Ask`, `Build`, `Create`, `Fail` are the creation; `CreateTask`, `Execute`, `Report` the
task around it; `Review` a review. `Admit` is the call of `requireApprovedPackage` in
`Create`, `Execute` and `Deliver` of `development`; `Begin` inserts the session and
`Proceed` writes it as executing or delivering, under its revision; `Withdraw` is a
request that ends in between. A draft is a choice among all sets of artifacts and all
traces with at most as many records as there are requirements, and the checks of the
code (`ValidArtifacts`, `ValidTrace`) decide which of them are stored. The definition
hash is the definition itself. Version and sequence are allocated in one step with their
row: both are taken under a lock that is held until the row is there.

### Runs

| run | instance | shows |
|---|---|---|
| `packages` | 1 session, 1 name, 2 artifacts, 2 documents (API and test), 2 requirements, a list of 2 of 3 reviews, 1 task claimed twice, 1 development session of 3 steps, 2 requests at a time (530 000 states) | `TypeOK`, `TaskTruthful`, `StandsOnReview` |

Two requirements let one be traced twice and the other not; a list that is shorter than
the reviews lets the end be cut off, as happens in the code after 200; two creations of
one name are two versions, which may differ or be the same. Three steps of development
are its creation, execution and delivery; two requests at a time let one be written
after another, on a copy that has changed or an approval that is gone.

`StandsOnReview` compares what development asks (a list that ends early, and the gaps of
the records) with what it should stand on (the last review of each artifact, and a trace
of every requirement), at the moment it asks; and it says that each step was let pass
for itself, since the step before it. It does not say that the package is approved when
the step is written. Between the check (`development/service.go:73`, `:145`, `:238`) and
the write (`:106`, `:171`, `:259`) nothing holds the reviews: the write compares the
revision of the session only. A review that asks for changes in between is missed by
that step, and by no later one. TLC finds this window when approval is asked for at the
write.

The comparison holds because the list is by artifact and the last review
first: what is cut off is missing, never out of date. More than 200 reviews may thus
refuse a package that is approved, and never grant one that is not.

`TaskTruthful` follows a task that is executed twice: it leaves two versions, of which
one may have gaps, and names one that is whole. Only the execution that claimed the task
last may settle it; without the worker in the condition of `Complete` the one that lost
its lease would. `planning/AGENT_TASK_STANDARD.md:57`
has it so: packages use versions that are never replaced.
`planning/PROJECT_PACKAGE_STANDARD.md:49` numbers requirements in the order of the PRD;
the code accepts the records of the trace in any order, and so does the model.

### Proofs

`ProjectPackagesProofs` proves `TypeCorrect`, `TaskTruthfulCorrect` and
`StandsOnReviewCorrect` for any number of everything and any length of the list. `IInv`
adds `Numbered` (reviews are finitely many, and no two of an artifact share a number),
`CallKnows` (what an execution knows of its task and of the row it stored), `TaskOpen`,
`OneEach` (a claim is that of one execution) and `GrantsKnown` (a request names its
session unless it is to create one). `EveryRequirementTraced` counts: as many records as
requirements, none of which repeats, leave none out; hence a trace without gaps is
whole. That the first review that is listed of an artifact is its last one follows from
`ListedFromTheFront`: whatever is ahead of a listed review is listed too.

## 10. Findings

* **A cancel request can be lost** (`agenttask_cancel_kept`). `Service.process` reads
  the row for its cancel flag and then writes the outcome with the flag of its own older
  copy. A request between the two is acknowledged to the caller and overwritten.
  `planning/AGENT_TASK_STANDARD.md:65,120` promise the opposite.

* **A shutdown forges a failed verdict.** An evaluation whose process closes between its
  claim and the read of its suite (`evaluation/service.go:227`), or after the last check
  of the service context (`:248`), is settled as failed, `suite_unavailable` or
  `lease_lost`, though nobody took it over. `README.md:179` says that a service that
  exits forges no cancelled or failed verdict, and that another instance resumes the
  run. The model has both windows (`ReadSuite` and `Decide` of a process that is
  stopping). There is no run for this one; TLC finds both traces, with the shutdown as
  the only fault, when a process that is stopping is required not to settle a run with
  these codes while it holds the lease.

Other places where the code does less than one might wish, and where no sentence of the
documentation is plainly contradicted, are described with their component: the cancelled
task that stays running (section 3), the directory that stays (6), the change that is
taken back while a repository is read (8), the review that comes between the check and
the step of development (9).

## 11. Not modelled

`PROJECT.json` lists every component with its status and reason.

* **No state whose order matters**: patches, the catalogue of commands, containers and
  scanners of `development` (their verdict is a choice of `DevelopmentSession`); the
  export of packages; `answer`, `auth`, `embedding`, `reranking`, `config`; scripts and
  documents.
* **State that races nothing**: `standards` and `access` store versions that are
  allocated under a lock and never change, and look them up; a change of standards is
  `WorldMoves` of `Planning`. `evaluation.CreateSuite` is of the same kind.
* **Partly modelled**: `knowledge` without `Search`, which reads and ranks; `workspace`
  without `Validate` and `Inspect`, which read like `Read` and store what they saw;
  `agentquality` as the two gates that settle a task; `httpapi` and `cmd/server` as far
  as a handler or an executor decides something of its own.

What a continuation would add: the liveness of `Planning`'s tasks (which is
`AgentTask`'s `Settles` under the gate of `Report`), and a second process for the
synchronisations once the code has a lease for them, as `README.md:279` announces.
