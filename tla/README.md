# A TLA+ model of DeepScout

DeepScout answers a research question with an autonomous *run*: an API request
creates it, a durable job hands it to a worker process, the worker's
orchestrator plans tasks, searches, extracts, verifies and reports, and a person
may have to approve more budget or answer a question on the way. Monitors start
runs by a schedule, the browser follows their events, and what they teach
changes the policies of later runs. All shared state is in PostgreSQL. This
directory models the parts where several processes meet over that state, and the
parts of an execution that must survive being executed again; TLC checks them and
TLAPS proves the main results.

## Inventory

| Component | Code | State | Operations |
|---|---|---|---|
| job queue and worker loop | `store.py` 2421-2567, `jobs/service.py`, `jobs/worker.py` | `research_jobs`: status, lease token and deadline, attempts, idempotency key | enqueue, claim, complete, fail, recover stale jobs |
| run lifecycle | `routes/research_runs.py`, `orchestrator.py`, `store.py` 288, 1741 | `research_runs.status` | execute, resume, cancel; plan, pause, finish, except clauses |
| human reviews | `hitl/__init__.py`, `routes/reviews.py`, `store.py` 1801-1957 | `review_requests`, run budget | create or reuse, approve, reject, respond, expire, supersede |
| task graph and worker pool | `workers/pool.py`, `contracts/dependency_gate.py`, `tasks/graph.py`, `store.py` 2113-2260 | `research_tasks`, checkpoints | claim, run, retry, reclaim, block, replan |
| budget | `domain/budget.py`, `budget_gate.py`, `store.py` 2072 | consumption and limits in the run row | reserve, exhaust, extend |
| research planning | `planner.py`, `runtime/plan_repair.py`, `dependency_validator.py`, `planner_policy.py`, `tasks/graph.py` | a draft, until `save_plan` | validate, repair, cut, repair again, trim, store |
| phases and evidence contracts | `phases/`, `runtime/corrective_research.py`, `contracts/coverage.py`, `orchestrator.py` | sources, claims, evidence, contradictions, decision, report | fetch, extract, verify, correct, contradict, decide, report, judge |
| retrieval | `retrieval/indexer.py`, `persistence/retrieval.py` | chunks, embeddings, indexing status per snapshot | index, skip, fail |
| monitors | `monitors/service.py`, `routes/monitors.py`, `store.py` 2970-3045 | `research_monitors`, due time | claim due, dispatch, release, run now, edit |
| event stream | `streaming/`, `store.py` 2238, `routes/research_runs.py` 363, `run-events.ts` | `run_events` with a sequence per run, stream slots | append, replay after an id, follow, reconnect |
| learning policies | `evaluation/learning/`, `store.py` 766-900, 1470 | policy versions, monitoring windows, experiment jobs | promote, roll back, observe, judge, run experiments |
| knowledge compilation | `knowledge.py` | wiki pages and statements | compile a statement per claim |
| routing, fetch, identity, settings, evaluation, web | see `components` in PROJECT.json | | |

**How they interact.** Handlers and executors never call each other: they meet
in rows. Each API request is one database session that commits at the end
(`deps.py`) and may lose the race to any other. A worker keeps one session for
the whole of a job, so rows it still references are *its copy* of the table until
something expires them. Row locks are taken by `FOR UPDATE` (claims, review
decisions, pauses, due monitors), by the event that opens a phase, and by the first
flush of a changed row; advisory locks guard quotas; a plain `SELECT` followed by a
flush is two steps with anything in between.

**What makes it hard**, component by component, with the property that says it
went right:

- queue: workers crash, overrun their lease (the only heartbeat is the one of
  the claim), and are superseded while they still execute; a recovery writes rows
  it read earlier. No job is stranded or given up too early, a worker keeps the job
  it claimed until its lease ends, a run has one execute job, and a job settles in the
  end.
- lifecycle: a cancellation, a decision and two executors of one run write the
  same status unseen. A paused run keeps its review, a paused run frees its
  worker, a cancelled run drains; a decision followed by a resume is *not* kept by
  the code (see Findings).
- reviews: the same approval twice, two approvals at once, an approval against
  a cancellation. The budget is extended at most once, and executors that pause
  together share one review.
- tasks and budget: two executors of one run share tasks and budget, a slow worker
  reports on a task that is not its own any more, a cancellation falls into a
  search. Dependencies come first, settled tasks stay settled, the budget is never
  overrun, a cancelled run costs at most one more tool call per executor, and
  executors end without waiting for each other.
- planning: two models and two repairs work on one graph, and it is cut between
  and after them. What is stored can be executed to the end, and a sound plan is
  not changed.
- phases: a job is tried again over what its last attempt committed, while the
  user excludes sources; rounds, rewrites and attempts nest. Rows are not written
  twice, a decision rests on the last verification, a completed run delivers, and
  all of it ends. That a retry gets past a decision is *not* kept by the code.
- coverage: dates replace each other, claims are attributed to several
  requirements, the objective depends on all that is central. More evidence never
  opens what was resolved.
- index: pages fail in the middle, run out of allowance, or were embedded under
  other settings. A page counted as indexed is complete.
- monitors: a dispatch checks and acts on quota and on a monitor's last run, next
  to other dispatches, run-now, edits and creations, and may deadlock with another;
  a run that was cancelled may come back. What is dispatched or created behind the
  lock never makes two runs of a monitor or passes the quota, and a due monitor is
  served as long as the runs of monitors end.
- event stream: writers roll back, a stream reads events and status apart, pages
  break off, people log out, generators are dropped before they start. No event is skipped
  or repeated, the last one arrives, a stream that was started gives its slot back
  once, no stream outlives its session.
- learning: versions and windows are read without locks and without flushing, and
  written as absolute values. Some version stays active unless one pass rolls back
  three times, a promotion alone ends every earlier race, the results of an experiment
  reach the audit with one commit.

The full list of hazards, each at its line, is in PROJECT.json.

## Modules

| Module | Models | Extends |
|---|---|---|
| `AtLeastOnceDelivery` | what the queue promises, without leases, workers or attempts | |
| `JobQueue` | the queue and the worker loop | |
| `RunLifecycle` | run status, reviews, orchestrator control and API handlers around the queue | `JobQueue` |
| `ResearchTasks` | the task graph of a run, the worker pool of each of its executors, tool calls and iterations | |
| `Planning` | a plan from the planner's draft to the stored tasks | |
| `EvidencePipeline` | the phases of an execution after its first tasks, and their repetition | |
| `Coverage` | how a run judges what it has found | |
| `RetrievalIndex` | the index phase over executions | |
| `Monitors` | dispatch, run-now, monitor and run creation | |
| `EventStream` | the log of a run, its writers, streams and tabs | |
| `LearningPolicy` | the versions, windows and experiments of one policy | |
| `ExecutionParts_proofs` | theorems about `Planning`, `Coverage` and `RetrievalIndex` | the three, `TLAPS` |
| the other `*_proofs` | theorems about the module before the underscore (seven of them) | it, `TLAPS` |
| `MC*` | constants a configuration cannot express, symmetry, bounds | their modules |

### JobQueue

`job` is the table, in the order of `created_at`; `exec[w]` is where the loop of
worker `w` is and what it holds in memory (the token it drew, the ids a recovery
selected, whether its session has expired its copy of the row); `request[c]` is
an enqueue that has looked for an active job and not inserted yet.

Time is reduced to what the queue can tell apart: a lease is absent, live or expired,
and `ExpireLease` may strike whether the worker is dead or only slow. The code draws a
token with `secrets.token_hex`; here it is the number of the claim, which takes for
granted that two draws differ. No property states that. What `HeldUntilLeaseEnds` says
is about the row: its holder loses it only after its lease has ended, or to a recovery
or a failure that another worker decided on before. `RecoverScan`/`RecoverCommit`,
`CompleteCheck`/`CompleteWrite` and `FailCheck`/`FailWrite` are pairs because the code
reads without a lock and writes by primary key later. `SKIP LOCKED` is in `NextFor`: a
younger job may be claimed while another transaction may hold the older one.

### RunLifecycle

Every action that touches the queue conjoins a `JobQueue` action with its effect
on the run, or leaves the queue alone, so that all the queue promises holds here by
construction. `orch[w]` follows `execute()`: *starting* (job claimed), *entering*
(status read), *planned* (plan and RUNNING committed), *checked*
(`_ensure_active` found the run not cancelled), *batched* (research done), then
*returned*, or *failed*/*budget_exhausted* when an except clause has flushed a
status that only the job's completion commits. `cancel[c]` is a cancellation
that has read the run and its pending reviews and not flushed. `extended` is a
history variable that counts budget extensions per review.

A research batch is one action here: the status checks inside it are those
before and after it.

### ResearchTasks

One run seen from inside. `task` is the table `research_tasks` (status, worker,
whether `started_at` is older than the stale limit, outcome in the checkpoint);
`used` and `limit` are consumption and budget in the run row; `me[e]` is one
`execute()` of the run: its place, the batch of ready tasks it has read, the
task it works on, the attempts at it, and `saw`, the status in the copy of the run
row its session holds. Several executors are live when a job outlives its lease
(`JobQueue`) or a run is resumed. `cancel` is a cancellation that has read the run
and its tasks and not written them. `ever` and `late` are history variables.

`Begin`, `Enter`, `EnsureActive`, `ChooseBatch`, `ReserveIteration`, `FinishBatch`,
`Correct` and `Finish` follow the orchestrator (a batch may hold back the tasks that
wait for a verified entity, `Gated`); `TakeTask`, `ClaimTask`,
`ReserveToolCall`, `SearchAgain`, `DiscardResults`, `FailTask` and `FinishTask` are
`_execute_one`, which a batch calls for one task after the other.

A transaction that begins with an event, a reservation, a tool execution or a
status holds the lock of the run row from then on, and is one action. Not
covered by that lock, and modelled apart: a cancellation, which reads first and
writes last, and the copy of the run row, which only a reservation refreshes
(`populate_existing`).

Abstracted: queries, sources and their own budget (whether a task is completed
or blocked is a choice), wall time, tokens and cost, what a replan or a
corrective round asks for (any tasks without dependencies that do not exist
yet), the evidence that may end the rounds at any time, the review that belongs
to a pause (`RunLifecycle` has it), and the contract review before the first round.

### Planning

`plan` goes through *drafted*, *validated*, *repaired*, *cut* (by the learned
policy), *written* (repaired a second time) and *stored* or *failed*, in one
process. The state is small; the point is the algorithm: unique keys, one task per
objective, known dependencies, the shape the decomposition promises, and cycles
broken one edge per try with as many tries as tasks (`BreakCycles`). `TaskGraph`
keeps the last task of a key, and so does `ByKey`, which is why a draft that
repeats a key may get past the check for cycles. Loops over the tasks are functions
of how far they have come (`Keep`, `BreakCycles`), the depth-first search for a cycle
(`MeetsAgain`) is a function of a task and the tasks on the way to it, and sorting
gives each task its rank: recursive functions, about which something can be proved.
The tasks that the contract appends in the transaction of `Store` are left out: no
other task depends on them. Keys are numbers, whose order only breaks ties as that of
the strings does. Objectives are numbers that stand
for their normal form; a graph is what either model may answer.

### EvidencePipeline

A phase begins with an event, which locks the run, and ends with a commit: one
action per phase. Only the report and the knowledge compiled after it share a
transaction, so the report waits in `draft`, with the rewrites it has had. An exception
inside a phase is logged and ends the phase with what it has done: `Extract(selected,
bare)` may leave claims without their evidence, `Verify(some)` and `Contradict(done)`
may come to some claims or pairs only, and the phases go on. In the correction round of
the critic nothing catches it, and the run fails (`CorrectionFails`). An error of the
database ends the execution (`Abort`) and the job begins at the first phase again, on
what was committed. Which sources turn up, what a model selects and what the critics
say is any choice. `barred` is a history variable: the claims whose source was excluded
when verification last came to them, this time or in an earlier execution.

### Coverage

`evaluate_coverage` as sets over the requirements of a contract: what is about a
requirement (`Supporting`), what makes it tenable (`Founded`), what it must show
(`Substantiated`), and the rule for the objective and for requirements that wait
(`Supported`). Text is reduced to what the checks look for. A claim that another
query finds again, and that may then be about more, is another claim. Dates and
office holders may disappear, because only the first thirty dates are kept.

### RetrievalIndex

`db` is what is committed about pages, `tx` what the open index phase sees of
it. `IndexOne`, `FailOne` and `PassOver` are the three ways the loop deals with
a page, and `Planned` and `Spent` are what a page would cost and what was recorded
for it; `Fetch` and `Reconfigure` happen between executions. A second executor
would insert chunks and embeddings that violate their unique keys; its
transaction is lost, which is `CrashIndex`.

### Monitors

A dispatch is one transaction: `ClaimDue` takes the row locks, `Launch`, `Skip`,
`Postpone` and `LaunchFails` decide about the monitors one after the other and
take their owners' advisory locks, and `CommitDispatch` publishes everything at
once. `Fault` is a crash, or the end of a deadlock. There is no clock: `agenda` is
the due monitors in the order of `next_run_at`. A run-now request is three
transactions: look, write the due time, dispatch. Runs are counted by owner,
monitor and whether they were created behind the quota lock (`KindsOf`, `Counted`),
so that a row a transaction has made and one it sees are told apart without naming
rows. A run ends for good (`FinishRun`), or is cancelled while an executor or a decision
is still on the way (`CancelRun`); the pause or the PENDING of that one makes it active
again without lock or count (`BringBack`, `late`, kind `Returned`), since
`update_run_status` refuses only RUNNING. Deleting a monitor leaves its runs to their
owner (`Orphaned`). Instance mode is
*hosted*: a local instance has one limit for all its monitors and no run quota.

### EventStream

`log` is the committed events, `tx` what a writer has appended and not committed.
`stream[s]` is the generator of one connection, cut at its reads and its awaits:
check the owner, list, read the status, send frame by frame. The slot is taken before
the response is sent, so a new generator is *opened* first: `Start` begins to read it,
or `NeverStarted` drops it with its tab, and then no `finally` clause runs and the slot
is *lost* until `Restart`. `tab[t]` is the
browser: what it received since it was loaded, from which it resumes. On a hosted
instance the check reads the run row, and with it the status that this iteration
will use; on a local one the status is read after the listing. Both are modelled
(`hosted`). Notifications only end a wait early, so a wait is no step.

### LearningPolicy

Every session is a transaction at READ COMMITTED: `tx[a]` is what it has read and
will write, as absolute values. The automatic rollback reads the cooldown and the
versions in separate statements (`Condemn`, `AutoRollback`), and a run's quality is
added to a window read before (`Observe`, `CommitObservation`). Sessions have
`autoflush=False` (`session.py:29-41`), so a query is answered from committed rows, and
a row that a session has loaded keeps what the session made of it. Hence a second
rollback of a pass chooses from the committed versions again and does not see the
cooldown its first one begins; `was`, `wasnt` and `now` are what such a session has
loaded and what it holds, and only the difference is written (`Off`, `On`). Hence too the
second claim of an idle poll may find the experiment the first has completed
(`ClaimExperiment`; `times` counts). `recent` is the newest two promotions and rollbacks
of a day, which is all that the cooldown looks at.

## Runs

| Run | Bounds | Shows |
|---|---|---|
| `job_queue` | 2 workers, 1 run, 2 requests, 2 jobs, 2 attempts, 3 claims per job | invariants of the queue, `HeldUntilLeaseEnds` and `DeliversAtLeastOnce` |
| `run_lifecycle` | 2 workers, 1 run, 1 client, 2 jobs, 2 reviews, 2 claims in all that execute | invariants of the lifecycle |
| `run_liveness` | 2 workers, 1 run, 1 job, 1 review that may expire, 2 attempts and claims | `PauseReleasesWorker`, `CancelDrainsJobs`, `JobsSettle` |
| `research_tasks` | 2 executors, 2 planned tasks (the second needs the first, and an entity from it) and 1 to add, 2 attempts, 3 tool calls, 2 iterations, 1 extension | invariants and action properties of the task graph |
| `research_tasks_liveness` | 2 executors, 1 planned task and 1 to add, 1 attempt, 1 tool call, 2 iterations | `ExecutorsStop` |
| `monitors` | 1 worker and 1 client, 2 monitors of one owner and one without owner, batches of 2, quotas of 2, 2 requests, cancellations or faults | `OneActiveRunPerMonitor`, `QuotaKept`, `A1Served` |
| `event_stream` | 2 writers, 1 tab, 2 slots, pages of 2, 3 events, 2 faults | `NoEventSkipped`, `SlotsCounted`, `LogoutEndsStreams`, `T1GetsLast` |
| `evidence_pipeline` | 2 sources that contradict each other, 1 page per fetch, 1 round, 2 rewrites, 2 attempts, 1 edit | types, `NoDuplicateRecords`, `CompletedIsDelivered`, `DecisionSupported`, `PipelineEnds` |
| `learning_policy` | 2 sessions, 1 run observed up to twice, 3 versions, windows judged from 1 sample, polls that claim twice | types, `StaysServed`, `ExperimentOnce`, `PromotionHealsRace` |
| `execution_parts` | planning: every graph of 1-3 tasks with up to 2 dependencies each, and irregular ones with repeated keys and objectives, caps 2, 3 and 1-3; coverage: the objective alone, or with a comparison, a second requirement of any other kind and one that waits, 2 pages, 3 claims; index: 3 pages (two passages, one, too short), costs 2, 1, 1, allowance 4, 2 specs | `PlanExecutable`, `SoundPlanKept`, `EvidenceNeverHurts`, `IndexSound` |
| `lost_resume`, `retry_after_decision` | the smallest instance that has the case; the instance of `evidence_pipeline` | the two findings |

`execution_parts` explores three modules that share no state one at a time: the
variable `part` says which, and the others rest in their first state, so its
state space is the sum of theirs.

**Why these bounds are enough to mean something.** Two workers and one job more
than one give every race for a claim, an overrun lease with its successor, and a
recovery against a completion; a third claim lets the superseded worker's
successor be superseded too; two attempts put the boundary of `max_attempts`
inside the instance, with a claim beyond it; two requests race for the
idempotency key; two reviews are one of each reason, or two of one reason one
after the other. Two executors suffice for a task that is taken back from one and
claimed by the other and for two reservations of the last unit; three tool calls
are one less than two attempts at each of two tasks, so the budget ends in the
middle of a task, and one extension lets the run go on from there. A dispatch that
claims two of three due monitors leaves one behind; two monitors of one owner
compete for a quota of two that a user's own run can fill, and one without an owner is
postponed for ever. Two dispatches that wait for each other's owners take two monitors
of each of two owners, more than this instance has: there the proofs, which hold for any
number, are all that covers it. Three events and pages of two make a page that is
full and one that is not; two slots let a tab reconnect while its dead generator
still holds one. Two sources make claims that agree to disagree, one page per
fetch leaves one for the round. Three versions let a rollback skip over one that
a race left active. The one way to lose every active version that `StaysServed` excepts
takes three rollbacks of one pass, for which four versions and three observations are
needed, one more of each than the instance has; in the larger instance TLC reaches
it. Graphs of three tasks have cycles of every length that two
repairs treat differently. Runs do not share rows, so one run shows what a run can
do. Where there is a proof it holds for every value of these constants.

**Fairness.** A worker's loop is weakly fair (`run_worker` polls for ever and
catches what a job raises) and time passes (`ExpireLease`). Nothing is assumed of
clients, reviewers or review expiry. Crashes and overruns stop once a job has
`MaxClaims` claims: without that bound a worker that always crashes defeats every
liveness property, and in the code it does, because neither the claim nor the
recovery looks at `max_attempts`. In `research_tasks_liveness` each executor is
weakly fair (it is a thread of a worker that does not wait for anyone); crashes,
cancellations, approvals and time are not. In `monitors` a process that has begun
or may begin a dispatch proceeds if it can again and again (strong: it waits in
the lock queue of the database) and the database ends deadlocks. Runs need not end:
`A1Served` says what it needs of them as a condition (`RunsEnd`: every monitor is
without an active run again and again), because a run may wait for its person or be
stuck for ever (see Findings). In
`event_stream` every generator is served by the event loop (weak), and a tab gets a
stream if one is free again and again (strong: `EventSource` and the client's timer
retry for ever); writers, people and faults are free. In `evidence_pipeline` a worker
claims the job while attempts are left and goes on with what it executes (weak), and
a session beyond use is given up.

**Deadlock** is checked in the runs of the first two modules: whatever the clients
do, a worker's loop goes on. In the others it is not, because they may come to an
end: all executors have returned, the run is over, the plan is stored, or the
bounded requests, faults, versions and observations are used up.

Every property of a passing run has a mutant: a plausible slip in the code that
makes TLC report it (`mutants` in PROJECT.json). The mutated operators stand in
the modules next to what they mutate and are used nowhere else.

## Proofs

Every safety property that a passing run checks, invariant or action property, is
stated by a theorem. The theorems
hold for any finite or infinite sets of workers, runs, clients, tabs or sessions and
any bounds, from the named assumptions of the modules: the bounds are natural numbers
(`BoundsAssumption`, `LifecycleAssumption`), `None` is not a run (`NoneAssumption`), and
those named below. Two modules assume finite sets because the code counts or lists
them in memory: the monitors (`MonitorsAssumption`), and the sources and statements of
one run (`PipelineAssumption`).

`JobQueue_proofs`. The invariants TLC checks are not inductive. `QueueInv` adds:
`RowInv` (which status goes with which lease, token and number of attempts),
`ClaimsRemembered` (a worker's token is at most the attempts of its job), `ScansExist`
and `RequestsKnow` (what a recovery or a request read is still there, if out of
date). From it follow `QueueTypeCorrect`, `NothingStranded`, `HoldersKept`,
`ExecuteJobUnique`, `FailedAfterMaxAttempts` and, step by step, the refinement
`QueueImplementsDelivery`. The refinement needs the action `Reopen` of the abstract
specification: a recovery or a failure decided before the job was settled puts
it back afterwards.

`RunLifecycle_proofs`. `LifecycleInv` is `QueueInv` with `OrchExecutes` (an
orchestrator that runs has a job of an existing run), `CancelsKnow` and
`LocksHeld` (a cancellation's reviews belong to its run; the review a rejection
is cancelling stays pending while it is locked) and `ReviewInv`. Each action of
the queue is taken from the queue's own lemma, so the proof has one step per
action and none is proved twice. Results: `RunTypeCorrect`, `PausedIsReviewed`,
`BudgetOnce`, `PendingUnique`, `LifecycleDelivers`.

`ResearchTasks_proofs`. For any tasks, dependencies, executors and budget, from
`TasksAssumption` (planned tasks depend on planned ones, the others on none) and
`BudgetAssumption`. `TaskInv` adds to the invariants: `Memory` (an executor at a task
knows which, and has an attempt left unless it is searching), `WorkersReady` (the
task a worker has claimed keeps its completed dependencies, even when it was
taken back: without it a superseded worker could complete a blocked task) and
`LateSeen` (after its late reservation an executor has seen the cancellation).
The proof is organised by what changes: `RowStep` says what a step may do to one
row, `NextRows` that every action obeys it, and `SettledStaysSettled` and
`DependenciesAlwaysFirst` follow from that alone; `ExecutorMemory` does the same for
the memories; `BudgetStep`, `WorkStep` and `LateStep` finish. `StaleCannotComplete` is
proved from the invariant action by action. `ExecutorsRunDown` is the safety half of
`ExecutorsStop`: `Left(e)` is what an executor has left, as six numbers of which the
first that changes decides (iterations it may still reserve, tasks that may still be
added, the way to the end of its rounds, its batch, attempts at the task, the way to
the end of one); every step of its own makes that smaller, and no step of another
executor, of the API or of time makes it larger. It needs two invariants more:
`Capped` (approvals raise the budget up to a bound) and `Holding` (the claimed task
stays in the batch until it is left). The order has no infinite descent
(`NoEndlessDescent`), so an executor can be slowed down and not be kept busy; that it
always *can* take a step is what the liveness run adds. The tasks are finite here,
which the bounds on replans and corrective rounds justify.

`EventStream_proofs`. For any writers, tabs, slots and page size, from
`StreamAssumption`. `StreamInv` adds to the types: `OneWriter` (one transaction has
appended events, by the lock), `Numbered` (committed and pending events are an
initial segment of the numbers), `Followed` (what a generator has listed and not
sent continues what its tab has received) and `Listing` (all up to the last event it
has listed is committed). `SlotsExact` counts the generators that are not free, the lost
ones included. `Listed` picks by cardinality, so `ListedIs` first shows that a
page is an interval. Results: `StreamTypeCorrect`, `NothingSkipped`, `SlotsExact`.

`LearningPolicy_proofs`. For any sessions, runs and versions, from `PolicyBounds`.
`PolicyInv` says of an open transaction that after one rollback or two it activates a
version whenever it deactivates one (`Balanced`): whatever others have committed since it
read, and whatever its second rollback found committed, its commit leaves a version
active (`RewrittenServes`). The case that matters is the second rollback: it may undo the
first in memory, and then nothing is written at all. After a third this is lost, hence
the exception in `StaysServed`. `TypesInv` types what a transaction remembers by what it
is doing, and `ExperimentInv` is that a job somebody has locked is pending
(`HeldPending`) and locked by nobody else (`HeldOnce`), and that what was audited is done
(`AuditedDone`). `PromotionsHeal` needs no invariant but the types:
it compares what a promotion has read with what is there when it commits. Results:
`PolicyTypeCorrect`, `AlwaysServed`, `ExperimentsRunOnce`, `PromotionsHeal`.

`Monitors_proofs`. For any workers, clients, owners, quotas and batches, from
`MonitorsAssumption`. `MonitorsInv` adds to the types: `LocksHeld` (the rows a
dispatch has still to decide are locked by it, and nobody else has them), `OneEach` (a
run of a monitor that is committed or pending and has not ended since is its only
one), `Spare` (no transaction sees more counted runs of an owner than the quota,
`View` being the committed runs with its own) and `LateUncounted` (a run that may come
back is of a kind that is not counted). The quota is read before the run is made; what
makes that safe is that the owner's lock is held from the count to the commit, so two
views of one owner do not grow side by side. Counting is done by `Units`, one element
for each run, so that adding a run and ending one are facts about finite sets.
Results: `MonitorsTypeCorrect`, `OneRunAtATime`, `QuotaRespected`.

`EvidencePipeline_proofs`. For any sources, statements, contradictions, rounds,
rewrites and attempts, from `PipelineAssumption`. `PipelineInv` adds `VerifiedBacked`
(a claim that passes has its evidence, and its source was not excluded when
verification last came to it, were it in an earlier execution) and `ReportReady`
(where the final critic's gate is reached, the report and the verdict are there). That
no row is written twice is an argument about appending: new rows differ from the old
ones (`WithClaimsIs`, `EvidenceAppended`, `NewRows`) and from each other
(`SetToSeqIs`). Results: `PipelineTypeCorrect`, `RecordsUnique`, `CompletedDelivered`,
`DecisionsSupported`, and `PipelineRunsDown`, the safety half of `PipelineEnds`:
attempts, execution, rounds, phase and rewrites, the first that changes deciding, get
less with every step but an edit of the user's, which leaves them alone.

`ExecutionParts_proofs` has the three modules that compute. Their recursive functions
are reached without induction over an operator: `Least` finds the first number that a
set has, `Induct` is induction over the numbers of a set, and `Recursion` shows that the
function a definition asks for exists.

- *Planning*, for any drafts, corrections and caps that are plans (`DraftsArePlans`,
  `Caps`). `PlanInv` says what each stage leaves behind. Its core is that a stored plan
  can be executed to the end. `Startable` (in every set of tasks there is one that
  waits for none of the set) is what validity gives: otherwise a set of tasks that
  all wait for each other would be one in which the search for a cycle, the least fixed
  point that `MeetsExists` provides, meets a task again. What is startable can be put in order
  (`StartableIsExecutable`): a largest set that can be ordered leaves nothing out. The
  cut and the trim remove tasks together with what referred to them and keep that.
  Results: `PlanInvariant`, `StoredPlansExecutable` (for drafts that repeat no key, see
  Findings), `SoundPlansKept`.
- *Coverage*, from `CoverageAssumption` on contracts, which is what the decomposition
  yields: a chain of monotonicity lemmas, one per definition (`PortfolioGrows`,
  `FoundedGrows`, `SubstantiatedGrows`, `SupportedGrows`). The delicate case is a date
  that disappears: the requirement it founded also had claims, without which it was not
  substantiated. Result: `EvidenceNeverHurtsAny`.
- *RetrievalIndex*, from `IndexAssumption`. `IndexInv` states `Complete`, with the types
  it needs, of the committed index and of the open transaction, and `Within`: what the
  transaction has recorded leaves room for what it may still spend. Result:
  `IndexAlwaysSound`.

Only model-checked: the liveness properties, since fairness and `ENABLED` are outside
the prover's reach (`PauseReleasesWorker`, `CancelDrainsJobs`, `JobsSettle`,
`ExecutorsStop`, `A1Served`, `LogoutEndsStreams`, `T1GetsLast`, `PipelineEnds`), and the two
violated properties. `RunTypeOK` and `TaskTypeOK` are proved and not among the runs.

## Findings

- **Lost resume.** A decision that arrives between the commit of a pause and the
  completion of the pausing job finds that job active and enqueues nothing. The
  run is PENDING and no job will execute it (`lost_resume`).
- **Retry after a decision.** An execution that breaks off after synthesis leaves
  a decision; the next attempt inserts another, violates the unique key, and ends
  with a session it cannot use (`retry_after_decision`).

### Findings without a run

The models have these behaviours too. They contradict a document only in part, or
there is nothing in the repository that promises otherwise, so no run refutes
anything; a property that would exclude them is not stated.

Runs and reviews:
- A pause that commits between the reads and the flush of a cancellation leaves a
  cancelled run with a pending review.
- Executors and decisions write a status over a cancellation they have not seen
  (`update_run_status` refuses only RUNNING on a terminal run, `store.py:288`): PAUSED or
  PENDING makes an ended run active again.
- `complete_job` compares the lease with the worker's own copy of the row, so a
  superseded worker's completion is accepted; the test that expects the refusal
  uses one session for both workers.
- Approving a review whose payload has no `requested_extra_*` raises after the
  review was marked (`hitl/__init__.py:473`).
- Wall time goes on while a person decides (`budget_gate.py:57`).

Jobs and tasks:
- Claims and recoveries do not look at `max_attempts` (`store.py:2467`): only
  `fail_job` does. A job that fails for good leaves its run RUNNING.
- `recover_stale_jobs` at the top of a worker's loop is outside its `try`: a row
  deleted between the read and the flush ends the worker.
- Results of a search during which the run was cancelled are stored, and at most
  one more tool call per executor is reserved (`LateSpendBounded`, proved).
- `save_task_checkpoint` does not look at the worker, and `cancel_run` writes over
  a task that was completed after it had read the tasks.

Monitors and quotas:
- Restart, fork and follow-up create runs outside the lock and the count, whereas
  `docs/releases/v0.1.5.md:16` calls run quotas serialized (`CreateUncounted`).
- A cancelled run that comes back (above) takes its place again without lock or count,
  so a monitor may have it next to a run launched since, and an owner more active runs
  than the quota (`BringBack`). `OneActiveRunPerMonitor` and `QuotaKept` are about what
  the dispatcher and the creations behind the lock do.
- A run that never ends (one that waits for its person, a lost resume, a RUNNING run
  whose job has failed) keeps its monitor from running and counts against the quota. A
  batch of due monitors that are all skipped because their runs are not over is taken
  again the next time; as many as the batch holds block all that became due later.
- Run-now dispatches whatever is due and returns the first of these runs, which may
  be another monitor's.

Streams:
- The orchestrator commits the terminal status before it appends the last event, so
  a stream may end between the two; the tab's reconnect makes up for it.
- A workspace answer that overtakes another is shown last in the client.
- A generator that is never started never runs its `finally` clause: its slot, taken at
  `research_runs.py:390`, is lost until the process restarts (`NeverStarted`). Four of
  them lock a person out of all streams (`LockedOut`).

Evidence:
- A verification that breaks off is logged and the phases go on
  (`orchestrator.py:1115-1119`): claims keep the statuses of an earlier execution, and a
  decision may rest on a claim whose source has been excluded since. `DecisionSupported`
  is about the sources excluded when verification last came to the claim (`barred`).
- An extraction that breaks off between `add_claim` and `attach_evidence`
  (`extract.py:382-409`) leaves a claim without evidence; the critic then refuses
  synthesis until a later extraction attaches it.
- `save_report_draft` keeps the citations of the report before it.
- A preference edited after the decision does not touch it.
- A claim belongs to one source and takes evidence from it alone, so *verified*,
  which asks for two sources, is not reached through extraction.
- A draft that repeats a key may be stored with a cycle, when the repetition hides it
  until the mode's cap removes the repetition; a mixed plan may lose its fan-in task
  as a final synthesis that is left to the report.
- Tokens of passages embedded before a page failed are neither recorded nor taken
  off the allowance, so the cap on cumulative embedding tokens of
  `docs/adr/012-final-research-quality.md:37` and `docs/agent-runtime.md:284` holds
  for what is recorded and not for what is spent.

Learning:
- Two overlapping promotions leave two active versions until the next one alone.
- A pass that rolls back more than once does not see its own rollbacks, neither the
  versions nor the cooldown: the second may undo the first in memory, and the third may
  leave no version active (see Bounds).
- An idle poll claims twice (`worker.py:76`) and the second claim finds the experiment
  the first has completed (`store.py:1456-1505`): it is run twice and audited twice in
  one transaction, and a second waiting experiment is left to the next poll.
- Two observations that read one window lose a sample; a run's quality goes to the
  newest open window, not to that of the version it was run with.

## Plan

1. done: `AtLeastOnceDelivery`, `JobQueue`, `RunLifecycle`, `ResearchTasks`, proved.
2. done: `Monitors`, `EventStream`, `EvidencePipeline`, `LearningPolicy`, `Planning`,
   `Coverage`, `RetrievalIndex`, proved.
3. Left in `ResearchTasks`: the budget of sources with its savepoint, and wall time.
4. Proofs: all safety properties and two measures are done. Left: a measure for the jobs
   of `JobQueue` (claims are bounded, but a recovery may put a settled job back), and
   the composition below.
5. Compositions: `RunLifecycle` with `ResearchTasks` in place of `ResearchBatch`
   (refinement), `Monitors` with the queue.
6. The lineage of restarted, forked and followed-up runs.

## Not modelled

- *Provider routing and health.* `invoke_with_resilience`, the only caller of the
  failure counters, is used by tests and a benchmark script; the program retries
  with a bounded loop that keeps no state.
- *What a phase computes from text*: the decomposition of a goal, query planning,
  matching, ranking, quote location, rendering. Functions of strings and numbers
  inside one step, abstracted to any result.
- *Secure fetch and source fabric*: URL filtering and network I/O.
- *Identity, credentials, settings, templates*: single-row operations with no order
  to get wrong; sessions matter to streams and quotas to monitors, and are there.
- *Evaluation harness and scripts*: offline and sequential.
- *The web client*, beyond what `EventStream` has of it: its requests are the
  environment of the models.

Each is listed in PROJECT.json with its reason.
