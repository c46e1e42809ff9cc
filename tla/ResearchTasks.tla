---------------------------- MODULE ResearchTasks ----------------------------
(***************************************************************************)
(* The task graph of one research run, the pool that works on it and the   *)
(* budget it spends.  An executor is one call of execute() for the run;    *)
(* more than one can be live when a job outlives its lease (JobQueue), and *)
(* the API may cancel the run at any time.                                 *)
(*                                                                         *)
(* Almost every transaction takes the lock of the run row (append_run_event*)
(* and record_budget_usage do) before it reads what it decides on, and is  *)
(* one step.  Two things are not protected by it: cancel_run, which reads  *)
(* the tasks first and writes them later, and the row of the run that the  *)
(* pool keeps in memory between two reservations.                          *)
(***************************************************************************)
EXTENDS Naturals, FiniteSets

CONSTANTS
  Task,       \* rows of research_tasks, in the order of priority and key
  Planned,    \* those of the plan; replans and corrective rounds add the others
  Deps,       \* depends_on of each task
  Executor,   \* executions of the run
  None,       \* worker_id NULL
  Entity,     \* the tasks whose dependents wait for a verified entity
  MaxTries,   \* search attempts per task (planned_attempt_limit)
  Limit,      \* the budget at the start, per metric
  Extensions  \* bound: approved budget extensions

Metric == {"tool_calls", "iterations"}

ASSUME TasksAssumption ==
  /\ Task \subseteq Nat
  /\ Planned \subseteq Task
  /\ Deps \in [Task -> SUBSET Planned]
  /\ \A t \in Task \ Planned : Deps[t] = {}
  /\ Entity \subseteq Planned
  /\ None \notin Executor

ASSUME BudgetAssumption ==
  /\ MaxTries \in Nat \ {0}
  /\ Limit \in [Metric -> Nat]
  /\ Extensions \in Nat

VARIABLES
  task,     \* the table research_tasks
  run,      \* status of the run
  used,     \* consumption written to the run row
  limit,    \* budget of the run row
  me,       \* per executor: where it is and what it holds in memory
  cancel,   \* the tasks a cancellation has read, until it writes
  ever,     \* history: a cancellation has been committed
  late      \* history: tool calls each executor reserved on the cancelled run

vars == <<task, run, used, limit, me, cancel, ever, late>>

\* ResearchTaskStatus.
Open == {"pending", "ready"}
Dead == {"failed", "blocked", "cancelled"}
Settled == Dead \cup {"completed"}

\* old: started longer ago than research_task_stale_after_s.  ckpt: the outcome
\* in the checkpoint, which any worker of the task may have written.
TaskRow ==
  [status: {"absent", "running"} \cup Open \cup Settled,
   worker: Executor \cup {None}, old: BOOLEAN,
   ckpt: {"none", "completed", "blocked"}]

NoTask == [status |-> "absent", worker |-> None, old |-> FALSE, ckpt |-> "none"]

\* "ended" stands for COMPLETED, FAILED and BUDGET_EXHAUSTED.
RunStatus == {"pending", "running", "paused", "cancelled", "ended"}

\* execute(): entering, it has read a run it may run (as is); loop, before a
\* round; checked, the run was not cancelled; reserving, a batch of ready tasks
\* is chosen.  The pool: pool, between tasks; claiming, the run was not
\* cancelled; working, it has a task; searching, a tool call is reserved and
\* the request is out.  Then evidence, the rounds are over; gap, the run was not
\* cancelled and the coverage of the evidence is looked at.
AtTask == {"claiming", "working", "searching"}
Live == {"entering", "loop", "checked", "reserving", "pool", "evidence", "gap"} \cup AtTask

\* saw: the status in the row of the run the pool keeps.  A worker id is drawn
\* per task, and the executor stands for it: it has one task at a time.
ExecutorState ==
  [pc: {"new", "done"} \cup Live, batch: SUBSET Task, task: Task \cup {0},
   tries: 0..MaxTries, saw: RunStatus, corrective: BOOLEAN]

New == [pc |-> "new", batch |-> {}, task |-> 0, tries |-> 0,
        saw |-> "pending", corrective |-> FALSE]

TaskTypeOK ==
  /\ task \in [Task -> TaskRow]
  /\ run \in RunStatus
  /\ used \in [Metric -> Nat]
  /\ limit \in [Metric -> Nat]
  /\ me \in [Executor -> ExecutorState]
  /\ cancel \in [reading: BOOLEAN, tasks: SUBSET Task]
  /\ ever \in BOOLEAN
  /\ late \in [Executor -> Nat]

NoCancel == [reading |-> FALSE, tasks |-> {}]

Init ==
  /\ task = [t \in Task |-> NoTask]
  /\ run = "pending"
  /\ used = [m \in Metric |-> 0]
  /\ limit = Limit
  /\ me = [e \in Executor |-> New]
  /\ cancel = NoCancel
  /\ ever = FALSE
  /\ late = [e \in Executor |-> 0]

-----------------------------------------------------------------------------
(* The task graph.                                                         *)

With(S) == {t \in Task : task[t].status \in S}

\* Mutant of Satisfied: a dependency that is being worked on will do.
SatisfiedSoon(t) == \A d \in Deps[t] : task[d].status \in {"running", "completed"}

Satisfied(t) == \A d \in Deps[t] : task[d].status = "completed"

\* TaskGraph.ready_tasks.
ReadyTasks == {t \in With(Open) : Satisfied(t)}

\* dependency_satisfied: that the entity task is completed is not enough, its
\* search must have verified an entity, which it may or may not have done.
Gated == {t \in ReadyTasks : Deps[t] \cap Entity # {}}

\* block_tasks_with_terminal_dependencies: the least set of open tasks that has
\* every open task with a dependency that is dead or in the set.
Doomed ==
  LET Closed(X) == \A t \in With(Open) :
        (\E d \in Deps[t] : task[d].status \in Dead \/ d \in X) => t \in X
  IN {t \in With(Open) : \A X \in SUBSET With(Open) : Closed(X) => t \in X}

\* The new state of the table after S was blocked, R made ready, A added.
Scheduled(S, R, A) ==
  [t \in Task |->
     IF t \in S THEN [task[t] EXCEPT !.status = "blocked"]
     ELSE IF t \in R THEN [task[t] EXCEPT !.status = "ready"]
     ELSE IF t \in A THEN [NoTask EXCEPT !.status = "pending"]
     ELSE task[t]]

\* The tasks left when the doomed ones are blocked.
Remaining == With(Open \cup {"running"}) \ Doomed

\* BudgetConsumption.is_exhausted, over the metrics modelled.
Exhausted == \E m \in Metric : used[m] >= limit[m]

\* Mutant of Exceeds: compares before it adds.
ExceedsBefore(m) == \E k \in Metric : used[k] > limit[k]

\* BudgetConsumption.would_exceed.
Exceeds(m) == \E k \in Metric : used[k] + (IF k = m THEN 1 ELSE 0) > limit[k]

Spend(m) == used' = [used EXCEPT ![m] = @ + 1]

\* Mutant of MayRecord: the worker is not compared.
MayRecordAny(row, e, s) ==
  /\ row.status = "completed" => s = "completed"
  /\ row.status \in Open \cup {"cancelled"} => s \notin {"completed", "failed"}

\* update_task_status for a worker: what it records is dropped when the task is
\* completed, is another worker's, or was taken back or cancelled.
MayRecord(row, e, s) ==
  /\ row.status = "completed" => s = "completed"
  /\ row.worker \in {None, e}
  /\ row.status \in Open \cup {"cancelled"} => s \notin {"completed", "failed"}

Recorded(t, e, s) ==
  IF MayRecord(task[t], e, s)
  THEN [task EXCEPT ![t].status = s, ![t].worker = e]
  ELSE task

\* reclaim_stale_running_tasks: the checkpoint decides if it has an outcome.
Reclaimed(row) ==
  IF row.status # "running" THEN row
  ELSE IF row.ckpt # "none" THEN [row EXCEPT !.status = row.ckpt]
  ELSE IF row.old THEN [row EXCEPT !.status = "ready", !.worker = None]
  ELSE row

-----------------------------------------------------------------------------
(* execute().                                                              *)

Goto(e, pc) == me' = [me EXCEPT ![e].pc = pc]
Stop(e) == me' = [me EXCEPT ![e] = [New EXCEPT !.pc = "done"]]

\* A terminal run is refused and a paused one left.
Begin(e) ==
  /\ me[e].pc = "new"
  /\ run \in {"pending", "running"}
  /\ me' = [me EXCEPT ![e].pc = "entering", ![e].saw = run]
  /\ UNCHANGED <<task, run, used, limit, cancel, ever, late>>

\* RUNNING, the reclaim and, the first time, the plan are one commit.  A run that
\* was read as running is not written.
Enter(e) ==
  /\ me[e].pc = "entering"
  /\ run' = IF me[e].saw = "pending" THEN "running" ELSE run
  /\ task' = IF With({"absent"}) = Task
             THEN Scheduled({}, {}, Planned)
             ELSE [t \in Task |-> Reclaimed(task[t])]
  /\ me' = [me EXCEPT ![e] = [New EXCEPT !.pc = "loop"]]
  /\ UNCHANGED <<used, limit, cancel, ever, late>>

\* _ensure_active; on a cancelled run execute() returns.
EnsureActive(e) ==
  /\ me[e].pc \in {"loop", "evidence"}
  /\ IF run = "cancelled" THEN Stop(e)
     ELSE Goto(e, IF me[e].pc = "loop" THEN "checked" ELSE "gap")
  /\ UNCHANGED <<task, run, used, limit, cancel, ever, late>>

\* There are tasks left but no budget: a human is asked, if the policy says so.
PauseForBudget(e) ==
  /\ Remaining # {}
  /\ run' = "paused"
  /\ Stop(e)

\* Mutant of ChooseBatch: while other workers are busy it looks again.
ChooseBatchPolling(e) ==
  /\ me[e].pc = "checked"
  /\ \E held \in SUBSET Gated :
       LET ready == ReadyTasks \ held IN
       /\ task' = Scheduled(Doomed, ready, {})
       /\ \/ /\ ready # {} /\ ~Exhausted
             /\ me' = [me EXCEPT ![e].pc = "reserving", ![e].batch = ready]
          \/ ready = {} /\ Remaining # {} /\ Goto(e, "loop")
          \/ (Exhausted \/ Remaining = {}) /\ Goto(e, "evidence")
  /\ UNCHANGED <<run, used, limit, cancel, ever, late>>

\* The first part of execute_research_batch: block, make ready, then stop or
\* go on.  A corrective round does not pause.
ChooseBatch(e) ==
  /\ me[e].pc = "checked"
  /\ \E held \in SUBSET Gated :
       LET ready == ReadyTasks \ held IN
       /\ task' = Scheduled(Doomed, ready, {})
       /\ \/ /\ ready # {}
             /\ ~Exhausted
             /\ me' = [me EXCEPT ![e].pc = "reserving", ![e].batch = ready]
             /\ UNCHANGED run
          \/ Exhausted /\ ~me[e].corrective /\ PauseForBudget(e)
          \/ (ready = {} \/ Exhausted) /\ Goto(e, "evidence") /\ UNCHANGED run
  /\ UNCHANGED <<used, limit, cancel, ever, late>>

\* reserve_iteration.  Another executor may have spent the last one meanwhile.
ReserveIteration(e) ==
  /\ me[e].pc = "reserving"
  /\ \/ ~Exceeds("iterations") /\ Spend("iterations") /\ Goto(e, "pool") /\ UNCHANGED run
     \/ Exceeds("iterations") /\ PauseForBudget(e) /\ UNCHANGED used
  /\ UNCHANGED <<task, limit, cancel, ever, late>>

\* The second part: block again, perhaps replan, and decide on another round.
\* Enough evidence, or the cap on rounds, may end them at any time.
FinishBatch(e) ==
  /\ me[e].pc = "pool"
  /\ me[e].batch = {}
  /\ \E A \in SUBSET With({"absent"}) :
       /\ A # {} => Remaining = {} /\ With({"failed", "blocked"}) \cup Doomed # {}
       /\ task' = Scheduled(Doomed, {}, A)
       /\ \/ Goto(e, "evidence") /\ UNCHANGED run
          \/ /\ ReadyTasks \cup A # {}
             /\ ~Exhausted
             /\ Goto(e, IF me[e].corrective THEN "checked" ELSE "loop")
             /\ UNCHANGED run
          \/ /\ Exhausted
             /\ Remaining \cup A # {}
             /\ ~me[e].corrective
             /\ run' = "paused"
             /\ Stop(e)
  /\ UNCHANGED <<used, limit, cancel, ever, late>>

\* A corrective round adds tasks for the gaps.  Its batches follow each other
\* without _ensure_active.
Correct(e) ==
  /\ me[e].pc = "gap"
  /\ \E A \in (SUBSET With({"absent"})) \ {{}} :
       task' = Scheduled({}, {}, A)
  /\ me' = [me EXCEPT ![e].pc = "checked", ![e].corrective = TRUE]
  /\ UNCHANGED <<run, used, limit, cancel, ever, late>>

\* Report and final status; or an except clause of execute(), an exhausted
\* budget without a review among them.  Nothing raises out of the pool.
Finish(e) ==
  /\ me[e].pc \in {"loop", "checked", "reserving", "evidence", "gap"}
  /\ run' = "ended"
  /\ Stop(e)
  /\ UNCHANGED <<task, used, limit, cancel, ever, late>>

Crash(e) ==
  /\ me[e].pc \in Live
  /\ Stop(e)
  /\ UNCHANGED <<task, run, used, limit, cancel, ever, late>>

-----------------------------------------------------------------------------
(* _execute_one, for the tasks of the batch one after the other.            *)

IsNext(e, t) == t \in me[e].batch /\ \A u \in me[e].batch : t <= u

\* The worker of e leaves its task, and its session, for the next one.
Leave(e) ==
  me' = [me EXCEPT ![e] = [New EXCEPT !.pc = "pool", !.corrective = me[e].corrective,
                                      !.batch = me[e].batch \ {me[e].task}]]

\* A new session reads the run.
TakeTask(e) ==
  /\ me[e].pc = "pool"
  /\ \E t \in Task :
       /\ IsNext(e, t)
       /\ IF run = "cancelled"
          THEN /\ task' = Recorded(t, e, "cancelled")
               /\ me' = [me EXCEPT ![e].batch = @ \ {t}]
          ELSE /\ me' = [me EXCEPT ![e].pc = "claiming", ![e].task = t]
               /\ UNCHANGED task
  /\ UNCHANGED <<run, used, limit, cancel, ever, late>>

\* Mutant of Claimable: the list of ready tasks is trusted.
ClaimableAsListed(t) == task[t].status # "running"

Claimable(t) == task[t].status = "ready"

\* started_at is kept from an earlier claim: a task that was taken back is old.
ClaimTask(e) ==
  LET t == me[e].task IN
  /\ me[e].pc = "claiming"
  /\ IF Claimable(t)
     THEN /\ task' = [task EXCEPT ![t].status = "running", ![t].worker = e]
          /\ Goto(e, "working")
     ELSE /\ Leave(e)
          /\ UNCHANGED task
  /\ UNCHANGED <<run, used, limit, cancel, ever, late>>

\* reserve_tool_call reads the run row again (populate_existing), and commits.
ReserveToolCall(e) ==
  /\ me[e].pc = "working"
  /\ ~Exceeds("tool_calls")
  /\ Spend("tool_calls")
  /\ me' = [me EXCEPT ![e].pc = "searching", ![e].saw = run, ![e].tries = @ + 1]
  /\ late' = [late EXCEPT ![e] = IF run = "cancelled" THEN @ + 1 ELSE @]
  /\ UNCHANGED <<task, run, limit, cancel, ever>>

\* BudgetExhaustedError, a task without the search tool, or any exception.
FailTask(e) ==
  /\ me[e].pc \in {"working", "searching"}
  /\ task' = Recorded(me[e].task, e, "failed")
  /\ Leave(e)
  /\ UNCHANGED <<run, used, limit, cancel, ever, late>>

\* The search is back and the run, as the session knows it, is cancelled.
DiscardResults(e) ==
  /\ me[e].pc = "searching"
  /\ me[e].saw = "cancelled"
  /\ task' = Recorded(me[e].task, e, "cancelled")
  /\ Leave(e)
  /\ UNCHANGED <<run, used, limit, cancel, ever, late>>

\* Mutant of GoOn: the run is not looked at between two searches.
GoOnUnchecked(e) == me[e].tries < MaxTries

\* More results are wanted and there are queries left.
GoOn(e) == me[e].saw # "cancelled" /\ me[e].tries < MaxTries

SearchAgain(e) ==
  /\ me[e].pc = "searching"
  /\ GoOn(e)
  /\ Goto(e, "working")
  /\ UNCHANGED <<task, run, used, limit, cancel, ever, late>>

\* The sources are stored, and the task is completed if there are any.  The
\* checkpoint is written whatever became of the task.
FinishTask(e, s) ==
  LET t == me[e].task IN
  /\ me[e].pc = "searching"
  /\ me[e].saw # "cancelled"
  /\ task' = [Recorded(t, e, s) EXCEPT ![t].ckpt = s]
  /\ Leave(e)
  /\ UNCHANGED <<run, used, limit, cancel, ever, late>>

-----------------------------------------------------------------------------
(* The API and time.                                                       *)

\* cancel_run reads the run and its tasks ...
CancelRead ==
  /\ ~cancel.reading
  /\ run \in {"pending", "running", "paused"}
  /\ cancel' = [reading |-> TRUE,
                tasks |-> With(Open \cup {"running", "blocked"})]
  /\ UNCHANGED <<task, run, used, limit, me, ever, late>>

\* ... and writes both by primary key when the request ends.
CancelCommit ==
  /\ cancel.reading
  /\ run' = "cancelled"
  /\ task' = [t \in Task |-> IF t \in cancel.tasks
                             THEN [task[t] EXCEPT !.status = "cancelled"]
                             ELSE task[t]]
  /\ cancel' = NoCancel
  /\ ever' = TRUE
  /\ late' = [e \in Executor |-> 0]
  /\ UNCHANGED <<used, limit, me>>

\* A budget review is approved.
Approve ==
  /\ run = "paused"
  /\ \A m \in Metric : limit[m] < Limit[m] + Extensions
  /\ run' = "pending"
  /\ limit' = [m \in Metric |-> limit[m] + 1]
  /\ UNCHANGED <<task, used, me, cancel, ever, late>>

GrowOld(t) ==
  /\ task[t].status = "running"
  /\ ~task[t].old
  /\ task' = [task EXCEPT ![t].old = TRUE]
  /\ UNCHANGED <<run, used, limit, me, cancel, ever, late>>

-----------------------------------------------------------------------------
ExecutorStep(e) ==
  \/ Begin(e) \/ Enter(e) \/ EnsureActive(e) \/ ChooseBatch(e)
  \/ ReserveIteration(e) \/ FinishBatch(e) \/ Correct(e) \/ Finish(e)
  \/ TakeTask(e) \/ ClaimTask(e) \/ ReserveToolCall(e) \/ FailTask(e)
  \/ DiscardResults(e) \/ SearchAgain(e)
  \/ FinishTask(e, "completed") \/ FinishTask(e, "blocked")

Next ==
  \/ \E e \in Executor : ExecutorStep(e) \/ Crash(e)
  \/ CancelRead \/ CancelCommit \/ Approve
  \/ \E t \in Task : GrowOld(t)

Spec == Init /\ [][Next]_vars
FairSpec == Spec /\ \A e \in Executor : WF_vars(ExecutorStep(e))

-----------------------------------------------------------------------------
(* Properties.                                                             *)

\* Reservations of concurrent executors never overrun the budget, and what is
\* spent is spent for good.
BudgetKept == \A m \in Metric : used[m] <= limit[m]

\* A task is worked on, or done, only after all it depends on is completed.  (A
\* cancellation that was slow may write over that.)
DependenciesFirst ==
  ~ever => \A t \in With({"ready", "running", "completed"}) :
             \A d \in Deps[t] : task[d].status = "completed"

\* "completed ResearchTask rows are not re-executed", nor is any settled task,
\* however many executors have it in their batches or take it back.
SettledNotRerun ==
  [][\A t \in Task : task[t].status \in Settled => task'[t].status \in Settled]_vars

\* A worker whose task was taken back and given to another cannot complete it.
StaleWorkerCannotComplete ==
  [][\A e \in Executor : \A t \in Task :
       me[e].pc = "searching" /\ me'[e].pc = "pool" /\ me[e].task = t
         /\ task[t].worker \notin {None, e} /\ task[t].status # "completed"
       => task'[t].status # "completed"]_vars

\* After a cancellation an executor reserves at most one more tool call.
LateSpendBounded == \A e \in Executor : late[e] <= 1

\* An executor ends: rounds use up iterations, corrections are bounded, and it
\* never waits for another.
ExecutorsStop == \A e \in Executor : me[e].pc = "entering" ~> me[e].pc = "done"
=============================================================================
