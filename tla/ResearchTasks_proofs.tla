------------------------ MODULE ResearchTasks_proofs ------------------------
(***************************************************************************)
(* Proofs about the task graph and its budget, for any number of tasks and *)
(* executors, any dependencies and any budget.                             *)
(***************************************************************************)
EXTENDS ResearchTasks, FiniteSetTheorems, SequenceTheorems, WellFoundedInduction, TLAPS

-----------------------------------------------------------------------------
(* The inductive invariant.                                                *)

Begun == {"ready", "running", "completed"}

\* Between the choice of a task and its end the executor knows the task.
\* It searches again only if it has an attempt left.
Memory ==
  \A e \in Executor :
    /\ me[e].pc \in AtTask => me[e].task \in Task
    /\ me[e].pc # "searching" => me[e].tries < MaxTries

\* DependenciesFirst rests on the workers: one that was superseded may still
\* complete a task that was blocked meanwhile, but had its dependencies.
WorkersReady ==
  ~ever => \A e \in Executor : me[e].pc \in {"working", "searching"} =>
             \A d \in Deps[me[e].task] : task[d].status = "completed"

\* LateSpendBounded rests on the copy of the run row: the late reservation
\* refreshes it, and no worker takes a task of a run it reads as cancelled.
LateSeen ==
  \A e \in Executor : run = "cancelled" /\ late[e] # 0 =>
    /\ me[e].pc \notin {"claiming", "working"}
    /\ me[e].pc = "searching" => me[e].saw = "cancelled"

TaskInv ==
  /\ TaskTypeOK
  /\ Memory
  /\ BudgetKept
  /\ DependenciesFirst
  /\ WorkersReady
  /\ LateSpendBounded
  /\ LateSeen

LEMMA InitInv == ASSUME Init PROVE TaskInv
<1>1. NoTask \in TaskRow /\ New \in ExecutorState
  BY BudgetAssumption, SMT
  DEF NoTask, TaskRow, New, ExecutorState, RunStatus, Live, AtTask
<1>2. TaskTypeOK
  BY <1>1, BudgetAssumption DEF Init, TaskTypeOK, RunStatus, NoCancel, Metric
<1>3. Memory /\ WorkersReady /\ LateSeen /\ LateSpendBounded
  BY BudgetAssumption, SMT DEF Init, Memory, WorkersReady, LateSeen, LateSpendBounded, New, AtTask
<1>4. BudgetKept
  BY BudgetAssumption, SMT DEF Init, BudgetKept, Metric
<1>5. DependenciesFirst
  BY DEF Init, DependenciesFirst, With, NoTask
<1> QED
  BY <1>2, <1>3, <1>4, <1>5 DEF TaskInv

-----------------------------------------------------------------------------
(* What a step does to one row of the table.                               *)

RowStep(t) ==
  /\ task'[t] \in TaskRow
  /\ task[t].status = "completed" => task'[t].status = "completed" \/ ever'
  /\ task[t].status \in Settled => task'[t].status \in Settled
  /\ task[t].status # "absent" => task'[t].status # "absent"
  /\ task'[t].status \in Begun /\ task[t].status \notin Begun =>
       ever \/ \A d \in Deps[t] : task[d].status = "completed"

RowSteps == task' = [t \in Task |-> task'[t]] /\ \A t \in Task : RowStep(t)

Status == {"absent", "running"} \cup Open \cup Settled

\* A row given to a worker, or taken from it.
Assigned(r, s, w) == [r EXCEPT !.status = s, !.worker = w]

LEMMA AssignedType ==
  ASSUME NEW r \in TaskRow, NEW s \in Status, NEW w \in Executor \cup {None}
  PROVE  LET n == Assigned(r, s, w)
         IN n \in TaskRow /\ n.status = s /\ n.ckpt = r.ckpt
<1> DEFINE r1 == [r EXCEPT !.status = s]
           n == [r1 EXCEPT !.worker = w]
<1>1. r1 \in TaskRow /\ r1.status = s /\ r1.ckpt = r.ckpt
  BY SMT DEF TaskRow, Status
<1>2. n \in TaskRow /\ n.status = s /\ n.ckpt = r.ckpt
  <2> HIDE DEF r1
  <2> QED
    BY <1>1, SMT DEF TaskRow
<1>3. Assigned(r, s, w) = n
  BY DEF Assigned
<1> QED
  BY <1>2, <1>3

\* A step that leaves the table alone.
LEMMA RowsUnchanged == ASSUME TaskTypeOK, UNCHANGED task PROVE RowSteps
  BY DEF TaskTypeOK, RowSteps, RowStep

LEMMA DoomedOpen == Doomed \subseteq With(Open)
  BY DEF Doomed

\* Blocking, making ready and adding tasks moves open and absent rows only.
LEMMA ScheduledSteps ==
  ASSUME TaskTypeOK, NEW S \in SUBSET With(Open), NEW R \in SUBSET ReadyTasks,
         NEW A \in SUBSET With({"absent"}),
         task' = Scheduled(S, R, A)
  PROVE  RowSteps
<1>1. task' = [t \in Task |-> task'[t]]
  BY DEF Scheduled
<1>2. SUFFICES ASSUME NEW t \in Task PROVE RowStep(t)
  BY <1>1 DEF RowSteps
<1>3. task[t] \in TaskRow
  BY DEF TaskTypeOK
<1>4. CASE t \in S
  BY <1>3, <1>4, SMT
  DEF RowStep, Scheduled, With, Open, Settled, Dead, TaskRow, Begun
<1>5. CASE t \notin S /\ t \in R
  BY <1>3, <1>5, SMT
  DEF RowStep, Scheduled, ReadyTasks, Satisfied, With, Open, Settled, Dead, TaskRow, Begun
<1>6. CASE t \notin S /\ t \notin R /\ t \in A
  <2>1. task[t].status = "absent"
    BY <1>6 DEF With
  <2>2. task'[t] = [NoTask EXCEPT !.status = "pending"]
    BY <1>6 DEF Scheduled
  <2>3. task'[t] = [status |-> "pending", worker |-> None, old |-> FALSE, ckpt |-> "none"]
    BY <2>2 DEF NoTask
  <2>4. task'[t] \in TaskRow /\ task'[t].status = "pending"
    BY <2>3, SMT DEF TaskRow, Open
  <2> QED
    BY <2>1, <2>4, SMT DEF RowStep, Settled, Dead, Begun
<1>7. CASE t \notin S /\ t \notin R /\ t \notin A
  BY <1>3, <1>7 DEF RowStep, Scheduled
<1> QED
  BY <1>4, <1>5, <1>6, <1>7

\* What a worker records, with the dependencies of its task completed.
LEMMA RecordedSteps ==
  ASSUME TaskTypeOK, NEW u \in Task, NEW e \in Executor, NEW s \in Settled,
         s = "completed" => ever \/ \A d \in Deps[u] : task[d].status = "completed",
         NEW c \in {"completed", "blocked"},
         \/ task' = Recorded(u, e, s)
         \/ task' = [Recorded(u, e, s) EXCEPT ![u].ckpt = c]
  PROVE  RowSteps
<1>1. task' = [t \in Task |-> task'[t]]
  BY DEF Recorded, TaskTypeOK
<1>2. SUFFICES ASSUME NEW t \in Task PROVE RowStep(t)
  BY <1>1 DEF RowSteps
<1>3. task[t] \in TaskRow /\ task[u] \in TaskRow
  BY DEF TaskTypeOK
<1>4. CASE t # u
  <2>1. task'[t] = task[t]
    BY <1>4 DEF Recorded, TaskTypeOK
  <2> QED
    BY <1>3, <2>1 DEF RowStep
<1>5. CASE t = u /\ MayRecord(task[u], e, s)
  <2> DEFINE m == [task EXCEPT ![u].status = s, ![u].worker = e]
             n == Assigned(task[u], s, e)
  <2>1. m[u] = n /\ u \in DOMAIN m
    BY DEF TaskTypeOK, Assigned
  <2>2. task' = m \/ task' = [m EXCEPT ![u].ckpt = c]
    BY <1>5 DEF Recorded
  <2>3. n \in TaskRow /\ n.status = s
    BY <1>3, AssignedType DEF Status
  <2> HIDE DEF m, n
  <2>4. task'[u] = n \/ task'[u] = [n EXCEPT !.ckpt = c]
    BY <2>1, <2>2
  <2>5. [n EXCEPT !.ckpt = c] \in TaskRow /\ [n EXCEPT !.ckpt = c].status = s
    BY <2>3, SMT DEF TaskRow
  <2>6. task'[t] \in TaskRow /\ task'[t].status = s
    BY <1>5, <2>3, <2>4, <2>5
  <2>7. task[t].status = "completed" => s = "completed"
    BY <1>5 DEF MayRecord
  <2> QED
    BY <1>5, <2>6, <2>7, SMT DEF RowStep, Settled, Dead, Begun
<1>6. CASE t = u /\ ~MayRecord(task[u], e, s)
  <2>1. task'[t] = task[t] \/ task'[t] = [task[t] EXCEPT !.ckpt = c]
    BY <1>6 DEF Recorded, TaskTypeOK
  <2> QED
    BY <1>3, <1>6, <2>1, SMT DEF RowStep, TaskRow, Settled, Dead, Open, Begun
<1> QED
  BY <1>4, <1>5, <1>6

\* Taking back what a worker has left behind.
LEMMA ReclaimedSteps ==
  ASSUME TaskTypeOK, task' = [t \in Task |-> Reclaimed(task[t])]
  PROVE  RowSteps
<1>1. SUFFICES ASSUME NEW t \in Task PROVE RowStep(t)
  BY DEF RowSteps
<1> DEFINE r == task[t]
<1>2. r \in TaskRow /\ task'[t] = Reclaimed(r)
  BY DEF TaskTypeOK
<1> HIDE DEF r
<1>3. CASE r.status # "running"
  <2>1. task'[t] = r
    BY <1>2, <1>3 DEF Reclaimed
  <2> QED
    BY <1>2, <2>1 DEF RowStep, r
<1>4. CASE r.status = "running" /\ r.ckpt # "none"
  <2>1. task'[t] = [r EXCEPT !.status = r.ckpt]
    BY <1>2, <1>4 DEF Reclaimed
  <2>2. task'[t] \in TaskRow /\ task'[t].status # "absent"
    BY <1>2, <1>4, <2>1, SMT DEF TaskRow, Settled, Dead
  <2> QED
    BY <1>4, <2>2 DEF RowStep, r, Settled, Dead, Begun
<1>5. CASE r.status = "running" /\ r.ckpt = "none" /\ r.old
  <2>1. task'[t] = Assigned(r, "ready", None)
    BY <1>2, <1>5 DEF Reclaimed, Assigned
  <2>2. task'[t] \in TaskRow /\ task'[t].status = "ready"
    BY <1>2, <2>1, AssignedType DEF Status, Open
  <2> QED
    BY <1>5, <2>2 DEF RowStep, r, Settled, Dead, Begun
<1>6. CASE r.status = "running" /\ r.ckpt = "none" /\ ~r.old
  <2>1. task'[t] = r
    BY <1>2, <1>6 DEF Reclaimed
  <2> QED
    BY <1>2, <2>1 DEF RowStep, r
<1> QED
  BY <1>3, <1>4, <1>5, <1>6

\* A worker claims a task: its dependencies are completed already.
LEMMA ClaimedSteps ==
  ASSUME TaskTypeOK, NEW u \in Task, NEW e \in Executor,
         task[u].status = "ready",
         task' = [task EXCEPT ![u].status = "running", ![u].worker = e]
  PROVE  RowSteps
<1>1. task' = [t \in Task |-> task'[t]]
  BY DEF TaskTypeOK
<1>2. SUFFICES ASSUME NEW t \in Task PROVE RowStep(t)
  BY <1>1 DEF RowSteps
<1>3. task[t] \in TaskRow /\ task[u] \in TaskRow
  BY DEF TaskTypeOK
<1>4. CASE t # u
  <2>1. task'[t] = task[t]
    BY <1>4 DEF TaskTypeOK
  <2> QED
    BY <1>3, <2>1 DEF RowStep
<1>5. CASE t = u
  <2>1. /\ Assigned(task[u], "running", e) \in TaskRow
        /\ Assigned(task[u], "running", e).status = "running"
    BY <1>3, AssignedType DEF Status
  <2>2. task'[u] = Assigned(task[u], "running", e)
    BY DEF TaskTypeOK, Assigned
  <2> QED
    BY <1>5, <2>1, <2>2 DEF RowStep, Settled, Dead, Begun
<1> QED
  BY <1>4, <1>5

\* A cancellation writes the rows it has read; a task gets old.
LEMMA CancelledSteps ==
  ASSUME TaskTypeOK, CancelCommit
  PROVE  RowSteps
<1>1. SUFFICES ASSUME NEW t \in Task PROVE RowStep(t)
  BY DEF RowSteps, CancelCommit
<1>2. task[t] \in TaskRow /\ ever'
  BY DEF TaskTypeOK, CancelCommit
<1>3. CASE t \in cancel.tasks
  <2>1. task'[t] = [task[t] EXCEPT !.status = "cancelled"]
    BY <1>3 DEF CancelCommit
  <2>2. task'[t] \in TaskRow /\ task'[t].status = "cancelled"
    BY <1>2, <2>1, SMT DEF TaskRow, Settled, Dead
  <2> QED
    BY <1>2, <2>2 DEF RowStep, Settled, Dead, Begun
<1>4. CASE t \notin cancel.tasks
  <2>1. task'[t] = task[t]
    BY <1>4 DEF CancelCommit
  <2> QED
    BY <1>2, <2>1 DEF RowStep
<1> QED
  BY <1>3, <1>4

LEMMA GrowOldSteps ==
  ASSUME TaskTypeOK, NEW u \in Task, GrowOld(u)
  PROVE  RowSteps
<1>1. task' = [t \in Task |-> task'[t]]
  BY DEF TaskTypeOK, GrowOld
<1>2. SUFFICES ASSUME NEW t \in Task PROVE RowStep(t)
  BY <1>1 DEF RowSteps
<1>3. task[t] \in TaskRow
  BY DEF TaskTypeOK
<1>4. task \in [Task -> TaskRow] /\ task' = [task EXCEPT ![u].old = TRUE]
  BY DEF TaskTypeOK, GrowOld
<1>5. task'[t] = task[t] \/ task'[t] = [task[t] EXCEPT !.old = TRUE]
  BY <1>4
<1>6. /\ [task[t] EXCEPT !.old = TRUE] \in TaskRow
      /\ [task[t] EXCEPT !.old = TRUE].status = task[t].status
  BY <1>3, Zenon DEF TaskRow
<1> QED
  BY <1>3, <1>5, <1>6 DEF RowStep

-----------------------------------------------------------------------------
(* What the executors hold in memory.                                      *)

MemoryOf(x) ==
  /\ x \in ExecutorState
  /\ x.pc \in AtTask => x.task \in Task
  /\ x.pc # "searching" => x.tries < MaxTries

LEMMA MemoryStep ==
  ASSUME me \in [Executor -> ExecutorState], Memory,
         NEW e \in Executor, NEW x, me' = [me EXCEPT ![e] = x], MemoryOf(x)
  PROVE  me' \in [Executor -> ExecutorState] /\ Memory'
<1>1. ASSUME NEW f \in Executor PROVE me'[f] = me[f] \/ me'[f] = x
  OBVIOUS
<1>2. ASSUME NEW f \in Executor PROVE MemoryOf(me'[f])
  BY <1>1, <1>2 DEF Memory, MemoryOf
<1> QED
  BY <1>2 DEF Memory, MemoryOf

LEMMA NewMemory == New \in ExecutorState /\ MemoryOf(New)
<1>1. New \in ExecutorState /\ New.pc = "new" /\ New.tries < MaxTries
  BY BudgetAssumption, SMT DEF New, ExecutorState, RunStatus, Live, AtTask
<1> QED
  BY <1>1 DEF MemoryOf, AtTask

\* At the end, and at the start of the first round.
LEMMA ResetMemory ==
  ASSUME NEW p \in {"done", "loop"}
  PROVE  MemoryOf([New EXCEPT !.pc = p])
<1>1. New \in ExecutorState /\ New.tries < MaxTries
  BY BudgetAssumption, NewMemory, SMT DEF New
<1>2. p \in {"new", "done"} \cup Live /\ p \notin AtTask
  BY DEF Live, AtTask
<1>3. /\ [New EXCEPT !.pc = p] \in ExecutorState
      /\ [New EXCEPT !.pc = p].tries = New.tries
      /\ [New EXCEPT !.pc = p].pc = p
  BY <1>1, <1>2, SMT DEF ExecutorState
<1> QED
  BY <1>1, <1>2, <1>3 DEF MemoryOf

LEMMA GotoMemory ==
  ASSUME NEW r, MemoryOf(r), NEW p \in Live,
         p \in AtTask => r.task \in Task, p # "searching" => r.tries < MaxTries
  PROVE  MemoryOf([r EXCEPT !.pc = p])
  BY SMT DEF MemoryOf, ExecutorState

\* What one assignment to the memory does.
LEMMA PutPlace ==
  ASSUME NEW r \in ExecutorState, NEW p \in Live
  PROVE  LET n == [r EXCEPT !.pc = p]
         IN n \in ExecutorState /\ n.pc = p /\ n.task = r.task /\ n.tries = r.tries
  BY SMT DEF ExecutorState

LEMMA PutBatch ==
  ASSUME NEW r \in ExecutorState, NEW b \in SUBSET Task
  PROVE  LET n == [r EXCEPT !.batch = b]
         IN n \in ExecutorState /\ n.pc = r.pc /\ n.task = r.task /\ n.tries = r.tries
  BY SMT DEF ExecutorState

LEMMA PutCorrective ==
  ASSUME NEW r \in ExecutorState, NEW c \in BOOLEAN
  PROVE  LET n == [r EXCEPT !.corrective = c]
         IN n \in ExecutorState /\ n.pc = r.pc /\ n.task = r.task /\ n.tries = r.tries
  BY SMT DEF ExecutorState

LEMMA PutSaw ==
  ASSUME NEW r \in ExecutorState, NEW s \in RunStatus
  PROVE  LET n == [r EXCEPT !.saw = s]
         IN n \in ExecutorState /\ n.pc = r.pc /\ n.task = r.task /\ n.tries = r.tries
  BY SMT DEF ExecutorState

LEMMA PutTask ==
  ASSUME NEW r \in ExecutorState, NEW t \in Task
  PROVE  LET n == [r EXCEPT !.task = t]
         IN n \in ExecutorState /\ n.pc = r.pc /\ n.task = t /\ n.tries = r.tries
  BY SMT DEF ExecutorState

LEMMA PutTries ==
  ASSUME NEW r \in ExecutorState, NEW k \in 0..MaxTries
  PROVE  LET n == [r EXCEPT !.tries = k]
         IN n \in ExecutorState /\ n.pc = r.pc /\ n.task = r.task /\ n.tries = k
  BY SMT DEF ExecutorState

LEMMA LeaveMemory ==
  ASSUME NEW r \in ExecutorState, NEW b \in SUBSET Task
  PROVE  MemoryOf([New EXCEPT !.pc = "pool", !.corrective = r.corrective, !.batch = b])
<1> DEFINE n1 == [New EXCEPT !.pc = "pool"]
           n2 == [n1 EXCEPT !.corrective = r.corrective]
           n == [n2 EXCEPT !.batch = b]
<1>1. r.corrective \in BOOLEAN /\ New \in ExecutorState /\ New.tries < MaxTries
  BY NewMemory, BudgetAssumption, SMT DEF ExecutorState, New
<1>2. n1 \in ExecutorState /\ n1.pc = "pool" /\ n1.tries = New.tries
  BY <1>1, PutPlace DEF Live
<1> HIDE DEF n1
<1>3. n2 \in ExecutorState /\ n2.pc = "pool" /\ n2.tries = New.tries
  BY <1>1, <1>2, PutCorrective
<1> HIDE DEF n2
<1>4. n \in ExecutorState /\ n.pc = "pool" /\ n.tries = New.tries
  BY <1>3, PutBatch
<1>5. n = [New EXCEPT !.pc = "pool", !.corrective = r.corrective, !.batch = b]
  BY DEF n1, n2
<1> HIDE DEF n
<1>6. MemoryOf(n)
  BY <1>1, <1>4 DEF MemoryOf, AtTask
<1> QED
  BY <1>5, <1>6

\* A place with one thing noted: a batch, a kind of round or a status.
LEMMA NotedMemory ==
  ASSUME NEW r, MemoryOf(r), NEW p \in Live \ AtTask, r.tries < MaxTries
  PROVE  /\ \A b \in SUBSET Task : MemoryOf([r EXCEPT !.pc = p, !.batch = b])
         /\ \A c \in BOOLEAN : MemoryOf([r EXCEPT !.pc = p, !.corrective = c])
         /\ \A s \in RunStatus : MemoryOf([r EXCEPT !.pc = p, !.saw = s])
<1> DEFINE n == [r EXCEPT !.pc = p]
<1>1. n \in ExecutorState /\ n.pc = p /\ n.tries = r.tries
  BY PutPlace DEF MemoryOf
<1>2. /\ \A b \in SUBSET Task : [r EXCEPT !.pc = p, !.batch = b] = [n EXCEPT !.batch = b]
      /\ \A c \in BOOLEAN : [r EXCEPT !.pc = p, !.corrective = c] = [n EXCEPT !.corrective = c]
      /\ \A s \in RunStatus : [r EXCEPT !.pc = p, !.saw = s] = [n EXCEPT !.saw = s]
  OBVIOUS
<1> HIDE DEF n
<1>3. ASSUME NEW b \in SUBSET Task PROVE MemoryOf([n EXCEPT !.batch = b])
  BY <1>1, PutBatch DEF MemoryOf
<1>4. ASSUME NEW c \in BOOLEAN PROVE MemoryOf([n EXCEPT !.corrective = c])
  BY <1>1, PutCorrective DEF MemoryOf
<1>5. ASSUME NEW s \in RunStatus PROVE MemoryOf([n EXCEPT !.saw = s])
  BY <1>1, PutSaw DEF MemoryOf
<1> QED
  BY <1>2, <1>3, <1>4, <1>5

LEMMA TakenMemory ==
  ASSUME NEW r, MemoryOf(r), NEW t \in Task, r.tries < MaxTries
  PROVE  MemoryOf([r EXCEPT !.pc = "claiming", !.task = t])
<1> DEFINE n1 == [r EXCEPT !.pc = "claiming"]
           n == [n1 EXCEPT !.task = t]
<1>1. n1 \in ExecutorState /\ n1.pc = "claiming" /\ n1.tries = r.tries
  BY PutPlace DEF MemoryOf, Live, AtTask
<1> HIDE DEF n1
<1>2. n \in ExecutorState /\ n.task = t /\ n.tries = r.tries
  BY <1>1, PutTask
<1>3. n = [r EXCEPT !.pc = "claiming", !.task = t]
  BY DEF n1
<1> HIDE DEF n
<1>4. MemoryOf(n)
  BY <1>2 DEF MemoryOf
<1> QED
  BY <1>3, <1>4

LEMMA SearchMemory ==
  ASSUME NEW r, MemoryOf(r), r.pc = "working", NEW s \in RunStatus
  PROVE  MemoryOf([r EXCEPT !.pc = "searching", !.saw = s, !.tries = @ + 1])
<1> DEFINE n1 == [r EXCEPT !.pc = "searching"]
           n2 == [n1 EXCEPT !.saw = s]
           n == [n2 EXCEPT !.tries = r.tries + 1]
<1>1. r.task \in Task /\ r.tries + 1 \in 0..MaxTries
  BY BudgetAssumption, SMT DEF MemoryOf, AtTask, ExecutorState
<1>2. n1 \in ExecutorState /\ n1.pc = "searching" /\ n1.task = r.task
  BY PutPlace DEF MemoryOf, Live, AtTask
<1> HIDE DEF n1
<1>3. n2 \in ExecutorState /\ n2.pc = "searching" /\ n2.task = r.task
  BY <1>2, PutSaw
<1> HIDE DEF n2
<1>4. n \in ExecutorState /\ n.pc = "searching" /\ n.task = r.task
  BY <1>1, <1>3, PutTries
<1>5. n = [r EXCEPT !.pc = "searching", !.saw = s, !.tries = @ + 1]
  BY DEF n1, n2
<1> HIDE DEF n
<1>6. MemoryOf(n)
  BY <1>1, <1>4 DEF MemoryOf
<1> QED
  BY <1>5, <1>6

\* Every step of an executor leaves it with a memory of the right shape.
LEMMA ExecutorMemory ==
  ASSUME TaskTypeOK, Memory, NEW e \in Executor, ExecutorStep(e) \/ Crash(e)
  PROVE  me' \in [Executor -> ExecutorState] /\ Memory'
<1> DEFINE r == me[e]
<1>1. me \in [Executor -> ExecutorState] /\ MemoryOf(r) /\ run \in RunStatus
  BY DEF TaskTypeOK, Memory, MemoryOf
<1>2. SUFFICES \E x : MemoryOf(x) /\ me' = [me EXCEPT ![e] = x]
  BY <1>1, MemoryStep
<1>3. ASSUME NEW p \in Live \ AtTask, r.pc # "searching", Goto(e, p)
      PROVE  \E x : MemoryOf(x) /\ me' = [me EXCEPT ![e] = x]
  <2>1. me' = [me EXCEPT ![e] = [r EXCEPT !.pc = p]]
    BY <1>3 DEF Goto
  <2>2. r.tries < MaxTries
    BY <1>1, <1>3 DEF MemoryOf
  <2> HIDE DEF r
  <2>3. MemoryOf([r EXCEPT !.pc = p])
    BY <1>1, <1>3, <2>2, GotoMemory
  <2> QED
    BY <2>1, <2>3
<1>4. ASSUME Stop(e)
      PROVE  \E x : MemoryOf(x) /\ me' = [me EXCEPT ![e] = x]
  BY <1>4, ResetMemory DEF Stop
<1>5. ASSUME Leave(e)
      PROVE  \E x : MemoryOf(x) /\ me' = [me EXCEPT ![e] = x]
  <2> DEFINE b == r.batch \ {r.task}
             x == [New EXCEPT !.pc = "pool", !.corrective = r.corrective, !.batch = b]
  <2>1. b \in SUBSET Task /\ r \in ExecutorState
    BY <1>1, SMT DEF MemoryOf, ExecutorState
  <2>2. me' = [me EXCEPT ![e] = x]
    BY <1>5 DEF Leave
  <2> HIDE DEF r, b
  <2>3. MemoryOf(x)
    BY <2>1, LeaveMemory
  <2> QED
    BY <2>2, <2>3
<1>6. CASE Begin(e)
  <2>1. me' = [me EXCEPT ![e] = [r EXCEPT !.pc = "entering", !.saw = run]]
    BY <1>6 DEF Begin
  <2>2. r.tries < MaxTries /\ "entering" \in Live \ AtTask
    BY <1>1, <1>6 DEF MemoryOf, Begin, Live, AtTask
  <2> HIDE DEF r
  <2>3. MemoryOf([r EXCEPT !.pc = "entering", !.saw = run])
    BY <1>1, <2>2, NotedMemory
  <2> QED
    BY <2>1, <2>3
<1>7. CASE Enter(e)
  BY <1>7, ResetMemory DEF Enter
<1>8. CASE EnsureActive(e)
  <2>1. r.pc # "searching"
    BY <1>8 DEF EnsureActive
  <2>2. Stop(e) \/ Goto(e, "checked") \/ Goto(e, "gap")
    BY <1>8 DEF EnsureActive
  <2> QED
    BY <1>3, <1>4, <2>1, <2>2 DEF Live, AtTask
<1>9. CASE ChooseBatch(e)
  <2>1. r.pc # "searching" /\ r.tries < MaxTries /\ "reserving" \in Live \ AtTask
    BY <1>1, <1>9 DEF ChooseBatch, MemoryOf, Live, AtTask
  <2>2. CASE Stop(e) \/ Goto(e, "evidence")
    BY <1>3, <1>4, <2>1, <2>2 DEF Live, AtTask
  <2>3. ASSUME NEW ready \in SUBSET ReadyTasks,
               me' = [me EXCEPT ![e].pc = "reserving", ![e].batch = ready]
        PROVE  \E x : MemoryOf(x) /\ me' = [me EXCEPT ![e] = x]
    <3>1. me' = [me EXCEPT ![e] = [r EXCEPT !.pc = "reserving", !.batch = ready]]
      BY <2>3
    <3>2. ready \in SUBSET Task
      BY DEF ReadyTasks, With
    <3> HIDE DEF r
    <3>3. MemoryOf([r EXCEPT !.pc = "reserving", !.batch = ready])
      BY <1>1, <2>1, <3>2, NotedMemory
    <3> QED
      BY <3>1, <3>3
  <2>4. \A held : ReadyTasks \ held \in SUBSET ReadyTasks
    OBVIOUS
  <2> QED
    BY <1>9, <2>2, <2>3, <2>4 DEF ChooseBatch, PauseForBudget
<1>10. CASE ReserveIteration(e)
  <2>1. r.pc # "searching" /\ (Stop(e) \/ Goto(e, "pool"))
    BY <1>10 DEF ReserveIteration, PauseForBudget
  <2> QED
    BY <1>3, <1>4, <2>1 DEF Live, AtTask
<1>11. CASE FinishBatch(e)
  <2>1. /\ r.pc # "searching"
        /\ Stop(e) \/ Goto(e, "evidence") \/ Goto(e, "checked") \/ Goto(e, "loop")
    BY <1>11 DEF FinishBatch
  <2> QED
    BY <1>3, <1>4, <2>1 DEF Live, AtTask
<1>12. CASE Correct(e)
  <2>1. me' = [me EXCEPT ![e] = [r EXCEPT !.pc = "checked", !.corrective = TRUE]]
    BY <1>12 DEF Correct
  <2>2. r.tries < MaxTries /\ "checked" \in Live \ AtTask
    BY <1>1, <1>12 DEF MemoryOf, Correct, Live, AtTask
  <2> HIDE DEF r
  <2>3. MemoryOf([r EXCEPT !.pc = "checked", !.corrective = TRUE])
    BY <1>1, <2>2, NotedMemory
  <2> QED
    BY <2>1, <2>3
<1>13. CASE Finish(e) \/ Crash(e)
  BY <1>4, <1>13 DEF Finish, Crash
<1>14. CASE TakeTask(e)
  <2>1. PICK t \in Task :
          \/ me' = [me EXCEPT ![e].batch = @ \ {t}]
          \/ me' = [me EXCEPT ![e].pc = "claiming", ![e].task = t]
    BY <1>14 DEF TakeTask
  <2>2. r.pc = "pool" /\ r.tries < MaxTries
    BY <1>1, <1>14 DEF TakeTask, MemoryOf
  <2>3. CASE me' = [me EXCEPT ![e].batch = @ \ {t}]
    <3> DEFINE b == r.batch \ {t}
    <3>1. b \in SUBSET Task /\ r \in ExecutorState
      BY <1>1, SMT DEF MemoryOf, ExecutorState
    <3>2. me' = [me EXCEPT ![e] = [r EXCEPT !.batch = b]]
      BY <2>3
    <3> HIDE DEF r, b
    <3>3. MemoryOf([r EXCEPT !.batch = b])
      BY <2>2, <3>1, PutBatch DEF MemoryOf, AtTask
    <3> QED
      BY <3>2, <3>3
  <2>4. CASE me' = [me EXCEPT ![e].pc = "claiming", ![e].task = t]
    <3>1. me' = [me EXCEPT ![e] = [r EXCEPT !.pc = "claiming", !.task = t]]
      BY <2>4
    <3> HIDE DEF r
    <3>2. MemoryOf([r EXCEPT !.pc = "claiming", !.task = t])
      BY <1>1, <2>2, TakenMemory
    <3> QED
      BY <3>1, <3>2
  <2> QED
    BY <2>1, <2>3, <2>4
<1>15. CASE ClaimTask(e)
  <2>1. CASE Leave(e)
    BY <1>5, <2>1
  <2>2. CASE Goto(e, "working")
    <3>1. me' = [me EXCEPT ![e] = [r EXCEPT !.pc = "working"]]
      BY <2>2 DEF Goto
    <3>2. r.task \in Task /\ r.tries < MaxTries /\ "working" \in Live
      BY <1>1, <1>15 DEF MemoryOf, ClaimTask, AtTask, Live
    <3> HIDE DEF r
    <3>3. MemoryOf([r EXCEPT !.pc = "working"])
      BY <1>1, <3>2, GotoMemory
    <3> QED
      BY <3>1, <3>3
  <2> QED
    BY <1>15, <2>1, <2>2 DEF ClaimTask
<1>16. CASE ReserveToolCall(e)
  <2>1. me' = [me EXCEPT ![e] = [r EXCEPT !.pc = "searching", !.saw = run, !.tries = @ + 1]]
    BY <1>16 DEF ReserveToolCall
  <2>2. r.pc = "working"
    BY <1>16 DEF ReserveToolCall
  <2> HIDE DEF r
  <2>3. MemoryOf([r EXCEPT !.pc = "searching", !.saw = run, !.tries = @ + 1])
    BY <1>1, <2>2, SearchMemory
  <2> QED
    BY <2>1, <2>3
<1>17. CASE SearchAgain(e)
  <2>1. me' = [me EXCEPT ![e] = [r EXCEPT !.pc = "working"]]
    BY <1>17 DEF SearchAgain, Goto
  <2>2. r.task \in Task /\ r.tries < MaxTries /\ "working" \in Live
    BY <1>1, <1>17 DEF MemoryOf, SearchAgain, GoOn, AtTask, Live
  <2> HIDE DEF r
  <2>3. MemoryOf([r EXCEPT !.pc = "working"])
    BY <1>1, <2>2, GotoMemory
  <2> QED
    BY <2>1, <2>3
<1>18. CASE \/ FailTask(e) \/ DiscardResults(e)
            \/ FinishTask(e, "completed") \/ FinishTask(e, "blocked")
  BY <1>5, <1>18 DEF FailTask, DiscardResults, FinishTask
<1> QED
  BY <1>6, <1>7, <1>8, <1>9, <1>10, <1>11, <1>12, <1>13, <1>14, <1>15, <1>16,
     <1>17, <1>18 DEF ExecutorStep

-----------------------------------------------------------------------------
(* Every step of the run treats every row as RowStep says.                 *)

LEMMA NextRows ==
  ASSUME TaskInv, [Next]_vars
  PROVE  RowSteps
<1>1. TaskTypeOK /\ Memory /\ WorkersReady
  BY DEF TaskInv
<1>2. CASE UNCHANGED vars \/ CancelRead \/ Approve
  BY <1>1, <1>2, RowsUnchanged DEF vars, CancelRead, Approve
<1>3. CASE CancelCommit
  BY <1>1, <1>3, CancelledSteps
<1>4. CASE \E t \in Task : GrowOld(t)
  BY <1>1, <1>4, GrowOldSteps
<1>5. ASSUME NEW e \in Executor, ExecutorStep(e) \/ Crash(e)
      PROVE  RowSteps
  <2>1. CASE \/ Begin(e) \/ EnsureActive(e) \/ ReserveIteration(e) \/ Finish(e)
             \/ ReserveToolCall(e) \/ SearchAgain(e) \/ Crash(e)
    BY <1>1, <2>1, RowsUnchanged
    DEF Begin, EnsureActive, ReserveIteration, Finish, ReserveToolCall, SearchAgain, Crash
  <2>2. CASE Enter(e)
    <3>1. CASE With({"absent"}) = Task
      <4>1. task' = Scheduled({}, {}, Planned) /\ Planned \subseteq With({"absent"})
        BY <2>2, <3>1, TasksAssumption DEF Enter
      <4> QED
        BY <1>1, <4>1, ScheduledSteps
    <3>2. CASE With({"absent"}) # Task
      BY <1>1, <2>2, <3>2, ReclaimedSteps DEF Enter
    <3> QED
      BY <3>1, <3>2
  <2>3. CASE ChooseBatch(e)
    BY <1>1, <2>3, DoomedOpen, ScheduledSteps DEF ChooseBatch
  <2>4. CASE FinishBatch(e)
    <3>1. PICK A \in SUBSET With({"absent"}) : task' = Scheduled(Doomed, {}, A)
      BY <2>4 DEF FinishBatch
    <3> QED
      BY <1>1, <3>1, DoomedOpen, ScheduledSteps
  <2>5. CASE Correct(e)
    <3>1. PICK A \in SUBSET With({"absent"}) : task' = Scheduled({}, {}, A)
      BY <2>5 DEF Correct
    <3> QED
      BY <1>1, <3>1, ScheduledSteps
  <2>6. CASE TakeTask(e)
    <3>1. PICK t \in Task : task' = Recorded(t, e, "cancelled") \/ UNCHANGED task
      BY <2>6 DEF TakeTask
    <3> QED
      BY <1>1, <3>1, RecordedSteps, RowsUnchanged DEF Settled, Dead
  <2>7. CASE ClaimTask(e)
    <3>1. me[e].task \in Task
      BY <1>1, <2>7 DEF ClaimTask, Memory, AtTask
    <3> QED
      BY <1>1, <2>7, <3>1, ClaimedSteps, RowsUnchanged DEF ClaimTask, Claimable
  <2>8. CASE FailTask(e) \/ DiscardResults(e)
    <3>1. me[e].task \in Task
      BY <1>1, <2>8 DEF FailTask, DiscardResults, Memory, AtTask
    <3>2. PICK s \in Dead : task' = Recorded(me[e].task, e, s)
      BY <2>8 DEF FailTask, DiscardResults, Dead
    <3> QED
      BY <1>1, <3>1, <3>2, RecordedSteps DEF Settled, Dead
  <2>9. ASSUME NEW s \in {"completed", "blocked"}, FinishTask(e, s)
        PROVE  RowSteps
    <3> DEFINE u == me[e].task
    <3>1. u \in Task
      BY <1>1, <2>9 DEF FinishTask, Memory, AtTask
    <3>2. ever \/ \A d \in Deps[u] : task[d].status = "completed"
      BY <1>1, <2>9 DEF FinishTask, WorkersReady
    <3>3. task' = [Recorded(u, e, s) EXCEPT ![u].ckpt = s]
      BY <2>9 DEF FinishTask
    <3> HIDE DEF u
    <3>4. s \in Settled
      BY DEF Settled, Dead
    <3> QED
      BY <1>1, <3>1, <3>2, <3>3, <3>4, RecordedSteps
  <2> QED
    BY <1>5, <2>1, <2>2, <2>3, <2>4, <2>5, <2>6, <2>7, <2>8, <2>9 DEF ExecutorStep
<1> QED
  BY <1>2, <1>3, <1>4, <1>5 DEF Next

-----------------------------------------------------------------------------
(* The other parts of the invariant.                                       *)

\* A step of one executor leaves the memory of the others alone.
LEMMA OthersAlone ==
  ASSUME TaskTypeOK, NEW e \in Executor, ExecutorStep(e) \/ Crash(e),
         NEW f \in Executor, f # e
  PROVE  me'[f] = me[f] /\ late'[f] = late[f]
<1>1. /\ me \in [Executor -> ExecutorState] /\ late \in [Executor -> Nat]
      /\ \A p : Goto(e, p) => me'[f] = me[f]
      /\ Stop(e) \/ Leave(e) => me'[f] = me[f]
  BY DEF TaskTypeOK, Goto, Stop, Leave
<1>2. me'[f] = me[f]
  BY <1>1 DEF ExecutorStep, Crash, Begin, Enter, EnsureActive, ChooseBatch,
     PauseForBudget, ReserveIteration, FinishBatch, Correct, Finish, TakeTask,
     ClaimTask, ReserveToolCall, FailTask, DiscardResults, SearchAgain, FinishTask
<1>3. late'[f] = late[f]
  BY <1>1 DEF ExecutorStep, Crash, Begin, Enter, EnsureActive, ChooseBatch,
     ReserveIteration, FinishBatch, Correct, Finish, TakeTask,
     ClaimTask, ReserveToolCall, FailTask, DiscardResults, SearchAgain, FinishTask
<1> QED
  BY <1>2, <1>3

\* An executor works on a task only after it has claimed it, and notes the
\* status of the run when it reserves a search.
LEMMA WorkSteps ==
  ASSUME TaskTypeOK, NEW e \in Executor, ExecutorStep(e) \/ Crash(e),
         me'[e].pc \in {"claiming", "working", "searching"}
  PROVE  \/ me'[e].pc = "claiming" /\ run # "cancelled" /\ UNCHANGED late
         \/ /\ ClaimTask(e) /\ me'[e].pc = "working"
            /\ task[me[e].task].status = "ready" /\ me'[e].task = me[e].task
            /\ UNCHANGED late
         \/ /\ ReserveToolCall(e) /\ me'[e].pc = "searching"
            /\ me'[e].task = me[e].task /\ me'[e].saw = run
         \/ /\ SearchAgain(e) /\ me'[e].pc = "working" /\ me'[e].task = me[e].task
            /\ me[e].saw # "cancelled" /\ UNCHANGED late
<1>1. me \in [Executor -> ExecutorState]
  BY DEF TaskTypeOK
<1>2. \A p \in {"loop", "checked", "gap", "pool", "evidence"} : ~Goto(e, p)
  BY <1>1, SMT DEF Goto, ExecutorState
<1>3. ~Stop(e)
  BY <1>1 DEF Stop, New
<1>4. ~Leave(e)
  BY <1>1 DEF Leave, New
<1>5. CASE Begin(e)
  BY <1>1, <1>5 DEF Begin, ExecutorState
<1>6. CASE Enter(e)
  BY <1>1, <1>6 DEF Enter, New
<1>7. CASE ChooseBatch(e)
  BY <1>1, <1>2, <1>3, <1>7 DEF ChooseBatch, PauseForBudget, ExecutorState
<1>8. CASE Correct(e)
  BY <1>1, <1>8 DEF Correct, ExecutorState
<1>9. CASE TakeTask(e)
  BY <1>1, <1>9, SMT DEF TakeTask, ExecutorState
<1>10. CASE ClaimTask(e)
  BY <1>1, <1>4, <1>10, SMT DEF ClaimTask, Claimable, Goto, ExecutorState
<1>11. CASE ReserveToolCall(e)
  BY <1>1, <1>11, SMT DEF ReserveToolCall, ExecutorState
<1>12. CASE SearchAgain(e)
  BY <1>1, <1>12, SMT DEF SearchAgain, GoOn, Goto, ExecutorState
<1>13. CASE \/ EnsureActive(e) \/ ReserveIteration(e) \/ FinishBatch(e) \/ Finish(e)
            \/ Crash(e)
  BY <1>2, <1>3, <1>13
  DEF EnsureActive, ReserveIteration, PauseForBudget, FinishBatch, Finish, Crash
<1>14. CASE \/ FailTask(e) \/ DiscardResults(e)
            \/ FinishTask(e, "completed") \/ FinishTask(e, "blocked")
  BY <1>4, <1>14 DEF FailTask, DiscardResults, FinishTask
<1> QED
  BY <1>5, <1>6, <1>7, <1>8, <1>9, <1>10, <1>11, <1>12, <1>13, <1>14
  DEF ExecutorStep

\* What an executor does to the run, the budget and the histories.
LEMMA ExecutorRun ==
  ASSUME TaskTypeOK, NEW e \in Executor, ExecutorStep(e) \/ Crash(e)
  PROVE  /\ run' \in {run, "running", "paused", "ended"}
         /\ UNCHANGED <<limit, cancel, ever>>
         /\ \/ UNCHANGED used
            \/ \E m \in Metric : ~Exceeds(m) /\ Spend(m)
         /\ UNCHANGED late \/ ReserveToolCall(e)
<1>1. run' \in {run, "running", "paused", "ended"}
  BY DEF ExecutorStep, Crash, Begin, Enter, EnsureActive, ChooseBatch,
     PauseForBudget, ReserveIteration, FinishBatch, Correct, Finish, TakeTask,
     ClaimTask, ReserveToolCall, FailTask, DiscardResults, SearchAgain, FinishTask
<1>2. UNCHANGED <<limit, cancel, ever>> /\ (UNCHANGED late \/ ReserveToolCall(e))
  BY DEF ExecutorStep, Crash, Begin, Enter, EnsureActive, ChooseBatch,
     ReserveIteration, FinishBatch, Correct, Finish, TakeTask,
     ClaimTask, ReserveToolCall, FailTask, DiscardResults, SearchAgain, FinishTask
<1>3. UNCHANGED used \/ \E m \in Metric : ~Exceeds(m) /\ Spend(m)
  BY DEF Metric, ExecutorStep, Crash, Begin, Enter, EnsureActive, ChooseBatch,
     ReserveIteration, FinishBatch, Correct, Finish, TakeTask,
     ClaimTask, ReserveToolCall, FailTask, DiscardResults, SearchAgain, FinishTask
<1> QED
  BY <1>1, <1>2, <1>3

\* A reservation is checked against the budget under the lock of the run row.
LEMMA SpendKept ==
  ASSUME TaskTypeOK, BudgetKept, NEW m \in Metric, ~Exceeds(m), Spend(m),
         UNCHANGED limit
  PROVE  used' \in [Metric -> Nat] /\ BudgetKept'
<1>1. used \in [Metric -> Nat] /\ limit \in [Metric -> Nat]
  BY DEF TaskTypeOK
<1>2. \A k \in Metric : used'[k] = used[k] + (IF k = m THEN 1 ELSE 0)
  BY <1>1 DEF Spend
<1>3. used' \in [Metric -> Nat]
  BY <1>1, SMT DEF Spend
<1>4. \A k \in Metric : used[k] + (IF k = m THEN 1 ELSE 0) <= limit[k]
  BY <1>1, SMT DEF Exceeds
<1> QED
  BY <1>2, <1>3, <1>4 DEF BudgetKept

LEMMA BudgetStep ==
  ASSUME TaskInv, [Next]_vars
  PROVE  /\ used' \in [Metric -> Nat] /\ limit' \in [Metric -> Nat]
         /\ BudgetKept'
<1>1. TaskTypeOK /\ BudgetKept
  BY DEF TaskInv
<1>2. used \in [Metric -> Nat] /\ limit \in [Metric -> Nat]
  BY <1>1 DEF TaskTypeOK
<1>3. CASE UNCHANGED <<used, limit>>
  BY <1>1, <1>2, <1>3 DEF BudgetKept
<1>4. CASE Approve
  <2>1. used' = used /\ \A m \in Metric : limit'[m] = limit[m] + 1
    BY <1>4 DEF Approve
  <2>2. limit' \in [Metric -> Nat]
    BY <1>2, <1>4, SMT DEF Approve
  <2> QED
    BY <1>1, <1>2, <2>1, <2>2, SMT DEF BudgetKept
<1>5. ASSUME NEW e \in Executor, ExecutorStep(e) \/ Crash(e)
      PROVE  \/ UNCHANGED <<used, limit>>
             \/ used' \in [Metric -> Nat] /\ limit' = limit /\ BudgetKept'
  BY <1>1, <1>5, ExecutorRun, SpendKept
<1> QED
  BY <1>2, <1>3, <1>4, <1>5 DEF Next, vars, CancelRead, CancelCommit, GrowOld

LEMMA EverKept ==
  ASSUME TaskTypeOK, [Next]_vars, ever
  PROVE  ever'
  BY ExecutorRun DEF Next, vars, CancelRead, CancelCommit, Approve, GrowOld

\* The tasks under work keep their completed dependencies.
LEMMA WorkStep ==
  ASSUME TaskInv, [Next]_vars
  PROVE  WorkersReady'
<1>1. TaskTypeOK /\ Memory /\ DependenciesFirst /\ WorkersReady /\ RowSteps
  BY NextRows DEF TaskInv
<1>2. SUFFICES ASSUME ~ever', NEW f \in Executor,
                      me'[f].pc \in {"working", "searching"},
                      NEW d \in Deps[me'[f].task]
               PROVE  task'[d].status = "completed"
  BY DEF WorkersReady
<1>3. ~ever
  BY <1>1, <1>2, EverKept
<1>4. /\ me'[f].task \in Task
      /\ \A c \in Deps[me'[f].task] : task[c].status = "completed"
  <2>1. CASE me'[f] = me[f]
    BY <1>1, <1>2, <1>3, <2>1 DEF WorkersReady, Memory, AtTask
  <2>2. ASSUME NEW e \in Executor, ExecutorStep(e) \/ Crash(e), f = e
        PROVE  /\ me'[f].task \in Task
               /\ \A c \in Deps[me'[f].task] : task[c].status = "completed"
    <3>1. \/ ClaimTask(e) /\ task[me[e].task].status = "ready" /\ me'[e].task = me[e].task
          \/ ReserveToolCall(e) /\ me'[e].task = me[e].task
          \/ SearchAgain(e) /\ me'[e].task = me[e].task
      BY <1>1, <1>2, <2>2, WorkSteps
    <3>2. me[e].task \in Task /\ me'[e].task = me[e].task
      BY <1>1, <3>1 DEF ClaimTask, ReserveToolCall, SearchAgain, Memory, AtTask
    <3>3. CASE task[me[e].task].status = "ready"
      BY <1>1, <1>3, <2>2, <3>2, <3>3 DEF DependenciesFirst, With
    <3>4. CASE ReserveToolCall(e) \/ SearchAgain(e)
      BY <1>1, <1>3, <2>2, <3>2, <3>4 DEF WorkersReady, ReserveToolCall, SearchAgain
    <3> QED
      BY <2>2, <3>1, <3>2, <3>3, <3>4
  <2> QED
    BY <1>1, <2>1, <2>2, OthersAlone
    DEF Next, vars, CancelRead, CancelCommit, Approve, GrowOld
<1>5. d \in Task
  BY <1>4, TasksAssumption
<1> QED
  BY <1>1, <1>2, <1>4, <1>5 DEF RowSteps, RowStep

LEMMA DependenciesStep ==
  ASSUME TaskInv, [Next]_vars
  PROVE  DependenciesFirst'
<1>1. TaskTypeOK /\ DependenciesFirst /\ RowSteps
  BY NextRows DEF TaskInv
<1>2. SUFFICES ASSUME ~ever', NEW t \in Task, task'[t].status \in Begun,
                      NEW d \in Deps[t]
               PROVE  task'[d].status = "completed"
  BY DEF DependenciesFirst, With, Begun
<1>3. ~ever
  BY <1>1, <1>2, EverKept
<1>4. task[d].status = "completed"
  BY <1>1, <1>2, <1>3 DEF RowSteps, RowStep, DependenciesFirst, With, Begun
<1>5. d \in Task
  BY TasksAssumption
<1> QED
  BY <1>1, <1>2, <1>4, <1>5 DEF RowSteps, RowStep

\* Only the first reservation after a cancellation finds the run cancelled.
LEMMA LateStep ==
  ASSUME TaskInv, [Next]_vars
  PROVE  late' \in [Executor -> Nat] /\ LateSpendBounded' /\ LateSeen'
<1>1. /\ TaskTypeOK /\ LateSpendBounded /\ LateSeen
      /\ late \in [Executor -> Nat] /\ me \in [Executor -> ExecutorState]
  BY DEF TaskInv, TaskTypeOK
<1>2. CASE UNCHANGED vars \/ CancelRead \/ (\E t \in Task : GrowOld(t))
  BY <1>1, <1>2 DEF vars, CancelRead, GrowOld, LateSpendBounded, LateSeen
<1>3. CASE CancelCommit
  BY <1>1, <1>3, SMT DEF CancelCommit, LateSpendBounded, LateSeen
<1>4. CASE Approve
  BY <1>1, <1>4 DEF Approve, LateSpendBounded, LateSeen
<1>5. ASSUME NEW e \in Executor, ExecutorStep(e) \/ Crash(e)
      PROVE  late' \in [Executor -> Nat] /\ LateSpendBounded' /\ LateSeen'
  <2>1. run' = "cancelled" => run = "cancelled"
    BY <1>1, <1>5, ExecutorRun
  <2>2. CASE ReserveToolCall(e)
    <3>1. late' = [late EXCEPT ![e] = IF run = "cancelled" THEN @ + 1 ELSE @]
      BY <2>2 DEF ReserveToolCall
    <3>2. run = "cancelled" => late[e] = 0
      BY <1>1, <2>2, SMT DEF ReserveToolCall, LateSeen
    <3>3. late' \in [Executor -> Nat] /\ LateSpendBounded'
      BY <1>1, <3>1, <3>2, SMT DEF LateSpendBounded
    <3>4. me'[e].pc = "searching" /\ me'[e].saw = run
      <4>1. me'[e].pc = "searching"
        BY <1>1, <2>2, SMT DEF ReserveToolCall, ExecutorState
      <4>2. me'[e].saw = run
        BY <1>1, <2>2, SMT DEF ReserveToolCall, ExecutorState
      <4> QED
        BY <4>1, <4>2
    <3>5. ASSUME NEW f \in Executor, run' = "cancelled", late'[f] # 0
          PROVE  /\ me'[f].pc \notin {"claiming", "working"}
                 /\ me'[f].pc = "searching" => me'[f].saw = "cancelled"
      <4>1. CASE f = e
        BY <2>1, <3>4, <3>5, <4>1
      <4>2. CASE f # e
        BY <1>1, <1>5, <2>1, <3>5, <4>2, OthersAlone DEF LateSeen
      <4> QED
        BY <4>1, <4>2
    <3> QED
      BY <3>3, <3>5 DEF LateSeen
  <2>3. CASE ~ReserveToolCall(e)
    <3>1. late' = late
      BY <1>1, <1>5, <2>3, ExecutorRun
    <3>2. ASSUME NEW f \in Executor, run' = "cancelled", late'[f] # 0
          PROVE  /\ me'[f].pc \notin {"claiming", "working"}
                 /\ me'[f].pc = "searching" => me'[f].saw = "cancelled"
      <4>1. CASE f = e
        <5>1. CASE me'[e].pc \in {"claiming", "working", "searching"}
          <6>1. \/ run # "cancelled"
                \/ ClaimTask(e)
                \/ SearchAgain(e) /\ me[e].saw # "cancelled"
            BY <1>1, <1>5, <2>3, <5>1, WorkSteps
          <6> QED
            BY <1>1, <2>1, <3>1, <3>2, <4>1, <6>1 DEF LateSeen, ClaimTask, SearchAgain
        <5> QED
          BY <4>1, <5>1
      <4>2. CASE f # e
        BY <1>1, <1>5, <2>1, <3>1, <3>2, <4>2, OthersAlone DEF LateSeen
      <4> QED
        BY <4>1, <4>2
    <3> QED
      BY <1>1, <3>1, <3>2 DEF LateSeen, LateSpendBounded
  <2> QED
    BY <2>2, <2>3
<1> QED
  BY <1>2, <1>3, <1>4, <1>5 DEF Next

LEMMA TypeStep ==
  ASSUME TaskInv, [Next]_vars
  PROVE  TaskTypeOK' /\ Memory'
<1>1. TaskTypeOK /\ Memory
  BY DEF TaskInv
<1>2. task' \in [Task -> TaskRow]
  BY NextRows DEF RowSteps, RowStep
<1>3. /\ used' \in [Metric -> Nat] /\ limit' \in [Metric -> Nat]
      /\ late' \in [Executor -> Nat]
  BY BudgetStep, LateStep
<1>4. me' \in [Executor -> ExecutorState] /\ Memory'
  <2>1. CASE UNCHANGED me
    BY <1>1, <2>1 DEF TaskTypeOK, Memory
  <2> QED
    BY <1>1, <2>1, ExecutorMemory
    DEF Next, vars, CancelRead, CancelCommit, Approve, GrowOld
<1>5. /\ run' \in RunStatus /\ ever' \in BOOLEAN
      /\ cancel' \in [reading: BOOLEAN, tasks: SUBSET Task]
  <2>1. /\ run \in RunStatus /\ ever \in BOOLEAN
        /\ cancel \in [reading: BOOLEAN, tasks: SUBSET Task]
    BY <1>1 DEF TaskTypeOK
  <2>2. CASE UNCHANGED vars \/ Approve \/ (\E t \in Task : GrowOld(t))
    BY <2>1, <2>2 DEF vars, Approve, GrowOld, RunStatus
  <2>3. CASE CancelRead
    BY <2>1, <2>3 DEF CancelRead, With
  <2>4. CASE CancelCommit
    BY <2>1, <2>4 DEF CancelCommit, NoCancel, RunStatus
  <2>5. CASE \E e \in Executor : ExecutorStep(e) \/ Crash(e)
    BY <1>1, <2>1, <2>5, ExecutorRun DEF RunStatus
  <2> QED
    BY <2>2, <2>3, <2>4, <2>5 DEF Next
<1> QED
  BY <1>2, <1>3, <1>4, <1>5 DEF TaskTypeOK

-----------------------------------------------------------------------------
(* The theorems.                                                           *)

\* Execution, cancellation, reviews and time keep the invariant: the tables and
\* the memories of all executors agree as TaskInv says.
THEOREM TaskInvariant == Spec => []TaskInv
<1>1. Init => TaskInv
  BY InitInv
<1>2. TaskInv /\ [Next]_vars => TaskInv'
  BY TypeStep, BudgetStep, DependenciesStep, WorkStep, LateStep DEF TaskInv
<1> QED
  BY <1>1, <1>2, PTL DEF Spec

\* Every variable keeps its type: no task gets more search attempts than planned,
\* and no row a status or a worker it cannot have.
THEOREM TaskTypeCorrect == Spec => []TaskTypeOK
<1>1. TaskInv => TaskTypeOK
  BY DEF TaskInv
<1> QED
  BY <1>1, TaskInvariant, PTL

\* However many executors reserve iterations and tool calls, the consumption on the
\* run row never exceeds the budget (record_budget_usage).
THEOREM BudgetNeverOverrun == Spec => []BudgetKept
<1>1. TaskInv => BudgetKept
  BY DEF TaskInv
<1> QED
  BY <1>1, TaskInvariant, PTL

\* Until a run is cancelled no task is made ready, worked on or completed before
\* all it depends on is completed (ready_tasks and the claim).
THEOREM DependenciesAlwaysFirst == Spec => []DependenciesFirst
<1>1. TaskInv => DependenciesFirst
  BY DEF TaskInv
<1> QED
  BY <1>1, TaskInvariant, PTL

\* An executor that missed the cancellation reserves one tool call, which shows it
\* the cancelled run, and no second one (the loop of _execute_one).
THEOREM LateSpendAtMostOne == Spec => []LateSpendBounded
<1>1. TaskInv => LateSpendBounded
  BY DEF TaskInv
<1> QED
  BY <1>1, TaskInvariant, PTL

\* A settled task is never open or running again, whichever executor takes it from
\* a batch, takes back what was left behind or starts over (claim_ready_task,
\* reclaim_stale_running_tasks and update_task_status).
THEOREM SettledStaysSettled == Spec => SettledNotRerun
<1>1. TaskInv /\ [Next]_vars =>
        [\A t \in Task : task[t].status \in Settled => task'[t].status \in Settled]_vars
  BY NextRows DEF RowSteps, RowStep
<1> QED
  BY <1>1, TaskInvariant, PTL DEF Spec, SettledNotRerun

\* A worker that ends the search of a task which meanwhile belongs to another
\* worker does not complete it (update_task_status).
THEOREM StaleCannotComplete == Spec => StaleWorkerCannotComplete
<1> DEFINE Fenced == \A e \in Executor : \A t \in Task :
      me[e].pc = "searching" /\ me'[e].pc = "pool" /\ me[e].task = t
        /\ task[t].worker \notin {None, e} /\ task[t].status # "completed"
      => task'[t].status # "completed"
<1>1. ASSUME TaskInv, Next PROVE Fenced
  <2>1. SUFFICES ASSUME NEW e \in Executor, NEW t \in Task,
                        me[e].pc = "searching", me'[e].pc = "pool", me[e].task = t,
                        task[t].worker \notin {None, e}, task[t].status # "completed"
                 PROVE  task'[t].status # "completed"
    OBVIOUS
  <2>2. TaskTypeOK /\ task \in [Task -> TaskRow] /\ task[t] \in TaskRow
    BY <1>1 DEF TaskInv, TaskTypeOK
  <2>3. \A s : Recorded(t, e, s) = task
    BY <2>1 DEF Recorded, MayRecord
  <2>4. ExecutorStep(e) \/ Crash(e)
    BY <1>1, <2>1, <2>2, OthersAlone
    DEF Next, CancelRead, CancelCommit, Approve, GrowOld
  <2>5. CASE FailTask(e) \/ DiscardResults(e)
    BY <2>1, <2>3, <2>5 DEF FailTask, DiscardResults
  <2>6. ASSUME NEW s \in {"completed", "blocked"}, FinishTask(e, s)
        PROVE  task'[t].status # "completed"
    <3>1. task' = [task EXCEPT ![t].ckpt = s]
      BY <2>1, <2>3, <2>6 DEF FinishTask
    <3>2. task'[t] = [task[t] EXCEPT !.ckpt = s]
      BY <2>2, <3>1
    <3> QED
      BY <2>1, <2>2, <3>2, SMT DEF TaskRow
  <2>7. CASE SearchAgain(e) \/ Crash(e)
    BY <2>1, <2>7 DEF SearchAgain, Crash
  <2> QED
    BY <2>1, <2>4, <2>5, <2>6, <2>7
    DEF ExecutorStep, Begin, Enter, EnsureActive, ChooseBatch, ReserveIteration,
        FinishBatch, Correct, Finish, TakeTask, ClaimTask, ReserveToolCall
<1>2. TaskInv /\ [Next]_vars => [Fenced]_vars
  BY <1>1
<1> QED
  BY <1>2, TaskInvariant, PTL DEF Spec, StaleWorkerCannotComplete

-----------------------------------------------------------------------------
(* What an executor has left to do.                                        *)

\* Approvals raise the budget up to a bound, the claimed task stays in the batch
\* until it is left.
Capped == \A m \in Metric : limit[m] <= Limit[m] + Extensions
Holding == \A e \in Executor : me[e].pc \in AtTask => me[e].task \in me[e].batch

\* What an own step does to the memory of an executor at its task.
LEMMA AtTaskStep ==
  ASSUME TaskTypeOK, NEW e \in Executor, ExecutorStep(e) \/ Crash(e), me'[e].pc \in AtTask
  PROVE  /\ me'[e].batch = me[e].batch
         /\ \/ me'[e].task \in me[e].batch
            \/ me[e].pc \in AtTask /\ me'[e].task = me[e].task
<1>1. me \in [Executor -> ExecutorState] /\ me[e] \in ExecutorState
  BY DEF TaskTypeOK
<1>2. CASE me'[e].pc = "claiming" /\ TakeTask(e)
  <2>1. PICK t \in Task :
          /\ IsNext(e, t)
          /\ \/ me' = [me EXCEPT ![e].batch = @ \ {t}]
             \/ me' = [me EXCEPT ![e].pc = "claiming", ![e].task = t]
    BY <1>2 DEF TakeTask
  <2>2. me' # [me EXCEPT ![e].batch = @ \ {t}]
    BY <1>1, <1>2, SMT DEF TakeTask, ExecutorState
  <2> DEFINE n == [me[e] EXCEPT !.pc = "claiming"]
  <2>3. me'[e] = [n EXCEPT !.task = t]
    BY <1>1, <2>1, <2>2
  <2>4. n \in ExecutorState /\ n.batch = me[e].batch
    BY <1>1, SMT DEF ExecutorState, Live, AtTask
  <2> HIDE DEF n
  <2>5. me'[e].batch = n.batch /\ me'[e].task = t
    BY <2>3, <2>4, SMT DEF ExecutorState
  <2> QED BY <2>1, <2>4, <2>5 DEF IsNext
<1>3. CASE ClaimTask(e) \/ SearchAgain(e)
  <2>1. ~Leave(e)
    BY <1>1 DEF Leave, New, AtTask
  <2>2. Goto(e, "working") /\ me[e].pc \in AtTask
    BY <1>3, <2>1 DEF ClaimTask, SearchAgain, AtTask
  <2>3. me'[e] = [me[e] EXCEPT !.pc = "working"]
    BY <1>1, <2>2 DEF Goto
  <2>4. me'[e].batch = me[e].batch /\ me'[e].task = me[e].task
    BY <1>1, <2>3, SMT DEF ExecutorState
  <2> QED BY <2>2, <2>4
<1>4. CASE ReserveToolCall(e)
  <2> DEFINE n1 == [me[e] EXCEPT !.pc = "searching"]
             n2 == [n1 EXCEPT !.saw = run]
  <2>1. me'[e] = [n2 EXCEPT !.tries = me[e].tries + 1] /\ me[e].pc \in AtTask
    BY <1>1, <1>4 DEF ReserveToolCall, AtTask
  <2>2. n1 \in ExecutorState /\ n1.batch = me[e].batch /\ n1.task = me[e].task
    BY <1>1, SMT DEF ExecutorState, Live, AtTask
  <2> HIDE DEF n1
  <2>3. run \in RunStatus
    BY DEF TaskTypeOK
  <2>4. n2 \in ExecutorState /\ n2.batch = me[e].batch /\ n2.task = me[e].task
    BY <2>2, <2>3, SMT DEF ExecutorState
  <2> HIDE DEF n2
  <2>5. me'[e].batch = me[e].batch /\ me'[e].task = me[e].task
    BY <2>1, <2>4, SMT DEF ExecutorState
  <2> QED BY <2>1, <2>5
<1>5. me'[e].pc = "claiming" => TakeTask(e)
  <2>1. \A p \in {"loop", "checked", "gap", "pool", "evidence", "working"} :
          Goto(e, p) => me'[e].pc = p
    BY <1>1, SMT DEF Goto, ExecutorState
  <2>2. Stop(e) => me'[e].pc = "done"
    BY <1>1 DEF Stop, New
  <2>3. Leave(e) => me'[e].pc = "pool"
    BY <1>1 DEF Leave, New
  <2> SUFFICES ASSUME me'[e].pc = "claiming", ~TakeTask(e) PROVE FALSE
    OBVIOUS
  <2>4. CASE Begin(e)
    BY <1>1, <2>4 DEF Begin, ExecutorState
  <2>5. CASE Enter(e)
    BY <1>1, <2>5 DEF Enter, New
  <2>6. CASE ChooseBatch(e)
    BY <1>1, <2>1, <2>2, <2>6 DEF ChooseBatch, PauseForBudget, ExecutorState
  <2>7. CASE Correct(e)
    BY <1>1, <2>7 DEF Correct, ExecutorState
  <2>8. CASE ReserveToolCall(e)
    BY <1>1, <2>8, SMT DEF ReserveToolCall, ExecutorState
  <2>9. CASE \/ EnsureActive(e) \/ ReserveIteration(e) \/ FinishBatch(e) \/ Finish(e)
             \/ Crash(e) \/ ClaimTask(e) \/ SearchAgain(e)
    BY <2>1, <2>2, <2>3, <2>9
    DEF EnsureActive, ReserveIteration, PauseForBudget, FinishBatch, Finish, Crash, ClaimTask,
        SearchAgain
  <2>10. CASE \/ FailTask(e) \/ DiscardResults(e)
              \/ FinishTask(e, "completed") \/ FinishTask(e, "blocked")
    BY <2>3, <2>10 DEF FailTask, DiscardResults, FinishTask
  <2> QED
    BY <2>4, <2>5, <2>6, <2>7, <2>8, <2>9, <2>10 DEF ExecutorStep
<1> QED
  BY <1>2, <1>3, <1>4, <1>5, WorkSteps DEF AtTask

LEMMA BoundsStep ==
  ASSUME TaskInv, Capped, Holding, [Next]_vars
  PROVE  Capped' /\ Holding'
<1>1. TaskTypeOK
  BY DEF TaskInv
<1>2. Capped'
  <2>1. CASE UNCHANGED limit
    BY <2>1 DEF Capped
  <2>2. CASE Approve
    <3>1. \A m \in Metric : limit[m] < Limit[m] + Extensions /\ limit'[m] = limit[m] + 1
      BY <2>2 DEF Approve
    <3>2. \A m \in Metric : limit[m] \in Nat /\ Limit[m] \in Nat
      BY <1>1, BudgetAssumption DEF TaskTypeOK
    <3> QED BY <3>1, <3>2, BudgetAssumption DEF Capped
  <2> QED
    BY <1>1, <2>1, <2>2, ExecutorRun DEF Next, vars, CancelRead, CancelCommit, GrowOld
<1>3. Holding'
  <2>1. SUFFICES ASSUME NEW f \in Executor, me'[f].pc \in AtTask
                 PROVE  me'[f].task \in me'[f].batch
    BY DEF Holding
  <2>2. CASE me'[f] = me[f]
    BY <2>1, <2>2 DEF Holding
  <2>3. CASE ExecutorStep(f) \/ Crash(f)
    BY <1>1, <2>1, <2>3, AtTaskStep DEF Holding
  <2> QED
    BY <1>1, <2>2, <2>3, OthersAlone DEF Next, vars, CancelRead, CancelCommit, Approve, GrowOld
<1> QED
  BY <1>2, <1>3

\* The steps of an execution in the order in which they come, if none is repeated.
Ahead(place) ==
  CASE place = "new" -> 9
    [] place = "entering" -> 8
    [] place \in {"pool"} \cup AtTask -> 7
    [] place = "loop" -> 6
    [] place = "checked" -> 5
    [] place = "reserving" -> 4
    [] place = "evidence" -> 3
    [] place = "gap" -> 2
    [] OTHER -> 0

\* The same within one attempt at a task.
WithinTask(place) ==
  CASE place = "pool" -> 4
    [] place = "claiming" -> 3
    [] place = "searching" -> 2
    [] place = "working" -> 1
    [] OTHER -> 0

\* From memory x to memory y an executor has come further with its batch.
Further(x, y) ==
  \/ Ahead(y.pc) < Ahead(x.pc)
  \/ /\ Ahead(y.pc) = Ahead(x.pc)
     /\ \/ \E t \in x.batch : y.batch = x.batch \ {t}
        \/ /\ y.batch = x.batch
           /\ \/ y.tries > x.tries
              \/ y.tries = x.tries /\ WithinTask(y.pc) < WithinTask(x.pc)

LEMMA OwnStep ==
  ASSUME TaskTypeOK, Holding, NEW e \in Executor, ExecutorStep(e) \/ Crash(e)
  PROVE  \/ Spend("iterations")
         \/ \E A \in (SUBSET With({"absent"})) \ {{}} : task' = Scheduled({}, {}, A)
         \/ Further(me[e], me'[e])
<1>1. me \in [Executor -> ExecutorState] /\ me[e] \in ExecutorState
  BY DEF TaskTypeOK
<1>2. \A p \in Live : Goto(e, p) => me'[e] = [me[e] EXCEPT !.pc = p]
  BY <1>1 DEF Goto
<1>3. \A p \in Live : /\ [me[e] EXCEPT !.pc = p].pc = p
                      /\ [me[e] EXCEPT !.pc = p].batch = me[e].batch
                      /\ [me[e] EXCEPT !.pc = p].tries = me[e].tries
  BY <1>1, SMT DEF ExecutorState
<1>4. \A p \in Live : Goto(e, p) => /\ me'[e].pc = p
                                    /\ me'[e].batch = me[e].batch
                                    /\ me'[e].tries = me[e].tries
  BY <1>2, <1>3
<1>5. Stop(e) => me'[e].pc = "done"
  BY <1>1 DEF Stop, New
<1>6. Leave(e) => me'[e].pc = "pool" /\ me'[e].batch = me[e].batch \ {me[e].task}
  BY <1>1 DEF Leave, New
<1>7. CASE Stop(e) /\ me[e].pc \in Live
  BY <1>5, <1>7 DEF Further, Ahead, Live, AtTask
<1>8. CASE Leave(e) /\ me[e].pc \in AtTask
  BY <1>6, <1>8 DEF Holding, Further, Ahead, AtTask
<1>9. CASE Begin(e)
  <2>1. me[e].pc = "new" /\ me'[e].pc = "entering"
    BY <1>1, <1>9, SMT DEF Begin, ExecutorState
  <2> QED BY <2>1 DEF Further, Ahead, AtTask
<1>10. CASE Enter(e)
  <2>1. me[e].pc = "entering" /\ me'[e].pc = "loop"
    BY <1>1, <1>10 DEF Enter, New
  <2> QED BY <2>1 DEF Further, Ahead, AtTask
<1>11. CASE EnsureActive(e)
  BY <1>4, <1>7, <1>11 DEF EnsureActive, Further, Ahead, Live, AtTask
<1>12. CASE ChooseBatch(e)
  <2>1. me[e].pc = "checked"
    BY <1>12 DEF ChooseBatch
  <2>2. Stop(e) \/ me'[e].pc \in {"reserving", "evidence"}
    BY <1>1, <1>4, <1>12 DEF ChooseBatch, PauseForBudget, Live, ExecutorState
  <2> QED BY <1>7, <2>1, <2>2 DEF Further, Ahead, Live, AtTask
<1>13. CASE ReserveIteration(e)
  BY <1>7, <1>13 DEF ReserveIteration, PauseForBudget, Live
<1>14. CASE FinishBatch(e)
  <2>1. me[e].pc = "pool" /\ (Stop(e) \/ me'[e].pc \in {"loop", "checked", "evidence"})
    BY <1>4, <1>14 DEF FinishBatch, Live
  <2> QED BY <1>7, <2>1 DEF Further, Ahead, Live, AtTask
<1>15. CASE Correct(e)
  BY <1>15 DEF Correct
<1>16. CASE Finish(e) \/ Crash(e)
  BY <1>7, <1>16 DEF Finish, Crash, Live
<1>17. CASE TakeTask(e)
  <2>1. PICK t \in Task :
          /\ me[e].pc = "pool" /\ t \in me[e].batch
          /\ \/ me' = [me EXCEPT ![e].batch = @ \ {t}]
             \/ me' = [me EXCEPT ![e].pc = "claiming", ![e].task = t]
    BY <1>17 DEF TakeTask, IsNext
  <2>2. CASE me' = [me EXCEPT ![e].batch = @ \ {t}]
    <3>1. me'[e] = [me[e] EXCEPT !.batch = me[e].batch \ {t}]
      BY <1>1, <2>2
    <3>2. me'[e].batch = me[e].batch \ {t} /\ me'[e].pc = me[e].pc
      BY <1>1, <3>1, SMT DEF ExecutorState
    <3> QED BY <2>1, <3>2 DEF Further
  <2>3. CASE me' = [me EXCEPT ![e].pc = "claiming", ![e].task = t]
    <3> DEFINE n == [me[e] EXCEPT !.pc = "claiming"]
    <3>1. me'[e] = [n EXCEPT !.task = t]
      BY <1>1, <2>3
    <3>2. /\ n \in ExecutorState /\ n.pc = "claiming"
          /\ n.batch = me[e].batch /\ n.tries = me[e].tries
      BY <1>1, SMT DEF ExecutorState, Live, AtTask
    <3> HIDE DEF n
    <3>3. me'[e].pc = n.pc /\ me'[e].batch = n.batch /\ me'[e].tries = n.tries
      BY <3>1, <3>2, SMT DEF ExecutorState
    <3> QED BY <2>1, <3>2, <3>3 DEF Further, Ahead, WithinTask, AtTask
  <2> QED BY <2>1, <2>2, <2>3
<1>18. CASE ClaimTask(e)
  <2>1. me[e].pc = "claiming" /\ (Leave(e) \/ Goto(e, "working"))
    BY <1>18 DEF ClaimTask
  <2>2. CASE Goto(e, "working")
    BY <1>4, <2>1, <2>2 DEF Further, Ahead, WithinTask, Live, AtTask
  <2> QED BY <1>8, <2>1, <2>2 DEF AtTask
<1>19. CASE ReserveToolCall(e)
  <2> DEFINE n1 == [me[e] EXCEPT !.pc = "searching"]
             n2 == [n1 EXCEPT !.saw = run]
  <2>1. me[e].pc = "working" /\ me'[e] = [n2 EXCEPT !.tries = me[e].tries + 1]
    BY <1>1, <1>19 DEF ReserveToolCall
  <2>2. run \in RunStatus
    BY DEF TaskTypeOK
  <2>3. n1 \in ExecutorState /\ n1.pc = "searching" /\ n1.batch = me[e].batch
    BY <1>1, SMT DEF ExecutorState, Live, AtTask
  <2> HIDE DEF n1
  <2>4. n2 \in ExecutorState /\ n2.pc = "searching" /\ n2.batch = me[e].batch
    BY <2>2, <2>3, SMT DEF ExecutorState
  <2> HIDE DEF n2
  <2>5. /\ me'[e].pc = "searching" /\ me'[e].batch = me[e].batch
        /\ me'[e].tries = me[e].tries + 1
    BY <2>1, <2>4, SMT DEF ExecutorState
  <2>6. me'[e].tries > me[e].tries
    BY <1>1, <2>5, BudgetAssumption DEF ExecutorState
  <2> QED BY <2>1, <2>5, <2>6 DEF Further, Ahead, AtTask
<1>20. CASE SearchAgain(e)
  <2>1. me[e].pc = "searching" /\ Goto(e, "working")
    BY <1>20 DEF SearchAgain
  <2> QED BY <1>4, <2>1 DEF Further, Ahead, WithinTask, Live, AtTask
<1>21. CASE \/ FailTask(e) \/ DiscardResults(e)
            \/ FinishTask(e, "completed") \/ FinishTask(e, "blocked")
  <2>1. Leave(e) /\ me[e].pc \in AtTask
    BY <1>21 DEF FailTask, DiscardResults, FinishTask, AtTask
  <2> QED BY <1>8, <2>1
<1> QED
  BY <1>9, <1>10, <1>11, <1>12, <1>13, <1>14, <1>15, <1>16, <1>17, <1>18, <1>19, <1>20,
     <1>21 DEF ExecutorStep

\* What is left: iterations, tasks that may still be added, the way to the end of
\* the rounds, the batch, the attempts at a task and the way to the end of one.
LeftOf(spent, absent, x) ==
  <<Limit["iterations"] + Extensions - spent, Cardinality(absent), Ahead(x.pc),
    Cardinality(x.batch), MaxTries - x.tries, WithinTask(x.pc)>>

Left(e) == LeftOf(used["iterations"], With({"absent"}), me[e])

Below == {pair \in Nat \X Nat : pair[1] < pair[2]}

\* The first number that differs is smaller.
Fewer == LexProductOrdering(Below, Nat, 6)

\* No sequence of such vectors gets smaller for ever.
LEMMA NoEndlessDescent == IsWellFoundedOn(Fewer, [1..6 -> Nat])
<1>1. Below = OpToRel(<, Nat)
  BY DEF Below, OpToRel
<1>2. IsWellFoundedOn(Below, Nat)
  BY <1>1, NatLessThanWellFounded
<1> QED
  BY <1>2, WFLexProductOrdering DEF Fewer

LEMMA SixNumbers ==
  ASSUME NEW n1 \in Nat, NEW n2 \in Nat, NEW n3 \in Nat, NEW n4 \in Nat, NEW n5 \in Nat,
         NEW n6 \in Nat
  PROVE  <<n1, n2, n3, n4, n5, n6>> \in [1..6 -> Nat]
<1> DEFINE s == <<n1, n2, n3, n4, n5, n6>>
<1>1. s \in Seq(Nat) /\ Len(s) = 6
  OBVIOUS
<1> HIDE DEF s
<1>2. s \in [1..6 -> Nat]
  BY <1>1, LenProperties
<1> QED
  BY <1>2 DEF s

\* A way to see that one of two vectors is below the other.
LEMMA FewerIs ==
  ASSUME NEW a \in [1..6 -> Nat], NEW b \in [1..6 -> Nat], NEW j \in 1..6,
         \A i \in 1..(j - 1) : a[i] = b[i], a[j] < b[j]
  PROVE  <<a, b>> \in Fewer
BY DEF Fewer, LexProductOrdering, Below

\* A part of a finite set has fewer elements.
LEMMA PartIsFewer ==
  ASSUME NEW S, IsFiniteSet(S), NEW T \in SUBSET S
  PROVE  /\ Cardinality(T) \in Nat /\ Cardinality(S) \in Nat
         /\ Cardinality(T) <= Cardinality(S)
         /\ T # S => Cardinality(T) < Cardinality(S)
<1>1. /\ IsFiniteSet(T) /\ Cardinality(T) <= Cardinality(S)
      /\ Cardinality(T) = Cardinality(S) => T = S
  BY FS_Subset
<1>2. Cardinality(T) \in Nat /\ Cardinality(S) \in Nat
  BY <1>1, FS_CardinalityType
<1> QED
  BY <1>1, <1>2

\* Who counts more has less left.
LEMMA MoreTaken ==
  \A n \in Nat : \A x, y \in 0..n : n - x \in Nat /\ n - y \in Nat /\ (y > x => n - y < n - x)
OBVIOUS

LEMMA LeftOfIs ==
  ASSUME IsFiniteSet(Task), NEW u \in 0..(Limit["iterations"] + Extensions),
         NEW S \in SUBSET Task, NEW x \in ExecutorState
  PROVE  LeftOf(u, S, x) \in [1..6 -> Nat]
<1>1. Limit["iterations"] + Extensions - u \in Nat
  BY BudgetAssumption DEF Metric
<1>2. MaxTries - x.tries \in Nat
  BY BudgetAssumption DEF ExecutorState
<1>3. Cardinality(S) \in Nat /\ Cardinality(x.batch) \in Nat
  BY PartIsFewer DEF ExecutorState
<1>4. Ahead(x.pc) \in Nat /\ WithinTask(x.pc) \in Nat
  BY DEF Ahead, WithinTask
<1> QED
  BY <1>1, <1>2, <1>3, <1>4, SixNumbers, Zenon DEF LeftOf

LEMMA LeftOfLess ==
  ASSUME IsFiniteSet(Task),
         NEW u \in 0..(Limit["iterations"] + Extensions),
         NEW v \in 0..(Limit["iterations"] + Extensions), v >= u,
         NEW S \in SUBSET Task, NEW T \in SUBSET S,
         NEW x \in ExecutorState, NEW y \in ExecutorState,
         v > u \/ T # S \/ Further(x, y)
  PROVE  <<LeftOf(v, T, y), LeftOf(u, S, x)>> \in Fewer
<1> DEFINE a == LeftOf(v, T, y)
           b == LeftOf(u, S, x)
           all == Limit["iterations"] + Extensions
<1>1. a \in [1..6 -> Nat] /\ b \in [1..6 -> Nat]
  BY LeftOfIs
<1>2. Limit["iterations"] \in Nat /\ Extensions \in Nat
  BY BudgetAssumption DEF Metric
<1>3. /\ a[1] = all - v /\ b[1] = all - u
      /\ all \in Nat /\ u \in 0..all /\ v \in 0..all
  BY <1>2 DEF LeftOf
<1>4. /\ a[2] = Cardinality(T) /\ b[2] = Cardinality(S)
      /\ a[4] = Cardinality(y.batch) /\ b[4] = Cardinality(x.batch)
  BY DEF LeftOf
<1>5. a[5] = MaxTries - y.tries /\ b[5] = MaxTries - x.tries
  BY DEF LeftOf
<1>6. /\ a[3] = Ahead(y.pc) /\ b[3] = Ahead(x.pc)
      /\ a[6] = WithinTask(y.pc) /\ b[6] = WithinTask(x.pc)
  BY DEF LeftOf
<1> SUFFICES <<a, b>> \in Fewer
  OBVIOUS
<1>7. MaxTries \in Nat /\ x.tries \in 0..MaxTries /\ y.tries \in 0..MaxTries
  BY BudgetAssumption DEF ExecutorState
<1>8. IsFiniteSet(S) /\ IsFiniteSet(x.batch)
  BY FS_Subset DEF ExecutorState
<1> HIDE DEF a, b, all
<1>9. CASE v > u
  <2>1. a[1] < b[1]
    BY <1>3, <1>9, MoreTaken, Zenon
  <2> QED BY <1>1, <2>1, FewerIs
<1>10. CASE v = u /\ T # S
  <2>1. Cardinality(T) < Cardinality(S)
    BY <1>8, <1>10, PartIsFewer
  <2>2. a[1] = b[1] /\ a[2] < b[2]
    BY <1>3, <1>4, <1>10, <2>1
  <2> QED BY <1>1, <2>2, FewerIs
<1>11. CASE v = u /\ T = S /\ Ahead(y.pc) < Ahead(x.pc)
  <2>1. a[1] = b[1] /\ a[2] = b[2] /\ a[3] < b[3]
    BY <1>3, <1>4, <1>6, <1>11
  <2> QED BY <1>1, <2>1, FewerIs
<1>12. CASE /\ v = u /\ T = S /\ Ahead(y.pc) = Ahead(x.pc)
            /\ \E t \in x.batch : y.batch = x.batch \ {t}
  <2>1. y.batch \in SUBSET x.batch /\ y.batch # x.batch
    BY <1>12
  <2>2. Cardinality(y.batch) < Cardinality(x.batch)
    BY <1>8, <2>1, PartIsFewer
  <2>3. a[1] = b[1] /\ a[2] = b[2] /\ a[3] = b[3] /\ a[4] < b[4]
    BY <1>3, <1>4, <1>6, <1>12, <2>2
  <2> QED BY <1>1, <2>3, FewerIs
<1>13. CASE /\ v = u /\ T = S /\ Ahead(y.pc) = Ahead(x.pc)
            /\ y.batch = x.batch /\ y.tries > x.tries
  <2>1. MaxTries - y.tries < MaxTries - x.tries
    BY <1>7, <1>13, MoreTaken, Zenon
  <2>2. a[1] = b[1] /\ a[2] = b[2] /\ a[3] = b[3] /\ a[4] = b[4] /\ a[5] < b[5]
    BY <1>3, <1>4, <1>5, <1>6, <1>13, <2>1
  <2> QED BY <1>1, <2>2, FewerIs
<1>14. CASE /\ v = u /\ T = S /\ Ahead(y.pc) = Ahead(x.pc) /\ y.batch = x.batch
            /\ y.tries = x.tries /\ WithinTask(y.pc) < WithinTask(x.pc)
  <2>1. /\ a[1] = b[1] /\ a[2] = b[2] /\ a[3] = b[3] /\ a[4] = b[4] /\ a[5] = b[5]
        /\ a[6] < b[6]
    BY <1>3, <1>4, <1>5, <1>6, <1>14
  <2> QED BY <1>1, <2>1, FewerIs
<1>15. v > u \/ v = u
  BY <1>3
<1> QED
  BY <1>9, <1>10, <1>11, <1>12, <1>13, <1>14, <1>15 DEF Further

\* The numbers LeftOf counts, and what a step does to them.
LEMMA Counted ==
  ASSUME TaskInv, Capped
  PROVE  used["iterations"] \in 0..(Limit["iterations"] + Extensions)
<1>1. "iterations" \in Metric
  BY DEF Metric
<1>2. /\ used["iterations"] \in Nat /\ limit["iterations"] \in Nat
      /\ Limit["iterations"] \in Nat /\ Extensions \in Nat
      /\ used["iterations"] <= limit["iterations"]
      /\ limit["iterations"] <= Limit["iterations"] + Extensions
  BY <1>1, BudgetAssumption DEF TaskInv, TaskTypeOK, BudgetKept, Capped
<1> QED
  BY <1>2

LEMMA NeverMore ==
  ASSUME TaskInv, [Next]_vars
  PROVE  used'["iterations"] >= used["iterations"] /\ With({"absent"})' \subseteq With({"absent"})
<1>1. used \in [Metric -> Nat] /\ "iterations" \in Metric /\ TaskTypeOK
  BY DEF TaskInv, TaskTypeOK, Metric
<1>2. ASSUME NEW m \in Metric, Spend(m) PROVE used'["iterations"] >= used["iterations"]
  BY <1>1, <1>2 DEF Spend, Metric
<1>3. used'["iterations"] >= used["iterations"]
  BY <1>1, <1>2, ExecutorRun
  DEF Next, vars, CancelRead, CancelCommit, Approve, GrowOld
<1>4. \A t \in Task : task'[t].status = "absent" => task[t].status = "absent"
  BY NextRows DEF RowSteps, RowStep
<1> QED
  BY <1>3, <1>4 DEF With

\* An executor may be slowed down but not kept busy: every step of its own takes
\* from what it has left (the batches, rounds, corrections and attempts of
\* orchestrator and worker pool), and no step of another executor, of the API or of
\* time adds to it.  Tasks are finite because replans and corrections are bounded.
THEOREM ExecutorsRunDown ==
  IsFiniteSet(Task) =>
    (Spec => [][\A e \in Executor :
                  \/ <<Left(e)', Left(e)>> \in Fewer
                  \/ Left(e)' = Left(e) /\ ~ExecutorStep(e) /\ ~Crash(e)]_vars)
<1> SUFFICES ASSUME IsFiniteSet(Task)
             PROVE  Spec => [][\A e \in Executor :
                                 \/ <<Left(e)', Left(e)>> \in Fewer
                                 \/ Left(e)' = Left(e) /\ ~ExecutorStep(e) /\ ~Crash(e)]_vars
  OBVIOUS
<1> DEFINE Inv == TaskInv /\ Capped /\ Holding
<1>1. Spec => []Inv
  <2>1. Init => Inv
    <3>1. Init => Capped /\ Holding
      BY BudgetAssumption DEF Init, Capped, Holding, New, AtTask, Metric
    <3> QED BY <3>1, InitInv
  <2>2. Inv /\ [Next]_vars => Inv'
    BY BoundsStep, TypeStep, BudgetStep, DependenciesStep, WorkStep, LateStep DEF TaskInv
  <2> QED BY <2>1, <2>2, PTL DEF Spec
<1>2. ASSUME Inv, Inv', Next, NEW e \in Executor
      PROVE  \/ <<Left(e)', Left(e)>> \in Fewer
             \/ Left(e)' = Left(e) /\ ~ExecutorStep(e) /\ ~Crash(e)
  <2> DEFINE u == used["iterations"]
             v == used'["iterations"]
             S == With({"absent"})
             T == With({"absent"})'
             x == me[e]
             y == me'[e]
  <2>1. /\ u \in 0..(Limit["iterations"] + Extensions) /\ x \in ExecutorState
        /\ S \in SUBSET Task
    BY <1>2, Counted DEF TaskInv, TaskTypeOK, With
  <2>2. v \in 0..(Limit["iterations"] + Extensions) /\ y \in ExecutorState
    <3>1. /\ used'["iterations"] \in Nat /\ limit'["iterations"] \in Nat
          /\ used'["iterations"] <= limit'["iterations"]
          /\ limit'["iterations"] <= Limit["iterations"] + Extensions
          /\ Limit["iterations"] \in Nat /\ Extensions \in Nat
      BY <1>2, BudgetAssumption DEF TaskInv, TaskTypeOK, BudgetKept, Capped, Metric
    <3> QED BY <1>2, <3>1 DEF TaskInv, TaskTypeOK
  <2>3. v >= u /\ T \in SUBSET S
    BY <1>2, NeverMore
  <2>4. Left(e)' = LeftOf(v, T, y) /\ Left(e) = LeftOf(u, S, x)
    BY DEF Left
  <2>5. v > u \/ T # S \/ Further(x, y) => <<Left(e)', Left(e)>> \in Fewer
    <3> HIDE DEF u, v, S, T, x, y
    <3> QED BY <2>1, <2>2, <2>3, <2>4, LeftOfLess
  <2>6. CASE ExecutorStep(e) \/ Crash(e)
    <3>1. CASE Spend("iterations")
      <4>1. used \in [Metric -> Nat]
        BY <1>2 DEF TaskInv, TaskTypeOK
      <4>2. v = u + 1 /\ u \in Nat
        BY <3>1, <4>1 DEF Spend, Metric
      <4>3. v > u
        BY <4>2
      <4> QED BY <2>5, <4>3
    <3>2. CASE \E A \in (SUBSET With({"absent"})) \ {{}} : task' = Scheduled({}, {}, A)
      <4>1. PICK A \in (SUBSET With({"absent"})) \ {{}} : task' = Scheduled({}, {}, A)
        BY <3>2
      <4>2. PICK t : t \in A
        BY <4>1
      <4>3. t \in S /\ t \in Task
        BY <4>1, <4>2 DEF With
      <4>4. task'[t].status = "pending"
        BY <4>1, <4>2, <4>3 DEF Scheduled, NoTask
      <4>5. t \notin T
        BY <4>4 DEF With
      <4> QED BY <2>5, <4>3, <4>5
    <3>3. CASE Further(x, y)
      BY <2>5, <3>3
    <3> QED BY <1>2, <2>6, <3>1, <3>2, <3>3, OwnStep DEF TaskInv
  <2>7. CASE ~ExecutorStep(e) /\ ~Crash(e)
    <3>1. y = x
      BY <1>2, <2>7, OthersAlone
      DEF TaskInv, Next, CancelRead, CancelCommit, Approve, GrowOld
    <3>2. v = u /\ T = S => Left(e)' = Left(e)
      BY <2>4, <3>1
    <3>3. v > u \/ v = u
      BY <2>1, <2>2, <2>3, BudgetAssumption DEF Metric
    <3> QED BY <2>5, <2>7, <3>2, <3>3
  <2> QED BY <2>6, <2>7
<1>3. Inv /\ Inv' /\ [Next]_vars =>
        [\A e \in Executor : \/ <<Left(e)', Left(e)>> \in Fewer
                             \/ Left(e)' = Left(e) /\ ~ExecutorStep(e) /\ ~Crash(e)]_vars
  BY <1>2
<1> QED
  BY <1>1, <1>3, PTL DEF Spec
=============================================================================
