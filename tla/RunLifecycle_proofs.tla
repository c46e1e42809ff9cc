------------------------- MODULE RunLifecycle_proofs -------------------------
(***************************************************************************)
(* Proofs about the run lifecycle, for any number of runs, workers, API    *)
(* requests, jobs and reviews.                                             *)
(***************************************************************************)
EXTENDS RunLifecycle, JobQueue_proofs

-----------------------------------------------------------------------------
(* The inductive invariant.  The three safety properties are inductive once *)
(* it is known whose reviews a cancellation in progress is about to write.  *)

\* An orchestrator runs, or has just returned, inside a worker that has a job.
OrchExecutes ==
  \A w \in Worker : orch[w] # "none" => exec[w].pc \in {"executing", "completing"}

ReviewsExist ==
  \A v \in Review :
    IF review[v].status = "absent" THEN review[v] = NoReview
    ELSE review[v].run \in Run /\ review[v].reason \in Reason

\* A cancellation in progress knows its run and only reviews of that run.
CancelsKnow ==
  \A c \in Client : cancel[c].pc = "read" =>
    /\ cancel[c].run \in Run
    /\ \A v \in cancel[c].reviews : review[v].run = cancel[c].run

\* What a rejection has locked nobody else has locked or decided.
LocksHeld ==
  /\ \A c \in Client : \A v \in cancel[c].rejected :
       /\ cancel[c].pc = "read"
       /\ review[v].run = cancel[c].run
       /\ review[v].status = "pending"
  /\ \A c, d \in Client : cancel[c].rejected \cap cancel[d].rejected # {} => c = d

ReviewInv ==
  /\ ReviewsExist
  /\ PausedHasReview
  /\ OnePendingPerReason
  /\ BudgetExtendedOnce

LifecycleInv ==
  /\ QueueInv
  /\ RunTypeOK
  /\ OrchExecutes
  /\ CancelsKnow
  /\ LocksHeld
  /\ ReviewInv

LEMMA InitInv == ASSUME Init PROVE LifecycleInv
<1>1. NoReview \in ReviewRow /\ NoCancel \in CancelRow
  BY DEF NoReview, ReviewRow, NoCancel, CancelRow
<1>2. QueueInv
  BY QueueInitInv DEF Init
<1>3. RunTypeOK
  BY <1>1, <1>2 DEF Init, RunTypeOK, QueueInv, RunStatus, Phase
<1>4. OrchExecutes /\ CancelsKnow /\ LocksHeld
  BY DEF Init, OrchExecutes, CancelsKnow, LocksHeld, NoCancel
<1>5. ReviewInv
  BY DEF Init, ReviewInv, ReviewsExist, PausedHasReview, OnePendingPerReason,
         BudgetExtendedOnce, NoReview, PendingFor, PendingReviews
<1> QED BY <1>2, <1>3, <1>4, <1>5 DEF LifecycleInv

-----------------------------------------------------------------------------
(* The queue seen by itself.                                                *)

\* Every step of the system is a step of JobQueue or leaves the queue alone.
LEMMA QueueStep == ASSUME LifecycleInv, [Next]_vars PROVE [QueueNext]_queueVars
<1>1. CASE UNCHANGED vars
  BY <1>1 DEF vars, queueVars
<1>2. CASE ApiStep
  <2>1. ASSUME NEW c \in Client, NEW r \in Run,
               ExecuteRun(c, r) \/ ResumeRun(c, r) \/ CancelRead(c, r)
        PROVE  [QueueNext]_queueVars
    BY <2>1 DEF ExecuteRun, ResumeRun, CancelRead, ReadToCancel, apiVars, queueVars,
                QueueNext, ClientStep, Kind
  <2>2. ASSUME NEW c \in Client, FinishEnqueue(c) \/ CancelCommit(c) \/ CancelAbort(c)
        PROVE  [QueueNext]_queueVars
    BY <2>2 DEF FinishEnqueue, CancelCommit, CancelAbort, apiVars, queueVars, QueueNext,
                ClientStep
  <2>3. ASSUME NEW v \in Review, Approve(v) \/ Respond(v)
        PROVE  [QueueNext]_queueVars
    <3>1. review[v].run \in Run
      BY <2>3 DEF Approve, Respond, Resolvable, LifecycleInv, ReviewInv, ReviewsExist
    <3> QED BY <2>3, <3>1 DEF Approve, Respond, QueueNext
  <2>4. ASSUME NEW v \in Review, RejectAndStop(v) PROVE [QueueNext]_queueVars
    BY <2>4 DEF RejectAndStop, apiVars, queueVars
  <2>5. ASSUME NEW c \in Client, NEW v \in Review, RejectAndCancel(c, v)
        PROVE  [QueueNext]_queueVars
    BY <2>5 DEF RejectAndCancel, ReadToCancel, apiVars, queueVars
  <2> QED BY <1>2, <2>1, <2>2, <2>3, <2>4, <2>5 DEF ApiStep
<1>3. ASSUME NEW w \in Worker, RunnerStep(w) \/ Die(w) PROVE [QueueNext]_queueVars
  <2>1. \/ WorkerStep(w) \/ Crash(w) \/ UNCHANGED queueVars
    BY <1>3
    DEF RunnerStep, Poll, ClaimLive, ClaimTerminal, Return, Settle, Raise, GiveUp, Die,
        Begin, CommitPlan, EnsureActive, ResearchBatch, Pause, Finish, Abandon,
        WorkerStep, apiVars, queueVars
  <2> QED BY <2>1 DEF QueueNext
<1>4. CASE TimePasses
  BY <1>4 DEF TimePasses, ExpireReview, apiVars, queueVars, QueueNext
<1> QED BY <1>1, <1>2, <1>3, <1>4 DEF Next

LEMMA QueueInvStep == ASSUME LifecycleInv, [Next]_vars PROVE QueueInv'
BY QueueStep, QueueStepInv DEF LifecycleInv

-----------------------------------------------------------------------------
(* Steps that leave the reviews alone.                                      *)

\* The rest of the invariant, for a step that writes no run and no review.
LEMMA ReviewsUntouched ==
  ASSUME LifecycleInv, UNCHANGED <<run, review, extended>>
  PROVE  ReviewInv' /\ run' \in [Run -> RunStatus] /\ review' \in [Review -> ReviewRow]
                    /\ extended' \in [Review -> Nat]
BY DEF LifecycleInv, RunTypeOK, ReviewInv, ReviewsExist, PausedHasReview,
       OnePendingPerReason, BudgetExtendedOnce, PendingFor, PendingReviews

\* ... and for one that writes the run alone, and does not pause it.
LEMMA RunWritten ==
  ASSUME LifecycleInv, NEW r, NEW s \in RunStatus \ {"paused"}, SetRun(r, s),
         UNCHANGED <<review, extended>>
  PROVE  ReviewInv' /\ run' \in [Run -> RunStatus] /\ review' \in [Review -> ReviewRow]
                    /\ extended' \in [Review -> Nat]
<1>1. run' \in [Run -> RunStatus]
  BY DEF LifecycleInv, RunTypeOK, SetRun
<1>2. \A x \in Run : run'[x] = "paused" => run[x] = "paused"
  BY DEF LifecycleInv, RunTypeOK, SetRun
<1> QED
  BY <1>1, <1>2
  DEF LifecycleInv, RunTypeOK, ReviewInv, ReviewsExist, PausedHasReview,
      OnePendingPerReason, BudgetExtendedOnce, PendingFor, PendingReviews

\* The cancellations in progress, when nothing they know has changed.
LEMMA CancelsKept ==
  ASSUME LifecycleInv, cancel' = cancel,
         \A v \in Review : review[v].status # "absent" => review'[v].run = review[v].run,
         \A v \in Review : Locked(v) => review'[v].status = review[v].status
  PROVE  CancelsKnow' /\ LocksHeld' /\ cancel' \in [Client -> CancelRow]
<1>1. \A c \in Client : \A v \in cancel[c].reviews \cup cancel[c].rejected : v \in Review
  BY DEF LifecycleInv, RunTypeOK, CancelRow
<1>2. \A c \in Client : cancel[c].pc = "read" =>
        \A v \in cancel[c].reviews : review[v].status # "absent"
  BY <1>1, NoneAssumption
  DEF LifecycleInv, CancelsKnow, ReviewInv, ReviewsExist, NoReview
<1>3. CancelsKnow'
  BY <1>1, <1>2 DEF LifecycleInv, CancelsKnow
<1>4. LocksHeld'
  <2>1. \A c \in Client : \A v \in cancel[c].rejected : Locked(v) /\ v \in Review
    BY <1>1 DEF Locked
  <2> QED BY <2>1 DEF LifecycleInv, LocksHeld
<1> QED BY <1>3, <1>4 DEF LifecycleInv, RunTypeOK

\* One worker moves, and has a job whenever its orchestrator runs.
LEMMA WorkerMoved ==
  ASSUME LifecycleInv, NEW w \in Worker, NEW p \in Phase,
         orch' = [orch EXCEPT ![w] = p],
         p # "none" => exec'[w].pc \in {"executing", "completing"},
         \A x \in Worker : x # w => exec'[x].pc = exec[x].pc
  PROVE  OrchExecutes' /\ orch' \in [Worker -> Phase]
BY DEF LifecycleInv, RunTypeOK, OrchExecutes

LEMMA WorkersStill ==
  ASSUME LifecycleInv, orch' = orch, exec' = exec
  PROVE  OrchExecutes' /\ orch' \in [Worker -> Phase]
BY DEF LifecycleInv, RunTypeOK, OrchExecutes

\* The phases of the orchestrator, around the queue's own steps.
LEMMA OrchStep ==
  ASSUME LifecycleInv, NEW w \in Worker, RunnerStep(w) \/ Die(w)
  PROVE  OrchExecutes' /\ orch' \in [Worker -> Phase]
<1>1. exec \in [Worker -> ExecRow] /\ orch \in [Worker -> Phase]
  BY DEF LifecycleInv, RunTypeOK, QueueTypeOK
<1>2. CASE Poll(w) \/ ClaimTerminal(w) \/ GiveUp(w)
  <2>1. orch' = orch /\ \A x \in Worker : x # w => exec'[x] = exec[x]
    BY <1>1, <1>2
    DEF Poll, RecoverScan, RecoverCommit, RecoverRollback, ClaimNothing, ClaimTerminal,
        ClaimAndDiscard, GiveUp, FailWrite
  <2>2. exec[w].pc \in {"idle", "scanned", "polled", "failing"}
    BY <1>2
    DEF Poll, RecoverScan, RecoverCommit, RecoverRollback, ClaimNothing, ClaimTerminal,
        ClaimAndDiscard, GiveUp, FailWrite
  <2> QED BY <1>1, <2>1, <2>2 DEF LifecycleInv, OrchExecutes
<1>3. CASE ClaimLive(w)
  <2>1. exec'[w].pc = "executing" /\ \A x \in Worker : x # w => exec'[x] = exec[x]
    BY <1>1, <1>3 DEF ClaimLive, ClaimAndStart
  <2> QED BY <1>3, <2>1, WorkerMoved DEF ClaimLive, Phase
<1>4. CASE orch' = orch /\ CompleteCheck(w)
  <2>1. /\ exec'[w].pc = "completing"
        /\ \A x \in Worker : x # w => exec'[x] = exec[x]
    BY <1>1, <1>4 DEF CompleteCheck, ExecRow
  <2> QED BY <1>1, <1>4, <2>1 DEF LifecycleInv, OrchExecutes
<1>5. CASE \/ Settle(w) \/ Raise(w) \/ Die(w)
           \/ LoseLease(w) /\ orch' = [orch EXCEPT ![w] = "none"]
  <2>1. \A x \in Worker : x # w => exec'[x] = exec[x]
    BY <1>1, <1>5 DEF Settle, Raise, Die, CompleteWrite, FailCheck, LoseLease, Crash
  <2>2. orch' = [orch EXCEPT ![w] = "none"]
    BY <1>5 DEF Settle, Raise, Die
  <2> QED BY <2>1, <2>2, WorkerMoved DEF Phase
<1>6. CASE \/ Begin(w) \/ CommitPlan(w) \/ EnsureActive(w)
           \/ \E reason \in Reason : Pause(w, reason)
           \/ \E s \in {"completed", "failed", "budget_exhausted"} : Finish(w, s)
           \/ \E s \in Flushed : Abandon(w, s)
  <2>1. exec' = exec
    BY <1>6 DEF Begin, CommitPlan, EnsureActive, Pause, Finish, Abandon, apiVars
  <2>2. orch[w] # "none" /\ \E p \in Phase : orch' = [orch EXCEPT ![w] = p]
    BY <1>6
    DEF Begin, CommitPlan, EnsureActive, Pause, Finish, Abandon, Phase, Trying, Done, Flushed
  <2> QED BY <2>1, <2>2, WorkerMoved DEF LifecycleInv, OrchExecutes
<1>7. CASE ResearchBatch(w)
  <2>1. /\ exec'[w].pc = "executing" /\ \A x \in Worker : x # w => exec'[x] = exec[x]
        /\ orch' = [orch EXCEPT ![w] = "batched"]
    BY <1>1, <1>7 DEF ResearchBatch, RefreshRow, ExecRow
  <2> QED BY <2>1, WorkerMoved DEF Phase, Trying
<1> QED BY <1>2, <1>3, <1>4, <1>5, <1>6, <1>7 DEF RunnerStep, Return

-----------------------------------------------------------------------------
(* Steps that write reviews.                                                *)

\* A decision: reviews that were pending are decided, the run is not paused.
\* With u = {v} this is a resolution, with the reviews of a cancellation it
\* may also overwrite a decision that was taken meanwhile.
LEMMA ReviewsDecided ==
  ASSUME LifecycleInv, NEW r \in Run, NEW s \in RunStatus \ {"paused"}, SetRun(r, s),
         review' \in [Review -> ReviewRow],
         \A v \in Review :
           \/ review'[v] = review[v]
           \/ /\ review[v].run = r
              /\ review'[v].run = r /\ review'[v].reason = review[v].reason
              /\ \/ review'[v].status = "cancelled"
                 \/ review[v].status = "pending" /\ review'[v].status \in Decided,
         \A v \in Review :
           \/ extended'[v] = extended[v] /\ (extended[v] = 1 =>
                review'[v].status \in {"approved", "cancelled"})
           \/ /\ extended'[v] = extended[v] + 1
              /\ review[v].status = "pending" /\ review'[v].status = "approved",
         extended' \in [Review -> Nat]
  PROVE  ReviewInv' /\ run' \in [Run -> RunStatus]
<1>1. /\ run' \in [Run -> RunStatus]
      /\ \A x \in Run : run'[x] = IF x = r THEN s ELSE run[x]
  BY DEF LifecycleInv, RunTypeOK, SetRun
<1>2. ReviewsExist'
  BY NoneAssumption DEF LifecycleInv, ReviewInv, ReviewsExist, NoReview, Decided
<1>3. \A v \in Review :
        /\ review'[v].status = "pending" => review'[v] = review[v]
        /\ review[v].run # r => review'[v] = review[v]
  BY DEF Decided
<1>4. PausedHasReview'
  BY <1>1, <1>3 DEF LifecycleInv, ReviewInv, PausedHasReview, PendingReviews
<1>5. OnePendingPerReason'
  BY <1>3 DEF LifecycleInv, ReviewInv, OnePendingPerReason, PendingFor, PendingReviews
<1>6. BudgetExtendedOnce'
  BY DEF LifecycleInv, RunTypeOK, ReviewInv, BudgetExtendedOnce
<1> QED BY <1>1, <1>2, <1>4, <1>5, <1>6 DEF ReviewInv

LEMMA ResolveInv ==
  ASSUME LifecycleInv, NEW v \in Review, Approve(v) \/ Respond(v) \/ RejectAndStop(v)
  PROVE  /\ ReviewInv' /\ run' \in [Run -> RunStatus] /\ review' \in [Review -> ReviewRow]
         /\ extended' \in [Review -> Nat]
         /\ \A u \in Review : review'[u].run = review[u].run
         /\ \A u \in Review : Locked(u) => review'[u].status = review[u].status
<1> DEFINE r == review[v].run
<1>1. /\ review[v].status = "pending" /\ r \in Run /\ ~Locked(v)
  BY DEF Approve, Respond, RejectAndStop, Resolvable, LifecycleInv, ReviewInv, ReviewsExist
<1>2. PICK d \in Decided : review' = [review EXCEPT ![v].status = d]
                           /\ (d = "approved" <=> Approve(v))
  BY DEF Approve, Respond, RejectAndStop, Decide, Decided, Resolvable, LifecycleInv,
         RunTypeOK, ReviewRow
<1>3. PICK s \in RunStatus \ {"paused"} : SetRun(r, s)
  BY DEF Approve, Respond, RejectAndStop, RunStatus, Terminal
<1>4. review' \in [Review -> ReviewRow]
  BY <1>2 DEF LifecycleInv, RunTypeOK, ReviewRow
<1>5. \A u \in Review :
        \/ u # v /\ review'[u] = review[u]
        \/ /\ u = v /\ review'[u].run = r /\ review'[u].reason = review[u].reason
           /\ review'[u].status = d
  BY <1>2 DEF LifecycleInv, RunTypeOK, ReviewRow
<1>6. extended[v] # 1
  BY <1>1 DEF LifecycleInv, ReviewInv, BudgetExtendedOnce
<1>7. /\ extended' \in [Review -> Nat]
      /\ \A u \in Review :
           \/ extended'[u] = extended[u] /\ (extended[u] = 1 =>
                review'[u].status \in {"approved", "cancelled"})
           \/ /\ extended'[u] = extended[u] + 1
              /\ review[u].status = "pending" /\ review'[u].status = "approved"
  <2>1. CASE extended' = extended
    BY <2>1, <1>5, <1>6 DEF LifecycleInv, RunTypeOK, ReviewInv, BudgetExtendedOnce
  <2>2. CASE Approve(v)
    <3>1. extended' = [extended EXCEPT ![v] = @ + 1] /\ d = "approved"
      BY <2>2, <1>2 DEF Approve
    <3> QED BY <3>1, <1>1, <1>5 DEF LifecycleInv, RunTypeOK, ReviewInv, BudgetExtendedOnce
  <2> QED BY <2>1, <2>2 DEF Respond, RejectAndStop
<1>8. /\ \A u \in Review : review'[u].run = review[u].run
      /\ \A u \in Review : Locked(u) => review'[u].status = review[u].status
  BY <1>1, <1>5
<1>9. \A u \in Review :
        \/ review'[u] = review[u]
        \/ /\ review[u].run = r
           /\ review'[u].run = r /\ review'[u].reason = review[u].reason
           /\ review[u].status = "pending" /\ review'[u].status \in Decided
  BY <1>1, <1>5
<1> QED BY <1>1, <1>3, <1>4, <1>7, <1>8, <1>9, ReviewsDecided

\* Pausing: under the run lock a pending review is reused or created.
LEMMA PauseInv ==
  ASSUME LifecycleInv, NEW w \in Worker, NEW reason \in Reason, Pause(w, reason)
  PROVE  /\ ReviewInv' /\ run' \in [Run -> RunStatus] /\ review' \in [Review -> ReviewRow]
         /\ extended' \in [Review -> Nat]
         /\ \A v \in Review : review[v].status # "absent" => review'[v].run = review[v].run
         /\ \A v \in Review : Locked(v) => review'[v].status = review[v].status
<1> DEFINE r == RunOf(w)
<1>1. r \in Run
  <2>1. exec[w].pc \in Working
    BY DEF Pause, Trying, LifecycleInv, OrchExecutes, Working
  <2> QED BY <2>1 DEF RunOf, LifecycleInv, QueueInv, ClaimsRemembered, RowInv
<1>2. /\ run' \in [Run -> RunStatus]
      /\ \A x \in Run : run'[x] = IF x = r THEN "paused" ELSE run[x]
  BY <1>1 DEF Pause, SetRun, LifecycleInv, RunTypeOK, RunStatus
<1>3. extended' = extended
  BY DEF Pause
<1>4. CASE PendingFor(r, reason) # {} /\ review' = review
  <2>1. PendingReviews(r) # {}
    BY <1>4 DEF PendingFor
  <2>2. PausedHasReview'
    BY <1>2, <1>4, <2>1 DEF LifecycleInv, ReviewInv, PausedHasReview, PendingReviews
  <2> QED
    BY <1>2, <1>3, <1>4, <2>2
    DEF LifecycleInv, RunTypeOK, ReviewInv, ReviewsExist, OnePendingPerReason,
        BudgetExtendedOnce, PendingFor, PendingReviews
<1>5. ASSUME PendingFor(r, reason) = {}, NEW v \in Review, review[v].status = "absent",
             review' = [review EXCEPT ![v] =
               [run |-> r, reason |-> reason, status |-> "pending", expired |-> FALSE]]
      PROVE  /\ ReviewInv' /\ run' \in [Run -> RunStatus] /\ review' \in [Review -> ReviewRow]
             /\ extended' \in [Review -> Nat]
             /\ \A u \in Review :
                  review[u].status # "absent" => review'[u].run = review[u].run
             /\ \A u \in Review : Locked(u) => review'[u].status = review[u].status
  <2>1. /\ review' \in [Review -> ReviewRow]
        /\ \A u \in Review : u # v => review'[u] = review[u]
        /\ review'[v].run = r /\ review'[v].reason = reason
        /\ review'[v].status = "pending"
    BY <1>1, <1>5 DEF LifecycleInv, RunTypeOK, ReviewRow
  <2>2. ReviewsExist'
    BY <1>1, <2>1 DEF LifecycleInv, ReviewInv, ReviewsExist
  <2>3. PausedHasReview'
    <3> SUFFICES ASSUME NEW x \in Run, run'[x] = "paused"
                 PROVE  \E u \in Review : review'[u].run = x /\ review'[u].status = "pending"
      BY DEF PausedHasReview, PendingReviews
    <3>1. CASE x = r
      BY <3>1, <2>1
    <3>2. CASE x # r
      <4>1. PICK u \in Review : review[u].run = x /\ review[u].status = "pending"
        BY <3>2, <1>2 DEF LifecycleInv, ReviewInv, PausedHasReview, PendingReviews
      <4> QED BY <4>1, <1>5, <2>1
    <3> QED BY <3>1, <3>2
  <2>4. OnePendingPerReason'
    BY <1>5, <2>1
    DEF LifecycleInv, ReviewInv, OnePendingPerReason, PendingFor, PendingReviews
  <2>5. BudgetExtendedOnce'
    BY <1>3, <1>5, <2>1 DEF LifecycleInv, ReviewInv, BudgetExtendedOnce
  <2>6. ~Locked(v)
    BY <1>5 DEF Locked, LifecycleInv, LocksHeld
  <2> QED
    BY <1>2, <1>3, <1>5, <2>1, <2>2, <2>3, <2>4, <2>5, <2>6
    DEF ReviewInv, LifecycleInv, RunTypeOK
<1> QED BY <1>4, <1>5 DEF Pause, Ask

LEMMA ExpireReviewInv ==
  ASSUME LifecycleInv, NEW v \in Review, ExpireReview(v)
  PROVE  /\ ReviewInv' /\ run' \in [Run -> RunStatus] /\ review' \in [Review -> ReviewRow]
         /\ extended' \in [Review -> Nat]
         /\ \A u \in Review : review'[u].run = review[u].run
         /\ \A u \in Review : review'[u].status = review[u].status
<1>1. /\ review' \in [Review -> ReviewRow]
      /\ \A u \in Review :
           /\ review'[u].run = review[u].run /\ review'[u].reason = review[u].reason
           /\ review'[u].status = review[u].status
           /\ review[u].status = "absent" => review'[u] = review[u]
      /\ run' = run /\ extended' = extended
  BY DEF ExpireReview, LifecycleInv, RunTypeOK, ReviewRow
<1> QED
  BY <1>1
  DEF LifecycleInv, RunTypeOK, ReviewInv, ReviewsExist, PausedHasReview,
      OnePendingPerReason, BudgetExtendedOnce, PendingFor, PendingReviews

-----------------------------------------------------------------------------
(* The invariant is inductive.                                              *)

\* What is left to show of a step once the queue is known to be in order.
RunsOK ==
  /\ run \in [Run -> RunStatus] /\ review \in [Review -> ReviewRow]
  /\ extended \in [Review -> Nat] /\ cancel \in [Client -> CancelRow]
  /\ orch \in [Worker -> Phase]
  /\ OrchExecutes /\ CancelsKnow /\ LocksHeld /\ ReviewInv

LEMMA RunnerStepInv ==
  ASSUME LifecycleInv, NEW w \in Worker, RunnerStep(w) \/ Die(w)
  PROVE  RunsOK'
<1>1. cancel' = cancel
  BY DEF RunnerStep, Poll, ClaimLive, ClaimTerminal, Return, Settle, Raise, GiveUp, Die,
         Begin, CommitPlan, EnsureActive, ResearchBatch, Pause, Finish, Abandon
<1>2. OrchExecutes' /\ orch' \in [Worker -> Phase]
  BY OrchStep
<1>3. CASE \E reason \in Reason : Pause(w, reason)
  BY <1>1, <1>2, <1>3, PauseInv, CancelsKept DEF RunsOK
<1>4. CASE \E r, s : /\ s \in RunStatus \ {"paused"} /\ SetRun(r, s)
                     /\ UNCHANGED <<review, extended>>
  BY <1>1, <1>2, <1>4, RunWritten, CancelsKept DEF RunsOK
<1>5. CASE UNCHANGED <<run, review, extended>>
  BY <1>1, <1>2, <1>5, ReviewsUntouched, CancelsKept DEF RunsOK
<1>6. CASE Settle(w) \/ CommitPlan(w)
           \/ \E s \in {"completed", "failed", "budget_exhausted"} : Finish(w, s)
  BY <1>4, <1>5, <1>6
  DEF Settle, Committed, CommitPlan, Finish, Flushed, RunStatus, Terminal
<1> QED
  BY <1>3, <1>5, <1>6
  DEF RunnerStep, Poll, ClaimLive, ClaimTerminal, Return, Raise, GiveUp, Die, Begin,
      EnsureActive, ResearchBatch, Abandon

\* A cancellation reads: the reviews it will reject are its own from now on.
LEMMA ReadToCancelInv ==
  ASSUME LifecycleInv, NEW c \in Client, NEW r \in Run, NEW T \in SUBSET Review,
         ReadToCancel(c, r, T),
         \A v \in T : review[v].run = r /\ review[v].status = "pending" /\ ~Locked(v)
  PROVE  CancelsKnow' /\ LocksHeld' /\ cancel' \in [Client -> CancelRow]
<1> PICK row : row = [pc |-> "read", run |-> r, reviews |-> PendingReviews(r) \ T,
                      rejected |-> T]
  OBVIOUS
<1>1. cancel' = [cancel EXCEPT ![c] = row] /\ review' = review
  BY DEF ReadToCancel
<1>2. row \in CancelRow
  BY DEF CancelRow, PendingReviews
<1>3. cancel' \in [Client -> CancelRow]
  BY <1>1, <1>2 DEF LifecycleInv, RunTypeOK
<1>4. \A d \in Client : cancel'[d] = IF d = c THEN row ELSE cancel[d]
  BY <1>1 DEF LifecycleInv, RunTypeOK
<1>5. CancelsKnow'
  BY <1>1, <1>4 DEF LifecycleInv, CancelsKnow, PendingReviews
<1>6. LocksHeld'
  <2>1. \A d \in Client : cancel[d].rejected \cap T = {}
    BY DEF Locked
  <2> QED BY <1>1, <1>4, <2>1 DEF LifecycleInv, LocksHeld
<1> QED BY <1>3, <1>5, <1>6

\* A cancellation ends: the locks of the others are not touched.
LEMMA CancelEnded ==
  ASSUME LifecycleInv, NEW c \in Client, cancel' = [cancel EXCEPT ![c] = NoCancel],
         \A v \in Review : review'[v].run = review[v].run,
         \A v \in Review, d \in Client :
           v \in cancel[d].rejected /\ d # c => review'[v].status = review[v].status
  PROVE  CancelsKnow' /\ LocksHeld' /\ cancel' \in [Client -> CancelRow]
<1>1. cancel' \in [Client -> CancelRow]
  BY DEF LifecycleInv, RunTypeOK, CancelRow, NoCancel
<1>2. \A d \in Client : cancel'[d] = IF d = c THEN NoCancel ELSE cancel[d]
  BY DEF LifecycleInv, RunTypeOK
<1>3. \A d \in Client : \A v \in cancel[d].reviews \cup cancel[d].rejected : v \in Review
  BY DEF LifecycleInv, RunTypeOK, CancelRow
<1>4. NoCancel.pc = "idle" /\ NoCancel.rejected = {}
  BY DEF NoCancel
<1>5. CancelsKnow'
  BY <1>2, <1>3, <1>4 DEF LifecycleInv, CancelsKnow
<1>6. LocksHeld'
  BY <1>2, <1>3, <1>4 DEF LifecycleInv, LocksHeld
<1> QED BY <1>1, <1>5, <1>6

\* A cancellation commits: it writes over a set of reviews of its run.
LEMMA CancelCommitInv ==
  ASSUME LifecycleInv, NEW c \in Client, CancelCommit(c)
  PROVE  /\ ReviewInv' /\ run' \in [Run -> RunStatus] /\ review' \in [Review -> ReviewRow]
         /\ extended' \in [Review -> Nat]
         /\ CancelsKnow' /\ LocksHeld' /\ cancel' \in [Client -> CancelRow]
<1> DEFINE r == cancel[c].run
           U == cancel[c].reviews
           T == cancel[c].rejected
<1>1. r \in Run /\ \A v \in U : review[v].run = r
  BY DEF CancelCommit, LifecycleInv, CancelsKnow
<1>2. \A v \in T : review[v].run = r /\ review[v].status = "pending"
  BY DEF LifecycleInv, LocksHeld
<1>3. review' = [v \in Review |->
                   IF v \in T THEN [review[v] EXCEPT !.status = "rejected"]
                   ELSE IF v \in U THEN [review[v] EXCEPT !.status = "cancelled"]
                   ELSE review[v]]
  BY DEF CancelCommit
<1>4. SetRun(r, "cancelled") /\ extended' = extended
  BY DEF CancelCommit
<1>5. cancel' = [cancel EXCEPT ![c] = NoCancel] /\ \A v \in U : ~Locked(v)
  BY DEF CancelCommit
<1>6. review' \in [Review -> ReviewRow]
  BY <1>3 DEF LifecycleInv, RunTypeOK, ReviewRow, Decided
<1>7. \A v \in Review :
        \/ review'[v] = review[v]
        \/ /\ review[v].run = r
           /\ review'[v].run = r /\ review'[v].reason = review[v].reason
           /\ \/ review'[v].status = "cancelled"
              \/ review[v].status = "pending" /\ review'[v].status = "rejected"
  BY <1>1, <1>2, <1>3 DEF LifecycleInv, RunTypeOK, ReviewRow
<1>8. /\ extended' \in [Review -> Nat]
      /\ \A v \in Review : extended'[v] = extended[v] /\ (extended[v] = 1 =>
           review'[v].status \in {"approved", "cancelled"})
  BY <1>4, <1>7 DEF LifecycleInv, RunTypeOK, ReviewInv, BudgetExtendedOnce
<1>9. "cancelled" \in RunStatus \ {"paused"} /\ "rejected" \in Decided
  BY DEF RunStatus, Terminal, Decided
<1>10. ReviewInv' /\ run' \in [Run -> RunStatus]
  BY <1>1, <1>4, <1>6, <1>7, <1>8, <1>9, ReviewsDecided
<1>11. \A v \in Review : review'[v].run = review[v].run
  BY <1>7
<1>12. ASSUME NEW v \in Review, NEW d \in Client, v \in cancel[d].rejected, d # c
       PROVE  review'[v].status = review[v].status
  <2>1. v \notin U
    BY <1>5, <1>12 DEF Locked
  <2>2. v \notin T
    BY <1>12 DEF LifecycleInv, LocksHeld
  <2> QED BY <1>3, <2>1, <2>2
<1> QED BY <1>5, <1>6, <1>8, <1>10, <1>11, <1>12, CancelEnded

\* A rejection that finds the run terminal decides the review and nothing else.
LEMMA RejectTerminalInv ==
  ASSUME LifecycleInv, NEW v \in Review, Resolvable(v),
         run[review[v].run] \in Terminal, review' = Decide(v, "rejected"),
         UNCHANGED <<run, cancel, extended>>
  PROVE  /\ ReviewInv' /\ run' \in [Run -> RunStatus] /\ review' \in [Review -> ReviewRow]
         /\ extended' \in [Review -> Nat]
         /\ CancelsKnow' /\ LocksHeld' /\ cancel' \in [Client -> CancelRow]
<1> DEFINE r == review[v].run
<1>1. review[v].status = "pending" /\ ~Locked(v) /\ r \in Run
  BY DEF Resolvable, LifecycleInv, ReviewInv, ReviewsExist
<1>2. SetRun(r, run[r]) /\ run[r] \in RunStatus \ {"paused"}
  BY <1>1 DEF SetRun, LifecycleInv, RunTypeOK, Terminal
<1>3. review' \in [Review -> ReviewRow]
  BY DEF Decide, LifecycleInv, RunTypeOK, ReviewRow, Decided
<1>4. \A u \in Review :
        \/ u # v /\ review'[u] = review[u]
        \/ /\ u = v /\ review'[u].run = r /\ review'[u].reason = review[u].reason
           /\ review'[u].status = "rejected"
  BY DEF Decide, LifecycleInv, RunTypeOK, ReviewRow
<1>5. /\ extended' \in [Review -> Nat]
      /\ \A u \in Review : extended'[u] = extended[u] /\ (extended[u] = 1 =>
           review'[u].status \in {"approved", "cancelled"})
  BY <1>1, <1>4 DEF LifecycleInv, RunTypeOK, ReviewInv, BudgetExtendedOnce
<1>6. "rejected" \in Decided
  BY DEF Decided
<1>7. \A u \in Review :
        \/ review'[u] = review[u]
        \/ /\ review[u].run = r
           /\ review'[u].run = r /\ review'[u].reason = review[u].reason
           /\ review[u].status = "pending" /\ review'[u].status \in Decided
  BY <1>1, <1>4, <1>6
<1>8. ReviewInv' /\ run' \in [Run -> RunStatus]
  BY <1>1, <1>2, <1>3, <1>5, <1>7, ReviewsDecided
<1>9. /\ \A u \in Review : review'[u].run = review[u].run
      /\ \A u \in Review : Locked(u) => review'[u].status = review[u].status
  BY <1>1, <1>4
<1> QED BY <1>3, <1>5, <1>8, <1>9, CancelsKept

LEMMA ApiStepInv == ASSUME LifecycleInv, ApiStep PROVE RunsOK'
<1>1. orch' = orch /\ exec' = exec
  BY DEF ApiStep, ExecuteRun, ResumeRun, CancelRead, ReadToCancel, FinishEnqueue,
         CancelCommit, CancelAbort, Approve, Respond, RejectAndStop, RejectAndCancel,
         CheckActive, InsertJob, AbortRequest, EnqueueResume, apiVars
<1>2. OrchExecutes' /\ orch' \in [Worker -> Phase]
  BY <1>1, WorkersStill
<1>3. ASSUME NEW c \in Client, NEW r \in Run, ExecuteRun(c, r) \/ ResumeRun(c, r)
      PROVE  RunsOK'
  BY <1>2, <1>3, ReviewsUntouched, CancelsKept DEF ExecuteRun, ResumeRun, RunsOK
<1>4. ASSUME NEW c \in Client, NEW r \in Run, CancelRead(c, r) PROVE RunsOK'
  <2> PICK T : T = {}
    OBVIOUS
  <2>1. ReadToCancel(c, r, T) /\ UNCHANGED <<run, review, extended>>
    BY <1>4 DEF CancelRead, ReadToCancel
  <2>2. CancelsKnow' /\ LocksHeld' /\ cancel' \in [Client -> CancelRow]
    BY <2>1, ReadToCancelInv
  <2> QED BY <1>2, <2>1, <2>2, ReviewsUntouched DEF RunsOK
<1>5. ASSUME NEW c \in Client, FinishEnqueue(c) PROVE RunsOK'
  BY <1>2, <1>5, ReviewsUntouched, CancelsKept DEF FinishEnqueue, RunsOK
<1>6. ASSUME NEW c \in Client, CancelCommit(c) PROVE RunsOK'
  BY <1>2, <1>6, CancelCommitInv DEF RunsOK
<1>7. ASSUME NEW c \in Client, CancelAbort(c) PROVE RunsOK'
  BY <1>2, <1>7, ReviewsUntouched, CancelEnded DEF CancelAbort, RunsOK
<1>8. ASSUME NEW v \in Review, Approve(v) \/ Respond(v) \/ RejectAndStop(v)
      PROVE  RunsOK'
  <2>1. cancel' = cancel
    BY <1>8 DEF Approve, Respond, RejectAndStop
  <2> QED BY <1>2, <1>8, <2>1, ResolveInv, CancelsKept DEF RunsOK
<1>9. ASSUME NEW c \in Client, NEW v \in Review, RejectAndCancel(c, v) PROVE RunsOK'
  <2>1. CASE ReadToCancel(c, review[v].run, {v})
    <3> PICK r, T : r = review[v].run /\ T = {v}
      OBVIOUS
    <3>1. review[v].status = "pending" /\ ~Locked(v) /\ r \in Run /\ T \in SUBSET Review
      BY <1>9 DEF RejectAndCancel, Resolvable, LifecycleInv, ReviewInv, ReviewsExist
    <3>2. ReadToCancel(c, r, T) /\ UNCHANGED <<run, review, extended>>
      BY <2>1 DEF ReadToCancel
    <3>3. CancelsKnow' /\ LocksHeld' /\ cancel' \in [Client -> CancelRow]
      BY <3>1, <3>2, ReadToCancelInv
    <3> QED BY <1>2, <3>2, <3>3, ReviewsUntouched DEF RunsOK
  <2>2. CASE run[review[v].run] \in Terminal /\ review' = Decide(v, "rejected")
             /\ UNCHANGED <<run, cancel, extended>>
    BY <1>2, <1>9, <2>2, RejectTerminalInv DEF RejectAndCancel, RunsOK
  <2> QED BY <1>9, <2>1, <2>2 DEF RejectAndCancel
<1> QED BY <1>3, <1>4, <1>5, <1>6, <1>7, <1>8, <1>9 DEF ApiStep

LEMMA TimeInv == ASSUME LifecycleInv, TimePasses PROVE RunsOK'
<1>1. orch' = orch /\ exec' = exec /\ cancel' = cancel
  BY DEF TimePasses, ExpireReview, ExpireLease, apiVars
<1>2. OrchExecutes' /\ orch' \in [Worker -> Phase]
  BY <1>1, WorkersStill
<1>3. CASE UNCHANGED <<run, review, extended>>
  BY <1>1, <1>2, <1>3, ReviewsUntouched, CancelsKept DEF RunsOK
<1>4. ASSUME NEW v \in Review, ExpireReview(v) PROVE RunsOK'
  BY <1>1, <1>2, <1>4, ExpireReviewInv, CancelsKept DEF RunsOK
<1> QED BY <1>3, <1>4 DEF TimePasses

LEMMA NextInv == ASSUME LifecycleInv, [Next]_vars PROVE LifecycleInv'
<1>1. QueueInv'
  BY QueueInvStep
<1>2. RunsOK'
  <2>1. CASE UNCHANGED vars
    BY <2>1, ReviewsUntouched, CancelsKept, WorkersStill DEF vars, RunsOK
  <2> QED BY <2>1, ApiStepInv, RunnerStepInv, TimeInv DEF Next
<1> QED BY <1>1, <1>2 DEF RunsOK, LifecycleInv, RunTypeOK, QueueInv

\* The invariant holds in every reachable state of the system.
THEOREM LifecycleInvariant == Spec => []LifecycleInv
BY InitInv, NextInv, PTL DEF Spec

-----------------------------------------------------------------------------
(* What the invariant gives.                                                *)

\* Runs, reviews, requests and executors are well formed in every state.
THEOREM RunTypeCorrect == Spec => []RunTypeOK
BY LifecycleInvariant, PTL DEF LifecycleInv

\* A paused run always has the pending review that alone can move it.
THEOREM PausedIsReviewed == Spec => []PausedHasReview
<1>1. LifecycleInv => PausedHasReview
  BY DEF LifecycleInv, ReviewInv
<1> QED BY <1>1, LifecycleInvariant, PTL

\* A review extends the budget of its run at most once.
THEOREM BudgetOnce == Spec => []BudgetExtendedOnce
<1>1. LifecycleInv => BudgetExtendedOnce
  BY DEF LifecycleInv, ReviewInv
<1> QED BY <1>1, LifecycleInvariant, PTL

\* Executors that pause one run together share one pending review.
THEOREM PendingUnique == Spec => []OnePendingPerReason
<1>1. LifecycleInv => OnePendingPerReason
  BY DEF LifecycleInv, ReviewInv
<1> QED BY <1>1, LifecycleInvariant, PTL

\* Every action of the composition conjoins a queue action or leaves the queue
\* alone, so what is proved of QueueSpec holds in the system.
LEMMA LifecycleRefines == Spec => QueueSpec
<1>1. Init => QueueInit
  BY DEF Init
<1>2. LifecycleInv /\ [Next]_vars => [QueueNext]_queueVars
  BY QueueStep
<1> QED BY <1>1, <1>2, LifecycleInvariant, PTL DEF Spec, QueueSpec

\* The jobs that handlers, decisions and workers share are delivered at least
\* once, whatever cancellations and reviews do to their runs.
THEOREM LifecycleDelivers == Spec => DeliversAtLeastOnce
BY LifecycleRefines, QueueImplementsDelivery, PTL
=============================================================================
