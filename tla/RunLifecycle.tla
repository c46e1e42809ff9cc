---------------------------- MODULE RunLifecycle ----------------------------
(***************************************************************************)
(* A research run between its three kinds of actor: the API handlers       *)
(* (execute, resume, cancel, resolve a review), the orchestrator executing *)
(* a job of the run inside a worker of JobQueue, and the passage of time.  *)
(* It composes the run row, the review rows (human in the loop) and the    *)
(* job queue, whose actions it conjoins with their effect on the run.      *)
(*                                                                         *)
(* Steps are committed transactions or the reads they rely on, as in       *)
(* JobQueue.  update_run_status refuses one thing only, to set RUNNING on  *)
(* a terminal run, so every other write of the status lands on whatever    *)
(* the row holds by then.                                                  *)
(***************************************************************************)
EXTENDS JobQueue

CONSTANTS
  MaxReviews,    \* bound: rows of review_requests
  ReviewsExpire  \* whether hitl_default_review_expiry_hours is set

ASSUME LifecycleAssumption ==
  /\ MaxReviews \in Nat
  /\ ReviewsExpire \in BOOLEAN

VARIABLES
  run,      \* status of each run
  review,   \* the table review_requests
  orch,     \* per worker: how far the orchestrator is with the run of its job
  cancel,   \* per API request: a cancellation that has read but not written
  extended  \* history: how often the budget was extended for a review

vars == <<job, exec, request, run, review, orch, cancel, extended>>
apiVars == <<job, exec, request>>

Review == 1..MaxReviews

\* ResearchRunStatus and TERMINAL_RESEARCH_RUN_STATUSES.
Terminal == {"completed", "failed", "cancelled", "budget_exhausted"}
RunStatus == {"pending", "running", "paused"} \cup Terminal

\* The two reasons the orchestrator asks a human for.  "approved" stands for
\* APPROVED and EDITED, which extend the budget alike.
Reason == {"budget_extension", "human_input"}
Decided == {"approved", "rejected", "responded", "cancelled"}

ReviewRow == [run: Run \cup {None}, reason: Reason \cup {"none"},
              status: {"absent", "pending"} \cup Decided, expired: BOOLEAN]

NoReview == [run |-> None, reason |-> "none", status |-> "absent", expired |-> FALSE]

\* rejected: the review whose rejection cancels the run, locked meanwhile.
CancelRow == [pc: {"idle", "read"}, run: Run \cup {None},
              reviews: SUBSET Review, rejected: SUBSET Review]

NoCancel == [pc |-> "idle", run |-> None, reviews |-> {}, rejected |-> {}]

\* execute(): starting, the job is claimed; entering, it has read a run it may
\* run; planned, the plan and RUNNING are committed; checked, _ensure_active
\* found the run not cancelled; batched, the research batches are done.
Trying == {"planned", "checked", "batched"}

\* execute() has returned, the job is not completed yet; or it has returned
\* after flushing a status that is committed with the completion of the job.
Flushed == {"failed", "budget_exhausted"}
Done == {"returned"} \cup Flushed

Phase == {"none", "starting", "entering"} \cup Trying \cup Done

RunTypeOK ==
  /\ QueueTypeOK
  /\ run \in [Run -> RunStatus]
  /\ review \in [Review -> ReviewRow]
  /\ orch \in [Worker -> Phase]
  /\ cancel \in [Client -> CancelRow]
  /\ extended \in [Review -> Nat]

Init ==
  /\ QueueInit
  /\ run = [r \in Run |-> "pending"]
  /\ review = [v \in Review |-> NoReview]
  /\ orch = [w \in Worker |-> "none"]
  /\ cancel = [c \in Client |-> NoCancel]
  /\ extended = [v \in Review |-> 0]

-----------------------------------------------------------------------------
(* Helpers.                                                                *)

RunOf(w) == job[exec[w].job].run

PendingReviews(r) == {v \in Review : review[v].run = r /\ review[v].status = "pending"}

\* Mutant of PendingFor: a decided review is reused.
DecidedFor(r, reason) == {v \in Review : review[v].run = r /\ review[v].reason = reason}

PendingFor(r, reason) == {v \in PendingReviews(r) : review[v].reason = reason}

\* A rejection that is cancelling the run holds the lock of its review.
Locked(v) == \E c \in Client : v \in cancel[c].rejected

\* Mutant of Resolvable: the status is not checked after the lock.
ResolvableUnchecked(v) == review[v].status # "absent" /\ ~review[v].expired /\ ~Locked(v)

\* resolve_review locks the review and acts only on one that is pending and has
\* not expired.  On an expired one it raises, and the rollback drops the EXPIRED
\* it had written.
Resolvable(v) == review[v].status = "pending" /\ ~review[v].expired /\ ~Locked(v)

SetRun(r, s) == run' = [run EXCEPT ![r] = s]

Decide(v, s) == [review EXCEPT ![v].status = s]

-----------------------------------------------------------------------------
(* API: start, resume, cancel.                                             *)

ExecuteRun(c, r) ==
  /\ cancel[c].pc = "idle"
  /\ CheckActive(c, r, "execute")
  /\ UNCHANGED <<run, review, orch, cancel, extended>>

\* The endpoint lets a failed or exhausted run through: its job is discarded.
ResumeRun(c, r) ==
  /\ cancel[c].pc = "idle"
  /\ run[r] \notin {"completed", "cancelled", "paused"}
  /\ CheckActive(c, r, "resume")
  /\ UNCHANGED <<run, review, orch, cancel, extended>>

FinishEnqueue(c) ==
  /\ InsertJob(c) \/ AbortRequest(c)
  /\ UNCHANGED <<run, review, orch, cancel, extended>>

\* The handler loads the run row, cancel_run selects the pending reviews.
\* Nothing of it is locked until the flush.  A terminal run is left alone.
ReadToCancel(c, r, rejected) ==
  /\ cancel[c].pc = "idle"
  /\ request[c].pc = "idle"
  /\ run[r] \notin Terminal
  /\ cancel' = [cancel EXCEPT ![c] =
       [pc |-> "read", run |-> r, reviews |-> PendingReviews(r) \ rejected,
        rejected |-> rejected]]
  /\ UNCHANGED <<apiVars, run, review, orch, extended>>

CancelRead(c, r) == ReadToCancel(c, r, {})

\* The flush writes what was read, whatever the rows have become, once no other
\* transaction has them locked.
CancelCommit(c) ==
  /\ cancel[c].pc = "read"
  /\ \A v \in cancel[c].reviews : ~Locked(v)
  /\ SetRun(cancel[c].run, "cancelled")
  /\ review' = [v \in Review |->
       IF v \in cancel[c].rejected THEN [review[v] EXCEPT !.status = "rejected"]
       ELSE IF v \in cancel[c].reviews THEN [review[v] EXCEPT !.status = "cancelled"]
       ELSE review[v]]
  /\ cancel' = [cancel EXCEPT ![c] = NoCancel]
  /\ UNCHANGED <<apiVars, orch, extended>>

\* The process dies, or the database ends a deadlock of two rejections.
CancelAbort(c) ==
  /\ cancel[c].pc = "read"
  /\ cancel' = [cancel EXCEPT ![c] = NoCancel]
  /\ UNCHANGED <<apiVars, run, review, orch, extended>>

-----------------------------------------------------------------------------
(* API: resolve a review.  The review row is locked first and read again,   *)
(* the run row is not: its status is overwritten unseen.                    *)

Approve(v) ==
  /\ Resolvable(v)
  /\ review[v].reason = "budget_extension"
  /\ extended' = [extended EXCEPT ![v] = @ + 1]
  /\ review' = Decide(v, "approved")
  /\ SetRun(review[v].run, "pending")
  /\ EnqueueResume(review[v].run)
  /\ UNCHANGED <<orch, cancel>>

Respond(v) ==
  /\ Resolvable(v)
  /\ review[v].reason = "human_input"
  /\ review' = Decide(v, "responded")
  /\ SetRun(review[v].run, "pending")
  /\ EnqueueResume(review[v].run)
  /\ UNCHANGED <<orch, cancel, extended>>

RejectAndStop(v) ==
  /\ Resolvable(v)
  /\ review' = Decide(v, "rejected")
  /\ SetRun(review[v].run, "budget_exhausted")
  /\ UNCHANGED <<apiVars, orch, cancel, extended>>

\* cancel_run follows in the same transaction: the other pending reviews go too,
\* unless the run is terminal already.
RejectAndCancel(c, v) ==
  /\ Resolvable(v)
  /\ \/ ReadToCancel(c, review[v].run, {v})
     \/ /\ run[review[v].run] \in Terminal
        /\ review' = Decide(v, "rejected")
        /\ UNCHANGED <<apiVars, run, orch, cancel, extended>>

\* expires_at passes.  Clarifications have none.
ExpireReview(v) ==
  /\ ReviewsExpire
  /\ review[v].status = "pending"
  /\ review[v].reason = "budget_extension"
  /\ ~review[v].expired
  /\ review' = [review EXCEPT ![v].expired = TRUE]
  /\ UNCHANGED <<apiVars, run, orch, cancel, extended>>

-----------------------------------------------------------------------------
(* The worker around the orchestrator.                                      *)

Poll(w) ==
  /\ RecoverScan(w) \/ RecoverCommit(w) \/ RecoverRollback(w) \/ ClaimNothing(w)
  /\ UNCHANGED <<run, review, orch, cancel, extended>>

\* The claimed job's run is read in the transaction of the claim.
ClaimLive(w) ==
  /\ \E j \in Job : ClaimAndStart(w, j) /\ run[job[j].run] \notin Terminal
  /\ orch' = [orch EXCEPT ![w] = "starting"]
  /\ UNCHANGED <<run, review, cancel, extended>>

\* Mutant of ClaimTerminal: the commit is missing.
ClaimTerminalUncommitted(w) ==
  /\ \E j \in Job : NextFor(w, j) /\ run[job[j].run] \in Terminal
  /\ exec[w].pc = "polled"
  /\ exec' = [exec EXCEPT ![w] = Idle]
  /\ UNCHANGED <<job, request, run, review, orch, cancel, extended>>

ClaimTerminal(w) ==
  /\ \E j \in Job : ClaimAndDiscard(w, j) /\ run[job[j].run] \in Terminal
  /\ UNCHANGED <<run, review, orch, cancel, extended>>

\* execute() has returned: the lease is compared ...
Return(w) ==
  /\ orch[w] \in Done
  /\ \/ CompleteCheck(w) /\ UNCHANGED orch
     \/ exec[w].fresh /\ LoseLease(w) /\ orch' = [orch EXCEPT ![w] = "none"]
  /\ UNCHANGED <<run, review, cancel, extended>>

\* The commit of a completion, with the status that was flushed.
Committed(w) ==
  IF orch[w] \in Flushed THEN SetRun(RunOf(w), orch[w]) ELSE UNCHANGED run

\* ... and the job completed, in one commit with what execute() only flushed.
Settle(w) ==
  /\ CompleteWrite(w)
  /\ Committed(w)
  /\ orch' = [orch EXCEPT ![w] = "none"]
  /\ UNCHANGED <<review, cancel, extended>>

\* Anything that raises out of execute(), the refusal of a terminal run among
\* it, or out of the completion: all is rolled back, then the job failed.
Raise(w) ==
  /\ FailCheck(w) \/ LoseLease(w)
  /\ orch' = [orch EXCEPT ![w] = "none"]
  /\ UNCHANGED <<run, review, cancel, extended>>

GiveUp(w) ==
  /\ FailWrite(w)
  /\ UNCHANGED <<run, review, orch, cancel, extended>>

Die(w) ==
  /\ Crash(w)
  /\ orch' = [orch EXCEPT ![w] = "none"]
  /\ UNCHANGED <<run, review, cancel, extended>>

-----------------------------------------------------------------------------
(* The orchestrator.                                                        *)

\* A paused run is left at once; a terminal one is refused (Raise); one that is
\* running already keeps its status.
Begin(w) ==
  /\ orch[w] = "starting"
  /\ \E p \in Phase :
       /\ \/ run[RunOf(w)] = "paused" /\ p = "returned"
          \/ run[RunOf(w)] = "pending" /\ p = "entering"
          \/ run[RunOf(w)] = "running" /\ p = "planned"
       /\ orch' = [orch EXCEPT ![w] = p]
  /\ UNCHANGED <<apiVars, run, review, cancel, extended>>

\* RUNNING is written on whatever the run has become, and committed with the plan.
CommitPlan(w) ==
  /\ orch[w] = "entering"
  /\ SetRun(RunOf(w), "running")
  /\ orch' = [orch EXCEPT ![w] = "planned"]
  /\ UNCHANGED <<apiVars, review, cancel, extended>>

\* _ensure_active reads the run; nothing keeps it from being cancelled next.  On
\* a cancelled run execute() returns, and writes the status the run has.
EnsureActive(w) ==
  /\ orch[w] \in {"planned", "batched"}
  /\ orch' = [orch EXCEPT ![w] =
                IF run[RunOf(w)] = "cancelled" THEN "returned" ELSE "checked"]
  /\ UNCHANGED <<apiVars, run, review, cancel, extended>>

\* The research batches, which end with a refresh.  They stand for all rounds:
\* the checks between them are those before and after.
ResearchBatch(w) ==
  /\ orch[w] = "checked"
  /\ RefreshRow(w)
  /\ orch' = [orch EXCEPT ![w] = "batched"]
  /\ UNCHANGED <<run, review, cancel, extended>>

\* The new review of a pause.
Ask(r, reason) ==
  \E v \in Review :
    /\ review[v].status = "absent"
    /\ \A u \in Review : review[u].status = "absent" => v <= u
    /\ review' = [review EXCEPT ![v] =
         [run |-> r, reason |-> reason, status |-> "pending", expired |-> FALSE]]

\* Mutants of Pause: a pending review is not looked for; the orchestrator polls
\* for the decision instead of returning.
PauseAnew(w, reason) ==
  /\ orch[w] \in Trying
  /\ Ask(RunOf(w), reason)
  /\ SetRun(RunOf(w), "paused")
  /\ orch' = [orch EXCEPT ![w] = "returned"]
  /\ UNCHANGED <<apiVars, cancel, extended>>

PauseAndPoll(w, reason) ==
  /\ orch[w] \in Trying
  /\ IF PendingFor(RunOf(w), reason) = {} THEN Ask(RunOf(w), reason) ELSE UNCHANGED review
  /\ SetRun(RunOf(w), "paused")
  /\ orch' = [orch EXCEPT ![w] = "planned"]
  /\ UNCHANGED <<apiVars, cancel, extended>>

\* _pause_for_contract_review once the plan is there, _pause_for_budget_review
\* whenever the budget is found exhausted.  The run is locked, a pending review
\* of the reason is reused, and the commit unlocks.
Pause(w, reason) ==
  LET r == RunOf(w) IN
  /\ orch[w] \in IF reason = "human_input" THEN {"planned"} ELSE Trying
  /\ \/ PendingFor(r, reason) # {} /\ UNCHANGED review
     \/ PendingFor(r, reason) = {} /\ Ask(r, reason)
  /\ SetRun(r, "paused")
  /\ orch' = [orch EXCEPT ![w] = "returned"]
  /\ UNCHANGED <<apiVars, cancel, extended>>

\* Evidence, report and evaluations done: the terminal status is committed.  An
\* exhausted budget may leave no batch before them.
Finish(w, s) ==
  /\ orch[w] \in Trying
  /\ s # "budget_exhausted" => orch[w] = "checked" /\ exec[w].fresh
  /\ SetRun(RunOf(w), s)
  /\ orch' = [orch EXCEPT ![w] = "returned"]
  /\ UNCHANGED <<apiVars, review, cancel, extended>>

\* The except clauses of execute() flush a status and return.
Abandon(w, s) ==
  /\ orch[w] \in {"entering"} \cup Trying
  /\ orch' = [orch EXCEPT ![w] = s]
  /\ UNCHANGED <<apiVars, run, review, cancel, extended>>

-----------------------------------------------------------------------------
TimePasses ==
  \/ \E v \in Review : ExpireReview(v)
  \/ \E j \in Job : ExpireLease(j) /\ UNCHANGED <<run, review, orch, cancel, extended>>

ApiStep ==
  \/ \E c \in Client, r \in Run : ExecuteRun(c, r) \/ ResumeRun(c, r) \/ CancelRead(c, r)
  \/ \E c \in Client : FinishEnqueue(c) \/ CancelCommit(c) \/ CancelAbort(c)
  \/ \E c \in Client, v \in Review : RejectAndCancel(c, v)
  \/ \E v \in Review : Approve(v) \/ Respond(v) \/ RejectAndStop(v)

RunnerStep(w) ==
  \/ Poll(w) \/ ClaimLive(w) \/ ClaimTerminal(w)
  \/ Return(w) \/ Settle(w) \/ Raise(w) \/ GiveUp(w)
  \/ Begin(w) \/ CommitPlan(w) \/ EnsureActive(w) \/ ResearchBatch(w)
  \/ \E reason \in Reason : Pause(w, reason)
  \/ \E s \in {"completed", "failed", "budget_exhausted"} : Finish(w, s)
  \/ \E s \in Flushed : Abandon(w, s)

Next ==
  \/ ApiStep
  \/ \E w \in Worker : RunnerStep(w) \/ Die(w)
  \/ TimePasses

Spec == Init /\ [][Next]_vars

\* Workers run and time passes; people and API clients may never come.
FairSpec ==
  /\ Spec
  /\ \A w \in Worker : WF_vars(RunnerStep(w))
  /\ \A j \in Job :
       WF_vars(ExpireLease(j) /\ UNCHANGED <<run, review, orch, cancel, extended>>)

-----------------------------------------------------------------------------
(* Properties.                                                             *)

\* A paused run can only be moved by its review (resume answers 409), so as
\* long as it is paused it has a pending one, however cancellations, decisions
\* and overrun executors interleave.
PausedHasReview == \A r \in Run : run[r] = "paused" => PendingReviews(r) # {}

\* However often a review is approved, and by however many requests, its budget
\* extension is applied at most once, and only to a review that was decided.
BudgetExtendedOnce ==
  \A v \in Review :
    /\ extended[v] <= 1
    /\ extended[v] = 1 => review[v].status \in {"approved", "cancelled"}

\* Executors of one run that pause together share one request to the human.
OnePendingPerReason ==
  \A r \in Run, reason \in Reason :
    \A u, v \in PendingFor(r, reason) : u = v

\* A paused run holds no worker: it is left or taken out of the pause.
PauseReleasesWorker ==
  \A r \in Run :
    run[r] = "paused" ~>
      \/ run[r] # "paused"
      \/ \A w \in Worker : orch[w] # "none" => RunOf(w) # r

\* A cancelled run drains: its jobs are discarded, nothing keeps retrying it.
CancelDrainsJobs ==
  \A r \in Run : run[r] = "cancelled" ~> run[r] # "cancelled" \/ ActiveJobs(r) = {}

-----------------------------------------------------------------------------
(* What a document says and the code does not keep.                        *)

\* "PENDING + RESUME_RUN job" (ADR-011): a run that a decision has made pending
\* has a job that will execute it.
ResumeHasJob ==
  \A v \in Review :
    review[v].status \in {"approved", "responded"} /\ run[review[v].run] = "pending" =>
      ActiveJobs(review[v].run) # {}
=============================================================================
