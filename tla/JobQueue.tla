------------------------------ MODULE JobQueue ------------------------------
(***************************************************************************)
(* The durable job queue of DeepScout (table research_jobs) and the loop   *)
(* of the worker processes that serve it.                                  *)
(*                                                                         *)
(* A step is one committed database transaction, or the read that a later  *)
(* transaction of the same process relies on.  Row locks are held from the *)
(* statement that takes them to the commit, so what happens under them is  *)
(* one step; a SELECT without FOR UPDATE and the write based on it are     *)
(* two.  Time is abstracted to what the queue tells apart: the lease of a  *)
(* job is absent, live or expired.                                         *)
(***************************************************************************)
EXTENDS Naturals, FiniteSets

CONSTANTS
  Worker,       \* worker processes
  Run,          \* research runs
  Client,       \* API requests in flight
  None,         \* the run of a job row that does not exist yet
  MaxJobs,      \* bound: rows of research_jobs
  MaxAttempts,  \* ResearchJobRow.max_attempts (3 in the code)
  MaxClaims     \* bound: crashes and overruns stop when a job has this many claims

ASSUME BoundsAssumption ==
  /\ MaxJobs \in Nat \ {0}
  /\ MaxAttempts \in Nat \ {0}
  /\ MaxClaims \in Nat \ {0}

ASSUME NoneAssumption == None \notin Run

VARIABLES
  job,      \* the table research_jobs, indexed in the order of created_at
  exec,     \* per worker: where its loop is and what it holds in memory
  request   \* per API request: an enqueue that has looked but not inserted

queueVars == <<job, exec, request>>

Job == 1..MaxJobs

\* ResearchJobType; "none" is the type of a row that does not exist yet.
Kind == {"execute", "resume"}

\* ResearchJobStatus without CLAIMED, which no code assigns.
ActiveStatus == {"pending", "running"}
JobStatus == ActiveStatus \cup {"absent", "completed", "failed"}

\* token is the lease_token: 0 for NULL, else the number of the claim that drew
\* it.  That secrets.token_hex repeats no token is assumed, not shown: nothing
\* below states that tokens differ.
JobRow ==
  [run: Run \cup {None}, kind: Kind \cup {"none"}, status: JobStatus,
   token: Nat, lease: {"none", "live", "expired"}, attempts: Nat]

NoJob == [run |-> None, kind |-> "none", status |-> "absent",
          token |-> 0, lease |-> "none", attempts |-> 0]

\* A worker with a job executes it, and then completes or fails it: it compares
\* the lease with the row it reads, and writes the row in another statement,
\* which may wait for the lock another transaction has on it.
Working == {"executing", "completing", "failing"}

\* fresh: the cached row of the worker's session has been expired, so the
\* next session.get reads the table again.
ExecRow ==
  [pc: {"idle", "scanned", "polled"} \cup Working, job: Job \cup {0},
   token: Nat, fresh: BOOLEAN, stale: SUBSET Job]

Idle == [pc |-> "idle", job |-> 0, token |-> 0, fresh |-> FALSE, stale |-> {}]

RequestRow == [pc: {"idle", "inserting"}, run: Run \cup {None}, kind: Kind \cup {"none"}]

NoRequest == [pc |-> "idle", run |-> None, kind |-> "none"]

QueueTypeOK ==
  /\ job \in [Job -> JobRow]
  /\ exec \in [Worker -> ExecRow]
  /\ request \in [Client -> RequestRow]

QueueInit ==
  /\ job = [j \in Job |-> NoJob]
  /\ exec = [w \in Worker |-> Idle]
  /\ request = [c \in Client |-> NoRequest]

-----------------------------------------------------------------------------
(* What the operations of the store do to a row.                           *)

Active(j) == job[j].status \in ActiveStatus
ActiveJobs(r) == {j \in Job : Active(j) /\ job[j].run = r}

NewJob(r, k) == [NoJob EXCEPT !.run = r, !.kind = k, !.status = "pending"]

\* Mutant of KeyTaken: a settled job frees its key.
KeyTakenWhileActive(r, k) ==
  k = "execute" /\ \E j \in ActiveJobs(r) : job[j].kind = "execute"

\* An execute job has the key "execute:<run>"; a resume key is always new.
KeyTaken(r, k) ==
  k = "execute" /\ \E j \in Job : job[j].run = r /\ job[j].kind = "execute"

\* Mutants of Claimable: the status, the expired lease left out of the query.
ClaimableAnyStatus(j) == job[j].status # "absent" /\ job[j].lease \in {"none", "expired"}
ClaimableUnleased(j) == Active(j) /\ job[j].lease = "none"

Claimable(j) == Active(j) /\ job[j].lease \in {"none", "expired"}

\* A transaction of another worker may hold the lock of the row.
LockedFrom(w, j) ==
  \E x \in Worker \ {w} : \/ exec[x].pc = "scanned" /\ j \in exec[x].stale
                          \/ exec[x].pc \in Working /\ exec[x].job = j

\* claim_next_job takes the oldest claimable row, or a younger one when SKIP
\* LOCKED passes over those before it.
NextFor(w, j) ==
  /\ Claimable(j)
  /\ \A i \in Job : Claimable(i) /\ i < j => LockedFrom(w, i)

Claimed(row) == [row EXCEPT !.status = "running", !.lease = "live",
                            !.attempts = @ + 1, !.token = row.attempts + 1]

\* Mutant of Completed: the lease is cleared with the status.
CompletedCleared(row) == [row EXCEPT !.status = "completed", !.token = 0, !.lease = "none"]

Completed(row) == [row EXCEPT !.status = "completed"]

\* Mutant of Returned: the lease is not reset.
ReturnedLeased(row) == [row EXCEPT !.status = "pending"]

Returned(row) ==
  [row EXCEPT !.status = "pending", !.token = 0, !.lease = "none"]

\* Mutant of Failed: off by one.
FailedEarly(row, n) == IF n + 1 < MaxAttempts
                       THEN Returned(row)
                       ELSE [row EXCEPT !.status = "failed"]

\* fail_job after n claims.
Failed(row, n) == IF n < MaxAttempts
                  THEN Returned(row)
                  ELSE [row EXCEPT !.status = "failed"]

\* The rows recover_stale_jobs selects.
Stale == {j \in Job : job[j].status = "running" /\ job[j].lease = "expired"}

Recovered(stale) ==
  [j \in Job |-> IF j \in stale THEN Returned(job[j]) ELSE job[j]]

-----------------------------------------------------------------------------
(* API requests: find_active_job, then insert.  Nothing locks the run in    *)
(* between, so the check and the insert are two steps.                      *)

\* Rows are created in the order of their index.
Insert(r, k) ==
  \E j \in Job :
    /\ job[j].status = "absent"
    /\ \A i \in Job : job[i].status = "absent" => j <= i
    /\ job' = [job EXCEPT ![j] = NewJob(r, k)]

\* A request that finds an active job returns it and changes nothing.
CheckActive(c, r, k) ==
  /\ request[c].pc = "idle"
  /\ ActiveJobs(r) = {}
  /\ request' = [request EXCEPT ![c] = [pc |-> "inserting", run |-> r, kind |-> k]]
  /\ UNCHANGED <<job, exec>>

\* enqueue_job returns the row that has the key, whatever its status, and
\* the unique constraint turns away the loser of a race.
InsertJob(c) ==
  /\ request[c].pc = "inserting"
  /\ request' = [request EXCEPT ![c] = NoRequest]
  /\ \/ /\ KeyTaken(request[c].run, request[c].kind)
        /\ UNCHANGED job
     \/ /\ ~KeyTaken(request[c].run, request[c].kind)
        /\ Insert(request[c].run, request[c].kind)
  /\ UNCHANGED exec

\* A resume enqueued inside a larger transaction, the resolution of a review.
\* It has written the run row by then, so that two of them wait for each other;
\* what else commits between its look and its commit could as well have
\* committed before or after both.
EnqueueResume(r) ==
  /\ \/ ActiveJobs(r) # {} /\ UNCHANGED job
     \/ ActiveJobs(r) = {} /\ Insert(r, "resume")
  /\ UNCHANGED <<exec, request>>

\* The API process dies, or get_db rolls back, before the commit.
AbortRequest(c) ==
  /\ request[c].pc = "inserting"
  /\ request' = [request EXCEPT ![c] = NoRequest]
  /\ UNCHANGED <<job, exec>>

-----------------------------------------------------------------------------
(* The loop of run_worker.                                                 *)

\* recover_stale_jobs: a SELECT that locks nothing ...
RecoverScan(w) ==
  /\ exec[w].pc = "idle"
  /\ exec' = [exec EXCEPT ![w].pc = "scanned", ![w].stale = Stale]
  /\ UNCHANGED <<job, request>>

\* ... and an UPDATE by primary key of every row it returned.
RecoverCommit(w) ==
  /\ exec[w].pc = "scanned"
  /\ job' = Recovered(exec[w].stale)
  /\ exec' = [exec EXCEPT ![w].pc = "polled", ![w].stale = {}]
  /\ UNCHANGED request

\* The monitor dispatch of the same transaction raised: all is rolled back.
RecoverRollback(w) ==
  /\ exec[w].pc = "scanned"
  /\ exec' = [exec EXCEPT ![w].pc = "polled", ![w].stale = {}]
  /\ UNCHANGED <<job, request>>

\* (A poll that finds every claimable row locked is one more idle loop.)
ClaimNothing(w) ==
  /\ exec[w].pc = "polled"
  /\ \A j \in Job : ~Claimable(j)
  /\ exec' = [exec EXCEPT ![w] = Idle]
  /\ UNCHANGED <<job, request>>

\* Claim and first heartbeat are one commit; the orchestrator starts.
ClaimAndStart(w, j) ==
  /\ exec[w].pc = "polled"
  /\ NextFor(w, j)
  /\ job' = [job EXCEPT ![j] = Claimed(@)]
  /\ exec' = [exec EXCEPT ![w] =
                [pc |-> "executing", job |-> j, token |-> job[j].attempts + 1,
                 fresh |-> FALSE, stale |-> {}]]
  /\ UNCHANGED request

\* The run is terminal already: claim and completion are one commit.
ClaimAndDiscard(w, j) ==
  /\ exec[w].pc = "polled"
  /\ NextFor(w, j)
  /\ job' = [job EXCEPT ![j] = Completed(Claimed(@))]
  /\ exec' = [exec EXCEPT ![w] = Idle]
  /\ UNCHANGED request

\* A research batch ends with session.expire_all.
RefreshRow(w) ==
  /\ exec[w].pc = "executing"
  /\ ~exec[w].fresh
  /\ exec' = [exec EXCEPT ![w].fresh = TRUE]
  /\ UNCHANGED <<job, request>>

Holds(w, j) ==
  /\ exec[w].pc \in Working
  /\ exec[w].job = j
  /\ exec[w].token = job[j].token

\* complete_job compares the lease with the row the session holds.  Until that
\* row is expired it is the worker's own copy from the claim, which matches.
CompleteCheck(w) ==
  /\ exec[w].pc = "executing"
  /\ exec[w].fresh => Holds(w, exec[w].job)
  /\ exec' = [exec EXCEPT ![w].pc = "completing"]
  /\ UNCHANGED <<job, request>>

CompleteWrite(w) ==
  /\ exec[w].pc = "completing"
  /\ job' = [job EXCEPT ![exec[w].job] = Completed(@)]
  /\ exec' = [exec EXCEPT ![w] = Idle]
  /\ UNCHANGED request

\* The execution, or the completion, raised: fail_job compares the lease in a
\* new session, so with the table.
FailCheck(w) ==
  /\ exec[w].pc \in {"executing", "completing"}
  /\ Holds(w, exec[w].job)
  /\ exec' = [exec EXCEPT ![w].pc = "failing"]
  /\ UNCHANGED <<job, request>>

\* The row that was compared had as many claims as the number of its token.
FailWrite(w) ==
  /\ exec[w].pc = "failing"
  /\ job' = [job EXCEPT ![exec[w].job] = Failed(@, exec[w].token)]
  /\ exec' = [exec EXCEPT ![w] = Idle]
  /\ UNCHANGED request

\* Another token: LookupError, and when complete_job raised it, failing the job
\* in a new session meets it again.  Nothing is written.
LoseLease(w) ==
  /\ exec[w].pc \in {"executing", "completing"}
  /\ ~Holds(w, exec[w].job)
  /\ exec' = [exec EXCEPT ![w] = Idle]
  /\ UNCHANGED <<job, request>>

-----------------------------------------------------------------------------
(* The environment.                                                        *)

\* The process dies and restarts under a new owner id; what it had not
\* committed is gone, what it had claimed stays claimed.  Before the claim it
\* holds nothing: dying there only delays its next loop.
Crash(w) ==
  /\ exec[w].pc \in Working
  /\ job[exec[w].job].attempts < MaxClaims
  /\ exec' = [exec EXCEPT ![w] = Idle]
  /\ UNCHANGED <<job, request>>

\* Nobody works on the job under the token of its row.
Abandoned(j) == \A w \in Worker : ~Holds(w, j)

\* Time passes the lease_expires_at of a job, whether its worker died or is
\* slow: the only heartbeat is the one of the claim.
ExpireLease(j) ==
  /\ job[j].status = "running"
  /\ job[j].lease = "live"
  /\ Abandoned(j) \/ job[j].attempts < MaxClaims
  /\ job' = [job EXCEPT ![j].lease = "expired"]
  /\ UNCHANGED <<exec, request>>

-----------------------------------------------------------------------------
WorkerStep(w) ==
  \/ RecoverScan(w) \/ RecoverCommit(w) \/ RecoverRollback(w)
  \/ ClaimNothing(w) \/ \E j \in Job : ClaimAndStart(w, j) \/ ClaimAndDiscard(w, j)
  \/ RefreshRow(w) \/ CompleteCheck(w) \/ CompleteWrite(w)
  \/ FailCheck(w) \/ FailWrite(w) \/ LoseLease(w)

ClientStep(c) ==
  \/ \E r \in Run, k \in Kind : CheckActive(c, r, k)
  \/ InsertJob(c)
  \/ AbortRequest(c)

QueueNext ==
  \/ \E c \in Client : ClientStep(c)
  \/ \E w \in Worker : WorkerStep(w) \/ Crash(w)
  \/ \E r \in Run : EnqueueResume(r)
  \/ \E j \in Job : ExpireLease(j)

QueueSpec == QueueInit /\ [][QueueNext]_queueVars

\* The worker loop keeps running and time keeps passing.  Clients may stop.
FairQueueSpec ==
  /\ QueueSpec
  /\ \A w \in Worker : WF_queueVars(WorkerStep(w))
  /\ \A j \in Job : WF_queueVars(ExpireLease(j))

-----------------------------------------------------------------------------
(* Properties.                                                             *)

\* A job that is not finished is either unleased or under a lease that can
\* expire: claim_next_job or recover_stale_jobs reaches it, no status strands it.
NoStrandedJob ==
  \A j \in Job :
    /\ job[j].status = "pending" => job[j].lease = "none" /\ job[j].token = 0
    /\ job[j].status = "running" => job[j].lease # "none" /\ job[j].token # 0

\* A recovery or a failure was decided on the row of j before its last claim,
\* and has still to be written.
DecidedBefore(x, j) ==
  \/ exec[x].pc = "scanned" /\ j \in exec[x].stale
  \/ exec[x].pc = "failing" /\ exec[x].job = j

\* A job is taken from the worker that holds it only after its lease is over, or
\* by a recovery or failure decided before: not by another worker's claim, and
\* not by a superseded worker's completion, which passes the comparison.
HeldUntilLeaseEnds ==
  [][\A w \in Worker, j \in Job :
       Holds(w, j) /\ exec'[w] = exec[w] /\ ~Holds(w, j)' =>
         job[j].lease = "expired" \/ \E x \in Worker \ {w} : DecidedBefore(x, j)]_queueVars

\* However execute requests race, a run has one execute job for ever.
OneExecuteJob ==
  \A i, j \in Job :
    /\ job[i].kind = "execute" /\ job[j].kind = "execute"
    /\ job[i].run = job[j].run
    => i = j

\* A job is given up only after max_attempts claims.
FailedOnlyAfterMaxAttempts ==
  \A j \in Job : job[j].status = "failed" => job[j].attempts >= MaxAttempts

\* The queue implements at-least-once delivery: claims are the deliveries, and
\* a job that is completed or given up is not claimed again.
phaseBar ==
  [j \in Job |-> IF job[j].status = "absent" THEN "absent"
                 ELSE IF Active(j) THEN "open" ELSE "settled"]
deliveriesBar == [j \in Job |-> job[j].attempts]

Delivery == INSTANCE AtLeastOnceDelivery
  WITH Item <- Job, phase <- phaseBar, deliveries <- deliveriesBar

DeliversAtLeastOnce == Delivery!Spec

\* A submitted job is eventually completed or given up, across the crashes and
\* lease overruns the bound MaxClaims admits.
JobsSettle ==
  \A j \in Job : Active(j) ~> job[j].status \in {"completed", "failed"}
=============================================================================
