--------------------------- MODULE JobQueue_proofs ---------------------------
(***************************************************************************)
(* Proofs about the job queue, for any number of workers, requests, runs,  *)
(* jobs, attempts and claims.                                              *)
(***************************************************************************)
EXTENDS JobQueue, TLAPS

-----------------------------------------------------------------------------
(* The inductive invariant.  The properties rest on how a row's status,      *)
(* lease and token go together, and on what a worker, a scan or a request   *)
(* still knows of the table when it writes.                                 *)

\* What holds of a row by itself: it exists whole or not at all, its token is
\* one of its claims, and its status says how far it is.
RowInv(row) ==
  /\ row \in JobRow
  /\ IF row.status = "absent" THEN row = NoJob ELSE row.run \in Run /\ row.kind \in Kind
  /\ row.token <= row.attempts
  /\ row.status = "pending" => row.lease = "none" /\ row.token = 0
  /\ row.status = "running" => row.lease # "none" /\ row.token # 0
  /\ row.status \in {"completed", "failed"} => row.attempts > 0
  /\ row.status = "failed" => row.attempts >= MaxAttempts

\* What a worker remembers of its job: the row it claimed still exists, under a
\* token one of the row's claims has drawn.
ClaimsRemembered ==
  \A w \in Worker : exec[w].pc \in Working =>
    /\ exec[w].job \in Job
    /\ job[exec[w].job].status # "absent"
    /\ exec[w].token \in 1..job[exec[w].job].attempts

\* What recover_stale_jobs has selected exists and has been claimed.
ScansExist ==
  \A w \in Worker : \A j \in exec[w].stale :
    job[j].status # "absent" /\ job[j].attempts > 0

RequestsKnow ==
  \A c \in Client : request[c].pc = "inserting" =>
    request[c].run \in Run /\ request[c].kind \in Kind

QueueInv ==
  /\ QueueTypeOK
  /\ \A j \in Job : RowInv(job[j])
  /\ ClaimsRemembered
  /\ ScansExist
  /\ RequestsKnow
  /\ OneExecuteJob

\* How a step may change a row: rows do not vanish or change hands, and claims
\* are only ever counted up.
Kept(old, new) ==
  /\ new.attempts >= old.attempts
  /\ old.status # "absent" =>
       new.status # "absent" /\ new.run = old.run /\ new.kind = old.kind

-----------------------------------------------------------------------------
(* The operations on one row.                                              *)

LEMMA ClaimedRow ==
  ASSUME NEW row, RowInv(row), row.status \in ActiveStatus
  PROVE  /\ RowInv(Claimed(row))
         /\ Kept(row, Claimed(row))
         /\ Claimed(row).attempts = row.attempts + 1
<1> DEFINE new == Claimed(row)
<1>1. /\ row.attempts \in Nat /\ row.attempts + 1 \in Nat
      /\ row.run \in Run /\ row.kind \in Kind
  BY DEF RowInv, JobRow, ActiveStatus
<1>2. new \in JobRow
  <2>1. "running" \in JobStatus /\ row \in JobRow
    BY DEF RowInv, JobStatus, ActiveStatus
  <2> QED BY <1>1, <2>1 DEF Claimed, JobRow
<1>3. /\ new.run = row.run /\ new.kind = row.kind /\ new.status = "running"
      /\ new.lease = "live" /\ new.attempts = row.attempts + 1
      /\ new.token = row.attempts + 1
  BY DEF RowInv, JobRow, Claimed
<1> HIDE DEF new
<1>4. RowInv(new) /\ Kept(row, new)
  BY <1>1, <1>2, <1>3 DEF RowInv, Kept, JobRow
<1> QED BY <1>3, <1>4 DEF new

LEMMA CompletedRow ==
  ASSUME NEW row, RowInv(row), row.status # "absent", row.attempts > 0
  PROVE  /\ RowInv(Completed(row))
         /\ Kept(row, Completed(row))
BY DEF RowInv, Kept, Completed, JobRow, NoJob, ActiveStatus, JobStatus, Kind

LEMMA ReturnedRow ==
  ASSUME NEW row, RowInv(row), row.status # "absent"
  PROVE  /\ RowInv(Returned(row))
         /\ Kept(row, Returned(row))
<1> DEFINE new == Returned(row)
<1>1. new \in JobRow
  BY DEF RowInv, Returned, JobRow, ActiveStatus, JobStatus
<1>2. /\ new.run = row.run /\ new.kind = row.kind /\ new.status = "pending"
      /\ new.lease = "none" /\ new.attempts = row.attempts /\ new.token = 0
  BY DEF RowInv, JobRow, Returned
<1> HIDE DEF new
<1>3. RowInv(new) /\ Kept(row, new)
  BY <1>1, <1>2 DEF RowInv, Kept, JobRow
<1> QED BY <1>3 DEF new

\* fail_job counts the claims of the row it compared, which may have grown since.
LEMMA FailedRow ==
  ASSUME NEW row, RowInv(row), row.status # "absent", NEW n \in 1..row.attempts
  PROVE  /\ RowInv(Failed(row, n))
         /\ Kept(row, Failed(row, n))
<1>1. CASE n < MaxAttempts
  BY <1>1, ReturnedRow DEF Failed
<1>2. CASE ~(n < MaxAttempts)
  BY <1>2, BoundsAssumption
  DEF RowInv, Kept, Failed, JobRow, NoJob, ActiveStatus, JobStatus, Kind
<1> QED BY <1>1, <1>2

LEMMA CreatedRow ==
  ASSUME NEW r \in Run, NEW k \in Kind
  PROVE  /\ RowInv(NewJob(r, k))
         /\ Kept(NoJob, NewJob(r, k))
         /\ NewJob(r, k).run = r
         /\ NewJob(r, k).kind = k
<1> DEFINE new == NewJob(r, k)
<1>1. /\ new.run = r /\ new.kind = k /\ new.status = "pending"
      /\ new.lease = "none" /\ new.attempts = 0 /\ new.token = 0
  BY DEF NewJob, NoJob
<1>2. new \in JobRow
  BY DEF NewJob, NoJob, JobRow, JobStatus, ActiveStatus
<1> HIDE DEF new
<1>3. RowInv(new) /\ Kept(NoJob, new)
  BY <1>1, <1>2 DEF RowInv, Kept, NoJob
<1> QED BY <1>1, <1>3 DEF new

LEMMA ExpiredRow ==
  ASSUME NEW row, RowInv(row), row.status = "running"
  PROVE  /\ RowInv([row EXCEPT !.lease = "expired"])
         /\ Kept(row, [row EXCEPT !.lease = "expired"])
BY DEF RowInv, Kept, JobRow, NoJob, ActiveStatus, JobStatus, Kind

LEMMA SameRow == ASSUME NEW row, RowInv(row) PROVE Kept(row, row)
BY DEF RowInv, Kept, JobRow

-----------------------------------------------------------------------------
(* A step of the table and what it leaves of the rest of the invariant.     *)

\* The table after a step: every row is sound and was kept.
TableStep ==
  /\ job' \in [Job -> JobRow]
  /\ \A j \in Job : RowInv(job'[j]) /\ Kept(job[j], job'[j])

\* The workers after a step that claims nothing.
ReleasedOrKept ==
  /\ exec' \in [Worker -> ExecRow]
  /\ \A w \in Worker :
       /\ exec'[w].pc \in Working =>
            /\ exec[w].pc \in Working
            /\ exec'[w].job = exec[w].job
            /\ exec'[w].token = exec[w].token
       /\ exec'[w].stale \subseteq exec[w].stale

LEMMA OneRowStep ==
  ASSUME QueueInv, NEW j \in Job, NEW row,
         RowInv(row), Kept(job[j], row), job' = [job EXCEPT ![j] = row]
  PROVE  TableStep
<1>1. row \in JobRow
  BY DEF RowInv
<1>2. \A i \in Job : job'[i] = IF i = j THEN row ELSE job[i]
  BY DEF QueueInv, QueueTypeOK
<1>3. \A i \in Job : RowInv(job'[i]) /\ Kept(job[i], job'[i])
  BY <1>2, SameRow DEF QueueInv
<1> QED BY <1>1, <1>3 DEF TableStep, QueueInv, QueueTypeOK

LEMMA NoRowStep == ASSUME QueueInv, job' = job PROVE TableStep
BY SameRow DEF TableStep, QueueInv, QueueTypeOK

LEMMA WorkersKept ==
  ASSUME QueueInv, TableStep, ReleasedOrKept
  PROVE  ClaimsRemembered' /\ ScansExist'
<1>1. \A j \in Job : job[j].attempts \in Nat /\ job'[j].attempts \in Nat
  BY DEF TableStep, QueueInv, QueueTypeOK, JobRow
<1>2. ClaimsRemembered'
  <2> SUFFICES ASSUME NEW w \in Worker, exec'[w].pc \in Working
               PROVE  /\ exec'[w].job \in Job
                      /\ job'[exec'[w].job].status # "absent"
                      /\ exec'[w].token \in 1..job'[exec'[w].job].attempts
    BY DEF ClaimsRemembered
  <2>1. /\ exec[w].pc \in Working /\ exec'[w].job = exec[w].job
        /\ exec'[w].token = exec[w].token
    BY DEF ReleasedOrKept
  <2>2. /\ exec[w].job \in Job /\ job[exec[w].job].status # "absent"
        /\ exec[w].token \in 1..job[exec[w].job].attempts
    BY <2>1 DEF QueueInv, ClaimsRemembered
  <2>3. Kept(job[exec[w].job], job'[exec[w].job])
    BY <2>2 DEF TableStep
  <2> QED BY <1>1, <2>1, <2>2, <2>3 DEF Kept
<1>3. ScansExist'
  <2> SUFFICES ASSUME NEW w \in Worker, NEW j \in exec'[w].stale
               PROVE  job'[j].status # "absent" /\ job'[j].attempts > 0
    BY DEF ScansExist
  <2>1. j \in exec[w].stale /\ j \in Job
    BY DEF ReleasedOrKept, QueueInv, QueueTypeOK, ExecRow
  <2>2. job[j].status # "absent" /\ job[j].attempts > 0
    BY <2>1 DEF QueueInv, ScansExist
  <2> QED BY <1>1, <2>1, <2>2 DEF TableStep, Kept
<1> QED BY <1>2, <1>3

\* Without a new row there is no new execute job.
LEMMA NoNewExecuteJob ==
  ASSUME QueueInv, TableStep,
         \A j \in Job : job[j].status = "absent" =>
           job'[j].status = "absent" \/ job'[j].kind = "resume"
  PROVE  OneExecuteJob'
<1>1. \A j \in Job : job'[j].kind = "execute" =>
        job[j].kind = "execute" /\ job'[j].run = job[j].run
  BY DEF TableStep, RowInv, Kept, NoJob
<1> QED BY <1>1 DEF QueueInv, OneExecuteJob

\* The usual step of a worker: one row, or none, and the worker is released.
LEMMA WorkerReleased ==
  ASSUME QueueInv, TableStep, NEW w \in Worker,
         exec' = [exec EXCEPT ![w] = Idle], request' = request,
         \A j \in Job : job[j].status = "absent" => job'[j].status = "absent"
  PROVE  QueueInv'
<1>1. ReleasedOrKept
  BY DEF QueueInv, QueueTypeOK, ReleasedOrKept, ExecRow, Idle, Working
<1>2. OneExecuteJob'
  BY NoNewExecuteJob
<1>3. QueueTypeOK'
  BY <1>1 DEF QueueInv, QueueTypeOK, TableStep, ReleasedOrKept
<1>4. RequestsKnow'
  BY DEF QueueInv, RequestsKnow
<1> QED BY <1>1, <1>2, <1>3, <1>4, WorkersKept DEF QueueInv, TableStep

-----------------------------------------------------------------------------
(* The invariant is inductive.                                              *)

LEMMA QueueInitInv == ASSUME QueueInit PROVE QueueInv
<1>1. RowInv(NoJob)
  BY BoundsAssumption DEF RowInv, NoJob, JobRow, JobStatus
<1>2. Idle \in ExecRow /\ NoRequest \in RequestRow /\ NoJob \in JobRow
  BY <1>1 DEF RowInv, Idle, ExecRow, NoRequest, RequestRow
<1>3. QueueTypeOK
  BY <1>2 DEF QueueInit, QueueTypeOK
<1>4. ClaimsRemembered /\ ScansExist
  BY DEF QueueInit, Idle, Working, ClaimsRemembered, ScansExist
<1>5. RequestsKnow
  BY DEF QueueInit, NoRequest, RequestsKnow
<1>6. OneExecuteJob
  BY DEF QueueInit, NoJob, OneExecuteJob
<1> QED BY <1>1, <1>3, <1>4, <1>5, <1>6 DEF QueueInit, QueueInv

LEMMA UnchangedWorkers == ASSUME QueueInv, exec' = exec PROVE ReleasedOrKept
BY DEF QueueInv, QueueTypeOK, ReleasedOrKept

\* A request enqueues: what CheckActive, InsertJob, EnqueueResume do.
LEMMA InsertStep ==
  ASSUME QueueInv, NEW r \in Run, NEW k \in Kind, ~KeyTaken(r, k), Insert(r, k)
  PROVE  TableStep /\ OneExecuteJob'
<1>1. PICK j \in Job : job[j].status = "absent" /\ job' = [job EXCEPT ![j] = NewJob(r, k)]
  BY DEF Insert
<1>2. job[j] = NoJob
  BY <1>1 DEF QueueInv, RowInv
<1>3. TableStep
  BY <1>1, <1>2, CreatedRow, OneRowStep
<1>4. \A i \in Job : job'[i] = IF i = j THEN NewJob(r, k) ELSE job[i]
  BY <1>1 DEF QueueInv, QueueTypeOK
<1>5. OneExecuteJob'
  BY <1>4, CreatedRow DEF OneExecuteJob, QueueInv, KeyTaken
<1> QED BY <1>3, <1>5

LEMMA ClientStepInv ==
  ASSUME QueueInv, NEW c \in Client, ClientStep(c)
  PROVE  QueueInv'
<1>1. exec' = exec
  BY DEF ClientStep, CheckActive, InsertJob, AbortRequest
<1>2. request' \in [Client -> RequestRow] /\ RequestsKnow'
  BY DEF ClientStep, CheckActive, InsertJob, AbortRequest, NoRequest, RequestRow,
         QueueInv, QueueTypeOK, RequestsKnow
<1>3. TableStep /\ OneExecuteJob'
  <2>1. CASE job' = job
    BY <2>1, NoRowStep DEF QueueInv, OneExecuteJob
  <2>2. CASE InsertJob(c) /\ ~KeyTaken(request[c].run, request[c].kind)
    BY <2>2, InsertStep DEF InsertJob, QueueInv, RequestsKnow
  <2> QED BY <2>1, <2>2 DEF ClientStep, CheckActive, InsertJob, AbortRequest
<1> QED
  BY <1>1, <1>2, <1>3, UnchangedWorkers, WorkersKept DEF QueueInv, QueueTypeOK, TableStep

LEMMA EnqueueResumeInv ==
  ASSUME QueueInv, NEW r \in Run, EnqueueResume(r)
  PROVE  QueueInv'
<1>1. TableStep /\ OneExecuteJob'
  <2>1. CASE job' = job
    BY <2>1, NoRowStep DEF QueueInv, OneExecuteJob
  <2>2. CASE Insert(r, "resume")
    BY <2>2, InsertStep DEF KeyTaken, Kind
  <2> QED BY <2>1, <2>2 DEF EnqueueResume
<1>2. exec' = exec /\ request' = request
  BY DEF EnqueueResume
<1> QED
  BY <1>1, <1>2, UnchangedWorkers, WorkersKept
  DEF QueueInv, QueueTypeOK, TableStep, RequestsKnow

LEMMA ExpireLeaseInv ==
  ASSUME QueueInv, NEW j \in Job, ExpireLease(j)
  PROVE  QueueInv'
<1> DEFINE row == [job[j] EXCEPT !.lease = "expired"]
<1>1. job' = [job EXCEPT ![j] = row] /\ job[j].status = "running" /\ RowInv(job[j])
  BY DEF ExpireLease, QueueInv
<1>2. RowInv(row) /\ Kept(job[j], row)
  BY <1>1, ExpiredRow
<1>3. TableStep
  BY <1>1, <1>2, OneRowStep
<1>4. \A i \in Job : job[i].status = "absent" => job'[i].status = "absent"
  BY <1>1 DEF QueueInv, QueueTypeOK
<1>5. exec' = exec /\ request' = request
  BY DEF ExpireLease
<1> QED
  BY <1>3, <1>4, <1>5, NoNewExecuteJob, UnchangedWorkers, WorkersKept
  DEF QueueInv, QueueTypeOK, TableStep, RequestsKnow

\* The scan: stale rows are running, so they exist and have been claimed.
LEMMA RecoverScanInv ==
  ASSUME QueueInv, NEW w \in Worker, RecoverScan(w)
  PROVE  QueueInv'
<1>1. /\ exec' = [exec EXCEPT ![w].pc = "scanned", ![w].stale = Stale]
      /\ job' = job /\ request' = request
  BY DEF RecoverScan
<1>2. Stale \subseteq Job
  BY DEF Stale
<1>3. \A j \in Stale : job[j].status # "absent" /\ job[j].attempts > 0
  BY DEF Stale, QueueInv, RowInv, JobRow
<1>4. exec' \in [Worker -> ExecRow]
  BY <1>1, <1>2 DEF QueueInv, QueueTypeOK, ExecRow
<1>5. \A x \in Worker : exec'[x].stale = IF x = w THEN Stale ELSE exec[x].stale
  BY <1>1 DEF QueueInv, QueueTypeOK, ExecRow
<1>6. \A x \in Worker : exec'[x].pc \in Working => exec'[x] = exec[x]
  BY <1>1 DEF QueueInv, QueueTypeOK, ExecRow, Working
<1>7. ScansExist'
  BY <1>1, <1>3, <1>5 DEF QueueInv, ScansExist
<1>8. ClaimsRemembered'
  BY <1>1, <1>6 DEF QueueInv, ClaimsRemembered
<1> QED
  BY <1>1, <1>4, <1>7, <1>8
  DEF QueueInv, QueueTypeOK, OneExecuteJob, RequestsKnow

LEMMA RecoverCommitInv ==
  ASSUME QueueInv, NEW w \in Worker, RecoverCommit(w) \/ RecoverRollback(w)
  PROVE  QueueInv'
<1>1. /\ exec' = [exec EXCEPT ![w].pc = "polled", ![w].stale = {}]
      /\ request' = request
  BY DEF RecoverCommit, RecoverRollback
<1>2. ReleasedOrKept
  BY <1>1 DEF QueueInv, QueueTypeOK, ReleasedOrKept, ExecRow, Working
<1>3. TableStep /\ \A j \in Job : job[j].status = "absent" => job'[j].status = "absent"
  <2>1. CASE RecoverCommit(w)
    <3>1. \A j \in Job :
            job'[j] = IF j \in exec[w].stale THEN Returned(job[j]) ELSE job[j]
      BY <2>1 DEF RecoverCommit, Recovered
    <3>2. \A j \in exec[w].stale : job[j].status # "absent"
      BY DEF QueueInv, ScansExist
    <3>3. \A j \in Job : RowInv(job'[j]) /\ Kept(job[j], job'[j])
      BY <3>1, <3>2, ReturnedRow, SameRow DEF QueueInv
    <3>4. job' \in [Job -> JobRow]
      <4>1. job' = [j \in Job |-> job'[j]]
        BY <2>1 DEF RecoverCommit, Recovered
      <4> QED BY <3>3, <4>1 DEF RowInv
    <3> QED BY <3>1, <3>2, <3>3, <3>4 DEF TableStep
  <2>2. CASE RecoverRollback(w)
    BY <2>2, NoRowStep DEF RecoverRollback
  <2> QED BY <2>1, <2>2
<1> QED
  BY <1>1, <1>2, <1>3, NoNewExecuteJob, WorkersKept
  DEF QueueInv, QueueTypeOK, ReleasedOrKept, TableStep, RequestsKnow

\* The claim draws a token above those all other workers hold for the job.
LEMMA ClaimAndStartInv ==
  ASSUME QueueInv, NEW w \in Worker, NEW j \in Job, ClaimAndStart(w, j)
  PROVE  QueueInv'
<1> DEFINE held == [pc |-> "executing", job |-> j, token |-> job[j].attempts + 1,
                    fresh |-> FALSE, stale |-> {}]
<1>1. /\ job[j].status \in ActiveStatus
      /\ job' = [job EXCEPT ![j] = Claimed(job[j])]
      /\ exec' = [exec EXCEPT ![w] = held]
  BY DEF ClaimAndStart, NextFor, Claimable, Active
<1>2. /\ RowInv(Claimed(job[j])) /\ Kept(job[j], Claimed(job[j]))
      /\ Claimed(job[j]).attempts = job[j].attempts + 1
  BY <1>1, ClaimedRow DEF QueueInv
<1>3. TableStep
  BY <1>1, <1>2, OneRowStep
<1>4. request' = request
  BY DEF ClaimAndStart
<1>5. /\ \A i \in Job : job[i].attempts \in Nat /\ job'[i].attempts >= job[i].attempts
      /\ job'[j].attempts = job[j].attempts + 1
      /\ \A i \in Job : job'[i].attempts \in Nat
  BY <1>1, <1>2, <1>3 DEF QueueInv, QueueTypeOK, JobRow, TableStep, Kept
<1>6. \A x \in Worker : exec'[x] = IF x = w THEN held ELSE exec[x]
  BY <1>1 DEF QueueInv, QueueTypeOK
<1>7. held \in ExecRow
  BY <1>5 DEF ExecRow, Working
<1>8. QueueTypeOK'
  BY <1>1, <1>3, <1>4, <1>7 DEF QueueInv, QueueTypeOK, TableStep
<1>9. \A i \in Job : job[i].status # "absent" => job'[i].status # "absent"
  BY <1>3 DEF TableStep, Kept
<1>10. job[j].status # "absent"
  BY <1>1 DEF ActiveStatus
<1>11. ClaimsRemembered'
  <2> SUFFICES ASSUME NEW x \in Worker, exec'[x].pc \in Working
               PROVE  /\ exec'[x].job \in Job
                      /\ job'[exec'[x].job].status # "absent"
                      /\ exec'[x].token \in 1..job'[exec'[x].job].attempts
    BY DEF ClaimsRemembered
  <2>1. CASE x = w
    BY <2>1, <1>5, <1>6, <1>9, <1>10
  <2>2. CASE x # w
    <3>1. /\ exec[x].job \in Job /\ job[exec[x].job].status # "absent"
          /\ exec[x].token \in 1..job[exec[x].job].attempts
      BY <2>2, <1>6 DEF QueueInv, ClaimsRemembered
    <3> QED BY <3>1, <2>2, <1>5, <1>6, <1>9
  <2> QED BY <2>1, <2>2
<1>12. ScansExist'
  <2> SUFFICES ASSUME NEW x \in Worker, NEW i \in exec'[x].stale
               PROVE  job'[i].status # "absent" /\ job'[i].attempts > 0
    BY DEF ScansExist
  <2>1. i \in exec[x].stale /\ i \in Job
    BY <1>6 DEF QueueInv, QueueTypeOK, ExecRow
  <2>2. job[i].status # "absent" /\ job[i].attempts > 0
    BY <2>1 DEF QueueInv, ScansExist
  <2> QED BY <2>1, <2>2, <1>5, <1>9
<1>13. OneExecuteJob'
  <2>1. \A i \in Job : job[i].status = "absent" => job'[i].status = "absent"
    BY <1>1, <1>10 DEF QueueInv, QueueTypeOK
  <2> QED BY <2>1, <1>3, NoNewExecuteJob
<1> QED
  BY <1>3, <1>4, <1>8, <1>11, <1>12, <1>13
  DEF QueueInv, RequestsKnow, TableStep

LEMMA ClaimAndDiscardInv ==
  ASSUME QueueInv, NEW w \in Worker, NEW j \in Job, ClaimAndDiscard(w, j)
  PROVE  QueueInv'
<1>1. /\ job[j].status \in ActiveStatus
      /\ job' = [job EXCEPT ![j] = Completed(Claimed(job[j]))]
  BY DEF ClaimAndDiscard, NextFor, Claimable, Active
<1> DEFINE claim == Claimed(job[j])
<1>2. /\ RowInv(claim) /\ Kept(job[j], claim)
      /\ claim.attempts = job[j].attempts + 1
  BY <1>1, ClaimedRow DEF QueueInv
<1>3. claim.status # "absent" /\ claim.attempts > 0
  BY <1>1, <1>2 DEF QueueInv, QueueTypeOK, JobRow, Kept, ActiveStatus
<1>4. RowInv(Completed(claim)) /\ Kept(claim, Completed(claim))
  BY <1>2, <1>3, CompletedRow
<1>5. Kept(job[j], Completed(claim))
  BY <1>2, <1>4 DEF Kept, RowInv, JobRow, QueueInv, QueueTypeOK
<1>6. TableStep
  BY <1>1, <1>4, <1>5, OneRowStep
<1>7. \A i \in Job : job[i].status = "absent" => job'[i].status = "absent"
  BY <1>1 DEF QueueInv, QueueTypeOK, ActiveStatus
<1> QED BY <1>6, <1>7, WorkerReleased DEF ClaimAndDiscard

\* Completing and failing, whoever does it: the row exists and was claimed.
LEMMA SettleInv ==
  ASSUME QueueInv, NEW w \in Worker, CompleteWrite(w) \/ FailWrite(w)
  PROVE  QueueInv'
<1> DEFINE j == exec[w].job
<1>1. /\ j \in Job /\ RowInv(job[j]) /\ job[j].status # "absent"
      /\ job[j].attempts > 0 /\ exec[w].token \in 1..job[j].attempts
  BY DEF CompleteWrite, FailWrite, Working, QueueInv, QueueTypeOK, JobRow, ClaimsRemembered
<1>2. PICK row : /\ job' = [job EXCEPT ![j] = row]
                 /\ RowInv(row) /\ Kept(job[j], row)
  BY <1>1, CompletedRow, FailedRow DEF CompleteWrite, FailWrite
<1>3. TableStep
  BY <1>1, <1>2, OneRowStep
<1>4. \A i \in Job : job[i].status = "absent" => job'[i].status = "absent"
  BY <1>1, <1>2 DEF QueueInv, QueueTypeOK
<1> QED BY <1>3, <1>4, WorkerReleased DEF CompleteWrite, FailWrite

\* A worker goes on with the job it has and writes nothing.
LEMMA GoesOnInv ==
  ASSUME QueueInv, NEW w \in Worker, RefreshRow(w) \/ CompleteCheck(w) \/ FailCheck(w)
  PROVE  QueueInv'
<1>1. job' = job /\ request' = request /\ exec[w].pc \in Working
  BY DEF RefreshRow, CompleteCheck, FailCheck, Holds, Working
<1>2. \/ exec' = [exec EXCEPT ![w].fresh = TRUE]
      \/ exec' = [exec EXCEPT ![w].pc = "completing"]
      \/ exec' = [exec EXCEPT ![w].pc = "failing"]
  BY DEF RefreshRow, CompleteCheck, FailCheck
<1>3. ReleasedOrKept
  <2>1. CASE exec' = [exec EXCEPT ![w].fresh = TRUE]
    BY <1>1, <2>1 DEF QueueInv, QueueTypeOK, ReleasedOrKept, ExecRow
  <2>2. CASE exec' = [exec EXCEPT ![w].pc = "completing"]
    BY <1>1, <2>2 DEF QueueInv, QueueTypeOK, ReleasedOrKept, ExecRow, Working
  <2>3. CASE exec' = [exec EXCEPT ![w].pc = "failing"]
    BY <1>1, <2>3 DEF QueueInv, QueueTypeOK, ReleasedOrKept, ExecRow, Working
  <2> QED BY <1>2, <2>1, <2>2, <2>3
<1> QED
  BY <1>1, <1>3, NoRowStep, WorkersKept
  DEF QueueInv, QueueTypeOK, ReleasedOrKept, TableStep, RequestsKnow, OneExecuteJob

\* A worker that finds no job, loses its lease or dies writes nothing.
LEMMA NothingWrittenInv ==
  ASSUME QueueInv, NEW w \in Worker, ClaimNothing(w) \/ LoseLease(w) \/ Crash(w)
  PROVE  QueueInv'
BY NoRowStep, WorkerReleased DEF ClaimNothing, LoseLease, Crash

LEMMA QueueStepInv == ASSUME QueueInv, [QueueNext]_queueVars PROVE QueueInv'
<1>1. CASE UNCHANGED queueVars
  BY <1>1 DEF queueVars, QueueInv, QueueTypeOK, ClaimsRemembered,
              ScansExist, RequestsKnow, OneExecuteJob
<1>2. ASSUME NEW c \in Client, ClientStep(c) PROVE QueueInv'
  BY <1>2, ClientStepInv
<1>3. ASSUME NEW w \in Worker, WorkerStep(w) \/ Crash(w) PROVE QueueInv'
  BY <1>3, RecoverScanInv, RecoverCommitInv, ClaimAndStartInv, ClaimAndDiscardInv,
     SettleInv, GoesOnInv, NothingWrittenInv DEF WorkerStep
<1>4. ASSUME NEW r \in Run, EnqueueResume(r) PROVE QueueInv'
  BY <1>4, EnqueueResumeInv
<1>5. ASSUME NEW j \in Job, ExpireLease(j) PROVE QueueInv'
  BY <1>5, ExpireLeaseInv
<1> QED BY <1>1, <1>2, <1>3, <1>4, <1>5 DEF QueueNext

\* The invariant holds in every reachable state of the queue.
THEOREM QueueInvariant == QueueSpec => []QueueInv
BY QueueInitInv, QueueStepInv, PTL DEF QueueSpec

-----------------------------------------------------------------------------
(* What the invariant gives.                                                *)

\* Every row, execution and request is well formed in every reachable state.
THEOREM QueueTypeCorrect == QueueSpec => []QueueTypeOK
BY QueueInvariant, PTL DEF QueueInv

\* Claiming, expiry, recovery and failure never strand a job: one that is not
\* finished is open to claim_next_job or under a lease that can expire.
THEOREM NothingStranded == QueueSpec => []NoStrandedJob
<1>1. QueueInv => NoStrandedJob
  BY DEF QueueInv, RowInv, NoStrandedJob
<1> QED BY <1>1, QueueInvariant, PTL

\* Whose token a step can withdraw: it writes another token into the row.
LEMMA Withdrawn ==
  ASSUME NEW w \in Worker, NEW j \in Job,
         Holds(w, j), exec'[w] = exec[w], ~Holds(w, j)'
  PROVE  job'[j].token # job[j].token
BY DEF Holds

\* The row of a held job exists and has a token.
LEMMA HeldRow ==
  ASSUME QueueInv, NEW w \in Worker, NEW j \in Job, Holds(w, j)
  PROVE  /\ job[j].status # "absent"
         /\ job[j].token # 0
         /\ exec[w].pc \in Working
BY DEF QueueInv, QueueTypeOK, ExecRow, ClaimsRemembered, Holds

\* A held job is claimed again only when its lease is over.
LEMMA ClaimedOver ==
  ASSUME QueueInv, NEW w \in Worker, NEW j \in Job, Holds(w, j), Claimable(j)
  PROVE  job[j].lease = "expired"
BY HeldRow DEF QueueInv, RowInv, Claimable, Active, ActiveStatus

LEMMA HeldThroughStep ==
  ASSUME QueueInv, [QueueNext]_queueVars, NEW w \in Worker, NEW j \in Job,
         Holds(w, j), exec'[w] = exec[w], ~Holds(w, j)'
  PROVE  job[j].lease = "expired" \/ \E x \in Worker \ {w} : DecidedBefore(x, j)
<1>1. /\ job'[j].token # job[j].token
      /\ job[j].status # "absent"
      /\ exec[w].pc \in Working
  BY Withdrawn, HeldRow
<1>2. DOMAIN job = Job /\ DOMAIN exec = Worker
  BY DEF QueueInv, QueueTypeOK
<1>3. ASSUME NEW r, NEW k, Insert(r, k) PROVE FALSE
  BY <1>1, <1>2, <1>3 DEF Insert
<1>4. ASSUME NEW x \in Worker, RecoverCommit(x) PROVE DecidedBefore(x, j) /\ x # w
  BY <1>1, <1>4 DEF RecoverCommit, Recovered, DecidedBefore, Working
<1>5. ASSUME NEW x \in Worker, NEW i \in Job, ClaimAndStart(x, i) \/ ClaimAndDiscard(x, i)
      PROVE  job[j].lease = "expired"
  <2>1. job' = [job EXCEPT ![i] = job'[i]] /\ Claimable(i)
    BY <1>2, <1>5 DEF ClaimAndStart, ClaimAndDiscard, NextFor
  <2>2. i = j
    BY <1>1, <1>2, <2>1
  <2> QED BY <2>1, <2>2, ClaimedOver
<1>6. ASSUME NEW x \in Worker, CompleteWrite(x) PROVE FALSE
  <2>1. CASE exec[x].job = j
    <3>1. job'[j] = [job[j] EXCEPT !.status = "completed"]
      BY <1>2, <1>6, <2>1 DEF CompleteWrite, Completed
    <3>2. job[j] \in JobRow
      BY DEF QueueInv, QueueTypeOK
    <3> QED BY <1>1, <3>1, <3>2 DEF JobRow
  <2>2. CASE exec[x].job # j
    BY <1>1, <1>2, <1>6, <2>2 DEF CompleteWrite
  <2> QED BY <2>1, <2>2
<1>7. ASSUME NEW x \in Worker, FailWrite(x) PROVE DecidedBefore(x, j) /\ x # w
  <2>1. exec[x].job = j
    BY <1>1, <1>2, <1>7 DEF FailWrite
  <2>2. exec'[x] = Idle /\ exec[x].pc = "failing"
    BY <1>2, <1>7 DEF FailWrite
  <2> QED BY <2>1, <2>2 DEF DecidedBefore, Idle
<1>8. ASSUME NEW i \in Job, ExpireLease(i) PROVE FALSE
  <2>1. CASE i = j
    <3>1. job'[j] = [job[j] EXCEPT !.lease = "expired"]
      BY <1>2, <1>8, <2>1 DEF ExpireLease
    <3>2. job[j] \in JobRow
      BY DEF QueueInv, QueueTypeOK
    <3> QED BY <1>1, <3>1, <3>2 DEF JobRow
  <2>2. CASE i # j
    BY <1>1, <1>2, <1>8, <2>2 DEF ExpireLease
  <2> QED BY <2>1, <2>2
<1>9. job' # job
  BY <1>1
<1>10. ASSUME NEW c \in Client, ClientStep(c) PROVE FALSE
  BY <1>3, <1>9, <1>10 DEF ClientStep, CheckActive, InsertJob, AbortRequest
<1>11. ASSUME NEW r \in Run, EnqueueResume(r) PROVE FALSE
  BY <1>3, <1>9, <1>11 DEF EnqueueResume
<1>12. ASSUME NEW x \in Worker, WorkerStep(x) \/ Crash(x)
       PROVE  job[j].lease = "expired" \/ (DecidedBefore(x, j) /\ x # w)
  BY <1>4, <1>5, <1>6, <1>7, <1>9, <1>12
  DEF WorkerStep, RecoverScan, RecoverRollback, ClaimNothing, RefreshRow, CompleteCheck,
      FailCheck, LoseLease, Crash
<1> QED BY <1>8, <1>9, <1>10, <1>11, <1>12 DEF QueueNext, queueVars

\* Claims, recoveries, completions and failures of any number of workers take a
\* job from its holder only when its lease is over, or by a recovery or a
\* failure whose decision the claim has overtaken.
THEOREM HoldersKept == QueueSpec => HeldUntilLeaseEnds
<1>1. QueueInv /\ [QueueNext]_queueVars =>
        [\A w \in Worker, j \in Job :
           Holds(w, j) /\ exec'[w] = exec[w] /\ ~Holds(w, j)' =>
             job[j].lease = "expired" \/ \E x \in Worker \ {w} : DecidedBefore(x, j)]_queueVars
  BY HeldThroughStep
<1> QED BY <1>1, QueueInvariant, PTL DEF QueueSpec, HeldUntilLeaseEnds

\* However many execute requests race between check and insert, the idempotency
\* key leaves a run with one execute job.
THEOREM ExecuteJobUnique == QueueSpec => []OneExecuteJob
BY QueueInvariant, PTL DEF QueueInv

\* fail_job gives a job up only when its claims are used up.
THEOREM FailedAfterMaxAttempts == QueueSpec => []FailedOnlyAfterMaxAttempts
<1>1. QueueInv => FailedOnlyAfterMaxAttempts
  BY DEF QueueInv, RowInv, FailedOnlyAfterMaxAttempts
<1> QED BY <1>1, QueueInvariant, PTL

-----------------------------------------------------------------------------
(* The queue implements at-least-once delivery.                             *)

\* A row that keeps its phase and claims does not show in the delivery.
PhaseOf(row) == IF row.status = "absent" THEN "absent"
                ELSE IF row.status \in ActiveStatus THEN "open" ELSE "settled"

LEMMA BarOfRow ==
  /\ phaseBar = [j \in Job |-> PhaseOf(job[j])]
  /\ deliveriesBar = [j \in Job |-> job[j].attempts]
BY DEF phaseBar, deliveriesBar, PhaseOf, Active

LEMMA BarOfRowPrimed ==
  /\ phaseBar' = [j \in Job |-> PhaseOf(job'[j])]
  /\ deliveriesBar' = [j \in Job |-> job'[j].attempts]
BY DEF phaseBar, deliveriesBar, PhaseOf, Active

\* One changed row changes the delivery at one item.
LEMMA OneRowBar ==
  ASSUME QueueInv, NEW j \in Job, NEW row, job' = [job EXCEPT ![j] = row]
  PROVE  /\ phaseBar' = [phaseBar EXCEPT ![j] = PhaseOf(row)]
         /\ deliveriesBar' = [deliveriesBar EXCEPT ![j] = row.attempts]
<1>1. \A i \in Job : job'[i] = IF i = j THEN row ELSE job[i]
  BY DEF QueueInv, QueueTypeOK
<1>2. /\ phaseBar' = [i \in Job |-> PhaseOf(IF i = j THEN row ELSE job[i])]
      /\ deliveriesBar' = [i \in Job |-> (IF i = j THEN row ELSE job[i]).attempts]
  BY <1>1, BarOfRowPrimed
<1>3. /\ DOMAIN phaseBar = Job /\ DOMAIN deliveriesBar = Job
      /\ \A i \in Job : phaseBar[i] = PhaseOf(job[i]) /\ deliveriesBar[i] = job[i].attempts
  BY BarOfRow
<1> QED BY <1>2, <1>3

LEMMA SameTableBar ==
  ASSUME job' = job PROVE UNCHANGED <<phaseBar, deliveriesBar>>
BY BarOfRow, BarOfRowPrimed

LEMMA InsertDelivers ==
  ASSUME QueueInv, NEW r \in Run, NEW k \in Kind, Insert(r, k)
  PROVE  Delivery!Next
<1>1. PICK j \in Job : job[j].status = "absent" /\ job' = [job EXCEPT ![j] = NewJob(r, k)]
  BY DEF Insert
<1>2. job[j].attempts = 0 /\ phaseBar[j] = "absent" /\ deliveriesBar[j] = 0
  BY <1>1, BarOfRow DEF QueueInv, RowInv, NoJob, PhaseOf
<1>3. PhaseOf(NewJob(r, k)) = "open" /\ NewJob(r, k).attempts = 0
  BY DEF PhaseOf, NewJob, NoJob, ActiveStatus
<1>4. /\ phaseBar' = [phaseBar EXCEPT ![j] = "open"]
      /\ deliveriesBar' = [deliveriesBar EXCEPT ![j] = 0]
  BY <1>1, <1>3, OneRowBar
<1>5. deliveriesBar' = deliveriesBar
  BY <1>2, <1>4, BarOfRow
<1>6. Delivery!Submit(j)
  BY <1>2, <1>4, <1>5 DEF Delivery!Submit
<1> QED BY <1>6 DEF Delivery!Next

LEMMA ClaimDelivers ==
  ASSUME QueueInv, NEW j \in Job, job[j].status \in ActiveStatus,
         job' = [job EXCEPT ![j] = Claimed(job[j])]
  PROVE  Delivery!Next
<1>1. job[j] \in JobRow
  BY DEF QueueInv, QueueTypeOK
<1> PICK row : row = Claimed(job[j])
  OBVIOUS
<1>2. /\ row.attempts = job[j].attempts + 1
      /\ PhaseOf(row) = "open" /\ phaseBar[j] = "open"
      /\ deliveriesBar[j] = job[j].attempts
      /\ job' = [job EXCEPT ![j] = row]
  BY <1>1, BarOfRow DEF Claimed, JobRow, PhaseOf, ActiveStatus
<1>3. /\ phaseBar' = [phaseBar EXCEPT ![j] = "open"]
      /\ deliveriesBar' = [deliveriesBar EXCEPT ![j] = deliveriesBar[j] + 1]
  <2>1. /\ phaseBar' = [phaseBar EXCEPT ![j] = PhaseOf(row)]
        /\ deliveriesBar' = [deliveriesBar EXCEPT ![j] = row.attempts]
    BY <1>2, OneRowBar
  <2> QED BY <1>2, <2>1
<1>4. phaseBar' = phaseBar
  BY <1>2, <1>3, BarOfRow
<1>5. Delivery!Deliver(j)
  BY <1>2, <1>3, <1>4 DEF Delivery!Deliver
<1> QED BY <1>5 DEF Delivery!Next

LEMMA DiscardDelivers ==
  ASSUME QueueInv, NEW j \in Job, job[j].status \in ActiveStatus,
         job' = [job EXCEPT ![j] = Completed(Claimed(job[j]))]
  PROVE  Delivery!Next
<1> PICK row : row = Completed(Claimed(job[j]))
  OBVIOUS
<1>1. job[j] \in JobRow
  BY DEF QueueInv, QueueTypeOK
<1>2. /\ row.attempts = job[j].attempts + 1
      /\ PhaseOf(row) = "settled" /\ phaseBar[j] = "open"
      /\ deliveriesBar[j] = job[j].attempts
      /\ job' = [job EXCEPT ![j] = row]
  BY <1>1, BarOfRow DEF Claimed, Completed, JobRow, PhaseOf, ActiveStatus
<1>3. /\ phaseBar' = [phaseBar EXCEPT ![j] = "settled"]
      /\ deliveriesBar' = [deliveriesBar EXCEPT ![j] = deliveriesBar[j] + 1]
  <2>1. /\ phaseBar' = [phaseBar EXCEPT ![j] = PhaseOf(row)]
        /\ deliveriesBar' = [deliveriesBar EXCEPT ![j] = row.attempts]
    BY <1>2, OneRowBar
  <2> QED BY <1>2, <2>1
<1>4. Delivery!DeliverMoot(j)
  BY <1>2, <1>3 DEF Delivery!DeliverMoot
<1> QED BY <1>4 DEF Delivery!Next

\* A row that keeps its claims is settled, stays as it was, or is reopened.
LEMMA SettleDelivers ==
  ASSUME QueueInv, NEW j \in Job, NEW row,
         job[j].status # "absent", job[j].attempts > 0,
         row.status # "absent", row.attempts = job[j].attempts,
         job' = [job EXCEPT ![j] = row]
  PROVE  [Delivery!Next]_<<phaseBar, deliveriesBar>>
<1>1. /\ phaseBar' = [phaseBar EXCEPT ![j] = PhaseOf(row)]
      /\ deliveriesBar' = [deliveriesBar EXCEPT ![j] = row.attempts]
  BY OneRowBar
<1>2. deliveriesBar' = deliveriesBar /\ deliveriesBar[j] > 0
  BY <1>1, BarOfRow
<1>3. phaseBar[j] \in {"open", "settled"} /\ PhaseOf(row) \in {"open", "settled"}
  BY BarOfRow DEF PhaseOf
<1>4. CASE PhaseOf(row) = phaseBar[j]
  <2>1. phaseBar' = phaseBar
    BY <1>1, <1>4, BarOfRow
  <2> QED BY <1>2, <2>1
<1>5. CASE phaseBar[j] = "open" /\ PhaseOf(row) = "settled"
  <2>1. Delivery!Settle(j)
    BY <1>1, <1>2, <1>5 DEF Delivery!Settle
  <2> QED BY <2>1 DEF Delivery!Next
<1>6. CASE phaseBar[j] = "settled" /\ PhaseOf(row) = "open"
  <2>1. phaseBar' = [i \in Job |-> IF i \in {j} THEN "open" ELSE phaseBar[i]]
    BY <1>1, <1>6, BarOfRow
  <2>2. Delivery!Reopen({j})
    BY <1>2, <1>6, <2>1 DEF Delivery!Reopen
  <2> QED BY <2>2 DEF Delivery!Next
<1> QED BY <1>3, <1>4, <1>5, <1>6

\* A recovery reopens the rows of its scan that were settled since.
LEMMA RecoverDelivers ==
  ASSUME QueueInv, NEW w \in Worker, RecoverCommit(w)
  PROVE  Delivery!Next
<1> DEFINE S == {j \in exec[w].stale : phaseBar[j] = "settled"}
<1>1. S \in SUBSET Job
  BY DEF QueueInv, QueueTypeOK, ExecRow
<1>2. \A j \in Job :
        job'[j] = IF j \in exec[w].stale THEN Returned(job[j]) ELSE job[j]
  BY DEF RecoverCommit, Recovered
<1>3. \A j \in Job : /\ PhaseOf(Returned(job[j])) = "open"
                     /\ Returned(job[j]).attempts = job[j].attempts
  BY DEF Returned, PhaseOf, ActiveStatus, QueueInv, QueueTypeOK, JobRow
<1>4. \A j \in exec[w].stale : PhaseOf(job[j]) # "absent"
  BY DEF QueueInv, ScansExist, PhaseOf, ActiveStatus
<1>5. phaseBar' = [j \in Job |-> IF j \in S THEN "open" ELSE phaseBar[j]]
  <2>1. \A j \in Job : PhaseOf(job'[j]) = IF j \in S THEN "open" ELSE phaseBar[j]
    BY <1>2, <1>3, <1>4, BarOfRow DEF PhaseOf
  <2> QED BY <2>1, BarOfRowPrimed
<1>6. deliveriesBar' = deliveriesBar
  BY <1>2, <1>3, BarOfRow, BarOfRowPrimed
<1>7. Delivery!Reopen(S)
  BY <1>5, <1>6 DEF Delivery!Reopen
<1> QED BY <1>1, <1>7 DEF Delivery!Next

LEMMA DeliveryStep ==
  ASSUME QueueInv, [QueueNext]_queueVars
  PROVE  [Delivery!Next]_<<phaseBar, deliveriesBar>>
<1>1. CASE job' = job
  BY <1>1, SameTableBar
<1>2. ASSUME NEW r \in Run, NEW k \in Kind, Insert(r, k) PROVE Delivery!Next
  BY <1>2, InsertDelivers
<1>3. ASSUME NEW c \in Client, InsertJob(c), job' # job PROVE Delivery!Next
  BY <1>2, <1>3 DEF InsertJob, QueueInv, RequestsKnow
<1>4. ASSUME NEW r \in Run, EnqueueResume(r), job' # job PROVE Delivery!Next
  BY <1>2, <1>4 DEF EnqueueResume, Kind
<1>5. ASSUME NEW w \in Worker, NEW j \in Job, ClaimAndStart(w, j) PROVE Delivery!Next
  BY <1>5, ClaimDelivers DEF ClaimAndStart, NextFor, Claimable, Active
<1>6. ASSUME NEW w \in Worker, NEW j \in Job, ClaimAndDiscard(w, j) PROVE Delivery!Next
  BY <1>6, DiscardDelivers DEF ClaimAndDiscard, NextFor, Claimable, Active
<1>7. ASSUME NEW w \in Worker, CompleteWrite(w) \/ FailWrite(w)
      PROVE  [Delivery!Next]_<<phaseBar, deliveriesBar>>
  <2> DEFINE j == exec[w].job
             n == exec[w].token
  <2>1. /\ j \in Job /\ job[j] \in JobRow
        /\ job[j].status # "absent" /\ job[j].attempts > 0
    BY <1>7 DEF CompleteWrite, FailWrite, Working, QueueInv, QueueTypeOK, JobRow,
                ClaimsRemembered
  <2>2. /\ Completed(job[j]).status # "absent"
        /\ Completed(job[j]).attempts = job[j].attempts
        /\ Failed(job[j], n).status # "absent"
        /\ Failed(job[j], n).attempts = job[j].attempts
    BY <2>1 DEF Completed, Failed, Returned, JobRow
  <2> QED BY <1>7, <2>1, <2>2, SettleDelivers DEF CompleteWrite, FailWrite
<1>8. ASSUME NEW j \in Job, ExpireLease(j)
      PROVE  [Delivery!Next]_<<phaseBar, deliveriesBar>>
  <2> DEFINE row == [job[j] EXCEPT !.lease = "expired"]
  <2>1. job' = [job EXCEPT ![j] = row] /\ job[j].status = "running" /\ RowInv(job[j])
    BY <1>8 DEF ExpireLease, QueueInv
  <2>2. row.status = "running" /\ row.attempts = job[j].attempts /\ job[j].attempts > 0
    BY <2>1 DEF RowInv, JobRow
  <2> QED BY <2>1, <2>2, SettleDelivers
<1>9. ASSUME NEW w \in Worker, RecoverCommit(w) PROVE Delivery!Next
  BY <1>9, RecoverDelivers
<1> QED
  BY <1>1, <1>3, <1>4, <1>5, <1>6, <1>7, <1>8, <1>9
  DEF QueueNext, queueVars, ClientStep, CheckActive, AbortRequest, WorkerStep, RecoverScan,
      RecoverRollback, ClaimNothing, RefreshRow, CompleteCheck, FailCheck, LoseLease, Crash

\* Every job is delivered to a worker before it is settled, a settled job is
\* delivered again only after a recovery reopened it, and none is forgotten.
THEOREM QueueImplementsDelivery == QueueSpec => DeliversAtLeastOnce
<1>1. QueueInit => Delivery!Init
  BY DEF QueueInit, NoJob, Delivery!Init, phaseBar, deliveriesBar
<1>2. QueueInv /\ [QueueNext]_queueVars => [Delivery!Next]_<<phaseBar, deliveriesBar>>
  BY DeliveryStep
<1> QED
  BY <1>1, <1>2, QueueInvariant, PTL
  DEF QueueSpec, DeliversAtLeastOnce, Delivery!Spec, Delivery!deliveryVars
=============================================================================
