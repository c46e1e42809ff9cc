------------------------------ MODULE Monitors ------------------------------
(***************************************************************************)
(* Scheduled research (monitors) of a hosted instance: the dispatcher that *)
(* every worker loop runs, the API that edits monitors and runs one now,   *)
(* and the requests that create runs next to them.  What they share are    *)
(* the monitor rows, the runs, and the quota of active runs per owner.     *)
(*                                                                         *)
(* A dispatch is one database transaction.  It locks the rows it claims    *)
(* (FOR UPDATE SKIP LOCKED), takes one advisory lock per owner, and shows  *)
(* nothing to others before it commits; the lease columns it writes are    *)
(* cleared in the same transaction, so the row lock is the only lease      *)
(* anyone meets.                                                           *)
(*                                                                         *)
(* There is no clock: next_run_at matters only through the set of due      *)
(* monitors and their order.  Time passing appends to the agenda; to write *)
(* a next_run_at in the future takes a monitor off it.                     *)
(***************************************************************************)
EXTENDS Naturals, FiniteSets, SequencesExt

CONSTANTS
  Monitor, Owner, Worker, Client, None,
  OwnerOf,       \* owner_principal_id of each monitor, None for a legacy row
  Batch,         \* LIMIT of claim_due_monitors
  RunQuota,      \* hosted_max_concurrent_runs_per_user
  MonitorQuota,  \* hosted_max_monitors_per_user
  MaxCalls       \* bound: requests users make and faults that happen

ASSUME MonitorsAssumption ==
  /\ IsFiniteSet(Monitor)
  /\ OwnerOf \in [Monitor -> Owner \cup {None}]
  /\ None \notin Monitor \cup Owner
  /\ Worker \cap Client = {}
  /\ Batch \in Nat \ {0}
  /\ {RunQuota, MonitorQuota, MaxCalls} \subseteq Nat

VARIABLES
  monitor,  \* the table research_monitors: absent, disabled or enabled
  agenda,   \* the monitors whose next_run_at has come, in that order
  runs,     \* how many committed runs of each kind are active
  late,     \* how many have ended that an executor or a decision may bring back
  tx,       \* the open transaction of each process
  calls     \* how many requests and faults there have been

vars == <<monitor, agenda, runs, late, tx, calls>>

Process == Worker \cup Client
Monitors(o) == {m \in Monitor : OwnerOf[m] = o /\ monitor[m] # "absent"}

\* Runs differ by what they count for.  checked: created behind the owner's
\* quota lock, as every run of a monitor is, and not ended since.
MonitorRun(m) == [owner |-> OwnerOf[m], monitor |-> m, checked |-> TRUE]
UserRun(o, isChecked) == [owner |-> o, monitor |-> None, checked |-> isChecked]

\* A run that has ended and is active again took its place without the lock.
Returned(k) == [owner |-> k.owner, monitor |-> k.monitor, checked |-> FALSE]

Kind == {MonitorRun(m) : m \in Monitor} \cup {Returned(MonitorRun(m)) : m \in Monitor}
          \cup {UserRun(o, c) : o \in Owner, c \in BOOLEAN}

\* todo: claimed and not yet looked at; later: given a next_run_at in the
\* future; made: the runs it has created; rows and keys: the row locks and the
\* advisory locks it holds.
TxRow == [pc: {"idle", "bumping", "claiming", "dispatching", "inserting"},
          target: Monitor \cup {None}, todo: Seq(Monitor), later: SUBSET Monitor,
          made: SUBSET Kind, rows: SUBSET Monitor, keys: SUBSET Owner]

NoTx == [pc |-> "idle", target |-> None, todo |-> <<>>, later |-> {},
         made |-> {}, rows |-> {}, keys |-> {}]

MonitorsTypeOK ==
  /\ monitor \in [Monitor -> {"absent", "disabled", "enabled"}]
  /\ agenda \in Seq(Monitor)
  /\ runs \in [Kind -> Nat]
  /\ late \in [Kind -> Nat]
  /\ tx \in [Process -> TxRow]
  /\ calls \in 0..MaxCalls

Init ==
  /\ monitor \in [Monitor -> {"absent", "enabled"}]
  /\ \A o \in Owner : Cardinality(Monitors(o)) <= MonitorQuota
  /\ agenda = <<>>
  /\ runs = [k \in Kind |-> 0]
  /\ late = [k \in Kind |-> 0]
  /\ tx = [p \in Process |-> NoTx]
  /\ calls = 0

-----------------------------------------------------------------------------
(* Helpers.                                                                *)

Due == ToSet(agenda)

\* The monitors of an agenda that are not among ms, in their order.
Without(ms, queue) ==
  LET kept[i \in 0..Len(queue)] ==
        IF i = 0 THEN <<>>
        ELSE IF queue[i] \in ms THEN kept[i - 1] ELSE Append(kept[i - 1], queue[i])
  IN  kept[Len(queue)]

RowFree(p, m) == \A q \in Process \ {p} : m \notin tx[q].rows

\* lock_principal_quota waits for the transaction that has the key.
KeyFree(p, o) == \A q \in Process \ {p} : o \notin tx[q].keys

\* What a statement of p reads: the committed runs and its own.
Visible(p, k) == runs[k] + (IF k \in tx[p].made THEN 1 ELSE 0)

\* The runs p sees of some kinds, numbered within each kind.
Seen(p, kinds) == UNION {{k} \X (1..Visible(p, k)) : k \in kinds}

KindsOf(o) == {k \in Kind : k.owner = o}

\* count_active_runs.
ActiveRuns(p, o) == Cardinality(Seen(p, KindsOf(o)))

HasActiveRun(p, m) ==
  Visible(p, MonitorRun(m)) > 0 \/ Visible(p, Returned(MonitorRun(m))) > 0

Call == calls < MaxCalls /\ calls' = calls + 1

-----------------------------------------------------------------------------
(* dispatch_due_monitors, by a worker or for a run-now request.            *)

\* Due and enabled, without those another transaction has locked.
Claimable(p) == Without({m \in Monitor : monitor[m] # "enabled" \/ ~RowFree(p, m)}, agenda)

\* Mutant of Claimed: the monitors that are due longest come last.
ClaimedNewest(p) == LET c == Reverse(Claimable(p)) IN
                    SubSeq(c, 1, IF Len(c) < Batch THEN Len(c) ELSE Batch)

\* The Batch that are due longest.
Claimed(p) == LET c == Claimable(p) IN
              SubSeq(c, 1, IF Len(c) < Batch THEN Len(c) ELSE Batch)

ClaimDue(p) ==
  /\ tx[p].pc = (IF p \in Worker THEN "idle" ELSE "claiming")
  /\ p \in Worker => Claimed(p) # <<>>
  /\ tx' = [tx EXCEPT ![p].pc = "dispatching", ![p].todo = Claimed(p),
                      ![p].rows = ToSet(Claimed(p))]
  /\ UNCHANGED <<monitor, agenda, runs, late, calls>>

\* The monitor the loop has come to; what is decided about it; and the locks.
Looking(p, m) == tx[p].pc = "dispatching" /\ tx[p].todo # <<>> /\ m = Head(tx[p].todo)

\* Mutant of QuotaLock: the count is not serialized.
QuotaLockNone(p, o) == TRUE

QuotaLock(p, o) == o # None => KeyFree(p, o)

Decide(p, m, later, made) ==
  tx' = [tx EXCEPT ![p].todo = Tail(@), ![p].later = @ \cup later, ![p].made = @ \cup made,
                   ![p].keys = IF OwnerOf[m] = None THEN @ ELSE @ \cup {OwnerOf[m]}]

AtQuota(p, m) ==
  OwnerOf[m] = None \/ ActiveRuns(p, OwnerOf[m]) >= RunQuota

\* No owner, or the owner has no run to spare: in fifteen minutes again.
Postpone(p, m) ==
  /\ Looking(p, m) /\ QuotaLock(p, OwnerOf[m])
  /\ AtQuota(p, m)
  /\ Decide(p, m, {m}, {})
  /\ UNCHANGED <<monitor, agenda, runs, late, calls>>

\* Its last run is not over: the lease is released and the monitor stays due.
Skip(p, m) ==
  /\ Looking(p, m) /\ QuotaLock(p, OwnerOf[m])
  /\ ~AtQuota(p, m) /\ HasActiveRun(p, m)
  /\ Decide(p, m, {}, {})
  /\ UNCHANGED <<monitor, agenda, runs, late, calls>>

\* Mutant of MayLaunch: the monitor's last run is not looked for.
MayLaunchAgain(p, m) == ~AtQuota(p, m)

MayLaunch(p, m) == ~AtQuota(p, m) /\ ~HasActiveRun(p, m)

\* The run, its job and the next occurrence.  An exception on the way only
\* changes which next_run_at is written: the run stays in the transaction.
Launch(p, m) ==
  /\ Looking(p, m) /\ QuotaLock(p, OwnerOf[m])
  /\ MayLaunch(p, m)
  /\ Decide(p, m, {m}, {MonitorRun(m)})
  /\ UNCHANGED <<monitor, agenda, runs, late, calls>>

\* create_run raises: no run, in fifteen minutes again.
LaunchFails(p, m) ==
  /\ Looking(p, m) /\ QuotaLock(p, OwnerOf[m])
  /\ MayLaunch(p, m)
  /\ Call
  /\ Decide(p, m, {m}, {})
  /\ UNCHANGED <<monitor, agenda, runs, late>>

Publish(p) == runs' = [k \in Kind |-> Visible(p, k)]

CommitDispatch(p) ==
  /\ tx[p].pc = "dispatching" /\ tx[p].todo = <<>>
  /\ agenda' = Without(tx[p].later, agenda)
  /\ Publish(p)
  /\ tx' = [tx EXCEPT ![p] = NoTx]
  /\ UNCHANGED <<monitor, late, calls>>

\* Two dispatches that met their owners in opposite orders wait for each other.
Waits(p, q) ==
  /\ tx[p].pc = "dispatching" /\ tx[p].todo # <<>>
  /\ OwnerOf[Head(tx[p].todo)] \in tx[q].keys \ tx[p].keys

Deadlocked(p) == \E q \in Process : Waits(p, q) /\ Waits(q, p)

\* The process dies, or the database refuses a statement, as it does to one of
\* two deadlocked transactions: the handler of the exception cannot use its
\* transaction any more either, and all of it is rolled back.
Fault(p) ==
  /\ tx[p].pc # "idle"
  /\ tx' = [tx EXCEPT ![p] = NoTx]
  /\ calls' = IF Deadlocked(p) THEN calls ELSE calls + 1
  /\ calls' <= MaxCalls
  /\ UNCHANGED <<monitor, agenda, runs, late>>

-----------------------------------------------------------------------------
(* Monitors API.                                                           *)

\* Lock, count, insert: one step, since nothing else reads the count.
CreateMonitor(c, m) ==
  /\ tx[c].pc = "idle" /\ monitor[m] = "absent" /\ OwnerOf[m] # None
  /\ QuotaLock(c, OwnerOf[m])
  /\ Cardinality(Monitors(OwnerOf[m])) < MonitorQuota
  /\ Call
  /\ monitor' = [monitor EXCEPT ![m] = "enabled"]
  /\ UNCHANGED <<agenda, runs, late, tx>>

\* Any patch, a new name included, computes next_run_at from now.
PatchMonitor(m, status) ==
  /\ monitor[m] # "absent" /\ \A p \in Process : m \notin tx[p].rows
  /\ Call
  /\ monitor' = [monitor EXCEPT ![m] = status]
  /\ agenda' = Without({m}, agenda)
  /\ UNCHANGED <<runs, late, tx>>

\* The foreign key of its runs becomes NULL, of those that have ended too.
Orphaned(m, count) ==
  [count EXCEPT ![MonitorRun(m)] = 0,
                ![Returned(MonitorRun(m))] = 0,
                ![UserRun(OwnerOf[m], TRUE)] = @ + count[MonitorRun(m)],
                ![UserRun(OwnerOf[m], FALSE)] = @ + count[Returned(MonitorRun(m))]]

DeleteMonitor(m) ==
  /\ monitor[m] # "absent" /\ \A p \in Process : m \notin tx[p].rows
  /\ Call
  /\ monitor' = [monitor EXCEPT ![m] = "absent"]
  /\ agenda' = Without({m}, agenda)
  /\ runs' = Orphaned(m, runs)
  /\ late' = Orphaned(m, late)
  /\ UNCHANGED tx

\* run-now looks at the monitor and its runs ...
RunNow(c, m) ==
  /\ tx[c].pc = "idle" /\ monitor[m] = "enabled" /\ ~HasActiveRun(c, m)
  /\ Call
  /\ tx' = [tx EXCEPT ![c].pc = "bumping", ![c].target = m]
  /\ UNCHANGED <<monitor, agenda, runs, late>>

\* ... writes next_run_at = now once the row is free, commits, and dispatches
\* whatever is due by then.  The row may be gone.
BumpNext(c) ==
  LET m == tx[c].target IN
  /\ tx[c].pc = "bumping" /\ RowFree(c, m)
  /\ IF monitor[m] = "absent"
     THEN tx' = [tx EXCEPT ![c] = NoTx] /\ UNCHANGED agenda
     ELSE /\ tx' = [tx EXCEPT ![c].pc = "claiming"]
          /\ agenda' = Append(Without({m}, agenda), m)
  /\ UNCHANGED <<monitor, runs, late, calls>>

-----------------------------------------------------------------------------
(* Runs API, the runs themselves, and time.                                *)

\* POST /research-runs: lock, count, create.
CreateRun(c, o) ==
  /\ tx[c].pc = "idle"
  /\ QuotaLock(c, o)
  /\ ActiveRuns(c, o) < RunQuota
  /\ Call
  /\ tx' = [tx EXCEPT ![c].pc = "inserting", ![c].made = {UserRun(o, TRUE)}, ![c].keys = {o}]
  /\ UNCHANGED <<monitor, agenda, runs, late>>

CommitInsert(c) ==
  /\ tx[c].pc = "inserting"
  /\ Publish(c)
  /\ tx' = [tx EXCEPT ![c] = NoTx]
  /\ UNCHANGED <<monitor, agenda, late, calls>>

\* restart, fork and follow-up create a run without lock or count.
CreateUncounted(o) ==
  /\ Call
  /\ runs' = [runs EXCEPT ![UserRun(o, FALSE)] = @ + 1]
  /\ UNCHANGED <<monitor, agenda, late, tx>>

\* A run reaches a terminal status, and nothing is left that could write it.
FinishRun(k) ==
  /\ runs[k] > 0
  /\ runs' = [runs EXCEPT ![k] = @ - 1]
  /\ UNCHANGED <<monitor, agenda, late, tx, calls>>

\* It is ended, by a cancellation as a rule, while an executor is in the middle
\* of it or a decision on its review is on the way.
CancelRun(k) ==
  /\ runs[k] > 0
  /\ Call
  /\ runs' = [runs EXCEPT ![k] = @ - 1]
  /\ late' = [late EXCEPT ![Returned(k)] = @ + 1]
  /\ UNCHANGED <<monitor, agenda, tx>>

\* update_run_status refuses only RUNNING on an ended run: the pause of that
\* executor, or PENDING from that decision, makes it active again.
BringBack(k) ==
  /\ late[k] > 0
  /\ late' = [late EXCEPT ![k] = @ - 1]
  /\ runs' = [runs EXCEPT ![k] = @ + 1]
  /\ UNCHANGED <<monitor, agenda, tx, calls>>

BecomeDue(m) ==
  /\ monitor[m] = "enabled" /\ m \notin Due
  /\ agenda' = Append(agenda, m)
  /\ UNCHANGED <<monitor, runs, late, tx, calls>>

-----------------------------------------------------------------------------

Look(p, m) == Postpone(p, m) \/ Skip(p, m) \/ Launch(p, m)

\* The next step of what p has begun; a worker begins by itself.
Proceed(p) ==
  \/ ClaimDue(p) \/ CommitDispatch(p)
  \/ \E m \in Monitor : Look(p, m)
  \/ p \in Client /\ (BumpNext(p) \/ CommitInsert(p))

Next ==
  \/ \E p \in Process :
       \/ Proceed(p) \/ Fault(p)
       \/ \E m \in Monitor : LaunchFails(p, m)
  \/ \E c \in Client :
       \/ \E m \in Monitor : CreateMonitor(c, m) \/ RunNow(c, m)
       \/ \E o \in Owner : CreateRun(c, o)
  \/ \E m \in Monitor :
       \/ DeleteMonitor(m) \/ BecomeDue(m)
       \/ \E s \in {"disabled", "enabled"} : PatchMonitor(m, s)
  \/ \E o \in Owner : CreateUncounted(o)
  \/ \E k \in Kind : FinishRun(k) \/ CancelRun(k) \/ BringBack(k)

Spec == Init /\ [][Next]_vars

\* Worker loops poll, transactions end, a lock queue serves everyone who waits
\* long enough, and the database detects deadlocks.  Users need not do anything,
\* and runs need not end: one may wait for its person, or be stuck, for ever.
Fairness == \A p \in Process : SF_vars(Proceed(p) \/ (Deadlocked(p) /\ Fault(p)))

FairSpec == Spec /\ Fairness

-----------------------------------------------------------------------------
(* Properties.                                                             *)

\* A monitor never has two runs that have not ended, whoever dispatches: workers
\* at the same time, run-now next to them, with faults in between.  Runs that
\* were brought back after they had ended are left out: next to one that was
\* launched since, they make two.
OneActiveRunPerMonitor ==
  \A m \in Monitor :
    runs[MonitorRun(m)] + Cardinality({p \in Process : MonitorRun(m) \in tx[p].made}) <= 1

\* The committed runs that were counted when they were created and have not
\* ended since.
Counted(o) == UNION {{k} \X (1..runs[k]) : k \in {kind \in KindsOf(o) : kind.checked}}

\* Creations and dispatches never count past each other: what is created behind
\* an owner's advisory lock stays within the quota.  A run that ended has given
\* its place up, and takes it again without the lock when it is brought back.
QuotaKept == \A o \in Owner : Cardinality(Counted(o)) <= RunQuota

\* No monitor is kept from its next run by one that stays active for ever.
RunsEnd ==
  \A m \in Monitor : []<>(runs[MonitorRun(m)] = 0 /\ runs[Returned(MonitorRun(m))] = 0)

\* As long as runs of monitors end, every monitor that is due is run, postponed
\* or switched off: neither the monitors before it nor their owners' locks keep
\* it waiting for ever.
Served(m) ==
  RunsEnd =>
    (m \in Due /\ monitor[m] = "enabled" ~> m \notin Due \/ monitor[m] # "enabled")
=============================================================================
