--------------------------- MODULE LearningPolicy ---------------------------
(***************************************************************************)
(* The versions of one learned policy (one policy key of one owner), their *)
(* monitoring windows, and the experiment jobs that observation queues.    *)
(* The API promotes and rolls back versions; a worker that ends a run      *)
(* records the run's quality in a window, judges the windows and may roll  *)
(* the policy back by itself; idle workers run experiments.  All of them   *)
(* are transactions at READ COMMITTED: rows are read without a lock and    *)
(* written back, as absolute values, when the transaction commits.         *)
(* Sessions do not flush before they read (autoflush is off), so a query   *)
(* is answered from the committed rows, whatever the session has changed.  *)
(***************************************************************************)
EXTENDS Integers, Sequences, FiniteSets, FiniteSetsExt

CONSTANTS Actor,           \* sessions: API requests, workers, the backfill script
          Run,             \* research runs, each with at most one learning case
          MaxVersions,     \* bound: versions ever promoted
          MaxObservations, \* bound: times one run's evaluations are persisted
          MinSamples,      \* MIN_MONITORING_SAMPLES
          MaxClaims        \* times an idle poll claims an experiment (limit)

ASSUME PolicyBounds ==
    /\ MaxVersions \in Nat /\ MaxObservations \in Nat
    /\ MinSamples \in Nat \ {0} /\ MaxClaims \in Nat \ {0}

VARIABLES version,     \* sequence, in order of creation: is the version active?
          window,      \* sequence: the monitoring window opened by each version
          recent,      \* the newest two promotions and rollbacks of the last 24 h
          used,        \* run -> what is frozen in its config snapshot
          observed,    \* run -> times its evaluations were persisted
          experiment,  \* run -> the experiment job of its learning case
          audited,     \* run -> experiment_completed events of that job
          tx           \* actor -> its open transaction

vars == <<version, window, recent, used, observed, experiment, audited, tx>>

Version == 1 .. MaxVersions
Event == {"promoted", "rolled_back"}
Snapshot == {"none", "baseline", "learned"}  \* none: the run is not created yet
WindowStatus == {"active", "closed"}  \* closed: "completed" or "auto_rolled_back"
NoSample == [at |-> 0, samples |-> 0, good |-> 0]
Idle == [op |-> "idle"]

Active == {v \in DOMAIN version : version[v]}

(* get_active_learning_policy: the newest of the active versions. *)
Newest(versions) == IF versions = {} THEN 0 ELSE Max(versions)

LastTwo(events) ==
    IF Len(events) <= 2 THEN events ELSE SubSeq(events, Len(events) - 1, Len(events))

(* promotion_cooldown_active: the newest two events are one of each kind. *)
CoolingDown(events) == Len(events) = 2 /\ events[1] # events[2]

(* A window that calls for a rollback: quality fell from 0.80 by 0.15 or more. *)
Regressed(w) == w.samples >= MinSamples /\ 100 * w.good <= 65 * w.samples

OpenWindows == {v \in DOMAIN window : window[v].status = "active"}

(* The experiments that other open transactions have locked. *)
LockedJobs(a) ==
    {r \in Run : \E b \in Actor \ {a} : tx[b].op = "experiment" /\ tx[b].times[r] > 0}

Pending(r) == experiment[r] = "pending"

Init ==
    /\ version = <<>> /\ window = <<>> /\ recent = <<>>
    /\ used = [r \in Run |-> "none"]
    /\ observed = [r \in Run |-> 0]
    /\ experiment = [r \in Run |-> "none"]
    /\ audited = [r \in Run |-> 0]
    /\ tx = [a \in Actor |-> Idle]

(* A run is created: the effective policy is frozen in its snapshot; what  *)
(* is read of it again is whether it names a version of this policy.       *)
StartRun(r) ==
    /\ used[r] = "none"
    /\ used' = [used EXCEPT ![r] = IF Active = {} THEN "baseline" ELSE "learned"]
    /\ UNCHANGED <<version, window, recent, observed, experiment, audited, tx>>

-----------------------------------------------------------------------------
(* Promotion: the cooldown and the active versions are read, then all of   *)
(* the versions read are deactivated and a new one is inserted.            *)

(* Mutant: only the newest active version is superseded. *)
SupersededNewest(versions) == versions \cap {Newest(versions)}

Superseded(versions) == versions

BeginPromotion(a) ==
    /\ tx[a] = Idle /\ Len(version) < MaxVersions
    /\ ~CoolingDown(recent)
    /\ tx' = [tx EXCEPT ![a] = [op |-> "promote", seen |-> Active]]
    /\ UNCHANGED <<version, window, recent, used, observed, experiment, audited>>

CommitPromotion(a) ==
    /\ tx[a].op = "promote" /\ Len(version) < MaxVersions
    /\ version' = Append([v \in DOMAIN version |-> version[v] /\ v \notin Superseded(tx[a].seen)], TRUE)
    /\ window' = Append(window, [status |-> "active", samples |-> 0, good |-> 0])
    /\ recent' = LastTwo(Append(recent, "promoted"))
    /\ tx' = [tx EXCEPT ![a] = Idle]
    /\ UNCHANGED <<used, observed, experiment, audited>>

-----------------------------------------------------------------------------
(* Rollback: the newest active version is replaced by the newest of the    *)
(* inactive ones; without both, nothing is written.  A session that rolls  *)
(* back more than once queries the committed rows each time, but a row it  *)
(* has loaded before keeps the value it has in memory: `was' and `wasnt'   *)
(* are the versions loaded as active and as inactive, `now' the active     *)
(* ones of them as the session has them.                                   *)

Restorable == (DOMAIN version \ Active) \ {Newest(Active)}

CanRollBack == Active # {} /\ Restorable # {}

Swapped(t) ==
    LET current == Newest(Active)
        previous == Newest(Restorable)
    IN  [t EXCEPT !.was = @ \cup ({current} \ t.wasnt),
                  !.wasnt = @ \cup ({previous} \ t.was),
                  !.now = (@ \ {current}) \cup {previous},
                  !.events = Append(@, "rolled_back")]

OperatorRollback(a) ==
    /\ tx[a] = Idle
    /\ CanRollBack
    /\ tx' = [tx EXCEPT ![a] = Swapped([op |-> "rollback", was |-> {}, wasnt |-> {},
                                        now |-> {}, events |-> <<>>])]
    /\ UNCHANGED <<version, window, recent, used, observed, experiment, audited>>

(* Only what differs from the value that was loaded is written. *)
Off(t) == t.was \ t.now
On(t) == t.wasnt \cap t.now

(* Mutant: the previous version is not activated. *)
RewrittenOff(t) == [v \in DOMAIN version |-> version[v] /\ v \notin Off(t)]

Rewritten(t) == [v \in DOMAIN version |-> (version[v] \/ v \in On(t)) /\ v \notin Off(t)]

CommitRollback(a) ==
    /\ tx[a].op = "rollback"
    /\ version' = Rewritten(tx[a])
    /\ recent' = LastTwo(recent \o tx[a].events)
    /\ tx' = [tx EXCEPT ![a] = Idle]
    /\ UNCHANGED <<window, used, observed, experiment, audited>>

-----------------------------------------------------------------------------
(* The end of a run: its quality is added to the newest open window when   *)
(* its snapshot names a version, a new learning case queues an experiment, *)
(* and the open windows are judged one after the other.                    *)

Sampled(r, quality) ==
    IF used[r] = "baseline" \/ OpenWindows = {} THEN NoSample
    ELSE LET v == Newest(OpenWindows)
         IN  [at |-> v, samples |-> window[v].samples + 1, good |-> window[v].good + quality]

(* Mutant: the number of samples is not written back. *)
WithSampleGood(s) ==
    [v \in DOMAIN window |->
        IF v = s.at THEN [window[v] EXCEPT !.good = s.good] ELSE window[v]]

WithSample(s) ==
    [v \in DOMAIN window |->
        IF v = s.at THEN [window[v] EXCEPT !.samples = s.samples, !.good = s.good]
                    ELSE window[v]]

Observe(a, r, quality) ==
    /\ tx[a] = Idle
    /\ used[r] # "none" /\ observed[r] < MaxObservations
    /\ LET s == Sampled(r, quality)
       IN  tx' = [tx EXCEPT ![a] =
             [op |-> "judge", run |-> r, sample |-> s,
              queues |-> quality = 0 /\ experiment[r] = "none",
              todo |-> {v \in OpenWindows : Regressed(WithSample(s)[v])},
              on_trial |-> 0, done |-> {},
              was |-> {}, wasnt |-> {}, now |-> {}, events |-> <<>>]]
    /\ UNCHANGED <<version, window, recent, used, observed, experiment, audited>>

(* One window of the list: passed over while the policy cools down, of     *)
(* which the rollbacks of this pass are no part yet.                       *)
PassOver(a, v) ==
    /\ tx[a].op = "judge" /\ v \in tx[a].todo
    /\ CoolingDown(recent)
    /\ tx' = [tx EXCEPT ![a].todo = @ \ {v}]
    /\ UNCHANGED <<version, window, recent, used, observed, experiment, audited>>

Condemn(a, v) ==
    /\ tx[a].op = "judge" /\ v \in tx[a].todo
    /\ ~CoolingDown(recent)
    /\ tx' = [tx EXCEPT ![a].op = "choose", ![a].on_trial = v, ![a].todo = @ \ {v}]
    /\ UNCHANGED <<version, window, recent, used, observed, experiment, audited>>

(* The versions are read after the cooldown: another session may commit between. *)
AutoRollback(a) ==
    /\ tx[a].op = "choose"
    /\ tx' = [tx EXCEPT ![a] =
          IF CanRollBack
          THEN [Swapped(tx[a]) EXCEPT !.op = "judge", !.on_trial = 0,
                                      !.done = @ \cup {tx[a].on_trial}]
          ELSE [tx[a] EXCEPT !.op = "judge", !.on_trial = 0]]
    /\ UNCHANGED <<version, window, recent, used, observed, experiment, audited>>

(* The unique key of learning_cases refuses a second case of the run. *)
CommitObservation(a) ==
    /\ tx[a].op = "judge" /\ tx[a].todo = {}
    /\ LET t == tx[a]
       IN  /\ t.queues => experiment[t.run] = "none"
           /\ observed[t.run] < MaxObservations
           /\ version' = Rewritten(t)
           /\ window' = [v \in DOMAIN window |->
                            IF v \in t.done
                            THEN [WithSample(t.sample)[v] EXCEPT !.status = "closed"]
                            ELSE WithSample(t.sample)[v]]
           /\ recent' = LastTwo(recent \o t.events)
           /\ observed' = [observed EXCEPT ![t.run] = @ + 1]
           /\ experiment' = [experiment EXCEPT ![t.run] = IF t.queues THEN "pending" ELSE @]
    /\ tx' = [tx EXCEPT ![a] = Idle]
    /\ UNCHANGED <<used, audited>>

-----------------------------------------------------------------------------
(* Experiments: an idle worker claims a job, runs it and completes it,     *)
(* MaxClaims times, and commits once.  A claim locks the row and passes    *)
(* over those that others have locked; a row that this session has         *)
(* completed is pending in the database until the commit, so it can be     *)
(* claimed, run and audited again.                                         *)

(* Mutant: rows that others have locked are not passed over. *)
ClaimableUnlocked(a, r) == Pending(r)

Claimable(a, r) == Pending(r) /\ r \notin LockedJobs(a)

(* The poll of a session: how often it has claimed, and each job. *)
Poll(a) ==
    IF tx[a] = Idle THEN [op |-> "experiment", claims |-> 0, times |-> [r \in Run |-> 0]]
                    ELSE tx[a]

(* The oldest such job is taken; which one that is, is left open. *)
ClaimExperiment(a, r) ==
    /\ tx[a] = Idle \/ (tx[a].op = "experiment" /\ tx[a].claims < MaxClaims)
    /\ Claimable(a, r)
    /\ tx' = [tx EXCEPT ![a] = [op |-> "experiment", claims |-> Poll(a).claims + 1,
                                times |-> [Poll(a).times EXCEPT ![r] = @ + 1]]]
    /\ UNCHANGED <<version, window, recent, used, observed, experiment, audited>>

(* The loop never falls short of the limit: what it has claimed is pending. *)
CompleteExperiments(a) ==
    /\ tx[a].op = "experiment" /\ tx[a].claims = MaxClaims
    /\ experiment' = [r \in Run |-> IF tx[a].times[r] > 0 THEN "completed" ELSE experiment[r]]
    /\ audited' = [r \in Run |-> audited[r] + tx[a].times[r]]
    /\ tx' = [tx EXCEPT ![a] = Idle]
    /\ UNCHANGED <<version, window, recent, used, observed>>

-----------------------------------------------------------------------------
(* A crash, an exception or a deadlock rolls the open transaction back. *)
Abort(a) ==
    /\ tx[a] # Idle
    /\ tx' = [tx EXCEPT ![a] = Idle]
    /\ UNCHANGED <<version, window, recent, used, observed, experiment, audited>>

(* close_expired_monitoring_windows, in the worker's poll. *)
CloseWindow(v) ==
    /\ v \in OpenWindows
    /\ window' = [window EXCEPT ![v].status = "closed"]
    /\ UNCHANGED <<version, recent, used, observed, experiment, audited, tx>>

(* A day passes: the events leave the 24 hours of the cooldown. *)
DayPasses ==
    /\ recent # <<>>
    /\ recent' = <<>>
    /\ UNCHANGED <<version, window, used, observed, experiment, audited, tx>>

Next ==
    \/ DayPasses
    \/ \E v \in Version : CloseWindow(v)
    \/ \E r \in Run : StartRun(r)
    \/ \E a \in Actor :
          \/ BeginPromotion(a) \/ CommitPromotion(a)
          \/ OperatorRollback(a) \/ CommitRollback(a)
          \/ \E r \in Run, quality \in {0, 1} : Observe(a, r, quality)
          \/ \E v \in Version : PassOver(a, v) \/ Condemn(a, v)
          \/ AutoRollback(a) \/ CommitObservation(a)
          \/ \E r \in Run : ClaimExperiment(a, r)
          \/ CompleteExperiments(a)
          \/ Abort(a)

Spec == Init /\ [][Next]_vars

-----------------------------------------------------------------------------
(* A version has its window, and a window has no more good runs than runs. *)
PolicyTypeOK ==
    /\ version \in Seq(BOOLEAN) /\ Len(version) <= MaxVersions
    /\ window \in Seq([status : WindowStatus, samples : Nat, good : Nat])
    /\ Len(window) = Len(version)
    /\ \A v \in DOMAIN window : window[v].good <= window[v].samples
    /\ recent \in Seq(Event) /\ Len(recent) <= 2
    /\ used \in [Run -> Snapshot]
    /\ observed \in [Run -> 0 .. MaxObservations]
    /\ experiment \in [Run -> {"none", "pending", "completed"}]
    /\ audited \in [Run -> Nat]
    /\ DOMAIN tx = Actor

(* Some version stays active once one was promoted, however promotions,    *)
(* operators' rollbacks and automatic rollbacks overlap on stale reads, so *)
(* that runs do not fall back to the baseline unnoticed.  One case is out: *)
(* a pass that rolls back for a third window may write that a version is   *)
(* inactive and, since its first two rollbacks have undone each other in   *)
(* memory, not that another one is active.                                 *)
StaysServed ==
    [][Active # {} /\ Active' = {} =>
          \E a \in Actor : tx[a].op = "judge" /\ Len(tx[a].events) > 2]_vars

(* Overlapping sessions may leave several versions active; a promotion     *)
(* that no other change overlaps leaves exactly the promoted one.          *)
PromotionHealsRace ==
    [][\A a \in Actor :
          tx[a].op = "promote" /\ tx'[a] = Idle /\ Len(version') > Len(version)
            /\ tx[a].seen = Active
          => {v \in DOMAIN version' : version'[v]} = {Len(version')}]_vars

(* The results of an experiment reach the audit with one commit, at most   *)
(* MaxClaims of them, and the job is done with it, however many workers    *)
(* poll and crash: what one session has completed no other runs again.     *)
ExperimentOnce ==
    [][\A r \in Run : audited'[r] # audited[r] =>
          /\ audited[r] = 0 /\ audited'[r] <= MaxClaims
          /\ Pending(r) /\ experiment'[r] = "completed"]_vars
=============================================================================
