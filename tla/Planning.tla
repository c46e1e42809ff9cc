------------------------------ MODULE Planning ------------------------------
(***************************************************************************)
(* From the planner's draft to the stored task graph.  A model proposes    *)
(* tasks and a dependency validator (a second model) may replace them;     *)
(* repair_plan then makes them an executable graph, the learned policy may *)
(* cut it, and it is repaired again, trimmed to the research mode and      *)
(* stored.  Models err: their drafts repeat keys and objectives, depend on *)
(* unknown tasks or on themselves, and are cyclic.                         *)
(*                                                                         *)
(* Keys are numbers: k stands for "t<k>", the name repair_plan gives to    *)
(* the k-th task, and the order of numbers for that of the names, which    *)
(* only breaks ties of priority.  A goal stands for the objectives with    *)
(* one normal form.                                                        *)
(***************************************************************************)
EXTENDS Integers, Sequences, FiniteSets, SequencesExt

CONSTANTS Draft,           \* what the planner may answer
          Correction,      \* what the dependency validator may answer
          PolicyCap,       \* planner_policy_task_cap, by learned policy
          ModeCap          \* max_requirement_tasks, by research mode

Decomposition == {"unspecified", "simple", "parallel", "chain", "mixed"}

Task == [key : Nat, goal : Nat, priority : Nat, deps : Seq(Nat)]

(* A plan: its decomposition and its tasks, in the planner's order.        *)
ASSUME DraftsArePlans ==
    \A p \in Draft \cup Correction :
        /\ p \in [decomposition : Decomposition, tasks : Seq(Task)]
        /\ p.tasks # <<>>
ASSUME Caps == PolicyCap \cup ModeCap \subseteq Nat \ {0}

VARIABLES stage,      \* how far the plan phase has come
          plan,       \* the plan at that stage
          submitted,  \* the plan handed to the first repair
          taskCap     \* planner_policy_task_cap, once applied

vars == <<stage, plan, submitted, taskCap>>

Stage == {"drafted", "validated", "repaired", "cut", "written", "stored", "failed"}

Init == /\ stage = "drafted"
        /\ plan \in Draft
        /\ submitted = plan
        /\ taskCap = 0

-----------------------------------------------------------------------------
(* Task lists.                                                             *)

Keys(ts) == {ts[i].key : i \in DOMAIN ts}

(* The members of a sequence at some of its places, in their order.        *)
Keep(seq, places) ==
    LET kept[i \in 0 .. Len(seq)] ==
            IF i = 0 THEN <<>>
            ELSE IF i \in places THEN Append(kept[i - 1], seq[i]) ELSE kept[i - 1]
    IN  kept[Len(seq)]

WithDeps(t, keys) == [t EXCEPT !.deps = Keep(@, {i \in DOMAIN @ : @[i] \in keys})]
NoDeps(ts) == [i \in DOMAIN ts |-> [ts[i] EXCEPT !.deps = <<>>]]
Independent(ts) == \A i \in DOMAIN ts : ts[i].deps = <<>>
Cut(ts, n) == [i \in 1 .. (IF n < Len(ts) THEN n ELSE Len(ts)) |-> ts[i]]

(* sorted by priority and key: the n-th is the one that n - 1 come before. *)
Before(ts, j, i) ==
    \/ ts[j].priority < ts[i].priority
    \/ /\ ts[j].priority = ts[i].priority
       /\ ts[j].key < ts[i].key \/ (ts[j].key = ts[i].key /\ j < i)

ByPriority(ts) ==
    [n \in DOMAIN ts |-> ts[CHOOSE i \in DOMAIN ts :
                                Cardinality({j \in DOMAIN ts : Before(ts, j, i)}) = n - 1]]

(* TaskGraph.by_key: the last task of a key, at the place of the first.    *)
TaskOf(ts, k) ==
    ts[CHOOSE i \in DOMAIN ts :
           ts[i].key = k /\ \A j \in DOMAIN ts : ts[j].key = k => j <= i]

ByKey(ts) ==
    LET firsts == Keep(ts, {i \in DOMAIN ts : \A j \in 1 .. (i - 1) : ts[j].key # ts[i].key})
    IN  [i \in DOMAIN firsts |-> TaskOf(ts, firsts[i].key)]

(* TaskGraph._detect_cycles, from one task: a key met again while it is    *)
(* being visited.                                                          *)
MeetsAgain(ts, key) ==
    LET meets[visit \in Keys(ts) \X SUBSET Keys(ts)] ==
            LET k == visit[1]
                visiting == visit[2]
            IN  \/ k \in visiting
                \/ \E d \in ToSet(TaskOf(ts, k).deps) : meets[<<d, visiting \cup {k}>>]
    IN  meets[<<key, {}>>]

KnownDeps(ts) ==
    \A i \in DOMAIN ts : ToSet(ts[i].deps) \subseteq Keys(ts) \ {ts[i].key}

(* Mutant of Valid: the visit starts at the first task only. *)
ValidFromFirst(ts) == KnownDeps(ts) /\ ~MeetsAgain(ts, ts[1].key)

(* TaskGraph.validate_dependencies. *)
Valid(ts) == KnownDeps(ts) /\ \A k \in Keys(ts) : ~MeetsAgain(ts, k)

-----------------------------------------------------------------------------
(* repair_plan.                                                            *)

(* Mutant of EnsureKeys: every task is renamed after its position. *)
EnsureKeysRenamed(ts) == [i \in DOMAIN ts |-> [ts[i] EXCEPT !.key = i]]

EnsureKeys(ts) ==
    LET out[i \in 0 .. Len(ts)] ==
            IF i = 0 THEN <<>>
            ELSE LET done == out[i - 1]
                 IN  Append(done, IF ts[i].key \in Keys(done)
                                  THEN [ts[i] EXCEPT !.key = i] ELSE ts[i])
    IN  out[Len(ts)]

DedupeObjectives(ts) ==
    LET repeats == {i \in DOMAIN ts : \E j \in 1 .. (i - 1) : ts[j].goal = ts[i].goal}
        dropped == {ts[i].key : i \in repeats}
        unique  == Keep(ts, DOMAIN ts \ repeats)
    IN  [i \in DOMAIN unique |-> WithDeps(unique[i], Nat \ dropped)]

DropUnknownAndSelfDeps(ts) ==
    LET keys == Keys(ts)
    IN  [i \in DOMAIN ts |-> WithDeps(ts[i], keys \ {ts[i].key})]

ChainByPriority(ts) ==
    LET ordered == ByPriority(ts)
    IN  [i \in DOMAIN ts |-> [ordered[i] EXCEPT !.deps =
                                  IF i = 1 THEN <<>> ELSE <<ordered[i - 1].key>>]]

FanIn(ts) ==
    LET ordered == ByPriority(ts)
    IN  [i \in DOMAIN ts |-> [ordered[i] EXCEPT !.deps =
                                  IF i < Len(ts) THEN <<>>
                                  ELSE [j \in 1 .. (Len(ts) - 1) |-> ordered[j].key]]]

Shaped(decomposition, ts) ==
    CASE decomposition = "simple"   -> Cut(NoDeps(ByPriority(ts)), 1)
      [] decomposition = "parallel" -> NoDeps(ts)
      [] decomposition = "chain" /\ Len(ts) >= 2 /\ Independent(ts) -> ChainByPriority(ts)
      [] decomposition = "mixed" /\ Len(ts) >= 3 /\ Independent(ts) -> FanIn(ts)
      [] OTHER -> ts

(* The last dependency of the least urgent task that has one is dropped.   *)
DropAnEdge(ts) ==
    LET dependent == {i \in DOMAIN ts : ts[i].deps # <<>>}
        chosen    == CHOOSE i \in dependent : \A j \in dependent :
                         \/ ts[i].priority > ts[j].priority
                         \/ ts[i].priority = ts[j].priority /\ i <= j
        pruned    == [ts[chosen] EXCEPT !.deps = Front(@)]
        rows      == ByKey(ts)
    IN  [i \in DOMAIN rows |-> IF rows[i].key = pruned.key THEN pruned ELSE rows[i]]

Attempts(ts) ==
    LET current[i \in 0 .. Len(ts)] ==
            IF i = 0 THEN ts
            ELSE LET last == current[i - 1]
                 IN  IF Valid(last) THEN last ELSE DropAnEdge(last)
    IN  current[Len(ts)]

(* One edge per attempt, as many attempts as tasks; if the graph is still  *)
(* not valid, no dependency is kept.                                       *)
BreakCycles(ts) ==
    LET pruned == Attempts(ts)
    IN  IF Valid(pruned) THEN pruned ELSE NoDeps(DropAnEdge(pruned))

Repaired(p) ==
    LET clean  == DropUnknownAndSelfDeps(DedupeObjectives(EnsureKeys(p.tasks)))
        shaped == Shaped(p.decomposition, clean)
    IN  [p EXCEPT !.tasks = BreakCycles(DropUnknownAndSelfDeps(shaped))]

-----------------------------------------------------------------------------
(* The plan phase.                                                         *)

(* validate_semantic_dependencies: nothing is sent for an unspecified      *)
(* decomposition; a failed call leaves the plan as it is; an answer        *)
(* without tasks keeps the planner's.                                      *)
Validate ==
    /\ stage = "drafted"
    /\ \/ plan' = plan
       \/ /\ plan.decomposition # "unspecified"
          /\ \E answer \in Correction, falseSimple \in BOOLEAN, keepsTasks \in BOOLEAN :
                LET tasks == IF keepsTasks THEN plan.tasks ELSE answer.tasks
                    split == /\ falseSimple /\ answer.decomposition = "simple"
                             /\ IF keepsTasks THEN Len(tasks) = 1 ELSE Len(tasks) >= 2
                IN  plan' = [decomposition |-> IF split THEN "chain" ELSE answer.decomposition,
                             tasks |-> tasks]
    /\ submitted' = plan'
    /\ stage' = "validated"
    /\ UNCHANGED taskCap

(* finalize_plan: repair_plan on what the validator left. *)
Repair ==
    /\ stage = "validated"
    /\ plan' = Repaired(plan)
    /\ stage' = "repaired"
    /\ UNCHANGED <<submitted, taskCap>>

(* apply_planner_runtime_policy: a strict policy turns a simple plan of    *)
(* several tasks into a chain; the policy's cap cuts the list, not the     *)
(* dependencies on what it cut.                                            *)
ApplyPolicy ==
    /\ stage = "repaired"
    /\ \E strict \in BOOLEAN, cap \in PolicyCap :
          /\ plan' = [decomposition |->
                          IF strict /\ plan.decomposition = "simple" /\ Len(plan.tasks) >= 2
                          THEN "chain" ELSE plan.decomposition,
                      tasks |-> Cut(plan.tasks, cap)]
          /\ taskCap' = cap
    /\ stage' = "cut"
    /\ UNCHANGED submitted

(* planner_output_to_write repairs the plan a second time. *)
Write ==
    /\ stage = "cut"
    /\ plan' = Repaired(plan)
    /\ stage' = "written"
    /\ UNCHANGED <<submitted, taskCap>>

(* build_plan: final syntheses (at least two dependencies, nobody's        *)
(* dependency) are left to the report, the mode's cap cuts the rest, and   *)
(* dependencies on tasks that are gone are dropped.                        *)
Trimmed(ts, cap) ==
    LET dependedOn == UNION {ToSet(ts[i].deps) : i \in DOMAIN ts}
        research   == Keep(ts, {i \in DOMAIN ts : Len(ts[i].deps) < 2 \/ ts[i].key \in dependedOn})
        kept       == Cut(research, cap)
    IN  [i \in DOMAIN kept |-> WithDeps(kept[i], Keys(kept))]

(* save_plan: the rows are unique by run and key; a second row with the    *)
(* same key fails the transaction, and the plan phase with it.  Left out   *)
(* are the tasks the contract appends in the same transaction: no other    *)
(* task depends on them, so what can be executed stays so.                 *)
Store ==
    /\ stage = "written"
    /\ \E cap \in ModeCap : plan' = [plan EXCEPT !.tasks = Trimmed(@, cap)]
    /\ stage' = IF Cardinality(Keys(plan'.tasks)) = Len(plan'.tasks) THEN "stored" ELSE "failed"
    /\ UNCHANGED <<submitted, taskCap>>

Next == Validate \/ Repair \/ ApplyPolicy \/ Write \/ Store

Spec == Init /\ [][Next]_vars

-----------------------------------------------------------------------------
(* Properties.                                                             *)

(* Some order of the tasks puts every task after its dependencies.         *)
Executable(ts) ==
    \E order \in [Keys(ts) -> 1 .. Len(ts)] :
        \A i \in DOMAIN ts : \A d \in ToSet(ts[i].deps) :
            d \in Keys(ts) /\ order[d] < order[ts[i].key]

(* Whatever graph the models propose, the stored one can be executed: it   *)
(* has a task, and its tasks can be done in an order that never waits for  *)
(* one that does not exist or for itself: what ResearchTasks assumes of    *)
(* its tasks.  Only a draft that repeats a key may leave a cycle: the      *)
(* repetition hides it from TaskGraph, and a mode's cap below the policy's *)
(* removes the repetition after the last repair.                           *)
PlanExecutable ==
    stage = "stored" =>
        /\ plan.tasks # <<>>
        /\ Executable(plan.tasks) \/ Cardinality(Keys(submitted.tasks)) < Len(submitted.tasks)

(* What a sound plan of the declared shape looks like. *)
WellShaped(p) ==
    /\ p.decomposition = "simple" => Len(p.tasks) = 1
    /\ p.decomposition = "parallel" => Independent(p.tasks)
    /\ p.decomposition = "chain" /\ Len(p.tasks) >= 2 => ~Independent(p.tasks)
    /\ p.decomposition = "mixed" /\ Len(p.tasks) >= 3 => ~Independent(p.tasks)

WellFormed(p) ==
    /\ Cardinality(Keys(p.tasks)) = Len(p.tasks)
    /\ Cardinality({p.tasks[i].goal : i \in DOMAIN p.tasks}) = Len(p.tasks)
    /\ Executable(p.tasks)
    /\ WellShaped(p)

(* Repair only repairs: a plan that was sound when it was handed over is   *)
(* written as it was proposed, after both repairs, unless the policy's cap *)
(* cut it in between.                                                      *)
SoundPlanKept ==
    (stage = "written" /\ WellFormed(submitted) /\ Len(submitted.tasks) <= taskCap)
        => plan = submitted
=============================================================================
