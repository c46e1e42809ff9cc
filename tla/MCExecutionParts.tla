-------------------------- MODULE MCExecutionParts --------------------------
(* Three parts of an execution that share no state: how the plan is made,  *)
(* how far the pages are indexed and what the findings cover.  One run     *)
(* explores them, one at a time, while the others keep their first state.  *)
EXTENDS Planning, Coverage, RetrievalIndex, TLC

VARIABLE part

-----------------------------------------------------------------------------
(* Planning: drafts of one to three tasks: every graph over them with up   *)
(* to two dependencies a task, unknown ones and self-dependencies included *)
(* (key 4 is nobody's), and, for a few graphs, repeated keys and           *)
(* objectives.                                                             *)
TaskDeps == {<<>>} \cup {<<a>> : a \in 1 .. 4}
                   \cup {<<a, b>> : a \in 1 .. 3, b \in 1 .. 3}
FewDeps == {<<>>, <<1>>, <<3>>, <<1, 2>>}

Tasks(keys, goals, priorities, deps) ==
    {[i \in DOMAIN keys |-> [key |-> keys[i], goal |-> goals[i],
                             priority |-> priority[i], deps |-> dep[i]]] :
        priority \in priorities, dep \in [DOMAIN keys -> deps]}

TaskGraphs == Tasks(<<1>>, <<1>>, {<<1>>}, TaskDeps)
              \cup Tasks(<<1, 2>>, <<1, 2>>, {<<1, 1>>, <<2, 1>>}, TaskDeps)
              \cup Tasks(<<1, 2, 3>>, <<1, 2, 3>>, {<<1, 1, 1>>, <<3, 2, 1>>},
                         TaskDeps \ {<<a, a>> : a \in 1 .. 3})
Irregular == UNION {Tasks(keys, goals, {<<1, 2, 1>>}, FewDeps) :
                        keys \in {<<1, 1, 2>>, <<3, 1, 1>>, <<2, 2, 3>>, <<3, 3, 3>>, <<2, 3, 1>>},
                        goals \in {<<1, 1, 2>>, <<1, 2, 1>>, <<1, 2, 3>>}}

Plans(tasks) == [decomposition : Decomposition, tasks : tasks]

MCDraft == Plans(TaskGraphs \cup Irregular)
MCCorrection == Plans({<<[key |-> 1, goal |-> 1, priority |-> 1, deps |-> <<2>>],
                         [key |-> 2, goal |-> 2, priority |-> 2, deps |-> <<1>>]>>})

-----------------------------------------------------------------------------
(* Coverage: an objective alone, or with a comparison, a second            *)
(* requirement of any other kind, and one that waits for the office holder.*)
Requirements(id, kinds, central, facets, studies, deps) ==
    [id : {id}, kind : kinds, central : central, facets : facets,
     classes : {{}, {"regulator"}}, studies : studies, deps : {deps}]

Objective(central) ==
    [id |-> "R0", kind |-> "fact", central |-> central, facets |-> {},
     classes |-> {}, studies |-> {}, deps |-> {}]

Comparisons == Requirements("R_compare", {"comparison"}, {TRUE},
                            {{"left", "right"}, {"left", "number"}}, {{}, {"trial"}}, {})
Seconds == Requirements("R_president", {"fact"}, BOOLEAN, {{}}, {{}}, {})
           \cup Requirements("R_timeline", {"timeline"}, {TRUE}, {{}, {"number"}}, {{}}, {})
           \cup Requirements("R1", {"source_policy", "dependency", "output_format", "synthesis"},
                             {FALSE}, {{}}, {{}}, {})
Guidance == Requirements("R_gpai_guidance", {"fact"}, {TRUE}, {{}}, {{}}, {"R_president"})

MCGoals == {<<Objective(TRUE)>>} \cup
           {<<Objective(FALSE), a, b, c>> : a \in Comparisons, b \in Seconds, c \in Guidance}
MCClassOf == [p1 |-> "regulator", p2 |-> "research_body"]
MCOn == [c1 |-> "p1", c2 |-> "p2", c3 |-> "p2"]
MCSupports == [c1 |-> {"R0", "R_compare", "R_president"},
               c2 |-> {"R_compare", "R_timeline", "R1"},
               c3 |-> {"R_gpai_guidance", "R_president", "R1"}]
MCShows == [c1 |-> {"left"}, c2 |-> {"right", "number", "trial"}, c3 |-> {}]

-----------------------------------------------------------------------------
(* Index: a page of two passages, a page of one and a short page.          *)
MCPassages == [s1 |-> <<"a", "b">>, s2 |-> <<"c">>, s3 |-> <<>>]
MCCost == [a |-> 2, b |-> 1, c |-> 1]

-----------------------------------------------------------------------------
AllVars == <<vars, coverageVars, indexVars, part>>

FirstDraft == CHOOSE p \in Draft : TRUE
FirstGoal == CHOOSE c \in Goals : TRUE
FirstSpec == CHOOSE k \in EmbeddingSpec : TRUE

PlanningRests == stage = "drafted" /\ plan = FirstDraft /\ submitted = plan /\ taskCap = 0
CoverageRests == contract = FirstGoal /\ sources = {} /\ verified = {} /\ resolved = {}
                 /\ connected = FALSE
IndexRests == spec = FirstSpec /\ IndexInit

PartsInit ==
    \/ part = "planning" /\ Init /\ CoverageRests /\ IndexRests
    \/ part = "coverage" /\ CoverageInit /\ PlanningRests /\ IndexRests
    \/ part = "index" /\ IndexInit /\ PlanningRests /\ CoverageRests

PartsNext ==
    \/ part = "planning" /\ Next /\ UNCHANGED <<coverageVars, indexVars, part>>
    \/ part = "coverage" /\ CoverageNext /\ UNCHANGED <<vars, indexVars, part>>
    \/ part = "index" /\ IndexNext /\ UNCHANGED <<vars, coverageVars, part>>

PartsSpec == PartsInit /\ [][PartsNext]_AllVars
=============================================================================
