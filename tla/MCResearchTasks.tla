--------------------------- MODULE MCResearchTasks ---------------------------
(* Values for the constants of ResearchTasks that a .cfg cannot express.   *)
EXTENDS ResearchTasks, TLC

\* The second planned task needs the first; tasks that fill gaps need none.
MCDeps == [t \in Task |-> IF t = 2 /\ t \in Planned THEN {1} ELSE {}]

MCLimit == [m \in Metric |-> IF m = "tool_calls" THEN 3 ELSE 2]

SmallLimit == [m \in Metric |-> IF m = "tool_calls" THEN 1 ELSE 2]

\* Executors are interchangeable.
ExecutorSymmetry == Permutations(Executor)
=============================================================================
