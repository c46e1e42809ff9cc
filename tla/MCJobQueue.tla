----------------------------- MODULE MCJobQueue -----------------------------
(***************************************************************************)
(* The job queue on a small instance: two workers, two API requests and    *)
(* two jobs are enough for every race between check and insert, scan and   *)
(* claim, claim and late completion.                                       *)
(***************************************************************************)
EXTENDS JobQueue, TLC

\* For safety only.
Symmetry == Permutations(Worker) \cup Permutations(Client)
=============================================================================
