--------------------------- MODULE MCRunLifecycle ---------------------------
(***************************************************************************)
(* One run, two workers, one API request in flight that enqueues or        *)
(* cancels (review decisions need no client state), two jobs and two       *)
(* reviews.                                                                *)
(***************************************************************************)
EXTENDS RunLifecycle, TLC

WorkerSymmetry == Permutations(Worker)

\* Bound: two claims, of one job that is retried or overrun, or of two jobs.
TwoClaims == job[1].attempts + job[2].attempts <= 2
=============================================================================
