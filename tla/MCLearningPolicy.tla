-------------------------- MODULE MCLearningPolicy --------------------------
(* Two interchangeable sessions, one run persisted up to twice, three       *)
(* versions; a window is judged from its first sample, so that rollbacks by *)
(* themselves happen within the bounds.                                     *)
EXTENDS LearningPolicy, TLC

Sessions == Permutations(Actor)
=============================================================================
