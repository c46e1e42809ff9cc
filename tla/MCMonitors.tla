----------------------------- MODULE MCMonitors -----------------------------
(* Values for the constants of Monitors that a .cfg cannot express.        *)
EXTENDS Monitors

CONSTANTS a1, a2, old, alice

\* alice has two monitors, which compete for her quota; one has no owner.
MCOwnerOf == [m \in Monitor |-> IF m = old THEN None ELSE alice]

\* Fairness to one of the two that compete; they are interchangeable.
A1Served == Served(a1)
=============================================================================
