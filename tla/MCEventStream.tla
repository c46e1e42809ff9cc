---------------------------- MODULE MCEventStream ----------------------------
(* One tab and one event stand for all in the leads-to property.           *)
EXTENDS EventStream, TLC

CONSTANT t1

T1GetsLast == EndReaches(t1, MaxEvents)
=============================================================================
