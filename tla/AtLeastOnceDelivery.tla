------------------------- MODULE AtLeastOnceDelivery -------------------------
(***************************************************************************)
(* What the durable job queue promises to those who enqueue: a submitted   *)
(* item is delivered to a worker at least once before it is settled, a     *)
(* settled item is not delivered again, and an item is never forgotten.    *)
(* Reopen is why this is not "exactly once": a retry or a recovery that    *)
(* was decided before the item was settled can take effect afterwards.     *)
(***************************************************************************)
EXTENDS Naturals

CONSTANT Item

VARIABLES phase, deliveries

deliveryVars == <<phase, deliveries>>

Init ==
  /\ phase = [i \in Item |-> "absent"]
  /\ deliveries = [i \in Item |-> 0]

Submit(i) ==
  /\ phase[i] = "absent"
  /\ phase' = [phase EXCEPT ![i] = "open"]
  /\ UNCHANGED deliveries

Deliver(i) ==
  /\ phase[i] = "open"
  /\ deliveries' = [deliveries EXCEPT ![i] = @ + 1]
  /\ UNCHANGED phase

Settle(i) ==
  /\ phase[i] = "open"
  /\ deliveries[i] > 0
  /\ phase' = [phase EXCEPT ![i] = "settled"]
  /\ UNCHANGED deliveries

\* The worker that receives the item finds that it is moot.
DeliverMoot(i) ==
  /\ phase[i] = "open"
  /\ deliveries' = [deliveries EXCEPT ![i] = @ + 1]
  /\ phase' = [phase EXCEPT ![i] = "settled"]

\* A recovery that selected items before they settled puts back all of them.
Reopen(S) ==
  /\ \A i \in S : phase[i] = "settled"
  /\ phase' = [i \in Item |-> IF i \in S THEN "open" ELSE phase[i]]
  /\ UNCHANGED deliveries

Next ==
  \/ \E i \in Item : Submit(i) \/ Deliver(i) \/ Settle(i) \/ DeliverMoot(i)
  \/ \E S \in SUBSET Item : Reopen(S)

Spec == Init /\ [][Next]_deliveryVars

\* An item that has been delivered does not stay open for ever.
FairSpec == Spec /\ \A i \in Item : WF_deliveryVars(Settle(i))
=============================================================================
