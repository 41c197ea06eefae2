------------------------- MODULE DeliveryLifecycle -------------------------
(***************************************************************************)
(* What the gateway promises of a delivery, without tables, workers, time  *)
(* or retries: it is queued once, an endpoint may acknowledge it while it  *)
(* is queued, and it then ends, for good, either delivered - which takes   *)
(* an acknowledgement - or given up.  DeliveryWorker implements this       *)
(* specification: DeliveryRefinement has the mapping and the property TLC  *)
(* checks, DeliveryRefinementProofs the proof of its safety part.          *)
(***************************************************************************)
CONSTANT Deliveries

VARIABLES
    phase,   \* where each delivery is
    acked    \* the deliveries an endpoint has acknowledged

vars == <<phase, acked>>

Phases == {"none", "queued", "delivered", "given_up"}

Init ==
    /\ phase = [d \in Deliveries |-> "none"]
    /\ acked = {}

\* Any number of deliveries is queued at once: an event's fan-out.
Enqueue ==
    /\ \E new \in SUBSET {d \in Deliveries : phase[d] = "none"} :
         /\ new # {}
         /\ phase' = [d \in Deliveries |-> IF d \in new THEN "queued" ELSE phase[d]]
    /\ UNCHANGED acked

\* At least once: a delivery that is acknowledged already may be sent again.
Acknowledge(d) ==
    /\ phase[d] = "queued"
    /\ acked' = acked \cup {d}
    /\ UNCHANGED phase

Deliver(d) ==
    /\ phase[d] = "queued"
    /\ d \in acked
    /\ phase' = [phase EXCEPT ![d] = "delivered"]
    /\ UNCHANGED acked

\* Possible of an acknowledged delivery too: the acknowledgement can be lost.
GiveUp(d) ==
    /\ phase[d] = "queued"
    /\ phase' = [phase EXCEPT ![d] = "given_up"]
    /\ UNCHANGED acked

Settle(d) == Deliver(d) \/ GiveUp(d)

Next ==
    \/ Enqueue
    \/ \E d \in Deliveries : Acknowledge(d) \/ Settle(d)

Safety == Init /\ [][Next]_vars

Spec == Safety /\ \A d \in Deliveries : WF_vars(Settle(d))
============================================================================
