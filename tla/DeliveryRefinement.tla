------------------------- MODULE DeliveryRefinement -------------------------
(***************************************************************************)
(* DeliveryWorker implements DeliveryLifecycle: a row is queued while it   *)
(* is pending or claimed, and its status says how it ended.                *)
(***************************************************************************)
EXTENDS DeliveryWorker

Phase(r) ==
    CASE r.status = "none" -> "none"
      [] r.status \in {"pending", "delivering"} -> "queued"
      [] r.status = "delivered" -> "delivered"
      [] OTHER -> "given_up"

Abstract == INSTANCE DeliveryLifecycle WITH
                phase <- [d \in Deliveries |-> Phase(delivery[d])]

\* Whatever the workers, the clock, the clients and the faults do to a row is
\* one of the steps a delivery's life allows, or no step of it at all.
LifecycleSafety == Abstract!Safety

\* And every delivery that was queued is settled.
Lifecycle == Abstract!Spec
=============================================================================
