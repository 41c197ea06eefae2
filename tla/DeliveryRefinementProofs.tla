--------------------- MODULE DeliveryRefinementProofs ---------------------
(***************************************************************************)
(* DeliveryWorker implements the safety part of DeliveryLifecycle, for any *)
(* safe deployment: Init maps to Init, and every step to a step of a       *)
(* delivery's life or to none.                                             *)
(***************************************************************************)
EXTENDS DeliveryRefinement, DeliveryOutcomeProofs

\* The refinement mapping: what DeliveryLifecycle's phase is here.
phase == [d \in Deliveries |-> Phase(delivery[d])]

\* What the steps are shown under: exclusive claims make the row of a delivery
\* in hand a queued one, and confirmed answers make its acknowledgement known.
HInv == CInv /\ AInv

\* The phase of each status.
LEMMA PhaseValues ==
    ASSUME NEW r
    PROVE  /\ r.status = "none" => Phase(r) = "none"
           /\ r.status \in {"pending", "delivering"} => Phase(r) = "queued"
           /\ r.status = "delivered" => Phase(r) = "delivered"
           /\ r.status = "dead_lettered" => Phase(r) = "given_up"
    BY DEF Phase

\* Equal statuses are equal phases.
LEMMA SamePhase ==
    ASSUME NEW r, NEW s, r.status = s.status
    PROVE  Phase(r) = Phase(s)
    BY DEF Phase

\* Steps that keep each row's phase keep the abstract state.
LEMMA PhasesKept ==
    ASSUME \A d \in Deliveries : Phase(delivery'[d]) = Phase(delivery[d])
    PROVE  phase' = phase
    BY DEF phase

\* The outcome of an attempt settles the delivery in hand, or leaves it queued.
LEMMA AttemptRefines ==
    ASSUME HInv, NEW w \in Workers, UpdateDeliveryAttempt(w)
    PROVE  [Abstract!Next]_(Abstract!vars)
<1> DEFINE c == worker[w].cur
<1>0. /\ TInv /\ worker[w].pc \in {"delivered", "retry", "dead_lettered"}
      /\ UNCHANGED acked
      /\ delivery \in [Deliveries -> DeliveryRow]
    BY DEF HInv, CInv, TInv, TypeOK, UpdateDeliveryAttempt
<1>1. c \in Deliveries /\ delivery[c].status = "delivering"
    BY <1>0, CurFacts DEF HInv, CInv, Backed, Processing, PCs
<1>2. CASE UNCHANGED delivery
    BY <1>0, <1>2 DEF Abstract!vars
<1>3. CASE \E due \in BackoffDelays(AttemptsAfter(w)) :
             delivery' = [delivery EXCEPT ![c] = AttemptRow(@, Outcome(w), due)]
    <2>1. delivery'[c].status = Outcome(w)
        BY <1>0, <1>1, <1>3 DEF AttemptRow
    <2>2. \A d \in Deliveries : d # c => delivery'[d] = delivery[d]
        BY <1>0, <1>3
    <2>3. Phase(delivery[c]) = "queued"
        BY <1>1, PhaseValues
    <2>4. CASE worker[w].pc = "retry"
        <3>1. Phase(delivery'[c]) = "queued"
            BY <2>1, <2>4, PhaseValues DEF Outcome
        <3>2. phase' = phase
            BY <2>2, <2>3, <3>1, PhasesKept
        <3> QED BY <1>0, <3>2 DEF Abstract!vars, phase
    <2>5. ASSUME NEW p, Phase(delivery'[c]) = p PROVE phase' = [phase EXCEPT ![c] = p]
        BY <2>2, <2>5 DEF phase
    <2>6. CASE worker[w].pc = "delivered"
        <3>1. phase' = [phase EXCEPT ![c] = "delivered"]
            BY <2>1, <2>5, <2>6, PhaseValues DEF Outcome
        <3>2. c \in acked
            BY <2>6 DEF HInv, AInv, Confirmed
        <3>3. Abstract!Deliver(c)
            BY <1>0, <1>1, <2>3, <3>1, <3>2 DEF Abstract!Deliver, phase
        <3> QED BY <1>1, <3>3 DEF Abstract!Next, Abstract!Settle
    <2>7. CASE worker[w].pc = "dead_lettered"
        <3>1. phase' = [phase EXCEPT ![c] = "given_up"]
            BY <2>1, <2>5, <2>7, PhaseValues DEF Outcome
        <3>2. Abstract!GiveUp(c)
            BY <1>0, <1>1, <2>3, <3>1 DEF Abstract!GiveUp, phase
        <3> QED BY <1>1, <3>2 DEF Abstract!Next, Abstract!Settle
    <2> QED BY <1>0, <2>4, <2>6, <2>7
<1> QED BY <1>2, <1>3 DEF UpdateDeliveryAttempt

\* A request acknowledges the delivery in hand, or changes nothing.
LEMMA SendRefines ==
    ASSUME HInv, NEW w \in Workers, Send(w)
    PROVE  [Abstract!Next]_(Abstract!vars)
<1> DEFINE c == worker[w].cur
<1>1. c \in Deliveries /\ delivery[c].status = "delivering"
    BY CurFacts DEF HInv, CInv, Backed, Send, Processing, PCs
<1>2. UNCHANGED delivery /\ acked' \in {acked, acked \cup {c}}
    BY DEF Send
<1>3. phase[c] = "queued"
    BY <1>1, PhaseValues DEF phase
<1>4. acked' = acked \cup {c} => Abstract!Acknowledge(c)
    BY <1>2, <1>3 DEF Abstract!Acknowledge, phase
<1> QED BY <1>1, <1>2, <1>4 DEF Abstract!Next, Abstract!vars

\* The other steps of a worker move rows only within the queue.
LEMMA QueueRefines ==
    ASSUME HInv, NEW w \in Workers, WorkerStep(w), ~Send(w), ~UpdateDeliveryAttempt(w)
    PROVE  UNCHANGED <<phase, acked>>
<1>0. TInv /\ delivery \in [Deliveries -> DeliveryRow]
    BY DEF HInv, CInv, TInv, TypeOK
<1>1. UNCHANGED acked
    BY DEF WorkerStep, ResetStaleDelivering, ClaimPendingDeliveries, Claim, Load,
           MoveEndpointCircuitToHalfOpen, MarkEndpointDeliverySuccess,
           MarkEndpointDeliveryFailure, RescheduleDelivery
<1>2. ASSUME NEW d \in Deliveries
      PROVE  Phase(delivery'[d]) = Phase(delivery[d])
    <2>1. CASE UNCHANGED delivery
        BY <2>1
    <2>2. CASE ResetStaleDelivering(w)
        <3>1. CASE d \in Stale
            <4>1. delivery[d].status = "delivering" /\ delivery'[d].status = "pending"
                BY <1>0, <2>2, <3>1
                   DEF ResetStaleDelivering, Stale, IsStale, ResetRow, DeliveryRow
            <4> QED BY <4>1, PhaseValues
        <3>2. CASE d \notin Stale
            BY <2>2, <3>2 DEF ResetStaleDelivering
        <3> QED BY <3>1, <3>2
    <2>3. CASE ClaimPendingDeliveries(w)
        <3>1. PICK s \in SUBSET Ready :
                delivery' = [x \in Deliveries |->
                               IF x \in s THEN ClaimRow(delivery[x]) ELSE delivery[x]]
            BY <2>3 DEF ClaimPendingDeliveries, Claim
        <3>2. CASE d \in s
            <4>1. delivery[d].status = "pending" /\ delivery'[d].status = "delivering"
                BY <1>0, <3>1, <3>2, ClaimRowFields DEF Ready, IsReady
            <4> QED BY <4>1, PhaseValues
        <3>3. CASE d \notin s
            BY <3>1, <3>3
        <3> QED BY <3>2, <3>3
    <2>4. CASE RescheduleDelivery(w)
        <3>1. CASE d = worker[w].cur
            <4>1. delivery[d].status = "delivering"
                BY <1>0, <2>4, <3>1, CurFacts
                   DEF HInv, CInv, Backed, RescheduleDelivery, Processing, PCs
            <4>2. delivery'[d].status = "pending"
                BY <1>0, <2>4, <3>1 DEF RescheduleDelivery, RescheduleRow, DeliveryRow
            <4> QED BY <4>1, <4>2, PhaseValues
        <3>2. CASE d # worker[w].cur
            BY <1>0, <2>4, <3>2 DEF RescheduleDelivery
        <3> QED BY <3>1, <3>2
    <2> QED BY <2>1, <2>2, <2>3, <2>4
            DEF WorkerStep, Load, MoveEndpointCircuitToHalfOpen,
                MarkEndpointDeliverySuccess, MarkEndpointDeliveryFailure
<1> QED BY <1>1, <1>2, PhasesKept

\* Clients only put deliveries into the queue.
LEMMA ClientRefines ==
    ASSUME HInv, Client
    PROVE  [Abstract!Next]_(Abstract!vars)
<1> DEFINE new == {d \in Deliveries :
                     delivery[d].status = "none" /\ delivery'[d] = FreshDelivery}
<1>0. /\ UNCHANGED acked
      /\ \A d \in Deliveries : delivery'[d] = delivery[d] \/ d \in new
    BY ClientsInsert DEF HInv, CInv
<1>1. new \in SUBSET {d \in Deliveries : phase[d] = "none"}
    BY PhaseValues DEF phase
<1>2. Phase(FreshDelivery) = "queued"
    <2>1. FreshDelivery.status = "pending"
        BY DEF FreshDelivery, NoRow
    <2> QED BY <2>1, PhaseValues
<1>3. phase' = [d \in Deliveries |-> IF d \in new THEN "queued" ELSE phase[d]]
    BY <1>0, <1>2 DEF phase
<1> HIDE DEF new
<1>4. CASE new = {}
    <2>1. phase' = phase
        BY <1>3, <1>4 DEF phase
    <2> QED BY <1>0, <2>1 DEF Abstract!vars, phase
<1>5. CASE new # {}
    <2>1. Abstract!Enqueue
        BY <1>0, <1>1, <1>3, <1>5 DEF Abstract!Enqueue, phase
    <2> QED BY <2>1 DEF Abstract!Next
<1> QED BY <1>4, <1>5

\* Every step is a step of a delivery's life, or none.
LEMMA StepRefines ==
    ASSUME HInv, [Next]_vars
    PROVE  [Abstract!Next]_(Abstract!vars)
<1>0. /\ TInv
      /\ \A d \in Deliveries : delivery[d] \in DeliveryRow
    BY DEF HInv, CInv, TInv, TypeOK
<1>1. ASSUME UNCHANGED <<phase, acked>> PROVE UNCHANGED Abstract!vars
    BY <1>1 DEF Abstract!vars, phase
<1>2. ASSUME NEW w \in Workers, WorkerStep(w) PROVE [Abstract!Next]_(Abstract!vars)
    BY <1>1, <1>2, AttemptRefines, SendRefines, QueueRefines
<1>3. ASSUME NEW w \in Workers, StatementFails(w) \/ Crash(w)
      PROVE  UNCHANGED <<phase, acked>>
    BY <1>3 DEF StatementFails, Crash, phase
<1>4. ASSUME Tick PROVE UNCHANGED <<phase, acked>>
    <2>1. \A d \in Deliveries : Phase(delivery'[d]) = Phase(delivery[d])
        BY <1>0, <1>4, AgeFields, SamePhase DEF Tick
    <2> QED BY <1>4, <2>1, PhasesKept DEF Tick
<1>5. ASSUME UNCHANGED vars PROVE UNCHANGED <<phase, acked>>
    BY <1>5 DEF vars, phase
<1> QED BY <1>1, <1>2, <1>3, <1>4, <1>5, ClientRefines DEF Next

\* In a safe deployment a delivery is queued once, is settled only from the queue
\* and for good, and is delivered only if acknowledged, whatever resets, claims,
\* retries, reschedules, faults and clients do to its row on the way.
THEOREM LifecycleImplemented ==
    ASSUME SafeDeployment
    PROVE  Spec => LifecycleSafety
<1>1. Init => Abstract!Init
    <2>1. ASSUME Init PROVE acked = {} /\ \A d \in Deliveries : Phase(delivery[d]) = "none"
        BY <2>1, PhaseValues DEF Init, NoRow
    <2> QED BY <2>1 DEF Abstract!Init
<1>2. Init => HInv
    <2>1. Init => AInv
        BY AcknowledgedInit
    <2> QED BY <2>1, ClaimInit DEF HInv
<1>3. HInv /\ [Next]_vars => HInv'
    BY ClaimStep, AcknowledgedStep DEF HInv
<1>4. HInv /\ [Next]_vars => [Abstract!Next]_(Abstract!vars)
    BY StepRefines
<1> QED BY <1>1, <1>2, <1>3, <1>4, PTL DEF Spec, LifecycleSafety, Abstract!Safety
============================================================================
