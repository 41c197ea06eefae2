----------------------- MODULE DeliveryOutcomeProofs -----------------------
(***************************************************************************)
(* Theorems about what becomes of deliveries: what makes a row delivered,  *)
(* how often one is attempted, and what its stamps say.                    *)
(***************************************************************************)
EXTENDS DeliveryWorkerProofs

----------------------------------------------------------------------------
(* Where a worker goes, and which rows it writes *)

\* A worker that gives up, or has finished a delivery, is between deliveries.
Between(s) == s.pc \in {"reset", "load"} /\ s.http = 0

\* Every error leads out of processDelivery.
LEMMA ErrorsLeave ==
    ASSUME TInv, NEW w \in Workers, NEW t \in AfterError(w)
    PROVE  Between(t)
<1>1. worker[w] \in WorkerState /\ Local(worker[w])
    BY DEF TInv, TypeOK
<1>2. CASE worker[w].pc \in {"reset", "claim"}
    BY <1>2 DEF AfterError, Idle, Holding, Between
<1>3. CASE worker[w].pc = "load"
    <2>1. worker[w].batch \subseteq Deliveries
        BY <1>1 DEF WorkerState
    <2>2. PICK d \in worker[w].batch : t = Done(w, d)
        BY <1>3 DEF AfterError
    <2> QED BY <2>1, <2>2, DoneFacts DEF Between, Done, Holding
<1>4. CASE worker[w].pc \in Processing
    <2>1. t = Done(w, worker[w].cur)
        BY <1>4 DEF AfterError, Processing
    <2> QED BY <1>4, <2>1, CurFacts, DoneFacts DEF Between, Done, Holding
<1> QED BY <1>1, <1>2, <1>3, <1>4 DEF WorkerState, Processing

\* A statement leads where its code says, or out of processDelivery.
LEMMA ReplyLeads ==
    ASSUME TInv, NEW w \in Workers, NEW next, Reply(w, next)
    PROVE  \E t : /\ t = next \/ Between(t)
                  /\ worker' = [worker EXCEPT ![w] = t]
    BY ErrorsLeave DEF Reply

\* A step of w moves no other worker, and w to the state t.
LEMMA Moved ==
    ASSUME TInv, NEW w \in Workers, NEW t, worker' = [worker EXCEPT ![w] = t]
    PROVE  worker'[w] = t /\ \A v \in Workers : v # w => worker'[v] = worker[v]
    BY DEF TInv, TypeOK

\* A step of w is no step of another worker.
LEMMA OthersStay ==
    ASSUME TInv, NEW w \in Workers, WorkerStep(w), NEW v \in Workers, v # w
    PROVE  worker'[v] = worker[v]
    BY DEF TInv, TypeOK, WorkerStep, ResetStaleDelivering, ClaimPendingDeliveries, Claim,
           Load, MoveEndpointCircuitToHalfOpen, Send, MarkEndpointDeliverySuccess,
           MarkEndpointDeliveryFailure, UpdateDeliveryAttempt, RescheduleDelivery,
           Reply

\* What Send leaves of a worker: the answer, and where it goes with it.
LEMMA SendFacts ==
    ASSUME TInv, NEW w \in Workers, Send(w)
    PROVE  \E http \in HttpStatuses :
             /\ worker'[w].http = http
             /\ worker'[w].cur = worker[w].cur
             /\ worker'[w].pc = IF IsSuccess(http) THEN "mark_success" ELSE "mark_failure"
             /\ acked' = IF http \in 200..299 THEN acked \cup {worker[w].cur} ELSE acked
<1>0. worker[w] \in WorkerState /\ worker \in [Workers -> WorkerState]
    BY DEF TInv, TypeOK
<1>1. PICK http \in HttpStatuses :
        /\ worker' = [worker EXCEPT ![w] = [worker[w] EXCEPT
             !.http = http,
             !.pc = IF IsSuccess(http) THEN "mark_success" ELSE "mark_failure"]]
        /\ acked' = IF http \in 200..299 THEN acked \cup {worker[w].cur} ELSE acked
    BY <1>0 DEF Send
<1> DEFINE pc == IF IsSuccess(http) THEN "mark_success" ELSE "mark_failure"
           u == [worker[w] EXCEPT !.http = http]
<1>2. http \in 0..999
    BY HttpAssumption
<1>3. u \in WorkerState /\ u.http = http /\ u.cur = worker[w].cur
    BY <1>0, <1>2 DEF WorkerState
<1> HIDE DEF pc
<1>4. worker'[w] = [u EXCEPT !.pc = pc]
    BY <1>0, <1>1 DEF pc
<1> HIDE DEF u
<1>5. /\ worker'[w].http = http
      /\ worker'[w].cur = worker[w].cur
      /\ worker'[w].pc = pc
    BY <1>3, <1>4 DEF WorkerState
<1> QED BY <1>1, <1>5 DEF pc

\* What becomes of a row in a step of w: it stays as it is, is reset, claimed or
\* put off, or the outcome of the attempt w has in hand is written to it.
Written(w, d) ==
    \/ delivery'[d] = delivery[d]
    \/ delivery[d].status = "delivering" /\ delivery'[d] = ResetRow(delivery[d])
    \/ delivery[d].status = "pending" /\ delivery'[d] = ClaimRow(delivery[d])
    \/ /\ worker[w].pc = "reschedule"
       /\ d = worker[w].cur
       /\ delivery'[d] = RescheduleRow(delivery[d], worker[w].cooldown)
    \/ /\ worker[w].pc \in {"delivered", "retry", "dead_lettered"}
       /\ d = worker[w].cur
       /\ \E due \in 0..MaxDelay :
            delivery'[d] = AttemptRow(delivery[d], Outcome(w), due)

\* Each statement is one of these for each row.
LEMMA RowsWritten ==
    ASSUME TInv, NEW w \in Workers, WorkerStep(w), NEW d \in Deliveries
    PROVE  Written(w, d)
<1>0. delivery \in [Deliveries -> DeliveryRow]
    BY DEF TInv, TypeOK
<1>1. CASE ResetStaleDelivering(w)
    BY <1>0, <1>1 DEF ResetStaleDelivering, Stale, IsStale, Written
<1>2. CASE ClaimPendingDeliveries(w)
    BY <1>0, <1>2 DEF ClaimPendingDeliveries, Claim, Ready, IsReady, Written
<1>3. CASE UNCHANGED delivery
    BY <1>3 DEF Written
<1>4. CASE UpdateDeliveryAttempt(w)
    <2>1. CASE UNCHANGED delivery
        BY <1>3, <2>1
    <2>2. CASE \E due \in BackoffDelays(AttemptsAfter(w)) :
                 delivery' = [delivery EXCEPT ![worker[w].cur] =
                                AttemptRow(@, Outcome(w), due)]
        <3>1. PICK due \in 0..MaxDelay :
                delivery' = [delivery EXCEPT ![worker[w].cur] =
                               AttemptRow(@, Outcome(w), due)]
            BY <2>2, BackoffBounds
        <3> QED BY <1>0, <1>4, <3>1 DEF UpdateDeliveryAttempt, Written
    <2> QED BY <1>4, <2>1, <2>2 DEF UpdateDeliveryAttempt
<1>5. CASE RescheduleDelivery(w)
    BY <1>0, <1>5 DEF RescheduleDelivery, Written
<1> QED BY <1>1, <1>2, <1>3, <1>4, <1>5
        DEF WorkerStep, Load, MoveEndpointCircuitToHalfOpen, Send,
            MarkEndpointDeliverySuccess, MarkEndpointDeliveryFailure

\* What each kind of write leaves in the columns the theorems are about.
LEMMA WrittenFields ==
    ASSUME TInv, NEW w \in Workers, NEW d \in Deliveries, Written(w, d)
    PROVE  \/ /\ delivery'[d].status = delivery[d].status
              /\ delivery'[d].attempts = delivery[d].attempts
           \/ /\ delivery'[d].status \in {"pending", "delivering"}
              /\ delivery'[d].attempts = delivery[d].attempts
              /\ \/ delivery[d].status \in {"pending", "delivering"}
                 \/ worker[w].pc = "reschedule" /\ d = worker[w].cur
           \/ /\ delivery'[d].status = Outcome(w)
              /\ delivery'[d].attempts = delivery[d].attempts + 1
              /\ worker[w].pc \in {"delivered", "retry", "dead_lettered"}
              /\ d = worker[w].cur
<1>1. delivery[d] \in DeliveryRow
    BY DEF TInv, TypeOK
<1>2. /\ ResetRow(delivery[d]).status = "pending"
      /\ ResetRow(delivery[d]).attempts = delivery[d].attempts
    BY <1>1, Zenon DEF ResetRow, DeliveryRow
<1>3. ASSUME NEW due
      PROVE  /\ RescheduleRow(delivery[d], due).status = "pending"
             /\ RescheduleRow(delivery[d], due).attempts = delivery[d].attempts
    BY <1>1, Zenon DEF RescheduleRow, DeliveryRow
<1>4. ASSUME NEW due
      PROVE  /\ AttemptRow(delivery[d], Outcome(w), due).status = Outcome(w)
             /\ AttemptRow(delivery[d], Outcome(w), due).attempts
                   = delivery[d].attempts + 1
    BY DEF AttemptRow
<1> QED BY <1>1, <1>2, <1>3, <1>4, ClaimRowFields DEF Written

\* Faults write no row.
LEMMA FaultsWriteNothing ==
    ASSUME TInv, NEW w \in Workers, StatementFails(w) \/ Crash(w)
    PROVE  /\ UNCHANGED <<delivery, endpoint, acked, sends>>
           /\ \E t : Between(t) /\ worker' = [worker EXCEPT ![w] = t]
    BY ErrorsLeave DEF StatementFails, Crash, Between, Idle, Holding

\* Clients insert rows and leave those that exist alone.
LEMMA ClientsInsert ==
    ASSUME TInv, Client
    PROVE  /\ UNCHANGED <<worker, faults, acked, sends>>
           /\ \A d \in Deliveries :
                \/ delivery'[d] = delivery[d]
                \/ delivery[d].status = "none" /\ delivery'[d] = FreshDelivery
<1> DEFINE Inserted == \A d \in Deliveries :
                         \/ delivery'[d] = delivery[d]
                         \/ delivery[d].status = "none" /\ delivery'[d] = FreshDelivery
<1>0. delivery \in [Deliveries -> DeliveryRow]
    BY DEF TInv, TypeOK
<1>1. ASSUME NEW d \in Deliveries, CreateDelivery(d)
      PROVE  UNCHANGED <<worker, faults, acked, sends>> /\ Inserted
    BY <1>0, <1>1 DEF CreateDelivery
<1>2. ASSUME NEW e \in Events, CreateDeliveriesForEvent(e)
      PROVE  UNCHANGED <<worker, faults, acked, sends>> /\ Inserted
    BY <1>2 DEF CreateDeliveriesForEvent
<1>3. ASSUME NEW p \in Endpoints, UpdateEndpoint(p)
      PROVE  UNCHANGED <<worker, faults, acked, sends>> /\ Inserted
    BY <1>3 DEF UpdateEndpoint
<1> QED BY <1>1, <1>2, <1>3 DEF Client

----------------------------------------------------------------------------
(* Only what was acknowledged is delivered *)

\* A worker on its way to markDelivered has an acknowledgement in hand.
Confirmed(s, acks) == s.pc \in {"mark_success", "delivered"} => s.cur \in acks

AInv ==
    /\ TInv
    /\ \A w \in Workers : Confirmed(worker[w], acked)
    /\ DeliveredWasAcknowledged

\* Acknowledgements are never forgotten.
LEMMA AcksGrow ==
    ASSUME NEW w \in Workers, WorkerStep(w)
    PROVE  acked \subseteq acked'
    BY DEF WorkerStep, ResetStaleDelivering, ClaimPendingDeliveries, Claim, Load,
           MoveEndpointCircuitToHalfOpen, Send, MarkEndpointDeliverySuccess,
           MarkEndpointDeliveryFailure, UpdateDeliveryAttempt, RescheduleDelivery

\* Only Send goes to mark_success, and only mark_success to delivered.
LEMMA ConfirmedStep ==
    ASSUME AInv, NEW w \in Workers, WorkerStep(w)
    PROVE  Confirmed(worker'[w], acked')
<1>0. TInv /\ worker[w] \in WorkerState /\ worker \in [Workers -> WorkerState]
    BY DEF AInv, TInv, TypeOK
<1>1. ASSUME NEW t, worker' = [worker EXCEPT ![w] = t],
             t.pc \notin {"mark_success", "delivered"}
      PROVE  Confirmed(worker'[w], acked')
    BY <1>0, <1>1 DEF Confirmed
<1>2. ASSUME NEW next, Reply(w, next), next.pc \notin {"mark_success", "delivered"}
      PROVE  Confirmed(worker'[w], acked')
    BY <1>0, <1>1, <1>2, ReplyLeads DEF Between
<1>3. ASSUME NEW pc \in PCs PROVE Goto(w, pc).pc = pc /\ Goto(w, pc).cur = worker[w].cur
    BY <1>0 DEF Goto, WorkerState
<1>4. CASE ResetStaleDelivering(w)
    BY <1>2, <1>3, <1>4 DEF ResetStaleDelivering, PCs
<1>5. CASE ClaimPendingDeliveries(w)
    BY <1>2, <1>5 DEF ClaimPendingDeliveries, Claim, Holding
<1>6. CASE Load(w)
    BY <1>1, <1>6 DEF Load
<1>7. CASE MoveEndpointCircuitToHalfOpen(w)
    BY <1>2, <1>3, <1>7 DEF MoveEndpointCircuitToHalfOpen, PCs
<1>8. CASE Send(w)
    <2>1. PICK http \in HttpStatuses :
            /\ worker'[w].cur = worker[w].cur
            /\ worker'[w].pc = IF IsSuccess(http) THEN "mark_success" ELSE "mark_failure"
            /\ acked' = IF http \in 200..299 THEN acked \cup {worker[w].cur} ELSE acked
        BY <1>0, <1>8, SendFacts
    <2>2. http \in 0..999
        BY HttpAssumption
    <2> QED BY <2>1, <2>2 DEF Confirmed, IsSuccess
<1>9. CASE MarkEndpointDeliverySuccess(w)
    <2>1. PICK t : /\ t = Goto(w, "delivered") \/ Between(t)
                   /\ worker' = [worker EXCEPT ![w] = t]
        BY <1>0, <1>9, ReplyLeads DEF MarkEndpointDeliverySuccess
    <2>2. worker[w].cur \in acked'
        BY <1>9 DEF MarkEndpointDeliverySuccess, AInv, Confirmed
    <2> QED BY <1>0, <1>3, <2>1, <2>2 DEF Confirmed, Between, PCs
<1>10. CASE MarkEndpointDeliveryFailure(w)
    BY <1>2, <1>3, <1>10 DEF MarkEndpointDeliveryFailure, PCs
<1>11. CASE UpdateDeliveryAttempt(w) \/ RescheduleDelivery(w)
    <2>1. worker[w].pc \in Processing
        BY <1>11 DEF UpdateDeliveryAttempt, RescheduleDelivery, Processing, PCs
    <2>2. Done(w, worker[w].cur).pc \in {"reset", "load"}
        BY <1>0, <2>1, CurFacts, DoneFacts
    <2> QED BY <1>1, <1>2, <1>11, <2>2 DEF UpdateDeliveryAttempt, RescheduleDelivery
<1> QED BY <1>4, <1>5, <1>6, <1>7, <1>8, <1>9, <1>10, <1>11 DEF WorkerStep

\* AInv is inductive, with no assumption about claims.
LEMMA AcknowledgedStep == AInv /\ [Next]_vars => AInv'
<1> SUFFICES ASSUME AInv, [Next]_vars
             PROVE  /\ \A w \in Workers : Confirmed(worker'[w], acked')
                    /\ DeliveredWasAcknowledged'
    BY TypeStep DEF AInv
<1>0. TInv
    BY DEF AInv
<1>1. ASSUME NEW w \in Workers, WorkerStep(w)
      PROVE  /\ \A v \in Workers : Confirmed(worker'[v], acked')
             /\ DeliveredWasAcknowledged'
    <2>1. acked \subseteq acked'
        BY <1>1, AcksGrow
    <2>2. ASSUME NEW v \in Workers, v # w PROVE worker'[v] = worker[v]
        BY <1>0, <1>1, <2>2, OthersStay
    <2>3. \A v \in Workers : Confirmed(worker'[v], acked')
        BY <1>1, <2>1, <2>2, ConfirmedStep DEF AInv, Confirmed
    <2>4. ASSUME NEW d \in Deliveries, delivery'[d].status = "delivered"
          PROVE  d \in acked'
        <3>1. \/ delivery[d].status = "delivered"
              \/ worker[w].pc = "delivered" /\ d = worker[w].cur
            BY <1>0, <1>1, <2>4, RowsWritten, WrittenFields DEF Outcome
        <3>2. d \in acked
            BY <3>1 DEF AInv, DeliveredWasAcknowledged, Confirmed
        <3> QED BY <2>1, <3>2
    <2> QED BY <2>3, <2>4 DEF DeliveredWasAcknowledged
<1>2. ASSUME NEW w \in Workers, StatementFails(w) \/ Crash(w)
      PROVE  /\ \A v \in Workers : Confirmed(worker'[v], acked')
             /\ DeliveredWasAcknowledged'
    <2>1. PICK t : Between(t) /\ worker' = [worker EXCEPT ![w] = t]
        BY <1>0, <1>2, FaultsWriteNothing
    <2>2. UNCHANGED <<delivery, acked>>
        BY <1>0, <1>2, FaultsWriteNothing
    <2>3. worker'[w] = t /\ \A v \in Workers : v # w => worker'[v] = worker[v]
        BY <1>0, <2>1, Moved
    <2> QED BY <2>1, <2>2, <2>3 DEF AInv, Confirmed, Between, DeliveredWasAcknowledged
<1>3. CASE Client
    <2>1. UNCHANGED <<worker, acked>>
        BY <1>0, <1>3, ClientsInsert
    <2>2. \A d \in Deliveries :
            delivery'[d] = delivery[d] \/ delivery'[d].status = "pending"
        BY <1>0, <1>3, ClientsInsert DEF FreshDelivery, NoRow
    <2> QED BY <2>1, <2>2 DEF AInv, Confirmed, DeliveredWasAcknowledged
<1>4. CASE Tick
    <2>1. \A w \in Workers : /\ worker'[w].pc = worker[w].pc
                             /\ worker'[w].cur = worker[w].cur
        BY <1>0, <1>4, TickWorkers
    <2>2. \A d \in Deliveries : delivery'[d].status = delivery[d].status
        BY <1>0, <1>4, AgeFields DEF Tick, TInv, TypeOK
    <2>3. acked' = acked
        BY <1>4 DEF Tick
    <2> QED BY <2>1, <2>2, <2>3 DEF AInv, Confirmed, DeliveredWasAcknowledged
<1>5. CASE UNCHANGED vars
    BY <1>5 DEF vars, AInv, Confirmed, DeliveredWasAcknowledged
<1> QED BY <1>1, <1>2, <1>3, <1>4, <1>5 DEF Next

\* At the start nobody is on the way, and nothing is delivered.
LEMMA AcknowledgedInit == Init => AInv
<1>1. ASSUME Init
      PROVE  /\ \A w \in Workers : worker[w].pc = "reset"
             /\ \A d \in Deliveries : delivery[d].status = "none"
    BY <1>1 DEF Init, Idle, Holding, NoRow
<1> QED BY <1>1, TypeInit DEF AInv, Confirmed, DeliveredWasAcknowledged

\* With any number of workers, overlapping or not, and any faults, a row is marked
\* delivered only if its endpoint has answered a request for it with 2xx: the way
\* from the answer to markDelivered keeps to the delivery it was an answer for.
THEOREM OnlyAcknowledged == Spec => []DeliveredWasAcknowledged
<1>1. AInv => DeliveredWasAcknowledged
    BY DEF AInv
<1> QED BY <1>1, AcknowledgedInit, AcknowledgedStep, PTL DEF Spec

----------------------------------------------------------------------------
(* Attempts are limited *)

\* A worker retries only if that leaves attempts under every endpoint's limit.
Allowed(s) == s.pc = "retry" => s.seen[s.cur] + 1 < MaxAttemptsLimit

LInv ==
    /\ CInv
    /\ \A w \in Workers : Allowed(worker[w])
    /\ AttemptLimit

\* Only the decision after a failure goes to retry, with the count in the batch
\* and a limit that was some endpoint's when it was read.
LEMMA AllowedStep ==
    ASSUME TInv, NEW w \in Workers, WorkerStep(w)
    PROVE  Allowed(worker'[w])
<1>0. worker[w] \in WorkerState /\ worker \in [Workers -> WorkerState]
    BY DEF TInv, TypeOK
<1>1. ASSUME NEW t, worker' = [worker EXCEPT ![w] = t], t.pc # "retry"
      PROVE  Allowed(worker'[w])
    BY <1>0, <1>1 DEF Allowed
<1>2. ASSUME NEW next, Reply(w, next), next.pc # "retry"
      PROVE  Allowed(worker'[w])
    BY <1>0, <1>1, <1>2, ReplyLeads DEF Between
<1>3. ASSUME NEW pc \in PCs
      PROVE  /\ Goto(w, pc).pc = pc
             /\ Goto(w, pc).cur = worker[w].cur
             /\ Goto(w, pc).seen = worker[w].seen
    BY <1>0 DEF Goto, WorkerState
<1>4. CASE ResetStaleDelivering(w)
    BY <1>2, <1>3, <1>4 DEF ResetStaleDelivering, PCs
<1>5. CASE ClaimPendingDeliveries(w)
    BY <1>2, <1>5 DEF ClaimPendingDeliveries, Claim, Holding
<1>6. CASE Load(w)
    BY <1>1, <1>6 DEF Load
<1>7. CASE MoveEndpointCircuitToHalfOpen(w) \/ MarkEndpointDeliverySuccess(w)
    BY <1>2, <1>3, <1>7
       DEF MoveEndpointCircuitToHalfOpen, MarkEndpointDeliverySuccess, PCs
<1>8. CASE Send(w)
    BY <1>8, SendFacts DEF Allowed
<1>9. CASE MarkEndpointDeliveryFailure(w)
    <2> DEFINE pc == IF GivesUp(w) THEN "dead_lettered" ELSE "retry"
    <2>1. PICK t : /\ t = Goto(w, pc) \/ Between(t)
                   /\ worker' = [worker EXCEPT ![w] = t]
        BY <1>9, ReplyLeads DEF MarkEndpointDeliveryFailure
    <2>2. pc = "retry" => worker[w].seen[worker[w].cur] + 1 < MaxAttemptsLimit
        <3>1. worker[w].cur \in Deliveries
            BY <1>9, CurFacts DEF MarkEndpointDeliveryFailure, Processing, PCs
        <3>2. /\ worker[w].seen[worker[w].cur] \in Nat
              /\ worker[w].max_attempts \in 0..MaxAttemptsLimit
            BY <1>0, <3>1 DEF WorkerState
        <3> QED BY <3>2, ConfigAssumption DEF GivesUp, AttemptsAfter
    <2> HIDE DEF pc
    <2>3. pc \in PCs
        BY DEF pc, PCs
    <2> QED BY <1>0, <1>3, <2>1, <2>2, <2>3 DEF Allowed, Between
<1>10. CASE UpdateDeliveryAttempt(w) \/ RescheduleDelivery(w)
    <2>1. worker[w].pc \in Processing
        BY <1>10 DEF UpdateDeliveryAttempt, RescheduleDelivery, Processing, PCs
    <2>2. Done(w, worker[w].cur).pc \in {"reset", "load"}
        BY <2>1, CurFacts, DoneFacts
    <2> QED BY <1>1, <1>2, <1>10, <2>2 DEF UpdateDeliveryAttempt, RescheduleDelivery
<1> QED BY <1>4, <1>5, <1>6, <1>7, <1>8, <1>9, <1>10 DEF WorkerStep

\* AttemptLimit of one row.
Limited(r) ==
    /\ r.attempts <= MaxAttemptsLimit
    /\ r.status \notin Terminal => r.attempts < MaxAttemptsLimit

\* LInv is inductive where claims are exclusive.
LEMMA LimitStep == SafeDeployment /\ LInv /\ [Next]_vars => LInv'
<1> SUFFICES ASSUME SafeDeployment, LInv, [Next]_vars
             PROVE  /\ \A w \in Workers : Allowed(worker'[w])
                    /\ \A d \in Deliveries : Limited(delivery'[d])
    BY ClaimStep DEF LInv, AttemptLimit, Limited
<1>0. /\ CInv /\ TInv
      /\ \A w \in Workers : Allowed(worker[w])
      /\ \A d \in Deliveries : Limited(delivery[d]) /\ delivery[d] \in DeliveryRow
    BY DEF LInv, CInv, TInv, TypeOK, AttemptLimit, Limited
<1>1. ASSUME NEW w \in Workers, WorkerStep(w)
      PROVE  /\ \A v \in Workers : Allowed(worker'[v])
             /\ \A d \in Deliveries : Limited(delivery'[d])
    <2>1. ASSUME NEW v \in Workers, v # w PROVE worker'[v] = worker[v]
        BY <1>0, <1>1, <2>1, OthersStay
    <2>2. \A v \in Workers : Allowed(worker'[v])
        BY <1>0, <1>1, <2>1, AllowedStep
    <2>3. ASSUME NEW d \in Deliveries PROVE Limited(delivery'[d])
        <3>1. Written(w, d)
            BY <1>0, <1>1, RowsWritten
        <3>2. CASE /\ delivery'[d].status = delivery[d].status
                   /\ delivery'[d].attempts = delivery[d].attempts
            BY <1>0, <3>2 DEF Limited
        <3>3. CASE /\ delivery'[d].attempts = delivery[d].attempts
                   /\ \/ delivery[d].status \in {"pending", "delivering"}
                      \/ worker[w].pc = "reschedule" /\ d = worker[w].cur
            <4>1. delivery[d].status \in {"pending", "delivering"}
                BY <1>0, <3>3, CurFacts DEF CInv, Backed, Processing, PCs
            <4> QED BY <1>0, <3>3, <4>1, ConfigAssumption
                    DEF Limited, Terminal, DeliveryRow
        <3>4. CASE /\ delivery'[d].status = Outcome(w)
                   /\ delivery'[d].attempts = delivery[d].attempts + 1
                   /\ worker[w].pc \in {"delivered", "retry", "dead_lettered"}
                   /\ d = worker[w].cur
            <4>1. /\ delivery[d].status = "delivering"
                  /\ delivery[d].attempts = worker[w].seen[d]
                BY <1>0, <3>4, CurFacts DEF CInv, Backed, Processing, PCs
            <4>2. Outcome(w) \notin Terminal => worker[w].pc = "retry"
                BY <3>4 DEF Outcome, Terminal
            <4>3. delivery[d].attempts < MaxAttemptsLimit /\ delivery[d].attempts \in Nat
                BY <1>0, <4>1 DEF Limited, Terminal, DeliveryRow
            <4> QED BY <1>0, <3>4, <4>1, <4>2, <4>3, ConfigAssumption
                    DEF Limited, Allowed
        <3> QED BY <1>0, <3>1, <3>2, <3>3, <3>4, WrittenFields
    <2> QED BY <2>2, <2>3
<1>2. ASSUME NEW w \in Workers, StatementFails(w) \/ Crash(w)
      PROVE  /\ \A v \in Workers : Allowed(worker'[v])
             /\ \A d \in Deliveries : Limited(delivery'[d])
    <2>1. PICK t : Between(t) /\ worker' = [worker EXCEPT ![w] = t]
        BY <1>0, <1>2, FaultsWriteNothing
    <2>2. UNCHANGED delivery
        BY <1>0, <1>2, FaultsWriteNothing
    <2>3. worker'[w] = t /\ \A v \in Workers : v # w => worker'[v] = worker[v]
        BY <1>0, <2>1, Moved
    <2> QED BY <1>0, <2>1, <2>2, <2>3 DEF Allowed, Between
<1>3. CASE Client
    <2>1. UNCHANGED worker
        BY <1>0, <1>3, ClientsInsert
    <2>2. Limited(FreshDelivery)
        BY ConfigAssumption DEF Limited, FreshDelivery, NoRow
    <2>3. \A d \in Deliveries : delivery'[d] \in {delivery[d], FreshDelivery}
        BY <1>0, <1>3, ClientsInsert
    <2> QED BY <1>0, <2>1, <2>2, <2>3
<1>4. CASE Tick
    <2>1. \A w \in Workers : Allowed(worker'[w])
        BY <1>0, <1>4, TickWorkers DEF Allowed
    <2>2. \A d \in Deliveries : /\ delivery'[d].status = delivery[d].status
                                /\ delivery'[d].attempts = delivery[d].attempts
        BY <1>0, <1>4, AgeFields DEF Tick
    <2> QED BY <1>0, <2>1, <2>2 DEF Limited
<1>5. CASE UNCHANGED vars
    BY <1>0, <1>5 DEF vars
<1> QED BY <1>1, <1>2, <1>3, <1>4, <1>5 DEF Next

\* In a safe deployment no delivery is attempted more often than the largest limit
\* an endpoint may have, however limits are changed while it is worked on: the
\* worker compares the count it claimed, which is still the row's when it writes.
THEOREM AttemptsLimited ==
    ASSUME SafeDeployment
    PROVE  Spec => []AttemptLimit
<1>1. Init => LInv
    <2>1. ASSUME Init
          PROVE  /\ \A w \in Workers : worker[w].pc = "reset"
                 /\ \A d \in Deliveries : delivery[d].attempts = 0
        BY <2>1 DEF Init, Idle, Holding, NoRow
    <2> QED BY <2>1, ClaimInit, ConfigAssumption DEF LInv, Allowed, AttemptLimit
<1>2. LInv /\ [Next]_vars => LInv'
    BY LimitStep
<1>3. LInv => AttemptLimit
    BY DEF LInv
<1> QED BY <1>1, <1>2, <1>3, PTL DEF Spec

----------------------------------------------------------------------------
(* Stamps say what the status says *)

\* StampsMatchStatus of one row.
Stamped(r) ==
    /\ r.delivered_at <=> r.status = "delivered"
    /\ r.dead_lettered_at <=> r.status = "dead_lettered"

\* The statements that keep the stamps of a row that is not done, and the clock.
LEMMA StampedRows ==
    ASSUME NEW r \in DeliveryRow, Stamped(r)
    PROVE  /\ Stamped(AgeDelivery(r))
           /\ r.status \in {"pending", "delivering"} =>
                /\ Stamped(ResetRow(r))
                /\ Stamped(ClaimRow(r))
                /\ \A due : Stamped(RescheduleRow(r, due))
<1>1. Stamped(AgeDelivery(r))
    BY Zenon DEF Stamped, AgeDelivery, DeliveryRow
<1>2. ASSUME r.status \in {"pending", "delivering"}
      PROVE  ~r.delivered_at /\ ~r.dead_lettered_at
    BY <1>2 DEF Stamped
<1>3. /\ ResetRow(r).status = "pending"
      /\ ResetRow(r).delivered_at = r.delivered_at
      /\ ResetRow(r).dead_lettered_at = r.dead_lettered_at
    BY Zenon DEF ResetRow, DeliveryRow
<1>4. /\ ClaimRow(r).status = "delivering"
      /\ ClaimRow(r).delivered_at = r.delivered_at
      /\ ClaimRow(r).dead_lettered_at = r.dead_lettered_at
    BY Zenon DEF ClaimRow, DeliveryRow
<1>5. \A due : /\ RescheduleRow(r, due).status = "pending"
               /\ RescheduleRow(r, due).delivered_at = r.delivered_at
               /\ RescheduleRow(r, due).dead_lettered_at = r.dead_lettered_at
    BY Zenon DEF RescheduleRow, DeliveryRow
<1> QED BY <1>1, <1>2, <1>3, <1>4, <1>5 DEF Stamped

\* UpdateDeliveryAttempt sets both stamps by the status it writes.
LEMMA AttemptStamps ==
    ASSUME NEW r, NEW status, NEW due
    PROVE  Stamped(AttemptRow(r, status, due))
<1>1. /\ AttemptRow(r, status, due).status = status
      /\ AttemptRow(r, status, due).delivered_at = (status = "delivered")
      /\ AttemptRow(r, status, due).dead_lettered_at = (status = "dead_lettered")
    BY Zenon DEF AttemptRow
<1> QED BY <1>1, Zenon DEF Stamped

SInv == CInv /\ StampsMatchStatus

\* SInv is inductive where claims are exclusive.
LEMMA StampsStep == SafeDeployment /\ SInv /\ [Next]_vars => SInv'
<1> SUFFICES ASSUME SafeDeployment, SInv, [Next]_vars
             PROVE  \A d \in Deliveries : Stamped(delivery'[d])
    BY ClaimStep DEF SInv, StampsMatchStatus, Stamped
<1>0. /\ CInv /\ TInv
      /\ \A d \in Deliveries : Stamped(delivery[d]) /\ delivery[d] \in DeliveryRow
    BY DEF SInv, CInv, TInv, TypeOK, StampsMatchStatus, Stamped
<1>1. ASSUME NEW w \in Workers, WorkerStep(w), NEW d \in Deliveries
      PROVE  Stamped(delivery'[d])
    <2>1. Written(w, d)
        BY <1>0, <1>1, RowsWritten
    <2>2. CASE delivery'[d] = delivery[d]
        BY <1>0, <2>2
    <2>3. CASE \/ delivery[d].status = "delivering" /\ delivery'[d] = ResetRow(delivery[d])
               \/ delivery[d].status = "pending" /\ delivery'[d] = ClaimRow(delivery[d])
        BY <1>0, <2>3, StampedRows
    <2>4. CASE /\ worker[w].pc = "reschedule"
               /\ d = worker[w].cur
               /\ delivery'[d] = RescheduleRow(delivery[d], worker[w].cooldown)
        <3>1. delivery[d].status = "delivering"
            BY <1>0, <2>4, CurFacts DEF CInv, Backed, Processing, PCs
        <3> QED BY <1>0, <2>4, <3>1, StampedRows
    <2>5. CASE \E due \in 0..MaxDelay :
                 delivery'[d] = AttemptRow(delivery[d], Outcome(w), due)
        BY <2>5, AttemptStamps
    <2> QED BY <2>1, <2>2, <2>3, <2>4, <2>5 DEF Written
<1>2. ASSUME NEW w \in Workers, StatementFails(w) \/ Crash(w)
      PROVE  UNCHANGED delivery
    BY <1>2 DEF StatementFails, Crash
<1>3. CASE Client
    <2>1. Stamped(FreshDelivery)
        BY DEF Stamped, FreshDelivery, NoRow
    <2> QED BY <1>0, <1>3, <2>1, ClientsInsert
<1>4. CASE Tick
    BY <1>0, <1>4, StampedRows DEF Tick
<1>5. UNCHANGED delivery => \A d \in Deliveries : Stamped(delivery'[d])
    BY <1>0
<1> QED BY <1>1, <1>2, <1>3, <1>4, <1>5 DEF Next, vars

\* In a safe deployment delivered_at and dead_lettered_at are set exactly while
\* the status says so, although RescheduleDelivery, ResetStaleDelivering and the
\* claim keep both as they find them.
THEOREM StampsSound ==
    ASSUME SafeDeployment
    PROVE  Spec => []StampsMatchStatus
<1>1. Init => SInv
    BY ClaimInit DEF Init, NoRow, SInv, StampsMatchStatus
<1>2. SInv /\ [Next]_vars => SInv'
    BY StampsStep
<1>3. SInv => StampsMatchStatus
    BY DEF SInv
<1> QED BY <1>1, <1>2, <1>3, PTL DEF Spec

----------------------------------------------------------------------------
(* Retries wait, and the circuit changes only for a reason *)

\* A backoff is at least the delay it is made of, whatever its jitter.
LEMMA BackoffReached ==
    ASSUME NEW n, NEW due \in BackoffDelays(n)
    PROVE  due >= MaxBackoff \/ due >= BaseBackoff * (2 ^ (n - 1))
<1> DEFINE power == BaseBackoff * (2 ^ (n - 1))
           delay == IF power > MaxBackoff THEN MaxBackoff ELSE power
<1>1. due \in 0..MaxDelay /\ (due = delay \/ delay <= due)
    BY DEF BackoffDelays
<1>2. due \in Int
    BY <1>1, DelayBounds
<1> HIDE DEF power
<1>3. due >= MaxBackoff \/ due >= power
    BY <1>1, <1>2
<1> QED BY <1>3 DEF power

\* RetryBackoff of one step.
Waits ==
    \A d \in Deliveries :
      LET n == delivery'[d].attempts IN
      n > delivery[d].attempts /\ delivery'[d].status = "pending"
        => \/ delivery'[d].due_in >= MaxBackoff
           \/ delivery'[d].due_in >= BaseBackoff * (2 ^ (n - 1))

\* Only UpdateDeliveryAttempt counts, and it waits the backoff of its count.
LEMMA BackoffStep == CInv /\ [Next]_vars => Waits
<1> SUFFICES ASSUME CInv, [Next]_vars, NEW d \in Deliveries,
                    delivery'[d].attempts > delivery[d].attempts,
                    delivery'[d].status = "pending"
             PROVE  \/ delivery'[d].due_in >= MaxBackoff
                    \/ delivery'[d].due_in >=
                         BaseBackoff * (2 ^ (delivery'[d].attempts - 1))
    BY DEF Waits
<1>0. TInv /\ delivery[d] \in DeliveryRow /\ delivery[d].attempts \in Nat
      /\ delivery \in [Deliveries -> DeliveryRow]
    BY DEF CInv, TInv, TypeOK, DeliveryRow
<1>1. delivery'[d].attempts # delivery[d].attempts
    BY <1>0
<1>2. PICK w \in Workers : WorkerStep(w)
    <2>1. CASE \E w \in Workers : StatementFails(w) \/ Crash(w)
        BY <1>1, <2>1 DEF StatementFails, Crash
    <2>2. CASE Client
        BY <1>0, <2>2, ClientsInsert DEF FreshDelivery, NoRow
    <2>3. CASE Tick
        BY <1>0, <1>1, <2>3, AgeFields DEF Tick
    <2>4. CASE UNCHANGED vars
        BY <1>1, <2>4 DEF vars
    <2> QED BY <2>1, <2>2, <2>3, <2>4 DEF Next
<1>3. worker[w].cur = d /\ worker[w].pc \in {"delivered", "retry", "dead_lettered"}
    BY <1>0, <1>1, <1>2, RowsWritten, WrittenFields
<1>4. UpdateDeliveryAttempt(w)
    BY <1>2, <1>3 DEF WorkerStep, ResetStaleDelivering, ClaimPendingDeliveries, Claim, Load,
          MoveEndpointCircuitToHalfOpen, Send, MarkEndpointDeliverySuccess,
          MarkEndpointDeliveryFailure, RescheduleDelivery
<1>5. PICK due \in BackoffDelays(AttemptsAfter(w)) :
        delivery'[d] = AttemptRow(delivery[d], Outcome(w), due)
    BY <1>0, <1>1, <1>3, <1>4 DEF UpdateDeliveryAttempt
<1>6. delivery'[d].due_in = due /\ delivery'[d].attempts = delivery[d].attempts + 1
    BY <1>5 DEF AttemptRow
<1>7. AttemptsAfter(w) = delivery'[d].attempts
    BY <1>0, <1>3, <1>6, CurFacts DEF CInv, Backed, AttemptsAfter, Processing, PCs
<1> QED BY <1>5, <1>6, <1>7, BackoffReached

\* In a safe deployment the backoff after an attempt is that of the count then in
\* the row, though the worker computes it from its copy.
THEOREM BackoffSound ==
    ASSUME SafeDeployment
    PROVE  Spec => RetryBackoff
<1>1. CInv /\ [Next]_vars => CInv'
    BY ClaimStep
<1>2. CInv /\ [Next]_vars => [Waits]_vars
    BY BackoffStep
<1> QED BY <1>1, <1>2, ClaimInit, PTL DEF Spec, RetryBackoff, Waits

\* CircuitTransitions of one endpoint in one step.
Justified(p) ==
    LET old == endpoint[p]
        new == endpoint'[p]
    IN  old.circuit # new.circuit =>
          \/ new.circuit = "open" /\ old.failures + 1 >= CircuitThreshold
          \/ new.circuit = "half_open" /\ old.circuit = "open" /\ old.cooldown = 0
          \/ /\ new.circuit = "closed"
             /\ \E w \in Workers : /\ worker[w].pc = "mark_success"
                                   /\ worker[w].cur \in acked
                                   /\ EndpointOf(worker[w].cur) = p

\* The three breaker statements change the circuit as it may change.
LEMMA CircuitStep ==
    ASSUME AInv, [Next]_vars, NEW p \in Endpoints
    PROVE  Justified(p)
<1>0. /\ TInv /\ endpoint \in [Endpoints -> EndpointRow] /\ endpoint[p] \in EndpointRow
    BY DEF AInv, TInv, TypeOK
<1>1. endpoint'[p].circuit = endpoint[p].circuit => Justified(p)
    BY DEF Justified
<1>2. ASSUME NEW w \in Workers, WorkerStep(w) PROVE Justified(p)
    <2>1. CASE endpoint'[p] = endpoint[p]
        BY <1>1, <2>1
    <2>2. CASE MoveEndpointCircuitToHalfOpen(w) /\ EndpointOf(worker[w].cur) = p
        <3>1. endpoint'[p] = HalfOpenRow(endpoint[p])
            BY <1>0, <2>2 DEF MoveEndpointCircuitToHalfOpen
        <3> QED BY <1>0, <1>1, <3>1
                DEF Justified, HalfOpenRow, CanHalfOpen, EndpointRow
    <2>3. CASE MarkEndpointDeliverySuccess(w) /\ EndpointOf(worker[w].cur) = p
        <3>1. endpoint'[p] = SuccessRow(endpoint[p])
            BY <1>0, <2>3 DEF MarkEndpointDeliverySuccess
        <3>2. endpoint'[p].circuit = "closed"
            BY <1>0, <3>1 DEF SuccessRow, EndpointRow
        <3>3. worker[w].pc = "mark_success" /\ worker[w].cur \in acked
            BY <2>3 DEF MarkEndpointDeliverySuccess, AInv, Confirmed
        <3> QED BY <2>3, <3>2, <3>3 DEF Justified
    <2>4. CASE MarkEndpointDeliveryFailure(w) /\ EndpointOf(worker[w].cur) = p
        <3>1. endpoint'[p] = FailureRow(endpoint[p])
            BY <1>0, <2>4 DEF MarkEndpointDeliveryFailure
        <3> QED BY <1>0, <1>1, <3>1
                DEF Justified, FailureRow, TripsCircuit, EndpointRow
    <2> QED BY <1>0, <1>2, <2>1, <2>2, <2>3, <2>4
            DEF WorkerStep, ResetStaleDelivering, ClaimPendingDeliveries, Claim, Load, Send,
                MoveEndpointCircuitToHalfOpen, MarkEndpointDeliverySuccess,
                MarkEndpointDeliveryFailure, UpdateDeliveryAttempt, RescheduleDelivery
<1>3. ASSUME NEW w \in Workers, StatementFails(w) \/ Crash(w) PROVE Justified(p)
    BY <1>1, <1>3 DEF StatementFails, Crash
<1>4. CASE Client
    <2>1. ASSUME NEW q \in Endpoints, UpdateEndpoint(q)
          PROVE  endpoint'[p].circuit = endpoint[p].circuit
        BY <1>0, <2>1 DEF UpdateEndpoint, ConfigureRow, EndpointRow
    <2>2. endpoint'[p].circuit = endpoint[p].circuit
        BY <1>4, <2>1 DEF Client, CreateDelivery, CreateDeliveriesForEvent
    <2> QED BY <1>1, <2>2
<1>5. CASE Tick
    BY <1>0, <1>1, <1>5 DEF Tick, AgeEndpoint, EndpointRow
<1>6. CASE UNCHANGED vars
    BY <1>1, <1>6 DEF vars
<1> QED BY <1>2, <1>3, <1>4, <1>5, <1>6 DEF Next

\* With any number of workers and any faults, a circuit opens only at the threshold,
\* is probed only when its cooldown has passed, and is closed only by a worker
\* with an acknowledged delivery of this endpoint in hand.
THEOREM CircuitSound == Spec => CircuitTransitions
<1>1. AInv /\ [Next]_vars => [\A p \in Endpoints : Justified(p)]_vars
    BY CircuitStep
<1> QED BY <1>1, AcknowledgedInit, AcknowledgedStep, PTL
        DEF Spec, CircuitTransitions, Justified

----------------------------------------------------------------------------
(* No acknowledgement is lost without a fault *)

\* What a worker that was answered 2xx is about to record can be stored.
Recordable(s) == s.pc \in {"mark_success", "delivered"} => IsStorable(s.http)

KInv ==
    /\ CInv
    /\ \A w \in Workers : Recordable(worker[w])
    /\ AcknowledgedIsRecorded

\* Only Send goes to mark_success, and the answer stays until it is recorded.
LEMMA RecordableStep ==
    ASSUME TInv, NEW w \in Workers, WorkerStep(w), Recordable(worker[w])
    PROVE  Recordable(worker'[w])
<1>0. worker[w] \in WorkerState /\ worker \in [Workers -> WorkerState]
    BY DEF TInv, TypeOK
<1>1. ASSUME NEW t, worker' = [worker EXCEPT ![w] = t],
             t.pc \notin {"mark_success", "delivered"}
      PROVE  Recordable(worker'[w])
    BY <1>0, <1>1 DEF Recordable
<1>2. ASSUME NEW next, Reply(w, next), next.pc \notin {"mark_success", "delivered"}
      PROVE  Recordable(worker'[w])
    BY <1>0, <1>1, <1>2, ReplyLeads DEF Between
<1>3. ASSUME NEW pc \in PCs PROVE Goto(w, pc).pc = pc /\ Goto(w, pc).http = worker[w].http
    BY <1>0 DEF Goto, WorkerState
<1>4. CASE ResetStaleDelivering(w)
    BY <1>2, <1>3, <1>4 DEF ResetStaleDelivering, PCs
<1>5. CASE ClaimPendingDeliveries(w)
    BY <1>2, <1>5 DEF ClaimPendingDeliveries, Claim, Holding
<1>6. CASE Load(w)
    BY <1>1, <1>6 DEF Load
<1>7. CASE MoveEndpointCircuitToHalfOpen(w)
    BY <1>2, <1>3, <1>7 DEF MoveEndpointCircuitToHalfOpen, PCs
<1>8. CASE Send(w)
    <2>1. PICK http \in HttpStatuses :
            /\ worker'[w].http = http
            /\ worker'[w].pc = IF IsSuccess(http) THEN "mark_success" ELSE "mark_failure"
        BY <1>0, <1>8, SendFacts
    <2>2. http \in 0..999
        BY HttpAssumption
    <2> QED BY <2>1, <2>2 DEF Recordable, IsSuccess, IsStorable
<1>9. CASE MarkEndpointDeliverySuccess(w)
    <2>1. PICK t : /\ t = Goto(w, "delivered") \/ Between(t)
                   /\ worker' = [worker EXCEPT ![w] = t]
        BY <1>0, <1>9, ReplyLeads DEF MarkEndpointDeliverySuccess
    <2>2. IsStorable(worker[w].http)
        BY <1>9 DEF MarkEndpointDeliverySuccess, Recordable
    <2> QED BY <1>0, <1>3, <2>1, <2>2 DEF Recordable, Between, PCs
<1>10. CASE MarkEndpointDeliveryFailure(w)
    BY <1>2, <1>3, <1>10 DEF MarkEndpointDeliveryFailure, PCs
<1>11. CASE UpdateDeliveryAttempt(w) \/ RescheduleDelivery(w)
    <2>1. worker[w].pc \in Processing
        BY <1>11 DEF UpdateDeliveryAttempt, RescheduleDelivery, Processing, PCs
    <2>2. Done(w, worker[w].cur).pc \in {"reset", "load"}
        BY <1>0, <2>1, CurFacts, DoneFacts
    <2> QED BY <1>1, <1>2, <1>11, <2>2 DEF UpdateDeliveryAttempt, RescheduleDelivery
<1> QED BY <1>4, <1>5, <1>6, <1>7, <1>8, <1>9, <1>10, <1>11 DEF WorkerStep

\* Where nothing fails, a worker that is recording d goes on to it or has done it.
LEMMA RecordingStep ==
    ASSUME TInv, NEW w \in Workers, WorkerStep(w), faults' = faults,
           Recordable(worker[w]), NEW d \in Deliveries, worker[w].cur = d,
           worker[w].pc \in {"mark_success", "delivered"}
    PROVE  delivery'[d].status = "delivered" \/ Recording(d)'
<1>0. /\ worker[w] \in WorkerState /\ worker \in [Workers -> WorkerState]
      /\ delivery[d] \in DeliveryRow /\ delivery \in [Deliveries -> DeliveryRow]
      /\ faults \in Nat
    BY WorkerAssumption DEF TInv, TypeOK
<1>1. CASE worker[w].pc = "mark_success"
    <2>1. MarkEndpointDeliverySuccess(w)
        BY <1>1 DEF WorkerStep, ResetStaleDelivering, ClaimPendingDeliveries, Claim, Load,
                    MoveEndpointCircuitToHalfOpen, Send, MarkEndpointDeliveryFailure,
                    UpdateDeliveryAttempt, RescheduleDelivery
    <2>2. worker' = [worker EXCEPT ![w] = Goto(w, "delivered")]
        BY <1>0, <2>1 DEF MarkEndpointDeliverySuccess, Reply
    <2>3. worker'[w].pc = "delivered" /\ worker'[w].cur = d
        BY <1>0, <2>2 DEF Goto, WorkerState
    <2> QED BY <2>3 DEF Recording
<1>2. CASE worker[w].pc = "delivered"
    <2>1. UpdateDeliveryAttempt(w)
        BY <1>2 DEF WorkerStep, ResetStaleDelivering, ClaimPendingDeliveries, Claim, Load,
                    MoveEndpointCircuitToHalfOpen, Send, MarkEndpointDeliveryFailure,
                    MarkEndpointDeliverySuccess, RescheduleDelivery
    <2>2. IsStorable(worker[w].http) /\ Outcome(w) = "delivered"
        BY <1>2 DEF Recordable, Outcome
    <2>3. PICK due \in BackoffDelays(AttemptsAfter(w)) :
            delivery' = [delivery EXCEPT ![d] = AttemptRow(delivery[d], Outcome(w), due)]
        BY <2>1, <2>2 DEF UpdateDeliveryAttempt
    <2>4. delivery'[d] = AttemptRow(delivery[d], "delivered", due)
        BY <1>0, <2>2, <2>3
    <2>5. \A r, status, x : AttemptRow(r, status, x).status = status
        BY Zenon DEF AttemptRow
    <2> QED BY <2>4, <2>5
<1> QED BY <1>1, <1>2

\* A step that records an acknowledgement is a Send.
LEMMA OnlySendAcknowledges ==
    ASSUME NEW w \in Workers, WorkerStep(w), acked' # acked
    PROVE  Send(w)
BY DEF WorkerStep, ResetStaleDelivering, ClaimPendingDeliveries, Claim, Load,
       MoveEndpointCircuitToHalfOpen, MarkEndpointDeliverySuccess,
       MarkEndpointDeliveryFailure, UpdateDeliveryAttempt, RescheduleDelivery

\* A worker's step counts at most one fault.
LEMMA FaultsCount ==
    ASSUME NEW w \in Workers, WorkerStep(w)
    PROVE  faults' = faults \/ faults' = faults + 1
<1>1. ASSUME NEW next, Reply(w, next)
      PROVE  faults' = faults \/ faults' = faults + 1
    BY <1>1 DEF Reply
<1>2. CASE Load(w) \/ Send(w)
    BY <1>2, Zenon DEF Load, Send
<1>3. CASE ~(Load(w) \/ Send(w))
    BY <1>1, <1>3 DEF WorkerStep, ResetStaleDelivering, ClaimPendingDeliveries, Claim,
                      MoveEndpointCircuitToHalfOpen, MarkEndpointDeliverySuccess,
                      MarkEndpointDeliveryFailure, UpdateDeliveryAttempt,
                      RescheduleDelivery
<1> QED BY <1>2, <1>3

\* KInv is inductive where claims are exclusive.
LEMMA RecordedStep == SafeDeployment /\ KInv /\ [Next]_vars => KInv'
<1> SUFFICES ASSUME SafeDeployment, KInv, [Next]_vars
             PROVE  /\ \A w \in Workers : Recordable(worker'[w])
                    /\ AcknowledgedIsRecorded'
    BY ClaimStep DEF KInv
<1>0. /\ CInv /\ TInv /\ faults \in Nat
      /\ \A w \in Workers : Recordable(worker[w])
      /\ faults = 0 => \A d \in acked : delivery[d].status = "delivered" \/ Recording(d)
      /\ acked \subseteq Deliveries
    BY WorkerAssumption DEF KInv, CInv, TInv, TypeOK, AcknowledgedIsRecorded
<1>1. \A d \in Deliveries : delivery[d].status = "delivered" => delivery'[d] = delivery[d]
    BY <1>0, ClaimStep DEF DoneStable, Terminal
<1>2. ASSUME NEW w \in Workers, WorkerStep(w)
      PROVE  /\ \A v \in Workers : Recordable(worker'[v])
             /\ AcknowledgedIsRecorded'
    <2>1. \A v \in Workers : v # w => worker'[v] = worker[v]
        BY <1>0, <1>2, OthersStay
    <2>2. \A v \in Workers : Recordable(worker'[v])
        BY <1>0, <1>2, <2>1, RecordableStep
    <2>3. ASSUME faults' = 0, NEW d \in acked'
          PROVE  delivery'[d].status = "delivered" \/ Recording(d)'
        <3>1. faults' = faults /\ faults = 0
            <4>1. faults' = faults \/ faults' = faults + 1
                BY <1>2, FaultsCount
            <4> QED BY <1>0, <2>3, <4>1
        <3>2. CASE d \in acked
            <4>1. CASE delivery[d].status = "delivered"
                BY <1>0, <1>1, <3>2, <4>1
            <4>2. CASE Recording(d)
                <5>1. PICK v \in Workers : /\ worker[v].cur = d
                                           /\ worker[v].pc \in {"mark_success", "delivered"}
                    BY <4>2 DEF Recording
                <5>2. CASE v = w
                    BY <1>0, <1>2, <3>1, <3>2, <5>1, <5>2, RecordingStep
                <5>3. CASE v # w
                    BY <2>1, <5>1, <5>3 DEF Recording
                <5> QED BY <5>2, <5>3
            <4> QED BY <1>0, <3>1, <3>2, <4>1, <4>2
        <3>3. CASE d \notin acked
            <4>1. Send(w)
                BY <1>2, <2>3, <3>3, OnlySendAcknowledges
            <4>2. PICK http \in HttpStatuses :
                    /\ worker'[w].cur = worker[w].cur
                    /\ worker'[w].pc = IF IsSuccess(http) THEN "mark_success" ELSE "mark_failure"
                    /\ acked' = IF http \in 200..299 THEN acked \cup {worker[w].cur} ELSE acked
                BY <1>0, <4>1, SendFacts
            <4>3. http \in 200..299 /\ d = worker[w].cur
                BY <2>3, <3>3, <4>2
            <4>4. worker'[w].cur = d /\ worker'[w].pc = "mark_success"
                BY <4>2, <4>3 DEF IsSuccess
            <4> QED BY <4>4 DEF Recording
        <3> QED BY <3>2, <3>3
    <2> QED BY <2>2, <2>3 DEF AcknowledgedIsRecorded
<1>3. ASSUME NEW w \in Workers, StatementFails(w) \/ Crash(w)
      PROVE  /\ \A v \in Workers : Recordable(worker'[v])
             /\ AcknowledgedIsRecorded'
    <2>1. PICK t : Between(t) /\ worker' = [worker EXCEPT ![w] = t]
        BY <1>0, <1>3, FaultsWriteNothing
    <2>2. worker'[w] = t /\ \A v \in Workers : v # w => worker'[v] = worker[v]
        BY <1>0, <2>1, Moved
    <2>3. faults' # 0
        BY <1>0, <1>3 DEF StatementFails, Crash
    <2> QED BY <1>0, <2>1, <2>2, <2>3 DEF Recordable, Between, AcknowledgedIsRecorded
<1>4. ASSUME UNCHANGED <<faults, acked>>,
             \A w \in Workers : /\ worker'[w].pc = worker[w].pc
                                /\ worker'[w].cur = worker[w].cur
                                /\ worker'[w].http = worker[w].http
      PROVE  /\ \A v \in Workers : Recordable(worker'[v])
             /\ AcknowledgedIsRecorded'
    <2>1. \A d : Recording(d) => Recording(d)'
        BY <1>4 DEF Recording
    <2>2. \A d \in acked : delivery[d].status = "delivered" => delivery'[d].status = "delivered"
        BY <1>0, <1>1
    <2>3. \A v \in Workers : Recordable(worker'[v])
        BY <1>0, <1>4 DEF Recordable
    <2> QED BY <1>0, <1>4, <2>1, <2>2, <2>3 DEF AcknowledgedIsRecorded
<1>5. CASE Client
    BY <1>0, <1>4, <1>5, ClientsInsert
<1>6. CASE Tick
    <2>1. \A w \in Workers : /\ worker'[w].pc = worker[w].pc
                             /\ worker'[w].cur = worker[w].cur
        BY <1>0, <1>6, TickWorkers
    <2>2. \A w \in Workers : worker'[w].http = worker[w].http
        BY <1>0, <1>6 DEF Tick, WorkerState, TInv, TypeOK
    <2>3. UNCHANGED <<faults, acked>>
        BY <1>6 DEF Tick
    <2> QED BY <1>4, <2>1, <2>2, <2>3
<1>7. CASE UNCHANGED vars
    BY <1>4, <1>7 DEF vars
<1> QED BY <1>2, <1>3, <1>5, <1>6, <1>7 DEF Next

\* In a safe deployment every acknowledgement is recorded, or on its way to the row
\* with the worker that received it, as long as nothing fails: no decision, retry or
\* reset takes a delivery away between the answer and markDelivered.
THEOREM AcknowledgementsRecorded ==
    ASSUME SafeDeployment
    PROVE  Spec => []AcknowledgedIsRecorded
<1>1. KInv /\ [Next]_vars => KInv'
    BY RecordedStep
<1>2. Init => KInv
    <2>1. ASSUME Init PROVE acked = {} /\ \A w \in Workers : worker[w].pc = "reset"
        BY <2>1 DEF Init, Idle, Holding
    <2> QED BY <2>1, ClaimInit DEF KInv, Recordable, AcknowledgedIsRecorded
<1>3. KInv => AcknowledgedIsRecorded
    BY DEF KInv
<1> QED BY <1>1, <1>2, <1>3, PTL DEF Spec
============================================================================
