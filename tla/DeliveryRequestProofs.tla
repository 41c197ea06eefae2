--------------------------- MODULE DeliveryRequestProofs ---------------------------
(***************************************************************************)
(* Theorems about what an endpoint is sent: every request of a worker is   *)
(* counted, and what the updates of clients (DeliveryOperators) add to it. *)
(***************************************************************************)
EXTENDS DeliveryOperators, DeliveryOutcomeProofs, FiniteSetTheorems

----------------------------------------------------------------------------
(* Requests are counted *)

\* What the endpoints answer can be stored (unlike in run unstorable_status).
AnswersStorable == \A http \in HttpStatuses : IsStorable(http)

\* A worker in state s has made, or may have made, a request for d that the row
\* does not count yet: InFlight of one worker.
Flying(s, d) ==
    /\ s.cur = d
    /\ s.pc \in {"mark_success", "mark_failure", "delivered", "retry", "dead_lettered"}

RInv ==
    /\ LInv
    /\ \A w \in Workers : IsStorable(worker[w].http)
    /\ \A d \in Deliveries : delivery[d].status = "none" => delivery[d].attempts = 0
    /\ RequestsAccounted

\* A worker's answer is one the endpoints give, or none.
LEMMA StorableStep ==
    ASSUME TInv, AnswersStorable, NEW w \in Workers, WorkerStep(w),
           IsStorable(worker[w].http)
    PROVE  IsStorable(worker'[w].http)
<1>0. worker[w] \in WorkerState /\ worker \in [Workers -> WorkerState]
    BY DEF TInv, TypeOK
<1>1. IsStorable(0)
    BY DEF IsStorable
<1>2. ASSUME NEW next, Reply(w, next), IsStorable(next.http)
      PROVE  IsStorable(worker'[w].http)
    BY <1>0, <1>1, <1>2, ReplyLeads DEF Between
<1>3. ASSUME NEW pc \in PCs PROVE Goto(w, pc).http = worker[w].http
    BY <1>0 DEF Goto, WorkerState
<1>4. CASE \/ ResetStaleDelivering(w) \/ MoveEndpointCircuitToHalfOpen(w)
           \/ MarkEndpointDeliverySuccess(w) \/ MarkEndpointDeliveryFailure(w)
    <2>1. PICK pc \in PCs : Reply(w, Goto(w, pc))
        BY <1>4 DEF ResetStaleDelivering, MoveEndpointCircuitToHalfOpen,
                    MarkEndpointDeliverySuccess, MarkEndpointDeliveryFailure, PCs
    <2> QED BY <1>2, <1>3, <2>1
<1>5. CASE ClaimPendingDeliveries(w)
    BY <1>1, <1>2, <1>5 DEF ClaimPendingDeliveries, Claim, Holding
<1>6. CASE Load(w)
    BY <1>0, <1>1, <1>6 DEF Load
<1>7. CASE Send(w)
    BY <1>7, SendFacts DEF AnswersStorable
<1>8. CASE UpdateDeliveryAttempt(w) \/ RescheduleDelivery(w)
    <2>1. Done(w, worker[w].cur).http = 0
        BY DEF Done, Holding
    <2>2. CASE worker' = [worker EXCEPT ![w] = Done(w, worker[w].cur)]
        BY <1>0, <1>1, <2>1, <2>2
    <2> QED BY <1>1, <1>2, <1>8, <2>1, <2>2 DEF UpdateDeliveryAttempt, RescheduleDelivery
<1> QED BY <1>4, <1>5, <1>6, <1>7, <1>8 DEF WorkerStep

\* Counters only grow; a request makes w the one that has it in flight.
LEMMA CountersGrow ==
    ASSUME TInv, NEW w \in Workers, WorkerStep(w), NEW d \in Deliveries
    PROVE  /\ faults' >= faults
           /\ delivery'[d].attempts >= delivery[d].attempts
           /\ sends'[d] <= sends[d] + 1
           /\ sends'[d] # sends[d] =>
                /\ worker[w].pc = "send"
                /\ worker[w].cur = d
                /\ Flying(worker'[w], d)
<1>0. /\ faults \in Nat /\ delivery[d].attempts \in Nat /\ sends[d] \in Nat
      /\ worker[w] \in WorkerState /\ worker \in [Workers -> WorkerState]
      /\ sends \in [Deliveries -> 0..MaxSends]
    BY WorkerAssumption DEF TInv, TypeOK, DeliveryRow
<1>1. faults' >= faults
    <2>1. \A next : Reply(w, next) => faults' >= faults
        BY <1>0 DEF Reply
    <2>2. UNCHANGED faults => faults' >= faults
        BY <1>0
    <2> QED BY <2>1, <2>2
            DEF WorkerStep, ResetStaleDelivering, ClaimPendingDeliveries, Claim, Load,
                MoveEndpointCircuitToHalfOpen, Send, MarkEndpointDeliverySuccess,
                MarkEndpointDeliveryFailure, UpdateDeliveryAttempt, RescheduleDelivery
<1>2. delivery'[d].attempts >= delivery[d].attempts
    BY <1>0, RowsWritten, WrittenFields
<1>3. CASE Send(w)
    <2>1. /\ sends'[d] <= sends[d] + 1
          /\ sends'[d] # sends[d] => worker[w].cur = d
        BY <1>0, <1>3, WorkerAssumption DEF Send
    <2>2. Flying(worker'[w], worker[w].cur)
        BY <1>3, SendFacts DEF Flying
    <2> QED BY <1>1, <1>2, <1>3, <2>1, <2>2 DEF Send
<1>4. CASE UNCHANGED sends
    BY <1>0, <1>1, <1>2, <1>4
<1> QED BY <1>3, <1>4
        DEF WorkerStep, ResetStaleDelivering, ClaimPendingDeliveries, Claim, Load,
            MoveEndpointCircuitToHalfOpen, MarkEndpointDeliverySuccess,
            MarkEndpointDeliveryFailure, UpdateDeliveryAttempt, RescheduleDelivery

\* A request in flight stays so until it is counted, unless there is a fault.
LEMMA FlightEnds ==
    ASSUME TInv, NEW w \in Workers, WorkerStep(w), NEW d \in Deliveries,
           IsStorable(worker[w].http), Flying(worker[w], d)
    PROVE  \/ Flying(worker'[w], d)
           \/ faults' = faults + 1
           \/ delivery'[d].attempts = delivery[d].attempts + 1
<1>0. /\ worker[w] \in WorkerState /\ worker \in [Workers -> WorkerState]
      /\ delivery \in [Deliveries -> DeliveryRow]
    BY DEF TInv, TypeOK
<1>1. ASSUME NEW pc \in PCs PROVE Goto(w, pc).pc = pc /\ Goto(w, pc).cur = worker[w].cur
    BY <1>0 DEF Goto, WorkerState
<1>2. CASE MarkEndpointDeliverySuccess(w) \/ MarkEndpointDeliveryFailure(w)
    <2>1. PICK pc \in {"delivered", "retry", "dead_lettered"} : Reply(w, Goto(w, pc))
        BY <1>2 DEF MarkEndpointDeliverySuccess, MarkEndpointDeliveryFailure
    <2>2. Flying(Goto(w, pc), d)
        BY <1>1, <2>1 DEF Flying, PCs
    <2>3. worker'[w] = Goto(w, pc) \/ faults' = faults + 1
        BY <1>0, <2>1 DEF Reply
    <2> QED BY <2>2, <2>3
<1>3. CASE UpdateDeliveryAttempt(w)
    BY <1>0, <1>3 DEF UpdateDeliveryAttempt, AttemptRow, Flying
<1> QED BY <1>2, <1>3
        DEF WorkerStep, ResetStaleDelivering, ClaimPendingDeliveries, Claim, Load, Flying,
            MoveEndpointCircuitToHalfOpen, Send, RescheduleDelivery

\* RequestsAccounted of one delivery.
Accounted(d) == sends[d] <= delivery[d].attempts + faults + (IF InFlight(d) THEN 1 ELSE 0)

\* No request for d starts while another is in flight: d is in one batch only.
LEMMA OneFlight ==
    ASSUME CInv, NEW w \in Workers, NEW v \in Workers, NEW d \in Deliveries,
           worker[w].pc = "send", worker[w].cur = d, Flying(worker[v], d)
    PROVE  FALSE
<1>1. d \in worker[w].batch /\ d \in worker[v].batch
    BY CurFacts DEF CInv, Flying, Processing, PCs
<1>2. v # w
    BY DEF Flying
<1> QED BY <1>1, <1>2 DEF CInv, Disjoint

\* Each step of a worker keeps the account of one delivery.
LEMMA AccountedWorkerStep ==
    ASSUME RInv, AnswersStorable, NEW w \in Workers, WorkerStep(w), NEW d \in Deliveries
    PROVE  Accounted(d)'
<1>0. /\ CInv /\ TInv /\ Accounted(d) /\ IsStorable(worker[w].http)
      /\ faults \in Nat /\ delivery[d].attempts \in Nat /\ sends[d] \in Nat
    BY WorkerAssumption
       DEF RInv, LInv, CInv, TInv, TypeOK, DeliveryRow, RequestsAccounted, Accounted
<1>1. /\ faults' \in Nat /\ delivery'[d].attempts \in Nat /\ sends'[d] \in Nat
    BY <1>0, TypeWorkerStep, WorkerAssumption DEF TInv, TypeOK, DeliveryRow
<1>2. /\ faults' >= faults
      /\ delivery'[d].attempts >= delivery[d].attempts
      /\ sends'[d] <= sends[d] + 1
    BY <1>0, CountersGrow
<1>3. InFlight(d) <=> \E v \in Workers : Flying(worker[v], d)
    BY DEF InFlight, Flying
<1>4. InFlight(d)' <=> \E v \in Workers : Flying(worker'[v], d)
    BY DEF InFlight, Flying
<1>5. CASE sends'[d] # sends[d]
    <2>1. worker[w].pc = "send" /\ worker[w].cur = d /\ Flying(worker'[w], d)
        BY <1>0, <1>5, CountersGrow
    <2>2. ~InFlight(d)
        BY <1>0, <1>3, <2>1, OneFlight
    <2>3. InFlight(d)'
        BY <1>4, <2>1
    <2> QED BY <1>0, <1>1, <1>2, <2>2, <2>3 DEF Accounted
<1>6. CASE sends'[d] = sends[d] /\ InFlight(d)
    <2>1. PICK v \in Workers : Flying(worker[v], d)
        BY <1>3, <1>6
    <2>2. CASE v # w
        <3>1. InFlight(d)'
            BY <1>0, <1>4, <2>1, <2>2, OthersStay
        <3> QED BY <1>0, <1>1, <1>2, <1>6, <3>1 DEF Accounted
    <2>3. CASE v = w
        <3>1. \/ InFlight(d)'
              \/ faults' = faults + 1
              \/ delivery'[d].attempts = delivery[d].attempts + 1
            BY <1>0, <1>4, <2>1, <2>3, FlightEnds
        <3> QED BY <1>0, <1>1, <1>2, <1>6, <3>1 DEF Accounted
    <2> QED BY <2>2, <2>3
<1>7. CASE sends'[d] = sends[d] /\ ~InFlight(d)
    BY <1>0, <1>1, <1>2, <1>7 DEF Accounted
<1> QED BY <1>5, <1>6, <1>7

\* RInv is inductive where claims are exclusive and answers storable.
LEMMA RequestsStep == SafeDeployment /\ AnswersStorable /\ RInv /\ [Next]_vars => RInv'
<1> DEFINE Unborn == \A d \in Deliveries :
                       delivery[d].status = "none" => delivery[d].attempts = 0
<1> SUFFICES ASSUME SafeDeployment, AnswersStorable, RInv, [Next]_vars
             PROVE  /\ \A w \in Workers : IsStorable(worker'[w].http)
                    /\ Unborn'
                    /\ \A d \in Deliveries : Accounted(d)'
    BY LimitStep DEF RInv, RequestsAccounted, Accounted
<1>0. /\ TInv /\ Unborn
      /\ \A w \in Workers : IsStorable(worker[w].http)
      /\ \A d \in Deliveries :
           /\ Accounted(d)
           /\ delivery[d] \in DeliveryRow /\ sends[d] \in Nat /\ faults \in Nat
      /\ \A w \in Workers : worker[w] \in WorkerState
    BY WorkerAssumption
       DEF RInv, LInv, CInv, TInv, TypeOK, RequestsAccounted, Accounted
<1>1. ASSUME NEW w \in Workers, WorkerStep(w)
      PROVE  /\ \A v \in Workers : IsStorable(worker'[v].http)
             /\ Unborn'
             /\ \A d \in Deliveries : Accounted(d)'
    <2>1. \A v \in Workers : v # w => worker'[v] = worker[v]
        BY <1>0, <1>1, OthersStay
    <2>2. IsStorable(worker'[w].http)
        BY <1>0, <1>1, StorableStep
    <2>3. Unborn'
        BY <1>0, <1>1, RowsWritten, WrittenFields DEF Outcome
    <2> QED BY <1>0, <1>1, <2>1, <2>2, <2>3, AccountedWorkerStep
<1>2. ASSUME NEW w \in Workers, StatementFails(w) \/ Crash(w)
      PROVE  /\ \A v \in Workers : IsStorable(worker'[v].http)
             /\ Unborn'
             /\ \A d \in Deliveries : Accounted(d)'
    <2>1. PICK t : Between(t) /\ worker' = [worker EXCEPT ![w] = t]
        BY <1>0, <1>2, FaultsWriteNothing
    <2>2. UNCHANGED <<delivery, sends>> /\ faults' = faults + 1
        BY <1>2 DEF StatementFails, Crash
    <2>3. worker'[w] = t /\ \A v \in Workers : v # w => worker'[v] = worker[v]
        BY <1>0, <2>1, Moved
    <2>4. IsStorable(t.http)
        BY <2>1 DEF Between, IsStorable
    <2>5. ASSUME NEW d \in Deliveries PROVE Accounted(d)'
        <3>1. sends[d] <= delivery[d].attempts + faults + 1
            BY <1>0 DEF Accounted, DeliveryRow
        <3>2. delivery[d].attempts \in Nat
            BY <1>0 DEF DeliveryRow
        <3> QED BY <1>0, <2>2, <3>1, <3>2 DEF Accounted
    <2> QED BY <1>0, <2>2, <2>3, <2>4, <2>5
<1>3. ASSUME UNCHANGED <<faults, sends>>,
             \A w \in Workers : /\ worker'[w].pc = worker[w].pc
                                /\ worker'[w].cur = worker[w].cur,
             NEW d \in Deliveries, delivery'[d].attempts = delivery[d].attempts
      PROVE  Accounted(d)'
    BY <1>0, <1>3 DEF Accounted, InFlight
<1>4. CASE Client
    <2>1. UNCHANGED <<worker, faults, sends>>
        BY <1>0, <1>4, ClientsInsert
    <2>2. \A d \in Deliveries : /\ delivery'[d].attempts = delivery[d].attempts
                                /\ delivery'[d].status = "none" =>
                                     delivery[d].status = "none"
        BY <1>0, <1>4, ClientsInsert DEF FreshDelivery, NoRow
    <2> QED BY <1>0, <1>3, <2>1, <2>2
<1>5. CASE Tick
    <2>1. \A w \in Workers : /\ worker'[w].pc = worker[w].pc
                             /\ worker'[w].cur = worker[w].cur
        BY <1>0, <1>5, TickWorkers
    <2>2. \A w \in Workers : worker'[w].http = worker[w].http
        BY <1>0, <1>5 DEF Tick, WorkerState
    <2>3. \A d \in Deliveries : /\ delivery'[d].status = delivery[d].status
                                /\ delivery'[d].attempts = delivery[d].attempts
        BY <1>0, <1>5, AgeFields DEF Tick
    <2>4. UNCHANGED <<faults, sends>>
        BY <1>5 DEF Tick
    <2> QED BY <1>0, <1>3, <2>1, <2>2, <2>3, <2>4
<1>6. CASE UNCHANGED vars
    BY <1>0, <1>3, <1>6 DEF vars
<1> QED BY <1>1, <1>2, <1>4, <1>5, <1>6 DEF Next

\* At the start nothing has been sent.
LEMMA RequestsInit == Init => RInv
<1> SUFFICES ASSUME Init PROVE RInv
    OBVIOUS
<1>1. /\ \A w \in Workers : worker[w].pc = "reset" /\ worker[w].http = 0
      /\ \A d \in Deliveries : delivery[d].attempts = 0 /\ sends[d] = 0
      /\ faults = 0
    BY DEF Init, Idle, Holding, NoRow
<1>2. LInv
    BY <1>1, ClaimInit, ConfigAssumption DEF LInv, Allowed, AttemptLimit
<1> QED BY <1>1, <1>2 DEF RInv, RequestsAccounted, IsStorable

\* In a safe deployment whose endpoints give answers the schema can store, every
\* request is counted in attempt_count, but for the one in flight and one for
\* each fault: crash, failed statement or lost reply.
THEOREM RequestsCounted ==
    ASSUME SafeDeployment, AnswersStorable
    PROVE  Spec => []RequestsAccounted
<1>1. RInv /\ [Next]_vars => RInv'
    BY RequestsStep
<1>2. RInv => RequestsAccounted
    BY DEF RInv
<1> QED BY <1>1, <1>2, RequestsInit, PTL DEF Spec

\* So, without faults, no delivery is sent more often than an endpoint's limit
\* may be: what run unstorable_status refutes, under the assumption it breaks.
THEOREM RequestsLimited ==
    ASSUME SafeDeployment, AnswersStorable
    PROVE  Spec => []RequestsWithinLimit
<1>1. RInv /\ [Next]_vars => RInv'
    BY RequestsStep
<1>2. ASSUME RInv, faults = 0, NEW d \in Deliveries
      PROVE  sends[d] <= MaxAttemptsLimit
    <2>1. /\ sends[d] <= delivery[d].attempts + (IF InFlight(d) THEN 1 ELSE 0)
          /\ delivery[d].attempts \in Nat /\ sends[d] \in Nat
          /\ delivery[d].attempts <= MaxAttemptsLimit
        BY <1>2, WorkerAssumption
           DEF RInv, RequestsAccounted, LInv, AttemptLimit, CInv, TInv, TypeOK, DeliveryRow
    <2>2. CASE InFlight(d)
        <3>1. PICK w \in Workers : Flying(worker[w], d)
            BY <2>2 DEF InFlight, Flying
        <3>2. delivery[d].status = "delivering"
            BY <1>2, <3>1, CurFacts
               DEF RInv, LInv, CInv, Backed, Flying, Processing, PCs
        <3>3. delivery[d].attempts < MaxAttemptsLimit
            BY <1>2, <3>2 DEF RInv, LInv, AttemptLimit, Terminal
        <3> QED BY <2>1, <3>3, ConfigAssumption
    <2>3. CASE ~InFlight(d)
        BY <2>1, <2>3, ConfigAssumption
    <2> QED BY <2>2, <2>3
<1>3. RInv => RequestsWithinLimit
    BY <1>2 DEF RequestsWithinLimit
<1> QED BY <1>1, <1>3, RequestsInit, PTL DEF Spec

----------------------------------------------------------------------------
(* Requests beside the updates of clients *)

\* A request whose status the service knows.
Accepted(req) == DeliveryStatusFromProto(req.status) # ""

\* What a client writes is a row, whatever the row was.
LEMMA EditedRowFacts ==
    ASSUME NEW r \in DeliveryRow, NEW req \in EditRequests,
           Accepted(req)
    PROVE  /\ EditedRow(r, req) \in DeliveryRow
           /\ EditedRow(r, req).status \in StoredStatuses
           /\ EditedRow(r, req).attempts = r.attempts + 1
           /\ EditedRow(r, req).claim_age = 0
           /\ EditedRow(r, req).status # "pending" => EditedRow(r, req).due_in = 0
<1> DEFINE status == DeliveryStatusFromProto(req.status)
           due == IF status = "pending" THEN req.retry_in ELSE 0
<1>1. req.status \in ProtoStatuses /\ req.retry_in \in 0..MaxDelay
    BY Zenon DEF EditRequests, RetryDistances
<1>2. req.delivered_at \in BOOLEAN /\ req.dead_lettered_at \in BOOLEAN
    BY Zenon DEF EditRequests
<1>3. status \in StoredStatuses
    BY <1>1, Zenon DEF Accepted, ProtoStatuses, DeliveryStatusFromProto, StoredStatuses
<1>4. due \in 0..MaxDelay
    BY <1>1, ColumnValues
<1>5. r.attempts + 1 \in Nat
    BY DEF DeliveryRow
<1>6. EditedRow(r, req) =
        [r EXCEPT !.status = status, !.attempts = r.attempts + 1, !.due_in = due,
                  !.claim_age = 0, !.delivered_at = req.delivered_at,
                  !.dead_lettered_at = req.dead_lettered_at]
    BY Zenon DEF EditedRow
<1>7. status # "pending" => due = 0
    OBVIOUS
<1> HIDE DEF status, due
<1>8. EditedRow(r, req) \in DeliveryRow
    BY <1>2, <1>3, <1>4, <1>5, <1>6, ColumnValues, Zenon DEF DeliveryRow
<1>9. /\ EditedRow(r, req).status = status
      /\ EditedRow(r, req).attempts = r.attempts + 1
      /\ EditedRow(r, req).due_in = due
      /\ EditedRow(r, req).claim_age = 0
    BY <1>6, Zenon DEF DeliveryRow
<1> QED BY <1>3, <1>7, <1>8, <1>9

\* A client writes one row, as one of its requests says, and is counted.
LEMMA ClientWrites ==
    ASSUME TInv, edits \in [Deliveries -> Nat], NEW c \in Deliveries, UpdateByClient(c)
    PROVE  /\ TInv'
           /\ edits' \in [Deliveries -> Nat]
           /\ UNCHANGED <<endpoint, worker, faults, acked, sends>>
           /\ edits'[c] = edits[c] + 1
           /\ \A d \in Deliveries :
                d # c => delivery'[d] = delivery[d] /\ edits'[d] = edits[d]
           /\ delivery[c].status # "none"
           /\ \E req \in EditRequests : /\ Accepted(req)
                                        /\ delivery'[c] = EditedRow(delivery[c], req)
<1>0. delivery \in [Deliveries -> DeliveryRow]
    BY DEF TInv, TypeOK
<1>1. PICK req \in EditRequests :
        /\ Accepted(req)
        /\ delivery' = [delivery EXCEPT ![c] = EditedRow(delivery[c], req)]
    BY Zenon DEF UpdateByClient, Accepted
<1>2. EditedRow(delivery[c], req) \in DeliveryRow
    BY <1>0, <1>1, EditedRowFacts
<1>3. /\ delivery' \in [Deliveries -> DeliveryRow]
      /\ delivery'[c] = EditedRow(delivery[c], req)
      /\ \A d \in Deliveries : d # c => delivery'[d] = delivery[d]
    BY <1>0, <1>1, <1>2, Zenon
<1>4. UNCHANGED <<endpoint, worker, faults, acked, sends>> /\ delivery[c].status # "none"
    BY Zenon DEF UpdateByClient
<1>5. TInv'
    BY <1>3, <1>4 DEF TInv, TypeOK
<1>6. /\ edits' \in [Deliveries -> Nat] /\ edits'[c] = edits[c] + 1
      /\ \A d \in Deliveries : d # c => edits'[d] = edits[d]
    <2>1. edits' = [edits EXCEPT ![c] = edits[c] + 1]
        BY Zenon DEF UpdateByClient
    <2> QED BY <2>1
<1> QED BY <1>1, <1>3, <1>4, <1>5, <1>6

\* What the theorems about the workers beside clients rest on.
EInv == TInv /\ AtRest /\ edits \in [Deliveries -> Nat]

\* Every row starts at rest.
LEMMA EditInit == OperatorInit => EInv
    BY TypeInit, ClaimInit DEF OperatorInit, EInv, CInv

\* A row that is done waits for nothing, whoever finished it.
LEMMA RestStep ==
    ASSUME TInv, AtRest, [Next]_vars
    PROVE  AtRest'
<1>0. \A d \in Deliveries : delivery[d] \in DeliveryRow
    BY DEF TInv, TypeOK
<1>1. ASSUME NEW w \in Workers, WorkerStep(w), NEW d \in Deliveries,
             delivery'[d].status \in Terminal
      PROVE  delivery'[d].due_in = 0
    <2>1. CASE delivery'[d] = delivery[d]
        BY <1>1, <2>1 DEF AtRest
    <2>2. CASE delivery'[d] = ResetRow(delivery[d])
        BY <1>0, <1>1, <2>2, Zenon DEF ResetRow, DeliveryRow, Terminal
    <2>3. CASE delivery'[d] = ClaimRow(delivery[d])
        BY <1>0, <1>1, <2>3, ClaimRowFields DEF Terminal
    <2>4. ASSUME NEW due, delivery'[d] = RescheduleRow(delivery[d], due) PROVE FALSE
        BY <1>0, <1>1, <2>4, Zenon DEF RescheduleRow, DeliveryRow, Terminal
    <2>5. ASSUME NEW due, delivery'[d] = AttemptRow(delivery[d], Outcome(w), due)
          PROVE  delivery'[d].due_in = 0
        BY <1>1, <2>5 DEF AttemptRow, Terminal
    <2> QED BY <1>1, <2>1, <2>2, <2>3, <2>4, <2>5, RowsWritten DEF Written
<1>2. CASE \E w \in Workers : StatementFails(w) \/ Crash(w)
    BY <1>2 DEF StatementFails, Crash, AtRest
<1>3. CASE Client
    BY <1>3, ClientsInsert DEF AtRest, FreshDelivery, NoRow, Terminal
<1>4. CASE Tick
    <2>1. ASSUME NEW d \in Deliveries, delivery'[d].status \in Terminal
          PROVE  delivery'[d].due_in = 0
        <3>1. delivery'[d] = AgeDelivery(delivery[d])
            BY <1>4 DEF Tick
        <3>2. delivery[d].status \in Terminal
            BY <1>0, <2>1, <3>1, AgeFields
        <3> QED BY <1>0, <3>1, <3>2, AgeAtRest DEF AtRest, Terminal
    <2> QED BY <2>1 DEF AtRest
<1>5. CASE UNCHANGED vars
    BY <1>5 DEF vars, AtRest
<1> QED BY <1>1, <1>2, <1>3, <1>4, <1>5 DEF Next, AtRest

\* EInv is inductive: clients write rows at rest unless they write "pending".
LEMMA EditStep == EInv /\ [OperatorNext]_operatorVars => EInv'
<1> SUFFICES ASSUME EInv, [OperatorNext]_operatorVars PROVE EInv'
    OBVIOUS
<1>1. CASE [Next]_vars /\ UNCHANGED edits
    BY <1>1, TypeStep, RestStep DEF EInv
<1>2. ASSUME NEW c \in Deliveries, UpdateByClient(c) PROVE EInv'
    <2>0. TInv /\ edits \in [Deliveries -> Nat]
        BY DEF EInv
    <2>1. PICK req \in EditRequests : /\ Accepted(req)
                                      /\ delivery'[c] = EditedRow(delivery[c], req)
        BY <1>2, <2>0, ClientWrites
    <2>2. delivery'[c].status # "pending" => delivery'[c].due_in = 0
        BY <2>0, <2>1, EditedRowFacts DEF TInv, TypeOK
    <2>3. AtRest'
        BY <1>2, <2>0, <2>2, ClientWrites DEF EInv, AtRest, Terminal
    <2> QED BY <1>2, <2>0, <2>3, ClientWrites DEF EInv
<1> QED BY <1>1, <1>2 DEF OperatorNext, operatorVars, vars

\* A finished row in nobody's batch changes only with its count of updates.
LeftAlone ==
    \A d \in Deliveries :
      (/\ delivery[d].status \in Terminal
       /\ \A w \in Workers : d \notin worker[w].batch
       /\ delivery'[d] # delivery[d]) => edits'[d] > edits[d]

\* The workers write what they hold, the clock and the fan-out no finished row.
LEMMA LeftAloneStep == EInv /\ [OperatorNext]_operatorVars => LeftAlone
<1> SUFFICES ASSUME EInv, [OperatorNext]_operatorVars, NEW d \in Deliveries,
                    delivery[d].status \in Terminal,
                    \A w \in Workers : d \notin worker[w].batch,
                    delivery'[d] # delivery[d]
             PROVE  edits'[d] > edits[d]
    BY DEF LeftAlone
<1>0. TInv /\ AtRest /\ edits \in [Deliveries -> Nat] /\ delivery[d] \in DeliveryRow
    BY DEF EInv, TInv, TypeOK
<1>1. ASSUME NEW w \in Workers, WorkerStep(w) PROVE FALSE
    <2>1. worker[w].pc \in Processing => d # worker[w].cur
        BY <1>0, CurFacts
    <2>2. Written(w, d)
        BY <1>0, <1>1, RowsWritten
    <2> QED BY <2>1, <2>2 DEF Written, Processing, PCs, Terminal
<1>2. ~\E w \in Workers : StatementFails(w) \/ Crash(w)
    BY DEF StatementFails, Crash
<1>3. ~Client
    BY <1>0, ClientsInsert DEF Terminal
<1>4. ~Tick
    BY <1>0, AgeAtRest DEF Tick, AtRest, Terminal
<1>5. ~UNCHANGED vars
    BY DEF vars
<1>6. PICK c \in Deliveries : UpdateByClient(c)
    BY <1>1, <1>2, <1>3, <1>4, <1>5 DEF OperatorNext, operatorVars, vars, Next
<1>7. c = d
    BY <1>0, <1>6, ClientWrites
<1> QED BY <1>0, <1>6, <1>7, ClientWrites

\* In any deployment, safe or not, a finished row that no worker has in hand stays as
\* it is unless a client updates it: the statements name the row by its id alone,
\* so only a worker that was already sending it can overwrite it.
THEOREM FinishedLeftAlone == OperatorSpec => FinishedStays
<1>1. EInv /\ [OperatorNext]_operatorVars => [LeftAlone]_operatorVars
    BY LeftAloneStep
<1>2. OperatorSpec => [][LeftAlone]_operatorVars
    BY <1>1, EditInit, EditStep, PTL DEF OperatorSpec
<1> QED BY <1>2 DEF FinishedStays, LeftAlone

----------------------------------------------------------------------------
(* What an update by a client can cost *)

One(b) == IF b THEN 1 ELSE 0

\* The workers that hold d, those of them that may put it back after an attempt,
\* and those that have a request for it in flight.
MayRetry(s, d) == d \in s.batch /\ s.seen[d] + 1 < MaxAttemptsLimit
Holders(d) == {w \in Workers : d \in worker[w].batch}
Retriers(d) == {w \in Workers : MayRetry(worker[w], d)}
Flyers(d) == {w \in Workers : Flying(worker[w], d)}

\* Some worker will claim d, now or once its claim is stale.
Awaiting(d) ==
    \/ delivery[d].status = "pending"
    \/ delivery[d].status = "delivering" /\ Holders(d) = {}

\* Requests still to come, p to be claimed, h claimed, l of those with a retry to
\* follow, against what a updates of e clients allow.  While two attempts or more
\* are left, each update adds one series of attempts at most; after that the sum
\* of the attempts made and to come is what cannot grow but by two for an update.
WithinBudget(a, e, p, h, l) ==
    IF a + 2 <= MaxAttemptsLimit THEN p + h <= 1 + e
                                 ELSE a + p + h + l <= MaxAttemptsLimit + e + e

\* The requests made, but for updates and those in flight, are counted in the row;
\* those to come are within the budget.
Spent(d) ==
    /\ sends[d] + edits[d] <= delivery[d].attempts + Cardinality(Flyers(d))
    /\ WithinBudget(delivery[d].attempts, edits[d], One(Awaiting(d)),
                    Cardinality(Holders(d)), Cardinality(Retriers(d)))

\* A row that was not inserted has no history, and nobody holds it.
Unborn ==
    \A d \in Deliveries :
      delivery[d].status = "none" =>
        delivery[d].attempts = 0 /\ edits[d] = 0 /\ Holders(d) = {}

\* No held claim is stale where workers are timely.
HeldFresh ==
    TimelyWorkers =>
      \A d \in Deliveries : Holders(d) # {} => delivery[d].claim_age < StaleAfter

\* What a worker holds in hand can be written, and retried only if allowed.
Sound(s) == Allowed(s) /\ IsStorable(s.http)

FiniteHolders == \A d \in Deliveries : IsFiniteSet(Holders(d))

\* What holds in any deployment, whatever fails; and the invariant itself.
PInv ==
    /\ TInv
    /\ edits \in [Deliveries -> Nat]
    /\ \A w \in Workers : Sound(worker[w])
    /\ FiniteHolders
    /\ Unborn
    /\ HeldFresh

OInv == PInv /\ (faults = 0 => \A d \in Deliveries : Spent(d))

\* A set that differs from a finite one in w at most.
LEMMA OneMoves ==
    ASSUME NEW S, NEW T, NEW w, IsFiniteSet(S), \A v : v # w => (v \in S <=> v \in T)
    PROVE  /\ IsFiniteSet(T)
           /\ Cardinality(S) \in Nat /\ Cardinality(T) \in Nat
           /\ Cardinality(T) + One(w \in S) = Cardinality(S) + One(w \in T)
<1>1. Cardinality(S) \in Nat
    BY FS_CardinalityType
<1>2. CASE w \in S <=> w \in T
    <2>1. T = S
        BY <1>2
    <2> QED BY <1>1, <2>1
<1>3. CASE w \notin S /\ w \in T
    <2>1. T = S \cup {w}
        BY <1>3
    <2>2. IsFiniteSet(T) /\ Cardinality(T) = Cardinality(S) + 1
        BY <1>3, <2>1, FS_AddElement
    <2> QED BY <1>1, <1>3, <2>2 DEF One
<1>4. CASE w \in S /\ w \notin T
    <2>1. T = S \ {w}
        BY <1>4
    <2>2. IsFiniteSet(T) /\ Cardinality(T) = Cardinality(S) - 1
        BY <1>4, <2>1, FS_RemoveElement
    <2>3. Cardinality(T) \in Nat
        BY <2>2, FS_CardinalityType
    <2> QED BY <1>1, <1>4, <2>2, <2>3 DEF One
<1> QED BY <1>2, <1>3, <1>4

\* Who may retry, or is sending, holds the delivery; and a set is empty when its
\* cardinality is 0.
LEMMA HolderFacts ==
    ASSUME TInv, FiniteHolders, NEW d \in Deliveries
    PROVE  /\ IsFiniteSet(Holders(d)) /\ IsFiniteSet(Retriers(d)) /\ IsFiniteSet(Flyers(d))
           /\ Cardinality(Holders(d)) \in Nat
           /\ Cardinality(Retriers(d)) \in Nat
           /\ Cardinality(Flyers(d)) \in Nat
           /\ Cardinality(Retriers(d)) <= Cardinality(Holders(d))
           /\ Cardinality(Flyers(d)) <= Cardinality(Holders(d))
           /\ Holders(d) = {} <=> Cardinality(Holders(d)) = 0
<1>1. Retriers(d) \subseteq Holders(d)
    BY DEF Retriers, Holders, MayRetry
<1>2. Flyers(d) \subseteq Holders(d)
    BY CurFacts DEF Flyers, Holders, Flying, Processing, PCs
<1>3. IsFiniteSet(Holders(d))
    BY DEF FiniteHolders
<1> QED BY <1>1, <1>2, <1>3, FS_Subset, FS_CardinalityType, FS_EmptySet

\* A step that moves one worker moves it alone in or out of the three sets.
LEMMA CountsMove ==
    ASSUME TInv, FiniteHolders, NEW w \in Workers, NEW d \in Deliveries,
           \A v \in Workers : v # w => worker'[v] = worker[v]
    PROVE  /\ IsFiniteSet(Holders(d)')
           /\ Holders(d)' = {} <=> Cardinality(Holders(d)') = 0
           /\ Cardinality(Holders(d)') \in Nat
           /\ Cardinality(Retriers(d)') \in Nat
           /\ Cardinality(Flyers(d)') \in Nat
           /\ Cardinality(Holders(d)') + One(d \in worker[w].batch)
                = Cardinality(Holders(d)) + One(d \in worker'[w].batch)
           /\ Cardinality(Retriers(d)') + One(MayRetry(worker[w], d))
                = Cardinality(Retriers(d)) + One(MayRetry(worker'[w], d))
           /\ Cardinality(Flyers(d)') + One(Flying(worker[w], d))
                = Cardinality(Flyers(d)) + One(Flying(worker'[w], d))
<1>1. /\ \A v : v # w => (v \in Holders(d) <=> v \in Holders(d)')
      /\ w \in Holders(d) <=> d \in worker[w].batch
      /\ w \in Holders(d)' <=> d \in worker'[w].batch
    BY DEF Holders
<1>2. /\ \A v : v # w => (v \in Retriers(d) <=> v \in Retriers(d)')
      /\ w \in Retriers(d) <=> MayRetry(worker[w], d)
      /\ w \in Retriers(d)' <=> MayRetry(worker'[w], d)
    BY DEF Retriers
<1>3. /\ \A v : v # w => (v \in Flyers(d) <=> v \in Flyers(d)')
      /\ w \in Flyers(d) <=> Flying(worker[w], d)
      /\ w \in Flyers(d)' <=> Flying(worker'[w], d)
    BY DEF Flyers
<1>4. IsFiniteSet(Holders(d)) /\ IsFiniteSet(Retriers(d)) /\ IsFiniteSet(Flyers(d))
    BY HolderFacts
<1>5. /\ IsFiniteSet(Holders(d)') /\ Cardinality(Holders(d)') \in Nat
      /\ Cardinality(Holders(d)') + One(w \in Holders(d))
           = Cardinality(Holders(d)) + One(w \in Holders(d)')
    BY <1>1, <1>4, OneMoves
<1>6. /\ Cardinality(Retriers(d)') \in Nat
      /\ Cardinality(Retriers(d)') + One(w \in Retriers(d))
           = Cardinality(Retriers(d)) + One(w \in Retriers(d)')
    BY <1>2, <1>4, OneMoves
<1>7. /\ Cardinality(Flyers(d)') \in Nat
      /\ Cardinality(Flyers(d)') + One(w \in Flyers(d))
           = Cardinality(Flyers(d)) + One(w \in Flyers(d)')
    BY <1>3, <1>4, OneMoves
<1>8. Holders(d)' = {} <=> Cardinality(Holders(d)') = 0
    BY <1>5, FS_EmptySet
<1> QED BY <1>1, <1>2, <1>3, <1>5, <1>6, <1>7, <1>8 DEF One

\* Without a fault, w goes where the statement's code says.
LEMMA NoFault ==
    ASSUME TInv, NEW w \in Workers, NEW next, Reply(w, next), faults' = faults
    PROVE  worker' = [worker EXCEPT ![w] = next]
    BY WorkerAssumption DEF Reply, TInv, TypeOK

\* What a step of w, without a fault, makes of one delivery: nothing but a reset
\* if nobody holds it, a claim, an outcome, or a delay.
Kept(w, d) ==
    /\ d \in worker'[w].batch <=> d \in worker[w].batch
    /\ MayRetry(worker'[w], d) <=> MayRetry(worker[w], d)
    /\ delivery'[d].attempts = delivery[d].attempts
    /\ \/ delivery'[d].status = delivery[d].status
       \/ /\ delivery[d].status = "delivering" /\ Holders(d) = {}
          /\ delivery'[d].status = "pending"
Claimed(w, d) ==
    /\ d \notin worker[w].batch /\ d \in worker'[w].batch
    /\ MayRetry(worker'[w], d) <=> delivery[d].attempts + 1 < MaxAttemptsLimit
    /\ delivery'[d].attempts = delivery[d].attempts
    /\ delivery[d].status = "pending" /\ delivery'[d].status = "delivering"
Counted(w, d) ==
    /\ d \in worker[w].batch /\ d \notin worker'[w].batch
    /\ delivery'[d].attempts = delivery[d].attempts + 1
    /\ delivery'[d].status \in {"pending"} \cup Terminal
    /\ delivery'[d].status = "pending" => MayRetry(worker[w], d)
PutOff(w, d) ==
    /\ d \in worker[w].batch /\ d \notin worker'[w].batch
    /\ delivery'[d].attempts = delivery[d].attempts
    /\ delivery'[d].status = "pending"

\* With the same claims and counts in hand, w may retry what it could before.
LEMMA SameBatch ==
    ASSUME NEW s, NEW t, NEW d, t.batch = s.batch, t.seen = s.seen
    PROVE  /\ d \in t.batch <=> d \in s.batch
           /\ MayRetry(t, d) <=> MayRetry(s, d)
    BY DEF MayRetry

\* In the middle of processDelivery, and at the reset, w keeps its batch.
LEMMA QuietBatch ==
    ASSUME TInv, NEW w \in Workers, faults' = faults,
           \/ ResetStaleDelivering(w) \/ Load(w) \/ MoveEndpointCircuitToHalfOpen(w)
           \/ Send(w) \/ MarkEndpointDeliverySuccess(w) \/ MarkEndpointDeliveryFailure(w)
    PROVE  worker'[w].batch = worker[w].batch /\ worker'[w].seen = worker[w].seen
<1>0. worker[w] \in WorkerState /\ worker \in [Workers -> WorkerState]
    BY DEF TInv, TypeOK
<1>1. CASE \/ ResetStaleDelivering(w) \/ MoveEndpointCircuitToHalfOpen(w)
           \/ MarkEndpointDeliverySuccess(w) \/ MarkEndpointDeliveryFailure(w)
    <2>1. PICK pc : Reply(w, Goto(w, pc))
        BY <1>1 DEF ResetStaleDelivering, MoveEndpointCircuitToHalfOpen,
                    MarkEndpointDeliverySuccess, MarkEndpointDeliveryFailure
    <2>2. worker' = [worker EXCEPT ![w] = Goto(w, pc)]
        BY <2>1, NoFault
    <2> QED BY <1>0, <2>2 DEF Goto, WorkerState
<1>2. CASE Load(w)
    BY <1>0, <1>2 DEF Load
<1>3. CASE Send(w)
    <2>1. PICK http, pc : worker' = [worker EXCEPT ![w] =
                            [worker[w] EXCEPT !.http = http, !.pc = pc]]
        BY <1>0, <1>3, Zenon DEF Send
    <2> QED BY <1>0, <2>1 DEF WorkerState
<1> QED BY <1>1, <1>2, <1>3

\* A row nobody can be writing is the only one a reset finds: ResetUnheld, with
\* rows that clients write.
LEMMA ResetOrphans ==
    ASSUME TInv, HeldFresh, SafeDeployment, NEW w \in Workers, worker[w].pc = "reset",
           NEW d \in Stale
    PROVE  Holders(d) = {}
<1>1. d \in Deliveries /\ delivery[d] \in DeliveryRow /\ delivery[d].claim_age >= StaleAfter
    BY DEF Stale, IsStale, TInv, TypeOK
<1>2. CASE TimelyWorkers
    BY <1>1, <1>2, ConfigAssumption DEF HeldFresh, DeliveryRow
<1>3. CASE ~TimelyWorkers
    BY <1>3 DEF SafeDeployment, Holders, TInv, Local
<1> QED BY <1>2, <1>3

\* Done lets go of one delivery and keeps the others as they were.
LEMMA DoneBatch ==
    ASSUME TInv, NEW w \in Workers, NEW c \in Deliveries, NEW d \in Deliveries,
           worker' = [worker EXCEPT ![w] = Done(w, c)]
    PROVE  /\ c \notin worker'[w].batch
           /\ d # c => /\ d \in worker'[w].batch <=> d \in worker[w].batch
                       /\ MayRetry(worker'[w], d) <=> MayRetry(worker[w], d)
<1>1. worker'[w] = Done(w, c)
    BY DEF TInv, TypeOK
<1>2. worker[w].seen \in [Deliveries -> Nat]
    BY DEF TInv, TypeOK, WorkerState
<1>3. /\ Done(w, c).batch = worker[w].batch \ {c}
      /\ Done(w, c).seen = [worker[w].seen EXCEPT ![c] = 0]
    BY DEF Done, Holding
<1>4. d # c => Done(w, c).seen[d] = worker[w].seen[d]
    BY <1>2, <1>3
<1> QED BY <1>1, <1>3, <1>4 DEF MayRetry

\* Each step of a worker does one of the four things to each delivery.
LEMMA WorkerTurn ==
    ASSUME TInv, HeldFresh, SafeDeployment, NEW w \in Workers, WorkerStep(w),
           faults' = faults, Sound(worker[w]), NEW d \in Deliveries
    PROVE  Kept(w, d) \/ Claimed(w, d) \/ Counted(w, d) \/ PutOff(w, d)
<1>0. /\ delivery \in [Deliveries -> DeliveryRow] /\ delivery[d] \in DeliveryRow
      /\ worker[w] \in WorkerState /\ worker \in [Workers -> WorkerState]
    BY DEF TInv, TypeOK
<1>1. CASE \/ Load(w) \/ MoveEndpointCircuitToHalfOpen(w) \/ Send(w)
           \/ MarkEndpointDeliverySuccess(w) \/ MarkEndpointDeliveryFailure(w)
    <2>1. worker'[w].batch = worker[w].batch /\ worker'[w].seen = worker[w].seen
        BY <1>1, QuietBatch
    <2>2. UNCHANGED delivery
        BY <1>1 DEF Load, MoveEndpointCircuitToHalfOpen, Send,
                    MarkEndpointDeliverySuccess, MarkEndpointDeliveryFailure
    <2> QED BY <2>1, <2>2, SameBatch DEF Kept
<1>2. CASE ResetStaleDelivering(w)
    <2>1. worker'[w].batch = worker[w].batch /\ worker'[w].seen = worker[w].seen
        BY <1>2, QuietBatch
    <2>2. delivery'[d] = IF d \in Stale THEN ResetRow(delivery[d]) ELSE delivery[d]
        BY <1>2 DEF ResetStaleDelivering
    <2>3. d \in Stale => Holders(d) = {} /\ delivery[d].status = "delivering"
        BY <1>2, ResetOrphans DEF ResetStaleDelivering, Stale, IsStale
    <2>4. /\ ResetRow(delivery[d]).status = "pending"
          /\ ResetRow(delivery[d]).attempts = delivery[d].attempts
        BY <1>0, Zenon DEF ResetRow, DeliveryRow
    <2> QED BY <2>1, <2>2, <2>3, <2>4, SameBatch DEF Kept
<1>3. CASE ClaimPendingDeliveries(w)
    <2>1. PICK s \in SUBSET Ready :
            /\ delivery' = [c \in Deliveries |->
                              IF c \in s THEN ClaimRow(delivery[c]) ELSE delivery[c]]
            /\ Reply(w, Holding(IF s = {} THEN "reset" ELSE "load", s,
                                [c \in Deliveries |->
                                   IF c \in s THEN delivery[c].attempts ELSE 0]))
        BY <1>3 DEF ClaimPendingDeliveries, Claim
    <2> DEFINE t == Holding(IF s = {} THEN "reset" ELSE "load", s,
                            [c \in Deliveries |->
                               IF c \in s THEN delivery[c].attempts ELSE 0])
    <2>2. t.batch = s /\ (d \in s => t.seen[d] = delivery[d].attempts)
        BY DEF Holding
    <2>3. worker'[w] = t
        BY <1>0, <2>1, NoFault
    <2>4. worker[w].batch = {}
        BY <1>3 DEF ClaimPendingDeliveries, Claim, TInv, Local
    <2>5. CASE d \in s
        <3>1. delivery[d].status = "pending" /\ delivery'[d] = ClaimRow(delivery[d])
            BY <2>1, <2>5 DEF Ready, IsReady
        <3>2. Claimed(w, d)
            BY <1>0, <2>2, <2>3, <2>4, <2>5, <3>1, ClaimRowFields DEF Claimed, MayRetry
        <3> QED BY <3>2
    <2>6. CASE d \notin s
        <3>1. delivery'[d] = delivery[d]
            BY <2>1, <2>6
        <3>2. Kept(w, d)
            BY <2>2, <2>3, <2>4, <2>6, <3>1 DEF Kept, MayRetry
        <3> QED BY <3>2
    <2> QED BY <2>5, <2>6
<1>4. CASE UpdateDeliveryAttempt(w) \/ RescheduleDelivery(w)
    <2> DEFINE c == worker[w].cur
    <2>1. worker[w].pc \in Processing
        BY <1>4 DEF UpdateDeliveryAttempt, RescheduleDelivery, Processing, PCs
    <2>2. c \in worker[w].batch /\ c \in Deliveries
        BY <2>1, CurFacts
    <2>3. worker' = [worker EXCEPT ![w] = Done(w, c)]
        BY <1>4, NoFault DEF UpdateDeliveryAttempt, RescheduleDelivery, Sound
    <2>4. CASE d # c
        <3>1. delivery'[d] = delivery[d]
            BY <1>0, <1>4, <2>4 DEF UpdateDeliveryAttempt, RescheduleDelivery
        <3> QED BY <2>2, <2>3, <2>4, <3>1, DoneBatch DEF Kept
    <2>5. CASE d = c /\ UpdateDeliveryAttempt(w)
        <3>1. PICK due : delivery'[d] = AttemptRow(delivery[d], Outcome(w), due)
            BY <1>0, <2>2, <2>5 DEF UpdateDeliveryAttempt, Sound
        <3>2. /\ delivery'[d].status = Outcome(w)
              /\ delivery'[d].attempts = delivery[d].attempts + 1
            BY <3>1 DEF AttemptRow
        <3>3. /\ Outcome(w) \in {"pending"} \cup Terminal
              /\ Outcome(w) = "pending" => worker[w].pc = "retry"
            BY <2>5 DEF UpdateDeliveryAttempt, Outcome, Terminal
        <3>4. worker[w].pc = "retry" => MayRetry(worker[w], d)
            BY <2>2, <2>5 DEF Sound, Allowed, MayRetry
        <3> QED BY <2>2, <2>3, <2>5, <3>2, <3>3, <3>4, DoneBatch DEF Counted
    <2>6. CASE d = c /\ RescheduleDelivery(w)
        <3>1. PICK due : delivery'[d] = RescheduleRow(delivery[d], due)
            BY <1>0, <2>2, <2>6 DEF RescheduleDelivery
        <3>2. /\ delivery'[d].status = "pending"
              /\ delivery'[d].attempts = delivery[d].attempts
            BY <1>0, <3>1, Zenon DEF RescheduleRow, DeliveryRow
        <3> QED BY <2>2, <2>3, <2>6, <3>2, DoneBatch DEF PutOff
    <2> QED BY <1>4, <2>4, <2>5, <2>6
<1> QED BY <1>1, <1>2, <1>3, <1>4 DEF WorkerStep

\* A request is in flight once made, and until the row counts it.
LEMMA SendsCovered ==
    ASSUME TInv, NEW w \in Workers, WorkerStep(w), faults' = faults,
           Sound(worker[w]), NEW d \in Deliveries
    PROVE  sends'[d] + One(Flying(worker[w], d)) + delivery[d].attempts
             <= sends[d] + One(Flying(worker'[w], d)) + delivery'[d].attempts
<1>0. /\ sends[d] \in Nat /\ sends'[d] \in Nat /\ faults \in Nat
      /\ delivery[d].attempts \in Nat /\ delivery'[d].attempts \in Nat
    BY TypeWorkerStep, WorkerAssumption DEF TInv, TypeOK, DeliveryRow
<1>1. /\ delivery'[d].attempts >= delivery[d].attempts
      /\ sends'[d] <= sends[d] + 1
    BY CountersGrow
<1>2. CASE sends'[d] # sends[d]
    <2>1. worker[w].pc = "send" /\ Flying(worker'[w], d)
        BY <1>2, CountersGrow
    <2>2. ~Flying(worker[w], d)
        BY <2>1 DEF Flying
    <2> QED BY <1>0, <1>1, <2>1, <2>2 DEF One
<1>3. CASE sends'[d] = sends[d] /\ Flying(worker[w], d)
    <2>1. Flying(worker'[w], d) \/ delivery'[d].attempts = delivery[d].attempts + 1
        BY <1>0, <1>3, FlightEnds DEF Sound
    <2> QED BY <1>0, <1>1, <1>3, <2>1 DEF One
<1>4. CASE sends'[d] = sends[d] /\ ~Flying(worker[w], d)
    BY <1>0, <1>1, <1>4 DEF One
<1> QED BY <1>2, <1>3, <1>4

\* The budget through a claim, an outcome, a delay and an update by a client; r is
\* 1 for a worker that may retry, p2 for a row that is to be claimed afterwards.
LEMMA BudgetSteps ==
    ASSUME NEW a \in Nat, NEW e \in Nat, NEW p \in 0..1, NEW p2 \in 0..1,
           NEW h \in Nat, NEW l \in Nat, NEW r \in 0..1, NEW h2 \in Nat, NEW l2 \in Nat,
           WithinBudget(a, e, p, h, l), l <= h
    PROVE  /\ p2 <= p /\ h2 = h /\ l2 = l => WithinBudget(a, e, p2, h2, l2)
           /\ /\ p = 1 /\ p2 = 0 /\ h2 = h + 1
              /\ l2 = l + (IF a + 1 < MaxAttemptsLimit THEN 1 ELSE 0)
              => WithinBudget(a, e, p2, h2, l2)
           /\ h2 + 1 = h /\ l2 + r = l /\ p2 <= r => WithinBudget(a + 1, e, p2, h2, l2)
           /\ h2 + 1 = h /\ l2 <= l => WithinBudget(a, e, p2, h2, l2)
           /\ h2 = h /\ l2 = l => WithinBudget(a + 1, e + 1, p2, h2, l2)
    BY ConfigAssumption DEF WithinBudget

\* A worker's step, without a fault, costs what the budget has set aside.
LEMMA BudgetWorkerStep ==
    ASSUME TInv, HeldFresh, FiniteHolders, SafeDeployment,
           edits \in [Deliveries -> Nat], NEW w \in Workers, WorkerStep(w),
           UNCHANGED <<faults, edits>>, Sound(worker[w]), NEW d \in Deliveries, Spent(d)
    PROVE  Spent(d)'
<1> DEFINE a == delivery[d].attempts
           a2 == delivery'[d].attempts
           p == One(Awaiting(d))
           p2 == One(Awaiting(d)')
           h == Cardinality(Holders(d))
           h2 == Cardinality(Holders(d)')
           l == Cardinality(Retriers(d))
           l2 == Cardinality(Retriers(d)')
           f == Cardinality(Flyers(d))
           f2 == Cardinality(Flyers(d)')
           r == One(MayRetry(worker[w], d))
<1>1. TInv' /\ \A v \in Workers : v # w => worker'[v] = worker[v]
    BY TypeWorkerStep, OthersStay
<1>2. /\ h2 + One(d \in worker[w].batch) = h + One(d \in worker'[w].batch)
      /\ l2 + One(MayRetry(worker[w], d)) = l + One(MayRetry(worker'[w], d))
      /\ f2 + One(Flying(worker[w], d)) = f + One(Flying(worker'[w], d))
    BY <1>1, CountsMove
<1>3. h2 \in Nat /\ l2 \in Nat /\ f2 \in Nat /\ (Holders(d)' = {} <=> h2 = 0)
    BY <1>1, CountsMove
<1>4. h \in Nat /\ l \in Nat /\ f \in Nat /\ l <= h /\ (Holders(d) = {} <=> h = 0)
    BY HolderFacts
<1>6. a \in Nat /\ a2 \in Nat /\ sends[d] \in Nat /\ sends'[d] \in Nat /\ edits[d] \in Nat
    BY <1>1, WorkerAssumption DEF TInv, TypeOK, DeliveryRow
<1>7. p \in 0..1 /\ p2 \in 0..1 /\ r \in 0..1
    BY DEF One
<1>8. /\ sends[d] + edits[d] <= a + f
      /\ WithinBudget(a, edits[d], p, h, l)
    BY DEF Spent
<1>9. sends'[d] + edits[d] <= a2 + f2
    <2>1. sends'[d] + One(Flying(worker[w], d)) + a <= sends[d] + One(Flying(worker'[w], d)) + a2
        BY SendsCovered
    <2>2. One(Flying(worker[w], d)) \in Nat /\ One(Flying(worker'[w], d)) \in Nat
        BY DEF One
    <2> HIDE DEF a, a2, f, f2
    <2> QED BY <1>2, <1>3, <1>4, <1>6, <1>8, <2>1, <2>2
<1>10. WithinBudget(a2, edits[d], p2, h2, l2)
    <2>1. CASE Kept(w, d)
        <3>1. h2 = h /\ l2 = l /\ a2 = a
            BY <1>2, <1>3, <1>4, <2>1 DEF Kept, One
        <3>2. p2 <= p
            BY <1>3, <1>4, <2>1, <3>1 DEF Kept, Awaiting, One
        <3> HIDE DEF a, a2, p, p2, h, h2, l, l2
        <3> QED BY <1>3, <1>4, <1>6, <1>7, <1>8, <3>1, <3>2, BudgetSteps
    <2>2. CASE Claimed(w, d)
        <3>1. MayRetry(worker[w], d) = FALSE
            BY <2>2 DEF Claimed, MayRetry
        <3>2. h2 = h + 1 /\ l2 = l + (IF a + 1 < MaxAttemptsLimit THEN 1 ELSE 0) /\ a2 = a
            BY <1>2, <1>3, <1>4, <2>2, <3>1 DEF Claimed, One
        <3>3. p = 1 /\ p2 = 0
            BY <1>3, <1>4, <2>2, <3>2 DEF Claimed, Awaiting, One
        <3> HIDE DEF a, a2, p, p2, h, h2, l, l2
        <3> QED BY <1>3, <1>4, <1>6, <1>7, <1>8, <3>2, <3>3, BudgetSteps
    <2>3. CASE Counted(w, d)
        <3>1. MayRetry(worker'[w], d) = FALSE
            BY <2>3 DEF Counted, MayRetry
        <3>2. h2 + 1 = h /\ l2 + r = l /\ a2 = a + 1
            BY <1>2, <1>3, <1>4, <2>3, <3>1 DEF Counted, One
        <3>3. p2 <= r
            BY <2>3 DEF Counted, Awaiting, One, Terminal
        <3> HIDE DEF a, a2, p, p2, h, h2, l, l2, r
        <3> QED BY <1>3, <1>4, <1>6, <1>7, <1>8, <3>2, <3>3, BudgetSteps
    <2>4. CASE PutOff(w, d)
        <3>1. MayRetry(worker'[w], d) = FALSE
            BY <2>4 DEF PutOff, MayRetry
        <3>2. h2 + 1 = h /\ l2 <= l /\ a2 = a
            BY <1>2, <1>3, <1>4, <2>4, <3>1 DEF PutOff, One
        <3> HIDE DEF a, a2, p, p2, h, h2, l, l2
        <3> QED BY <1>3, <1>4, <1>6, <1>7, <1>8, <3>2, BudgetSteps
    <2> QED BY <2>1, <2>2, <2>3, <2>4, WorkerTurn
<1> QED BY <1>9, <1>10 DEF Spent

\* Steps that leave every worker where it is, with what it holds, leave the sets.
LEMMA SameHolders ==
    ASSUME \A w \in Workers : /\ worker'[w].pc = worker[w].pc
                              /\ worker'[w].cur = worker[w].cur
                              /\ worker'[w].batch = worker[w].batch
                              /\ worker'[w].seen = worker[w].seen,
           NEW d \in Deliveries
    PROVE  /\ Holders(d)' = Holders(d)
           /\ Retriers(d)' = Retriers(d)
           /\ Flyers(d)' = Flyers(d)
    BY DEF Holders, Retriers, Flyers, MayRetry, Flying

\* A delivery gets into a batch by being claimed.
LEMMA Acquires ==
    ASSUME TInv, NEW w \in Workers, WorkerStep(w), NEW d \in Deliveries,
           d \in worker'[w].batch, d \notin worker[w].batch
    PROVE  delivery[d].status = "pending" /\ delivery'[d] = ClaimRow(delivery[d])
<1>0. worker \in [Workers -> WorkerState]
    BY DEF TInv, TypeOK
<1>1. ASSUME NEW t \in After(w), worker' = [worker EXCEPT ![w] = t] PROVE FALSE
    BY <1>0, <1>1 DEF After, Keeps
<1>2. ASSUME NEW next \in After(w), Reply(w, next) PROVE FALSE
    BY <1>1, <1>2, ReplyFacts
<1>3. CASE \/ Load(w) \/ MoveEndpointCircuitToHalfOpen(w) \/ Send(w)
           \/ MarkEndpointDeliverySuccess(w) \/ MarkEndpointDeliveryFailure(w)
    BY <1>1, <1>3, QuietWorkerStep
<1>4. CASE ResetStaleDelivering(w)
    <2>1. Goto(w, "claim") \in After(w)
        BY <1>4, GotoFacts DEF ResetStaleDelivering, PCs
    <2> QED BY <1>2, <1>4, <2>1 DEF ResetStaleDelivering
<1>5. CASE UpdateDeliveryAttempt(w) \/ RescheduleDelivery(w)
    <2>1. worker[w].pc \in Processing
        BY <1>5 DEF UpdateDeliveryAttempt, RescheduleDelivery, Processing, PCs
    <2>2. Done(w, worker[w].cur) \in After(w)
        BY <2>1, CurFacts, DoneFacts
    <2> QED BY <1>1, <1>2, <1>5, <2>2 DEF UpdateDeliveryAttempt, RescheduleDelivery
<1>6. CASE ClaimPendingDeliveries(w)
    <2>1. PICK s \in SUBSET Ready :
            /\ delivery' = [c \in Deliveries |->
                              IF c \in s THEN ClaimRow(delivery[c]) ELSE delivery[c]]
            /\ Reply(w, Holding(IF s = {} THEN "reset" ELSE "load", s,
                                [c \in Deliveries |->
                                   IF c \in s THEN delivery[c].attempts ELSE 0]))
        BY <1>6 DEF ClaimPendingDeliveries, Claim
    <2> DEFINE t == Holding(IF s = {} THEN "reset" ELSE "load", s,
                            [c \in Deliveries |->
                               IF c \in s THEN delivery[c].attempts ELSE 0])
    <2>2. t.batch = s
        BY DEF Holding
    <2> HIDE DEF t
    <2>3. worker'[w] = t
        BY <1>0, <1>1, <2>1, ReplyFacts DEF t
    <2> QED BY <2>1, <2>2, <2>3 DEF Ready, IsReady
<1> QED BY <1>3, <1>4, <1>5, <1>6 DEF WorkerStep

\* Whatever is written to a row starts the age of its claim again.
LEMMA WrittenAge ==
    ASSUME TInv, NEW w \in Workers, NEW d \in Deliveries, Written(w, d)
    PROVE  delivery'[d] = delivery[d] \/ delivery'[d].claim_age = 0
<1>1. delivery[d] \in DeliveryRow
    BY DEF TInv, TypeOK
<1>2. ResetRow(delivery[d]).claim_age = 0
    BY <1>1, Zenon DEF ResetRow, DeliveryRow
<1>3. ASSUME NEW due PROVE RescheduleRow(delivery[d], due).claim_age = 0
    BY <1>1, Zenon DEF RescheduleRow, DeliveryRow
<1>4. ASSUME NEW due PROVE AttemptRow(delivery[d], Outcome(w), due).claim_age = 0
    BY DEF AttemptRow
<1> QED BY <1>1, <1>2, <1>3, <1>4, ClaimRowFields DEF Written

\* The steps of a worker keep PInv, in any deployment.
LEMMA PartWorkerStep ==
    ASSUME PInv, AnswersStorable, NEW w \in Workers, WorkerStep(w), UNCHANGED edits
    PROVE  PInv'
<1>0. /\ TInv /\ FiniteHolders /\ \A v \in Workers : Sound(worker[v])
      /\ edits \in [Deliveries -> Nat]
      /\ \A d \in Deliveries : delivery[d] \in DeliveryRow
    BY DEF PInv, TInv, TypeOK
<1>1. TInv' /\ \A v \in Workers : v # w => worker'[v] = worker[v]
    BY <1>0, TypeWorkerStep, OthersStay
<1>2. \A v \in Workers : Sound(worker'[v])
    BY <1>0, <1>1, AllowedStep, StorableStep DEF Sound
<1>3. FiniteHolders'
    <2>1. ASSUME NEW d \in Deliveries PROVE IsFiniteSet(Holders(d)')
        BY <1>0, <1>1, CountsMove
    <2> QED BY <2>1 DEF FiniteHolders
<1>4. ASSUME NEW d \in Deliveries, Holders(d)' # {}
      PROVE  \/ Holders(d) # {}
             \/ delivery[d].status = "pending" /\ delivery'[d] = ClaimRow(delivery[d])
    BY <1>0, <1>1, <1>4, Acquires DEF Holders
<1>5. ASSUME NEW d \in Deliveries, delivery'[d].status = "none"
      PROVE  delivery'[d].attempts = 0 /\ edits'[d] = 0 /\ Holders(d)' = {}
    <2>1. delivery[d].status = "none" /\ delivery'[d].attempts = delivery[d].attempts
        BY <1>0, <1>5, RowsWritten, WrittenFields DEF Outcome
    <2> QED BY <1>4, <2>1 DEF PInv, Unborn
<1>6. ASSUME TimelyWorkers, NEW d \in Deliveries, Holders(d)' # {}
      PROVE  delivery'[d].claim_age < StaleAfter
    <2>1. delivery'[d] = delivery[d] \/ delivery'[d].claim_age = 0
        BY <1>0, RowsWritten, WrittenAge
    <2>2. CASE Holders(d) # {}
        BY <1>6, <2>1, <2>2, ConfigAssumption DEF PInv, HeldFresh
    <2>3. CASE delivery'[d] = ClaimRow(delivery[d])
        BY <1>0, <2>3, ClaimRowFields, ConfigAssumption
    <2> QED BY <1>4, <1>6, <2>2, <2>3
<1> QED BY <1>0, <1>1, <1>2, <1>3, <1>5, <1>6 DEF PInv, Unborn, HeldFresh

\* So do faults: they only take deliveries out of batches.
LEMMA PartFaults ==
    ASSUME PInv, NEW w \in Workers, StatementFails(w) \/ Crash(w), UNCHANGED edits
    PROVE  PInv' /\ faults' # 0
<1>0. /\ TInv /\ FiniteHolders /\ \A v \in Workers : Sound(worker[v])
      /\ edits \in [Deliveries -> Nat]
    BY DEF PInv
<1>1. PICK t : Between(t) /\ worker' = [worker EXCEPT ![w] = t]
    BY <1>0, FaultsWriteNothing
<1>2. worker'[w] = t /\ \A v \in Workers : v # w => worker'[v] = worker[v]
    BY <1>0, <1>1, Moved
<1>3. UNCHANGED delivery /\ faults' # 0
    BY <1>0, WorkerAssumption DEF StatementFails, Crash, TInv, TypeOK
<1>4. \A v \in Workers : Sound(worker'[v])
    BY <1>0, <1>1, <1>2 DEF Sound, Allowed, Between, IsStorable
<1>5. worker'[w].batch \subseteq worker[w].batch
    <2>1. CASE StatementFails(w)
        BY <1>0, <2>1, AfterErrorFacts DEF StatementFails, After, Keeps, TInv, TypeOK
    <2>2. CASE Crash(w)
        BY <1>0, <2>2, IdleFacts DEF Crash, TInv, TypeOK
    <2> QED BY <2>1, <2>2
<1>6. ASSUME NEW d \in Deliveries
      PROVE  Holders(d)' \subseteq Holders(d) /\ IsFiniteSet(Holders(d)')
    BY <1>0, <1>2, <1>5, CountsMove DEF Holders
<1>7. FiniteHolders' /\ Unborn' /\ HeldFresh'
    <2>1. \A d \in Deliveries : Holders(d) = {} => Holders(d)' = {}
        BY <1>6
    <2> QED BY <1>3, <1>6, <2>1 DEF PInv, FiniteHolders, Unborn, HeldFresh
<1> QED BY <1>0, <1>3, <1>4, <1>7, TypeFaults DEF PInv

\* Steps of nobody: the services insert, the clock ticks.
LEMMA QuietWorkers ==
    ASSUME PInv, Client \/ Tick \/ UNCHANGED vars, UNCHANGED edits
    PROVE  /\ \A w \in Workers : /\ worker'[w].pc = worker[w].pc
                                 /\ worker'[w].cur = worker[w].cur
                                 /\ worker'[w].batch = worker[w].batch
                                 /\ worker'[w].seen = worker[w].seen
                                 /\ worker'[w].http = worker[w].http
           /\ UNCHANGED <<faults, sends>>
           /\ \A d \in Deliveries :
                \/ /\ delivery'[d].status = delivery[d].status
                   /\ delivery'[d].attempts = delivery[d].attempts
                \/ /\ delivery[d].status = "none" /\ delivery'[d] = FreshDelivery
<1>0. TInv /\ \A d \in Deliveries : delivery[d] \in DeliveryRow
    BY DEF PInv, TInv, TypeOK
<1>1. CASE Client
    BY <1>0, <1>1, ClientsInsert
<1>2. CASE Tick
    <2>1. \A w \in Workers : worker'[w].http = worker[w].http
        BY <1>0, <1>2 DEF Tick, WorkerState, TInv, TypeOK
    <2>2. \A d \in Deliveries : /\ delivery'[d].status = delivery[d].status
                                /\ delivery'[d].attempts = delivery[d].attempts
        BY <1>0, <1>2, AgeFields DEF Tick
    <2>3. UNCHANGED <<faults, sends>>
        BY <1>2 DEF Tick
    <2> QED BY <1>0, <1>2, <2>1, <2>2, <2>3, TickWorkers
<1>3. CASE UNCHANGED vars
    BY <1>3 DEF vars
<1> QED BY <1>1, <1>2, <1>3

\* They keep PInv, the clock because it stops short of StaleAfter ...
LEMMA PartQuiet ==
    ASSUME PInv, Client \/ Tick \/ UNCHANGED vars, UNCHANGED edits
    PROVE  PInv'
<1>0. /\ TInv /\ \A d \in Deliveries : delivery[d] \in DeliveryRow
      /\ \A d \in Deliveries : delivery'[d] \in DeliveryRow
      /\ TInv'
    <2>1. TInv /\ TInv'
        BY TypeStep DEF PInv, Next
    <2> QED BY <2>1 DEF TInv, TypeOK
<1>1. \A w \in Workers : Sound(worker'[w])
    BY QuietWorkers DEF PInv, Sound, Allowed
<1>2. \A d \in Deliveries : Holders(d)' = Holders(d)
    BY QuietWorkers, SameHolders
<1>3. FiniteHolders'
    BY <1>2 DEF PInv, FiniteHolders
<1>4. Unborn'
    BY <1>2, QuietWorkers DEF PInv, Unborn, FreshDelivery, NoRow
<1>5. ASSUME TimelyWorkers, NEW d \in Deliveries, Holders(d) # {}
      PROVE  delivery'[d].claim_age < StaleAfter
    <2>1. delivery[d].claim_age < StaleAfter /\ delivery[d].status # "none"
        BY <1>5 DEF PInv, HeldFresh, Unborn
    <2>2. CASE Client
        BY <1>0, <2>1, <2>2, ClientsInsert
    <2>3. CASE Tick
        <3>1. PICK w \in Workers : d \in worker[w].batch
            BY <1>5 DEF Holders
        <3>2. delivery[d].claim_age + 1 < StaleAfter
            BY <1>0, <1>5, <2>3, <3>1, ConfigAssumption DEF Tick, HeldToTheLimit, DeliveryRow
        <3>3. delivery[d].claim_age \in 0..StaleAfter
            BY <1>0 DEF DeliveryRow
        <3>4. delivery'[d].claim_age \in {delivery[d].claim_age, delivery[d].claim_age + 1}
            BY <1>0, <2>3, AgeFields DEF Tick
        <3> QED BY <2>1, <3>2, <3>3, <3>4, ConfigAssumption
    <2>4. CASE UNCHANGED vars
        BY <2>1, <2>4 DEF vars
    <2> QED BY <2>2, <2>3, <2>4
<1>6. HeldFresh'
    BY <1>2, <1>5 DEF HeldFresh
<1> QED BY <1>0, <1>1, <1>3, <1>4, <1>6 DEF PInv

\* ... and the budget, a new row starting with all of it.
LEMMA BudgetQuiet ==
    ASSUME PInv, Client \/ Tick \/ UNCHANGED vars, UNCHANGED edits,
           NEW d \in Deliveries, Spent(d)
    PROVE  Spent(d)'
<1>1. /\ Holders(d)' = Holders(d) /\ Retriers(d)' = Retriers(d) /\ Flyers(d)' = Flyers(d)
      /\ sends'[d] = sends[d] /\ edits'[d] = edits[d]
    BY QuietWorkers, SameHolders
<1>2. CASE /\ delivery'[d].status = delivery[d].status
           /\ delivery'[d].attempts = delivery[d].attempts
    BY <1>1, <1>2 DEF Spent, Awaiting
<1>3. CASE delivery[d].status = "none" /\ delivery'[d] = FreshDelivery
    <2>1. /\ delivery[d].attempts = 0 /\ edits[d] = 0 /\ Holders(d) = {}
          /\ delivery'[d].attempts = 0
        BY <1>3 DEF PInv, Unborn, FreshDelivery, NoRow
    <2>2. Cardinality(Holders(d)) = 0 /\ Cardinality(Retriers(d)) = 0
        BY <2>1, HolderFacts DEF PInv
    <2>3. WithinBudget(0, 0, One(Awaiting(d)'), 0, 0)
        BY ConfigAssumption DEF WithinBudget, One
    <2> QED BY <1>1, <2>1, <2>2, <2>3 DEF Spent
<1> QED BY <1>2, <1>3, QuietWorkers

\* An update by a client keeps PInv, and gives its delivery the budget it costs.
LEMMA PartEdit ==
    ASSUME PInv, NEW c \in Deliveries, UpdateByClient(c)
    PROVE  PInv'
<1>0. TInv /\ edits \in [Deliveries -> Nat] /\ delivery[c] \in DeliveryRow
    BY DEF PInv, TInv, TypeOK
<1>1. worker' = worker /\ \A d \in Deliveries : Holders(d)' = Holders(d)
    <2>1. worker' = worker
        BY <1>0, ClientWrites
    <2> QED BY <2>1, SameHolders
<1>2. PICK req \in EditRequests : /\ Accepted(req)
                                  /\ delivery'[c] = EditedRow(delivery[c], req)
    BY <1>0, ClientWrites
<1>3. delivery'[c].status \in StoredStatuses /\ delivery'[c].claim_age = 0
    BY <1>0, <1>2, EditedRowFacts
<1>4. \A d \in Deliveries :
        d # c => delivery'[d] = delivery[d] /\ edits'[d] = edits[d]
    BY <1>0, ClientWrites
<1>5. Unborn'
    BY <1>1, <1>3, <1>4 DEF PInv, Unborn, StoredStatuses
<1>6. HeldFresh'
    BY <1>1, <1>3, <1>4, ConfigAssumption DEF PInv, HeldFresh
<1>7. FiniteHolders' /\ \A w \in Workers : Sound(worker'[w])
    BY <1>1 DEF PInv, FiniteHolders
<1> QED BY <1>0, <1>5, <1>6, <1>7, ClientWrites DEF PInv

\* The update is counted once in the row and once in edits.
LEMMA BudgetEdit ==
    ASSUME PInv, NEW c \in Deliveries, UpdateByClient(c), NEW d \in Deliveries, Spent(d)
    PROVE  Spent(d)'
<1> DEFINE a == delivery[d].attempts
           e == edits[d]
           p == One(Awaiting(d))
           p2 == One(Awaiting(d)')
           h == Cardinality(Holders(d))
           l == Cardinality(Retriers(d))
           f == Cardinality(Flyers(d))
<1>0. TInv /\ FiniteHolders /\ edits \in [Deliveries -> Nat] /\ delivery[d] \in DeliveryRow
    BY DEF PInv, TInv, TypeOK
<1>1. /\ worker' = worker /\ sends' = sends
      /\ Holders(d)' = Holders(d) /\ Retriers(d)' = Retriers(d) /\ Flyers(d)' = Flyers(d)
    <2>1. worker' = worker /\ sends' = sends
        BY <1>0, ClientWrites
    <2> QED BY <2>1, SameHolders
<1>2. CASE d # c
    <2>1. delivery'[d] = delivery[d] /\ edits'[d] = edits[d]
        BY <1>0, <1>2, ClientWrites
    <2> QED BY <1>1, <2>1 DEF Spent, Awaiting
<1>3. CASE d = c
    <2>1. PICK req \in EditRequests : /\ Accepted(req)
                                      /\ delivery'[d] = EditedRow(delivery[d], req)
        BY <1>0, <1>3, ClientWrites
    <2>2. delivery'[d].attempts = a + 1 /\ edits'[d] = e + 1
        BY <1>0, <1>3, <2>1, EditedRowFacts, ClientWrites
    <2>3. /\ a \in Nat /\ e \in Nat /\ sends[d] \in Nat /\ p \in 0..1 /\ p2 \in 0..1
          /\ h \in Nat /\ l \in Nat /\ f \in Nat /\ l <= h
        BY <1>0, HolderFacts, WorkerAssumption DEF One, DeliveryRow, TInv, TypeOK
    <2>4. sends[d] + e <= a + f /\ WithinBudget(a, e, p, h, l)
        BY DEF Spent
    <2>5. sends'[d] + edits'[d] <= delivery'[d].attempts + f
        BY <1>1, <2>2, <2>3, <2>4
    <2>6. WithinBudget(a + 1, e + 1, p2, h, l)
        <3> HIDE DEF a, e, p, p2, h, l
        <3>1. 0 \in 0..1
            OBVIOUS
        <3> QED BY <2>3, <2>4, <3>1, BudgetSteps
    <2> QED BY <1>1, <2>2, <2>5, <2>6 DEF Spent
<1> QED BY <1>2, <1>3

\* OInv is inductive where claims are safe from resets and answers storable.
LEMMA BudgetStep ==
    SafeDeployment /\ AnswersStorable /\ OInv /\ [OperatorNext]_operatorVars => OInv'
<1> SUFFICES ASSUME SafeDeployment, AnswersStorable, OInv, [OperatorNext]_operatorVars
             PROVE  OInv'
    OBVIOUS
<1>0. /\ PInv /\ TInv /\ FiniteHolders /\ HeldFresh /\ edits \in [Deliveries -> Nat]
      /\ \A w \in Workers : Sound(worker[w])
    BY DEF OInv, PInv
<1>1. ASSUME NEW w \in Workers, WorkerStep(w), UNCHANGED edits PROVE OInv'
    <2>1. PInv'
        BY <1>0, <1>1, PartWorkerStep
    <2>2. faults' = 0 => faults' = faults
        BY <1>0, <1>1, FaultsCount, WorkerAssumption DEF TInv, TypeOK
    <2>3. ASSUME faults' = 0, NEW d \in Deliveries PROVE Spent(d)'
        <3>1. UNCHANGED <<faults, edits>> /\ Spent(d)
            BY <1>1, <2>2, <2>3 DEF OInv
        <3> QED BY <1>0, <1>1, <3>1, BudgetWorkerStep
    <2> QED BY <2>1, <2>3 DEF OInv
<1>2. ASSUME NEW w \in Workers, StatementFails(w) \/ Crash(w), UNCHANGED edits PROVE OInv'
    BY <1>0, <1>2, PartFaults DEF OInv
<1>3. ASSUME Client \/ Tick \/ UNCHANGED vars, UNCHANGED edits PROVE OInv'
    <2>1. PInv'
        BY <1>0, <1>3, PartQuiet
    <2>2. faults' = faults
        BY <1>0, <1>3, QuietWorkers
    <2>3. ASSUME faults' = 0, NEW d \in Deliveries PROVE Spent(d)'
        BY <1>0, <1>3, <2>2, <2>3, BudgetQuiet DEF OInv
    <2> QED BY <2>1, <2>3 DEF OInv
<1>4. ASSUME NEW c \in Deliveries, UpdateByClient(c) PROVE OInv'
    <2>1. PInv'
        BY <1>0, <1>4, PartEdit
    <2>2. faults' = faults
        BY <1>0, <1>4, ClientWrites
    <2>3. ASSUME faults' = 0, NEW d \in Deliveries PROVE Spent(d)'
        BY <1>0, <1>4, <2>2, <2>3, BudgetEdit DEF OInv
    <2> QED BY <2>1, <2>3 DEF OInv
<1> QED BY <1>1, <1>2, <1>3, <1>4 DEF OperatorNext, operatorVars, vars, Next

\* At the start every set is empty and nothing has been sent or updated.
LEMMA BudgetInit == OperatorInit => OInv
<1> SUFFICES ASSUME OperatorInit PROVE OInv
    OBVIOUS
<1>1. TInv /\ Init
    BY TypeInit DEF OperatorInit
<1>2. /\ \A w \in Workers : worker[w].pc = "reset" /\ worker[w].http = 0
                            /\ worker[w].batch = {}
      /\ \A d \in Deliveries : /\ delivery[d].attempts = 0 /\ delivery[d].status = "none"
                               /\ sends[d] = 0
    BY <1>1 DEF Init, Idle, Holding, NoRow
<1>3. edits \in [Deliveries -> Nat] /\ \A d \in Deliveries : edits[d] = 0
    BY DEF OperatorInit
<1>4. \A d \in Deliveries : Holders(d) = {} /\ Retriers(d) = {} /\ Flyers(d) = {}
    BY <1>2 DEF Holders, Retriers, Flyers, MayRetry, Flying
<1>5. FiniteHolders
    BY <1>4, FS_EmptySet DEF FiniteHolders
<1>6. PInv
    BY <1>1, <1>2, <1>3, <1>4, <1>5 DEF PInv, Sound, Allowed, IsStorable, Unborn, HeldFresh
<1>7. ASSUME NEW d \in Deliveries PROVE Spent(d)
    <2>1. /\ Cardinality(Holders(d)) = 0 /\ Cardinality(Retriers(d)) = 0
          /\ Cardinality(Flyers(d)) = 0
        BY <1>4, FS_EmptySet
    <2>2. WithinBudget(0, 0, One(Awaiting(d)), 0, 0)
        BY ConfigAssumption DEF WithinBudget, One
    <2> QED BY <1>2, <1>3, <2>1, <2>2 DEF Spent
<1> QED BY <1>6, <1>7 DEF OInv

\* In a safe deployment whose endpoints give answers the schema can store, and without
\* faults, an update by a client costs the endpoint one request at most, whatever it
\* writes and whoever is sending the row: among the limit's requests, and one for each
\* update, are those of every series of attempts the updates start.
THEOREM UpdatesCostOneRequest ==
    ASSUME SafeDeployment, AnswersStorable
    PROVE  OperatorSpec => []RequestsBoundedByEdits
<1>1. OInv /\ [OperatorNext]_operatorVars => OInv'
    BY BudgetStep
<1>2. ASSUME OInv, faults = 0, NEW d \in Deliveries
      PROVE  sends[d] <= MaxAttemptsLimit + edits[d]
    <2> DEFINE a == delivery[d].attempts
               e == edits[d]
               p == One(Awaiting(d))
               h == Cardinality(Holders(d))
               l == Cardinality(Retriers(d))
               f == Cardinality(Flyers(d))
    <2>1. /\ a \in Nat /\ e \in Nat /\ sends[d] \in Nat /\ p \in 0..1
          /\ h \in Nat /\ l \in Nat /\ f \in Nat /\ f <= h
        BY <1>2, HolderFacts, WorkerAssumption
           DEF OInv, PInv, One, DeliveryRow, TInv, TypeOK
    <2>2. sends[d] + e <= a + f /\ WithinBudget(a, e, p, h, l)
        BY <1>2 DEF OInv, Spent
    <2> HIDE DEF a, e, p, h, l, f
    <2>3. sends[d] <= MaxAttemptsLimit + e
        BY <2>1, <2>2, ConfigAssumption DEF WithinBudget
    <2> QED BY <2>3 DEF e
<1>3. OInv => RequestsBoundedByEdits
    BY <1>2 DEF RequestsBoundedByEdits
<1> QED BY <1>1, <1>3, BudgetInit, PTL DEF OperatorSpec
=============================================================================
