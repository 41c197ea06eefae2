--------------------------- MODULE DeliveryWorker ---------------------------
(***************************************************************************)
(* internal/worker/delivery_worker.go run by a set of worker processes     *)
(* against one database, with the clients that insert deliveries and       *)
(* reconfigure endpoints, and the endpoints that answer the requests.      *)
(*                                                                         *)
(* Every SQL statement is one atomic step (each runs in its own implicit   *)
(* transaction) and the HTTP request is a step of its own, so the steps of *)
(* the workers, the clients and the clock interleave between any two of    *)
(* them.  What a worker keeps across those steps is in its record: the     *)
(* rows it claimed, the attempt_count and the endpoint it read.            *)
(*                                                                         *)
(* A statement may fail, its reply may be lost after it took effect, and a *)
(* worker may crash; the last two constants bound how often.               *)
(***************************************************************************)
EXTENDS WebhookTables, FiniteSets

CONSTANTS
    Workers,         \* worker processes on the same database
    NoDelivery,      \* the value of cur between two deliveries
    TimelyWorkers,   \* TRUE: no claim is held for StaleAfter (see Tick)
    MaxFaults,       \* bound: failed statements, lost replies and crashes
    MaxSends         \* bound: where the ghost counter of requests stops

ASSUME WorkerAssumption ==
    /\ NoDelivery \notin Deliveries
    /\ TimelyWorkers \in BOOLEAN
    /\ MaxFaults \in Nat
    /\ MaxSends \in Nat

VARIABLES
    delivery,   \* table deliveries: a row, or NoRow, for each pair of ids
    endpoint,   \* table endpoints
    worker,     \* the local state of each worker process
    faults,     \* faults so far
    acked,      \* ghost: deliveries some request was answered 2xx for
    sends       \* ghost: requests made for each delivery

vars == <<delivery, endpoint, worker, faults, acked, sends>>

\* The statement (or the request) a worker executes next.
PCs == {"reset", "claim", "load", "half_open", "reschedule", "send",
        "mark_success", "mark_failure", "delivered", "retry", "dead_lettered"}

\* In these the worker is inside processDelivery for the delivery cur.
Processing == PCs \ {"reset", "claim", "load"}

WorkerState == [pc: PCs, batch: SUBSET Deliveries, seen: [Deliveries -> Nat],
                cur: Deliveries \cup {NoDelivery}, max_attempts: 0..MaxAttemptsLimit,
                cooldown: 0..CircuitCooldown, http: 0..999]

\* Between two deliveries only the batch matters: its rows and, in seen, their
\* attempt_count (0 for the rows that are not in the batch).
Holding(pc, batch, seen) ==
    [pc |-> pc, batch |-> batch, seen |-> seen,
     cur |-> NoDelivery, max_attempts |-> 0, cooldown |-> 0, http |-> 0]

Idle == Holding("reset", {}, [d \in Deliveries |-> 0])

EndpointOf(d) == d[2]

Ready == {d \in Deliveries : IsReady(delivery[d])}

Stale == {d \in Deliveries : IsStale(delivery[d])}

\* What a claim may take: SKIP LOCKED passes over the rows that some other statement
\* is writing, so it may be less than the batch has room for.
Fits(s) == Cardinality(s) <= BatchSize

\* Nothing was passed over.
Fills(s) == s = Ready \/ Cardinality(s) = BatchSize

TypeOK ==
    /\ delivery \in [Deliveries -> DeliveryRow]
    /\ endpoint \in [Endpoints -> EndpointRow]
    /\ worker \in [Workers -> WorkerState]
    /\ faults \in 0..MaxFaults
    /\ acked \subseteq Deliveries
    /\ sends \in [Deliveries -> 0..MaxSends]

Init ==
    /\ delivery = [d \in Deliveries |-> NoRow]
    /\ endpoint \in [Endpoints -> NewEndpointRow]
    /\ worker = [w \in Workers |-> Idle]
    /\ faults = 0
    /\ acked = {}
    /\ sends = [d \in Deliveries |-> 0]

----------------------------------------------------------------------------
(* The loop over the batch, and what becomes of a statement *)

\* Variant, never used: the loop does not advance past d.
DoneNever(w, d) == Holding("load", worker[w].batch, worker[w].seen)

\* The worker is done with d: the next row of the batch, or the next tick.
Done(w, d) ==
    LET rest == worker[w].batch \ {d} IN
    Holding(IF rest = {} THEN "reset" ELSE "load", rest,
            [worker[w].seen EXCEPT ![d] = 0])

\* What an error makes of the worker: tick() gives up, processDelivery() gives
\* up its delivery, whose row stays as the last statement left it.
AfterError(w) ==
    IF worker[w].pc \in {"reset", "claim"} THEN {Idle}
    ELSE IF worker[w].pc = "load" THEN {Done(w, d) : d \in worker[w].batch}
    ELSE {Done(w, worker[w].cur)}

\* A statement took effect; the worker goes on with its result, or sees an
\* error because the reply was lost.
Reply(w, next) ==
    \/ /\ worker' = [worker EXCEPT ![w] = next]
       /\ UNCHANGED faults
    \/ /\ faults < MaxFaults
       /\ faults' = faults + 1
       /\ \E s \in AfterError(w) : worker' = [worker EXCEPT ![w] = s]

Goto(w, pc) == [worker[w] EXCEPT !.pc = pc]

----------------------------------------------------------------------------
(* tick() *)

ResetStaleDelivering(w) ==
    /\ worker[w].pc = "reset"
    /\ delivery' = [d \in Deliveries |->
                      IF d \in Stale THEN ResetRow(delivery[d]) ELSE delivery[d]]
    /\ Reply(w, Goto(w, "claim"))
    /\ UNCHANGED <<endpoint, acked, sends>>

\* The rows of s become the batch.
Claim(w, s) ==
    /\ delivery' = [d \in Deliveries |->
                      IF d \in s THEN ClaimRow(delivery[d]) ELSE delivery[d]]
    /\ Reply(w, Holding(IF s = {} THEN "reset" ELSE "load", s,
                        [d \in Deliveries |->
                           IF d \in s THEN delivery[d].attempts ELSE 0]))
    /\ UNCHANGED <<endpoint, acked, sends>>

ClaimPendingDeliveries(w) ==
    /\ worker[w].pc = "claim"
    /\ \E s \in SUBSET Ready : Fits(s) /\ Claim(w, s)

\* A claim that finds no row locked.
ClaimsUnlocked(w) ==
    /\ worker[w].pc = "claim"
    /\ \E s \in SUBSET Ready : Fits(s) /\ Fills(s) /\ Claim(w, s)

----------------------------------------------------------------------------
(* processDelivery() *)

\* Reads the event (never changed) and the endpoint, and decides: an inactive
\* endpoint is not sent to, nor one whose circuit is open and cooling down.
\* RETURNING gives the rows of the batch in no particular order.
Load(w) ==
    /\ worker[w].pc = "load"
    /\ \E d \in worker[w].batch :
         LET p == endpoint[EndpointOf(d)] IN
         worker' = [worker EXCEPT ![w] =
            [pc |-> IF ~p.active THEN "dead_lettered"
                    ELSE IF IsCooling(p) THEN "reschedule"
                    ELSE IF p.circuit = "open" THEN "half_open" ELSE "send",
             batch |-> worker[w].batch, seen |-> worker[w].seen, cur |-> d,
             max_attempts |-> p.max_attempts,
             cooldown |-> IF p.active /\ IsCooling(p) THEN p.cooldown ELSE 0,
             http |-> 0]]
    /\ UNCHANGED <<delivery, endpoint, faults, acked, sends>>

\* ErrNoRows, another worker having moved the circuit on, is no error.
MoveEndpointCircuitToHalfOpen(w) ==
    /\ worker[w].pc = "half_open"
    /\ endpoint' = [endpoint EXCEPT ![EndpointOf(worker[w].cur)] = HalfOpenRow(@)]
    /\ Reply(w, Goto(w, "send"))
    /\ UNCHANGED <<delivery, acked, sends>>

\* The request, with whatever answer or error the endpoint gives it.
Send(w) ==
    /\ worker[w].pc = "send"
    /\ \E http \in HttpStatuses :
         /\ worker' = [worker EXCEPT ![w] = [@ EXCEPT
              !.http = http,
              !.pc = IF IsSuccess(http) THEN "mark_success" ELSE "mark_failure"]]
         /\ acked' = IF http \in 200..299 THEN acked \cup {worker[w].cur} ELSE acked
    /\ sends' = [sends EXCEPT ![worker[w].cur] = IF @ < MaxSends THEN @ + 1 ELSE @]
    /\ UNCHANGED <<delivery, endpoint, faults>>

MarkEndpointDeliverySuccess(w) ==
    /\ worker[w].pc = "mark_success"
    /\ endpoint' = [endpoint EXCEPT ![EndpointOf(worker[w].cur)] = SuccessRow(@)]
    /\ Reply(w, Goto(w, "delivered"))
    /\ UNCHANGED <<delivery, acked, sends>>

\* attemptsAfterThisFailure, counted from the claimed copy of the row.
AttemptsAfter(w) == worker[w].seen[worker[w].cur] + 1

\* Variant, never used: one attempt too many.
GivesUpLate(w) ==
    ~IsRetryable(worker[w].http) \/ AttemptsAfter(w) > worker[w].max_attempts

GivesUp(w) ==
    ~IsRetryable(worker[w].http) \/ AttemptsAfter(w) >= worker[w].max_attempts

MarkEndpointDeliveryFailure(w) ==
    /\ worker[w].pc = "mark_failure"
    /\ endpoint' = [endpoint EXCEPT ![EndpointOf(worker[w].cur)] = FailureRow(@)]
    /\ Reply(w, Goto(w, IF GivesUp(w) THEN "dead_lettered" ELSE "retry"))
    /\ UNCHANGED <<delivery, acked, sends>>

\* Variant, never used: a delivery is retried unless it is given up.
OutcomeRetrying(w) ==
    IF worker[w].pc = "dead_lettered" THEN "dead_lettered" ELSE "pending"

\* The status UpdateDeliveryAttempt writes in each of its three calls.
Outcome(w) == IF worker[w].pc = "retry" THEN "pending" ELSE worker[w].pc

\* markDelivered, deadLetter and the retry at the end of processDelivery.  A
\* status the check constraint refuses is an error that changes nothing.
UpdateDeliveryAttempt(w) ==
    LET d == worker[w].cur IN
    /\ worker[w].pc \in {"delivered", "retry", "dead_lettered"}
    /\ \/ /\ IsStorable(worker[w].http)
          /\ \E due \in BackoffDelays(AttemptsAfter(w)) :
               delivery' = [delivery EXCEPT ![d] = AttemptRow(@, Outcome(w), due)]
          /\ Reply(w, Done(w, d))
       \/ /\ ~IsStorable(worker[w].http)
          /\ worker' = [worker EXCEPT ![w] = Done(w, d)]
          /\ UNCHANGED <<delivery, faults>>
    /\ UNCHANGED <<endpoint, acked, sends>>

RescheduleDelivery(w) ==
    LET d == worker[w].cur IN
    /\ worker[w].pc = "reschedule"
    /\ delivery' = [delivery EXCEPT ![d] = RescheduleRow(@, worker[w].cooldown)]
    /\ Reply(w, Done(w, d))
    /\ UNCHANGED <<endpoint, acked, sends>>

WorkerStep(w) ==
    \/ ResetStaleDelivering(w)
    \/ ClaimPendingDeliveries(w)
    \/ Load(w)
    \/ MoveEndpointCircuitToHalfOpen(w)
    \/ Send(w)
    \/ MarkEndpointDeliverySuccess(w)
    \/ MarkEndpointDeliveryFailure(w)
    \/ UpdateDeliveryAttempt(w)
    \/ RescheduleDelivery(w)

----------------------------------------------------------------------------
(* Faults *)

\* The statement failed without effect (the request's errors are in Send).
StatementFails(w) ==
    /\ worker[w].pc # "send"
    /\ faults < MaxFaults
    /\ faults' = faults + 1
    /\ \E s \in AfterError(w) : worker' = [worker EXCEPT ![w] = s]
    /\ UNCHANGED <<delivery, endpoint, acked, sends>>

\* The process dies, or run() returns without waiting for the worker, and is
\* started again: what it knew of its batch is lost, its claims stay.
Crash(w) ==
    /\ worker[w] # Idle
    /\ faults < MaxFaults
    /\ faults' = faults + 1
    /\ worker' = [worker EXCEPT ![w] = Idle]
    /\ UNCHANGED <<delivery, endpoint, acked, sends>>

----------------------------------------------------------------------------
(* Clients of the gRPC services *)

\* CreateDelivery: one row, for any endpoint; a duplicate is refused.
CreateDelivery(d) ==
    /\ delivery[d].status = "none"
    /\ delivery' = [delivery EXCEPT ![d] = FreshDelivery]
    /\ UNCHANGED <<endpoint, worker, faults, acked, sends>>

\* Variant, never used: ON CONFLICT resets the row that exists.
CreateDeliveriesForEventAgain(e) ==
    /\ \E subscribed \in SUBSET Endpoints :
         delivery' = [d \in Deliveries |->
            IF d[1] = e /\ d[2] \in subscribed /\ endpoint[d[2]].active
            THEN FreshDelivery ELSE delivery[d]]
    /\ UNCHANGED <<endpoint, worker, faults, acked, sends>>

\* CreateDeliveriesForEvent, and the fan-out of CreateEvent: one row for each
\* active endpoint whose topics overlap; rows that exist are left alone.
CreateDeliveriesForEvent(e) ==
    /\ \E subscribed \in SUBSET Endpoints :
         delivery' = [d \in Deliveries |->
            IF /\ d[1] = e
               /\ d[2] \in subscribed
               /\ endpoint[d[2]].active
               /\ delivery[d].status = "none"
            THEN FreshDelivery ELSE delivery[d]]
    /\ UNCHANGED <<endpoint, worker, faults, acked, sends>>

UpdateEndpoint(p) ==
    /\ \E active \in BOOLEAN, max \in 1..MaxAttemptsLimit :
         endpoint' = [endpoint EXCEPT ![p] = ConfigureRow(@, active, max)]
    /\ UNCHANGED <<delivery, worker, faults, acked, sends>>

Client ==
    \/ \E d \in Deliveries : CreateDelivery(d)
    \/ \E e \in Events : CreateDeliveriesForEvent(e)
    \/ \E p \in Endpoints : UpdateEndpoint(p)

----------------------------------------------------------------------------
(* The clock *)

\* A claim some worker still holds would be stale one tick later.
HeldToTheLimit ==
    \E w \in Workers : \E d \in worker[w].batch : delivery[d].claim_age + 1 >= StaleAfter

Tick ==
    /\ ~(TimelyWorkers /\ HeldToTheLimit)
    /\ delivery' = [d \in Deliveries |-> AgeDelivery(delivery[d])]
    /\ endpoint' = [p \in Endpoints |-> AgeEndpoint(endpoint[p])]
    /\ worker' = [w \in Workers |-> [worker[w] EXCEPT !.cooldown = CountDown(@)]]
    /\ UNCHANGED <<faults, acked, sends>>

----------------------------------------------------------------------------

Next ==
    \/ \E w \in Workers : WorkerStep(w) \/ StatementFails(w) \/ Crash(w)
    \/ Client
    \/ Tick

Spec == Init /\ [][Next]_vars

\* A worker process that is up keeps executing, its claims do not always meet locked
\* rows (a statement holds them only while it runs), and the clock advances; nothing
\* is assumed of clients, and faults are never required.
Fairness ==
    /\ WF_vars(Tick)
    /\ \A w \in Workers : WF_vars(WorkerStep(w)) /\ SF_vars(ClaimsUnlocked(w))

FairSpec == Spec /\ Fairness

----------------------------------------------------------------------------
(* What must hold of the claims and of the rows *)

\* Nobody's claim is taken from under him: either every claim is finished, or
\* its process is gone, before it is StaleAfter old, or there is one process.
SafeDeployment == TimelyWorkers \/ \A v, w \in Workers : v = w

\* Two workers never hold the same delivery, and what a worker holds is still
\* claimed in the table with the attempt_count the worker remembers: tick()
\* claims in one statement and writes the outcome, without looking, in another.
ClaimExclusive ==
    /\ \A v, w \in Workers : v # w => worker[v].batch \cap worker[w].batch = {}
    /\ \A w \in Workers : \A d \in worker[w].batch :
          /\ delivery[d].status = "delivering"
          /\ delivery[d].attempts = worker[w].seen[d]

\* A row that is done is never touched again, whatever its WHERE clause allows
\* the statements to do: not re-claimed, not reset, not overwritten.
TerminalStable ==
    [][\A d \in Deliveries :
         delivery[d].status \in Terminal => delivery'[d] = delivery[d]]_vars

\* A delivery that was delivered does not return to the queue, to be sent again.
DeliveredNotRequeued ==
    [][\A d \in Deliveries :
         delivery[d].status = "delivered" => delivery'[d].status # "pending"]_vars

\* attempt_count never passes the largest limit an endpoint can have, and a row
\* that is still to be sent has attempts left: max_attempts may be lowered or
\* raised while a worker decides with the value it read before the request.
AttemptLimit ==
    \A d \in Deliveries :
      /\ delivery[d].attempts <= MaxAttemptsLimit
      /\ delivery[d].status \notin Terminal => delivery[d].attempts < MaxAttemptsLimit

\* delivered_at and dead_lettered_at say what status says: no row returns to the
\* queue with a stamp of an earlier outcome (RescheduleDelivery keeps stamps).
StampsMatchStatus ==
    \A d \in Deliveries :
      /\ delivery[d].delivered_at <=> delivery[d].status = "delivered"
      /\ delivery[d].dead_lettered_at <=> delivery[d].status = "dead_lettered"

\* Only an endpoint's 2xx answer makes a delivery delivered.
DeliveredWasAcknowledged ==
    \A d \in Deliveries : delivery[d].status = "delivered" => d \in acked

\* And an acknowledged delivery is recorded as delivered, or about to be by the
\* worker that got the answer, unless there was a fault: a crash between the
\* answer and markDelivered loses the acknowledgement, and nothing else does.
Recording(d) ==
    \E w \in Workers : /\ worker[w].cur = d
                       /\ worker[w].pc \in {"mark_success", "delivered"}

AcknowledgedIsRecorded ==
    faults = 0 => \A d \in acked : delivery[d].status = "delivered" \/ Recording(d)

\* Every request is counted in attempt_count, except the one in flight and one
\* for each fault: attempt_count bounds what an endpoint is sent.
InFlight(d) ==
    \E w \in Workers : /\ worker[w].cur = d
                       /\ worker[w].pc \in {"mark_success", "mark_failure", "delivered",
                                           "retry", "dead_lettered"}

RequestsAccounted ==
    \A d \in Deliveries :
      sends[d] <= delivery[d].attempts + faults + (IF InFlight(d) THEN 1 ELSE 0)

\* Without faults, no delivery is sent more often than the largest attempt limit
\* an endpoint can have.  This needs every answer to be storable.
RequestsWithinLimit ==
    faults = 0 => \A d \in Deliveries : sends[d] <= MaxAttemptsLimit

\* A counted attempt that is to be retried waits the backoff of the number of
\* attempts then in the row, up to MaxBackoff (and up to half as much again).
RetryBackoff ==
    [][\A d \in Deliveries :
         LET n == delivery'[d].attempts IN
         n > delivery[d].attempts /\ delivery'[d].status = "pending"
           => \/ delivery'[d].due_in >= MaxBackoff
              \/ delivery'[d].due_in >= BaseBackoff * (2 ^ (n - 1))]_vars

----------------------------------------------------------------------------
(* What must hold of the circuit breaker *)

\* The three columns of the breaker agree: below the threshold it is closed and
\* has no cooldown, and it is half open only when its cooldown has passed.
\* Workers write the columns with different statements, from stale snapshots.
BreakerConsistent ==
    \A p \in Endpoints :
      /\ endpoint[p].circuit = "closed" <=> endpoint[p].failures < CircuitThreshold
      /\ endpoint[p].circuit = "closed" <=> endpoint[p].cooldown = Null
      /\ endpoint[p].circuit = "half_open" => endpoint[p].cooldown = 0

\* A circuit opens at the threshold (again, from half open, at the next
\* failure), is probed only after its cooldown, and is closed only by a worker
\* that has an acknowledged delivery in hand, never by a reconfiguration.
CircuitTransitions ==
    [][\A p \in Endpoints :
         LET old == endpoint[p]
             new == endpoint'[p]
         IN  old.circuit # new.circuit =>
               \/ new.circuit = "open" /\ old.failures + 1 >= CircuitThreshold
               \/ new.circuit = "half_open" /\ old.circuit = "open" /\ old.cooldown = 0
               \/ /\ new.circuit = "closed"
                  /\ \E w \in Workers : /\ worker[w].pc = "mark_success"
                                        /\ worker[w].cur \in acked
                                        /\ EndpointOf(worker[w].cur) = p]_vars

----------------------------------------------------------------------------
(* What must eventually happen *)

\* Every delivery in the queue is eventually delivered or dead-lettered, through
\* retries, open circuits, lost claims and restarts.
EventuallySettled ==
    \A d \in Deliveries :
      delivery[d].status \in {"pending", "delivering"} ~> delivery[d].status \in Terminal

\* A claim whose worker is gone returns to the queue.
Orphaned(d) ==
    delivery[d].status = "delivering" /\ \A w \in Workers : d \notin worker[w].batch

OrphansRecovered == \A d \in Deliveries : Orphaned(d) ~> delivery[d].status = "pending"

============================================================================
