--------------------------- MODULE WebhookTables ---------------------------
(***************************************************************************)
(* The two tables the delivery worker shares with the gRPC services, one   *)
(* operator for what each SQL statement of internal/repository does to one *)
(* row, and the worker's pure decisions (delivery_worker.go).  The module  *)
(* has no variables: DeliveryWorker gives the rows their behaviour.        *)
(*                                                                         *)
(* Time is relative.  A stored timestamp is only ever compared with NOW(), *)
(* so a row keeps its distance from now: due_in and cooldown count down to *)
(* 0, claim_age counts up to StaleAfter, and one tick of the clock moves   *)
(* all of them.  The unit of time is left to the instance.                 *)
(***************************************************************************)
EXTENDS Integers

CONSTANTS
    Events,             \* ids of stored events
    Endpoints,          \* ids of stored endpoints
    MaxAttemptsLimit,   \* chk_max_attempts: 20 in the schema
    BatchSize,          \* DeliveryWorkerConfig.BatchSize
    StaleAfter,         \* DeliveryWorkerConfig.StaleAfter, in ticks
    BaseBackoff,        \* DeliveryWorkerConfig.BaseBackoff, in ticks
    MaxBackoff,         \* DeliveryWorkerConfig.MaxBackoff, in ticks
    CircuitThreshold,   \* DeliveryWorkerConfig.CircuitThreshold
    CircuitCooldown,    \* DeliveryWorkerConfig.CircuitCooldown, in ticks
    HttpStatuses        \* what a request can end with; 0: no response

\* NewDeliveryWorker replaces every setting that is not positive by a default,
\* and chk_max_attempts keeps an endpoint's limit positive.
ASSUME ConfigAssumption ==
    /\ MaxAttemptsLimit \in Nat \ {0}
    /\ BatchSize \in Nat \ {0}
    /\ StaleAfter \in Nat \ {0}
    /\ BaseBackoff \in Nat \ {0}
    /\ MaxBackoff \in Nat \ {0}
    /\ CircuitThreshold \in Nat \ {0}
    /\ CircuitCooldown \in Nat \ {0}

\* net/http accepts any three digits as a status code; send() returns 0 when
\* there was no response (connection error, or the endpoint's timeout).
ASSUME HttpAssumption == HttpStatuses \subseteq 0..999

----------------------------------------------------------------------------
(* Rows *)

\* uq_delivery_event_endpoint: there is at most one row for each pair.
Deliveries == Events \X Endpoints

\* "none" stands for a row that has not been inserted.
StoredStatuses == {"pending", "delivering", "delivered", "dead_lettered"}
Terminal == {"delivered", "dead_lettered"}

Max2(a, b) == IF a > b THEN a ELSE b

\* The longest distance a next_retry_at is ever set to: a backoff with its
\* jitter, or the end of a cooldown.
MaxDelay == Max2(MaxBackoff + MaxBackoff, CircuitCooldown)

\* due_in counts only while pending and claim_age only while delivering (0
\* otherwise: no statement reads next_retry_at or last_attempted_at then).
DeliveryRow == [status: StoredStatuses \cup {"none"}, attempts: Nat,
                due_in: 0..MaxDelay, claim_age: 0..StaleAfter,
                delivered_at: BOOLEAN, dead_lettered_at: BOOLEAN]

NoRow == [status |-> "none", attempts |-> 0, due_in |-> 0, claim_age |-> 0,
          delivered_at |-> FALSE, dead_lettered_at |-> FALSE]

\* cooldown_until IS NULL.
Null == -1

\* failures is failure_count cut off at CircuitThreshold: the statements only
\* ask whether it has reached the threshold.
EndpointRow == [active: BOOLEAN, max_attempts: 1..MaxAttemptsLimit,
                circuit: {"closed", "open", "half_open"},
                failures: 0..CircuitThreshold, cooldown: Null..CircuitCooldown]

\* A row as CreateEndpoint leaves it, or as UpdateEndpoint rewrites it since.
NewEndpointRow == {p \in EndpointRow :
                     p.circuit = "closed" /\ p.failures = 0 /\ p.cooldown = Null}

----------------------------------------------------------------------------
(* Deliveries: delivery_operations.sql.go *)

FreshDelivery == [NoRow EXCEPT !.status = "pending"]

\* Variant, never used: the WHERE clause forgets the status.
IsReadyWhateverStatus(r) == r.status \notin {"none", "delivering"} /\ r.due_in = 0

IsReady(r) == r.status = "pending" /\ r.due_in = 0

ClaimRow(r) == [r EXCEPT !.status = "delivering", !.due_in = 0, !.claim_age = 0]

\* Variants, never used: the cutoff is forgotten; the cutoff is off by one.
IsStaleAtAnyAge(r) == r.status = "delivering"
IsStaleTooLate(r) == r.status = "delivering" /\ r.claim_age > StaleAfter

IsStale(r) == r.status = "delivering" /\ r.claim_age >= StaleAfter

ResetRow(r) == [r EXCEPT !.status = "pending", !.due_in = 0, !.claim_age = 0]

\* Variants, never used: dead_lettered_at is not set; only failures count.
AttemptRowUnstamped(r, status, due) ==
    [status |-> status, attempts |-> r.attempts + 1,
     due_in |-> IF status = "pending" THEN due ELSE 0, claim_age |-> 0,
     delivered_at |-> status = "delivered", dead_lettered_at |-> r.dead_lettered_at]
AttemptRowCountingFailures(r, status, due) ==
    [status |-> status,
     attempts |-> IF status = "delivered" THEN r.attempts ELSE r.attempts + 1,
     due_in |-> IF status = "pending" THEN due ELSE 0, claim_age |-> 0,
     delivered_at |-> status = "delivered",
     dead_lettered_at |-> status = "dead_lettered"]

\* The WHERE clause names only the id: whatever the row holds is overwritten.
AttemptRow(r, status, due) ==
    [status |-> status, attempts |-> r.attempts + 1,
     due_in |-> IF status = "pending" THEN due ELSE 0, claim_age |-> 0,
     delivered_at |-> status = "delivered",
     dead_lettered_at |-> status = "dead_lettered"]

\* Only the id is named here too; attempt_count and the stamps are kept.
RescheduleRow(r, due) ==
    [r EXCEPT !.status = "pending", !.due_in = due, !.claim_age = 0]

\* chk_last_http_status: a row with any other status is refused.
IsStorable(http) == http = 0 \/ http \in 100..599

----------------------------------------------------------------------------
(* Endpoints: endpoint_management.sql.go *)

\* Variant, never used: cooldown_until is not cleared.
SuccessRowKeepingCooldown(p) == [p EXCEPT !.circuit = "closed", !.failures = 0]

SuccessRow(p) ==
    [p EXCEPT !.circuit = "closed", !.failures = 0, !.cooldown = Null]

TripsCircuit(p) == p.failures + 1 >= CircuitThreshold

FailureRow(p) ==
    IF TripsCircuit(p)
    THEN [p EXCEPT !.circuit = "open", !.failures = CircuitThreshold,
                   !.cooldown = CircuitCooldown]
    ELSE [p EXCEPT !.failures = @ + 1]

\* Variant, never used: the WHERE clause trusts the worker about the cooldown.
CanHalfOpenEarly(p) == p.circuit = "open"

CanHalfOpen(p) == p.circuit = "open" /\ p.cooldown = 0

HalfOpenRow(p) == IF CanHalfOpen(p) THEN [p EXCEPT !.circuit = "half_open"] ELSE p

\* Variant, never used: an open circuit is never probed.
IsCoolingForever(p) == p.circuit = "open"

\* checkCircuit: an open circuit whose cooldown has not passed.
IsCooling(p) == p.circuit = "open" /\ p.cooldown > 0

\* Variant, never used: a limit of 0 gets past the check constraint.
ConfigureRowUnchecked(p, active, max) ==
    [p EXCEPT !.active = active, !.max_attempts = max - 1]

\* UpdateEndpoint writes the configuration and leaves the breaker alone.
ConfigureRow(p, active, max) == [p EXCEPT !.active = active, !.max_attempts = max]

----------------------------------------------------------------------------
(* The worker's decisions: delivery_worker.go *)

\* Variant, never used: any answer is a success.
IsSuccessIfAnswered(http) == http >= 200

IsSuccess(http) == http >= 200 /\ http <= 299

IsRetryable(http) == http = 0 \/ http = 408 \/ http = 429 \/ http >= 500

\* Variant, never used: the jitter shortens the delay.
BackoffDelaysShortened(attempt) ==
    LET power == BaseBackoff * (2 ^ (attempt - 1))
        delay == IF power > MaxBackoff THEN MaxBackoff ELSE power
    IN  {x \in 0..MaxDelay : delay - (delay \div 2) <= x /\ x <= delay}

\* Exponential backoff cut off at MaxBackoff, plus a jitter in [0, delay / 2).
BackoffDelays(attempt) ==
    LET power == BaseBackoff * (2 ^ (attempt - 1))
        delay == IF power > MaxBackoff THEN MaxBackoff ELSE power
    IN  {x \in 0..MaxDelay : x = delay \/ (delay <= x /\ x < delay + (delay \div 2))}

----------------------------------------------------------------------------
(* One tick of the clock *)

CountDown(t) == IF t > 0 THEN t - 1 ELSE t

AgeDelivery(r) ==
    [r EXCEPT !.due_in = CountDown(@),
              !.claim_age = IF r.status = "delivering" /\ @ < StaleAfter
                            THEN @ + 1 ELSE @]

AgeEndpoint(p) == [p EXCEPT !.cooldown = CountDown(@)]
============================================================================
