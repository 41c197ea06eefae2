# Verification of the webhook gateway

A TLA+ model of the webhook gateway, checked with TLC on small instances, with
proofs checked by TLAPS. It covers what is hard to test in the gateway: worker
processes, calls, a clock and faults acting on shared tables, and the goroutines of
one process acting on a shared pool while it starts, serves and goes down.

## 1. The system

The gateway accepts events over gRPC, stores them in PostgreSQL with one delivery
for each endpoint that subscribes to the event's topic, and a background worker
posts each delivery to its endpoint until it is acknowledged or given up.

| Part | Source | State | Operations |
|---|---|---|---|
| Delivery worker | `internal/worker/delivery_worker.go` | the batch it has claimed, with the row of each delivery as it was then; inside `processDelivery` the event and endpoint as read | `Run`, `tick` (reset stale claims, claim a batch), `processDelivery` (load, circuit, request, mark endpoint, write outcome) |
| Delivery queue | `internal/repository/delivery_operations.sql.go`, table `deliveries` | one row per (event, endpoint) | claim with `SKIP LOCKED`, reset stale, update attempt, reschedule, create, create for event, listings |
| Circuit breaker | `internal/repository/endpoint_management.sql.go`, table `endpoints` | `circuit_state`, `failure_count`, `cooldown_until` next to the endpoint's configuration | mark success, mark failure, move to half open |
| Event ingestion | `internal/service/event_service.go`, `internal/store/store.go` | table `events`, unique `idempotency_key` | `CreateEvent` (serializable transaction: event and its deliveries), `GetEvent`, `ListEvents` |
| Endpoint administration | `internal/service/endpoint_service.go` | table `endpoints` | create, get, list, update (read, merge, write), delete |
| Delivery service | `internal/service/delivery_service.go` | table `deliveries` | create, fan-out, `UpdateDeliveryAttempt`, count, listings |
| Cursor pagination | the three services | a cursor held by the client | `ListEvents`, `ListEndpoints`, `ListDeliveriesByEndpoint`, `ListDeadLettered` |
| Gateway process | `cmd/gateway/main.go`, `internal/server` | the goroutines of `run()`, of `Server.Run`, `GracefulStop` and the worker; the exit code | start-up, first and second `select`, graceful shutdown with a time limit |
| Configuration | `config/config.go` | constants for the rest | load, defaults, validation |
| Pool and interceptors | `internal/postgres`, `internal/server/interceptors.go` | who holds a connection | open, acquire, give back, close; recovery from a panic |
| Mappers, generated code | `internal/service/mappers.go`, `gen` | none of their own | requests and their absent fields, the status mapping, the services' methods |

In what they do the parts meet only in the database, and in one process also in
the pool of connections. Services insert rows and rewrite endpoint
configurations; workers poll. There are no messages between processes and no
callbacks; what a worker knows about a row is what it read in an earlier
statement. Every statement runs in its own implicit transaction except
`CreateEvent`, so that the steps of different processes interleave between any
two statements, and nothing ties the HTTP request to the statements around it.

### What is hard, and what makes each part correct

`PROJECT.json` lists the hazards with their lines. The main ones:

* A claim is a status and a timestamp, not a lock. It is reset after `StaleAfter`
  whether its worker is dead or slow, and the statements that write the outcome
  name only the row's id. Correct: two workers never hold the same delivery, a
  finished row is never touched again, the number of attempts stays in the limit.
* The request, the endpoint's breaker and the row are written one after the
  other; a crash, an error or a lost reply can come in between. Correct: only an
  acknowledged delivery is delivered, an acknowledgement is lost only by a fault,
  every request is counted except for one per fault.
* The breaker is written by several workers that decided on stale copies.
  Correct: its three columns agree, and it changes only along
  closed → open → half open → closed / open, each for its reason.
* Calls with the same idempotency key run at once, fail and are repeated. Correct: one
  event is stored, once, with the deliveries of the endpoints subscribed at one moment of
  the call, and what a caller is told is so.
* `UpdateEndpoint` reads a row and writes all its columns back in another statement. Correct:
  an overlapping update can be undone, but a column never gets a value nobody chose for
  it, a deleted endpoint never comes back, and the caller is told the right cause.
* `UpdateDeliveryAttempt` lets a client write any outcome to any row, also while a worker
  is sending it. Correct: what it costs is bounded by the number of such calls, and
  deliveries still end.
* Signal, server failure, running calls, the worker and the time limit meet at shutdown, all
  on one pool. Correct: the process ends, with the exit code that tells why, an accepted call
  is answered, and nobody waits for a second connection while holding a first.
* Rows come and go between the pages of a listing. Correct: a row that stays is returned
  once, and the walk ends.
* Deliveries pass through retries, open circuits, reset claims and restarts.
  Correct: each one eventually ends, exactly one way.

## 2. Modules

| Module | Contents |
|---|---|
| `WebhookTables` | constants and their assumptions; what a row is; one operator for what each SQL statement does to one row; the worker's pure decisions (success, retryable, backoff) |
| `DeliveryWorker` | the state machine: workers, clients, clock, faults; its properties |
| `DeliveryLifecycle` | the abstract specification: a delivery is queued once, may be acknowledged while queued, and ends delivered or given up |
| `DeliveryRefinement` | the refinement mapping (`Phase`) and the properties that `DeliveryWorker` implements `DeliveryLifecycle` |
| `DeliveryOperators` | `DeliveryWorker` composed with clients of the `UpdateDeliveryAttempt` call |
| `EventIngest` | `CreateEvent` calls, the transaction and the unique key, beside endpoint creation, change and deletion |
| `EventStore` | the abstract specification: a call looks once who subscribes, then stores the event or finds its key stored, in one step; a request that cannot be stored is rejected at once |
| `EventRefinement` | the refinement mapping (`Request`, `View`) and the properties that `EventIngest` implements `EventStore` |
| `EndpointAdmin` | overlapping calls that create, read, update and delete endpoints |
| `Pagination` | a client's walk through the pages of a listing whose rows come and go |
| `Gateway` | one process from its configuration to its exit code: server, calls, worker, pool, shutdown |
| `MCDeliveryWorker`, `MCDeliveryOperators`, `MCEndpointAdmin`, `MCPagination`, `MCGateway` | what TLC needs: sets of answers, values, listings and configurations, symmetry, a state constraint. `EventIngest` needs no module of its own: `EventRefinement` is checked as it is |
| `DeliveryWorkerProofs` | lemmas about the row operators; types, breaker, exclusive claims, finished rows |
| `DeliveryOutcomeProofs` | acknowledgements, limits, stamps, backoff, circuit |
| `DeliveryRequestProofs` | requests and the attempts that count them, also beside the updates of clients (`DeliveryOperators`) |
| `DeliveryRefinementProofs` | `DeliveryWorker` implements `DeliveryLifecycle` (safety) |
| `EventIngestProofs` | every safety property of `EventIngest`, and that it implements `EventStore` (safety) |
| `EndpointAdminProofs`, `PaginationProofs`, `GatewayProofs` | every safety property of the module they are named after |

### State and code

Of `DeliveryWorker`:

| Variable | Stands for |
|---|---|
| `delivery[d]` | the row of table `deliveries` for `d = <<event, endpoint>>` (`uq_delivery_event_endpoint`: at most one); `NoRow` before it is inserted |
| `endpoint[p]` | the row of table `endpoints` |
| `worker[w].pc` | the statement, or request, worker `w` executes next |
| `worker[w].batch`, `.seen` | the rest of the slice `tick()` ranges over, and the `AttemptCount` in each of its copies |
| `worker[w].cur`, `.max_attempts`, `.cooldown`, `.http` | the locals of `processDelivery`: the delivery, the endpoint's limit and `cooldown_until` as read, the request's result (0: no response) |
| `faults` | statements failed, replies lost and crashes so far |
| `acked`, `sends` | ghosts: what the endpoints have answered, and how many requests were made |

Each action of `WorkerStep` is one statement or the request, with the code up to
the next one: `ResetStaleDelivering`, `ClaimPendingDeliveries`, `Load` (both reads
and the decision on `active` and the circuit), `MoveEndpointCircuitToHalfOpen`,
`Send`, `MarkEndpointDeliverySuccess`, `MarkEndpointDeliveryFailure` (with the
decision to give up), `UpdateDeliveryAttempt` (its three callers, by `pc`), and
`RescheduleDelivery`. `Reply` adds to a statement that took effect the case that its
reply is lost; `StatementFails` is the failure without effect; `ClaimPendingDeliveries` may take any ready rows up to
`BatchSize` (`Fits`), for `SKIP LOCKED` passes over those another statement holds; `Crash` is the death
of the process, or `run()` returning without waiting for its worker. The clients are
`CreateDelivery`, `CreateDeliveriesForEvent` (also the fan-out of `CreateEvent`), and
`UpdateEndpoint`.

`DeliveryOperators` adds one action, `UpdateByClient`: the whole `UpdateDeliveryAttempt` call of
the delivery service, with any status the enum has, any answer the schema stores, both stamps
as the client likes, on any row at any moment, with any retry time up to `RetryDistances`. `edits` counts these calls.

`EventIngest` keeps, for each idempotency key, the committed event with its deliveries, and for
each call the statement it executes next, the subscribers its transaction sees, and the
deliveries it has inserted. `StartRefused` is a call whose payload the JSONB column refuses: it is answered
`internal` and leaves nothing, so it is one step. `Begin` is the moment the snapshot is taken, `InsertEvent`
the end of the INSERT (which waits for another transaction that has inserted the key), `FanOut`
the second statement, `Commit` the third, `Lookup` the read after a unique violation.
`Fails` is any error without effect, serialization failures included (`WithTx` does
not retry them), the second case of `Commit` one after it took effect, and `Crash` ends all calls of the process.
What PostgreSQL does is taken from how the code uses it. The response of a repeated
key (with `already_exists` and the event) is built by the code together with an
error status, with which gRPC sends no response; the model's `already_exists` is the status.

`EndpointAdmin` keeps the configuration columns of each endpoint, the endpoints some delivery
refers to, and for each call, between its statements, the request and the row it read. Each call
is one action, except `UpdateEndpoint`: `StartUpdate` is its arrival, `ReadForUpdate` the
`SELECT` and the checks that follow it, `WriteBack` the merge and the `UPDATE`, with
`endpointUpdateError` in `Refusal`. The ghost `missed` holds the columns that other calls have
changed since a call read its row.

`Pagination` keeps the rows the listing's filter lets through and their timestamps, and the
cursor the client holds. `FetchPage` is one request in any of the four listings; `Precedes`,
`PastCursor`, `Limit`, `Parameters` and `NextCursor` are the query's ORDER BY and WHERE clauses,
the bound of the page, the parameters the service passes and the cursor it returns. `ListEvents` refuses a
request without a `cursor_id` (`Accepts`), so that its client has to make up the first one (`FirstCursors`).

`Gateway` keeps one variable for each goroutine of the process and what they share:

| Variable | Stands for |
|---|---|
| `phase`, `code` | where `run()` is (`load`, `connect`, its two `select`s `running` and `draining`, its deferred calls `closing`), and the exit code |
| `signalled`, `cancelled` | the signal, and the context that ends the worker |
| `server`, `failed` | the goroutine of `Server.Run`, and an error in `errCh` |
| `grpc`, `stopper` | the `grpc.Server` and the goroutine that calls `GracefulStop` |
| `call`, `worker` | a call's handler and the worker, as users of the pool: waiting for a connection, holding one, or neither |
| `holders`, `pool` | the pool's connections in use, and whether it is open |

`LoadConfig` is the code up to `signal.NotifyContext`: `ParseFlags`, in which `flag.Parse` may end the process
itself, and `Load`. `SignalKills` is a signal before `NotifyContext`, or after `cancel()`, which is also its stop.
`HealthCheckPanics` is the pool's own goroutine, which `health_check_period` reaches unchecked. `GracefulStop` has
three steps, for between its first GOAWAY and its last one connections that are open may still bring calls (`Admits`).

What a statement does to the tables is in the other modules; in `Gateway` it is a connection taken
and given back. `EventMethods`, `EndpointMethods` and `DeliveryMethods` say how often each method
takes one: a transaction keeps its connection, and the lookup after a unique violation and the write
of an `UpdateEndpoint` take a second after the first is back.

### How the modules fit together

* `DeliveryWorker` inserts the deliveries of an event in one step. `EventIngest` justifies it:
  they become visible together, at the commit (`StoredOnce`), and are those of the
  subscribers of one moment (`FanOutOfOneMoment`).
* `EventIngest` and `DeliveryWorker` change an endpoint's configuration in one step.
  `EndpointAdmin` says what that step may be (`ColumnsChangeByName`), and that an endpoint with deliveries
  stays (`GoneForGood`).
* `DeliveryWorker!Crash` may come at any moment. `Gateway` shows why it has to: `run()`
  returns while the worker is between two statements.
* `Gateway!Valid` is what gives a process that runs a pool of at least one connection. It does not concern
  the worker's settings, which `main.go` writes out and `NewDeliveryWorker` keeps positive.

### Abstractions

* *Time is relative.* A row carries its distance from now (`due_in` and `cooldown` to
  0, `claim_age` up to `StaleAfter`) and one `Tick` moves all of them. The code only
  compares timestamps with the present. The gateway's clock and the database's are
  taken to be the same; the code compares both.
* *The two reads of `Load` are one step.* The event is never changed and a row that is
  referenced cannot be deleted (foreign keys without cascade), so only the read of the
  endpoint matters.
* *`failures` stops at the threshold.* The statements only ask whether it is reached.
* *Any ready rows may be claimed*, up to `BatchSize`: `SKIP LOCKED` leaves out rows another
  statement holds, so neither the order of `next_retry_at` is promised nor that a claim
  takes all it has room for.
* *The jitter is any value of its window*, and the full window `[delay, 1.5 delay)` is
  kept.
* *A request that is refused before it reaches the database* changes nothing and, in
  `DeliveryOperators` and `Gateway`, is not a step.
* *Left out*: payloads, headers, the signature, messages, `timeout_ms` in the worker (a request may
  take any number of ticks). The default for `max_attempts <= 0` (`DefaultMaxAttempts`) and the
  branch `delay <= 0` of `backoff` cannot be reached with the schema's limits.
* Topics appear as the set of endpoints an event is for, chosen anew in every call; in
  `EventIngest` an endpoint has a set of topics.
* *`Listen` may fail* at any time before `Serve`.

## 3. Runs

Ids are model values; numbers of events, endpoints, workers, the
limit, the intervals, `BatchSize` and the number of faults are in the `.cfg`.

| Run | Instance | Shows |
|---|---|---|
| `single_worker` | 1 event × 2 endpoints, one worker, batches of two, limit 3, one fault | types; claims exclusive; limits, stamps, acknowledgements, counted requests, nothing delivered unacknowledged beside faults, finished rows, backoff. The clock is free: with one process staleness is harmless |
| `timely_workers` | 2 events × 1 endpoint, two workers, each claim finished in time, answers include a status the schema refuses, one fault | claims exclusive, limit and finished rows for several processes |
| `overlapping_workers` | two workers, no limit on their delay | the breaker and `DeliveredWasAcknowledged` do not need timeliness |
| `settled` | one worker, 2 events, one fault, fairness | every delivery ends; lost claims return; `DeliveryLifecycle` is implemented, with its liveness |
| `operators` | two timely workers, one delivery, one client update, one fault, fairness | an update costs at most one request more; only clients and the worker that holds it touch a finished row; each delivery ends, also one a client marks `delivering` |
| `ingest` | 2 calls, 1 key, 2 topics, 1 endpoint, one fault, fairness | the key is stored once and for good, with the subscribers of one moment; replies are true; no delivery dangles; `EventStore` is implemented, so that calls that wait for each other end |
| `endpoint_admin` | 2 calls, 2 endpoints, requests that name one column, one fault | what overlapping updates may undo; replies name the cause; deleted endpoints stay deleted |
| `page_walks` | 3 rows, pages of 1 and 2, two timestamps or none; three listings | nothing twice, nothing missed, the walk ends |
| `gateway` | 3 calls and the worker, thirteen configurations, pools of 1 and 2 | exit codes; accepted calls are answered; the process ends; calls get connections |
| `terminal_overwritten`, `unstorable_status`, `event_pages` | | counterexamples, see below |

### Bounds

`MaxAttemptsLimit` (20 in the schema) is 2 or 3, which covers a first attempt, a
retry and the last. `MaxFaults` bounds faults, `MaxSends` is where the ghost
counter stops, `MaxEdits` bounds a client's updates of one row, `RetryDistances` the retry time
a client may set (the service takes any: a later one is only more ticks of waiting), and `MaxNamed` the columns one
`UpdateEndpoint` names; all are in the guards. What goes wrong between two actors goes wrong
with two of them, a single fault and a single row; the theorems of section 4 remove the bounds for
all but liveness.

`ingest` has one key: calls with different keys share nothing but the
endpoints, which they only read. In `endpoint_admin` there are a name, a URL and a limit the service
refuses, ones it lets pass, and a limit that only the schema refuses. Columns named one at a time are
enough for two calls to undo each other. In `page_walks`, two rows with the same timestamp
on different pages, and a limit at and above the largest, are among the cases. Its properties make one
exception, `blind`: dead letters without `dead_lettered_at`, which the `UpdateDeliveryAttempt`
call can produce, sort first, and when one ends a page the cursor is empty and the walk
starts again. In `gateway` two configurations are good; two make `flag.Parse` end the
process, each of the others but one fails one check of `Load` or `validate`, the ones a nil pool depends on included,
and the last has the `health_check_period` that nothing checks. Three
calls and a worker on one or two connections leave
somebody waiting.

`overlapping_workers` has the state constraint `FewAttempts`: overlapping workers can
revive a row without end, and the run explores them up to the limit.

Deadlock is checked in every run but those of `Pagination`, where the system stops when the walk has
ended, and `gateway`, where it stops when the process has.

### Disagreements with the documentation

Three runs end in a counterexample. Of a
delivery `proto/README.md:129-131` says that it is a "state machine" with the invariants
"status transitions, attempt limits, retry backoff", of events (`:120`) that they are
listed "with cursor pagination".

* `terminal_overwritten`: a worker sends a delivery, is acknowledged, and is slower than `StaleAfter`; another
  process resets the claim and claims the row; the first records `delivered`; the second, which decides by its own
  copy of the row, sends again, gets a failure that can be retried, and writes `pending` over `delivered`: the
  delivery is sent once more. `UpdateDeliveryAttempt` has neither the status nor the claim in its `WHERE` clause.
  With the shipped settings (20 rows a batch, one after another, timeouts up to 30 s, claims reset after 2 minutes) a
  batch can take five times as long as a claim lives.
* `unstorable_status`: the schema refuses to store a status above 599, the HTTP client
  does not. Such an attempt is never recorded, so that its delivery is sent again every
  `StaleAfter` and neither the limit nor the backoff apply. `EventuallySettled` is
  therefore stated for answers that can be stored.
* `event_pages`: `ListEvents` fills in its cursor without `Valid: true`, which the driver
  sends as two nulls, which the query takes for no cursor: every request with the required `cursor_id` is answered with
  the newest events. In the run the client makes up the first cursor and sends back the one it is given. (It
  also passes no topic, and takes a limit of 100 for 50.)

Met while modelling, and stated by no document: the `UpdateDeliveryAttempt` call can put a finished row
back into the queue (`operators` bounds the cost); `CreateEndpoint` ignores the request's `active`;
`GetEvent` serves only the `id` of its two keys; `ListPendingDeliveries` hands out rows without
claiming them; a list of only unknown statuses lists all deliveries of an endpoint; a `health_check_period` that is
absent or not positive passes `validate()`, and the pool's goroutine then panics (exit code 2).

### Fairness

`DeliveryWorker!FairSpec` assumes that the clock advances and that a worker process that is up keeps
executing (`Run` is a loop on a ticker that ends only with its context; every
statement and request has a result, the request by its timeout). Nothing is assumed of
clients or endpoints, which may fail every request, and faults never have to
happen. Strong fairness is assumed of one thing, the claim that finds no row locked (`ClaimsUnlocked`):
a statement holds its row locks only while it runs, so a worker that claims again and again cannot
miss the same rows for ever. Every other step of a worker stays enabled until it is taken. `DeliveryOperators` adds nothing: clients owe no update.

`EventIngest` assumes weak fairness of each call's steps, and strong fairness of the INSERT
that waits for a key: a call could otherwise lose the key for ever to others that take it
and fail. PostgreSQL wakes the waiters when the holder ends. With this it
implements the fairness of `EventStore`, that an open call gets on. `Pagination` assumes that the client goes on.

`Gateway!FairSpec` assumes that `run()` goes on (which includes that its time limit passes), that
`GracefulStop` returns when it can, and that whoever waits under a context that is done stops
waiting. It assumes nothing of the database or of a handler: `StopsWhenTold` holds though a
statement may hang. `CallsGetConnections` needs more and names it: `Responsive`, that statements end
and that the pool serves those who wait in turn (pgxpool's semaphore is first come, first served), which is
strong fairness of taking a connection.

## 4. Proofs

The proof modules prove, for every value of the constants allowed by the assumptions:

| Theorem | Statement |
|---|---|
| `TypeCorrect` | `Spec => []TypeOK` (`DeliveryWorker`) |
| `BreakerSound` | `Spec => []BreakerConsistent` |
| `CircuitSound` | `Spec => CircuitTransitions` |
| `OnlyAcknowledged` | `Spec => []DeliveredWasAcknowledged` |
| `ClaimsExclusive` | `SafeDeployment` implies `Spec => []ClaimExclusive` |
| `TerminalRowsStable` | `SafeDeployment` implies `Spec => TerminalStable` |
| `AttemptsLimited` | `SafeDeployment` implies `Spec => []AttemptLimit` |
| `StampsSound` | `SafeDeployment` implies `Spec => []StampsMatchStatus` |
| `BackoffSound` | `SafeDeployment` implies `Spec => RetryBackoff` |
| `AcknowledgementsRecorded` | `SafeDeployment` implies `Spec => []AcknowledgedIsRecorded` |
| `LifecycleImplemented` | `SafeDeployment` implies `Spec => LifecycleSafety` |
| `RequestsCounted` | `SafeDeployment`, `AnswersStorable` imply `Spec => []RequestsAccounted` |
| `RequestsLimited` | the same imply `Spec => []RequestsWithinLimit` |
| `FinishedLeftAlone` | `OperatorSpec => FinishedStays` (`DeliveryOperators`, any deployment) |
| `UpdatesCostOneRequest` | `SafeDeployment`, `AnswersStorable` imply `OperatorSpec => []RequestsBoundedByEdits` |
| `IngestTypes` | `Spec => []TypeOK` (`EventIngest`) |
| `RepliesTrue` | `Spec => []RepliesAreTrue` |
| `DeliveriesHaveEndpoints` | `Spec => []NoneDangling` |
| `EventsStoredOnce` | `Spec => StoredOnce` |
| `FanOutsOfOneMoment` | `Spec => FanOutOfOneMoment` |
| `EventStoreRefined` | `Spec => EventStoreSafety` (`EventRefinement`) |
| `AdminTypes` | `Spec => []TypeOK` (`EndpointAdmin`) |
| `ColumnsAreNamedOrUndone` | `Spec => ColumnsChangeByName` |
| `UpdateRepliesTrue` | `Spec => UpdateRepliesAreTrue` |
| `EndpointsGoneForGood` | `Spec => GoneForGood` |
| `WalkTypes` | `Spec => []TypeOK` (`Pagination`) |
| `NoRowTwice`, `NoRowMissed` | `"ListEvents" \notin Listings` implies `Spec => []NoneTwice`, `[]NoneMissed` |
| `GatewayTyped` | `Spec => []TypeOK` (`Gateway`): the pool is never overdrawn |
| `ExitCodesTell` | `Spec => []ExitCodes`: code 0 only after a signal with the pool closed, or for `-h`; 1 only if the start or the server failed; 2 only for wrong flags, a missing secret or a `health_check_period` that is not positive |
| `AcceptedAnswered` | `Spec => []AcceptedIsAnswered`: accepted calls are answered, but for a failed server, the time limit or a panic |

Where a theorem names an assumption, a run shows what can happen without it:
`terminal_overwritten` without `SafeDeployment`, `unstorable_status` without `AnswersStorable`,
`event_pages` with `ListEvents`.

*Assumptions*: of the worker `ConfigAssumption` (settings positive: `NewDeliveryWorker` replaces the
others by defaults, and the schema keeps limits positive), `HttpAssumption` (a status has at most
three digits) and `WorkerAssumption`; of the other modules `NoneAssumption` and `RowAssumption` (the
values that stand for NULL and for no row are not rows), `AdminAssumption` (the types of the values sent), `PaginationAssumption` (rows are finitely many, ids and timestamps numbers, limits positive),
`StoreAssumption` (the value that stands for no call and for no subscribers seen is neither) and `GatewayAssumption` (the worker is not a call; the types of a configuration's fields). TLC evaluates
all of them. `SafeDeployment` says that there is one process, or that every claim is finished in time.

*The worker.* `TypeOK` is not inductive: that a worker in `processDelivery` has a current
delivery, which it holds, is added in `TInv`. `BreakerConsistent` is inductive with it
(`BInv`). For `ClaimExclusive`, `CInv` splits it in two: `Disjoint`, that no delivery is
in two batches, and `Backed`, that what is in a batch is claimed in the table with the
remembered count, and below `StaleAfter` when workers are timely, so that a reset never takes
a held claim. `AtRest` says a finished row has no timer running, which is what makes the clock leave it
alone. With `CInv` each statement of a worker writes a row that worker holds, which is
`delivering`, so no step touches a finished row. `Reply` is handled once
(`ReplyFacts`, `ReplyDone`): a lost reply only ever shrinks what a worker holds.

The later theorems add to these what they need: `AInv` that a worker at `mark_success` or
`delivered` has an acknowledged delivery in hand; `KInv` the converse, that an acknowledged
delivery is recorded or held there, as long as `faults = 0` (only `Send` acknowledges, and every other way
out of `processDelivery` counts a fault first); `LInv` (over `CInv`) that a worker at `retry`
has counted fewer attempts than the largest limit; `SInv` the stamps themselves; `RInv` that
what a worker has been answered can be stored. `RowsWritten` says once what a worker's step
can do to a row, and these proofs use it in place of the single statements. A request in
flight stays so until it is counted or a fault is (`FlightEnds`), and no second one starts
meanwhile (`OneFlight`, from `Disjoint`). For the refinement, `UpdateDeliveryAttempt` maps to
`Deliver`, `GiveUp` or no step, `Send` to `Acknowledge` or none, the clients to `Enqueue` or none,
and everything else moves rows only within `queued`.

*Client updates.* They break `CInv`: a client can write `delivering` to a row that nobody holds, or take
the row a worker is sending out of its hands, and then two workers may hold one delivery. So
neither theorem about them can use exclusive claims.
`FinishedLeftAlone` needs only `EInv`, types and `AtRest`: every statement of a worker names a row it has in hand.
For `UpdatesCostOneRequest`, `OInv` counts. `Holders`, `Retriers` and `Flyers` are the sets of workers that hold
a delivery, that may still write it back for a retry, and whose request for it is under way. `Spent` says that what
was sent is counted in the row, but for updates and requests under way, and that the
requests still to come are within `WithinBudget`. As long as two attempts or more are left, an update adds at
most one holder to come; in the last two attempts a series can no longer multiply, and the sum of the
attempts made and to come grows by at most two with an update, one of which is no
request, for the update itself counts as an attempt. A statement of a worker is one of four moves (`Kept`, `Claimed`, `Counted`, `PutOff`), each of
which keeps the budget. The invariant was found with TLC, on instances in which two workers and a client compete.

*Ingestion.* `IInv` adds to the properties what each statement relies on: one transaction at a time holds
a key (`OneHolder`), and until it commits there is no event (`KeyIsSound`), so a commit never
replaces one; what a call is about to write lies between the subscribers of always and of ever
(`MomentIsSound`); and its targets exist, or it has noticed that one has gone and will fail (`TargetsExist`).

For the refinement of `EventStore`, a call looks at `Begin` (its snapshot), stores at `Commit`, finds at `Lookup`, and
is refused at a `FanOut` that meets a deleted endpoint; the INSERT and a `FanOut` that succeeds are no step. What makes
it hold is that between these a call's view does not change: its subscribers (`matching`) are those of the
snapshot until they become its targets (`to`). `EventStore` marks a call `lost` when an endpoint
in its view goes, `EventIngest` has `gone`; `JInv` adds to `IInv` that they agree (`Linked`: while `gone` is false all that
the call has seen exists, and it is false before the snapshot and after the fan-out, when the foreign key keeps the
targets). So `Store` finds a view that is whole, and `Refuse` one that is not (`Loses`). Each
statement has a lemma of its own (`BeginRefines` ... `SetEndpointRefines`).

*Administration.* `AdminInv` says of a call between its statements (`CallIsSound`) that its row
differs from the table's only in the columns it missed, and that its request passed the
checks; and of the table that names are unique and endpoints with deliveries exist. Uniqueness is what gives
`UpdateRepliesTrue` its case of a name: one that was only copied can collide only if somebody changed it.

*Pagination.* The order of a listing is total (`TotalOrder`), so a set of rows has a first and a last row, by
well-founded induction on the finite sets of rows before each; a page is a prefix of the rows (`PageIsPrefix`,
`PageSplits`); and the cursor made of its last row lets through exactly the rows after it
(`CursorResumes`), unless that row has no timestamp. `WInv` then counts: a row that stays has been returned
once if it is behind the cursor, and otherwise never.

*The gateway.* `GInv` follows the process down. Until `run()` has a pool nothing runs (`Starting`); what `validate`
let through stays valid (`Checked`), so `postgres.New` has a pool to close; the exit code is set
with its reason (`Codes`, `Told`: before run() goes down, only a signal cancels the worker, and a process that
dies of something else dies of what `ExitCodes` names); the pool is closed only
by the deferred `Close` (`Pools`). `CutOff` carries the argument about calls: none is accepted once the last GOAWAY
is sent or `Stop` was called, `GracefulStop` is done only when none runs, `Stop` cuts those that do; so when the pool
is closed, who still runs has been cut. Each step of a handler is one shape of move (`Moves`, `CallMoves`), so the
invariant is proved once for the six of them. That the pool is not overdrawn is a fact about the
cardinality of `holders`, which needs `holders` finite though `Calls` need not be.

*Only model-checked*: liveness (`EventuallySettled`, `OrphansRecovered`, `WalkEnds`,
`StopsWhenTold`, `CallsGetConnections`, and the fairness part of the two
refinements, `Lifecycle` and `EventStoreImplemented`), which is out of the prover's reach. Every safety property that a run checks is stated by one of the
theorems.

## 5. Not modelled, and why

* Copies of fields (`mappers.go` but for the status, getters and descriptors in `gen`, the scans in `repository`),
  logging, and the signature, headers and body of the request: no state, no decision.
* The reads that change nothing and decide nothing (`GetEvent`, `GetDelivery`, counts).
* `internal/domain`, and the functional options of the pool: nothing uses them.
* The conversion of units in the configuration.
* More than one gateway process in `Gateway`: processes meet only in the database, which `DeliveryWorker`
  (`Workers`) and `EventIngest` (`Calls`) model for any number.
* The migrations as steps (the schema is what they leave), and the files of the build.

## 6. Plan

Each component has its model, its runs and the proofs of its safety properties, and the two at the core, ingestion
and delivery, implement an abstract specification. What could follow:

1. `EndpointAdmin` shown to implement an abstract registry in which `UpdateEndpoint` is one step, when no other
   update overlaps with it: the exact condition under which its read-modify-write is atomic.
2. `OrphansRecovered` and `EventuallySettled` reduced to their leads-to steps, each proved as
   an action property, with only the fairness left to TLC.
