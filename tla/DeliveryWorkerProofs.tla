------------------------ MODULE DeliveryWorkerProofs ------------------------
(***************************************************************************)
(* Theorems about DeliveryWorker, for any number of events, endpoints and  *)
(* workers, any configuration and any number of faults.                    *)
(***************************************************************************)
EXTENDS DeliveryWorker, TLAPS

----------------------------------------------------------------------------
(* The rows: what each statement leaves, under ConfigAssumption *)

\* A cooldown fits in next_retry_at's range: RescheduleDelivery copies one.
LEMMA DelayBounds ==
    /\ MaxDelay \in Nat
    /\ CircuitCooldown \in 0..MaxDelay
    /\ 0..CircuitCooldown \subseteq 0..MaxDelay
    BY ConfigAssumption DEF MaxDelay, Max2

\* The values the statements write are in the columns' ranges.
LEMMA ColumnValues ==
    /\ 0 \in 0..MaxDelay
    /\ 0 \in 0..StaleAfter
    /\ 0 \in Nat
    /\ "none" \in StoredStatuses \cup {"none"}
    /\ "pending" \in StoredStatuses \cup {"none"}
    /\ "delivering" \in StoredStatuses \cup {"none"}
    /\ StoredStatuses \subseteq StoredStatuses \cup {"none"}
    BY DelayBounds, ConfigAssumption DEF StoredStatuses

\* A row that is not stored, and a row as INSERT leaves it, are rows.
LEMMA FreshRowType == NoRow \in DeliveryRow /\ FreshDelivery \in DeliveryRow
<1>1. NoRow \in DeliveryRow
    BY ColumnValues, Zenon DEF NoRow, DeliveryRow
<1>2. FreshDelivery \in DeliveryRow
    BY <1>1, ColumnValues, Zenon DEF FreshDelivery, DeliveryRow
<1> QED BY <1>1, <1>2

\* Each statement on deliveries turns a row into a row: the columns it writes
\* stay in their ranges and pass the check constraints on status and count.
LEMMA DeliveryRowTypes ==
    ASSUME NEW r \in DeliveryRow
    PROVE  /\ ClaimRow(r) \in DeliveryRow
           /\ ResetRow(r) \in DeliveryRow
           /\ AgeDelivery(r) \in DeliveryRow
<1>1. ClaimRow(r) \in DeliveryRow
    BY ColumnValues, Zenon DEF ClaimRow, DeliveryRow
<1>2. ResetRow(r) \in DeliveryRow
    BY ColumnValues, Zenon DEF ResetRow, DeliveryRow
<1>3. AgeDelivery(r) \in DeliveryRow
    <2>1. CountDown(r.due_in) \in 0..MaxDelay
        BY DelayBounds DEF CountDown, DeliveryRow
    <2>2. (IF r.status = "delivering" /\ r.claim_age < StaleAfter
           THEN r.claim_age + 1 ELSE r.claim_age) \in 0..StaleAfter
        BY ConfigAssumption DEF DeliveryRow
    <2> QED BY <2>1, <2>2, Zenon DEF AgeDelivery, DeliveryRow
<1> QED BY <1>1, <1>2, <1>3

\* A claim starts its age and keeps the count.
LEMMA ClaimRowFields ==
    ASSUME NEW r \in DeliveryRow
    PROVE  /\ ClaimRow(r).status = "delivering"
           /\ ClaimRow(r).attempts = r.attempts
           /\ ClaimRow(r).claim_age = 0
    BY Zenon DEF ClaimRow, DeliveryRow

\* UpdateDeliveryAttempt writes a row, whatever the row was.
LEMMA AttemptRowType ==
    ASSUME NEW r \in DeliveryRow, NEW due \in 0..MaxDelay,
           NEW status \in StoredStatuses
    PROVE  AttemptRow(r, status, due) \in DeliveryRow
<1>1. r.attempts + 1 \in Nat
    BY DEF DeliveryRow
<1>2. (IF status = "pending" THEN due ELSE 0) \in 0..MaxDelay
    BY ColumnValues
<1>3. (status = "delivered") \in BOOLEAN /\ (status = "dead_lettered") \in BOOLEAN
    OBVIOUS
<1> QED BY <1>1, <1>2, <1>3, ColumnValues, Zenon DEF AttemptRow, DeliveryRow

\* RescheduleDelivery writes a row, whatever the row was.
LEMMA RescheduleRowType ==
    ASSUME NEW r \in DeliveryRow, NEW due \in 0..MaxDelay
    PROVE  RescheduleRow(r, due) \in DeliveryRow
    BY ColumnValues, Zenon DEF RescheduleRow, DeliveryRow

\* A backoff is a distance next_retry_at may have, whatever the power of two.
LEMMA BackoffBounds ==
    ASSUME NEW attempt
    PROVE  BackoffDelays(attempt) \subseteq 0..MaxDelay
    BY DEF BackoffDelays

\* Each statement on endpoints turns a row into a row.
LEMMA EndpointRowTypes ==
    ASSUME NEW p \in EndpointRow
    PROVE  /\ SuccessRow(p) \in EndpointRow
           /\ FailureRow(p) \in EndpointRow
           /\ HalfOpenRow(p) \in EndpointRow
           /\ AgeEndpoint(p) \in EndpointRow
<1>0. /\ 0 \in 0..CircuitThreshold /\ CircuitThreshold \in 0..CircuitThreshold
      /\ Null \in Null..CircuitCooldown /\ CircuitCooldown \in Null..CircuitCooldown
    BY ConfigAssumption DEF Null
<1>1. SuccessRow(p) \in EndpointRow
    BY <1>0, Zenon DEF SuccessRow, EndpointRow
<1>2. FailureRow(p) \in EndpointRow
    <2>1. CASE TripsCircuit(p)
        BY <2>1, <1>0, Zenon DEF FailureRow, EndpointRow
    <2>2. CASE ~TripsCircuit(p)
        <3>1. p.failures + 1 \in 0..CircuitThreshold
            BY <2>2, ConfigAssumption DEF TripsCircuit, EndpointRow
        <3> QED BY <2>2, <3>1, Zenon DEF FailureRow, EndpointRow
    <2> QED BY <2>1, <2>2
<1>3. HalfOpenRow(p) \in EndpointRow
    BY Zenon DEF HalfOpenRow, EndpointRow
<1>4. AgeEndpoint(p) \in EndpointRow
    <2>1. CountDown(p.cooldown) \in Null..CircuitCooldown
        BY ConfigAssumption DEF CountDown, EndpointRow, Null
    <2> QED BY <2>1, Zenon DEF AgeEndpoint, EndpointRow
<1> QED BY <1>1, <1>2, <1>3, <1>4

\* UpdateEndpoint writes a row: its limit passes chk_max_attempts.
LEMMA ConfigureRowType ==
    ASSUME NEW p \in EndpointRow, NEW active \in BOOLEAN,
           NEW max \in 1..MaxAttemptsLimit
    PROVE  ConfigureRow(p, active, max) \in EndpointRow
    BY Zenon DEF ConfigureRow, EndpointRow

\* The clock ages a claim by at most one tick, and changes no status or count.
LEMMA AgeFields ==
    ASSUME NEW r \in DeliveryRow
    PROVE  /\ AgeDelivery(r).status = r.status
           /\ AgeDelivery(r).attempts = r.attempts
           /\ AgeDelivery(r).claim_age \in {r.claim_age, r.claim_age + 1}
<1> DEFINE age == IF r.status = "delivering" /\ r.claim_age < StaleAfter
                  THEN r.claim_age + 1 ELSE r.claim_age
<1>1. /\ AgeDelivery(r).status = r.status
      /\ AgeDelivery(r).attempts = r.attempts
      /\ AgeDelivery(r).claim_age = age
    BY Zenon DEF AgeDelivery, DeliveryRow
<1> QED BY <1>1

\* The clock leaves a row that is done, or never was, as it is.
LEMMA AgeAtRest ==
    ASSUME NEW r \in DeliveryRow, r.status # "delivering", r.due_in = 0
    PROVE  AgeDelivery(r) = r
<1>1. CountDown(r.due_in) = r.due_in
    BY DEF CountDown
<1>2. AgeDelivery(r) = [r EXCEPT !.due_in = r.due_in, !.claim_age = r.claim_age]
    BY <1>1, Zenon DEF AgeDelivery
<1> QED BY <1>2, Zenon DEF DeliveryRow

----------------------------------------------------------------------------
(* One worker at a time *)

\* Between ticks a worker holds nothing; inside processDelivery it holds cur.
Local(s) ==
    /\ s.pc \in {"reset", "claim"} => s.batch = {}
    /\ s.pc \in Processing => s.cur \in s.batch

TInv == TypeOK /\ \A w \in Workers : Local(worker[w])

\* t holds some of the claims of s, with the same copies of their rows.
Keeps(s, t) ==
    /\ t.batch \subseteq s.batch
    /\ \A d \in t.batch : t.seen[d] = s.seen[d]

\* The state w may be left in: well formed, holding no claim it did not hold.
After(w) == {t \in WorkerState : Local(t) /\ Keeps(worker[w], t)}

\* A worker between two deliveries is in a possible state.
LEMMA HoldingFacts ==
    ASSUME NEW pc \in PCs, NEW batch \in SUBSET Deliveries,
           NEW seen \in [Deliveries -> Nat],
           pc = "load" \/ (pc = "reset" /\ batch = {})
    PROVE  /\ Holding(pc, batch, seen) \in WorkerState
           /\ Local(Holding(pc, batch, seen))
           /\ Holding(pc, batch, seen).pc = pc
           /\ Holding(pc, batch, seen).batch = batch
           /\ Holding(pc, batch, seen).seen = seen
           /\ Holding(pc, batch, seen).cur = NoDelivery
<1> DEFINE t == Holding(pc, batch, seen)
<1>1. 0 \in 0..MaxAttemptsLimit /\ 0 \in 0..CircuitCooldown /\ 0 \in 0..999
    BY ConfigAssumption
<1>2. t \in WorkerState
    BY <1>1 DEF Holding, WorkerState
<1>3. t.pc = pc /\ t.batch = batch /\ t.seen = seen /\ t.cur = NoDelivery
    BY DEF Holding
<1>4. Local(t)
    BY <1>3 DEF Local, Processing
<1> QED BY <1>2, <1>3, <1>4

\* A worker that has just started, or given up a tick, holds nothing.
LEMMA IdleFacts == Idle \in WorkerState /\ Local(Idle) /\ Idle.batch = {}
<1>1. "reset" \in PCs
    BY DEF PCs
<1>2. [d \in Deliveries |-> 0] \in [Deliveries -> Nat]
    OBVIOUS
<1> QED BY <1>1, <1>2, HoldingFacts DEF Idle

\* Done drops d, and nothing else, from what the worker holds.
LEMMA DoneFacts ==
    ASSUME TInv, NEW w \in Workers, NEW d \in Deliveries
    PROVE  /\ Done(w, d) \in After(w)
           /\ Done(w, d).batch = worker[w].batch \ {d}
           /\ Done(w, d).cur = NoDelivery
           /\ Done(w, d).pc \in {"reset", "load"}
<1> DEFINE rest == worker[w].batch \ {d}
           pc == IF rest = {} THEN "reset" ELSE "load"
           seen == [worker[w].seen EXCEPT ![d] = 0]
<1>1. worker[w] \in WorkerState
    BY DEF TInv, TypeOK
<1>2. pc \in PCs /\ rest \in SUBSET Deliveries /\ seen \in [Deliveries -> Nat]
    BY <1>1 DEF WorkerState, PCs
<1>3. Done(w, d) = Holding(pc, rest, seen)
    BY DEF Done
<1>4. \A x \in rest : seen[x] = worker[w].seen[x]
    BY <1>1 DEF WorkerState
<1>5. pc = "load" \/ (pc = "reset" /\ rest = {})
    OBVIOUS
<1> HIDE DEF rest, pc, seen
<1>6. /\ Done(w, d) \in WorkerState /\ Local(Done(w, d))
      /\ Done(w, d).pc = pc /\ Done(w, d).batch = rest
      /\ Done(w, d).seen = seen /\ Done(w, d).cur = NoDelivery
    BY <1>2, <1>3, <1>5, HoldingFacts
<1>7. Keeps(worker[w], Done(w, d))
    BY <1>4, <1>6 DEF Keeps, rest
<1> QED BY <1>5, <1>6, <1>7 DEF After, rest

\* The statement counter moves on within a delivery, or from reset to claim.
LEMMA GotoFacts ==
    ASSUME TInv, NEW w \in Workers, NEW pc \in PCs,
           \/ worker[w].pc \in Processing /\ pc \in Processing
           \/ worker[w].pc = "reset" /\ pc = "claim"
    PROVE  Goto(w, pc) \in After(w)
<1> DEFINE s == worker[w]
           t == [s EXCEPT !.pc = pc]
<1>1. s \in WorkerState /\ Local(s)
    BY DEF TInv, TypeOK
<1>2. Goto(w, pc) = t
    BY Zenon DEF Goto
<1>3. t \in WorkerState
    BY <1>1 DEF WorkerState
<1>4. t.pc = pc /\ t.batch = s.batch /\ t.cur = s.cur /\ t.seen = s.seen
    BY <1>1 DEF WorkerState
<1>5. Local(t)
    BY <1>1, <1>4 DEF Local, Processing
<1>6. Keeps(s, t)
    BY <1>4, Zenon DEF Keeps
<1> QED BY <1>2, <1>3, <1>5, <1>6, Zenon DEF After

\* After an error the worker holds no more than before.
LEMMA AfterErrorFacts ==
    ASSUME TInv, NEW w \in Workers
    PROVE  AfterError(w) \subseteq After(w)
<1>1. worker[w] \in WorkerState /\ Local(worker[w])
    BY DEF TInv, TypeOK
<1>2. CASE worker[w].pc \in {"reset", "claim"}
    <2>1. Idle \in After(w)
        BY IdleFacts DEF After, Keeps
    <2> QED BY <1>2, <2>1 DEF AfterError
<1>3. CASE worker[w].pc = "load"
    <2>1. worker[w].batch \subseteq Deliveries
        BY <1>1 DEF WorkerState
    <2>2. \A d \in worker[w].batch : Done(w, d) \in After(w)
        BY <2>1, DoneFacts
    <2> QED BY <1>3, <2>2 DEF AfterError
<1>4. CASE worker[w].pc \in Processing
    <2>1. worker[w].cur \in Deliveries
        BY <1>1, <1>4 DEF Local, WorkerState
    <2>2. Done(w, worker[w].cur) \in After(w)
        BY <2>1, DoneFacts
    <2> QED BY <1>4, <2>2 DEF AfterError, Processing
<1> QED BY <1>1, <1>2, <1>3, <1>4 DEF WorkerState, Processing

\* A worker whose statement took effect goes on as told, or drops something.
LEMMA ReplyFacts ==
    ASSUME TInv, NEW w \in Workers, NEW next, Reply(w, next)
    PROVE  /\ \E t \in After(w) \cup {next} : worker' = [worker EXCEPT ![w] = t]
           /\ faults' \in 0..MaxFaults
<1>1. faults \in 0..MaxFaults /\ MaxFaults \in Nat
    BY WorkerAssumption DEF TInv, TypeOK
<1>2. CASE worker' = [worker EXCEPT ![w] = next] /\ UNCHANGED faults
    BY <1>1, <1>2
<1>3. CASE /\ faults < MaxFaults
           /\ faults' = faults + 1
           /\ \E s \in AfterError(w) : worker' = [worker EXCEPT ![w] = s]
    <2>1. faults' \in 0..MaxFaults
        BY <1>1, <1>3
    <2> QED BY <1>3, <2>1, AfterErrorFacts
<1> QED BY <1>2, <1>3 DEF Reply

----------------------------------------------------------------------------
(* Type correctness *)

\* A step of w that leaves it in one of its possible states.
LEMMA WorkerUpdate ==
    ASSUME TInv, NEW w \in Workers, NEW t \in WorkerState, Local(t),
           worker' = [worker EXCEPT ![w] = t]
    PROVE  /\ worker' \in [Workers -> WorkerState]
           /\ \A v \in Workers : Local(worker'[v])
    BY DEF TInv, TypeOK

\* What a worker processes is a stored delivery of a stored endpoint.
LEMMA CurFacts ==
    ASSUME TInv, NEW w \in Workers, worker[w].pc \in Processing
    PROVE  /\ worker[w].cur \in worker[w].batch
           /\ worker[w].cur \in Deliveries
           /\ EndpointOf(worker[w].cur) \in Endpoints
    BY DEF TInv, TypeOK, WorkerState, Local, EndpointOf, Deliveries

\* The possible states after a reply are typed, and are w's only change.
LEMMA ReplyType ==
    ASSUME TInv, NEW w \in Workers, NEW next \in WorkerState, Local(next),
           Reply(w, next)
    PROVE  /\ worker' \in [Workers -> WorkerState]
           /\ \A v \in Workers : Local(worker'[v])
           /\ faults' \in 0..MaxFaults
<1>1. PICK t \in After(w) \cup {next} : worker' = [worker EXCEPT ![w] = t]
    BY ReplyFacts
<1>2. t \in WorkerState /\ Local(t)
    BY DEF After
<1> QED BY <1>1, <1>2, WorkerUpdate, ReplyFacts

\* A worker that finishes with its batch goes on to the next tick.
LEMMA ClaimState ==
    ASSUME TInv, NEW s \in SUBSET Deliveries
    PROVE  LET t == Holding(IF s = {} THEN "reset" ELSE "load", s,
                            [d \in Deliveries |->
                               IF d \in s THEN delivery[d].attempts ELSE 0])
           IN  /\ t \in WorkerState
               /\ Local(t)
               /\ t.batch = s
               /\ \A d \in s : t.seen[d] = delivery[d].attempts
<1> DEFINE pc == IF s = {} THEN "reset" ELSE "load"
           seen == [d \in Deliveries |-> IF d \in s THEN delivery[d].attempts ELSE 0]
<1>1. pc \in PCs /\ (pc = "load" \/ (pc = "reset" /\ s = {}))
    BY DEF PCs
<1>2. \A d \in Deliveries : delivery[d].attempts \in Nat
    BY DEF TInv, TypeOK, DeliveryRow
<1>3. seen \in [Deliveries -> Nat]
    BY <1>2
<1>4. \A d \in s : seen[d] = delivery[d].attempts
    OBVIOUS
<1> HIDE DEF pc, seen
<1>5. /\ Holding(pc, s, seen) \in WorkerState /\ Local(Holding(pc, s, seen))
      /\ Holding(pc, s, seen).batch = s /\ Holding(pc, s, seen).seen = seen
    BY <1>1, <1>3, HoldingFacts
<1> QED BY <1>4, <1>5 DEF pc, seen

\* Load keeps what the worker holds and puts one delivery in hand.
LEMMA LoadState ==
    ASSUME TInv, NEW w \in Workers, NEW d \in worker[w].batch, NEW pc \in Processing,
           NEW max \in 0..MaxAttemptsLimit, NEW cooldown \in 0..CircuitCooldown
    PROVE  LET t == [pc |-> pc, batch |-> worker[w].batch, seen |-> worker[w].seen,
                     cur |-> d, max_attempts |-> max, cooldown |-> cooldown, http |-> 0]
           IN  /\ t \in After(w)
               /\ t.pc = pc
               /\ t.cur = d
<1> DEFINE t == [pc |-> pc, batch |-> worker[w].batch, seen |-> worker[w].seen,
                 cur |-> d, max_attempts |-> max, cooldown |-> cooldown, http |-> 0]
<1>1. worker[w] \in WorkerState
    BY DEF TInv, TypeOK
<1>2. d \in Deliveries
    BY <1>1 DEF WorkerState
<1>3. t \in WorkerState
    BY <1>1, <1>2 DEF WorkerState, Processing
<1>4. Local(t)
    BY DEF Local, Processing
<1>5. Keeps(worker[w], t)
    BY DEF Keeps
<1> QED BY <1>3, <1>4, <1>5 DEF After

\* A worker in state s that has got an answer and goes on to pc.
Answered(s, http, pc) == [s EXCEPT !.http = http, !.pc = pc]

\* Send keeps what the worker holds and adds the answer.
LEMMA SendState ==
    ASSUME TInv, NEW w \in Workers, worker[w].pc \in Processing,
           NEW pc \in Processing, NEW http \in 0..999
    PROVE  Answered(worker[w], http, pc) \in After(w)
<1> DEFINE s == worker[w]
           u == [s EXCEPT !.http = http]
           t == [u EXCEPT !.pc = pc]
<1>1. s \in WorkerState /\ Local(s)
    BY DEF TInv, TypeOK
<1>2. /\ u \in WorkerState
      /\ u.batch = s.batch /\ u.seen = s.seen /\ u.cur = s.cur
      /\ u.max_attempts = s.max_attempts /\ u.http = http
    BY <1>1 DEF WorkerState
<1> HIDE DEF u
<1>3. /\ t \in WorkerState
      /\ t.batch = u.batch /\ t.seen = u.seen /\ t.cur = u.cur
      /\ t.max_attempts = u.max_attempts /\ t.http = u.http /\ t.pc = pc
    BY <1>2 DEF WorkerState, Processing
<1> HIDE DEF t
<1>4. Local(t)
    BY <1>1, <1>2, <1>3 DEF Local, Processing
<1>5. Keeps(s, t)
    BY <1>2, <1>3 DEF Keeps
<1>6. t \in After(w)
    BY <1>3, <1>4, <1>5 DEF After
<1>7. Answered(s, http, pc) = t
    BY DEF t, u, Answered
<1> QED BY <1>6, <1>7

\* The steps that write no delivery leave w in one of its possible states.
LEMMA QuietWorkerStep ==
    ASSUME TInv, NEW w \in Workers,
           \/ Load(w) \/ MoveEndpointCircuitToHalfOpen(w) \/ Send(w)
           \/ MarkEndpointDeliverySuccess(w) \/ MarkEndpointDeliveryFailure(w)
    PROVE  \E t \in After(w) : worker' = [worker EXCEPT ![w] = t]
<1>0. worker[w] \in WorkerState
    BY DEF TInv, TypeOK
<1>1. CASE Load(w)
    <2>1. PICK d \in worker[w].batch :
            LET p == endpoint[EndpointOf(d)] IN
            worker' = [worker EXCEPT ![w] =
               [pc |-> IF ~p.active THEN "dead_lettered"
                       ELSE IF IsCooling(p) THEN "reschedule"
                       ELSE IF p.circuit = "open" THEN "half_open" ELSE "send",
                batch |-> worker[w].batch, seen |-> worker[w].seen, cur |-> d,
                max_attempts |-> p.max_attempts,
                cooldown |-> IF p.active /\ IsCooling(p) THEN p.cooldown ELSE 0,
                http |-> 0]]
        BY <1>1 DEF Load
    <2> DEFINE p == endpoint[EndpointOf(d)]
               pc == IF ~p.active THEN "dead_lettered"
                     ELSE IF IsCooling(p) THEN "reschedule"
                     ELSE IF p.circuit = "open" THEN "half_open" ELSE "send"
               cooldown == IF p.active /\ IsCooling(p) THEN p.cooldown ELSE 0
    <2>2. p \in EndpointRow
        BY <1>0 DEF TInv, TypeOK, WorkerState, EndpointOf, Deliveries
    <2>3. pc \in Processing
        BY DEF Processing, PCs
    <2>4. p.max_attempts \in 0..MaxAttemptsLimit
        BY <2>2, ConfigAssumption DEF EndpointRow
    <2>5. cooldown \in 0..CircuitCooldown
        BY <2>2, ConfigAssumption DEF EndpointRow, IsCooling, Null
    <2> HIDE DEF p, pc, cooldown
    <2> DEFINE t == [pc |-> pc, batch |-> worker[w].batch, seen |-> worker[w].seen,
                     cur |-> d, max_attempts |-> p.max_attempts,
                     cooldown |-> cooldown, http |-> 0]
    <2>6. t \in After(w)
        BY <2>3, <2>4, <2>5, LoadState
    <2>7. worker' = [worker EXCEPT ![w] = t]
        BY <2>1 DEF p, pc, cooldown
    <2> QED BY <2>6, <2>7
<1>2. CASE Send(w)
    <2>1. worker[w].pc \in Processing
        BY <1>2 DEF Send, Processing, PCs
    <2>2. PICK http \in HttpStatuses :
            worker' = [worker EXCEPT ![w] = [worker[w] EXCEPT
                 !.http = http,
                 !.pc = IF IsSuccess(http) THEN "mark_success" ELSE "mark_failure"]]
        BY <1>2 DEF Send, TInv, TypeOK
    <2> DEFINE pc == IF IsSuccess(http) THEN "mark_success" ELSE "mark_failure"
    <2>3. pc \in Processing /\ http \in 0..999
        BY HttpAssumption DEF Processing, PCs
    <2>4. worker' = [worker EXCEPT ![w] = Answered(worker[w], http, pc)]
        BY <2>2 DEF Answered
    <2> HIDE DEF pc
    <2>5. Answered(worker[w], http, pc) \in After(w)
        BY <2>1, <2>3, SendState
    <2> QED BY <2>4, <2>5
<1>3. CASE \/ MoveEndpointCircuitToHalfOpen(w)
           \/ MarkEndpointDeliverySuccess(w)
           \/ MarkEndpointDeliveryFailure(w)
    <2>1. worker[w].pc \in Processing
        BY <1>3 DEF MoveEndpointCircuitToHalfOpen, MarkEndpointDeliverySuccess,
                    MarkEndpointDeliveryFailure, Processing, PCs
    <2>2. PICK pc \in Processing : Reply(w, Goto(w, pc))
        BY <1>3 DEF MoveEndpointCircuitToHalfOpen, MarkEndpointDeliverySuccess,
                    MarkEndpointDeliveryFailure, Processing, PCs
    <2>3. Goto(w, pc) \in After(w)
        BY <2>1, <2>2, GotoFacts DEF Processing
    <2> QED BY <2>2, <2>3, ReplyFacts
<1> QED BY <1>1, <1>2, <1>3

\* The database starts with no deliveries and every worker idle.
LEMMA TypeInit == Init => TInv
<1> SUFFICES ASSUME Init PROVE TInv
    OBVIOUS
<1>1. delivery \in [Deliveries -> DeliveryRow]
    BY FreshRowType DEF Init
<1>2. endpoint \in [Endpoints -> EndpointRow]
    BY DEF Init, NewEndpointRow
<1>3. worker \in [Workers -> WorkerState] /\ \A w \in Workers : Local(worker[w])
    BY IdleFacts DEF Init
<1>4. faults \in 0..MaxFaults /\ acked \subseteq Deliveries
    BY WorkerAssumption DEF Init
<1>5. sends \in [Deliveries -> 0..MaxSends]
    BY WorkerAssumption DEF Init
<1> QED BY <1>1, <1>2, <1>3, <1>4, <1>5 DEF TInv, TypeOK

\* Each worker step, by the table it writes.
LEMMA TypeWorkerStep ==
    ASSUME TInv, NEW w \in Workers, WorkerStep(w)
    PROVE  TInv'
<1>0. /\ delivery \in [Deliveries -> DeliveryRow]
      /\ endpoint \in [Endpoints -> EndpointRow]
      /\ worker[w] \in WorkerState
      /\ faults \in 0..MaxFaults
      /\ acked \subseteq Deliveries
      /\ sends \in [Deliveries -> 0..MaxSends]
    BY DEF TInv, TypeOK
<1>1. CASE ResetStaleDelivering(w)
    <2>1. delivery' \in [Deliveries -> DeliveryRow]
        BY <1>0, <1>1, DeliveryRowTypes DEF ResetStaleDelivering
    <2>2. Goto(w, "claim") \in After(w)
        BY <1>1, GotoFacts DEF ResetStaleDelivering, PCs
    <2>3. /\ worker' \in [Workers -> WorkerState]
          /\ \A v \in Workers : Local(worker'[v])
          /\ faults' \in 0..MaxFaults
        BY <1>1, <2>2, ReplyType DEF ResetStaleDelivering, After
    <2> QED BY <1>0, <1>1, <2>1, <2>3 DEF TInv, TypeOK, ResetStaleDelivering
<1>2. CASE ClaimPendingDeliveries(w)
    <2> DEFINE next(s) == Holding(IF s = {} THEN "reset" ELSE "load", s,
                                  [d \in Deliveries |->
                                     IF d \in s THEN delivery[d].attempts ELSE 0])
    <2>1. PICK s \in SUBSET Ready :
             /\ delivery' = [d \in Deliveries |->
                               IF d \in s THEN ClaimRow(delivery[d]) ELSE delivery[d]]
             /\ Reply(w, next(s))
        BY <1>2 DEF ClaimPendingDeliveries, Claim
    <2>2. s \in SUBSET Deliveries
        BY DEF Ready
    <2>3. delivery' \in [Deliveries -> DeliveryRow]
        BY <1>0, <2>1, DeliveryRowTypes
    <2>4. next(s) \in WorkerState /\ Local(next(s))
        BY <2>2, ClaimState
    <2> HIDE DEF next
    <2>5. /\ worker' \in [Workers -> WorkerState]
          /\ \A v \in Workers : Local(worker'[v])
          /\ faults' \in 0..MaxFaults
        BY <2>1, <2>4, ReplyType
    <2> QED BY <1>0, <1>2, <2>3, <2>5 DEF TInv, TypeOK, ClaimPendingDeliveries, Claim
<1>3. CASE \/ Load(w) \/ MoveEndpointCircuitToHalfOpen(w) \/ Send(w)
           \/ MarkEndpointDeliverySuccess(w) \/ MarkEndpointDeliveryFailure(w)
    <2>1. PICK t \in After(w) : worker' = [worker EXCEPT ![w] = t]
        BY <1>3, QuietWorkerStep
    <2>2. worker' \in [Workers -> WorkerState] /\ \A v \in Workers : Local(worker'[v])
        BY <2>1, WorkerUpdate DEF After
    <2>3. faults' \in 0..MaxFaults
        BY <1>0, <1>3, ReplyFacts
           DEF Load, MoveEndpointCircuitToHalfOpen, Send,
               MarkEndpointDeliverySuccess, MarkEndpointDeliveryFailure
    <2>5. endpoint' \in [Endpoints -> EndpointRow]
        <3>1. CASE UNCHANGED endpoint
            BY <1>0, <3>1
        <3>2. CASE MoveEndpointCircuitToHalfOpen(w)
            BY <1>0, <3>2, EndpointRowTypes DEF MoveEndpointCircuitToHalfOpen
        <3>3. CASE MarkEndpointDeliverySuccess(w)
            BY <1>0, <3>3, EndpointRowTypes DEF MarkEndpointDeliverySuccess
        <3>4. CASE MarkEndpointDeliveryFailure(w)
            BY <1>0, <3>4, EndpointRowTypes DEF MarkEndpointDeliveryFailure
        <3> QED BY <1>3, <3>1, <3>2, <3>3, <3>4 DEF Load, Send
    <2>6. acked' \subseteq Deliveries /\ sends' \in [Deliveries -> 0..MaxSends]
        <3>1. CASE UNCHANGED <<acked, sends>>
            BY <1>0, <3>1
        <3>2. CASE Send(w)
            <4>1. worker[w].cur \in Deliveries
                BY <3>2, CurFacts DEF Send, Processing, PCs
            <4>2. acked' \subseteq Deliveries
                BY <1>0, <3>2, <4>1 DEF Send
            <4>3. sends' \in [Deliveries -> 0..MaxSends]
                BY <1>0, <3>2, <4>1, WorkerAssumption DEF Send
            <4> QED BY <4>2, <4>3
        <3> QED BY <1>3, <3>1, <3>2
                DEF Load, MoveEndpointCircuitToHalfOpen,
                    MarkEndpointDeliverySuccess, MarkEndpointDeliveryFailure
    <2>7. UNCHANGED delivery
        BY <1>3 DEF Load, MoveEndpointCircuitToHalfOpen, Send,
                    MarkEndpointDeliverySuccess, MarkEndpointDeliveryFailure
    <2> QED BY <1>0, <2>2, <2>3, <2>5, <2>6, <2>7 DEF TInv, TypeOK
<1>4. CASE UpdateDeliveryAttempt(w)
    <2> DEFINE d == worker[w].cur
    <2>1. worker[w].pc \in Processing
        BY <1>4 DEF UpdateDeliveryAttempt, Processing, PCs
    <2>2. Done(w, d) \in WorkerState /\ Local(Done(w, d))
        BY <2>1, CurFacts, DoneFacts DEF After
    <2>3. CASE /\ \E due \in BackoffDelays(AttemptsAfter(w)) :
                    delivery' = [delivery EXCEPT ![d] = AttemptRow(@, Outcome(w), due)]
               /\ Reply(w, Done(w, d))
        <3>1. PICK due \in 0..MaxDelay :
                delivery' = [delivery EXCEPT ![d] = AttemptRow(@, Outcome(w), due)]
            BY <2>3, BackoffBounds
        <3>2. Outcome(w) \in StoredStatuses
            BY <1>4 DEF UpdateDeliveryAttempt, Outcome, StoredStatuses
        <3>3. delivery' \in [Deliveries -> DeliveryRow]
            BY <1>0, <2>1, <3>1, <3>2, CurFacts, AttemptRowType
        <3>4. /\ worker' \in [Workers -> WorkerState]
              /\ \A v \in Workers : Local(worker'[v])
              /\ faults' \in 0..MaxFaults
            BY <2>2, <2>3, ReplyType
        <3> QED BY <1>0, <1>4, <3>3, <3>4 DEF TInv, TypeOK, UpdateDeliveryAttempt
    <2>4. CASE /\ worker' = [worker EXCEPT ![w] = Done(w, d)]
               /\ UNCHANGED <<delivery, faults>>
        <3>1. worker' \in [Workers -> WorkerState] /\ \A v \in Workers : Local(worker'[v])
            BY <2>2, <2>4, WorkerUpdate
        <3> QED BY <1>0, <1>4, <2>4, <3>1 DEF TInv, TypeOK, UpdateDeliveryAttempt
    <2> QED BY <1>4, <2>3, <2>4 DEF UpdateDeliveryAttempt
<1>5. CASE RescheduleDelivery(w)
    <2> DEFINE d == worker[w].cur
    <2>1. worker[w].pc \in Processing
        BY <1>5 DEF RescheduleDelivery, Processing, PCs
    <2>2. Done(w, d) \in WorkerState /\ Local(Done(w, d))
        BY <2>1, CurFacts, DoneFacts DEF After
    <2>3. worker[w].cooldown \in 0..MaxDelay
        BY <1>0, DelayBounds DEF WorkerState
    <2>4. delivery' \in [Deliveries -> DeliveryRow]
        BY <1>0, <1>5, <2>1, <2>3, CurFacts, RescheduleRowType DEF RescheduleDelivery
    <2>5. /\ worker' \in [Workers -> WorkerState]
          /\ \A v \in Workers : Local(worker'[v])
          /\ faults' \in 0..MaxFaults
        BY <1>5, <2>2, ReplyType DEF RescheduleDelivery
    <2> QED BY <1>0, <1>5, <2>4, <2>5 DEF TInv, TypeOK, RescheduleDelivery
<1> QED BY <1>1, <1>2, <1>3, <1>4, <1>5 DEF WorkerStep

\* A fault writes no row and leaves the worker in a possible state.

LEMMA TypeFaults ==
    ASSUME TInv, NEW w \in Workers, StatementFails(w) \/ Crash(w)
    PROVE  TInv'
<1>1. PICK t \in WorkerState : Local(t) /\ worker' = [worker EXCEPT ![w] = t]
    <2>1. CASE StatementFails(w)
        BY <2>1, AfterErrorFacts DEF StatementFails, After
    <2>2. CASE Crash(w)
        BY <2>2, IdleFacts DEF Crash
    <2> QED BY <2>1, <2>2
<1>2. worker' \in [Workers -> WorkerState] /\ \A v \in Workers : Local(worker'[v])
    BY <1>1, WorkerUpdate
<1>3. faults' \in 0..MaxFaults
    BY WorkerAssumption DEF StatementFails, Crash, TInv, TypeOK
<1>4. UNCHANGED <<delivery, endpoint, acked, sends>>
    BY DEF StatementFails, Crash
<1> QED BY <1>2, <1>3, <1>4 DEF TInv, TypeOK

\* The services insert and configure well-formed rows.
LEMMA TypeClient ==
    ASSUME TInv, Client
    PROVE  TInv'
<1>0. delivery \in [Deliveries -> DeliveryRow] /\ endpoint \in [Endpoints -> EndpointRow]
    BY DEF TInv, TypeOK
<1>1. ASSUME NEW d \in Deliveries, CreateDelivery(d) PROVE TInv'
    <2>1. delivery' \in [Deliveries -> DeliveryRow]
        BY <1>0, <1>1, FreshRowType DEF CreateDelivery
    <2> QED BY <1>1, <2>1 DEF TInv, TypeOK, CreateDelivery
<1>2. ASSUME NEW e \in Events, CreateDeliveriesForEvent(e) PROVE TInv'
    <2>1. delivery' \in [Deliveries -> DeliveryRow]
        BY <1>0, <1>2, FreshRowType DEF CreateDeliveriesForEvent
    <2> QED BY <1>2, <2>1 DEF TInv, TypeOK, CreateDeliveriesForEvent
<1>3. ASSUME NEW p \in Endpoints, UpdateEndpoint(p) PROVE TInv'
    <2>1. endpoint' \in [Endpoints -> EndpointRow]
        BY <1>0, <1>3, ConfigureRowType DEF UpdateEndpoint
    <2> QED BY <1>3, <2>1 DEF TInv, TypeOK, UpdateEndpoint
<1> QED BY <1>1, <1>2, <1>3 DEF Client

\* The clock leaves what each worker holds, and where it is, as it was.
LEMMA TickWorkers ==
    ASSUME TInv, Tick
    PROVE  /\ worker' \in [Workers -> WorkerState]
           /\ \A w \in Workers : /\ worker'[w].pc = worker[w].pc
                                 /\ worker'[w].batch = worker[w].batch
                                 /\ worker'[w].seen = worker[w].seen
                                 /\ worker'[w].cur = worker[w].cur
                                 /\ worker'[w].max_attempts = worker[w].max_attempts
<1>1. ASSUME NEW s \in WorkerState
      PROVE  LET t == [s EXCEPT !.cooldown = CountDown(s.cooldown)]
             IN  /\ t \in WorkerState
                 /\ t.pc = s.pc /\ t.batch = s.batch /\ t.seen = s.seen
                 /\ t.cur = s.cur /\ t.max_attempts = s.max_attempts
    <2>1. CountDown(s.cooldown) \in 0..CircuitCooldown
        BY ConfigAssumption DEF CountDown, WorkerState
    <2> QED BY <2>1 DEF WorkerState
<1>2. \A w \in Workers : /\ worker[w] \in WorkerState
                         /\ worker'[w] = [worker[w] EXCEPT !.cooldown =
                                            CountDown(worker[w].cooldown)]
    BY DEF TInv, TypeOK, Tick
<1>3. worker' = [w \in Workers |-> worker'[w]]
    BY DEF Tick
<1> QED BY <1>1, <1>2, <1>3

\* A tick keeps every timer in its range.
LEMMA TypeTick ==
    ASSUME TInv, Tick
    PROVE  TInv'
<1>1. delivery' \in [Deliveries -> DeliveryRow]
    BY DeliveryRowTypes DEF TInv, TypeOK, Tick
<1>2. endpoint' \in [Endpoints -> EndpointRow]
    BY EndpointRowTypes DEF TInv, TypeOK, Tick
<1>3. \A w \in Workers : Local(worker'[w])
    BY TickWorkers DEF TInv, Local
<1> QED BY <1>1, <1>2, <1>3, TickWorkers DEF TInv, TypeOK, Tick

\* TInv is inductive.
LEMMA TypeStep == TInv /\ [Next]_vars => TInv'
<1> SUFFICES ASSUME TInv, [Next]_vars PROVE TInv'
    OBVIOUS
<1>1. CASE Next
    BY <1>1, TypeWorkerStep, TypeFaults, TypeClient, TypeTick DEF Next
<1>2. CASE UNCHANGED vars
    BY <1>2 DEF vars, TInv, TypeOK
<1> QED BY <1>1, <1>2

\* TInv holds throughout.
LEMMA Typed == Spec => []TInv
    BY TypeInit, TypeStep, PTL DEF Spec

\* Every row and every worker keeps to its type: the values the code writes pass

\* the check constraints, attempt_count is never negative, and a worker in
\* processDelivery always has a claimed delivery in hand.
THEOREM TypeCorrect == Spec => []TypeOK
<1>1. TInv => TypeOK
    BY DEF TInv
<1> QED BY <1>1, Typed, PTL

----------------------------------------------------------------------------
(* The circuit breaker *)

\* BreakerConsistent of one row.
Consistent(p) ==
    /\ p.circuit = "closed" <=> p.failures < CircuitThreshold
    /\ p.circuit = "closed" <=> p.cooldown = Null
    /\ p.circuit = "half_open" => p.cooldown = 0

\* Each statement on a consistent row leaves a consistent row, whatever the

\* worker that sends it believes the row to be.
LEMMA ConsistentRows ==
    ASSUME NEW p \in EndpointRow, Consistent(p)
    PROVE  /\ Consistent(SuccessRow(p))
           /\ Consistent(FailureRow(p))
           /\ Consistent(HalfOpenRow(p))
           /\ Consistent(AgeEndpoint(p))
<1>1. Consistent(SuccessRow(p))
    BY ConfigAssumption DEF Consistent, SuccessRow, EndpointRow, Null
<1>2. Consistent(FailureRow(p))
    BY ConfigAssumption DEF Consistent, FailureRow, TripsCircuit, EndpointRow, Null
<1>3. Consistent(HalfOpenRow(p))
    BY ConfigAssumption DEF Consistent, HalfOpenRow, CanHalfOpen, EndpointRow, Null
<1>4. Consistent(AgeEndpoint(p))
    BY ConfigAssumption DEF Consistent, AgeEndpoint, CountDown, EndpointRow, Null
<1> QED BY <1>1, <1>2, <1>3, <1>4

\* UpdateEndpoint leaves the breaker's columns alone.
LEMMA ConsistentConfigure ==
    ASSUME NEW p \in EndpointRow, Consistent(p), NEW active \in BOOLEAN,
           NEW max \in 1..MaxAttemptsLimit
    PROVE  Consistent(ConfigureRow(p, active, max))
    BY DEF Consistent, ConfigureRow, EndpointRow

BInv == TInv /\ BreakerConsistent

\* BInv is inductive, each statement being atomic.
LEMMA BreakerStep == BInv /\ [Next]_vars => BInv'
<1> SUFFICES ASSUME BInv, [Next]_vars PROVE BreakerConsistent'
    BY TypeStep DEF BInv
<1>0. /\ TInv
      /\ endpoint \in [Endpoints -> EndpointRow]
      /\ \A p \in Endpoints : Consistent(endpoint[p])
    BY DEF BInv, TInv, TypeOK, BreakerConsistent, Consistent
<1>1. ASSUME NEW w \in Workers, WorkerStep(w) \/ StatementFails(w) \/ Crash(w)
      PROVE  \A p \in Endpoints : Consistent(endpoint'[p])
    <2>1. CASE MoveEndpointCircuitToHalfOpen(w)
        BY <1>0, <2>1, ConsistentRows DEF MoveEndpointCircuitToHalfOpen
    <2>2. CASE MarkEndpointDeliverySuccess(w)
        BY <1>0, <2>2, ConsistentRows DEF MarkEndpointDeliverySuccess
    <2>3. CASE MarkEndpointDeliveryFailure(w)
        BY <1>0, <2>3, ConsistentRows DEF MarkEndpointDeliveryFailure
    <2>4. CASE UNCHANGED endpoint
        BY <1>0, <2>4
    <2> QED BY <1>1, <2>1, <2>2, <2>3, <2>4
            DEF WorkerStep, ResetStaleDelivering, ClaimPendingDeliveries, Claim, Load, Send,
                UpdateDeliveryAttempt, RescheduleDelivery, StatementFails, Crash
<1>2. CASE Client
    <2>1. ASSUME NEW p \in Endpoints, UpdateEndpoint(p)
          PROVE  \A q \in Endpoints : Consistent(endpoint'[q])
        BY <1>0, <2>1, ConsistentConfigure DEF UpdateEndpoint
    <2>2. UNCHANGED endpoint => \A q \in Endpoints : Consistent(endpoint'[q])
        BY <1>0
    <2>3. \A p \in Endpoints : Consistent(endpoint'[p])
        BY <1>2, <2>1, <2>2 DEF Client, CreateDelivery, CreateDeliveriesForEvent
    <2> QED BY <2>3 DEF BreakerConsistent, Consistent
<1>3. CASE Tick
    <2>1. \A p \in Endpoints : Consistent(endpoint'[p])
        BY <1>0, <1>3, ConsistentRows DEF Tick
    <2> QED BY <2>1 DEF BreakerConsistent, Consistent
<1>4. CASE UNCHANGED vars
    BY <1>4 DEF vars, BInv, BreakerConsistent
<1>5. CASE \E w \in Workers : WorkerStep(w) \/ StatementFails(w) \/ Crash(w)
    BY <1>1, <1>5 DEF BreakerConsistent, Consistent
<1> QED BY <1>2, <1>3, <1>4, <1>5 DEF Next

\* The breaker's columns agree in every reachable state, with any number of

\* workers, overlapping or not, and any faults: each statement is atomic and
\* preserves the agreement without relying on what its worker read before.
THEOREM BreakerSound == Spec => []BreakerConsistent
<1>1. Init => BInv
    <2>1. Init => BreakerConsistent
        BY ConfigAssumption DEF Init, NewEndpointRow, BreakerConsistent, Null
    <2> QED BY <2>1, TypeInit DEF BInv
<1>2. BInv => BreakerConsistent
    BY DEF BInv
<1> QED BY <1>1, <1>2, BreakerStep, PTL DEF Spec

----------------------------------------------------------------------------
(* Claims are exclusive *)

Disjoint == \A v, w \in Workers : v # w => worker[v].batch \cap worker[w].batch = {}

\* What a worker in state s holds is claimed in the table, with the count it
\* remembers, and not stale if workers are timely.
Backed(s, table) ==
    \A d \in s.batch :
      /\ table[d].status = "delivering"
      /\ table[d].attempts = s.seen[d]
      /\ TimelyWorkers => table[d].claim_age < StaleAfter

\* A row that is done waits for nothing, so the clock does not touch it.
AtRest == \A d \in Deliveries : delivery[d].status \in Terminal => delivery[d].due_in = 0

CInv ==
    /\ TInv
    /\ Disjoint
    /\ \A w \in Workers : Backed(worker[w], delivery)
    /\ AtRest

\* What is to be shown of a step.
DoneStable ==
    \A d \in Deliveries : delivery[d].status \in Terminal => delivery'[d] = delivery[d]

ClaimsKept ==
    /\ Disjoint'
    /\ \A w \in Workers : Backed(worker'[w], delivery')
    /\ AtRest'
    /\ DoneStable

\* At the start nothing is claimed and no row is done.
LEMMA ClaimInit == Init => CInv
<1> SUFFICES ASSUME Init PROVE CInv
    OBVIOUS
<1>1. \A w \in Workers : worker[w].batch = {}
    BY IdleFacts DEF Init
<1>2. AtRest
    BY DEF Init, NoRow, AtRest, Terminal
<1> QED BY <1>1, <1>2, TypeInit DEF CInv, Disjoint, Backed

\* A step of w that gives up some claims and writes no row still held.
LEMMA Release ==
    ASSUME CInv, NEW w \in Workers, NEW t \in After(w),
           worker' = [worker EXCEPT ![w] = t],
           \A v \in Workers : \A d \in worker'[v].batch : delivery'[d] = delivery[d]
    PROVE  /\ Disjoint'
           /\ \A v \in Workers : Backed(worker'[v], delivery')
<1>1. worker \in [Workers -> WorkerState] /\ Keeps(worker[w], t)
    BY DEF CInv, TInv, TypeOK, After
<1>2. worker'[w] = t /\ \A v \in Workers : v # w => worker'[v] = worker[v]
    BY <1>1
<1>3. \A v \in Workers : Keeps(worker[v], worker'[v])
    BY <1>1, <1>2 DEF Keeps
<1>4. Disjoint'
    BY <1>3 DEF CInv, Disjoint, Keeps
<1>5. \A v \in Workers : Backed(worker'[v], delivery')
    BY <1>3 DEF CInv, Backed, Keeps
<1> QED BY <1>4, <1>5

\* A worker that writes the row it is processing, and lets go of it, writes

\* no row that anyone still holds.
LEMMA WriteOwn ==
    ASSUME CInv, NEW w \in Workers, worker[w].pc \in Processing,
           \E t \in After(w) : /\ worker' = [worker EXCEPT ![w] = t]
                               /\ worker[w].cur \notin t.batch,
           \A d \in Deliveries : d # worker[w].cur => delivery'[d] = delivery[d]
    PROVE  /\ Disjoint'
           /\ \A v \in Workers : Backed(worker'[v], delivery')
<1>1. PICK t \in After(w) : /\ worker' = [worker EXCEPT ![w] = t]
                            /\ worker[w].cur \notin t.batch
    OBVIOUS
<1>2. worker[w].cur \in worker[w].batch
    BY CurFacts DEF CInv
<1>3. /\ worker \in [Workers -> WorkerState]
      /\ \A v \in Workers : worker[v].batch \subseteq Deliveries
    BY DEF CInv, TInv, TypeOK, WorkerState
<1>4. t.batch \subseteq worker[w].batch
    BY DEF After, Keeps
<1>5. ASSUME NEW v \in Workers, NEW d \in worker'[v].batch
      PROVE  delivery'[d] = delivery[d]
    <2>1. CASE v = w
        BY <1>1, <1>3, <1>4, <1>5, <2>1
    <2>2. CASE v # w
        <3>1. d \in worker[v].batch /\ d \notin worker[w].batch
            BY <1>1, <1>3, <1>5, <2>2 DEF CInv, Disjoint
        <3> QED BY <1>2, <1>3, <3>1
    <2> QED BY <2>1, <2>2
<1> QED BY <1>1, <1>5, Release

\* After a statement that ends processDelivery, w no longer holds cur.
LEMMA ReplyDone ==
    ASSUME TInv, NEW w \in Workers, worker[w].pc \in Processing,
           Reply(w, Done(w, worker[w].cur))
    PROVE  \E t \in After(w) : /\ worker' = [worker EXCEPT ![w] = t]
                               /\ worker[w].cur \notin t.batch
<1> DEFINE t == Done(w, worker[w].cur)
<1>1. t \in After(w) /\ worker[w].cur \notin t.batch
    BY CurFacts, DoneFacts
<1>2. AfterError(w) = {t}
    BY DEF AfterError, Processing
<1>3. worker' = [worker EXCEPT ![w] = t]
    BY <1>2, Zenon DEF Reply
<1> QED BY <1>1, <1>3

\* The rows a statement resets are not held: with timely workers no held claim

\* is stale, and a lone worker resets before it claims.
LEMMA ResetUnheld ==
    ASSUME CInv, SafeDeployment, NEW w \in Workers, worker[w].pc = "reset",
           NEW v \in Workers, NEW d \in worker[v].batch
    PROVE  d \notin Stale
<1>1. d \in Deliveries /\ delivery[d] \in DeliveryRow
    BY DEF CInv, TInv, TypeOK, WorkerState
<1>2. CASE TimelyWorkers
    <2>1. delivery[d].claim_age < StaleAfter
        BY <1>2 DEF CInv, Backed
    <2> QED BY <1>1, <2>1, ConfigAssumption DEF Stale, IsStale, DeliveryRow
<1>3. CASE ~TimelyWorkers
    <2>1. v = w
        BY <1>3 DEF SafeDeployment
    <2>2. worker[w].batch = {}
        BY DEF CInv, TInv, Local
    <2> QED BY <2>1, <2>2
<1> QED BY <1>2, <1>3

\* Which rows each worker step writes, and what it makes of the claims.
LEMMA ClaimWorkerStep ==
    ASSUME CInv, SafeDeployment, NEW w \in Workers, WorkerStep(w)
    PROVE  ClaimsKept
<1>0. /\ TInv
      /\ delivery \in [Deliveries -> DeliveryRow]
      /\ worker \in [Workers -> WorkerState]
      /\ \A v \in Workers : worker[v].batch \subseteq Deliveries
    BY DEF CInv, TInv, TypeOK, WorkerState
<1>1. CASE ResetStaleDelivering(w)
    <2>1. Goto(w, "claim") \in After(w)
        BY <1>0, <1>1, GotoFacts DEF ResetStaleDelivering, PCs
    <2>2. PICK t \in After(w) : worker' = [worker EXCEPT ![w] = t]
        BY <1>0, <1>1, <2>1, ReplyFacts DEF ResetStaleDelivering
    <2>3. \A d \in Deliveries :
            delivery'[d] = IF d \in Stale THEN ResetRow(delivery[d]) ELSE delivery[d]
        BY <1>1 DEF ResetStaleDelivering
    <2>4. \A v \in Workers : worker'[v].batch \subseteq worker[v].batch
        BY <1>0, <2>2 DEF After, Keeps
    <2>5. \A v \in Workers : \A d \in worker'[v].batch : delivery'[d] = delivery[d]
        BY <1>0, <1>1, <2>3, <2>4, ResetUnheld DEF ResetStaleDelivering
    <2>6. \A d \in Deliveries :
            /\ delivery[d].status \in Terminal => delivery'[d] = delivery[d]
            /\ delivery'[d].status \in Terminal => delivery'[d] = delivery[d]
        BY <1>0, <2>3 DEF Stale, IsStale, ResetRow, Terminal, DeliveryRow
    <2> QED BY <2>2, <2>5, <2>6, Release DEF CInv, AtRest, ClaimsKept, DoneStable
<1>2. CASE ClaimPendingDeliveries(w)
    <2> DEFINE next(s) == Holding(IF s = {} THEN "reset" ELSE "load", s,
                                  [d \in Deliveries |->
                                     IF d \in s THEN delivery[d].attempts ELSE 0])
    <2>1. PICK s \in SUBSET Ready :
             /\ delivery' = [d \in Deliveries |->
                               IF d \in s THEN ClaimRow(delivery[d]) ELSE delivery[d]]
             /\ Reply(w, next(s))
        BY <1>2 DEF ClaimPendingDeliveries, Claim
    <2>2. s \in SUBSET Deliveries /\ \A d \in s : delivery[d].status = "pending"
        BY DEF Ready, IsReady
    <2>3. next(s).batch = s /\ \A d \in s : next(s).seen[d] = delivery[d].attempts
        BY <1>0, <2>2, ClaimState
    <2> HIDE DEF next
    <2>4. PICK t \in After(w) \cup {next(s)} : worker' = [worker EXCEPT ![w] = t]
        BY <1>0, <2>1, ReplyFacts
    <2>5. \A d \in Deliveries :
            delivery'[d] = IF d \in s THEN ClaimRow(delivery[d]) ELSE delivery[d]
        BY <2>1
    <2>6. t.batch = {} \/ t = next(s)
        BY <1>2 DEF CInv, TInv, Local, After, Keeps, ClaimPendingDeliveries, Claim
    <2>7. \A v \in Workers : worker[v].batch \cap s = {}
        BY <2>2 DEF CInv, Backed
    <2>8. worker'[w] = t /\ \A v \in Workers : v # w => worker'[v] = worker[v]
        BY <1>0, <2>4
    <2>9. Disjoint'
        BY <2>3, <2>6, <2>7, <2>8 DEF CInv, Disjoint
    <2>10. ASSUME NEW v \in Workers PROVE Backed(worker'[v], delivery')
        <3>1. CASE v # w
            <4>1. \A d \in worker[v].batch : delivery'[d] = delivery[d]
                BY <1>0, <2>5, <2>7
            <4> QED BY <2>8, <3>1, <4>1 DEF CInv, Backed
        <3>2. CASE v = w /\ t.batch = {}
            BY <2>8, <3>2 DEF Backed
        <3>3. CASE v = w /\ t = next(s)
            <4>1. \A d \in s : /\ delivery'[d].status = "delivering"
                               /\ delivery'[d].attempts = delivery[d].attempts
                               /\ delivery'[d].claim_age < StaleAfter
                BY <1>0, <2>2, <2>5, ClaimRowFields, ConfigAssumption
            <4> QED BY <2>3, <2>8, <3>3, <4>1 DEF Backed
        <3> QED BY <2>6, <3>1, <3>2, <3>3
    <2>11. \A d \in Deliveries :
             /\ delivery[d].status \in Terminal => delivery'[d] = delivery[d]
             /\ delivery'[d].status \in Terminal => delivery'[d] = delivery[d]
        BY <1>0, <2>2, <2>5 DEF ClaimRow, Terminal, DeliveryRow
    <2> QED BY <2>9, <2>10, <2>11 DEF CInv, AtRest, ClaimsKept, DoneStable
<1>3. CASE /\ UNCHANGED delivery
           /\ \E t \in After(w) : worker' = [worker EXCEPT ![w] = t]
    BY <1>3, Release DEF CInv, AtRest, ClaimsKept, DoneStable
<1>4. CASE UpdateDeliveryAttempt(w)
    <2> DEFINE d == worker[w].cur
    <2>1. worker[w].pc \in Processing
        BY <1>4 DEF UpdateDeliveryAttempt, Processing, PCs
    <2>2. d \in Deliveries /\ d \in worker[w].batch /\ delivery[d].status = "delivering"
        BY <1>0, <2>1, CurFacts DEF CInv, Backed
    <2>3. CASE /\ \E due \in BackoffDelays(AttemptsAfter(w)) :
                    delivery' = [delivery EXCEPT ![d] = AttemptRow(@, Outcome(w), due)]
               /\ Reply(w, Done(w, d))
        <3>1. PICK due \in BackoffDelays(AttemptsAfter(w)) :
                delivery' = [delivery EXCEPT ![d] = AttemptRow(@, Outcome(w), due)]
            BY <2>3
        <3>2. \E t \in After(w) : worker' = [worker EXCEPT ![w] = t] /\ d \notin t.batch
            BY <1>0, <2>1, <2>3, ReplyDone
        <3>3. \A x \in Deliveries : x # d => delivery'[x] = delivery[x]
            BY <1>0, <3>1
        <3>4. delivery'[d].status \in Terminal => delivery'[d].due_in = 0
            BY <1>0, <2>2, <3>1 DEF AttemptRow, Terminal
        <3> QED BY <2>1, <2>2, <3>2, <3>3, <3>4, WriteOwn
                DEF CInv, AtRest, Terminal, ClaimsKept, DoneStable
    <2>4. CASE /\ worker' = [worker EXCEPT ![w] = Done(w, d)]
               /\ UNCHANGED <<delivery, faults>>
        <3>1. Done(w, d) \in After(w)
            BY <1>0, <2>2, DoneFacts
        <3> QED BY <1>3, <2>4, <3>1
    <2> QED BY <1>4, <2>3, <2>4 DEF UpdateDeliveryAttempt
<1>5. CASE RescheduleDelivery(w)
    <2> DEFINE d == worker[w].cur
    <2>1. worker[w].pc \in Processing
        BY <1>5 DEF RescheduleDelivery, Processing, PCs
    <2>2. d \in Deliveries /\ d \in worker[w].batch /\ delivery[d].status = "delivering"
        BY <1>0, <2>1, CurFacts DEF CInv, Backed
    <2>3. \E t \in After(w) : worker' = [worker EXCEPT ![w] = t] /\ d \notin t.batch
        BY <1>0, <1>5, <2>1, ReplyDone DEF RescheduleDelivery
    <2>4. \A x \in Deliveries : x # d => delivery'[x] = delivery[x]
        BY <1>0, <1>5 DEF RescheduleDelivery
    <2>5. delivery'[d].status = "pending"
        BY <1>0, <1>5, <2>2 DEF RescheduleDelivery, RescheduleRow, DeliveryRow
    <2> QED BY <2>1, <2>2, <2>3, <2>4, <2>5, WriteOwn
            DEF CInv, AtRest, Terminal, ClaimsKept, DoneStable
<1>6. CASE \/ Load(w) \/ MoveEndpointCircuitToHalfOpen(w) \/ Send(w)
           \/ MarkEndpointDeliverySuccess(w) \/ MarkEndpointDeliveryFailure(w)
    <2>1. \E t \in After(w) : worker' = [worker EXCEPT ![w] = t]
        BY <1>0, <1>6, QuietWorkerStep
    <2>2. UNCHANGED delivery
        BY <1>6 DEF Load, MoveEndpointCircuitToHalfOpen, Send,
                    MarkEndpointDeliverySuccess, MarkEndpointDeliveryFailure
    <2> QED BY <1>3, <2>1, <2>2
<1> QED BY <1>1, <1>2, <1>4, <1>5, <1>6 DEF WorkerStep

\* Faults write nothing and only let go of claims.
LEMMA ClaimFaults ==
    ASSUME CInv, NEW w \in Workers, StatementFails(w) \/ Crash(w)
    PROVE  ClaimsKept
<1>1. \E t \in After(w) : worker' = [worker EXCEPT ![w] = t]
    <2>1. CASE StatementFails(w)
        BY <2>1, AfterErrorFacts DEF StatementFails, CInv
    <2>2. CASE Crash(w)
        BY <2>2, IdleFacts DEF Crash, After, Keeps
    <2> QED BY <2>1, <2>2
<1>2. UNCHANGED delivery
    BY DEF StatementFails, Crash
<1> QED BY <1>1, <1>2, Release DEF CInv, AtRest, ClaimsKept, DoneStable

\* Clients only insert rows, which nobody holds yet.
LEMMA ClaimClient ==
    ASSUME CInv, Client
    PROVE  ClaimsKept
<1> DEFINE Inserted == \A d \in Deliveries :
                         \/ delivery'[d] = delivery[d]
                         \/ delivery[d].status = "none" /\ delivery'[d] = FreshDelivery
<1>0. delivery \in [Deliveries -> DeliveryRow]
    BY DEF CInv, TInv, TypeOK
<1>1. UNCHANGED worker /\ Inserted
    <2>1. ASSUME NEW d \in Deliveries, CreateDelivery(d)
          PROVE  UNCHANGED worker /\ Inserted
        BY <1>0, <2>1 DEF CreateDelivery
    <2>2. ASSUME NEW e \in Events, CreateDeliveriesForEvent(e)
          PROVE  UNCHANGED worker /\ Inserted
        BY <2>2 DEF CreateDeliveriesForEvent
    <2>3. ASSUME NEW p \in Endpoints, UpdateEndpoint(p)
          PROVE  UNCHANGED worker /\ Inserted
        BY <2>3 DEF UpdateEndpoint
    <2> QED BY <2>1, <2>2, <2>3 DEF Client
<1>2. FreshDelivery.status = "pending"
    BY DEF FreshDelivery, NoRow
<1>3. \A v \in Workers : worker[v].batch \subseteq Deliveries
    BY DEF CInv, TInv, TypeOK, WorkerState
<1>4. \A v \in Workers : Backed(worker'[v], delivery')
    BY <1>1, <1>3 DEF CInv, Backed
<1> QED BY <1>1, <1>2, <1>4 DEF CInv, Disjoint, AtRest, Terminal, ClaimsKept, DoneStable

\* The clock moves no claim: with timely workers it stops short of StaleAfter.
LEMMA ClaimTick ==
    ASSUME CInv, Tick
    PROVE  ClaimsKept
<1>0. /\ TInv
      /\ \A d \in Deliveries : /\ delivery[d] \in DeliveryRow
                               /\ delivery'[d] = AgeDelivery(delivery[d])
      /\ \A v \in Workers : worker[v].batch \subseteq Deliveries
    BY DEF CInv, TInv, TypeOK, WorkerState, Tick
<1>1. Disjoint'
    BY <1>0, TickWorkers DEF CInv, Disjoint
<1>2. ASSUME NEW v \in Workers PROVE Backed(worker'[v], delivery')
    <2>1. SUFFICES ASSUME NEW d \in worker[v].batch
                   PROVE  /\ delivery'[d].status = "delivering"
                          /\ delivery'[d].attempts = worker[v].seen[d]
                          /\ TimelyWorkers => delivery'[d].claim_age < StaleAfter
        BY <1>0, TickWorkers DEF Backed
    <2>2. /\ delivery[d].status = "delivering"
          /\ delivery[d].attempts = worker[v].seen[d]
          /\ TimelyWorkers => delivery[d].claim_age + 1 < StaleAfter
        BY <1>0, ConfigAssumption
           DEF CInv, Backed, Tick, HeldToTheLimit, DeliveryRow
    <2>3. d \in Deliveries /\ delivery[d].claim_age \in 0..StaleAfter
        BY <1>0 DEF DeliveryRow
    <2> QED BY <1>0, <2>2, <2>3, AgeFields, ConfigAssumption
<1>3. \A d \in Deliveries :
        delivery[d].status \in Terminal => delivery'[d] = delivery[d]
    BY <1>0, AgeAtRest DEF CInv, AtRest, Terminal, ClaimsKept, DoneStable
<1>4. \A d \in Deliveries : delivery'[d].status = delivery[d].status
    BY <1>0, AgeFields
<1> QED BY <1>1, <1>2, <1>3, <1>4 DEF CInv, AtRest, ClaimsKept, DoneStable

\* In a safe deployment the claims stay exclusive, and a done row stays done.
LEMMA ClaimStep ==
    ASSUME SafeDeployment, CInv, [Next]_vars
    PROVE  CInv' /\ DoneStable
<1>1. ASSUME NEW w \in Workers, WorkerStep(w) \/ StatementFails(w) \/ Crash(w)
      PROVE  ClaimsKept
    BY <1>1, ClaimWorkerStep, ClaimFaults
<1>2. ASSUME UNCHANGED vars PROVE ClaimsKept
    <2>1. delivery' = delivery /\ worker' = worker
        BY <1>2 DEF vars
    <2>2. Disjoint' /\ AtRest' /\ DoneStable
        BY <2>1 DEF CInv, Disjoint, AtRest, DoneStable
    <2> QED BY <2>1, <2>2 DEF CInv, ClaimsKept
<1>3. ClaimsKept
    <2>1. CASE Client
        BY <2>1, ClaimClient
    <2>2. CASE Tick
        BY <2>2, ClaimTick
    <2> QED BY <1>1, <1>2, <2>1, <2>2 DEF Next
<1>4. TInv'
    BY TypeStep DEF CInv
<1> QED BY <1>3, <1>4 DEF CInv, ClaimsKept

\* In a safe deployment no two workers ever hold the same delivery, and the row
\* of a held delivery is the one its worker claimed: nobody resets, re-claims or
\* overwrites it in between.  The statements themselves do not ensure this (their
\* WHERE clauses name only the id); it rests on claims not outliving StaleAfter,
\* or on the lone worker resetting only when its batch is empty.
THEOREM ClaimsExclusive ==
    ASSUME SafeDeployment
    PROVE  Spec => []ClaimExclusive
<1>1. CInv /\ [Next]_vars => CInv'
    BY ClaimStep
<1>2. CInv => ClaimExclusive
    BY DEF CInv, Disjoint, Backed, ClaimExclusive
<1> QED BY <1>1, <1>2, ClaimInit, PTL DEF Spec

\* In a safe deployment a delivered or dead-lettered row is never written again.
THEOREM TerminalRowsStable ==
    ASSUME SafeDeployment
    PROVE  Spec => TerminalStable
<1>1. CInv /\ [Next]_vars => CInv'
    BY ClaimStep
<1>2. CInv /\ [Next]_vars => [DoneStable]_vars
    BY ClaimStep
<1>3. Spec => [][DoneStable]_vars
    BY <1>1, <1>2, ClaimInit, PTL DEF Spec
<1> QED BY <1>3 DEF TerminalStable, DoneStable
=============================================================================
