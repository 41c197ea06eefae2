----------------------------- MODULE EventIngest -----------------------------
(***************************************************************************)
(* Concurrent calls of EventService.CreateEvent, which stores an event and *)
(* its deliveries in one serializable transaction, and answers a repeated  *)
(* idempotency key with the event it has, while clients create, change and *)
(* delete endpoints.                                                       *)
(*                                                                         *)
(* PostgreSQL is modelled as the code uses it: a transaction reads the     *)
(* endpoints as they were when its first statement began; an INSERT with a *)
(* key that another transaction has inserted waits until that one ends and *)
(* then fails with a unique violation, or goes on; a delivery keeps its    *)
(* endpoint from being deleted; a rolled back transaction leaves nothing.  *)
(***************************************************************************)
EXTENDS Integers, FiniteSets

CONSTANTS
    Keys,        \* idempotency keys
    Topics,      \* topics of events
    Endpoints,   \* ids of endpoints
    Calls,       \* calls of CreateEvent that may run at the same time
    None,        \* no such row
    MaxFaults    \* bound: failed statements and commits, lost replies, crashes

ASSUME IngestAssumption == MaxFaults \in Nat

VARIABLES
    endpoint,    \* table endpoints: the topics, active or not, or None
    event,       \* events and their deliveries, committed, by key, or None
    call,        \* the calls
    told,        \* ghost: how often a key was answered "created", up to twice
    faults       \* faults so far

vars == <<endpoint, event, call, told, faults>>

EndpointRow == [active: BOOLEAN, topics: (SUBSET Topics) \ {{}}]

EventRow == [topic: Topics, to: SUBSET Endpoints]

\* The statement a call executes next.  In these a transaction has inserted the
\* event, so that its key is taken.
HoldsKey == {"fan_out", "commit"}
InCall == {"begin", "insert", "lookup"} \cup HoldsKey

Replies == {"none", "created", "already_exists", "internal", "lookup_failed"}

\* matching: the subscribers as the transaction sees them; gone: one of them has
\* been deleted since; to: its deliveries.
\* Ghosts: always (ever), the endpoints subscribed all (some of) the time so far.
CallState ==
    [pc: InCall \cup {"done"}, key: Keys, topic: Topics, reply: Replies,
     matching: SUBSET Endpoints, gone: BOOLEAN, to: SUBSET Endpoints,
     always: SUBSET Endpoints, ever: SUBSET Endpoints]

ASSUME NoneAssumption ==
    None \notin EndpointRow /\ None \notin EventRow /\ None \notin CallState

TypeOK ==
    /\ endpoint \in [Endpoints -> EndpointRow \cup {None}]
    /\ event \in [Keys -> EventRow \cup {None}]
    /\ call \in [Calls -> CallState \cup {None}]
    /\ told \in [Keys -> 0..2]
    /\ faults \in 0..MaxFaults

Init ==
    /\ endpoint = [p \in Endpoints |-> None]
    /\ event = [k \in Keys |-> None]
    /\ call = [c \in Calls |-> None]
    /\ told = [k \in Keys |-> 0]
    /\ faults = 0

\* Variant, never used: an endpoint may be left without topics.
ValidTopicsUnchecked == SUBSET Topics

\* chk_endpoint_topics_not_empty, and the services' own check.
ValidTopics == (SUBSET Topics) \ {{}}

Running(c) == call[c] # None /\ call[c].pc \in InCall

At(c, pc) == call[c] # None /\ call[c].pc = pc

\* Variant, never used: inactive endpoints are subscribers too.
SubscribersInactiveToo(table, topic) ==
    {p \in Endpoints : table[p] # None /\ topic \in table[p].topics}

\* active = TRUE AND topics && ARRAY[topic]
Subscribers(table, topic) ==
    {p \in Endpoints : /\ table[p] # None
                       /\ table[p].active
                       /\ topic \in table[p].topics}

\* The same, as the properties have it: who is to get an event of this topic.
IsFor(topic, row) == row # None /\ row.active /\ topic \in row.topics

----------------------------------------------------------------------------
(* CreateEvent *)

\* A client calls, for the first time or again after any answer or none.
Start(c, k, topic) ==
    /\ ~Running(c)
    /\ LET now == {p \in Endpoints : IsFor(topic, endpoint[p])} IN
       call' = [call EXCEPT ![c] =
          [pc |-> "begin", key |-> k, topic |-> topic, reply |-> "none",
           matching |-> {}, gone |-> FALSE, to |-> {}, always |-> now, ever |-> now]]
    /\ UNCHANGED <<endpoint, event, told, faults>>

\* A payload that is no JSON: the INSERT fails on its parameters, before it takes the
\* key, and is rolled back.  Nothing of such a call can be seen but its answer.
StartRefused(c, k, topic) ==
    /\ ~Running(c)
    /\ call' = [call EXCEPT ![c] =
          [pc |-> "done", key |-> k, topic |-> topic, reply |-> "internal",
           matching |-> {}, gone |-> FALSE, to |-> {}, always |-> {}, ever |-> {}]]
    /\ UNCHANGED <<endpoint, event, told, faults>>

\* The call is over; what is forgotten here is not looked at any more.
Answered(c, reply) ==
    [call[c] EXCEPT !.pc = "done", !.reply = reply, !.matching = {},
                    !.gone = FALSE, !.always = {}, !.ever = {},
                    !.to = IF reply = "created" THEN @ ELSE {}]

Answer(c, reply) == call' = [call EXCEPT ![c] = Answered(c, reply)]

\* BeginTx, and the moment the INSERT begins, which is the one the transaction
\* sees the endpoints at.
Begin(c) ==
    /\ At(c, "begin")
    /\ call' = [call EXCEPT ![c] = [@ EXCEPT
          !.pc = "insert", !.matching = Subscribers(endpoint, call[c].topic)]]
    /\ UNCHANGED <<endpoint, event, told, faults>>

\* Variant, never used: there is no unique constraint to wait for.
KeyIsTakenNever(c) == FALSE

\* Variant, never used: a transaction that failed is not rolled back.
KeyIsTakenAfterFailure(c) ==
    \E b \in Calls \ {c} : /\ call[b] # None
                           /\ call[b].pc \in HoldsKey \/ call[b].reply = "internal"
                           /\ call[b].key = call[c].key

KeyIsTaken(c) ==
    \E b \in Calls \ {c} : /\ Running(b)
                           /\ call[b].pc \in HoldsKey
                           /\ call[b].key = call[c].key

\* The INSERT ends, when no other transaction holds the key: with the row, or
\* with a unique violation and a rollback.
InsertEvent(c) ==
    /\ At(c, "insert")
    /\ ~KeyIsTaken(c)
    /\ call' = [call EXCEPT ![c].pc =
                  IF event[call[c].key] = None THEN "fan_out" ELSE "lookup"]
    /\ UNCHANGED <<endpoint, event, told, faults>>

\* CreateDeliveriesForEvent.  An endpoint that has been deleted since fails the
\* foreign key, and with it the transaction.
FanOut(c) ==
    /\ At(c, "fan_out")
    /\ IF call[c].gone
       THEN Answer(c, "internal")
       ELSE call' = [call EXCEPT ![c] = [@ EXCEPT
               !.pc = "commit", !.to = call[c].matching, !.matching = {}]]
    /\ UNCHANGED <<endpoint, event, told, faults>>

\* The transaction commits; the answer is "created", unless the reply to the
\* COMMIT is lost.
Commit(c) ==
    LET k == call[c].key IN
    /\ At(c, "commit")
    /\ event' = [event EXCEPT ![k] = [topic |-> call[c].topic, to |-> call[c].to]]
    /\ \/ /\ Answer(c, "created")
          /\ told' = [told EXCEPT ![k] = IF @ < 2 THEN @ + 1 ELSE @]
          /\ UNCHANGED faults
       \/ /\ faults < MaxFaults
          /\ faults' = faults + 1
          /\ Answer(c, "internal")
          /\ UNCHANGED told
    /\ UNCHANGED endpoint

\* GetEventByIdempotencyKey, outside of the transaction.
Lookup(c) ==
    /\ At(c, "lookup")
    /\ Answer(c, IF event[call[c].key] = None THEN "lookup_failed" ELSE "already_exists")
    /\ UNCHANGED <<endpoint, event, told, faults>>

\* Variant, never used: the error of the transaction is dropped.
FailureReplyDropped(c) == "created"

FailureReply(c) == IF call[c].pc = "lookup" THEN "lookup_failed" ELSE "internal"

\* A statement or the COMMIT fails without effect: a lost connection, a cancelled
\* call, or a serialization failure, which WithTx does not retry.
Fails(c) ==
    /\ Running(c)
    /\ faults < MaxFaults
    /\ faults' = faults + 1
    /\ Answer(c, FailureReply(c))
    /\ UNCHANGED <<endpoint, event, told>>

\* The process dies with all its calls, and their transactions are rolled back.
Crash ==
    /\ \E c \in Calls : Running(c)
    /\ faults < MaxFaults
    /\ faults' = faults + 1
    /\ call' = [c \in Calls |-> IF Running(c) THEN None ELSE call[c]]
    /\ UNCHANGED <<endpoint, event, told>>

CallStep(c) == Begin(c) \/ InsertEvent(c) \/ FanOut(c) \/ Commit(c) \/ Lookup(c)

----------------------------------------------------------------------------
(* Endpoint administration, as far as it concerns the fan-out *)

\* The table becomes row at p; what the calls know of it follows.  An id may come
\* back after a deletion: it stands for endpoints created one after the other.
SetEndpoint(p, row) ==
    /\ endpoint' = [endpoint EXCEPT ![p] = row]
    /\ call' = [c \in Calls |->
          IF Running(c)
          THEN LET now == {q \in Endpoints : IsFor(call[c].topic, endpoint'[q])} IN
               [call[c] EXCEPT !.gone = @ \/ (row = None /\ p \in call[c].matching),
                               !.always = @ \cap now, !.ever = @ \cup now]
          ELSE call[c]]
    /\ UNCHANGED <<event, told, faults>>

CreateEndpoint(p) ==
    /\ endpoint[p] = None
    /\ \E topics \in ValidTopics : SetEndpoint(p, [active |-> TRUE, topics |-> topics])

UpdateEndpoint(p) ==
    /\ endpoint[p] # None
    /\ \E active \in BOOLEAN, topics \in ValidTopics :
         SetEndpoint(p, [active |-> active, topics |-> topics])

\* Variant, never used: the constraint is not checked against transactions.
ReferencedByCommitted(p) == \E k \in Keys : event[k] # None /\ p \in event[k].to

\* The foreign key of table deliveries: committed rows, or those of a transaction
\* that has not ended (the DELETE waits for it).
Referenced(p) ==
    \/ \E k \in Keys : event[k] # None /\ p \in event[k].to
    \/ \E c \in Calls : At(c, "commit") /\ p \in call[c].to

DeleteEndpoint(p) ==
    /\ endpoint[p] # None
    /\ ~Referenced(p)
    /\ SetEndpoint(p, None)

Administration ==
    \E p \in Endpoints : CreateEndpoint(p) \/ UpdateEndpoint(p) \/ DeleteEndpoint(p)

----------------------------------------------------------------------------

Next ==
    \/ \E c \in Calls, k \in Keys, topic \in Topics :
         Start(c, k, topic) \/ StartRefused(c, k, topic)
    \/ \E c \in Calls : CallStep(c) \/ Fails(c)
    \/ Crash
    \/ Administration

Spec == Init /\ [][Next]_vars

\* A call goes on.  An INSERT that waits for a key gets it some time if it gets
\* the chance again and again: waiters are woken when the holder ends.
Fairness ==
    \A c \in Calls : WF_vars(CallStep(c)) /\ SF_vars(InsertEvent(c))

FairSpec == Spec /\ Fairness

----------------------------------------------------------------------------

\* An event's deliveries are those of the subscribers of one moment of its call:
\* nobody who was subscribed from its beginning to its end is left out, and
\* nobody who was not subscribed at any time of it is served, although the
\* endpoints are read at one time, inserted at another and committed at a third.
FanOutOfOneMoment ==
    [][\A k \in Keys : event[k] = None /\ event'[k] # None =>
         \E c \in Calls : /\ At(c, "commit")
                          /\ call[c].key = k
                          /\ call[c].always \subseteq event'[k].to
                          /\ event'[k].to \subseteq call[c].ever]_vars

\* Calls with the same key, at once or in sequence, after failures and lost
\* replies, store one event, once: it and its deliveries never change.
StoredOnce ==
    [][\A k \in Keys : event[k] # None => event'[k] = event[k]]_vars

\* What a caller is told is so.  At most one call per key is told that it created
\* the event, and what it was told is what is stored; a call that met a unique
\* violation finds the event that caused it, unless something failed.
RepliesAreTrue ==
    /\ \A k \in Keys : told[k] <= 1
    /\ \A c \in Calls : call[c] # None =>
         LET row == event[call[c].key] IN
         CASE call[c].reply = "created" ->
                row = [topic |-> call[c].topic, to |-> call[c].to]
           [] call[c].reply = "already_exists" -> row # None
           [] call[c].reply = "lookup_failed" -> faults > 0
           [] OTHER -> TRUE

\* No delivery is for an endpoint that does not exist: the worker, which gives up
\* a delivery it cannot load an endpoint for, never meets one.
NoneDangling ==
    \A k \in Keys : event[k] # None => \A p \in event[k].to : endpoint[p] # None
==============================================================================
