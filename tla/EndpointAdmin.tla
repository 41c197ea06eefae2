---------------------------- MODULE EndpointAdmin ----------------------------
(***************************************************************************)
(* Concurrent calls of EndpointService.CreateEndpoint, GetEndpoint,        *)
(* UpdateEndpoint and DeleteEndpoint on table endpoints.                   *)
(*                                                                         *)
(* Each call is one SQL statement, except UpdateEndpoint, which reads the  *)
(* row with one statement and writes all its columns back with another,    *)
(* outside a transaction: what other calls wrote in between is written     *)
(* over.  The ghost `missed` remembers which columns that concerns.        *)
(*                                                                         *)
(* A row holds the configuration columns.  Those of the circuit breaker    *)
(* are in DeliveryWorker: no statement of this module writes them.         *)
(***************************************************************************)
EXTENDS Integers, FiniteSets

CONSTANTS
    Ids,          \* endpoint ids
    Calls,        \* calls that may run at the same time
    None,         \* NULL; no row; nothing kept
    Deleted,      \* a row that was there
    Sent,         \* for each column, the values a request may carry
    UsableUrls,   \* the URLs validateEndpointURL accepts
    MaxNamed,     \* bound: columns one UpdateEndpoint request names
    MaxFaults     \* bound: failed statements and lost replies

Fields == {"name", "url", "topics", "secret", "active", "max_attempts", "timeout_ms"}

ASSUME AdminAssumption ==
    /\ DOMAIN Sent = Fields
    /\ Sent.active \subseteq BOOLEAN
    /\ Sent.max_attempts \subseteq Int
    /\ Sent.timeout_ms \subseteq Int
    /\ None # Deleted
    /\ MaxNamed \in Nat
    /\ MaxFaults \in Nat

VARIABLES
    endpoint,     \* table endpoints, by id: a row, None or Deleted
    referenced,   \* ids some delivery refers to
    call,         \* the calls
    faults        \* faults so far

vars == <<endpoint, referenced, call, faults>>

----------------------------------------------------------------------------
(* Requests, and what the service and the schema accept *)

\* CreateEndpoint carries a value for every column, the zero value when the
\* client set none; only the secret may be absent.
CreateRequests ==
    [name: Sent.name, url: Sent.url, topics: Sent.topics,
     secret: Sent.secret \cup {None}, active: Sent.active,
     max_attempts: Sent.max_attempts, timeout_ms: Sent.timeout_ms]

\* UpdateEndpoint names some columns, by wrapper types: an absent one is not an
\* empty one.  An empty list of topics, though, cannot be told from none.
UpdateRequests ==
    {req \in UNION {{[f \in named |-> r[f]] : r \in CreateRequests} :
                      named \in {s \in SUBSET Fields : Cardinality(s) <= MaxNamed}} :
       /\ "topics" \in DOMAIN req => req["topics"] # {}
       /\ "secret" \in DOMAIN req => req["secret"] # None}

\* What a value has to be for the service to pass it on.
Passes(f, v) ==
    CASE f \in {"name", "secret"}             -> v # ""
      [] f = "url"                            -> v \in UsableUrls
      [] f = "topics"                         -> v # {}
      [] f = "active"                         -> TRUE
      [] f \in {"max_attempts", "timeout_ms"} -> v > 0

\* What the schema allows, and the defaults of CreateEndpoint.
AttemptsRange == 1..20
TimeoutRange == 100..30000
DefaultAttempts == 10
DefaultTimeout == 5000

\* Variant, never used: the schema has no upper limits.
StorableAbove(f, v) ==
    /\ f = "max_attempts" => v >= 1
    /\ f = "timeout_ms" => v >= 100

\* chk_max_attempts and chk_timeout.
Storable(f, v) ==
    /\ f = "max_attempts" => v \in AttemptsRange
    /\ f = "timeout_ms" => v \in TimeoutRange

\* A new endpoint is active, and has defaults for what is not positive.
CreatedRow(req) ==
    [req EXCEPT !.active = TRUE,
                !.max_attempts = IF @ > 0 THEN @ ELSE DefaultAttempts,
                !.timeout_ms = IF @ > 0 THEN @ ELSE DefaultTimeout]

\* A row: what the service let pass and the schema took, or a default.
EndpointRow ==
    [name: Sent.name \ {""}, url: Sent.url \cap UsableUrls, topics: Sent.topics \ {{}},
     secret: Sent.secret \cup {None}, active: BOOLEAN,
     max_attempts: (Sent.max_attempts \cup {DefaultAttempts}) \cap AttemptsRange,
     timeout_ms: (Sent.timeout_ms \cup {DefaultTimeout}) \cap TimeoutRange]

ASSUME RowAssumption ==
    /\ None \notin EndpointRow /\ Deleted \notin EndpointRow
    /\ None \notin UpdateRequests /\ None \notin Ids

Exists(p) == endpoint[p] \notin {None, Deleted}

NameTaken(name, by) == \E q \in Ids \ {by} : Exists(q) /\ endpoint[q].name = name

----------------------------------------------------------------------------
(* Calls *)

Replies == {"none", "ok", "invalid_argument", "not_found", "already_exists", "internal"}

\* Between its two statements ("write") an UpdateEndpoint holds the request and
\* the row it read; missed: the columns that others have changed since.
CallState ==
    [pc: {"idle", "read", "write"}, reply: Replies, id: Ids \cup {None},
     req: UpdateRequests \cup {None}, row: EndpointRow \cup {None},
     missed: SUBSET Fields]

\* Before the first call, and after each: only the reply is kept.
Idle(reply) ==
    [pc |-> "idle", reply |-> reply, id |-> None,
     req |-> None, row |-> None, missed |-> {}]

TypeOK ==
    /\ endpoint \in [Ids -> EndpointRow \cup {None, Deleted}]
    /\ referenced \in SUBSET Ids
    /\ call \in [Calls -> CallState]
    /\ faults \in 0..MaxFaults

Init ==
    /\ endpoint = [p \in Ids |-> None]
    /\ referenced = {}
    /\ call = [c \in Calls |-> Idle("none")]
    /\ faults = 0

Answer(c, reply) == call' = [call EXCEPT ![c] = Idle(reply)]

\* The statement of a call, the first or the second of an UpdateEndpoint, fails
\* without effect.
StatementFails(c) ==
    /\ faults < MaxFaults
    /\ faults' = faults + 1
    /\ Answer(c, "internal")
    /\ UNCHANGED <<endpoint, referenced>>

\* A statement took effect: its reply arrives, or is lost and taken for an error.
Reply(c) ==
    \/ /\ Answer(c, "ok")
       /\ UNCHANGED faults
    \/ /\ faults < MaxFaults
       /\ faults' = faults + 1
       /\ Answer(c, "internal")

----------------------------------------------------------------------------
(* CreateEndpoint, GetEndpoint, DeleteEndpoint *)

Acceptable(req) == \A f \in {"name", "url", "topics"} : Passes(f, req[f])

\* Whatever the schema refuses is an internal error here.
CreateEndpoint(c, req) ==
    LET row == CreatedRow(req) IN
    /\ call[c].pc = "idle"
    /\ UNCHANGED referenced
    /\ \/ /\ ~Acceptable(req)
          /\ Answer(c, "invalid_argument")
          /\ UNCHANGED <<endpoint, faults>>
       \/ /\ Acceptable(req)
          /\ \/ ~\A f \in Fields : Storable(f, row[f])
             \/ NameTaken(row.name, None)
          /\ Answer(c, "internal")
          /\ UNCHANGED <<endpoint, faults>>
       \/ /\ Acceptable(req)
          /\ \A f \in Fields : Storable(f, row[f])
          /\ ~NameTaken(row.name, None)
          /\ \E p \in Ids : /\ endpoint[p] = None
                            /\ endpoint' = [endpoint EXCEPT ![p] = row]
                            /\ Reply(c)

\* By id.
GetEndpointByID(c, p) ==
    /\ call[c].pc = "idle"
    /\ Answer(c, IF Exists(p) THEN "ok" ELSE "not_found")
    /\ UNCHANGED <<endpoint, referenced, faults>>

\* By name, with the id of the row that is found.
GetEndpointByName(c, name) ==
    /\ call[c].pc = "idle"
    /\ \/ /\ ~Passes("name", name)
          /\ Answer(c, "invalid_argument")
       \/ \E p \in Ids : /\ Exists(p)
                         /\ endpoint[p].name = name
                         /\ Answer(c, "ok")
       \/ /\ Passes("name", name)
          /\ ~NameTaken(name, None)
          /\ Answer(c, "not_found")
    /\ UNCHANGED <<endpoint, referenced, faults>>

\* No row is deleted, and no error given, when there is none; a delivery that
\* refers to it keeps an endpoint (the foreign key).
DeleteEndpoint(c, p) ==
    /\ call[c].pc = "idle"
    /\ UNCHANGED referenced
    /\ \/ /\ p \in referenced
          /\ Answer(c, "internal")
          /\ UNCHANGED <<endpoint, faults>>
       \/ /\ p \notin referenced
          /\ endpoint' = IF Exists(p) THEN [endpoint EXCEPT ![p] = Deleted] ELSE endpoint
          /\ Reply(c)

\* A call whose id is not a UUID, or that identifies no endpoint.
Malformed(c) ==
    /\ call[c].pc = "idle"
    /\ Answer(c, "invalid_argument")
    /\ UNCHANGED <<endpoint, referenced, faults>>

----------------------------------------------------------------------------
(* UpdateEndpoint *)

StartUpdate(c, p, req) ==
    /\ call[c].pc = "idle"
    /\ call' = [call EXCEPT ![c] =
          [Idle("none") EXCEPT !.pc = "read", !.id = p, !.req = req]]
    /\ UNCHANGED <<endpoint, referenced, faults>>

\* The first statement, and the checks of the request against the row: what is
\* out of the schema's range but positive passes them.
ReadForUpdate(c) ==
    LET p == call[c].id
        req == call[c].req
    IN
    /\ call[c].pc = "read"
    /\ \/ /\ ~Exists(p)
          /\ Answer(c, "not_found")
       \/ /\ Exists(p)
          /\ \E f \in DOMAIN req : ~Passes(f, req[f])
          /\ Answer(c, "invalid_argument")
       \/ /\ Exists(p)
          /\ \A f \in DOMAIN req : Passes(f, req[f])
          /\ call' = [call EXCEPT ![c] = [@ EXCEPT !.pc = "write", !.row = endpoint[p]]]
    /\ UNCHANGED <<endpoint, referenced, faults>>

\* Variant, never used: an absent wrapper is read as its zero value.
MergedOverZero(row, req) ==
    [f \in Fields |-> IF f \in DOMAIN req THEN req[f]
                      ELSE IF f = "active" THEN FALSE ELSE row[f]]

\* The columns the request names; the others as they were read.
Merged(row, req) == [f \in Fields |-> IF f \in DOMAIN req THEN req[f] ELSE row[f]]

\* Variants, never used: the two error codes are confused; a row that is missing
\* is inserted.
RefusalConfused(p, new) ==
    IF ~\A f \in Fields : Storable(f, new[f]) THEN "already_exists"
    ELSE IF NameTaken(new.name, p) THEN "invalid_argument"
    ELSE IF ~Exists(p) THEN "not_found" ELSE "none"
RefusalUpserting(p, new) ==
    IF ~\A f \in Fields : Storable(f, new[f]) THEN "invalid_argument"
    ELSE IF NameTaken(new.name, p) THEN "already_exists" ELSE "none"

\* endpointUpdateError: what the statement's error becomes, or "none".
Refusal(p, new) ==
    IF ~Exists(p) THEN "not_found"
    ELSE IF ~\A f \in Fields : Storable(f, new[f]) THEN "invalid_argument"
    ELSE IF NameTaken(new.name, p) THEN "already_exists" ELSE "none"

\* The other calls that have read this row miss what has changed in it.
Missing(c, p, new) ==
    [b \in Calls |->
       IF b = c \/ call[b].pc # "write" \/ call[b].id # p THEN call[b]
       ELSE [call[b] EXCEPT !.missed = @ \cup {f \in Fields : endpoint[p][f] # new[f]}]]

\* The second statement.
WriteBack(c) ==
    LET p == call[c].id
        new == Merged(call[c].row, call[c].req)
    IN
    /\ call[c].pc = "write"
    /\ UNCHANGED referenced
    /\ \/ /\ Refusal(p, new) # "none"
          /\ Answer(c, Refusal(p, new))
          /\ UNCHANGED <<endpoint, faults>>
       \/ /\ Refusal(p, new) = "none"
          /\ endpoint' = [endpoint EXCEPT ![p] = new]
          /\ \/ /\ call' = [Missing(c, p, new) EXCEPT ![c] = Idle("ok")]
                /\ UNCHANGED faults
             \/ /\ faults < MaxFaults
                /\ faults' = faults + 1
                /\ call' = [Missing(c, p, new) EXCEPT ![c] = Idle("internal")]

----------------------------------------------------------------------------
(* The deliveries that refer to an endpoint *)

\* The fan-out of an event (module EventIngest), or CreateDelivery.
CreateDelivery(p) ==
    /\ Exists(p)
    /\ p \notin referenced
    /\ referenced' = referenced \cup {p}
    /\ UNCHANGED <<endpoint, call, faults>>

Next ==
    \/ \E c \in Calls :
         \/ \E req \in CreateRequests : CreateEndpoint(c, req)
         \/ \E p \in Ids : GetEndpointByID(c, p) \/ DeleteEndpoint(c, p)
         \/ \E name \in Sent.name : GetEndpointByName(c, name)
         \/ \E p \in Ids, req \in UpdateRequests : StartUpdate(c, p, req)
         \/ Malformed(c) \/ ReadForUpdate(c) \/ WriteBack(c) \/ StatementFails(c)
    \/ \E p \in Ids : CreateDelivery(p)

Spec == Init /\ [][Next]_vars

----------------------------------------------------------------------------
(* What must hold *)

\* A column of an endpoint changes only by an UpdateEndpoint that names it, to
\* the value named, or goes back to what an overlapping UpdateEndpoint read
\* before somebody else changed it: overlapping is the one way an update of one
\* column can undo that of another, and no column gets a third value.
ColumnsChangeByName ==
    [][\A p \in Ids, f \in Fields :
         (Exists(p) /\ endpoint'[p] # Deleted /\ endpoint'[p][f] # endpoint[p][f]) =>
           \E c \in Calls :
             /\ call[c].pc = "write"
             /\ call'[c].pc = "idle"
             /\ call[c].id = p
             /\ \/ /\ f \in DOMAIN call[c].req
                   /\ endpoint'[p][f] = call[c].req[f]
                \/ /\ f \in call[c].missed \ DOMAIN call[c].req
                   /\ endpoint'[p][f] = call[c].row[f]]_vars

\* An UpdateEndpoint is told what became of it: OK means that the row has every
\* value it named; NotFound, that there is no row; InvalidArgument, that one of
\* its own values is to blame, never one it only copied; AlreadyExists, that
\* another endpoint has the name it named, or the name it read and somebody has
\* changed since; and only a fault is Internal.
UpdateRepliesAreTrue ==
    [][\A c \in Calls :
         LET p == call[c].id
             req == call[c].req
             reply == call'[c].reply
         IN  (call[c].pc # "idle" /\ call'[c].pc = "idle") =>
               /\ reply = "ok" => \A f \in DOMAIN req : endpoint'[p][f] = req[f]
               /\ reply = "not_found" => ~Exists(p)
               /\ reply = "invalid_argument" =>
                    \E f \in DOMAIN req : ~Passes(f, req[f]) \/ ~Storable(f, req[f])
               /\ reply = "already_exists" =>
                    /\ "name" \in (DOMAIN req) \cup call[c].missed
                    /\ NameTaken(Merged(call[c].row, req).name, p)
               /\ reply = "internal" => faults' > faults
               /\ reply \notin {"ok", "internal"} => endpoint' = endpoint]_vars

\* A deleted endpoint does not come back, although an UpdateEndpoint that has
\* read it may still write; one a delivery refers to is never deleted.
GoneForGood ==
    [][\A p \in Ids : /\ endpoint[p] = Deleted => endpoint'[p] = Deleted
                      /\ p \in referenced => Exists(p)']_vars
=============================================================================
