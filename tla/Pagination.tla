----------------------------- MODULE Pagination -----------------------------
(***************************************************************************)
(* A client that walks the pages of one of the gateway's four listings     *)
(* (internal/service), while the rows behind the listing change.  Every    *)
(* page is one query with a cursor: the client sends back the cursor of    *)
(* the last page until has_more is false.                                  *)
(*                                                                         *)
(* ListEndpoints and ListDeliveriesByEndpoint are sorted by id, ListEvents *)
(* and ListDeadLetteredDeliveries by time and id, the newest first.  Ids   *)
(* are random, so a new row may come anywhere in the order of ids, and a   *)
(* transaction's timestamp is older than its commit, so that it may come   *)
(* anywhere in the order of times.                                         *)
(***************************************************************************)
EXTENDS Integers, FiniteSets

CONSTANTS
    Listings,       \* the listings walked
    Ids,            \* ids of rows, as numbers
    Times,          \* timestamps of rows; Null if there may be none
    AskedLimits,    \* the limits a request may ask for
    DefaultLimit,   \* defaultListLimit, 50
    MaxLimit        \* maxListLimit, 100

\* NULL, in a column or in a query's parameter.
Null == -1

ById == {"ListEndpoints", "ListDeliveriesByEndpoint"}
ByTime == {"ListEvents", "ListDeadLetteredDeliveries"}

ASSUME PaginationAssumption ==
    /\ Listings \subseteq ById \cup ByTime
    /\ Ids \subseteq Nat /\ IsFiniteSet(Ids)
    /\ Times \subseteq Nat \cup {Null}
    /\ AskedLimits \subseteq Int
    /\ MaxLimit \in Nat \ {0}
    /\ DefaultLimit \in 1..MaxLimit

VARIABLES
    listing,    \* which listing is walked
    listed,     \* ids of the rows the listing's filter lets through
    at,         \* their timestamps (received_at, dead_lettered_at); else Null
    cursor,     \* the cursor of the next request: a timestamp and an id
    open,       \* the client has not been told that there is no more
    times_seen, \* ghost: how often each row was returned, up to twice
    steady,     \* ghost: rows listed, in the same place, since the walk began
    blind       \* ghost: a page ended on a row that has no timestamp

vars == <<listing, listed, at, cursor, open, times_seen, steady, blind>>

NoCursor == [at |-> Null, id |-> Null]

TypeOK ==
    /\ listing \in Listings
    /\ listed \subseteq Ids
    /\ at \in [Ids -> Times \cup {Null}]
    /\ \A i \in Ids \ listed : at[i] = Null
    /\ cursor \in [at : Times \cup {Null}, id : Ids \cup {Null}]
    /\ open \in BOOLEAN
    /\ times_seen \in [Ids -> 0..2]
    /\ steady \subseteq listed
    /\ blind \in BOOLEAN

\* received_at is NOT NULL; dead_lettered_at is null where UpdateDeliveryAttempt
\* was called without it.  Listings by id do not look at timestamps.
Stamps ==
    CASE listing \in ById -> {Null}
      [] listing = "ListEvents" -> Times \ {Null}
      [] OTHER -> Times

\* The cursor of the first request.  ListEvents refuses one without a cursor_id, so
\* that its client makes one up.
FirstCursors ==
    IF listing = "ListEvents" THEN [at : Times \cup {Null}, id : Ids] ELSE {NoCursor}

Init ==
    /\ listing \in Listings
    /\ listed \in SUBSET Ids
    /\ at \in {f \in [Ids -> Stamps \cup {Null}] :
               \A i \in Ids : IF i \in listed THEN f[i] \in Stamps ELSE f[i] = Null}
    /\ cursor \in FirstCursors
    /\ open = TRUE
    /\ times_seen = [i \in Ids |-> 0]
    /\ steady = listed
    /\ blind = FALSE

----------------------------------------------------------------------------
(* The queries *)

\* ORDER BY id, or ORDER BY time DESC, id DESC (which puts nulls first).
Precedes(i, j) ==
    IF listing \in ById THEN i < j
    ELSE IF at[i] = at[j] THEN i > j
    ELSE at[i] = Null \/ (at[j] # Null /\ at[i] > at[j])

\* ListEvents: "cursor id is required".
Accepts == listing = "ListEvents" => cursor.id # Null

\* Variant, never used: every request starts from the top.
ParametersDropped == NoCursor

\* What the service makes of the client's cursor: ListEvents fills in its values
\* without marking them valid, which the driver sends as two nulls.
Parameters ==
    IF listing = "ListEvents" THEN NoCursor ELSE cursor

\* Variants, never used: the row at the cursor is returned again; rows of the
\* cursor's timestamp are left out.
PastCursorAgain(i, c) ==
    IF listing \in ById THEN c.id = Null \/ i >= c.id
    ELSE \/ c.at = Null \/ c.id = Null
         \/ at[i] # Null /\ (at[i] < c.at \/ (at[i] = c.at /\ i <= c.id))
PastCursorByTime(i, c) ==
    IF listing \in ById THEN c.id = Null \/ i > c.id
    ELSE c.at = Null \/ c.id = Null \/ (at[i] # Null /\ at[i] < c.at)

\* The WHERE clause of each query.
PastCursor(i, c) ==
    IF listing \in ById THEN c.id = Null \/ i > c.id
    ELSE \/ c.at = Null \/ c.id = Null
         \/ at[i] # Null /\ (at[i] < c.at \/ (at[i] = c.at /\ i < c.id))

\* boundedLimit; ListEvents has rules of its own.
Limit(asked) ==
    IF listing = "ListEvents"
    THEN IF asked <= 0 \/ asked >= MaxLimit THEN DefaultLimit ELSE asked
    ELSE IF asked <= 0 THEN DefaultLimit
    ELSE IF asked > MaxLimit THEN MaxLimit ELSE asked

\* The first n rows of a set, in the order of the listing.
FirstRows(rows, n) ==
    {i \in rows : Cardinality({j \in rows : Precedes(j, i)}) < n}

LastRow(rows) == CHOOSE i \in rows : \A j \in rows : i = j \/ Precedes(j, i)

\* Variant, never used: the cursor is the id after the last row's.
CursorPastLast(rows, limit) ==
    LET last == LastRow(FirstRows(rows, limit)) IN
    [at |-> IF listing \in ById THEN Null ELSE at[last], id |-> last + 1]

\* The cursor of a response, when there is more: the last row of the page.
NextCursor(rows, limit) ==
    LET last == LastRow(FirstRows(rows, limit)) IN
    [at |-> IF listing \in ById THEN Null ELSE at[last], id |-> last]

----------------------------------------------------------------------------
(* The client, and those who change the rows, until the walk has ended *)

\* One request: limit + 1 rows are fetched to learn whether there is more.
FetchPage ==
    /\ open /\ Accepts
    /\ \E asked \in AskedLimits :
         LET limit == Limit(asked)
             rows == {i \in listed : PastCursor(i, Parameters)}
             page == FirstRows(rows, limit)
             more == Cardinality(rows) > limit
         IN  /\ times_seen' = [i \in Ids |->
                                 IF i \in page /\ times_seen[i] < 2
                                 THEN times_seen[i] + 1 ELSE times_seen[i]]
             /\ open' = more
             /\ cursor' = IF more THEN NextCursor(rows, limit) ELSE NoCursor
             /\ blind' = (blind \/ (more /\ listing \in ByTime /\ cursor'.at = Null))
    /\ UNCHANGED <<listing, listed, at, steady>>

\* A row is inserted, or comes to satisfy the filter (active, topics, status).
Enter(i) ==
    /\ open
    /\ i \notin listed
    /\ listed' = listed \cup {i}
    /\ \E t \in Stamps : at' = [at EXCEPT ![i] = t]
    /\ UNCHANGED <<listing, cursor, open, times_seen, steady, blind>>

\* A row is deleted, or no longer satisfies the filter; events stay.
Leave(i) ==
    /\ open
    /\ i \in listed
    /\ listing # "ListEvents"
    /\ listed' = listed \ {i}
    /\ at' = [at EXCEPT ![i] = Null]
    /\ steady' = steady \ {i}
    /\ UNCHANGED <<listing, cursor, open, times_seen, blind>>

Next == FetchPage \/ \E i \in Ids : Enter(i) \/ Leave(i)

\* The client goes on to the end.
Spec == Init /\ [][Next]_vars /\ WF_vars(FetchPage)

----------------------------------------------------------------------------

\* No row is returned twice in one walk, whatever is inserted and removed behind
\* and ahead of the cursor, unless the cursor came from a row with no timestamp.
NoneTwice == \A i \in steady : times_seen[i] = 2 => blind

\* A walk that has ended returned every row that was there from its beginning
\* to its end: nothing is lost between two pages or among equal timestamps.
NoneMissed == ~open => \A i \in steady : times_seen[i] > 0 \/ blind

\* A walk ends, however the rows change, or its cursor has no timestamp.
WalkEnds == <>(~open \/ blind)
=============================================================================
