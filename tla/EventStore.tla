----------------------------- MODULE EventStore -----------------------------
(***************************************************************************)
(* What EventService.CreateEvent promises its callers, without tables,     *)
(* transactions or waiting: a call looks once who subscribes to its topic, *)
(* and then, in one step, either stores the event with a delivery for each *)
(* of them, or finds the key stored already.  It fails only when something *)
(* did, when a subscriber it looked up was deleted before it stored, or    *)
(* when the request is one that cannot be stored at all.                   *)
(* EventIngest implements this: EventRefinement has the mapping.           *)
(***************************************************************************)
EXTENDS Naturals

CONSTANTS Keys, Topics, Endpoints, Calls, None

VARIABLES
    exists,        \* the endpoints
    subscribers,   \* those that are to get an event, by topic
    stored,        \* events and their deliveries, by key, or None
    request,       \* the calls, or None
    faults         \* how often something failed

vars == <<exists, subscribers, stored, request, faults>>

\* view: the subscribers as the call saw them, or None; lost: one of them is gone.
Requests ==
    [key: Keys, topic: Topics, view: (SUBSET Endpoints) \cup {None}, lost: BOOLEAN,
     reply: {"none", "created", "already_exists", "failed"}]

Init ==
    /\ exists = {}
    /\ subscribers = [t \in Topics |-> {}]
    /\ stored = [k \in Keys |-> None]
    /\ request = [c \in Calls |-> None]
    /\ faults = 0

Open(c) == request[c] # None /\ request[c].reply = "none"

Ask(c, k, topic) ==
    /\ ~Open(c)
    /\ request' = [request EXCEPT ![c] =
          [key |-> k, topic |-> topic, view |-> None, lost |-> FALSE, reply |-> "none"]]
    /\ UNCHANGED <<exists, subscribers, stored, faults>>

\* A request that cannot be stored is answered at once.
Reject(c, k, topic) ==
    /\ ~Open(c)
    /\ request' = [request EXCEPT ![c] =
          [key |-> k, topic |-> topic, view |-> None, lost |-> FALSE, reply |-> "failed"]]
    /\ UNCHANGED <<exists, subscribers, stored, faults>>

Look(c) ==
    /\ Open(c)
    /\ request[c].view = None
    /\ request' = [request EXCEPT ![c].view = subscribers[request[c].topic]]
    /\ UNCHANGED <<exists, subscribers, stored, faults>>

\* An answer tells the caller whom the event went to, if it was stored.
Reply(c, reply, view) ==
    request' = [request EXCEPT ![c] =
       [key |-> request[c].key, topic |-> request[c].topic, view |-> view,
        lost |-> FALSE, reply |-> reply]]

\* The caller is told, or the answer is lost.
Store(c) ==
    LET r == request[c] IN
    /\ Open(c)
    /\ r.view # None /\ ~r.lost
    /\ stored[r.key] = None
    /\ stored' = [stored EXCEPT ![r.key] = [topic |-> r.topic, to |-> r.view]]
    /\ \/ Reply(c, "created", r.view) /\ UNCHANGED faults
       \/ Reply(c, "failed", None) /\ faults' = faults + 1
    /\ UNCHANGED <<exists, subscribers>>

Find(c) ==
    /\ Open(c)
    /\ stored[request[c].key] # None
    /\ Reply(c, "already_exists", None)
    /\ UNCHANGED <<exists, subscribers, stored, faults>>

Refuse(c) ==
    /\ Open(c)
    /\ request[c].lost
    /\ Reply(c, "failed", None)
    /\ UNCHANGED <<exists, subscribers, stored, faults>>

Fail(c) ==
    /\ Open(c)
    /\ Reply(c, "failed", None)
    /\ faults' = faults + 1
    /\ UNCHANGED <<exists, subscribers, stored>>

\* All calls die at once.
Die ==
    /\ request' = [c \in Calls |-> IF Open(c) THEN None ELSE request[c]]
    /\ faults' = faults + 1
    /\ UNCHANGED <<exists, subscribers, stored>>

\* Endpoints come and go and subscribe as they like, but for those with deliveries.
Change ==
    /\ exists' \in SUBSET Endpoints
    /\ subscribers' \in [Topics -> SUBSET exists']
    /\ \A k \in Keys : stored[k] # None => stored[k].to \subseteq exists'
    /\ request' = [c \in Calls |->
          IF Open(c) /\ request[c].view # None /\ ~(request[c].view \subseteq exists')
          THEN [request[c] EXCEPT !.lost = TRUE]
          ELSE request[c]]
    /\ UNCHANGED <<stored, faults>>

\* An open call can always go on to an answer.
Serve(c) == Look(c) \/ Store(c) \/ Find(c) \/ Refuse(c)

Next ==
    \/ \E c \in Calls, k \in Keys, topic \in Topics : Ask(c, k, topic) \/ Reject(c, k, topic)
    \/ \E c \in Calls : Serve(c) \/ Fail(c)
    \/ Die
    \/ Change

Safety == Init /\ [][Next]_vars

Spec == Safety /\ \A c \in Calls : WF_vars(Serve(c))
=============================================================================
