--------------------------- MODULE EventRefinement ---------------------------
(***************************************************************************)
(* EventIngest implements EventStore: a call looks when its transaction    *)
(* takes its snapshot, stores when it commits, and finds when it looks up  *)
(* the key after the unique violation.  What happens between is no step.   *)
(***************************************************************************)
EXTENDS EventIngest

\* Whom a call has seen, or is told it served.
View(s) ==
    IF s.pc \in {"insert", "fan_out", "lookup"} THEN s.matching
    ELSE IF s.pc = "commit" \/ s.reply = "created" THEN s.to ELSE None

\* Callers get one code for both of the ways to fail.
Code(reply) == IF reply \in {"internal", "lookup_failed"} THEN "failed" ELSE reply

Request(s) ==
    IF s = None THEN None
    ELSE [key |-> s.key, topic |-> s.topic, view |-> View(s), lost |-> s.gone,
          reply |-> Code(s.reply)]

Abstract == INSTANCE EventStore WITH
                exists <- {p \in Endpoints : endpoint[p] # None},
                subscribers <- [t \in Topics |-> {p \in Endpoints : IsFor(t, endpoint[p])}],
                stored <- event,
                request <- [c \in Calls |-> Request(call[c])]

\* None stands for no set of endpoints and for no call.
ASSUME StoreAssumption ==
    /\ \A S \in SUBSET Endpoints : S # None
    /\ \A r \in Abstract!Requests : r # None

\* Calls that share a key, overlap, wait for each other, fail and are repeated are like
\* calls that each store or find in one step, with the subscribers of one moment.
EventStoreSafety == Abstract!Safety

\* And every call that is not ended by a failure gets its answer: waiting for the
\* transaction of another call does not last for ever.
EventStoreImplemented == Abstract!Spec
==============================================================================
