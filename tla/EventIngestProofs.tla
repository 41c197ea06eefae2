-------------------------- MODULE EventIngestProofs --------------------------
(***************************************************************************)
(* Proofs about EventIngest, for any number of calls, keys and endpoints:  *)
(* one event per key, replies that are so, a fan-out of one moment, and    *)
(* that it implements EventStore (its safety part).                        *)
(***************************************************************************)
EXTENDS EventRefinement, TLAPS

\* A key that a transaction holds is not stored, and a key that was found taken is.
KeyIsSound(s) ==
    /\ s.pc \in HoldsKey => event[s.key] = None
    /\ s.pc = "lookup" => event[s.key] # None
    /\ s.pc \in InCall => s.reply = "none"

\* What RepliesAreTrue says of one call.
ReplyIsSound(s) ==
    /\ s.reply = "created" => event[s.key] = [topic |-> s.topic, to |-> s.to]
    /\ s.reply = "already_exists" => event[s.key] # None
    /\ s.reply = "lookup_failed" => faults > 0

Now(topic) == {p \in Endpoints : IsFor(topic, endpoint[p])}

\* What a call is going to write lies between always and ever.
MomentIsSound(s) ==
    s.pc \in InCall =>
       /\ s.always \subseteq Now(s.topic) /\ Now(s.topic) \subseteq s.ever
       /\ s.pc \in {"insert", "fan_out"} =>
            s.always \subseteq s.matching /\ s.matching \subseteq s.ever
       /\ s.pc = "commit" => s.always \subseteq s.to /\ s.to \subseteq s.ever

\* What a call is going to write refers to endpoints that exist.
TargetsExist(s) ==
    /\ s.pc \in {"insert", "fan_out"} /\ ~s.gone => \A p \in s.matching : endpoint[p] # None
    /\ s.pc = "commit" => \A p \in s.to : endpoint[p] # None

\* At most one transaction holds a key.
OneHolder ==
    \A b, c \in Calls : (/\ b # c
                         /\ Running(b) /\ call[b].pc \in HoldsKey
                         /\ Running(c) /\ call[c].pc \in HoldsKey)
                           => call[b].key # call[c].key

ToldOnce == \A k \in Keys : told[k] = 0 \/ (told[k] = 1 /\ event[k] # None)

IInv ==
    /\ TypeOK
    /\ OneHolder
    /\ ToldOnce
    /\ NoneDangling
    /\ \A c \in Calls : call[c] # None => /\ KeyIsSound(call[c])
                                          /\ ReplyIsSound(call[c])
                                          /\ MomentIsSound(call[c])
                                          /\ TargetsExist(call[c])

----------------------------------------------------------------------------
(* Types *)

\* The fields of a call.
LEMMA CallFields ==
    ASSUME NEW s \in CallState
    PROVE  /\ s.pc \in InCall \cup {"done"} /\ s.key \in Keys /\ s.topic \in Topics
           /\ s.reply \in Replies /\ s.matching \subseteq Endpoints /\ s.gone \in BOOLEAN
           /\ s.to \subseteq Endpoints
           /\ s.always \subseteq Endpoints /\ s.ever \subseteq Endpoints
           /\ s # None
    BY NoneAssumption DEF CallState

\* A call's record is what its fields are.
LEMMA CallRecord ==
    ASSUME NEW pc \in InCall \cup {"done"}, NEW k \in Keys, NEW topic \in Topics,
           NEW reply \in Replies, NEW matching \in SUBSET Endpoints, NEW gone \in BOOLEAN,
           NEW to \in SUBSET Endpoints, NEW always \in SUBSET Endpoints,
           NEW ever \in SUBSET Endpoints
    PROVE  [pc |-> pc, key |-> k, topic |-> topic, reply |-> reply,
            matching |-> matching, gone |-> gone, to |-> to,
            always |-> always, ever |-> ever] \in CallState
    BY DEF CallState

\* The answered call.
LEMMA AnsweredFields ==
    ASSUME NEW c \in Calls, call[c] \in CallState, NEW reply \in Replies
    PROVE  /\ Answered(c, reply) \in CallState
           /\ Answered(c, reply).pc = "done"
           /\ Answered(c, reply).reply = reply
           /\ Answered(c, reply).key = call[c].key
           /\ Answered(c, reply).topic = call[c].topic
           /\ reply = "created" => Answered(c, reply).to = call[c].to
    BY DEF Answered, CallState

----------------------------------------------------------------------------

(* What the steps of a call do to it *)

\* Two calls that differ in the state, and perhaps in what they are to write.
SameButTargets(t, s) ==
    /\ t.key = s.key /\ t.topic = s.topic /\ t.reply = s.reply
    /\ t.gone = s.gone /\ t.always = s.always /\ t.ever = s.ever

Begun(s, m) == [s EXCEPT !.pc = "insert", !.matching = m]

FannedOut(s) == [s EXCEPT !.pc = "commit", !.to = s.matching, !.matching = {}]

Touched(s, n, g) == [s EXCEPT !.gone = @ \/ g, !.always = @ \cap n, !.ever = @ \cup n]

\* Only the pc and the matching endpoints change where Begin assigns them.
LEMMA BegunFields ==
    ASSUME NEW s \in CallState, NEW m \in SUBSET Endpoints
    PROVE  /\ Begun(s, m) \in CallState
           /\ Begun(s, m).pc = "insert" /\ Begun(s, m).matching = m
           /\ SameButTargets(Begun(s, m), s)
    BY Zenon DEF Begun, CallState, InCall, SameButTargets

\* Only the pc, the matching endpoints and the deliveries change in the fan-out.
LEMMA FannedOutFields ==
    ASSUME NEW s \in CallState
    PROVE  /\ FannedOut(s) \in CallState
           /\ FannedOut(s).pc = "commit" /\ FannedOut(s).to = s.matching
           /\ SameButTargets(FannedOut(s), s)
    BY Zenon DEF FannedOut, CallState, InCall, HoldsKey, SameButTargets

\* Only the pc changes when the INSERT of the event ends.
LEMMA InsertedFields ==
    ASSUME NEW s \in CallState, NEW pc \in InCall, NEW t, t = [s EXCEPT !.pc = pc]
    PROVE  /\ t \in CallState /\ t.pc = pc /\ t.matching = s.matching
           /\ SameButTargets(t, s)
    BY Zenon DEF CallState, InCall, SameButTargets

----------------------------------------------------------------------------
(* Steps preserve the invariant *)

\* The calls after a step that moves one of them.
LEMMA OthersStay ==
    ASSUME TypeOK, NEW c \in Calls, NEW t, call' = [call EXCEPT ![c] = t]
    PROVE  call'[c] = t /\ \A b \in Calls : b # c => call'[b] = call[b]
    BY DEF TypeOK

\* A step that only moves one call, to a state that is sound, preserves IInv.
LEMMA OneCallMoves ==
    ASSUME IInv, NEW c \in Calls, NEW t \in CallState, call' = [call EXCEPT ![c] = t],
           UNCHANGED <<endpoint, event, told>>, faults' \in 0..MaxFaults, faults <= faults',
           KeyIsSound(t), ReplyIsSound(t)', MomentIsSound(t), TargetsExist(t),
           t.pc \in HoldsKey => /\ t.key = call[c].key
                                /\ (Running(c) /\ call[c].pc \in HoldsKey) \/ ~KeyIsTaken(c)
    PROVE  IInv'
<1>1. TypeOK'
    BY DEF IInv, TypeOK
<1>2. call'[c] = t /\ \A b \in Calls : b # c => call'[b] = call[b]
    BY OthersStay DEF IInv
<1>3. t # None
    BY CallFields
<1>4. OneHolder'
    <2>1. \A b \in Calls : (b # c /\ t.pc \in HoldsKey /\ Running(b) /\ call[b].pc \in HoldsKey)
                              => call[b].key # t.key
        BY DEF IInv, OneHolder, KeyIsTaken
    <2>2. \A b \in Calls : b # c => Running(b)' = Running(b)
        BY <1>2 DEF Running
    <2> QED BY <1>2, <2>1, <2>2 DEF IInv, OneHolder
<1>5. ToldOnce' /\ NoneDangling'
    BY DEF IInv, ToldOnce, NoneDangling
<1>6. ASSUME NEW b \in Calls, call'[b] # None
      PROVE  /\ KeyIsSound(call[b])'
             /\ ReplyIsSound(call[b])'
             /\ MomentIsSound(call[b])'
             /\ TargetsExist(call[b])'
    <2>1. CASE b = c
        BY <1>2, <2>1 DEF KeyIsSound, MomentIsSound, TargetsExist, Now, IsFor, ReplyIsSound
    <2>2. CASE b # c
        <3>1. /\ KeyIsSound(call[b]) /\ ReplyIsSound(call[b])
              /\ MomentIsSound(call[b]) /\ TargetsExist(call[b])
              /\ call'[b] = call[b]
              /\ faults \in Nat
            BY <1>2, <1>6, <2>2 DEF IInv, TypeOK
        <3>2. KeyIsSound(call[b])' /\ TargetsExist(call[b])'
            BY <3>1 DEF KeyIsSound, TargetsExist
        <3>3. MomentIsSound(call[b])'
            BY <3>1 DEF MomentIsSound, Now, IsFor
        <3>4. ReplyIsSound(call[b])'
            BY <3>1 DEF ReplyIsSound
        <3> QED BY <3>2, <3>3, <3>4
    <2> QED BY <2>1, <2>2
<1> QED BY <1>1, <1>4, <1>5, <1>6 DEF IInv

\* A call that runs, with what IInv says of it.
LEMMA RunningCall ==
    ASSUME IInv, NEW c \in Calls, call[c] # None
    PROVE  /\ call[c] \in CallState
           /\ KeyIsSound(call[c]) /\ ReplyIsSound(call[c])
           /\ MomentIsSound(call[c]) /\ TargetsExist(call[c])
    BY DEF IInv, TypeOK

\* A new call knows nothing yet but who is subscribed.
LEMMA StartStep ==
    ASSUME IInv, NEW c \in Calls, NEW k \in Keys, NEW topic \in Topics, Start(c, k, topic)
    PROVE  IInv'
<1>0. PICK t : t = [pc |-> "begin", key |-> k, topic |-> topic, reply |-> "none",
                    matching |-> {}, gone |-> FALSE, to |-> {},
                    always |-> Now(topic), ever |-> Now(topic)]
    OBVIOUS
<1>1. call' = [call EXCEPT ![c] = t] /\ UNCHANGED <<endpoint, event, told, faults>>
    BY <1>0 DEF Start, Now
<1>2. t \in CallState
    BY <1>0, CallRecord DEF Now, InCall, Replies
<1>3. KeyIsSound(t) /\ ReplyIsSound(t)' /\ MomentIsSound(t) /\ TargetsExist(t)
    BY <1>0 DEF KeyIsSound, ReplyIsSound, MomentIsSound, TargetsExist, HoldsKey
<1>4. t.pc \notin HoldsKey
    BY <1>0 DEF HoldsKey
<1>5. faults' \in 0..MaxFaults /\ faults <= faults'
    BY <1>1, IngestAssumption DEF IInv, TypeOK
<1> QED BY <1>1, <1>2, <1>3, <1>4, <1>5, OneCallMoves

\* A call whose payload is refused leaves nothing but its answer.
LEMMA StartRefusedStep ==
    ASSUME IInv, NEW c \in Calls, NEW k \in Keys, NEW topic \in Topics,
           StartRefused(c, k, topic)
    PROVE  IInv'
<1>0. PICK t : t = [pc |-> "done", key |-> k, topic |-> topic, reply |-> "internal",
                    matching |-> {}, gone |-> FALSE, to |-> {}, always |-> {}, ever |-> {}]
    OBVIOUS
<1>1. call' = [call EXCEPT ![c] = t] /\ UNCHANGED <<endpoint, event, told, faults>>
    BY <1>0 DEF StartRefused
<1>2. t \in CallState
    BY <1>0, CallRecord DEF Replies
<1>3. KeyIsSound(t) /\ ReplyIsSound(t)' /\ MomentIsSound(t) /\ TargetsExist(t)
    BY <1>0 DEF KeyIsSound, ReplyIsSound, MomentIsSound, TargetsExist, InCall, HoldsKey
<1>4. t.pc \notin HoldsKey
    BY <1>0 DEF HoldsKey
<1>5. faults' \in 0..MaxFaults /\ faults <= faults'
    BY <1>1, IngestAssumption DEF IInv, TypeOK
<1> QED BY <1>1, <1>2, <1>3, <1>4, <1>5, OneCallMoves

\* A transaction begins with the subscribers of now.
LEMMA BeginStep ==
    ASSUME IInv, NEW c \in Calls, Begin(c)
    PROVE  IInv'
<1> DEFINE s == call[c]
<1>0. PICK m, t : m = Now(s.topic) /\ t = Begun(s, m)
    OBVIOUS
<1>1. /\ s \in CallState /\ s.pc = "begin" /\ s # None
      /\ KeyIsSound(s) /\ ReplyIsSound(s) /\ MomentIsSound(s)
    BY RunningCall DEF Begin, At
<1>2. m = Subscribers(endpoint, s.topic)
    BY <1>0 DEF Now, Subscribers, IsFor
<1>3. call' = [call EXCEPT ![c] = t] /\ UNCHANGED <<endpoint, event, told, faults>>
    BY <1>0, <1>2, Zenon DEF Begin, Begun
<1>4. m \in SUBSET Endpoints
    BY <1>0 DEF Now
<1>5. t \in CallState /\ t.pc = "insert" /\ t.matching = m /\ SameButTargets(t, s)
    BY <1>0, <1>1, <1>4, BegunFields
<1>6. KeyIsSound(t)
    BY <1>1, <1>5 DEF KeyIsSound, SameButTargets, HoldsKey, InCall
<1>7. ReplyIsSound(t)'
    BY <1>1, <1>3, <1>5 DEF KeyIsSound, ReplyIsSound, SameButTargets, InCall
<1>8. MomentIsSound(t)
    BY <1>0, <1>1, <1>5 DEF MomentIsSound, SameButTargets, InCall
<1>9. TargetsExist(t)
    BY <1>0, <1>5 DEF TargetsExist, Now, IsFor
<1>10. faults' \in 0..MaxFaults /\ faults <= faults' /\ t.pc \notin HoldsKey
    BY <1>3, <1>5, IngestAssumption DEF IInv, TypeOK, HoldsKey
<1> QED BY <1>3, <1>5, <1>6, <1>7, <1>8, <1>9, <1>10, OneCallMoves

\* The INSERT takes the key if nobody has it, or finds the event that has it.
LEMMA InsertStep ==
    ASSUME IInv, NEW c \in Calls, InsertEvent(c)
    PROVE  IInv'
<1> DEFINE s == call[c]
           pc == IF event[s.key] = None THEN "fan_out" ELSE "lookup"
<1>0. PICK t : t = [s EXCEPT !.pc = pc]
    OBVIOUS
<1>1. /\ s \in CallState /\ s.pc = "insert" /\ s # None
      /\ KeyIsSound(s) /\ ReplyIsSound(s) /\ MomentIsSound(s) /\ TargetsExist(s)
    BY RunningCall DEF InsertEvent, At
<1>3. /\ call' = [call EXCEPT ![c] = t] /\ UNCHANGED <<endpoint, event, told, faults>>
      /\ ~KeyIsTaken(c)
    BY <1>0, Zenon DEF InsertEvent
<1>4. pc \in InCall
    BY DEF InCall, HoldsKey
<1>5. t \in CallState /\ t.pc = pc /\ t.matching = s.matching /\ SameButTargets(t, s)
    BY <1>0, <1>1, <1>4, InsertedFields
<1>6. KeyIsSound(t)
    BY <1>1, <1>5 DEF KeyIsSound, SameButTargets, HoldsKey, InCall
<1>7. ReplyIsSound(t)'
    BY <1>1, <1>3, <1>5 DEF KeyIsSound, ReplyIsSound, SameButTargets, InCall
<1>8. MomentIsSound(t)
    BY <1>1, <1>5 DEF MomentIsSound, SameButTargets, InCall
<1>9. TargetsExist(t)
    BY <1>1, <1>5 DEF TargetsExist, SameButTargets
<1>10. faults' \in 0..MaxFaults /\ faults <= faults' /\ t.key = call[c].key
    BY <1>3, <1>5, IngestAssumption DEF IInv, TypeOK, SameButTargets
<1> QED BY <1>3, <1>5, <1>6, <1>7, <1>8, <1>9, <1>10, OneCallMoves

\* A call that ends, with a reply that is so, leaves everything as it was.
LEMMA AnswerStep ==
    ASSUME IInv, NEW c \in Calls, Running(c), NEW reply \in Replies,
           Answer(c, reply), UNCHANGED <<endpoint, event, told>>,
           faults' \in 0..MaxFaults, faults <= faults',
           reply # "created",
           reply = "already_exists" => event[call[c].key] # None,
           reply = "lookup_failed" => faults' > 0
    PROVE  IInv'
<1>0. PICK t : t = Answered(c, reply)
    OBVIOUS
<1>1. call[c] \in CallState
    BY RunningCall DEF Running
<1>2. /\ t \in CallState /\ t.pc = "done" /\ t.reply = reply
      /\ t.key = call[c].key
    BY <1>0, <1>1, AnsweredFields
<1>3. call' = [call EXCEPT ![c] = t]
    BY <1>0 DEF Answer
<1>4. KeyIsSound(t) /\ MomentIsSound(t) /\ TargetsExist(t) /\ t.pc \notin HoldsKey
    BY <1>2 DEF KeyIsSound, MomentIsSound, TargetsExist, HoldsKey, InCall
<1>5. ReplyIsSound(t)'
    BY <1>2 DEF ReplyIsSound
<1> QED BY <1>2, <1>3, <1>4, <1>5, OneCallMoves

\* The fan-out serves whom the transaction sees, or ends the call.
LEMMA FanOutStep ==
    ASSUME IInv, NEW c \in Calls, FanOut(c)
    PROVE  IInv'
<1> DEFINE s == call[c]
<1>0. PICK t : t = FannedOut(s)
    OBVIOUS
<1>1. /\ s \in CallState /\ s.pc = "fan_out" /\ s # None
      /\ KeyIsSound(s) /\ ReplyIsSound(s) /\ MomentIsSound(s) /\ TargetsExist(s)
      /\ Running(c)
    BY RunningCall DEF FanOut, At, Running, InCall, HoldsKey
<1>2. UNCHANGED <<endpoint, event, told, faults>>
    BY DEF FanOut
<1>3. faults' \in 0..MaxFaults /\ faults <= faults'
    BY <1>2, IngestAssumption DEF IInv, TypeOK
<1>4. CASE s.gone
    BY <1>1, <1>2, <1>3, <1>4, AnswerStep DEF FanOut, Replies
<1>5. CASE ~s.gone
    <2>1. call' = [call EXCEPT ![c] = t]
        BY <1>0, <1>5, Zenon DEF FanOut, FannedOut
    <2>2. t \in CallState /\ t.pc = "commit" /\ t.to = s.matching /\ SameButTargets(t, s)
        BY <1>0, <1>1, FannedOutFields
    <2>3. KeyIsSound(t)
        BY <1>1, <2>2 DEF KeyIsSound, SameButTargets, HoldsKey, InCall
    <2>4. ReplyIsSound(t)'
        BY <1>1, <2>2 DEF KeyIsSound, ReplyIsSound, SameButTargets, InCall, HoldsKey
    <2>5. MomentIsSound(t)
        BY <1>1, <2>2 DEF MomentIsSound, SameButTargets, InCall, HoldsKey
    <2>6. TargetsExist(t)
        BY <1>1, <1>5, <2>2 DEF TargetsExist
    <2>7. t.key = call[c].key /\ call[c].pc \in HoldsKey
        BY <1>1, <2>2 DEF SameButTargets, HoldsKey
    <2> QED BY <1>1, <1>2, <1>3, <2>1, <2>2, <2>3, <2>4, <2>5, <2>6, <2>7, OneCallMoves
<1> QED BY <1>4, <1>5

\* A lookup finds the event whose key made the INSERT fail.
LEMMA LookupStep ==
    ASSUME IInv, NEW c \in Calls, Lookup(c)
    PROVE  IInv'
<1>1. Running(c) /\ event[call[c].key] # None
    BY RunningCall DEF Lookup, At, Running, InCall, KeyIsSound
<1>2. Answer(c, "already_exists") /\ UNCHANGED <<endpoint, event, told, faults>>
    BY <1>1 DEF Lookup
<1>3. faults' \in 0..MaxFaults /\ faults <= faults'
    BY <1>2, IngestAssumption DEF IInv, TypeOK
<1> QED BY <1>1, <1>2, <1>3, AnswerStep DEF Replies

\* A fault ends the call without a trace.
LEMMA FailsStep ==
    ASSUME IInv, NEW c \in Calls, Fails(c)
    PROVE  IInv'
<1>1. /\ Running(c) /\ UNCHANGED <<endpoint, event, told>>
      /\ Answer(c, FailureReply(c))
    BY DEF Fails
<1>2. faults' \in 0..MaxFaults /\ faults <= faults' /\ faults' > 0
    BY IngestAssumption DEF Fails, IInv, TypeOK
<1>3. FailureReply(c) \in {"lookup_failed", "internal"}
    BY DEF FailureReply
<1> QED BY <1>1, <1>2, <1>3, AnswerStep DEF Replies

\* The commit stores what the call was going to write; nobody else holds its key.
LEMMA CommitStep ==
    ASSUME IInv, NEW c \in Calls, Commit(c)
    PROVE  IInv'
<1> DEFINE s == call[c]
           k == s.key
           row == [topic |-> s.topic, to |-> s.to]
<1>1. /\ s \in CallState /\ s.pc = "commit" /\ s # None
      /\ KeyIsSound(s) /\ MomentIsSound(s) /\ TargetsExist(s)
      /\ Running(c)
    BY RunningCall DEF Commit, At, Running, InCall, HoldsKey
<1>2. /\ event' = [event EXCEPT ![k] = row]
      /\ endpoint' = endpoint
      /\ \/ /\ Answer(c, "created")
            /\ told' = [told EXCEPT ![k] = IF @ < 2 THEN @ + 1 ELSE @]
            /\ faults' = faults
         \/ /\ Answer(c, "internal")
            /\ told' = told
            /\ faults < MaxFaults /\ faults' = faults + 1
    BY Zenon DEF Commit
<1>3. /\ event[k] = None /\ k \in Keys /\ row \in EventRow /\ row # None
      /\ event \in [Keys -> EventRow \cup {None}]
      /\ event' \in [Keys -> EventRow \cup {None}]
      /\ event'[k] = row /\ \A j \in Keys : j # k => event'[j] = event[j]
    BY <1>1, <1>2, CallFields, NoneAssumption
       DEF KeyIsSound, HoldsKey, EventRow, IInv, TypeOK
<1>3a. PICK reply \in {"created", "internal"} : call' = [call EXCEPT ![c] = Answered(c, reply)]
    BY <1>2 DEF Answer
<1>4. PICK t : t = Answered(c, reply) /\ call' = [call EXCEPT ![c] = t]
    BY <1>3a
<1>5. /\ t \in CallState /\ t.pc = "done" /\ t.reply = reply /\ t # None
      /\ t.key = k /\ t.topic = s.topic /\ (reply = "created" => t.to = s.to)
    BY <1>1, <1>4, AnsweredFields, CallFields DEF Replies
<1>6. call'[c] = t /\ \A b \in Calls : b # c => call'[b] = call[b]
    BY <1>4, OthersStay DEF IInv
<1>7. faults \in Nat /\ faults' \in Nat /\ faults <= faults' /\ faults' \in 0..MaxFaults
    BY <1>2, IngestAssumption DEF IInv, TypeOK
<1>8. told \in [Keys -> 0..2] /\ told[k] = 0
    BY <1>3 DEF IInv, TypeOK, ToldOnce
<1>9. told' \in [Keys -> 0..2] /\ ToldOnce'
    <2>1. CASE told' = told
        BY <1>3, <1>8, <2>1 DEF ToldOnce, IInv
    <2>2. CASE told' = [told EXCEPT ![k] = IF @ < 2 THEN @ + 1 ELSE @]
        <3>1. told' = [told EXCEPT ![k] = 1]
            BY <1>8, <2>2
        <3> QED BY <1>3, <1>8, <3>1 DEF ToldOnce, IInv
    <2> QED BY <1>2, <2>1, <2>2
<1>10. TypeOK'
    <2>1. call' \in [Calls -> CallState \cup {None}]
        BY <1>4, <1>5 DEF IInv, TypeOK
    <2>2. endpoint' \in [Endpoints -> EndpointRow \cup {None}]
        BY <1>2 DEF IInv, TypeOK
    <2> QED BY <1>3, <1>7, <1>9, <2>1, <2>2 DEF TypeOK
<1>11. ASSUME NEW b \in Calls, b # c, Running(b), call[b].pc \in HoldsKey
       PROVE  call[b].key # k
    BY <1>1, <1>11 DEF IInv, OneHolder, HoldsKey
<1>12. OneHolder'
    BY <1>5, <1>6 DEF IInv, OneHolder, Running, HoldsKey, InCall
<1>13. NoneDangling'
    BY <1>1, <1>2, <1>3 DEF IInv, NoneDangling, TargetsExist
<1>14. ASSUME NEW b \in Calls, call'[b] # None
       PROVE  /\ KeyIsSound(call[b])'
              /\ ReplyIsSound(call[b])'
              /\ MomentIsSound(call[b])'
              /\ TargetsExist(call[b])'
    <2>1. CASE b = c
        <3>1. KeyIsSound(t)' /\ MomentIsSound(t)' /\ TargetsExist(t)'
            BY <1>5 DEF KeyIsSound, MomentIsSound, TargetsExist, HoldsKey, InCall
        <3>2. ReplyIsSound(t)'
            BY <1>3, <1>5 DEF ReplyIsSound
        <3> QED BY <1>6, <2>1, <3>1, <3>2
                DEF KeyIsSound, MomentIsSound, TargetsExist, ReplyIsSound, Now, IsFor
    <2>2. CASE b # c
        <3>1. /\ KeyIsSound(call[b]) /\ ReplyIsSound(call[b])
              /\ MomentIsSound(call[b]) /\ TargetsExist(call[b])
              /\ call'[b] = call[b] /\ call[b] # None /\ call[b].key \in Keys
            BY <1>6, <1>14, <2>2, RunningCall, CallFields
        <3>2. KeyIsSound(call[b])'
            <4>1. call[b].pc \in HoldsKey => call[b].key # k
                BY <1>11, <2>2, <3>1 DEF Running, InCall
            <4> QED BY <1>3, <3>1, <4>1 DEF KeyIsSound
        <3>3. MomentIsSound(call[b])' /\ TargetsExist(call[b])'
            BY <1>2, <3>1 DEF MomentIsSound, TargetsExist, Now, IsFor
        <3>4. ReplyIsSound(call[b])'
            <4>1. call[b].reply = "created" => call[b].key # k
                <5>1. [topic |-> call[b].topic, to |-> call[b].to] \in EventRow
                    BY <3>1, RunningCall, CallFields DEF EventRow
                <5> QED BY <1>3, <3>1, <5>1, NoneAssumption DEF ReplyIsSound
            <4>2. event[call[b].key] # None => event'[call[b].key] # None
                BY <1>3, <3>1
            <4> QED BY <1>3, <1>7, <3>1, <4>1, <4>2 DEF ReplyIsSound
        <3> QED BY <3>2, <3>3, <3>4
    <2> QED BY <2>1, <2>2
<1> QED BY <1>9, <1>10, <1>12, <1>13, <1>14 DEF IInv

\* A crash ends every call that runs, and leaves what is stored.
LEMMA CrashStep ==
    ASSUME IInv, Crash
    PROVE  IInv'
<1>1. /\ UNCHANGED <<endpoint, event, told>>
      /\ \A c \in Calls : call'[c] = IF Running(c) THEN None ELSE call[c]
      /\ call' \in [Calls -> CallState \cup {None}]
      /\ faults \in Nat /\ faults' \in 0..MaxFaults /\ faults' > 0
    BY IngestAssumption DEF Crash, IInv, TypeOK
<1>2. TypeOK'
    BY <1>1 DEF IInv, TypeOK
<1>3. \A c \in Calls : ~Running(c)'
    BY <1>1 DEF Running
<1>4. OneHolder'
    BY <1>3 DEF OneHolder
<1>5. ToldOnce' /\ NoneDangling'
    BY <1>1 DEF IInv, ToldOnce, NoneDangling
<1>6. ASSUME NEW b \in Calls, call'[b] # None
      PROVE  /\ KeyIsSound(call[b])'
             /\ ReplyIsSound(call[b])'
             /\ MomentIsSound(call[b])'
             /\ TargetsExist(call[b])'
    <2>1. /\ call'[b] = call[b] /\ call[b].pc \notin InCall /\ ReplyIsSound(call[b])
        BY <1>1, <1>6, RunningCall DEF Running
    <2> QED BY <1>1, <2>1
            DEF KeyIsSound, ReplyIsSound, MomentIsSound, TargetsExist, InCall, HoldsKey
<1> QED BY <1>2, <1>4, <1>5, <1>6 DEF IInv

\* How a call that has seen a change to the endpoints differs from the one before.
Informed(t, s, n, g) ==
    /\ t \in CallState /\ t.pc = s.pc /\ t.key = s.key /\ t.topic = s.topic
    /\ t.reply = s.reply /\ t.matching = s.matching /\ t.to = s.to
    /\ (t.gone <=> s.gone \/ g)
    /\ t.always = s.always \cap n /\ t.ever = s.ever \cup n

\* What a call that runs learns of a change to the endpoints.
LEMMA TouchedFields ==
    ASSUME NEW s \in CallState, NEW n \in SUBSET Endpoints, NEW g \in BOOLEAN
    PROVE  Informed(Touched(s, n, g), s, n, g)
<1> PICK t : t = Touched(s, n, g)
    OBVIOUS
<1>1. /\ t.pc = s.pc /\ t.key = s.key /\ t.topic = s.topic
      /\ t.reply = s.reply /\ t.matching = s.matching /\ t.to = s.to
      /\ (t.gone <=> s.gone \/ g)
      /\ t.always = s.always \cap n /\ t.ever = s.ever \cup n
    BY Zenon DEF CallState, Touched
<1>2. s.always \cap n \in SUBSET Endpoints /\ s.ever \cup n \in SUBSET Endpoints
    BY CallFields
<1>3. \A b \in BOOLEAN : \A x, y \in SUBSET Endpoints :
        [s EXCEPT !.gone = b, !.always = x, !.ever = y] \in CallState
    BY Zenon DEF CallState
<1>4. (s.gone \/ g) \in BOOLEAN
    OBVIOUS
<1>5. t \in CallState
    BY <1>2, <1>3, <1>4, Zenon DEF Touched
<1>6. Informed(t, s, n, g)
    BY <1>1, <1>5, Zenon DEF Informed
<1> QED BY <1>6

\* What a call that runs learns of a change to one endpoint.
LEMMA SetEndpointTouches ==
    ASSUME IInv, NEW p \in Endpoints, NEW row, SetEndpoint(p, row), NEW c \in Calls, Running(c)
    PROVE  /\ call'[c] \in CallState /\ call'[c].pc = call[c].pc
           /\ call'[c].key = call[c].key /\ call'[c].topic = call[c].topic
           /\ call'[c].reply = call[c].reply
           /\ call'[c].matching = call[c].matching /\ call'[c].to = call[c].to
           /\ (call'[c].gone <=> call[c].gone \/ (row = None /\ p \in call[c].matching))
           /\ call'[c].always = call[c].always \cap Now(call[c].topic)'
           /\ call'[c].ever = call[c].ever \cup Now(call[c].topic)'
<1>1. call[c] \in CallState
    BY RunningCall DEF Running
<1>2. PICK n : n = {q \in Endpoints : IsFor(call[c].topic, endpoint'[q])}
    OBVIOUS
<1>3. PICK g \in BOOLEAN : g <=> (row = None /\ p \in call[c].matching)
    OBVIOUS
<1>4. call'[c] = [call[c] EXCEPT !.gone = @ \/ (row = None /\ p \in call[c].matching),
                                 !.always = @ \cap n, !.ever = @ \cup n]
    BY <1>2, Zenon DEF SetEndpoint
<1>5. call'[c] = Touched(call[c], n, g)
    BY <1>3, <1>4, Zenon DEF Touched
<1>6. \A topic : (topic = call[c].topic) => n = Now(topic)'
    BY <1>2 DEF Now
<1>7. n \in SUBSET Endpoints
    BY <1>2
<1>8. Informed(call'[c], call[c], n, g)
    BY <1>1, <1>5, <1>7, TouchedFields
<1>9. n = Now(call[c].topic)'
    BY <1>6, <1>8, Zenon DEF Informed
<1> QED BY <1>3, <1>8, <1>9, Zenon DEF Informed

\* A change to the endpoints, if only of one that nothing refers to, preserves IInv.
LEMMA SetEndpointStep ==
    ASSUME IInv, NEW p \in Endpoints, NEW row \in EndpointRow \cup {None},
           row = None => ~Referenced(p),
           SetEndpoint(p, row)
    PROVE  IInv'
<1>1. /\ endpoint' = [endpoint EXCEPT ![p] = row]
      /\ UNCHANGED <<event, told, faults>>
    BY Zenon DEF SetEndpoint
<1>2. /\ endpoint' \in [Endpoints -> EndpointRow \cup {None}]
      /\ endpoint'[p] = row /\ \A q \in Endpoints : q # p => endpoint'[q] = endpoint[q]
    BY <1>1 DEF IInv, TypeOK
<1>3. ASSUME NEW c \in Calls, Running(c)
      PROVE  /\ call'[c] \in CallState /\ call'[c].pc = call[c].pc
             /\ call'[c].key = call[c].key /\ call'[c].topic = call[c].topic
             /\ call'[c].reply = call[c].reply
             /\ call'[c].matching = call[c].matching /\ call'[c].to = call[c].to
             /\ (call'[c].gone <=> call[c].gone \/ (row = None /\ p \in call[c].matching))
             /\ call'[c].always = call[c].always \cap Now(call[c].topic)'
             /\ call'[c].ever = call[c].ever \cup Now(call[c].topic)'
    BY <1>3, SetEndpointTouches
<1>4. ASSUME NEW c \in Calls, ~Running(c)
      PROVE  call'[c] = call[c]
    BY <1>4, Zenon DEF SetEndpoint
<1>5. call' \in [Calls -> CallState \cup {None}]
    <2>1. \A c \in Calls : call'[c] \in CallState \cup {None}
        BY <1>3, <1>4 DEF IInv, TypeOK
    <2>2. call' = [c \in Calls |-> call'[c]]
        BY Zenon DEF SetEndpoint
    <2> QED BY <2>1, <2>2
<1>6. TypeOK'
    BY <1>1, <1>2, <1>5 DEF IInv, TypeOK
<1>7. \A c \in Calls : call'[c] # None => call[c] # None
    BY <1>4 DEF Running
<1>8. \A c \in Calls : Running(c)' = Running(c)
    BY <1>3, <1>4, CallFields DEF Running
<1>9. OneHolder'
    <2>1. \A c \in Calls : Running(c) => call'[c].pc = call[c].pc /\ call'[c].key = call[c].key
        BY <1>3
    <2> QED BY <1>8, <2>1 DEF IInv, OneHolder
<1>10. ToldOnce'
    BY <1>1 DEF IInv, ToldOnce
<1>11. NoneDangling'
    BY <1>1, <1>2, NoneAssumption DEF IInv, NoneDangling, Referenced, TypeOK, EventRow
<1>12. ASSUME NEW b \in Calls, call'[b] # None
       PROVE  /\ KeyIsSound(call[b])'
              /\ ReplyIsSound(call[b])'
              /\ MomentIsSound(call[b])'
              /\ TargetsExist(call[b])'
    <2>0. /\ call[b] \in CallState /\ call[b] # None
          /\ KeyIsSound(call[b]) /\ ReplyIsSound(call[b])
          /\ MomentIsSound(call[b]) /\ TargetsExist(call[b])
        BY <1>7, <1>12, RunningCall
    <2>1. CASE ~Running(b)
        <3>1. call'[b] = call[b] /\ call[b].pc \notin InCall
            BY <1>4, <2>0, <2>1 DEF Running
        <3>2. KeyIsSound(call[b])' /\ MomentIsSound(call[b])' /\ TargetsExist(call[b])'
            BY <3>1 DEF KeyIsSound, MomentIsSound, TargetsExist, InCall, HoldsKey
        <3> QED BY <1>1, <2>0, <3>1, <3>2 DEF ReplyIsSound
    <2>2. CASE Running(b)
        <3>0. call[b].pc \in InCall
            BY <2>2 DEF Running
        <3>1. KeyIsSound(call[b])' /\ ReplyIsSound(call[b])'
            BY <1>1, <1>3, <2>0, <2>2 DEF KeyIsSound, ReplyIsSound
        <3>2. MomentIsSound(call[b])'
            BY <1>3, <2>0, <2>2, <3>0 DEF MomentIsSound
        <3>3. TargetsExist(call[b])'
            <4>1. CASE call[b].pc \in {"insert", "fan_out"}
                <5>1. call'[b].pc # "commit"
                    BY <1>3, <2>2, <4>1
                <5>2. ASSUME ~call'[b].gone, NEW q \in call[b].matching
                      PROVE  endpoint'[q] # None
                    <6>1. q \in Endpoints /\ endpoint[q] # None
                        BY <1>3, <2>0, <2>2, <4>1, <5>2, CallFields DEF TargetsExist
                    <6> QED BY <1>2, <1>3, <2>2, <5>2, <6>1
                <5> QED BY <1>3, <2>2, <4>1, <5>1, <5>2 DEF TargetsExist
            <4>2. CASE call[b].pc = "commit"
                <5>1. call'[b].pc = "commit" /\ call'[b].to = call[b].to
                    BY <1>3, <2>2, <4>2
                <5>2. ASSUME NEW q \in call[b].to
                      PROVE  endpoint'[q] # None
                    <6>1. q \in Endpoints /\ endpoint[q] # None
                        BY <2>0, <4>2, <5>2, CallFields DEF TargetsExist
                    <6>2. Referenced(q)
                        BY <2>0, <4>2, <5>2 DEF Referenced, At
                    <6> QED BY <1>2, <6>1, <6>2
                <5> QED BY <5>1, <5>2 DEF TargetsExist
            <4>3. CASE call[b].pc \notin {"insert", "fan_out", "commit"}
                <5>1. call'[b].pc \notin {"insert", "fan_out", "commit"}
                    BY <1>3, <2>2, <4>3
                <5> QED BY <5>1 DEF TargetsExist
            <4> QED BY <4>1, <4>2, <4>3
        <3> QED BY <3>1, <3>2, <3>3
    <2> QED BY <2>1, <2>2
<1> QED BY <1>6, <1>9, <1>10, <1>11, <1>12 DEF IInv

----------------------------------------------------------------------------
(* The theorems *)

\* IInv holds at first.
LEMMA IngestInit == Init => IInv
<1> SUFFICES ASSUME Init PROVE IInv
    OBVIOUS
<1>1. TypeOK
    BY IngestAssumption DEF Init, TypeOK
<1>2. \A c \in Calls : call[c] = None
    BY DEF Init
<1>3. \A c \in Calls : ~Running(c)
    BY <1>2 DEF Running
<1>4. OneHolder /\ ToldOnce /\ NoneDangling
    BY <1>3 DEF Init, OneHolder, ToldOnce, NoneDangling
<1> QED BY <1>1, <1>2, <1>4 DEF IInv

\* An administrator's statement is a change to one endpoint.
LEMMA AdministrationStep ==
    ASSUME IInv, Administration
    PROVE  IInv'
<1>1. PICK p \in Endpoints : CreateEndpoint(p) \/ UpdateEndpoint(p) \/ DeleteEndpoint(p)
    BY DEF Administration
<1>2. \A active \in BOOLEAN, topics \in ValidTopics :
        /\ [active |-> active, topics |-> topics] \in EndpointRow
        /\ [active |-> active, topics |-> topics] # None
    BY NoneAssumption DEF ValidTopics, EndpointRow
<1>3. CASE CreateEndpoint(p)
    BY <1>2, <1>3, SetEndpointStep DEF CreateEndpoint
<1>4. CASE UpdateEndpoint(p)
    BY <1>2, <1>4, SetEndpointStep DEF UpdateEndpoint
<1>5. CASE DeleteEndpoint(p)
    BY <1>5, SetEndpointStep DEF DeleteEndpoint
<1> QED BY <1>1, <1>3, <1>4, <1>5

\* IInv is inductive.
LEMMA IngestStep == IInv /\ [Next]_vars => IInv'
<1> SUFFICES ASSUME IInv, [Next]_vars PROVE IInv'
    OBVIOUS
<1>1. CASE \E c \in Calls, k \in Keys, topic \in Topics :
             Start(c, k, topic) \/ StartRefused(c, k, topic)
    BY <1>1, StartStep, StartRefusedStep
<1>2. ASSUME NEW c \in Calls, CallStep(c) \/ Fails(c)
      PROVE  IInv'
    BY <1>2, BeginStep, InsertStep, FanOutStep, CommitStep, LookupStep, FailsStep DEF CallStep
<1>3. CASE Crash
    BY <1>3, CrashStep
<1>4. CASE Administration
    BY <1>4, AdministrationStep
<1>5. CASE UNCHANGED vars
    <2>1. \A s : /\ KeyIsSound(s)' <=> KeyIsSound(s)
                 /\ ReplyIsSound(s)' <=> ReplyIsSound(s)
                 /\ MomentIsSound(s)' <=> MomentIsSound(s)
                 /\ TargetsExist(s)' <=> TargetsExist(s)
        BY <1>5 DEF vars, KeyIsSound, ReplyIsSound, MomentIsSound, TargetsExist, Now, IsFor
    <2> QED BY <1>5, <2>1 DEF vars, IInv, TypeOK, OneHolder, Running, ToldOnce, NoneDangling
<1> QED BY <1>1, <1>2, <1>3, <1>4, <1>5 DEF Next

\* The tables and the calls have their types.
THEOREM IngestTypes == Spec => []TypeOK
<1>1. IInv => TypeOK
    BY DEF IInv
<1> QED BY <1>1, IngestInit, IngestStep, PTL DEF Spec

\* However calls with the same key overlap, fail and are repeated, at most one is
\* told that it created the event, and every reply says what is stored.
THEOREM RepliesTrue == Spec => []RepliesAreTrue
<1>1. IInv => RepliesAreTrue
    <2> SUFFICES ASSUME IInv PROVE RepliesAreTrue
        OBVIOUS
    <2>1. \A k \in Keys : told[k] <= 1
        BY DEF IInv, ToldOnce
    <2>2. ASSUME NEW c \in Calls, call[c] # None
          PROVE  ReplyIsSound(call[c])
        BY <2>2 DEF IInv
    <2> QED BY <2>1, <2>2 DEF RepliesAreTrue, ReplyIsSound
<1> QED BY <1>1, IngestInit, IngestStep, PTL DEF Spec

\* No delivery of an event outlives its endpoint, although subscribers are read
\* long before the deliveries that refer to them are inserted.
THEOREM DeliveriesHaveEndpoints == Spec => []NoneDangling
<1>1. IInv => NoneDangling
    BY DEF IInv
<1> QED BY <1>1, IngestInit, IngestStep, PTL DEF Spec

\* Only a commit changes the events, and only where there is none.
LEMMA OnlyCommitStores ==
    ASSUME IInv, [Next]_vars, NEW k \in Keys, event'[k] # event[k]
    PROVE  /\ event[k] = None
           /\ \E c \in Calls : /\ At(c, "commit") /\ call[c].key = k
                               /\ event'[k].to = call[c].to
<1>1. PICK c \in Calls : Commit(c)
    <2>1. \A c \in Calls, j \in Keys, topic \in Topics :
            Start(c, j, topic) \/ StartRefused(c, j, topic) => event' = event
        BY Zenon DEF Start, StartRefused
    <2>2. \A c \in Calls : \/ Begin(c) \/ InsertEvent(c) \/ FanOut(c) \/ Lookup(c) \/ Fails(c)
                           => event' = event
        BY Zenon DEF Begin, InsertEvent, FanOut, Lookup, Fails
    <2>3. Crash \/ Administration => event' = event
        BY Zenon DEF Crash, Administration, CreateEndpoint, UpdateEndpoint,
                     DeleteEndpoint, SetEndpoint
    <2> QED BY <2>1, <2>2, <2>3, Zenon DEF Next, vars, CallStep
<1>2. /\ At(c, "commit") /\ KeyIsSound(call[c])
      /\ event' = [event EXCEPT ![call[c].key] =
                      [topic |-> call[c].topic, to |-> call[c].to]]
      /\ event \in [Keys -> EventRow \cup {None}]
    BY <1>1, RunningCall, Zenon DEF Commit, At, IInv, TypeOK
<1>3. call[c].key = k /\ event'[k] = [topic |-> call[c].topic, to |-> call[c].to]
    BY <1>2
<1>4. event[k] = None
    BY <1>2, <1>3 DEF KeyIsSound, At, HoldsKey
<1> QED BY <1>2, <1>3, <1>4

\* An event is stored once: it and its deliveries never change again.
THEOREM EventsStoredOnce == Spec => StoredOnce
<1>1. IInv /\ [Next]_vars =>
        [\A k \in Keys : event[k] # None => event'[k] = event[k]]_vars
    BY OnlyCommitStores
<1> QED BY <1>1, IngestInit, IngestStep, PTL DEF Spec, StoredOnce

\* The deliveries of an event are those of subscribers of one moment of its call,
\* whatever happens to the endpoints between the read, the insert and the commit.
THEOREM FanOutsOfOneMoment == Spec => FanOutOfOneMoment
<1>1. IInv /\ [Next]_vars =>
        [\A k \in Keys : event[k] = None /\ event'[k] # None =>
           \E c \in Calls : /\ At(c, "commit")
                            /\ call[c].key = k
                            /\ call[c].always \subseteq event'[k].to
                            /\ event'[k].to \subseteq call[c].ever]_vars
    <2> SUFFICES ASSUME IInv, [Next]_vars, NEW k \in Keys,
                        event[k] = None, event'[k] # None
                 PROVE  \E c \in Calls : /\ At(c, "commit")
                                         /\ call[c].key = k
                                         /\ call[c].always \subseteq event'[k].to
                                         /\ event'[k].to \subseteq call[c].ever
        OBVIOUS
    <2>1. PICK c \in Calls : /\ At(c, "commit") /\ call[c].key = k
                             /\ event'[k].to = call[c].to
        BY OnlyCommitStores
    <2>2. MomentIsSound(call[c]) /\ call[c].pc = "commit"
        BY <2>1, RunningCall DEF At
    <2> QED BY <2>1, <2>2 DEF MomentIsSound, InCall, HoldsKey
<1> QED BY <1>1, IngestInit, IngestStep, PTL DEF Spec, FanOutOfOneMoment

----------------------------------------------------------------------------
(* EventIngest implements EventStore *)

exists == {p \in Endpoints : endpoint[p] # None}
subscribers == [t \in Topics |-> {p \in Endpoints : IsFor(t, endpoint[p])}]
request == [c \in Calls |-> Request(call[c])]

\* What ties the fields of a call to the steps it has taken.
Linked(s) ==
    /\ s.pc = "begin" => s.matching = {} /\ ~s.gone
    /\ s.pc = "commit" => s.matching = {} /\ ~s.gone
    /\ s.pc = "lookup" /\ ~s.gone => \A p \in s.matching : endpoint[p] # None
    /\ s.pc = "done" => s.reply # "none" /\ ~s.gone

AllLinked == \A c \in Calls : call[c] # None => Linked(call[c])

JInv == IInv /\ AllLinked

\* A call as EventStore has it.
Rec(k, topic, view, lost, reply) ==
    [key |-> k, topic |-> topic, view |-> view, lost |-> lost, reply |-> reply]

\* What EventStore's steps make of it: a look,
LEMMA RecSeen ==
    ASSUME NEW k, NEW topic, NEW view, NEW lost, NEW reply, NEW v
    PROVE  [Rec(k, topic, view, lost, reply) EXCEPT !.view = v] = Rec(k, topic, v, lost, reply)
    BY DEF Rec

\* and the deletion of an endpoint.
LEMMA RecLost ==
    ASSUME NEW k, NEW topic, NEW view, NEW lost, NEW reply, NEW z
    PROVE  [Rec(k, topic, view, lost, reply) EXCEPT !.lost = z] = Rec(k, topic, view, z, reply)
    BY DEF Rec

\* Its type.
LEMMA RecType ==
    ASSUME NEW k \in Keys, NEW topic \in Topics, NEW view \in (SUBSET Endpoints) \cup {None},
           NEW lost \in BOOLEAN, NEW reply \in {"none", "created", "already_exists", "failed"}
    PROVE  Rec(k, topic, view, lost, reply) \in Abstract!Requests
    BY DEF Rec, Abstract!Requests

\* The call that a state of EventIngest maps to.
LEMMA RequestFields ==
    ASSUME NEW s \in CallState
    PROVE  /\ Request(s) = Rec(s.key, s.topic, View(s), s.gone, Code(s.reply))
           /\ Request(s) # None
           /\ Request(s).key = s.key /\ Request(s).topic = s.topic
           /\ Request(s).view = View(s) /\ Request(s).lost = s.gone
           /\ Request(s).reply = Code(s.reply)
           /\ Code(s.reply) = "none" <=> s.reply = "none"
<1>1. s # None
    BY CallFields
<1>2. Request(s) = Rec(s.key, s.topic, View(s), s.gone, Code(s.reply))
    BY <1>1, Zenon DEF Request, Rec
<1>3. View(s) \in (SUBSET Endpoints) \cup {None}
    <2>1. s.matching \in SUBSET Endpoints /\ s.to \in SUBSET Endpoints
        BY CallFields
    <2> QED BY <2>1 DEF View
<1>4. Code(s.reply) \in {"none", "created", "already_exists", "failed"}
    BY CallFields DEF Code, Replies
<1>5. Request(s) \in Abstract!Requests
    <2>1. s.key \in Keys /\ s.topic \in Topics /\ s.gone \in BOOLEAN
        BY CallFields
    <2> QED BY <1>2, <1>3, <1>4, <2>1, RecType
<1>6. Code(s.reply) = "none" <=> s.reply = "none"
    BY DEF Code
<1>7. \A k, topic, view, lost, reply :
        /\ Rec(k, topic, view, lost, reply).key = k
        /\ Rec(k, topic, view, lost, reply).topic = topic
        /\ Rec(k, topic, view, lost, reply).view = view
        /\ Rec(k, topic, view, lost, reply).lost = lost
        /\ Rec(k, topic, view, lost, reply).reply = reply
    BY Zenon DEF Rec
<1>8. /\ Request(s).key = s.key /\ Request(s).topic = s.topic
      /\ Request(s).view = View(s) /\ Request(s).lost = s.gone
      /\ Request(s).reply = Code(s.reply)
    <2> PICK q : q = Rec(s.key, s.topic, View(s), s.gone, Code(s.reply))
        OBVIOUS
    <2>1. q.key = s.key /\ q.topic = s.topic /\ q.view = View(s) /\ q.lost = s.gone
          /\ q.reply = Code(s.reply)
        BY <1>7
    <2>2. Request(s) = q
        BY <1>2
    <2> QED BY <2>1, <2>2
<1> QED BY <1>2, <1>5, <1>6, <1>8, StoreAssumption

\* A call is open there as long as it runs here.
LEMMA OpenRuns ==
    ASSUME JInv, NEW c \in Calls
    PROVE  Abstract!Open(c) <=> Running(c)
<1>1. CASE call[c] = None
    BY <1>1 DEF Abstract!Open, Running, Request
<1>2. CASE call[c] # None
    <2>1. call[c] \in CallState /\ KeyIsSound(call[c]) /\ Linked(call[c])
        BY <1>2, RunningCall DEF JInv, AllLinked
    <2>2. call[c].pc \in InCall <=> call[c].reply = "none"
        BY <2>1, CallFields DEF KeyIsSound, Linked
    <2>3. Request(call[c]).reply = Code(call[c].reply)
        BY <2>1, RequestFields
    <2> QED BY <1>2, <2>1, <2>2, <2>3, RequestFields DEF Abstract!Open, Running
<1> QED BY <1>1, <1>2

\* A step that moves one call and no endpoint, as EventStore sees it.
LEMMA OneRequestMoves ==
    ASSUME JInv, NEW c \in Calls, NEW t \in CallState, call' = [call EXCEPT ![c] = t],
           endpoint' = endpoint, Linked(t)
    PROVE  /\ request' = [request EXCEPT ![c] = Request(t)]
           /\ UNCHANGED <<exists, subscribers>>
           /\ AllLinked'
<1>1. call'[c] = t /\ \A b \in Calls : b # c => call'[b] = call[b]
    BY OthersStay DEF JInv, IInv
<1>2. request' = [request EXCEPT ![c] = Request(t)]
    <2>1. request' = [b \in Calls |-> IF b = c THEN Request(t) ELSE request[b]]
        <3>1. request' = [b \in Calls |-> Request(call'[b])]
            BY DEF request
        <3>2. \A b \in Calls : Request(call'[b]) = IF b = c THEN Request(t) ELSE request[b]
            BY <1>1 DEF request
        <3> HIDE DEF request
        <3> QED BY <3>1, <3>2
    <2>2. DOMAIN request = Calls
        BY DEF request
    <2> HIDE DEF request
    <2> QED BY <2>1, <2>2
<1>3. UNCHANGED <<exists, subscribers>>
    BY DEF exists, subscribers
<1>4. AllLinked'
    BY <1>1 DEF Linked, JInv, AllLinked
<1> QED BY <1>2, <1>3, <1>4

\* Answered, as EventStore sees it.
LEMMA AnsweredRequest ==
    ASSUME NEW c \in Calls, call[c] \in CallState, NEW reply \in Replies, reply # "none"
    PROVE  /\ Answered(c, reply) \in CallState
           /\ Linked(Answered(c, reply))
           /\ Request(Answered(c, reply)) =
                Rec(call[c].key, call[c].topic,
                    IF reply = "created" THEN call[c].to ELSE None, FALSE, Code(reply))
<1> DEFINE t == Answered(c, reply)
<1>1. /\ t \in CallState /\ t.pc = "done" /\ t.reply = reply /\ t.key = call[c].key
      /\ t.topic = call[c].topic /\ (reply = "created" => t.to = call[c].to)
    BY AnsweredFields
<1>2. t.gone = FALSE
    BY Zenon DEF Answered, CallState
<1> HIDE DEF t
<1>3. View(t) = IF reply = "created" THEN call[c].to ELSE None
    BY <1>1 DEF View
<1>4. Request(t) = Rec(t.key, t.topic, View(t), t.gone, Code(t.reply))
    BY <1>1, RequestFields
<1>5. Linked(t)
    BY <1>1, <1>2 DEF Linked
<1>6. Request(t) = Rec(call[c].key, call[c].topic,
                       IF reply = "created" THEN call[c].to ELSE None, FALSE, Code(reply))
    BY <1>1, <1>2, <1>3, <1>4, Zenon
<1> QED BY <1>1, <1>5, <1>6 DEF t

\* What a step finds of a call that runs.
LEMMA RunningRequest ==
    ASSUME JInv, NEW c \in Calls, Running(c)
    PROVE  /\ call[c] \in CallState /\ call[c].reply = "none"
           /\ KeyIsSound(call[c]) /\ TargetsExist(call[c]) /\ Linked(call[c])
           /\ Abstract!Open(c)
           /\ request[c] = Request(call[c])
           /\ request[c].key = call[c].key /\ request[c].topic = call[c].topic
           /\ request[c].view = View(call[c]) /\ request[c].lost = call[c].gone
           /\ Request(call[c]) = Rec(call[c].key, call[c].topic, View(call[c]),
                                     call[c].gone, "none")
<1>1. call[c] # None /\ call[c].pc \in InCall
    BY DEF Running
<1>2. /\ call[c] \in CallState /\ KeyIsSound(call[c]) /\ TargetsExist(call[c])
      /\ Linked(call[c])
    BY <1>1, RunningCall DEF JInv, AllLinked
<1>3. call[c].reply = "none" /\ Code(call[c].reply) = "none"
    BY <1>1, <1>2, RequestFields DEF KeyIsSound
<1>4. request[c] = Request(call[c])
    BY DEF request
<1>5. Abstract!Open(c)
    BY OpenRuns
<1>6. /\ Request(call[c]).key = call[c].key /\ Request(call[c]).topic = call[c].topic
      /\ Request(call[c]).view = View(call[c]) /\ Request(call[c]).lost = call[c].gone
      /\ Request(call[c]) = Rec(call[c].key, call[c].topic, View(call[c]),
                                call[c].gone, Code(call[c].reply))
    BY <1>2, RequestFields
<1> QED BY <1>2, <1>3, <1>4, <1>5, <1>6

\* And one that leaves what EventStore sees of the call.
LEMMA RequestStays ==
    ASSUME JInv, NEW c \in Calls, Running(c), NEW t \in CallState,
           call' = [call EXCEPT ![c] = t], UNCHANGED <<endpoint, event, faults>>, Linked(t),
           SameButTargets(t, call[c]), View(t) = View(call[c])
    PROVE  UNCHANGED Abstract!vars /\ AllLinked'
<1> DEFINE s == call[c]
<1>1. /\ request' = [request EXCEPT ![c] = Request(t)]
      /\ UNCHANGED <<exists, subscribers>> /\ AllLinked'
    BY OneRequestMoves
<1>2. Request(t) = Request(s)
    <2>1. Request(t) = Rec(t.key, t.topic, View(t), t.gone, Code(t.reply))
        BY RequestFields
    <2>2. Request(s) = Rec(s.key, s.topic, View(s), s.gone, Code(s.reply))
        BY RunningRequest, RequestFields
    <2>3. t.key = s.key /\ t.topic = s.topic /\ t.gone = s.gone /\ t.reply = s.reply
        BY Zenon DEF SameButTargets
    <2> QED BY <2>1, <2>2, <2>3, Zenon
<1>3. request' = request
    <2>1. request[c] = Request(s) /\ DOMAIN request = Calls
        BY DEF request
    <2>2. request = [b \in Calls |-> request[b]]
        BY DEF request
    <2> HIDE DEF request
    <2> QED BY <1>1, <1>2, <2>1, <2>2
<1> QED BY <1>1, <1>3, Zenon DEF Abstract!vars, exists, subscribers, request

\* The snapshot of the transaction is the look.
LEMMA BeginRefines ==
    ASSUME JInv, NEW c \in Calls, Begin(c)
    PROVE  Abstract!Look(c) /\ AllLinked'
<1> DEFINE s == call[c]
<1>0. PICK m, t : m = Now(s.topic) /\ t = Begun(s, m)
    OBVIOUS
<1>1. s.pc = "begin" /\ Running(c)
    BY DEF Begin, At, Running, InCall
<1>2. m = Subscribers(endpoint, s.topic) /\ m \in SUBSET Endpoints
    BY <1>0 DEF Now, Subscribers, IsFor
<1>3. call' = [call EXCEPT ![c] = t] /\ UNCHANGED <<endpoint, event, told, faults>>
    BY <1>0, <1>2, Zenon DEF Begin, Begun
<1>4. t \in CallState /\ t.pc = "insert" /\ t.matching = m /\ SameButTargets(t, s)
    BY <1>0, <1>1, <1>2, RunningRequest, BegunFields
<1>5. Linked(t)
    BY <1>4 DEF Linked
<1>6. /\ request' = [request EXCEPT ![c] = Request(t)]
      /\ UNCHANGED <<exists, subscribers>> /\ AllLinked'
    BY <1>3, <1>4, <1>5, OneRequestMoves
<1>7. View(s) = None /\ View(t) = m
    <2>1. s.reply = "none"
        BY <1>1, RunningRequest
    <2> QED BY <1>1, <1>4, <2>1 DEF View
<1>8. Request(t) = [Request(s) EXCEPT !.view = m]
    <2>1. Request(s) = Rec(s.key, s.topic, None, s.gone, "none")
        BY <1>1, <1>7, RunningRequest
    <2>2. Request(t) = Rec(s.key, s.topic, m, s.gone, "none")
        <3>1. s.reply = "none" /\ Code(s.reply) = "none"
            BY <1>1, RunningRequest, RequestFields
        <3>2. Request(t) = Rec(t.key, t.topic, View(t), t.gone, Code(t.reply))
            BY <1>4, RequestFields
        <3>3. /\ t.key = s.key /\ t.topic = s.topic /\ t.gone = s.gone
              /\ t.reply = s.reply /\ View(t) = m
            BY <1>4, <1>7, Zenon DEF SameButTargets
        <3> QED BY <3>1, <3>2, <3>3, Zenon
    <2>3. [Rec(s.key, s.topic, None, s.gone, "none") EXCEPT !.view = m]
            = Rec(s.key, s.topic, m, s.gone, "none")
        <3> PICK k, topic, lost : k = s.key /\ topic = s.topic /\ lost = s.gone
            OBVIOUS
        <3>1. [Rec(k, topic, None, lost, "none") EXCEPT !.view = m] = Rec(k, topic, m, lost, "none")
            BY RecSeen
        <3> QED BY <3>1
    <2> QED BY <2>1, <2>2, <2>3, Zenon
<1>9. /\ Abstract!Open(c) /\ request[c].view = None
      /\ request[c] = Request(s) /\ request[c].topic = s.topic
    BY <1>1, <1>7, RunningRequest
<1>10. subscribers[request[c].topic] = m
    <2>1. s.topic \in Topics
        BY <1>1, RunningRequest, CallFields
    <2> QED BY <1>0, <1>9, <2>1 DEF subscribers, Now
<1>11. request' = [request EXCEPT ![c].view = subscribers[request[c].topic]]
    BY <1>6, <1>8, <1>9, <1>10, Zenon
<1>12. Abstract!Look(c)
    BY <1>3, <1>6, <1>9, <1>11, Zenon DEF Abstract!Look, exists, subscribers, request
<1> QED BY <1>6, <1>12

\* The INSERT of the event, with or without a row, is no step.
LEMMA InsertRefines ==
    ASSUME JInv, NEW c \in Calls, InsertEvent(c)
    PROVE  UNCHANGED Abstract!vars /\ AllLinked'
<1> DEFINE s == call[c]
           pc == IF event[s.key] = None THEN "fan_out" ELSE "lookup"
<1>0. PICK t : t = [s EXCEPT !.pc = pc]
    OBVIOUS
<1>1. s.pc = "insert" /\ Running(c)
    BY DEF InsertEvent, At, Running, InCall
<1>2. call' = [call EXCEPT ![c] = t] /\ UNCHANGED <<endpoint, event, told, faults>>
    BY <1>0, Zenon DEF InsertEvent
<1>3. pc \in InCall /\ pc \in {"fan_out", "lookup"}
    BY DEF InCall, HoldsKey
<1>4. t \in CallState /\ t.pc = pc /\ t.matching = s.matching /\ SameButTargets(t, s)
    BY <1>0, <1>1, <1>3, RunningRequest, InsertedFields
<1>5. Linked(t)
    <2>1. ~s.gone => \A p \in s.matching : endpoint[p] # None
        BY <1>1, RunningRequest DEF TargetsExist
    <2> QED BY <1>3, <1>4, <2>1 DEF Linked, SameButTargets
<1>6. View(t) = View(s)
    BY <1>1, <1>3, <1>4 DEF View
<1> QED BY <1>1, <1>2, <1>4, <1>5, <1>6, RequestStays

\* An answer, as EventStore gives it.
LEMMA AnswerRefines ==
    ASSUME JInv, NEW c \in Calls, Running(c), NEW reply \in Replies, reply # "none",
           Answer(c, reply), endpoint' = endpoint, NEW view,
           view = IF reply = "created" THEN call[c].to ELSE None
    PROVE  /\ Abstract!Reply(c, Code(reply), view)
           /\ UNCHANGED <<exists, subscribers>> /\ AllLinked'
<1>0. PICK t : t = Answered(c, reply)
    OBVIOUS
<1>1. /\ t \in CallState /\ Linked(t)
      /\ Request(t) = Rec(call[c].key, call[c].topic, view, FALSE, Code(reply))
    BY <1>0, RunningRequest, AnsweredRequest
<1>2. call' = [call EXCEPT ![c] = t]
    BY <1>0 DEF Answer
<1>3. /\ request' = [request EXCEPT ![c] = Request(t)]
      /\ UNCHANGED <<exists, subscribers>> /\ AllLinked'
    BY <1>1, <1>2, OneRequestMoves
<1>4. request[c].key = call[c].key /\ request[c].topic = call[c].topic
    BY RunningRequest
<1>5. request' = [request EXCEPT ![c] =
         Rec(request[c].key, request[c].topic, view, FALSE, Code(reply))]
    BY <1>1, <1>3, <1>4, Zenon
<1>6. Abstract!Reply(c, Code(reply), view)
    BY <1>5, Zenon DEF Abstract!Reply, request, Rec
<1> QED BY <1>3, <1>6

\* The fan-out is no step, unless it fails for a subscriber that has gone.
LEMMA FanOutRefines ==
    ASSUME JInv, NEW c \in Calls, FanOut(c)
    PROVE  (UNCHANGED Abstract!vars \/ Abstract!Refuse(c)) /\ AllLinked'
<1> DEFINE s == call[c]
<1>0. PICK t : t = FannedOut(s)
    OBVIOUS
<1>1. s.pc = "fan_out" /\ Running(c) /\ UNCHANGED <<endpoint, event, told, faults>>
    BY DEF FanOut, At, Running, InCall, HoldsKey
<1>2. CASE s.gone
    <2>1. Answer(c, "internal")
        BY <1>2 DEF FanOut
    <2>2. "internal" \in Replies /\ Code("internal") = "failed"
        BY DEF Replies, Code
    <2>3. Abstract!Reply(c, "failed", None) /\ UNCHANGED <<exists, subscribers>> /\ AllLinked'
        BY <1>1, <2>1, <2>2, AnswerRefines
    <2>4. Abstract!Open(c) /\ request[c].lost
        BY <1>1, <1>2, RunningRequest
    <2>5. Abstract!Refuse(c)
        BY <1>1, <2>3, <2>4, Zenon DEF Abstract!Refuse, exists, subscribers, request
    <2> QED BY <2>3, <2>5
<1>3. CASE ~s.gone
    <2>1. call' = [call EXCEPT ![c] = t]
        BY <1>0, <1>3, Zenon DEF FanOut, FannedOut
    <2>2. t \in CallState /\ t.pc = "commit" /\ t.to = s.matching /\ SameButTargets(t, s)
        BY <1>0, <1>1, RunningRequest, FannedOutFields
    <2>3. t.matching = {} /\ ~t.gone
        <3>1. t.matching = {}
            BY <1>0, <1>1, RunningRequest, Zenon DEF FannedOut, CallState
        <3>2. ~t.gone
            BY <1>3, <2>2, Zenon DEF SameButTargets
        <3> QED BY <3>1, <3>2
    <2>4. Linked(t)
        BY <2>2, <2>3 DEF Linked
    <2>5. View(t) = View(s)
        BY <1>1, <2>2 DEF View
    <2> QED BY <1>1, <2>1, <2>2, <2>4, <2>5, RequestStays
<1> QED BY <1>2, <1>3

\* The commit is the step that stores, with the subscribers of the look.
LEMMA CommitRefines ==
    ASSUME JInv, NEW c \in Calls, Commit(c)
    PROVE  Abstract!Store(c) /\ AllLinked'
<1> DEFINE s == call[c]
<1>1. s.pc = "commit" /\ Running(c) /\ endpoint' = endpoint
    BY DEF Commit, At, Running, InCall, HoldsKey
<1>2. /\ event' = [event EXCEPT ![s.key] = [topic |-> s.topic, to |-> s.to]]
      /\ \/ Answer(c, "created") /\ faults' = faults
         \/ Answer(c, "internal") /\ faults' = faults + 1
    BY Zenon DEF Commit
<1>3. /\ s \in CallState /\ s.reply = "none" /\ KeyIsSound(s) /\ Linked(s)
      /\ Abstract!Open(c) /\ request[c].key = s.key /\ request[c].topic = s.topic
      /\ request[c].view = View(s) /\ request[c].lost = s.gone
    BY <1>1, RunningRequest
<1>4. request[c].view = s.to /\ request[c].view # None
    <2>1. View(s) = s.to
        BY <1>1 DEF View
    <2>2. s.to # None
        BY <1>3, CallFields, StoreAssumption
    <2> QED BY <1>3, <2>1, <2>2
<1>5. ~request[c].lost
    BY <1>1, <1>3 DEF Linked
<1>6. event[request[c].key] = None
    BY <1>1, <1>3 DEF KeyIsSound, HoldsKey
<1>7. event' = [event EXCEPT ![request[c].key] =
                  [topic |-> request[c].topic, to |-> request[c].view]]
    BY <1>2, <1>3, <1>4, Zenon
<1>8. /\ "created" \in Replies /\ Code("created") = "created"
      /\ "internal" \in Replies /\ Code("internal") = "failed"
    BY DEF Replies, Code
<1>9. /\ \/ Abstract!Reply(c, "created", request[c].view) /\ faults' = faults
         \/ Abstract!Reply(c, "failed", None) /\ faults' = faults + 1
      /\ UNCHANGED <<exists, subscribers>> /\ AllLinked'
    <2>1. CASE Answer(c, "created") /\ faults' = faults
        BY <1>1, <1>4, <1>8, <2>1, AnswerRefines
    <2>2. CASE Answer(c, "internal") /\ faults' = faults + 1
        BY <1>1, <1>8, <2>2, AnswerRefines
    <2> QED BY <1>2, <2>1, <2>2
<1>10. Abstract!Store(c)
    BY <1>3, <1>4, <1>5, <1>6, <1>7, <1>9, Zenon
       DEF Abstract!Store, exists, subscribers, request
<1> QED BY <1>9, <1>10

\* The lookup finds.
LEMMA LookupRefines ==
    ASSUME JInv, NEW c \in Calls, Lookup(c)
    PROVE  Abstract!Find(c) /\ AllLinked'
<1> DEFINE s == call[c]
<1>1. s.pc = "lookup" /\ Running(c) /\ UNCHANGED <<endpoint, event, told, faults>>
    BY DEF Lookup, At, Running, InCall
<1>2. event[s.key] # None /\ Abstract!Open(c) /\ request[c].key = s.key
    BY <1>1, RunningRequest DEF KeyIsSound
<1>3. Answer(c, "already_exists")
    BY <1>2 DEF Lookup
<1>4. "already_exists" \in Replies /\ Code("already_exists") = "already_exists"
    BY DEF Replies, Code
<1>5. /\ Abstract!Reply(c, "already_exists", None)
      /\ UNCHANGED <<exists, subscribers>> /\ AllLinked'
    BY <1>1, <1>3, <1>4, AnswerRefines
<1>6. Abstract!Find(c)
    BY <1>1, <1>2, <1>5, Zenon DEF Abstract!Find, exists, subscribers, request
<1> QED BY <1>5, <1>6

\* A failure is one.
LEMMA FailsRefines ==
    ASSUME JInv, NEW c \in Calls, Fails(c)
    PROVE  Abstract!Fail(c) /\ AllLinked'
<1>1. /\ Running(c) /\ UNCHANGED <<endpoint, event, told>> /\ faults' = faults + 1
      /\ Answer(c, FailureReply(c))
    BY DEF Fails
<1>2. /\ FailureReply(c) \in Replies
      /\ FailureReply(c) \in {"lookup_failed", "internal"}
      /\ Code(FailureReply(c)) = "failed"
    BY DEF FailureReply, Replies, Code
<1>3. /\ Abstract!Reply(c, "failed", None)
      /\ UNCHANGED <<exists, subscribers>> /\ AllLinked'
    BY <1>1, <1>2, AnswerRefines
<1>4. Abstract!Open(c)
    BY <1>1, OpenRuns
<1>5. Abstract!Fail(c)
    BY <1>1, <1>3, <1>4, Zenon DEF Abstract!Fail, exists, subscribers, request
<1> QED BY <1>3, <1>5

\* A crash ends the calls that are open.
LEMMA CrashRefines ==
    ASSUME JInv, Crash
    PROVE  Abstract!Die /\ AllLinked'
<1>1. /\ UNCHANGED <<endpoint, event, told>> /\ faults' = faults + 1
      /\ \A c \in Calls : call'[c] = IF Running(c) THEN None ELSE call[c]
    BY DEF Crash
<1>2. request' = [c \in Calls |-> IF Abstract!Open(c) THEN None ELSE request[c]]
    <2>1. request' = [c \in Calls |-> Request(call'[c])]
        BY DEF request
    <2>2. ASSUME NEW c \in Calls
          PROVE  Request(call'[c]) = IF Abstract!Open(c) THEN None ELSE request[c]
        <3>1. Request(None) = None /\ request[c] = Request(call[c])
            BY Zenon DEF Request, request
        <3>2. Abstract!Open(c) <=> Running(c)
            BY OpenRuns
        <3> QED BY <1>1, <3>1, <3>2, Zenon
    <2> HIDE DEF request
    <2> QED BY <2>1, <2>2, Zenon
<1>3. UNCHANGED <<exists, subscribers>>
    BY <1>1 DEF exists, subscribers
<1>4. Abstract!Die
    BY <1>1, <1>2, <1>3, Zenon DEF Abstract!Die, exists, subscribers, request
<1>5. ASSUME NEW c \in Calls, call'[c] # None PROVE Linked(call[c])'
    <2>1. call'[c] = call[c] /\ Linked(call[c])
        BY <1>1, <1>5 DEF JInv, AllLinked
    <2> QED BY <1>1, <2>1 DEF Linked
<1> QED BY <1>4, <1>5 DEF AllLinked

\* A client's call is one.
LEMMA StartRefines ==
    ASSUME JInv, NEW c \in Calls, NEW k \in Keys, NEW topic \in Topics, Start(c, k, topic)
    PROVE  Abstract!Ask(c, k, topic) /\ AllLinked'
<1>0. PICK t : t = [pc |-> "begin", key |-> k, topic |-> topic, reply |-> "none",
                    matching |-> {}, gone |-> FALSE, to |-> {},
                    always |-> Now(topic), ever |-> Now(topic)]
    OBVIOUS
<1>1. /\ call' = [call EXCEPT ![c] = t] /\ UNCHANGED <<endpoint, event, told, faults>>
      /\ ~Running(c)
    BY <1>0 DEF Start, Now
<1>2. t \in CallState
    BY <1>0, CallRecord DEF Now, InCall, Replies
<1>3. /\ t.pc = "begin" /\ t.key = k /\ t.topic = topic /\ t.reply = "none"
      /\ t.matching = {} /\ t.gone = FALSE
    BY <1>0, Zenon
<1>4. Linked(t)
    BY <1>3 DEF Linked
<1>5. /\ request' = [request EXCEPT ![c] = Request(t)]
      /\ UNCHANGED <<exists, subscribers>> /\ AllLinked'
    BY <1>1, <1>2, <1>4, OneRequestMoves
<1>6. Request(t) = Rec(k, topic, None, FALSE, "none")
    <2>1. View(t) = None /\ Code(t.reply) = "none"
        BY <1>3 DEF View, Code
    <2>2. Request(t) = Rec(t.key, t.topic, View(t), t.gone, Code(t.reply))
        BY <1>2, RequestFields
    <2> QED BY <1>3, <2>1, <2>2, Zenon
<1>7. request' = [request EXCEPT ![c] = Rec(k, topic, None, FALSE, "none")]
    BY <1>5, <1>6, Zenon
<1>8. ~Abstract!Open(c)
    BY <1>1, OpenRuns
<1>9. Abstract!Ask(c, k, topic)
    BY <1>1, <1>5, <1>7, <1>8, Zenon DEF Abstract!Ask, Rec, exists, subscribers, request
<1> QED BY <1>5, <1>9

\* So is one that is refused.
LEMMA StartRefusedRefines ==
    ASSUME JInv, NEW c \in Calls, NEW k \in Keys, NEW topic \in Topics,
           StartRefused(c, k, topic)
    PROVE  Abstract!Reject(c, k, topic) /\ AllLinked'
<1>0. PICK t : t = [pc |-> "done", key |-> k, topic |-> topic, reply |-> "internal",
                    matching |-> {}, gone |-> FALSE, to |-> {}, always |-> {}, ever |-> {}]
    OBVIOUS
<1>1. /\ call' = [call EXCEPT ![c] = t] /\ UNCHANGED <<endpoint, event, told, faults>>
      /\ ~Running(c)
    BY <1>0 DEF StartRefused
<1>2. t \in CallState
    BY <1>0, CallRecord DEF Replies
<1>3. /\ t.pc = "done" /\ t.key = k /\ t.topic = topic /\ t.reply = "internal"
      /\ t.gone = FALSE
    BY <1>0, Zenon
<1>4. Linked(t)
    BY <1>3 DEF Linked
<1>5. /\ request' = [request EXCEPT ![c] = Request(t)]
      /\ UNCHANGED <<exists, subscribers>> /\ AllLinked'
    BY <1>1, <1>2, <1>4, OneRequestMoves
<1>6. Request(t) = Rec(k, topic, None, FALSE, "failed")
    <2>1. View(t) = None /\ Code(t.reply) = "failed"
        BY <1>3 DEF View, Code
    <2>2. Request(t) = Rec(t.key, t.topic, View(t), t.gone, Code(t.reply))
        BY <1>2, RequestFields
    <2> QED BY <1>3, <2>1, <2>2, Zenon
<1>7. request' = [request EXCEPT ![c] = Rec(k, topic, None, FALSE, "failed")]
    BY <1>5, <1>6, Zenon
<1>8. ~Abstract!Open(c)
    BY <1>1, OpenRuns
<1>9. Abstract!Reject(c, k, topic)
    BY <1>1, <1>5, <1>7, <1>8, Zenon DEF Abstract!Reject, Rec, exists, subscribers, request
<1> QED BY <1>5, <1>9

\* What a call loses by a change to one endpoint is what it has seen of it.
LEMMA Loses ==
    ASSUME JInv, IInv', NEW p \in Endpoints, NEW row \in EndpointRow \cup {None},
           SetEndpoint(p, row), NEW c \in Calls, Running(c)
    PROVE  /\ call'[c].gone <=> \/ call[c].gone
                                \/ /\ View(call[c]) # None
                                   /\ ~(View(call[c]) \subseteq exists')
           /\ Linked(call[c])'
<1> DEFINE s == call[c]
           t == call'[c]
<1>1. /\ s \in CallState /\ s.reply = "none" /\ TargetsExist(s) /\ Linked(s)
      /\ s.pc \in InCall
    BY RunningRequest DEF Running
<1>2. /\ t.pc = s.pc /\ t.matching = s.matching /\ t.to = s.to /\ t \in CallState
      /\ (t.gone <=> s.gone \/ (row = None /\ p \in s.matching))
    BY SetEndpointTouches DEF JInv
<1>3. /\ endpoint'[p] = row /\ \A q \in Endpoints : q # p => endpoint'[q] = endpoint[q]
    BY Zenon DEF SetEndpoint, JInv, IInv, TypeOK
<1>4. s.matching \subseteq Endpoints /\ s.to \subseteq Endpoints
    BY <1>1, CallFields
<1>5. \A q : q \in exists' <=> q \in Endpoints /\ endpoint'[q] # None
    BY DEF exists
<1>6. CASE s.pc \in {"insert", "fan_out", "lookup"}
    <2>1. View(s) = s.matching /\ View(s) # None
        BY <1>4, <1>6, StoreAssumption DEF View
    <2>2. ~s.gone => \A q \in s.matching : endpoint[q] # None
        BY <1>1, <1>6 DEF TargetsExist, Linked
    <2>3. ~t.gone => \A q \in s.matching : endpoint'[q] # None
        <3>1. ASSUME ~t.gone, NEW q \in s.matching PROVE endpoint'[q] # None
            BY <1>2, <1>3, <1>4, <2>2, <3>1
        <3> QED BY <3>1
    <2>4. t.gone /\ ~s.gone => ~(s.matching \subseteq exists')
        BY <1>2, <1>3, <1>5
    <2>5. ~t.gone => s.matching \subseteq exists'
        BY <1>4, <1>5, <2>3
    <2>6. t.gone <=> s.gone \/ ~(s.matching \subseteq exists')
        BY <1>2, <2>4, <2>5
    <2>7. Linked(call[c])'
        BY <1>2, <1>6, <2>3 DEF Linked
    <2> QED BY <2>1, <2>6, <2>7
<1>7. CASE s.pc = "begin"
    <2>1. View(s) = None
        BY <1>1, <1>7 DEF View
    <2>2. s.matching = {} /\ ~s.gone /\ ~t.gone
        BY <1>1, <1>2, <1>7 DEF Linked
    <2>3. Linked(call[c])'
        BY <1>2, <1>7, <2>2 DEF Linked
    <2> QED BY <2>1, <2>2, <2>3
<1>8. CASE s.pc = "commit"
    <2>1. View(s) = s.to
        BY <1>8 DEF View
    <2>2. s.matching = {} /\ ~s.gone /\ ~t.gone
        BY <1>1, <1>2, <1>8 DEF Linked
    <2>3. s.to \subseteq exists'
        <3>1. t # None
            BY <1>2, CallFields
        <3>2. TargetsExist(call[c])'
            BY <3>1 DEF IInv
        <3>3. \A q \in s.to : endpoint'[q] # None
            BY <1>2, <1>8, <3>2 DEF TargetsExist
        <3> QED BY <1>4, <1>5, <3>3
    <2>4. Linked(call[c])'
        BY <1>2, <1>8, <2>2 DEF Linked
    <2> QED BY <2>1, <2>2, <2>3, <2>4
<1> QED BY <1>1, <1>6, <1>7, <1>8 DEF InCall, HoldsKey

\* An administrator's statement is a change.
LEMMA SetEndpointRefines ==
    ASSUME JInv, IInv', NEW p \in Endpoints, NEW row \in EndpointRow \cup {None},
           SetEndpoint(p, row)
    PROVE  Abstract!Change /\ AllLinked'
<1>1. event' = event /\ faults' = faults
    BY Zenon DEF SetEndpoint
<1>2. exists' \in SUBSET Endpoints
    BY DEF exists
<1>3. subscribers' \in [Topics -> SUBSET exists']
    BY DEF subscribers, exists, IsFor
<1>4. \A k \in Keys : event[k] # None => event[k].to \subseteq exists'
    <2>1. ASSUME NEW k \in Keys, event[k] # None PROVE event[k].to \subseteq exists'
        <3>1. event[k].to \subseteq Endpoints
            BY <2>1 DEF JInv, IInv, TypeOK, EventRow
        <3>2. \A q \in event[k].to : endpoint'[q] # None
            BY <1>1, <2>1 DEF IInv, NoneDangling
        <3> QED BY <3>1, <3>2 DEF exists
    <2> QED BY <2>1
<1>5. ASSUME NEW c \in Calls, ~Running(c)
      PROVE  call'[c] = call[c]
    BY <1>5, Zenon DEF SetEndpoint
<1>6. ASSUME NEW c \in Calls
      PROVE  Request(call'[c]) =
               IF Abstract!Open(c) /\ request[c].view # None /\ ~(request[c].view \subseteq exists')
               THEN [request[c] EXCEPT !.lost = TRUE]
               ELSE request[c]
    <2>0. request[c] = Request(call[c])
        BY DEF request
    <2>1. CASE ~Running(c)
        <3>1. ~Abstract!Open(c) /\ call'[c] = call[c]
            BY <1>5, <2>1, OpenRuns
        <3> QED BY <2>0, <3>1, Zenon
    <2>2. CASE Running(c)
        <3> DEFINE s == call[c]
                   t == call'[c]
        <3>1. PICK k, topic, view, lost :
                /\ k = s.key /\ topic = s.topic /\ view = View(s) /\ lost = s.gone
                /\ Request(s) = Rec(k, topic, view, lost, "none")
            BY <2>2, RunningRequest
        <3>2. PICK gone : gone = t.gone
            OBVIOUS
        <3>3. /\ t \in CallState /\ t.pc = s.pc /\ t.key = k /\ t.topic = topic
              /\ t.reply = "none" /\ View(t) = view
            <4>1. /\ t \in CallState /\ t.pc = s.pc /\ t.key = s.key /\ t.topic = s.topic
                  /\ t.reply = s.reply /\ t.matching = s.matching /\ t.to = s.to
                BY <2>2, SetEndpointTouches DEF JInv
            <4>2. s.reply = "none"
                BY <2>2, RunningRequest
            <4>3. View(t) = View(s)
                BY <4>1 DEF View
            <4> QED BY <3>1, <4>1, <4>2, <4>3
        <3>4. Request(t) = Rec(k, topic, view, gone, "none")
            <4>1. Request(t) = Rec(t.key, t.topic, View(t), t.gone, Code(t.reply))
                BY <3>3, RequestFields
            <4>2. Code(t.reply) = "none"
                BY <3>3 DEF Code
            <4> QED BY <3>2, <3>3, <4>1, <4>2, Zenon
        <3>5. /\ gone \in BOOLEAN /\ lost \in BOOLEAN
              /\ (gone <=> lost \/ (view # None /\ ~(view \subseteq exists')))
            <4>1. t.gone \in BOOLEAN /\ s.gone \in BOOLEAN
                BY <2>2, <3>3, CallFields, RunningRequest
            <4>2. t.gone <=> s.gone \/ (View(s) # None /\ ~(View(s) \subseteq exists'))
                BY <2>2, Loses
            <4> QED BY <3>1, <3>2, <4>1, <4>2, Zenon
        <3>6. [Rec(k, topic, view, lost, "none") EXCEPT !.lost = TRUE] =
                Rec(k, topic, view, TRUE, "none")
            <4>1. \A z : [Rec(k, topic, view, lost, "none") EXCEPT !.lost = z] =
                           Rec(k, topic, view, z, "none")
                BY RecLost
            <4> QED BY <4>1, Zenon
        <3>7. request[c].view = view /\ Abstract!Open(c)
            BY <2>2, <3>1, RunningRequest
        <3>8. CASE view # None /\ ~(view \subseteq exists')
            <4>1. gone = TRUE
                BY <3>5, <3>8, Zenon
            <4> QED BY <2>0, <3>1, <3>4, <3>6, <3>7, <3>8, <4>1, Zenon
        <3>9. CASE ~(view # None /\ ~(view \subseteq exists'))
            <4>1. gone = lost
                <5>1. CASE gone
                    <6>1. gone = TRUE /\ lost = TRUE
                        BY <3>5, <3>9, <5>1, Zenon
                    <6> QED BY <6>1, Zenon
                <5>2. CASE ~gone
                    <6>1. gone = FALSE /\ lost = FALSE
                        BY <3>5, <3>9, <5>2, Zenon
                    <6> QED BY <6>1, Zenon
                <5> QED BY <5>1, <5>2
            <4> QED BY <2>0, <3>1, <3>4, <3>7, <3>9, <4>1, Zenon
        <3> QED BY <3>8, <3>9
    <2> QED BY <2>1, <2>2
<1>7. request' = [c \in Calls |->
          IF Abstract!Open(c) /\ request[c].view # None /\ ~(request[c].view \subseteq exists')
          THEN [request[c] EXCEPT !.lost = TRUE]
          ELSE request[c]]
    <2>1. request' = [c \in Calls |-> Request(call'[c])]
        BY DEF request
    <2> HIDE DEF request, exists
    <2> QED BY <1>6, <2>1, Zenon
<1>8. Abstract!Change
    BY <1>1, <1>2, <1>3, <1>4, <1>7, Zenon DEF Abstract!Change, exists, subscribers, request
<1>9. ASSUME NEW c \in Calls, call'[c] # None PROVE Linked(call[c])'
    <2>1. CASE Running(c)
        BY <2>1, Loses
    <2>2. CASE ~Running(c)
        <3>1. call'[c] = call[c] /\ Linked(call[c]) /\ call[c].pc \notin InCall
            BY <1>5, <1>9, <2>2 DEF JInv, AllLinked, Running
        <3> QED BY <3>1 DEF Linked, InCall, HoldsKey
    <2> QED BY <2>1, <2>2
<1> QED BY <1>8, <1>9 DEF AllLinked

\* Every step is one of EventStore's, or none.
LEMMA StoreStep ==
    ASSUME JInv, [Next]_vars
    PROVE  [Abstract!Next]_(Abstract!vars) /\ JInv'
<1>0. IInv'
    BY IngestStep DEF JInv
<1> SUFFICES [Abstract!Next]_(Abstract!vars) /\ AllLinked'
    BY <1>0 DEF JInv
<1>1. ASSUME NEW c \in Calls, NEW k \in Keys, NEW topic \in Topics, Start(c, k, topic)
      PROVE  [Abstract!Next]_(Abstract!vars) /\ AllLinked'
    BY <1>1, StartRefines DEF Abstract!Next
<1>2. ASSUME NEW c \in Calls, CallStep(c) \/ Fails(c)
      PROVE  [Abstract!Next]_(Abstract!vars) /\ AllLinked'
    <2>1. Begin(c) => Abstract!Serve(c) /\ AllLinked'
        BY BeginRefines DEF Abstract!Serve
    <2>2. InsertEvent(c) => UNCHANGED Abstract!vars /\ AllLinked'
        BY InsertRefines
    <2>3. FanOut(c) => (UNCHANGED Abstract!vars \/ Abstract!Serve(c)) /\ AllLinked'
        BY FanOutRefines DEF Abstract!Serve
    <2>4. Commit(c) => Abstract!Serve(c) /\ AllLinked'
        BY CommitRefines DEF Abstract!Serve
    <2>5. Lookup(c) => Abstract!Serve(c) /\ AllLinked'
        BY LookupRefines DEF Abstract!Serve
    <2>6. Fails(c) => Abstract!Fail(c) /\ AllLinked'
        BY FailsRefines
    <2>7. (UNCHANGED Abstract!vars \/ Abstract!Serve(c) \/ Abstract!Fail(c)) /\ AllLinked'
        BY <1>2, <2>1, <2>2, <2>3, <2>4, <2>5, <2>6, Zenon DEF CallStep
    <2> QED BY <2>7, Zenon DEF Abstract!Next
<1>3. CASE Crash
    BY <1>3, CrashRefines DEF Abstract!Next
<1>4. CASE Administration
    <2>1. PICK p \in Endpoints, row \in EndpointRow \cup {None} : SetEndpoint(p, row)
        <3>1. \A active \in BOOLEAN, topics \in ValidTopics :
                [active |-> active, topics |-> topics] \in EndpointRow
            BY DEF ValidTopics, EndpointRow
        <3>2. TRUE \in BOOLEAN
            OBVIOUS
        <3> QED BY <1>4, <3>1, <3>2, Zenon
                DEF Administration, CreateEndpoint, UpdateEndpoint, DeleteEndpoint
    <2> QED BY <1>0, <2>1, SetEndpointRefines DEF Abstract!Next
<1>5. CASE UNCHANGED vars
    <2>1. UNCHANGED <<exists, subscribers, request, event, faults>>
        BY <1>5 DEF vars, exists, subscribers, request
    <2>2. UNCHANGED Abstract!vars
        BY <2>1, Zenon DEF Abstract!vars, exists, subscribers, request
    <2>3. AllLinked'
        BY <1>5 DEF vars, JInv, AllLinked, Linked
    <2> QED BY <2>2, <2>3
<1>6. ASSUME NEW c \in Calls, NEW k \in Keys, NEW topic \in Topics, StartRefused(c, k, topic)
      PROVE  [Abstract!Next]_(Abstract!vars) /\ AllLinked'
    BY <1>6, StartRefusedRefines DEF Abstract!Next
<1> QED BY <1>1, <1>2, <1>3, <1>4, <1>5, <1>6 DEF Next

\* However calls of CreateEvent overlap, wait for each other's keys, fail, die with their
\* process and are repeated, and whatever happens to the endpoints meanwhile, what callers
\* and tables see is what EventStore allows: a call stores, or finds, in one step, for
\* exactly the subscribers of one moment, and fails only if something did, one of these
\* subscribers was deleted, or the request could not be stored.
THEOREM EventStoreRefined == Spec => EventStoreSafety
<1>1. Init => Abstract!Init
    <2> SUFFICES ASSUME Init PROVE Abstract!Init
        OBVIOUS
    <2>1. exists = {} /\ subscribers = [t \in Topics |-> {}]
        BY DEF Init, exists, subscribers, IsFor
    <2>2. request = [c \in Calls |-> None]
        BY DEF Init, request, Request
    <2>3. event = [k \in Keys |-> None] /\ faults = 0
        BY DEF Init
    <2> QED BY <2>1, <2>2, <2>3, Zenon DEF Abstract!Init, exists, subscribers, request
<1>2. Init => JInv
    <2>1. Init => AllLinked
        BY DEF Init, AllLinked
    <2> QED BY <2>1, IngestInit DEF JInv
<1>3. JInv /\ [Next]_vars => JInv'
    BY StoreStep
<1>4. JInv /\ [Next]_vars => [Abstract!Next]_(Abstract!vars)
    BY StoreStep
<1> QED BY <1>1, <1>2, <1>3, <1>4, PTL DEF Spec, EventStoreSafety, Abstract!Safety
=============================================================================
