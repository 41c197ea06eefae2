------------------------- MODULE EndpointAdminProofs -------------------------
(***************************************************************************)
(* Proofs about EndpointAdmin, for any number of calls, endpoints and      *)
(* values: what overlapping updates can and cannot do to a row.            *)
(***************************************************************************)
EXTENDS EndpointAdmin, TLAPS

----------------------------------------------------------------------------
(* Rows and requests *)

\* The columns of a row.
LEMMA RowFields ==
    ASSUME NEW r \in EndpointRow
    PROVE  /\ r["name"] \in Sent.name \ {""} /\ r["url"] \in Sent.url \cap UsableUrls
           /\ r["topics"] \in Sent.topics \ {{}} /\ r["secret"] \in Sent.secret \cup {None}
           /\ r["active"] \in BOOLEAN
           /\ r["max_attempts"] \in (Sent.max_attempts \cup {DefaultAttempts}) \cap AttemptsRange
           /\ r["timeout_ms"] \in (Sent.timeout_ms \cup {DefaultTimeout}) \cap TimeoutRange
    BY Zenon DEF EndpointRow

\* What is in the table passed the schema's checks.
LEMMA RowIsStorable ==
    ASSUME NEW r \in EndpointRow, NEW f \in Fields
    PROVE  Storable(f, r[f])
<1>1. r["max_attempts"] \in AttemptsRange /\ r["timeout_ms"] \in TimeoutRange
    BY RowFields, Zenon
<1> QED BY <1>1, Zenon DEF Storable

\* A request names columns, with values that were sent.
LEMMA RequestFields ==
    ASSUME NEW req \in UpdateRequests
    PROVE  /\ DOMAIN req \subseteq Fields
           /\ \A f \in DOMAIN req : req[f] \in Sent[f]
<1>1. PICK named \in SUBSET Fields, r \in CreateRequests : req = [f \in named |-> r[f]]
    BY DEF UpdateRequests
<1>2. \A f \in Fields : f # "secret" => r[f] \in Sent[f]
    BY Zenon DEF Fields, CreateRequests
<1>3. r["secret"] \in Sent["secret"] \cup {None}
    BY Zenon DEF CreateRequests
<1>4. "secret" \in DOMAIN req => req["secret"] # None
    BY DEF UpdateRequests
<1> QED BY <1>1, <1>2, <1>3, <1>4

\* What an update leaves in the row is again a row.
LEMMA MergedRow ==
    ASSUME NEW row \in EndpointRow, NEW req \in UpdateRequests,
           \A f \in DOMAIN req : Passes(f, req[f]),
           \A f \in Fields : Storable(f, Merged(row, req)[f])
    PROVE  Merged(row, req) \in EndpointRow
<1> DEFINE new == Merged(row, req)
<1>1. new = [f \in Fields |-> IF f \in DOMAIN req THEN req[f] ELSE row[f]]
    BY DEF Merged
<1>2. new["name"] \in Sent.name \ {""}
    BY <1>1, RequestFields, RowFields DEF Passes, Fields
<1>3. new["url"] \in Sent.url \cap UsableUrls
    BY <1>1, RequestFields, RowFields DEF Passes, Fields
<1>4. new["topics"] \in Sent.topics \ {{}}
    BY <1>1, RequestFields, RowFields DEF Passes, Fields
<1>5. new["secret"] \in Sent.secret \cup {None}
    BY <1>1, RequestFields, RowFields DEF Fields
<1>6. new["active"] \in BOOLEAN
    BY <1>1, RequestFields, RowFields, AdminAssumption DEF Fields
<1>7. new["max_attempts"] \in (Sent.max_attempts \cup {DefaultAttempts}) \cap AttemptsRange
    BY <1>1, RequestFields, RowFields DEF Storable, Fields
<1>8. new["timeout_ms"] \in (Sent.timeout_ms \cup {DefaultTimeout}) \cap TimeoutRange
    BY <1>1, RequestFields, RowFields DEF Storable, Fields
<1> QED BY <1>1, <1>2, <1>3, <1>4, <1>5, <1>6, <1>7, <1>8 DEF EndpointRow, Fields

\* A new endpoint is a row.
LEMMA NewRow ==
    ASSUME NEW req \in CreateRequests, Acceptable(req),
           \A f \in Fields : Storable(f, CreatedRow(req)[f])
    PROVE  CreatedRow(req) \in EndpointRow
<1> DEFINE new == CreatedRow(req)
<1>1. /\ new["name"] = req["name"] /\ new["url"] = req["url"]
      /\ new["topics"] = req["topics"] /\ new["secret"] = req["secret"]
      /\ new["active"] = TRUE
      /\ new["max_attempts"] \in {req["max_attempts"], DefaultAttempts}
      /\ new["timeout_ms"] \in {req["timeout_ms"], DefaultTimeout}
      /\ new = [f \in Fields |-> new[f]]
    BY Zenon DEF CreatedRow, CreateRequests, Fields
<1>2. /\ req["name"] \in Sent.name /\ req["url"] \in Sent.url
      /\ req["topics"] \in Sent.topics /\ req["secret"] \in Sent.secret \cup {None}
      /\ req["max_attempts"] \in Sent.max_attempts /\ req["timeout_ms"] \in Sent.timeout_ms
    BY Zenon DEF CreateRequests
<1>3. Passes("name", req["name"]) /\ Passes("url", req["url"]) /\ Passes("topics", req["topics"])
    BY Zenon DEF Acceptable
<1>4. req["name"] # "" /\ req["url"] \in UsableUrls /\ req["topics"] # {}
    BY <1>3 DEF Passes
<1>5. Storable("max_attempts", new["max_attempts"]) /\ Storable("timeout_ms", new["timeout_ms"])
    BY DEF Fields
<1>6. new["max_attempts"] \in AttemptsRange /\ new["timeout_ms"] \in TimeoutRange
    BY <1>5, Zenon DEF Storable
<1> HIDE DEF new
<1>7. new \in EndpointRow
    BY <1>1, <1>2, <1>4, <1>6 DEF EndpointRow, Fields
<1> QED BY <1>7 DEF new

----------------------------------------------------------------------------
(* The invariant *)

\* The table's unique constraint, and its foreign key.
NamesAreUnique ==
    \A p, q \in Ids : (p # q /\ Exists(p) /\ Exists(q)) => endpoint[p].name # endpoint[q].name

ReferencedExist == \A p \in referenced : Exists(p)

\* What an UpdateEndpoint holds between its statements: a row that was there, and,
\* but for the columns it has missed, is there unless it has been deleted.
CallIsSound(s) ==
    /\ s.pc # "idle" => s.id \in Ids /\ s.req \in UpdateRequests
    /\ s.pc = "write" =>
         /\ s.row \in EndpointRow
         /\ endpoint[s.id] # None
         /\ \A f \in DOMAIN s.req : Passes(f, s.req[f])
         /\ Exists(s.id) => \A f \in Fields \ s.missed : s.row[f] = endpoint[s.id][f]

AdminInv ==
    /\ TypeOK
    /\ NamesAreUnique
    /\ ReferencedExist
    /\ \A c \in Calls : CallIsSound(call[c])

\* The fields of a call.
LEMMA AdminCallFields ==
    ASSUME NEW s \in CallState
    PROVE  /\ s.pc \in {"idle", "read", "write"} /\ s.reply \in Replies
           /\ s.id \in Ids \cup {None} /\ s.req \in UpdateRequests \cup {None}
           /\ s.row \in EndpointRow \cup {None} /\ s.missed \subseteq Fields
    BY DEF CallState

\* A call that is over.
LEMMA IdleFields ==
    ASSUME NEW reply \in Replies
    PROVE  /\ Idle(reply) \in CallState /\ Idle(reply).pc = "idle"
           /\ Idle(reply).reply = reply
           /\ CallIsSound(Idle(reply)) /\ CallIsSound(Idle(reply))'
    BY DEF Idle, CallState, CallIsSound

Started(p, req) == [Idle("none") EXCEPT !.pc = "read", !.id = p, !.req = req]

HasRead(s, row) == [s EXCEPT !.pc = "write", !.row = row]

Misses(s, m) == [s EXCEPT !.missed = @ \cup m]

\* An update that has begun.
LEMMA StartedFields ==
    ASSUME NEW p \in Ids, NEW req \in UpdateRequests
    PROVE  /\ Started(p, req) \in CallState
           /\ Started(p, req).pc = "read" /\ Started(p, req).id = p
           /\ Started(p, req).req = req
    BY Zenon DEF Started, Idle, CallState, Replies

\* An update that has read its row.
LEMMA HasReadFields ==
    ASSUME NEW s \in CallState, NEW row \in EndpointRow
    PROVE  /\ HasRead(s, row) \in CallState
           /\ HasRead(s, row).pc = "write" /\ HasRead(s, row).row = row
           /\ HasRead(s, row).id = s.id /\ HasRead(s, row).req = s.req
           /\ HasRead(s, row).reply = s.reply
    BY Zenon DEF HasRead, CallState

\* An update that another one overtakes.
LEMMA MissesFields ==
    ASSUME NEW s \in CallState, NEW m \in SUBSET Fields
    PROVE  /\ Misses(s, m) \in CallState
           /\ Misses(s, m).pc = s.pc /\ Misses(s, m).row = s.row
           /\ Misses(s, m).id = s.id /\ Misses(s, m).req = s.req
           /\ Misses(s, m).reply = s.reply
           /\ Misses(s, m).missed = s.missed \cup m
<1>1. /\ Misses(s, m).pc = s.pc /\ Misses(s, m).row = s.row
      /\ Misses(s, m).id = s.id /\ Misses(s, m).req = s.req
      /\ Misses(s, m).reply = s.reply
      /\ Misses(s, m).missed = s.missed \cup m
    BY Zenon DEF Misses, CallState
<1>2. \A x \in SUBSET Fields : [s EXCEPT !.missed = x] \in CallState
    BY Zenon DEF CallState
<1>3. s.missed \cup m \in SUBSET Fields
    BY AdminCallFields
<1>4. Misses(s, m) \in CallState
    BY <1>2, <1>3, Zenon DEF Misses
<1> QED BY <1>1, <1>4

----------------------------------------------------------------------------
(* Steps preserve the invariant *)

\* A step that only moves one call, to a state that is sound, preserves AdminInv.
LEMMA OneCallMoves ==
    ASSUME AdminInv, NEW c \in Calls, NEW t \in CallState, call' = [call EXCEPT ![c] = t],
           UNCHANGED <<endpoint, referenced>>, faults' \in 0..MaxFaults,
           CallIsSound(t)
    PROVE  AdminInv'
<1>1. TypeOK'
    BY DEF AdminInv, TypeOK
<1>2. NamesAreUnique' /\ ReferencedExist'
    BY DEF AdminInv, NamesAreUnique, ReferencedExist, Exists
<1>3. ASSUME NEW b \in Calls
      PROVE  CallIsSound(call[b])'
    <2>1. call'[b] = t \/ call'[b] = call[b]
        BY DEF AdminInv, TypeOK
    <2>2. CallIsSound(call'[b])
        BY <2>1 DEF AdminInv
    <2> QED BY <2>2 DEF CallIsSound, Exists
<1> QED BY <1>1, <1>2, <1>3 DEF AdminInv

\* A call that ends without an effect.
LEMMA AnswerStep ==
    ASSUME AdminInv, NEW c \in Calls, NEW reply \in Replies, Answer(c, reply),
           UNCHANGED <<endpoint, referenced>>, faults' \in 0..MaxFaults
    PROVE  AdminInv'
BY OneCallMoves, IdleFields DEF Answer

\* The reply to a statement that took effect.
LEMMA ReplyFacts ==
    ASSUME AdminInv, NEW c \in Calls, Reply(c)
    PROVE  /\ faults' \in 0..MaxFaults
           /\ \E reply \in {"ok", "internal"} : Answer(c, reply)
    BY AdminAssumption DEF Reply, AdminInv, TypeOK

\* A change of one row and of one call, which ends, if no other call has to know.
LEMMA RowChanges ==
    ASSUME AdminInv, NEW c \in Calls, NEW reply \in Replies, Answer(c, reply),
           faults' \in 0..MaxFaults, UNCHANGED referenced,
           NEW p \in Ids, NEW v \in EndpointRow \cup {Deleted},
           endpoint' = [endpoint EXCEPT ![p] = v],
           v \in EndpointRow => endpoint[p] = None /\ ~NameTaken(v.name, None),
           v = Deleted => p \notin referenced
    PROVE  AdminInv'
<1>0. /\ endpoint' \in [Ids -> EndpointRow \cup {None, Deleted}]
      /\ endpoint'[p] = v /\ \A q \in Ids : q # p => endpoint'[q] = endpoint[q]
      /\ None # Deleted /\ v # None
    BY AdminAssumption, RowAssumption DEF AdminInv, TypeOK
<1>1. TypeOK'
    BY <1>0, IdleFields DEF AdminInv, TypeOK, Answer
<1>2. NamesAreUnique'
    <2>1. ASSUME NEW q \in Ids, NEW r \in Ids, q # r, Exists(q)', Exists(r)', q = p
          PROVE  endpoint'[q].name # endpoint'[r].name
        <3>1. v \in EndpointRow /\ endpoint'[r] = endpoint[r] /\ Exists(r)
            BY <1>0, <2>1 DEF Exists
        <3> QED BY <1>0, <2>1, <3>1, RowAssumption DEF NameTaken
    <2>2. ASSUME NEW q \in Ids, NEW r \in Ids, q # r, Exists(q)', Exists(r)', q # p, r # p
          PROVE  endpoint'[q].name # endpoint'[r].name
        BY <1>0, <2>2 DEF AdminInv, NamesAreUnique, Exists
    <2> QED BY <2>1, <2>2 DEF NamesAreUnique
<1>3. ReferencedExist'
    <2>1. referenced \subseteq Ids
        BY DEF AdminInv, TypeOK
    <2>2. v \notin {None, Deleted} \/ p \notin referenced
        BY <1>0, RowAssumption
    <2> QED BY <1>0, <2>1, <2>2 DEF AdminInv, ReferencedExist, Exists
<1>4. ASSUME NEW b \in Calls
      PROVE  CallIsSound(call[b])'
    <2>1. CASE b = c
        <3>1. call'[b] = Idle(reply)
            BY <2>1 DEF Answer, AdminInv, TypeOK
        <3> QED BY <3>1, IdleFields DEF CallIsSound
    <2>2. CASE b # c
        <3>1. call'[b] = call[b] /\ CallIsSound(call[b])
            BY <2>2 DEF Answer, AdminInv, TypeOK
        <3>2. ASSUME call[b].pc = "write"
              PROVE  /\ endpoint'[call[b].id] # None
                     /\ Exists(call[b].id)' =>
                          \A f \in Fields \ call[b].missed :
                             call[b].row[f] = endpoint'[call[b].id][f]
            <4>1. /\ call[b].id \in Ids /\ endpoint[call[b].id] # None
                  /\ Exists(call[b].id) =>
                       \A f \in Fields \ call[b].missed :
                          call[b].row[f] = endpoint[call[b].id][f]
                BY <3>1, <3>2 DEF CallIsSound
            <4>2. CASE call[b].id = p
                BY <1>0, <3>1, <4>1, <4>2 DEF Exists
            <4>3. CASE call[b].id # p
                BY <1>0, <3>1, <4>1, <4>3 DEF Exists
            <4> QED BY <4>2, <4>3
        <3> QED BY <3>1, <3>2 DEF CallIsSound
    <2> QED BY <2>1, <2>2
<1> QED BY <1>1, <1>2, <1>3, <1>4 DEF AdminInv

\* A new endpoint has an id and a name that nobody has.
LEMMA CreateStep ==
    ASSUME AdminInv, NEW c \in Calls, NEW req \in CreateRequests, CreateEndpoint(c, req)
    PROVE  AdminInv'
<1>1. CASE /\ Answer(c, "invalid_argument") \/ Answer(c, "internal")
           /\ UNCHANGED <<endpoint, referenced, faults>>
    BY <1>1, AnswerStep DEF Replies, AdminInv, TypeOK
<1>2. CASE /\ Acceptable(req) /\ UNCHANGED referenced /\ Reply(c)
           /\ \A f \in Fields : Storable(f, CreatedRow(req)[f])
           /\ ~NameTaken(CreatedRow(req).name, None)
           /\ \E p \in Ids : /\ endpoint[p] = None
                             /\ endpoint' = [endpoint EXCEPT ![p] = CreatedRow(req)]
    <2>1. PICK v : v = CreatedRow(req)
        OBVIOUS
    <2>2. v \in EndpointRow /\ v # Deleted
        BY <1>2, <2>1, NewRow, RowAssumption
    <2>3. PICK p \in Ids : endpoint[p] = None /\ endpoint' = [endpoint EXCEPT ![p] = v]
        BY <1>2, <2>1
    <2>4. PICK reply \in {"ok", "internal"} : Answer(c, reply)
        BY <1>2, ReplyFacts
    <2>5. faults' \in 0..MaxFaults
        BY <1>2, ReplyFacts
    <2>6. ~NameTaken(v.name, None)
        BY <1>2, <2>1
    <2> QED BY <1>2, <2>2, <2>3, <2>4, <2>5, <2>6, RowChanges DEF Replies
<1> QED BY <1>1, <1>2, Zenon DEF CreateEndpoint

\* A deleted endpoint was referred to by nobody.
LEMMA DeleteStep ==
    ASSUME AdminInv, NEW c \in Calls, NEW p \in Ids, DeleteEndpoint(c, p)
    PROVE  AdminInv'
<1>1. CASE Answer(c, "internal") /\ UNCHANGED <<endpoint, referenced, faults>>
    BY <1>1, AnswerStep DEF Replies, AdminInv, TypeOK
<1>2. CASE p \notin referenced /\ UNCHANGED referenced /\ Reply(c)
    <2>1. PICK reply \in {"ok", "internal"} : Answer(c, reply)
        BY <1>2, ReplyFacts
    <2>2. faults' \in 0..MaxFaults /\ reply \in Replies
        BY <1>2, ReplyFacts DEF Replies
    <2>3. CASE endpoint' = endpoint
        BY <1>2, <2>1, <2>2, <2>3, AnswerStep
    <2>4. CASE endpoint' = [endpoint EXCEPT ![p] = Deleted]
        BY <1>2, <2>1, <2>2, <2>4, RowChanges, RowAssumption
    <2>5. endpoint' = endpoint \/ endpoint' = [endpoint EXCEPT ![p] = Deleted]
        BY RowAssumption DEF DeleteEndpoint, Answer, Reply
    <2> QED BY <2>3, <2>4, <2>5
<1> QED BY <1>1, <1>2, Zenon DEF DeleteEndpoint

\* The calls that read, and those that are refused.
LEMMA ReadOnlyStep ==
    ASSUME AdminInv, NEW c \in Calls,
           \/ \E p \in Ids : GetEndpointByID(c, p)
           \/ \E name \in Sent.name : GetEndpointByName(c, name)
           \/ Malformed(c) \/ StatementFails(c)
    PROVE  AdminInv'
<1>1. \E reply \in Replies : Answer(c, reply)
    BY DEF GetEndpointByID, GetEndpointByName, Malformed, StatementFails, Replies
<1>2. UNCHANGED <<endpoint, referenced>> /\ faults' \in 0..MaxFaults
    BY AdminAssumption DEF GetEndpointByID, GetEndpointByName, Malformed, StatementFails,
                           AdminInv, TypeOK
<1> QED BY <1>1, <1>2, AnswerStep

\* An update begins.
LEMMA StartUpdateStep ==
    ASSUME AdminInv, NEW c \in Calls, NEW p \in Ids, NEW req \in UpdateRequests,
           StartUpdate(c, p, req)
    PROVE  AdminInv'
<1>1. PICK t : t = Started(p, req)
    OBVIOUS
<1>2. call' = [call EXCEPT ![c] = t] /\ UNCHANGED <<endpoint, referenced, faults>>
    BY <1>1, Zenon DEF StartUpdate, Started
<1>3. t \in CallState /\ CallIsSound(t)
    BY <1>1, StartedFields DEF CallIsSound
<1>4. faults' \in 0..MaxFaults
    BY <1>2 DEF AdminInv, TypeOK
<1> QED BY <1>2, <1>3, <1>4, OneCallMoves

\* An update reads its row, unless it is refused.
LEMMA ReadStep ==
    ASSUME AdminInv, NEW c \in Calls, ReadForUpdate(c)
    PROVE  AdminInv'
<1> DEFINE s == call[c]
           p == s.id
<1>1. /\ s \in CallState /\ p \in Ids /\ s.req \in UpdateRequests
      /\ UNCHANGED <<endpoint, referenced, faults>> /\ faults' \in 0..MaxFaults
    BY DEF ReadForUpdate, AdminInv, TypeOK, CallIsSound
<1>2. CASE Answer(c, "not_found") \/ Answer(c, "invalid_argument")
    BY <1>1, <1>2, AnswerStep DEF Replies
<1>3. CASE /\ Exists(p) /\ \A f \in DOMAIN s.req : Passes(f, s.req[f])
           /\ call' = [call EXCEPT ![c] = HasRead(s, endpoint[p])]
    <2>1. endpoint[p] \in EndpointRow /\ endpoint[p] # None
        BY <1>1, <1>3 DEF AdminInv, TypeOK, Exists
    <2>2. PICK t : t = HasRead(s, endpoint[p])
        OBVIOUS
    <2>3. t \in CallState /\ CallIsSound(t)
        BY <1>1, <1>3, <2>1, <2>2, HasReadFields DEF CallIsSound
    <2>4. call' = [call EXCEPT ![c] = t]
        BY <1>3, <2>2
    <2> QED BY <1>1, <2>3, <2>4, OneCallMoves
<1> QED BY <1>2, <1>3, Zenon DEF ReadForUpdate, HasRead

\* The columns in which a row that is written differs from the one that is there.
Changed(p, new) == {f \in Fields : endpoint[p][f] # new[f]}

\* What an update that is accepted does: the row it leaves, and the other calls.
LEMMA AcceptedFacts ==
    ASSUME AdminInv, NEW c \in Calls, WriteBack(c),
           Refusal(call[c].id, Merged(call[c].row, call[c].req)) = "none"
    PROVE  LET p == call[c].id
               new == Merged(call[c].row, call[c].req)
           IN  /\ p \in Ids /\ Exists(p) /\ new \in EndpointRow
               /\ ~NameTaken(new.name, p)
               /\ endpoint' = [endpoint EXCEPT ![p] = new]
               /\ faults' \in 0..MaxFaults
               /\ \E reply \in {"ok", "internal"} :
                    /\ call'[c] = Idle(reply)
                    /\ reply = "internal" => faults' > faults
               /\ \A b \in Calls \ {c} :
                    \/ /\ call[b].pc # "write" \/ call[b].id # p
                       /\ call'[b] = call[b]
                    \/ /\ call[b].pc = "write" /\ call[b].id = p
                       /\ call'[b] = Misses(call[b], Changed(p, new))
<1> DEFINE p == call[c].id
           req == call[c].req
<1>0. PICK new : new = Merged(call[c].row, req)
    OBVIOUS
<1>1. /\ call[c].row \in EndpointRow /\ req \in UpdateRequests /\ p \in Ids
      /\ \A f \in DOMAIN req : Passes(f, req[f])
    BY DEF WriteBack, AdminInv, CallIsSound
<1>2. Exists(p) /\ (\A f \in Fields : Storable(f, new[f])) /\ ~NameTaken(new.name, p)
    BY <1>0 DEF Refusal
<1>3. new \in EndpointRow
    BY <1>0, <1>1, <1>2, MergedRow
<1>4. /\ endpoint' = [endpoint EXCEPT ![p] = new]
      /\ \/ call' = [Missing(c, p, new) EXCEPT ![c] = Idle("ok")] /\ faults' = faults
         \/ /\ call' = [Missing(c, p, new) EXCEPT ![c] = Idle("internal")]
            /\ faults < MaxFaults /\ faults' = faults + 1
    BY <1>0, Zenon DEF WriteBack
<1>5. /\ faults' \in 0..MaxFaults
      /\ \/ call' = [Missing(c, p, new) EXCEPT ![c] = Idle("ok")]
         \/ call' = [Missing(c, p, new) EXCEPT ![c] = Idle("internal")] /\ faults' > faults
    BY <1>4, AdminAssumption DEF AdminInv, TypeOK
<1>6. PICK m : m = Changed(p, new)
    OBVIOUS
<1>7. Missing(c, p, new) =
        [b \in Calls |-> IF b = c \/ call[b].pc # "write" \/ call[b].id # p THEN call[b]
                         ELSE Misses(call[b], m)]
    BY <1>6, Zenon DEF Missing, Misses, Changed
<1>8. \E reply \in {"ok", "internal"} :
        /\ call'[c] = Idle(reply)
        /\ reply = "internal" => faults' > faults
    BY <1>5, <1>7
<1>9. \A b \in Calls \ {c} :
        \/ /\ call[b].pc # "write" \/ call[b].id # p
           /\ call'[b] = call[b]
        \/ /\ call[b].pc = "write" /\ call[b].id = p
           /\ call'[b] = Misses(call[b], m)
    BY <1>5, <1>7
<1> QED BY <1>0, <1>1, <1>2, <1>3, <1>4, <1>5, <1>6, <1>8, <1>9, Zenon

\* The second statement of an update writes its row, or is refused.
LEMMA WriteStep ==
    ASSUME AdminInv, NEW c \in Calls, WriteBack(c)
    PROVE  AdminInv'
<1> DEFINE p == call[c].id
           req == call[c].req
<1>0. PICK new : new = Merged(call[c].row, req)
    OBVIOUS
<1>1. CASE Refusal(p, new) # "none"
    <2>1. /\ Answer(c, Refusal(p, new)) /\ UNCHANGED <<endpoint, referenced, faults>>
        BY <1>0, <1>1, Zenon DEF WriteBack
    <2>2. Refusal(p, new) \in Replies
        BY <1>1 DEF Refusal, Replies
    <2> QED BY <2>1, <2>2, AnswerStep DEF AdminInv, TypeOK
<1>2. CASE Refusal(p, new) = "none"
    <2>0. PICK m : m = Changed(p, new)
        OBVIOUS
    <2>1. /\ p \in Ids /\ Exists(p) /\ new \in EndpointRow
          /\ ~NameTaken(new.name, p)
          /\ endpoint' = [endpoint EXCEPT ![p] = new]
          /\ faults' \in 0..MaxFaults
        BY <1>0, <1>2, AcceptedFacts, Zenon
    <2>2. PICK reply \in {"ok", "internal"} : call'[c] = Idle(reply)
        BY <1>0, <1>2, AcceptedFacts, Zenon
    <2>3. \A b \in Calls \ {c} :
            \/ /\ call[b].pc # "write" \/ call[b].id # p
               /\ call'[b] = call[b]
            \/ /\ call[b].pc = "write" /\ call[b].id = p
               /\ call'[b] = Misses(call[b], m)
        BY <1>0, <1>2, <2>0, AcceptedFacts, Zenon
    <2>4. /\ endpoint' \in [Ids -> EndpointRow \cup {None, Deleted}]
          /\ endpoint'[p] = new /\ \A q \in Ids : q # p => endpoint'[q] = endpoint[q]
          /\ new # None /\ new # Deleted
        BY <2>1, RowAssumption DEF AdminInv, TypeOK
    <2>5. \A q : Exists(q)' /\ q \in Ids => Exists(q)
        BY <2>1, <2>4 DEF Exists
    <2>6. TypeOK'
        <3>1. m \in SUBSET Fields
            BY <2>0 DEF Changed
        <3>2. \A b \in Calls : call[b] \in CallState
            BY DEF AdminInv, TypeOK
        <3>3. \A b \in Calls : call'[b] \in CallState
            BY <2>2, <2>3, <3>1, <3>2, IdleFields, MissesFields DEF Replies
        <3>4. call' = [b \in Calls |-> call'[b]]
            BY <1>0, <1>2 DEF WriteBack, Missing
        <3> QED BY <2>1, <2>4, <3>3, <3>4 DEF TypeOK, WriteBack, AdminInv
    <2>7. NamesAreUnique'
        <3>1. ASSUME NEW q \in Ids, NEW r \in Ids, q # r, Exists(q)', Exists(r)', q = p
              PROVE  endpoint'[q].name # endpoint'[r].name
            BY <2>1, <2>4, <2>5, <3>1 DEF NameTaken
        <3>2. ASSUME NEW q \in Ids, NEW r \in Ids, q # r, Exists(q)', Exists(r)', q # p, r # p
              PROVE  endpoint'[q].name # endpoint'[r].name
            BY <2>4, <2>5, <3>2 DEF AdminInv, NamesAreUnique
        <3> QED BY <3>1, <3>2 DEF NamesAreUnique
    <2>8. ReferencedExist'
        BY <2>1, <2>4 DEF WriteBack, AdminInv, TypeOK, ReferencedExist, Exists
    <2>9. ASSUME NEW b \in Calls
          PROVE  CallIsSound(call[b])'
        <3>1. CASE b = c
            BY <2>2, <3>1, IdleFields DEF CallIsSound, Replies
        <3>2. CASE b # c /\ call'[b] = call[b] /\ (call[b].pc # "write" \/ call[b].id # p)
            <4>1. CallIsSound(call[b])
                BY DEF AdminInv
            <4>2. CASE call[b].pc # "write"
                BY <3>2, <4>1, <4>2 DEF CallIsSound
            <4>3. CASE call[b].pc = "write" /\ call[b].id # p
                <5>1. call[b].id \in Ids /\ endpoint'[call[b].id] = endpoint[call[b].id]
                    BY <2>4, <4>1, <4>3 DEF CallIsSound
                <5> QED BY <3>2, <4>1, <4>3, <5>1 DEF CallIsSound, Exists
            <4> QED BY <3>2, <4>2, <4>3
        <3>3. CASE b # c /\ call[b].pc = "write" /\ call[b].id = p /\ call'[b] = Misses(call[b], m)
            <4>1. CallIsSound(call[b]) /\ call[b] \in CallState /\ m \in SUBSET Fields
                BY <2>0 DEF AdminInv, TypeOK, Changed
            <4>2. PICK t : t = call'[b]
                OBVIOUS
            <4>3. /\ t.pc = "write" /\ t.row = call[b].row /\ t.id = p /\ t.req = call[b].req
                  /\ t.missed = call[b].missed \cup m
                BY <3>3, <4>1, <4>2, MissesFields
            <4>4. \A f \in Fields \ t.missed : t.row[f] = new[f]
                BY <2>0, <2>1, <3>3, <4>1, <4>3 DEF CallIsSound, Changed
            <4>5. /\ t.req \in UpdateRequests /\ t.row \in EndpointRow
                  /\ \A f \in DOMAIN t.req : Passes(f, t.req[f])
                BY <3>3, <4>1, <4>3 DEF CallIsSound
            <4> QED BY <2>1, <2>4, <4>2, <4>3, <4>4, <4>5 DEF CallIsSound
        <3> QED BY <2>3, <3>1, <3>2, <3>3
    <2> QED BY <2>6, <2>7, <2>8, <2>9 DEF AdminInv
<1> QED BY <1>1, <1>2

----------------------------------------------------------------------------
(* The theorems *)

\* AdminInv holds at first.
LEMMA AdminInit == Init => AdminInv
<1> SUFFICES ASSUME Init PROVE AdminInv
    OBVIOUS
<1>1. TypeOK
    BY IdleFields, AdminAssumption DEF Init, TypeOK, Replies
<1>2. NamesAreUnique /\ ReferencedExist
    BY DEF Init, NamesAreUnique, ReferencedExist, Exists
<1>3. \A c \in Calls : CallIsSound(call[c])
    BY IdleFields DEF Init, Replies
<1> QED BY <1>1, <1>2, <1>3 DEF AdminInv

\* A delivery is stored for an endpoint that exists.
LEMMA DeliveryStep ==
    ASSUME AdminInv, NEW p \in Ids, CreateDelivery(p)
    PROVE  AdminInv'
<1>1. UNCHANGED <<endpoint, call, faults>> /\ Exists(p) /\ referenced' = referenced \cup {p}
    BY DEF CreateDelivery
<1>2. \A q : Exists(q)' <=> Exists(q)
    BY <1>1 DEF Exists
<1>3. TypeOK'
    BY <1>1 DEF AdminInv, TypeOK
<1>4. NamesAreUnique' /\ ReferencedExist'
    BY <1>1, <1>2 DEF AdminInv, NamesAreUnique, ReferencedExist
<1>5. \A c \in Calls : CallIsSound(call[c])'
    BY <1>1, <1>2 DEF AdminInv, CallIsSound
<1> QED BY <1>3, <1>4, <1>5 DEF AdminInv

\* AdminInv is inductive.
LEMMA AdminStep == AdminInv /\ [Next]_vars => AdminInv'
<1> SUFFICES ASSUME AdminInv, [Next]_vars PROVE AdminInv'
    OBVIOUS
<1>1. CASE \E c \in Calls, req \in CreateRequests : CreateEndpoint(c, req)
    BY <1>1, CreateStep
<1>2. CASE \E c \in Calls, p \in Ids : DeleteEndpoint(c, p)
    BY <1>2, DeleteStep
<1>3. CASE \E c \in Calls : \/ \E p \in Ids : GetEndpointByID(c, p)
                            \/ \E name \in Sent.name : GetEndpointByName(c, name)
                            \/ Malformed(c) \/ StatementFails(c)
    BY <1>3, ReadOnlyStep
<1>4. CASE \E c \in Calls, p \in Ids, req \in UpdateRequests : StartUpdate(c, p, req)
    BY <1>4, StartUpdateStep
<1>5. CASE \E c \in Calls : ReadForUpdate(c) \/ WriteBack(c)
    BY <1>5, ReadStep, WriteStep
<1>6. CASE \E p \in Ids : CreateDelivery(p)
    BY <1>6, DeliveryStep
<1>7. CASE UNCHANGED vars
    <2>1. \A q : Exists(q)' <=> Exists(q)
        BY <1>7 DEF vars, Exists
    <2>2. \A c \in Calls : CallIsSound(call[c])'
        BY <1>7, <2>1 DEF vars, AdminInv, CallIsSound
    <2> QED BY <1>7, <2>1, <2>2
            DEF vars, AdminInv, TypeOK, NamesAreUnique, ReferencedExist
<1> QED BY <1>1, <1>2, <1>3, <1>4, <1>5, <1>6, <1>7, Zenon DEF Next

\* The table and the calls have their types.
THEOREM AdminTypes == Spec => []TypeOK
<1>1. AdminInv => TypeOK
    BY DEF AdminInv
<1> QED BY <1>1, AdminInit, AdminStep, PTL DEF Spec

\* How the row of an endpoint can change.
LEMMA RowChangedBy ==
    ASSUME AdminInv, [Next]_vars, NEW p \in Ids, endpoint'[p] # endpoint[p]
    PROVE  \/ endpoint[p] = None
           \/ endpoint'[p] = Deleted /\ p \notin referenced /\ referenced' = referenced
           \/ \E c \in Calls : /\ WriteBack(c) /\ call[c].id = p
                               /\ Refusal(p, Merged(call[c].row, call[c].req)) = "none"
<1>0. endpoint \in [Ids -> EndpointRow \cup {None, Deleted}]
    BY DEF AdminInv, TypeOK
<1>1. CASE \E c \in Calls, req \in CreateRequests : CreateEndpoint(c, req)
    <2>1. PICK req \in CreateRequests, q \in Ids :
            endpoint[q] = None /\ endpoint' = [endpoint EXCEPT ![q] = CreatedRow(req)]
        BY <1>1, Zenon DEF CreateEndpoint
    <2> QED BY <1>0, <2>1
<1>2. CASE \E c \in Calls, q \in Ids : DeleteEndpoint(c, q)
    <2>1. PICK q \in Ids : /\ q \notin referenced /\ referenced' = referenced
                           /\ endpoint' = [endpoint EXCEPT ![q] = Deleted]
        BY <1>2, Zenon DEF DeleteEndpoint
    <2> QED BY <1>0, <2>1
<1>3. CASE \E c \in Calls : WriteBack(c)
    <2>1. PICK c \in Calls : WriteBack(c)
        BY <1>3
    <2>2. Refusal(call[c].id, Merged(call[c].row, call[c].req)) = "none"
        BY <2>1, Zenon DEF WriteBack
    <2>3. call[c].id = p
        BY <1>0, <2>1, <2>2, AcceptedFacts
    <2> QED BY <2>1, <2>2, <2>3
<1>4. CASE endpoint' = endpoint
    BY <1>4
<1>5. ASSUME NEW c \in Calls,
             \/ \E q \in Ids : GetEndpointByID(c, q)
             \/ \E name \in Sent.name : GetEndpointByName(c, name)
             \/ \E q \in Ids, req \in UpdateRequests : StartUpdate(c, q, req)
             \/ Malformed(c) \/ StatementFails(c) \/ ReadForUpdate(c)
      PROVE  endpoint' = endpoint
    BY <1>5, Zenon DEF GetEndpointByID, GetEndpointByName, StartUpdate, Malformed,
                       StatementFails, ReadForUpdate
<1>6. \A q \in Ids : CreateDelivery(q) => endpoint' = endpoint
    BY Zenon DEF CreateDelivery
<1> QED BY <1>1, <1>2, <1>3, <1>4, <1>5, <1>6, Zenon DEF Next, vars

\* No update brings a deleted endpoint back, and no deletion takes one that a
\* delivery refers to.
THEOREM EndpointsGoneForGood == Spec => GoneForGood
<1>1. AdminInv /\ [Next]_vars =>
        [\A p \in Ids : /\ endpoint[p] = Deleted => endpoint'[p] = Deleted
                        /\ p \in referenced => Exists(p)']_vars
    <2> SUFFICES ASSUME AdminInv, [Next]_vars, NEW p \in Ids
                 PROVE  /\ endpoint[p] = Deleted => endpoint'[p] = Deleted
                        /\ p \in referenced => Exists(p)'
        OBVIOUS
    <2>1. p \in referenced => Exists(p)
        BY DEF AdminInv, ReferencedExist
    <2>2. CASE endpoint'[p] = endpoint[p]
        BY <2>1, <2>2 DEF Exists
    <2>3. CASE endpoint[p] = None
        BY <2>1, <2>3, AdminAssumption DEF Exists
    <2>4. CASE endpoint'[p] = Deleted /\ p \notin referenced
        BY <2>4
    <2>5. CASE \E c \in Calls : /\ WriteBack(c) /\ call[c].id = p
                                /\ Refusal(p, Merged(call[c].row, call[c].req)) = "none"
        <3>1. PICK c \in Calls : /\ WriteBack(c) /\ call[c].id = p
                                 /\ Refusal(p, Merged(call[c].row, call[c].req)) = "none"
            BY <2>5
        <3>2. PICK new \in EndpointRow : Exists(p) /\ endpoint' = [endpoint EXCEPT ![p] = new]
            BY <3>1, AcceptedFacts
        <3>3. endpoint'[p] = new /\ new # None /\ new # Deleted
            BY <3>2, RowAssumption DEF AdminInv, TypeOK
        <3> QED BY <3>2, <3>3 DEF Exists
    <2> QED BY <2>2, <2>3, <2>4, <2>5, RowChangedBy
<1> QED BY <1>1, AdminInit, AdminStep, PTL DEF Spec, GoneForGood

\* An overlapping update can undo a column that somebody else has changed since it
\* read the row, and that is all it can do to a column it does not name.
THEOREM ColumnsAreNamedOrUndone == Spec => ColumnsChangeByName
<1>1. AdminInv /\ [Next]_vars =>
        [\A p \in Ids, f \in Fields :
           (Exists(p) /\ endpoint'[p] # Deleted /\ endpoint'[p][f] # endpoint[p][f]) =>
             \E c \in Calls :
               /\ call[c].pc = "write"
               /\ call'[c].pc = "idle"
               /\ call[c].id = p
               /\ \/ /\ f \in DOMAIN call[c].req
                     /\ endpoint'[p][f] = call[c].req[f]
                  \/ /\ f \in call[c].missed \ DOMAIN call[c].req
                     /\ endpoint'[p][f] = call[c].row[f]]_vars
    <2> SUFFICES ASSUME AdminInv, [Next]_vars, NEW p \in Ids, NEW f \in Fields,
                        Exists(p), endpoint'[p] # Deleted, endpoint'[p][f] # endpoint[p][f]
                 PROVE  \E c \in Calls :
                          /\ call[c].pc = "write"
                          /\ call'[c].pc = "idle"
                          /\ call[c].id = p
                          /\ \/ /\ f \in DOMAIN call[c].req
                                /\ endpoint'[p][f] = call[c].req[f]
                             \/ /\ f \in call[c].missed \ DOMAIN call[c].req
                                /\ endpoint'[p][f] = call[c].row[f]
        OBVIOUS
    <2>1. PICK c \in Calls : /\ WriteBack(c) /\ call[c].id = p
                             /\ Refusal(p, Merged(call[c].row, call[c].req)) = "none"
        BY RowChangedBy DEF Exists
    <2>2. PICK new : new = Merged(call[c].row, call[c].req)
        OBVIOUS
    <2>3. endpoint' = [endpoint EXCEPT ![p] = new] /\ \E reply \in Replies : call'[c] = Idle(reply)
        BY <2>1, <2>2, AcceptedFacts DEF Replies
    <2>4. endpoint'[p] = new /\ call'[c].pc = "idle"
        BY <2>3, IdleFields DEF AdminInv, TypeOK
    <2>5. /\ call[c].pc = "write"
          /\ \A g \in Fields \ call[c].missed : call[c].row[g] = endpoint[p][g]
        BY <2>1 DEF WriteBack, AdminInv, CallIsSound
    <2>6. new[f] = IF f \in DOMAIN call[c].req THEN call[c].req[f] ELSE call[c].row[f]
        BY <2>2 DEF Merged
    <2> QED BY <2>1, <2>4, <2>5, <2>6
<1> QED BY <1>1, AdminInit, AdminStep, PTL DEF Spec, ColumnsChangeByName

\* A call ends by a step of its own.
LEMMA EndsByItself ==
    ASSUME AdminInv, [Next]_vars, NEW c \in Calls, call[c].pc # "idle", call'[c].pc = "idle"
    PROVE  ReadForUpdate(c) \/ WriteBack(c) \/ StatementFails(c)
<1>0. call \in [Calls -> CallState]
    BY DEF AdminInv, TypeOK
<1>1. ASSUME NEW b \in Calls, b # c, NEW t, call' = [call EXCEPT ![b] = t]
      PROVE  FALSE
    BY <1>0, <1>1
<1>2. ASSUME NEW b \in Calls, b # c, WriteBack(b)
      PROVE  FALSE
    <2>1. CASE Refusal(call[b].id, Merged(call[b].row, call[b].req)) # "none"
        <3>1. PICK reply : Answer(b, reply)
            BY <1>2, <2>1, Zenon DEF WriteBack
        <3> QED BY <1>1, <1>2, <3>1 DEF Answer
    <2>2. CASE Refusal(call[b].id, Merged(call[b].row, call[b].req)) = "none"
        <3>1. PICK m : /\ call'[c] = call[c] \/ call'[c] = Misses(call[c], m)
                       /\ m \in SUBSET Fields
            <4>1. \A p, new : Changed(p, new) \in SUBSET Fields
                BY DEF Changed
            <4> QED BY <1>2, <2>2, <4>1, AcceptedFacts
        <3> QED BY <1>0, <3>1, MissesFields
    <2> QED BY <2>1, <2>2
<1>3. ASSUME NEW b \in Calls, ReadForUpdate(b) \/ StatementFails(b)
      PROVE  b = c
    <2>1. \E t : call' = [call EXCEPT ![b] = t]
        BY <1>3, Zenon DEF ReadForUpdate, StatementFails, Answer
    <2> QED BY <1>1, <2>1
<1>4. ASSUME NEW b \in Calls, NEW t, call[b].pc = "idle", call' = [call EXCEPT ![b] = t]
      PROVE  FALSE
    BY <1>1, <1>4
<1>5. ASSUME NEW b \in Calls, NEW reply, call[b].pc = "idle", Answer(b, reply)
      PROVE  FALSE
    BY <1>4, <1>5 DEF Answer
<1>6. \A b \in Calls : \A req : ~CreateEndpoint(b, req)
    BY <1>5, Zenon DEF CreateEndpoint, Reply
<1>7. \A b \in Calls : \A q : ~DeleteEndpoint(b, q)
    BY <1>5, Zenon DEF DeleteEndpoint, Reply
<1>8. \A b \in Calls : \A q, name :
         ~GetEndpointByID(b, q) /\ ~GetEndpointByName(b, name) /\ ~Malformed(b)
    BY <1>5, Zenon DEF GetEndpointByID, GetEndpointByName, Malformed
<1>9. \A b \in Calls : \A q, req : ~StartUpdate(b, q, req)
    BY <1>4, Zenon DEF StartUpdate
<1>10. ~UNCHANGED vars /\ \A q \in Ids : ~CreateDelivery(q)
    BY DEF vars, CreateDelivery
<1> QED BY <1>2, <1>3, <1>6, <1>7, <1>8, <1>9, <1>10, Zenon DEF Next

\* What UpdateRepliesAreTrue says of a call that ends.
ReplyIsTrue(c, p, req, reply) ==
    /\ reply = "ok" => \A f \in DOMAIN req : endpoint'[p][f] = req[f]
    /\ reply = "not_found" => ~Exists(p)
    /\ reply = "invalid_argument" =>
         \E f \in DOMAIN req : ~Passes(f, req[f]) \/ ~Storable(f, req[f])
    /\ reply = "already_exists" =>
         /\ "name" \in (DOMAIN req) \cup call[c].missed
         /\ NameTaken(Merged(call[c].row, req).name, p)
    /\ reply = "internal" => faults' > faults
    /\ reply \notin {"ok", "internal"} => endpoint' = endpoint

\* The reply of an update that the schema refuses is about what the request names.
LEMMA RefusedWrite ==
    ASSUME AdminInv, NEW c \in Calls, WriteBack(c),
           Refusal(call[c].id, Merged(call[c].row, call[c].req)) # "none"
    PROVE  ReplyIsTrue(c, call[c].id, call[c].req, call'[c].reply)
<1> DEFINE p == call[c].id
           req == call[c].req
           row == call[c].row
<1>0. PICK new : new = Merged(row, req)
    OBVIOUS
<1>1. PICK reply : reply = Refusal(p, new)
    OBVIOUS
<1>2. Answer(c, reply) /\ UNCHANGED <<endpoint, faults>>
    BY <1>0, <1>1, Zenon DEF WriteBack
<1>3. reply \in {"not_found", "invalid_argument", "already_exists"}
    BY <1>0, <1>1 DEF Refusal
<1>4. call'[c].reply = reply
    BY <1>2, <1>3, IdleFields DEF Answer, AdminInv, TypeOK, Replies
<1>5. reply = "not_found" => ~Exists(p)
    BY <1>1, <1>3 DEF Refusal
<1>6. reply = "invalid_argument" => Exists(p) /\ \E f \in Fields : ~Storable(f, new[f])
    BY <1>1 DEF Refusal
<1>7. reply = "already_exists" => Exists(p) /\ NameTaken(new.name, p)
    BY <1>1 DEF Refusal
<1>8. /\ row \in EndpointRow /\ req \in UpdateRequests /\ p \in Ids
      /\ Exists(p) => \A f \in Fields \ call[c].missed : row[f] = endpoint[p][f]
    BY DEF WriteBack, AdminInv, CallIsSound
<1>9. \A f \in Fields : new[f] = IF f \in DOMAIN req THEN req[f] ELSE row[f]
    BY <1>0 DEF Merged
<1>10. ASSUME reply = "invalid_argument"
       PROVE  \E f \in DOMAIN req : ~Storable(f, req[f])
    BY <1>6, <1>8, <1>9, <1>10, RowIsStorable
<1>11. ASSUME reply = "already_exists"
       PROVE  "name" \in (DOMAIN req) \cup call[c].missed
    <2>1. SUFFICES ASSUME "name" \notin DOMAIN req, "name" \notin call[c].missed
                   PROVE  FALSE
        OBVIOUS
    <2>2. new["name"] = endpoint[p]["name"]
        BY <1>7, <1>8, <1>9, <1>11, <2>1 DEF Fields
    <2>3. PICK q \in Ids : q # p /\ Exists(q) /\ endpoint[q].name = new.name
        BY <1>7, <1>11 DEF NameTaken
    <2> QED BY <1>7, <1>8, <1>11, <2>2, <2>3 DEF AdminInv, NamesAreUnique
<1> QED BY <1>0, <1>2, <1>3, <1>4, <1>5, <1>7, <1>10, <1>11 DEF ReplyIsTrue

\* An update is told what became of it, however it overlaps with others.
THEOREM UpdateRepliesTrue == Spec => UpdateRepliesAreTrue
<1>1. ASSUME AdminInv, [Next]_vars, NEW c \in Calls, call[c].pc # "idle", call'[c].pc = "idle"
      PROVE  ReplyIsTrue(c, call[c].id, call[c].req, call'[c].reply)
    <2> DEFINE p == call[c].id
               req == call[c].req
    <2>0. call \in [Calls -> CallState]
        BY <1>1 DEF AdminInv, TypeOK
    <2>1. CASE StatementFails(c)
        <3>1. call'[c].reply = "internal" /\ faults' = faults + 1 /\ faults \in Nat
            BY <1>1, <2>0, <2>1, IdleFields, AdminAssumption
               DEF StatementFails, Answer, Replies, AdminInv, TypeOK
        <3> QED BY <3>1 DEF ReplyIsTrue
    <2>2. CASE ReadForUpdate(c)
        <3>1. endpoint' = endpoint
            BY <2>2 DEF ReadForUpdate
        <3>2. CASE ~Exists(p) /\ Answer(c, "not_found")
            <4>1. call'[c].reply = "not_found"
                BY <2>0, <3>2, IdleFields DEF Answer, Replies
            <4> QED BY <3>1, <3>2, <4>1 DEF ReplyIsTrue
        <3>3. CASE (\E f \in DOMAIN req : ~Passes(f, req[f])) /\ Answer(c, "invalid_argument")
            <4>1. call'[c].reply = "invalid_argument"
                BY <2>0, <3>3, IdleFields DEF Answer, Replies
            <4> QED BY <3>1, <3>3, <4>1 DEF ReplyIsTrue
        <3>4. CASE Exists(p) /\ call' = [call EXCEPT ![c] = HasRead(call[c], endpoint[p])]
            <4>1. call[c].pc = "read" /\ p \in Ids
                BY <1>1, <2>2 DEF ReadForUpdate, AdminInv, CallIsSound
            <4>2. endpoint[p] \in EndpointRow
                BY <1>1, <3>4, <4>1 DEF AdminInv, TypeOK, Exists
            <4>3. call'[c].pc = "write"
                BY <2>0, <3>4, <4>2, HasReadFields
            <4> QED BY <1>1, <4>3
        <3> QED BY <2>2, <3>2, <3>3, <3>4, Zenon DEF ReadForUpdate, HasRead
    <2>3. CASE WriteBack(c) /\ Refusal(p, Merged(call[c].row, req)) # "none"
        BY <1>1, <2>3, RefusedWrite
    <2>4. CASE WriteBack(c) /\ Refusal(p, Merged(call[c].row, req)) = "none"
        <3>1. PICK new : new = Merged(call[c].row, req)
            OBVIOUS
        <3>2. p \in Ids /\ endpoint' = [endpoint EXCEPT ![p] = new]
            BY <1>1, <2>4, <3>1, AcceptedFacts
        <3>3. PICK reply \in {"ok", "internal"} : /\ call'[c] = Idle(reply)
                                                  /\ reply = "internal" => faults' > faults
            BY <1>1, <2>4, AcceptedFacts
        <3>4. call'[c].reply = reply
            BY <3>3, IdleFields DEF Replies
        <3>5. req \in UpdateRequests
            BY <1>1 DEF AdminInv, CallIsSound
        <3>6. endpoint'[p] = new /\ \A f \in DOMAIN req : new[f] = req[f]
            BY <1>1, <3>1, <3>2, <3>5, RequestFields DEF Merged, AdminInv, TypeOK
        <3> QED BY <3>3, <3>4, <3>6 DEF ReplyIsTrue
    <2> QED BY <1>1, <2>1, <2>2, <2>3, <2>4, EndsByItself
<1>2. AdminInv /\ [Next]_vars =>
        [\A c \in Calls :
           LET p == call[c].id
               req == call[c].req
               reply == call'[c].reply
           IN  (call[c].pc # "idle" /\ call'[c].pc = "idle") =>
                 /\ reply = "ok" => \A f \in DOMAIN req : endpoint'[p][f] = req[f]
                 /\ reply = "not_found" => ~Exists(p)
                 /\ reply = "invalid_argument" =>
                      \E f \in DOMAIN req : ~Passes(f, req[f]) \/ ~Storable(f, req[f])
                 /\ reply = "already_exists" =>
                      /\ "name" \in (DOMAIN req) \cup call[c].missed
                      /\ NameTaken(Merged(call[c].row, req).name, p)
                 /\ reply = "internal" => faults' > faults
                 /\ reply \notin {"ok", "internal"} => endpoint' = endpoint]_vars
    BY <1>1, Zenon DEF ReplyIsTrue
<1> QED BY <1>2, AdminInit, AdminStep, PTL DEF Spec, UpdateRepliesAreTrue
=============================================================================
