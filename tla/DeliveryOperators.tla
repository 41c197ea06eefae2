-------------------------- MODULE DeliveryOperators --------------------------
(***************************************************************************)
(* The workers of module DeliveryWorker beside DeliveryService, whose      *)
(* UpdateDeliveryAttempt lets a client of the gRPC interface do to any row *)
(* what only the worker that claimed it does: write an outcome, whatever   *)
(* the row holds and whoever is sending it.                                *)
(*                                                                         *)
(* The other methods of the service change nothing, or are the actions     *)
(* CreateDelivery and CreateDeliveriesForEvent of DeliveryWorker.          *)
(***************************************************************************)
EXTENDS DeliveryWorker

CONSTANT
    MaxEdits   \* bound: updates by clients, for each delivery

ASSUME OperatorAssumption == MaxEdits \in Nat

VARIABLE
    edits   \* ghost: updates by clients, for each delivery

operatorVars == <<vars, edits>>

OperatorInit == Init /\ edits = [d \in Deliveries |-> 0]

\* The enum DeliveryStatus; a number it does not know is as good as UNSPECIFIED.
ProtoStatuses == {"UNSPECIFIED", "PENDING", "DELIVERING", "DELIVERED", "DEAD_LETTERED"}

\* "": no status.
DeliveryStatusFromProto(s) ==
    CASE s = "PENDING"       -> "pending"
      [] s = "DELIVERING"    -> "delivering"
      [] s = "DELIVERED"     -> "delivered"
      [] s = "DEAD_LETTERED" -> "dead_lettered"
      [] OTHER               -> ""

\* Bound: a client may name any time.  One further ahead is more ticks of waiting.
RetryDistances == 0..MaxDelay

\* retry_in: how far next_retry_at is ahead; 0 when it is absent or past.  Both
\* stamps are the client's: nothing derives them from the status.
EditRequests ==
    [status: ProtoStatuses, http: HttpStatuses, retry_in: RetryDistances,
     delivered_at: BOOLEAN, dead_lettered_at: BOOLEAN]

\* Variant, never used: the attempts that clients report are not counted.
EditedRowUncounted(r, req) ==
    LET status == DeliveryStatusFromProto(req.status) IN
    [r EXCEPT !.status = status, !.attempts = 0,
              !.due_in = IF status = "pending" THEN req.retry_in ELSE 0, !.claim_age = 0,
              !.delivered_at = req.delivered_at,
              !.dead_lettered_at = req.dead_lettered_at]

EditedRow(r, req) ==
    LET status == DeliveryStatusFromProto(req.status) IN
    [r EXCEPT !.status = status, !.attempts = @ + 1,
              !.due_in = IF status = "pending" THEN req.retry_in ELSE 0, !.claim_age = 0,
              !.delivered_at = req.delivered_at,
              !.dead_lettered_at = req.dead_lettered_at]

\* A request that is refused, by the service or by the schema, changes nothing and
\* is not a step; nor is the reply of one that is carried out.
UpdateByClient(d) ==
    /\ delivery[d].status # "none"
    /\ edits[d] < MaxEdits
    /\ \E req \in EditRequests :
         /\ DeliveryStatusFromProto(req.status) # ""
         /\ IsStorable(req.http)
         /\ delivery' = [delivery EXCEPT ![d] = EditedRow(@, req)]
    /\ edits' = [edits EXCEPT ![d] = @ + 1]
    /\ UNCHANGED <<endpoint, worker, faults, acked, sends>>

OperatorNext ==
    \/ Next /\ UNCHANGED edits
    \/ \E d \in Deliveries : UpdateByClient(d)

OperatorSpec == OperatorInit /\ [][OperatorNext]_operatorVars

\* Clients owe nothing.
OperatorFairSpec == OperatorSpec /\ Fairness

----------------------------------------------------------------------------
(* What must hold whatever clients write *)

\* An update by a client costs the endpoint at most one request more: a finished
\* row that is put back has no attempts left beyond the next one, and a row put
\* back while a worker is sending it does not start a second series of attempts.
RequestsBoundedByEdits ==
    faults = 0 => \A d \in Deliveries : sends[d] <= MaxAttemptsLimit + edits[d]

\* A finished row that no worker has in hand is left alone by all but clients:
\* what is overwritten is overwritten by a worker that was sending it before.
FinishedStays ==
    [][\A d \in Deliveries :
         (/\ delivery[d].status \in Terminal
          /\ \A w \in Workers : d \notin worker[w].batch
          /\ delivery'[d] # delivery[d]) => edits'[d] > edits[d]]_operatorVars
=============================================================================
