-------------------------- MODULE MCDeliveryWorker --------------------------
(***************************************************************************)
(* Instances of DeliveryWorker for TLC.  Ids are model values; the numbers *)
(* are given in each configuration.  Nothing is symmetric for the liveness *)
(* runs; the safety runs use the symmetry of the ids they have several of. *)
(***************************************************************************)
EXTENDS DeliveryRefinement, TLC

\* One answer of each kind the code tells apart: no response, delivered, a
\* permanent failure, a failure worth a retry.
Answers == {0, 200, 404}

\* Delivered, or a failure worth a retry.
YesOrNo == {200, 503}

\* With one more that net/http accepts and the schema does not.
AnswersWithUnstorable == {200, 503, 999}

\* Overlapping workers can revive a row without end: explore up to the limit.
\* (Not used where claims are exclusive: there the limit holds.)
FewAttempts == \A d \in Deliveries : delivery[d].attempts <= MaxAttemptsLimit

WorkerSymmetry == Permutations(Workers)
EventSymmetry == Permutations(Events)
EndpointSymmetry == Permutations(Endpoints)
IdSymmetry == WorkerSymmetry \cup EventSymmetry \cup EndpointSymmetry
=============================================================================
