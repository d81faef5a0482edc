--------------------------- MODULE MCDurableOutbox ---------------------------
(* Two publishers of one topic over the lifecycle store, and two attempts, *)
(* each of whose creation is an event: enough for the second one to get the *)
(* outbox id of the first when that row was purged.                         *)
EXTENDS DurableLifecycle, TLC

CONSTANTS p1, p2, a1, a2

MCPublisher == {p1, p2}
MCAttempt == {a1, a2}

AllTopics == {"lifecycle.event", "submission.reconcile", "capital.reservation"}
ServeEvents == [p \in MCPublisher |-> {"lifecycle.event"}]

MCResource == Attempt \cup Topic
MCEventId == Attempt \X (0..MaxRevision)
MCKey == MCEventId
MCKeysFor(a, n) == {<<a, n>>} \cap Key

(* Nobody writes an attempt after its creation here, so what the store may *)
(* still do depends on the outbox and on which events there were.          *)
OutboxView == outboxAllVars

Symmetry == Permutations(MCAttempt) \cup Permutations(MCPublisher)
=============================================================================
