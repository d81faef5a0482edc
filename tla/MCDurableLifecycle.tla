-------------------------- MODULE MCDurableLifecycle --------------------------
(* Small instances of the lifecycle store.                                  *)
EXTENDS DurableLifecycle, TLC

CONSTANTS a1, w1, w2, m1, m2

OneAttempt == {a1}
Workers == {w1, w2}
Messages == {m1, m2}

AllTopics == {"lifecycle.event", "submission.reconcile", "capital.reservation"}
NoPublishers == [p \in {} |-> {}]

MCResource == Attempt \cup Topic
MCOwner == Worker \cup Publisher
MCEventId == Attempt \X (0..MaxRevision)
MCKey == Attempt \X (0..MaxRevision)

FreshOnly == {"planned"}
AllTargets == ExecutionState

(* Keys are only ever compared for equality, so the key of a new event may *)
(* be named after the event: one representative of each symmetry class.    *)
MCKeysFor(a, n) == {<<a, n>>} \cap Key
=============================================================================
