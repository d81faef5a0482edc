------------------------ MODULE MCCapitalReservations ------------------------
(* A small instance of the capital coordinator.                             *)
EXTENDS CapitalReservations, TLC

CONSTANTS a1, a2, p1, p2, owner

Attempts == {a1, a2}
Processes == {p1, p2}
OneOwner == {owner}

AllTopics == {"lifecycle.event", "submission.reconcile", "capital.reservation"}
NoPublishers == [p \in {} |-> {}]
MCResource == Attempt \cup Topic
MCEventId == Attempt \X (0..MaxRevision)
MCKey == Attempt \X (0..MaxRevision)
MCKeysFor(a, n) == {<<a, n>>} \cap Key

(* Both attempts fit the larger balance, one the smaller.                   *)
OneEach == [a \in Attempt |-> 1]

(* The outbox only grows here and decides nothing, and neither does the    *)
(* ghost variable writer.                                                  *)
CapitalView == <<clock, leases, held, attempts, reservations, journal, capitalVars>>

AnyOrder == Permutations(Attempts) \cup Permutations(Processes)
=============================================================================
