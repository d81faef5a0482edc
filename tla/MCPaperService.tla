---------------------------- MODULE MCPaperService ----------------------------
(* Small instances of the paper service.                                    *)
EXTENDS PaperService, TLC

CONSTANTS a1, p1, p2, plan1, plan2, installed, answer1, answer2, failure

OneAttempt == {a1}
OneProcess == {p1}
Processes == {p1, p2}
Plans == {plan1, plan2}
OnePlan == {plan1}

(* What a source can answer, and the evidence of no answer. *)
Answers == {answer1, answer2, failure}
OneAnswer == {answer1, failure}

(* Every installed service uses the same owner_id, for leases too. *)
InstalledOwner == {installed}
SharedOwner == [p \in Process |-> installed]

MCTopic == {"lifecycle.event", "submission.reconcile", "capital.reservation"}
MCResource == Attempt \cup MCTopic
MCTopicsOf == [p \in {} |-> {}]
MCEventId == Attempt \X (0..MaxRevision)
MCKey == Attempt \X {"reserve", "release", "terminal"}
MCKeysFor(a, n) == MCKey

OneItem == {<<a1>>}
Anyone == Permutations(Processes) \cup Permutations(Plans)
              \cup Permutations({answer1, answer2})
=============================================================================
