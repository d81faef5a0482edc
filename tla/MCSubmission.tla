----------------------------- MODULE MCSubmission -----------------------------
(* Small instances of the submission service.                               *)
EXTENDS Submission, TLC

CONSTANTS a1, a2, w1, w2, t1, t2, m1, m2, k1

OneAttempt == {a1}
TwoAttempts == {a1, a2}
OneWorker == {w1}
Workers == {w1, w2}
OneTask == {t1}
Tasks == {t1, t2}
OneMessage == {m1}
Messages == {m1, m2}
CallKeys == {k1}

AllTopics == {"lifecycle.event", "submission.reconcile", "capital.reservation"}
NoPublishers == [p \in {} |-> {}]
MCResource == Attempt \cup Topic
MCEventId == Attempt \X (0..MaxRevision)

MCStoreKey(k, s) == <<k, s>>
MCEventKey(a, n) == <<a, n>>
MCKey == (CallKey \X {"intent", "ack", "transport-error"})
             \cup (Attempt \X (0..(MaxRevision + 1)))
AnyKey(a, n) == Key

Planned == {"planned"}
AllStates == ExecutionState

(* One way to a signed attempt, and every end of one that was submitted. *)
Path == {"compiled", "simulated", "approved", "signed",
         "reconciled_success", "ambiguous_manual_review"}

(* Only the way there. *)
ToSigned == {"compiled", "simulated", "approved", "signed"}

(* The outbox only grows where no publisher runs. *)
SubmissionView == <<clock, leases, held, lifecycleVars, submissionVars>>

Symmetry == Permutations(Workers) \cup Permutations(Tasks) \cup Permutations(Messages)
=============================================================================
