--------------------------- MODULE ExecutionStates ---------------------------
(***************************************************************************)
(* The execution state machine of one attempt (execution/models.py,        *)
(* execution/state_machine.py) and the classes of states the durable store *)
(* decides by (durability/lifecycle.py).                                   *)
(***************************************************************************)

(* States from which the lifecycle may still be resumed, rebuilt or have   *)
(* its reservation released automatically.                                 *)
PreSubmission == {"created", "planned", "compiled", "structurally_validated",
                  "simulated", "approved", "signed",
                  "proven_expired", "rebuild_eligible"}

MayHaveSubmitted == {"submission_intent_recorded", "submission_uncertain",
                     "accepted", "pending", "landed", "reconciling", "submitted"}

TerminalStates == {"rejected_pre_send", "reconciled_success",
                   "reconciled_failure", "ambiguous_manual_review",
                   "reconciled", "failed", "expired"}

(* "rejected" is in none of the three classes. *)
ExecutionState ==
    PreSubmission \cup MayHaveSubmitted \cup TerminalStates \cup {"rejected"}

(* ALLOWED_TRANSITIONS; a state without a case has no successor. *)
AllowedTransitions(s) ==
    CASE s = "created" -> {"planned", "failed"}
      [] s = "planned" -> {"compiled", "rejected_pre_send", "rejected", "failed"}
      [] s = "compiled" -> {"structurally_validated", "simulated",
                            "rejected_pre_send", "rejected", "proven_expired"}
      [] s = "structurally_validated" -> {"simulated", "rejected_pre_send", "rejected"}
      [] s = "simulated" -> {"approved", "rejected_pre_send", "rejected"}
      [] s = "approved" -> {"signed", "proven_expired", "rejected_pre_send"}
      [] s = "signed" -> {"submission_intent_recorded", "proven_expired",
                          "rejected_pre_send", "failed"}
      [] s = "submission_intent_recorded" ->
             {"submission_uncertain", "accepted", "rejected_pre_send"}
      [] s = "submission_uncertain" -> {"reconciling", "ambiguous_manual_review"}
      [] s = "accepted" -> {"pending", "reconciling"}
      [] s = "pending" -> {"landed", "reconciling", "ambiguous_manual_review"}
      [] s = "landed" -> {"reconciling", "reconciled"}
      [] s = "reconciling" -> {"reconciled_success", "reconciled_failure",
                               "ambiguous_manual_review"}
      [] s = "proven_expired" -> {"rebuild_eligible"}
      [] s = "submitted" -> {"pending", "landed", "failed", "expired"}
      [] OTHER -> {}

(* scan_startup_recovery: what a restarted process is told to do with an   *)
(* attempt that is not terminal.                                           *)
RecoveryAction(s) ==
    CASE s = "rebuild_eligible" -> "rebuild"
      [] s \in PreSubmission \ {"rebuild_eligible"} -> "resume_pre_submission"
      [] s \in MayHaveSubmitted -> "reconcile_no_resubmit"
      [] OTHER -> "manual_review"
=============================================================================
