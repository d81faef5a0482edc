-------------------------- MODULE MCRootedRecovery --------------------------
(* A small instance of rooted recovery: slots 1, 3 and 5, with gaps between.*)
EXTENDS RootedRecovery, TLC

CONSTANTS wh, e1, e2, e3, e4, c1, c2, w1

OneWebhook == {wh}
Events == {e1, e2, e3, e4}
AllOf == [e \in Events |-> wh]

(* e3 and e4 are two events of one transaction. *)
Slots == (e1 :> 1) @@ (e2 :> 3) @@ (e3 :> 5) @@ (e4 :> 5)
Transactions == (e1 :> e1) @@ (e2 :> e2) @@ (e3 :> e3) @@ (e4 :> e3)

(* One with a gap inside, and one that is beyond a gap or behind an open *)
(* one, as it arrives late or early.                                     *)
Deliveries == {<<e1, e2>>, <<e3, e4>>}
Callers == {c1, c2}
OneId == {w1}

(* The gap a call read is looked at only while it is being recovered.    *)
RecoveryView == <<now, boot, received, inbox, gaps, work, handoffs, admitted, dead, calls,
                  [c \in Caller |-> IF calls[c].pc \in {"recover", "close"}
                                    THEN found[c] ELSE NoGap]>>

AnyOrder == Permutations(Callers)
=============================================================================
