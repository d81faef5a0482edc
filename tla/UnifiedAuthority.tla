--------------------------- MODULE UnifiedAuthority ---------------------------
(***************************************************************************)
(* The unified lifecycle authority (durability/unified_authority_pr02.py)  *)
(* on top of the lifecycle store: before expensive work an intent is       *)
(* recorded, for a paper cycle or for a paper attempt; at its end exactly  *)
(* one terminal record, and for an attempt the final attempt row and       *)
(* reservation in the same transaction.                                    *)
(*                                                                         *)
(* An intent is owned for TTL ticks of one boot.  Its fencing_token is     *)
(* always 1 and the process_generation always 1, so what a fence binds is  *)
(* the owner id, the boot and the expiry, which the row never changes:     *)
(* the AuthorityFence a caller holds is a copy of the row.  pr02_intents   *)
(* admits one intent per run and sequence and one per attempt and          *)
(* generation, so an intent is named here by its cycle or its attempt.     *)
(* The outbox event and the a3 projection are inserted with the terminal   *)
(* record, and derive from it; they are part of it.                        *)
(***************************************************************************)
EXTENDS DurableLifecycle

CONSTANTS
    Process,      \* processes that run an authority
    MaxCycle,     \* bound: cycle sequences of the run
    Plan,         \* prepared_plan_hash: the payload of an attempt intent
    OwnerId,      \* owner_id values of the authority
    OwnerOf,      \* OwnerOf[p]: the owner_id process p is configured with
    NoIntent,     \* no row in pr02_intents
    Evidence,     \* provider_evidence_hash values
    NoEvidence    \* the NULL of an intent no evidence was bound to

Cycle == 1..MaxCycle

Work == Cycle \cup Attempt

ASSUME AuthorityAssumption ==
    /\ MaxCycle \in Nat
    /\ Cycle \cap Attempt = {}
    /\ OwnerOf \in [Process -> OwnerId]
    /\ NoEvidence \notin Evidence

VARIABLES
    intents,      \* pr02_intents
    terminals     \* pr02_terminal_records, each with its pr02_outbox_event

authorityVars == <<intents, terminals>>

-----------------------------------------------------------------------------
(* payload "cycle" stands for the payload of a cycle intent, which its run *)
(* and sequence determine.                                                 *)
Intent == [owner : OwnerId, boot : 1..MaxBoot, expires : Nat,
           payload : Plan \cup {"cycle"}, evidence : Evidence \cup {NoEvidence},
           status : {"recorded", "evidence_bound", "terminal", "indeterminate"}]

ASSUME NoIntentIsNoRow == NoIntent \notin Intent

Outcome == {"success", "blocked", "indeterminate"}

(* A terminal record and the reservation state it reports; "none" is an    *)
(* intent without a record.                                                *)
Terminal == [outcome : Outcome \cup {"none"},
             reservation : ReservationState \cup {"not_applicable"}]

NoTerminal == [outcome |-> "none", reservation |-> "not_applicable"]

AuthorityTypeOK ==
    /\ intents \in [Work -> Intent \cup {NoIntent}]
    /\ terminals \in [Work -> Terminal]

AuthorityInit ==
    /\ intents = [i \in Work |-> NoIntent]
    /\ terminals = [i \in Work |-> NoTerminal]

-----------------------------------------------------------------------------
Recorded(i) == intents[i] # NoIntent

Resolved(i) == terminals[i] # NoTerminal

(* recovery_summary: everything but "terminal_exactly_once". *)
Unresolved(i) == Recorded(i) /\ ~Resolved(i)

(* next_cycle_sequence: MAX(sequence) + 1. *)
IsNextSequence(n) ==
    /\ \A c \in Cycle : Recorded(c) => c < n
    /\ n = 1 \/ (n - 1 \in Cycle /\ Recorded(n - 1))

(* NewIntent with a bug: the deadline lies before the intent. *)
NewIntentBackwards(p, payload) ==
    [owner |-> OwnerOf[p], boot |-> clock.boot, expires |-> clock.tick - TTL,
     payload |-> payload, evidence |-> NoEvidence, status |-> "recorded"]

NewIntent(p, payload) ==
    [owner |-> OwnerOf[p], boot |-> clock.boot, expires |-> clock.tick + TTL,
     payload |-> payload, evidence |-> NoEvidence, status |-> "recorded"]

(* _begin_intent, the INSERT: there is no intent for this work yet. *)
BeginIntent(p, i, payload) ==
    /\ ~Recorded(i)
    /\ intents' = [intents EXCEPT ![i] = NewIntent(p, payload)]
    /\ UNCHANGED <<terminals, leaseVars, outboxVars, lifecycleVars>>

(* _begin_intent, the exact replay: the fence of the existing row, marked  *)
(* replayed.  An intent that is still open must be the caller's own, of    *)
(* this boot and before its deadline.                                      *)
IntentReplayed(p, i, payload) ==
    /\ Recorded(i)
    /\ intents[i].payload = payload
    /\ ~Resolved(i) => /\ intents[i].owner = OwnerOf[p]
                       /\ Live(intents[i].boot, intents[i].expires)

(* PR02_INTENT_IMMUTABILITY_CONFLICT, PR02_INTENT_REQUIRES_RECONCILIATION. *)
IntentConflict(p, i, payload) == Recorded(i) /\ ~IntentReplayed(p, i, payload)

(* _verify_fence without terminal replay, judged by the reading now that   *)
(* the operation took before it waited for its transaction.                *)
FenceValid(p, i, now) ==
    /\ Recorded(i)
    /\ intents[i].owner = OwnerOf[p]
    /\ intents[i].boot = clock.boot /\ now < intents[i].expires

(* PR02_PROVIDER_EVIDENCE_CONFLICT: other evidence is bound already. *)
EvidenceConflict(i, e) == Recorded(i) /\ intents[i].evidence \notin {NoEvidence, e}

(* bind_provider_evidence: it does not ask whether the intent is terminal. *)
BindEvidence(p, i, now, e) ==
    /\ FenceValid(p, i, now) /\ ~EvidenceConflict(i, e)
    /\ intents' = [intents EXCEPT ![i].evidence = e, ![i].status = "evidence_bound"]
    /\ UNCHANGED <<terminals, leaseVars, outboxVars, lifecycleVars>>

-----------------------------------------------------------------------------
(* RecordTerminal with a bug: the existing record is replaced. *)
RecordTerminalAgain(p, i, now, outcome, reservation) ==
    /\ FenceValid(p, i, now)
    /\ terminals' = [terminals EXCEPT ![i] =
           [outcome |-> outcome, reservation |-> reservation]]
    /\ intents' = [intents EXCEPT ![i].status =
           IF outcome = "indeterminate" THEN "indeterminate" ELSE "terminal"]

(* _insert_terminal_and_outbox.  A second, different record is refused and *)
(* an exact replay changes nothing, so an intent that has one is no step.  *)
RecordTerminal(p, i, now, outcome, reservation) ==
    /\ FenceValid(p, i, now)
    /\ ~Resolved(i)
    /\ terminals' = [terminals EXCEPT ![i] =
           [outcome |-> outcome, reservation |-> reservation]]
    /\ intents' = [intents EXCEPT ![i].status =
           IF outcome = "indeterminate" THEN "indeterminate" ELSE "terminal"]

(* The evidence e of the report must be what is bound, if anything is. *)
CommitCycleTerminal(p, c, now, outcome, e) ==
    /\ ~EvidenceConflict(c, e)
    /\ RecordTerminal(p, c, now, outcome, "not_applicable")
    /\ UNCHANGED <<leaseVars, outboxVars, lifecycleVars>>

(* _event with topic=None: a journal event without outbox work. *)
JournalOnly(a, seq, k, from, to) ==
    /\ ~KeyUsed(k)
    /\ ~\E e \in journal : e.attempt = a /\ e.seq = seq
    /\ journal' = journal \cup
           {[attempt |-> a, seq |-> seq, key |-> k, from |-> from, to |-> to]}
    /\ UNCHANGED outboxVars

(* FinishAttempt with a bug: the reservation is left active. *)
FinishAttemptOnly(a, k, target, reservation) ==
    LET row  == attempts[a]
        next == row.revision + 1
    IN  /\ next \in Revision
        /\ row.reservation # "none" => reservations[a] = "active"
        /\ attempts' = [attempts EXCEPT ![a] =
               [row EXCEPT !.state = target, !.revision = next, !.terminal = TRUE]]
        /\ JournalOnly(a, next, k, row.state, target)
        /\ UNCHANGED <<leaseVars, reservations, writer>>

(* The attempt row, its event and its reservation at the terminal, under   *)
(* no attempt lease: the row is terminal in whatever state it is left, and *)
(* _terminalize_reservation wants an active reservation ("active" freezes  *)
(* it).                                                                    *)
FinishAttempt(a, k, target, reservation) ==
    LET row  == attempts[a]
        next == row.revision + 1
    IN  /\ next \in Revision
        /\ row.reservation # "none" => reservations[a] = "active"
        /\ attempts' = [attempts EXCEPT ![a] =
               [row EXCEPT !.state = target, !.revision = next, !.terminal = TRUE,
                   !.reservation = IF @ = "none" THEN @ ELSE reservation]]
        /\ reservations' = [reservations EXCEPT ![a] =
               IF @ = "none" THEN @ ELSE reservation]
        /\ JournalOnly(a, next, k, row.state, target)
        /\ UNCHANGED <<leaseVars, writer>>

(* commit_attempt_terminal, for a rejection: a step of the state machine. *)
CommitAttemptTerminal(p, a, k, now, target, reservation, outcome) ==
    /\ Exists(a)
    /\ target \in AllowedTransitions(attempts[a].state)
    /\ RecordTerminal(p, a, now, outcome, reservation)
    /\ FinishAttempt(a, k, target, reservation)

(* commit_verified_paper_success (paper_shadow/mpr2602_completion.py): a   *)
(* planned attempt with an active reservation is finished in its state.    *)
CommitPaperSuccess(p, a, k, now) ==
    /\ Exists(a)
    /\ attempts[a].state = "planned" /\ reservations[a] = "active"
    /\ RecordTerminal(p, a, now, "success", "released")
    /\ FinishAttempt(a, k, "planned", "released")
=============================================================================
