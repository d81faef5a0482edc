--------------------------- MODULE DurableLifecycle ---------------------------
(***************************************************************************)
(* The durable lifecycle store (durability/lifecycle.py): attempts, their  *)
(* capital reservations and the immutable event journal, written by        *)
(* workers that hold the attempt's lease.  Every operation below is one    *)
(* BEGIN IMMEDIATE transaction, so it is one action; an operation that     *)
(* raises rolls back and is no action.                                     *)
(*                                                                         *)
(* An idempotency key that is already in the journal makes transition,     *)
(* record_submission_intent and release_abandoned_reservation return       *)
(* without writing: at the store that is no step (Replayed names the       *)
(* condition for the callers' modules).                                    *)
(***************************************************************************)
EXTENDS DurableOutbox, ExecutionStates

CONSTANTS
    Attempt,       \* attempt ids; the lease of attempt a is resource a
    Worker,        \* owner ids that write attempts
    Message,       \* canonical message hashes
    Key,           \* idempotency keys
    KeysFor(_, _), \* KeysFor(a, n): keys a caller may choose for event n of a
    NoAttempt,     \* an attempt that has no row
    NoMessage,     \* message_hash IS NULL
    InitialStates, \* create_attempt(state=)
    Targets,       \* the states callers ask transition for
    ReleaseFlags,  \* transition(release_reservation=): a subset of BOOLEAN
    MaxRevision    \* bound: revisions of an attempt

ASSUME LifecycleAssumption ==
    /\ Attempt \subseteq Resource /\ Attempt \cap Topic = {}
    /\ Worker \subseteq Owner
    /\ InitialStates \subseteq ExecutionState
    /\ Targets \subseteq ExecutionState
    /\ ReleaseFlags \subseteq BOOLEAN
    /\ MaxRevision \in Nat
    /\ \A a \in Attempt, n \in 0..(MaxRevision + 1) : KeysFor(a, n) \subseteq Key
    /\ NoMessage \notin Message
    /\ Attempt \X (0..MaxRevision) \subseteq EventId
    /\ {"lifecycle.event", "submission.reconcile", "capital.reservation"} \subseteq Topic

VARIABLES
    attempts,      \* durable_attempts
    reservations,  \* durable_reservations, one row per attempt at most
    journal,       \* durable_events
    writer         \* ghost: the lease under which each attempt was last written

lifecycleVars == <<attempts, reservations, journal, writer>>
vars == <<leaseVars, outboxVars, lifecycleVars>>

-----------------------------------------------------------------------------
Revision == 0..MaxRevision

ReservationState == {"none", "active", "released", "consumed"}

AttemptRow == [state : ExecutionState, revision : Revision,
               message : Message \cup {NoMessage},
               reservation : ReservationState, terminal : BOOLEAN]

ASSUME NoAttemptIsNoRow == NoAttempt \notin AttemptRow

(* A journal event: sequence_no, idempotency_key, from_state and to_state; *)
(* the creation event has no from_state.                                   *)
Event == [attempt : Attempt, seq : Revision, key : Key,
          from : ExecutionState \cup {"none"}, to : ExecutionState]

Writer == [owner : Worker \cup {NoOwner}, fence : 0..MaxFence]

TypeOK ==
    /\ OutboxTypeOK
    /\ attempts \in [Attempt -> AttemptRow \cup {NoAttempt}]
    /\ reservations \in [Attempt -> ReservationState]
    /\ journal \subseteq Event
    /\ writer \in [Attempt -> Writer]

Init ==
    /\ OutboxInit
    /\ attempts = [a \in Attempt |-> NoAttempt]
    /\ reservations = [a \in Attempt |-> "none"]
    /\ journal = {}
    /\ writer = [a \in Attempt |-> [owner |-> NoOwner, fence |-> 0]]

-----------------------------------------------------------------------------
Exists(a) == attempts[a] # NoAttempt

KeyUsed(k) == \E e \in journal : e.key = k

(* The committed result is returned instead of a second event. *)
Replayed(a, k) == \E e \in journal : e.key = k /\ e.attempt = a

(* AppendEvent with a bug: the outbox row is forgotten. *)
AppendEventOnly(a, seq, k, from, to, topic) ==
    /\ ~KeyUsed(k)
    /\ ~\E e \in journal : e.attempt = a /\ e.seq = seq
    /\ journal' = journal \cup
           {[attempt |-> a, seq |-> seq, key |-> k, from |-> from, to |-> to]}
    /\ UNCHANGED outboxVars

(* _event: append event seq of attempt a, with its outbox row.             *)
(* UNIQUE(attempt_id, sequence_no) and the UNIQUE key abort otherwise.     *)
AppendEvent(a, seq, k, from, to, topic) ==
    /\ ~KeyUsed(k)
    /\ ~\E e \in journal : e.attempt = a /\ e.seq = seq
    /\ journal' = journal \cup
           {[attempt |-> a, seq |-> seq, key |-> k, from |-> from, to |-> to]}
    /\ Enqueue(<<a, seq>>, topic)

-----------------------------------------------------------------------------
(* create_attempt takes no lease.  With the key of an earlier creation it  *)
(* returns that attempt; any other repetition is refused.                  *)
CreateAttempt(a, k, s, reserve) ==
    LET reservation == IF reserve THEN "active" ELSE "none"
    IN  /\ ~Exists(a)
        /\ attempts' = [attempts EXCEPT ![a] =
               [state |-> s, revision |-> 0, message |-> NoMessage,
                reservation |-> reservation, terminal |-> FALSE]]
        /\ reservations' = [reservations EXCEPT ![a] = reservation]
        /\ AppendEvent(a, 0, k, "none", s, "lifecycle.event")
        /\ UNCHANGED <<leaseVars, writer>>

(* What every leased write checks and leaves behind. *)
WriteUnderLease(w, a) ==
    /\ Exists(a)
    /\ VerifyLease(w, a)
    /\ writer' = [writer EXCEPT ![a] = [owner |-> w, fence |-> held[w][a]]]
    /\ UNCHANGED leaseVars

(* Transition with a bug: a release leaves the attempt's copy as it was. *)
TransitionReleasesRowOnly(w, a, k, expected, target, release) ==
    LET row  == attempts[a]
        next == row.revision + 1
    IN  /\ WriteUnderLease(w, a)
        /\ expected = row.revision /\ next \in Revision
        /\ target \in AllowedTransitions(row.state)
        /\ attempts' = [attempts EXCEPT ![a] =
               [row EXCEPT !.state = target, !.revision = next,
                           !.terminal = target \in TerminalStates]]
        /\ reservations' = [reservations EXCEPT ![a] =
               IF release /\ @ = "active" THEN "released" ELSE @]
        /\ AppendEvent(a, next, k, row.state, target, "lifecycle.event")

(* transition: exact revision and an allowed step of the state machine.    *)
(* terminal_at_ns is set exactly for the terminal targets.                 *)
Transition(w, a, k, expected, target, release) ==
    LET row     == attempts[a]
        next    == row.revision + 1
        unlocks == release /\ reservations[a] = "active"
    IN  /\ WriteUnderLease(w, a)
        /\ expected = row.revision /\ next \in Revision
        /\ target \in AllowedTransitions(row.state)
        /\ attempts' = [attempts EXCEPT ![a] =
               [row EXCEPT !.state = target, !.revision = next,
                           !.terminal = target \in TerminalStates,
                           !.reservation = IF unlocks THEN "released" ELSE @]]
        /\ reservations' =
               [reservations EXCEPT ![a] = IF unlocks THEN "released" ELSE @]
        /\ AppendEvent(a, next, k, row.state, target, "lifecycle.event")

(* A canonical message belongs to one attempt: checked first, and again by *)
(* the partial unique index on message_hash.                               *)
MessageFree(a, m) ==
    \A b \in Attempt \ {a} : Exists(b) => attempts[b].message # m

(* RecordSubmissionIntent with a bug: the state is not checked. *)
RecordIntentFromAnyState(w, a, k, expected, m) ==
    LET row  == attempts[a]
        next == row.revision + 1
    IN  /\ WriteUnderLease(w, a)
        /\ MessageFree(a, m)
        /\ expected = row.revision /\ next \in Revision
        /\ attempts' = [attempts EXCEPT ![a] =
               [row EXCEPT !.state = "submission_intent_recorded",
                           !.revision = next, !.message = m]]
        /\ AppendEvent(a, next, k, row.state, "submission_intent_recorded",
                       "submission.reconcile")
        /\ UNCHANGED reservations

(* record_submission_intent: only a SIGNED attempt at the exact revision.  *)
RecordSubmissionIntent(w, a, k, expected, m) ==
    LET row  == attempts[a]
        next == row.revision + 1
    IN  /\ WriteUnderLease(w, a)
        /\ MessageFree(a, m)
        /\ row.state = "signed"
        /\ expected = row.revision /\ next \in Revision
        /\ attempts' = [attempts EXCEPT ![a] =
               [row EXCEPT !.state = "submission_intent_recorded",
                           !.revision = next, !.message = m]]
        /\ AppendEvent(a, next, k, row.state, "submission_intent_recorded",
                       "submission.reconcile")
        /\ UNCHANGED reservations

(* ReleaseAbandonedReservation with a bug: the row keeps its revision. *)
ReleaseWithoutRevision(w, a, k) ==
    LET row == attempts[a]
    IN  /\ WriteUnderLease(w, a)
        /\ row.state \in PreSubmission
        /\ reservations[a] = "active" /\ row.revision + 1 \in Revision
        /\ attempts' = [attempts EXCEPT ![a].reservation = "released"]
        /\ reservations' = [reservations EXCEPT ![a] = "released"]
        /\ AppendEvent(a, row.revision + 1, k, row.state, row.state,
                       "capital.reservation")

(* And with another: the copies get a status the schema does not know. *)
ReleaseAsAbandoned(w, a, k) ==
    LET row  == attempts[a]
        next == row.revision + 1
    IN  /\ WriteUnderLease(w, a)
        /\ row.state \in PreSubmission
        /\ reservations[a] = "active" /\ next \in Revision
        /\ attempts' = [attempts EXCEPT ![a] =
               [row EXCEPT !.revision = next, !.reservation = "abandoned"]]
        /\ reservations' = [reservations EXCEPT ![a] = "abandoned"]
        /\ AppendEvent(a, next, k, row.state, row.state, "capital.reservation")

(* release_abandoned_reservation: refused once a submission may have       *)
(* happened; no effect when nothing is reserved.                           *)
ReleaseAbandonedReservation(w, a, k) ==
    LET row  == attempts[a]
        next == row.revision + 1
    IN  /\ WriteUnderLease(w, a)
        /\ row.state \in PreSubmission
        /\ reservations[a] = "active" /\ next \in Revision
        /\ attempts' = [attempts EXCEPT ![a] =
               [row EXCEPT !.revision = next, !.reservation = "released"]]
        /\ reservations' = [reservations EXCEPT ![a] = "released"]
        /\ AppendEvent(a, next, k, row.state, row.state, "capital.reservation")

-----------------------------------------------------------------------------
AcquireAttemptLease(w, a) ==
    AcquireLease(w, a) /\ UNCHANGED <<outboxVars, lifecycleVars>>

(* WorkerCrash with a bug: the leases of the worker are deleted, and with  *)
(* them their fences. *)
WorkerCrashDropsLeases(w) ==
    /\ leases' = [r \in Resource |->
           IF leases[r].owner = w THEN NoLease ELSE leases[r]]
    /\ held' = [held EXCEPT ![w] = [r \in Resource |-> 0]]
    /\ UNCHANGED <<clock, outboxVars, lifecycleVars>>

WorkerCrash(w) ==
    ForgetTokens(w) /\ UNCHANGED <<outboxVars, lifecycleVars>>

TickStore == Tick /\ UNCHANGED <<outboxVars, lifecycleVars>>

Reboot == OutboxReboot /\ UNCHANGED lifecycleVars

(* A leased write that is not refused: at the revision the row has, to a   *)
(* state that can follow, under a key the caller may use for its event.    *)
Write(w, a) ==
    /\ Exists(a)
    /\ LET row == attempts[a]
       IN  \E k \in KeysFor(a, row.revision + 1) :
              \/ \E target \in Targets \cap AllowedTransitions(row.state),
                    release \in ReleaseFlags :
                    Transition(w, a, k, row.revision, target, release)
              \/ \E m \in Message :
                    RecordSubmissionIntent(w, a, k, row.revision, m)
              \/ ReleaseAbandonedReservation(w, a, k)

Next ==
    \/ \E a \in Attempt, s \in InitialStates, reserve \in BOOLEAN :
          \E k \in KeysFor(a, 0) : CreateAttempt(a, k, s, reserve)
    \/ \E w \in Worker, a \in Attempt : Write(w, a)
    \/ \E w \in Worker, a \in Attempt : AcquireAttemptLease(w, a)
    \/ \E w \in Worker : WorkerCrash(w)
    \/ OutboxStep /\ UNCHANGED lifecycleVars
    \/ TickStore
    \/ Reboot

Spec == Init /\ [][Next]_vars
-----------------------------------------------------------------------------
EventsOf(a) == {e \in journal : e.attempt = a}

(* integrity_check: an attempt's events are numbered without gap from 0 to *)
(* its revision, one event per number, each starting in the state where    *)
(* the one before ended; the last one ends in the attempt's state.  So     *)
(* every write of the row left its event and every event its write.        *)
JournalReplaysState ==
    \A a \in Attempt :
        /\ ~Exists(a) => EventsOf(a) = {}
        /\ Exists(a) =>
              /\ {e.seq : e \in EventsOf(a)} = 0..attempts[a].revision
              /\ \A e, f \in EventsOf(a) :
                    /\ e.seq = f.seq => e = f
                    /\ f.seq = e.seq + 1 => f.from = e.to
              /\ \A e \in EventsOf(a) :
                    e.seq = attempts[a].revision => e.to = attempts[a].state

(* One transaction for state, audit event and outbox work: the outbox was  *)
(* given exactly the committed events.                                     *)
EveryEventIsEmitted == emitted = {<<e.attempt, e.seq>> : e \in journal}

(* Fencing orders the writers: once an attempt was written under a lease,  *)
(* only that lease or one with a larger fence ever writes it again,        *)
(* whatever the clock, crashes and reboots did in between.                 *)
FencedWrites ==
    [][\A a \in Attempt :
          writer'[a] # writer[a] => writer'[a].fence > writer[a].fence]_vars

(* The capital coordinator treats a reservation row that disagrees with    *)
(* its copy in the attempt as corruption (DURABLE_RESERVATION_INCONSISTENT *)
(* in economics/durable_reservations.py): no operation makes them differ.  *)
ReservationCopiesAgree ==
    \A a \in Attempt :
        reservations[a] = IF Exists(a) THEN attempts[a].reservation ELSE "none"

(* No canonical message is ever the intent of two attempts, and no attempt *)
(* records a second intent ("never creates a second trade").               *)
OneIntentPerMessageAndAttempt ==
    /\ \A a, b \in Attempt :
          /\ Exists(a) /\ Exists(b)
          /\ attempts[a].message = attempts[b].message
          /\ attempts[a].message # NoMessage
          => a = b
    /\ \A e, f \in journal :
          /\ e.attempt = f.attempt
          /\ e.to = "submission_intent_recorded"
          /\ f.to = "submission_intent_recorded"
          => e = f

(* Once a submission may have happened the attempt keeps its message and   *)
(* startup recovery never again offers to resume or rebuild it.            *)
IntentIsIrrevocable ==
    [][\A a \in Attempt :
          Exists(a) /\ attempts[a].state \in MayHaveSubmitted =>
              /\ attempts'[a].message = attempts[a].message
              /\ RecoveryAction(attempts'[a].state)
                     \notin {"resume_pre_submission", "rebuild"}]_vars

=============================================================================
