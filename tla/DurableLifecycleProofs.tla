------------------------ MODULE DurableLifecycleProofs ------------------------
(***************************************************************************)
(* Theorems about the lifecycle store for every number of attempts,        *)
(* workers, messages and keys: it implements the outbox specification, its *)
(* journal replays its state, writers are fenced, and an intent is         *)
(* recorded once and never taken back.                                     *)
(*                                                                         *)
(* Every leased write has one shape (Advances): it moves one attempt to    *)
(* its next revision and appends the event that says so.  The invariants   *)
(* are proved for that shape and for the creation of an attempt.           *)
(***************************************************************************)
EXTENDS DurableLifecycle, DurableOutboxProofs

USE LeaseAssumption, OutboxAssumption, LifecycleAssumption, NoAttemptIsNoRow

(* What the state machine must not do once a submission may have happened. *)
LEMMA SubmittedIsClosed ==
    /\ \A s \in MayHaveSubmitted \cup TerminalStates :
          /\ AllowedTransitions(s) \subseteq MayHaveSubmitted \cup TerminalStates
          /\ "submission_intent_recorded" \notin AllowedTransitions(s)
          /\ RecoveryAction(s) \notin {"resume_pre_submission", "rebuild"}
          /\ s \notin PreSubmission /\ s # "signed"
    /\ "submission_intent_recorded" \in MayHaveSubmitted
BY DEF MayHaveSubmitted, TerminalStates, PreSubmission, AllowedTransitions,
       RecoveryAction

-----------------------------------------------------------------------------
NewEvent(a, seq, k, from, to) ==
    [attempt |-> a, seq |-> seq, key |-> k, from |-> from, to |-> to]

(* Attempt a moves to row under key k: what all leased writes have in      *)
(* common, and what each may change besides.                               *)
Advances(a, row, k) ==
    /\ Exists(a)
    /\ k \in Key
    /\ row \in AttemptRow
    /\ row.revision = attempts[a].revision + 1
    /\ attempts' = [attempts EXCEPT ![a] = row]
    /\ journal' = journal \cup
           {NewEvent(a, row.revision, k, attempts[a].state, row.state)}
    /\ emitted' = emitted \cup {<<a, row.revision>>}
    /\ \/ row.state \in AllowedTransitions(attempts[a].state)
       \/ row.state = attempts[a].state /\ row.state \in PreSubmission
    /\ \/ row.message = attempts[a].message
       \/ attempts[a].state = "signed" /\ MessageFree(a, row.message)
    /\ \E x \in ReservationState :
          /\ reservations' = [reservations EXCEPT ![a] = x]
          /\ reservations[a] = attempts[a].reservation => x = row.reservation

(* A write is journaled, uses the lease, and its event is the outbox's. *)
LEMMA WriteAdvances ==
    ASSUME TypeOK, NEW w \in Worker, NEW a \in Attempt, Write(w, a)
    PROVE  /\ \E row, k : Advances(a, row, k)
           /\ WriteUnderLease(w, a)
           /\ \E e \in EventId, t \in Topic : Enqueue(e, t) /\ UNCHANGED leaseVars
<1> DEFINE old == attempts[a]
           next == old.revision + 1
<1>0. /\ Exists(a) /\ old \in AttemptRow
      /\ reservations[a] \in ReservationState
  BY DEF Write, TypeOK, Exists
<1>1. PICK k \in KeysFor(a, next) :
         \/ \E target \in Targets \cap AllowedTransitions(old.state),
               release \in ReleaseFlags :
               Transition(w, a, k, old.revision, target, release)
         \/ \E m \in Message : RecordSubmissionIntent(w, a, k, old.revision, m)
         \/ ReleaseAbandonedReservation(w, a, k)
  BY DEF Write
<1>2. next \in 0..(MaxRevision + 1)
  BY <1>0 DEF AttemptRow, Revision
<1>3. k \in Key
  BY <1>1, <1>2
<1>4. ASSUME next \in Revision
      PROVE  <<a, next>> \in EventId
  BY <1>4 DEF Revision
<1>5. CASE \E target \in Targets \cap AllowedTransitions(old.state),
              release \in ReleaseFlags :
              Transition(w, a, k, old.revision, target, release)
  <2>1. PICK target \in Targets \cap AllowedTransitions(old.state),
             release \in ReleaseFlags :
             Transition(w, a, k, old.revision, target, release)
    BY <1>5
  <2> DEFINE unlocks == release /\ reservations[a] = "active"
             x == IF unlocks THEN "released" ELSE reservations[a]
             y == IF unlocks THEN "released" ELSE old.reservation
             ends == target \in TerminalStates
             row == [old EXCEPT !.state = target, !.revision = next,
                                !.terminal = ends, !.reservation = y]
  <2>2. /\ row \in AttemptRow /\ row.revision = next /\ row.state = target
        /\ row.message = old.message /\ row.reservation = y
    <3>1. ends \in BOOLEAN
      OBVIOUS
    <3>2. y \in ReservationState
      BY <1>0 DEF AttemptRow, ReservationState
    <3>3. target \in ExecutionState /\ next \in Revision
      BY <2>1 DEF Transition
    <3> HIDE DEF ends, y
    <3> QED BY <1>0, <3>1, <3>2, <3>3 DEF AttemptRow
  <2>3. x \in ReservationState
    BY <1>0 DEF ReservationState
  <2>4. next \in Revision /\ AppendEvent(a, next, k, old.state, target, "lifecycle.event")
    BY <2>1 DEF Transition
  <2>5. Advances(a, row, k)
    <3>1. /\ attempts' = [attempts EXCEPT ![a] = row]
          /\ reservations' = [reservations EXCEPT ![a] = x]
      BY <2>1 DEF Transition
    <3>2. /\ journal' = journal \cup {NewEvent(a, next, k, old.state, target)}
          /\ emitted' = emitted \cup {<<a, next>>}
      BY <2>4 DEF AppendEvent, Enqueue, NewEvent
    <3>3. reservations[a] = old.reservation => x = row.reservation
      BY <2>2
    <3> HIDE DEF row, x
    <3> QED BY <1>0, <1>3, <2>1, <2>2, <2>3, <3>1, <3>2, <3>3 DEF Advances
  <2>6. WriteUnderLease(w, a)
    BY <2>1 DEF Transition
  <2> QED BY <1>4, <2>4, <2>5, <2>6 DEF AppendEvent, WriteUnderLease
<1>6. CASE \E m \in Message : RecordSubmissionIntent(w, a, k, old.revision, m)
  <2>1. PICK m \in Message : RecordSubmissionIntent(w, a, k, old.revision, m)
    BY <1>6
  <2> DEFINE row == [old EXCEPT !.state = "submission_intent_recorded",
                                !.revision = next, !.message = m]
  <2>2. "submission_intent_recorded" \in ExecutionState
    BY DEF ExecutionState, MayHaveSubmitted
  <2>3. /\ row \in AttemptRow /\ row.revision = next
        /\ row.state = "submission_intent_recorded"
        /\ row.message = m /\ row.reservation = old.reservation
    BY <1>0, <2>1, <2>2 DEF AttemptRow, RecordSubmissionIntent
  <2>4. /\ next \in Revision /\ old.state = "signed"
        /\ AppendEvent(a, next, k, old.state, "submission_intent_recorded",
                       "submission.reconcile")
    BY <2>1 DEF RecordSubmissionIntent
  <2>5. Advances(a, row, k)
    <3>1. /\ attempts' = [attempts EXCEPT ![a] = row]
          /\ reservations' = [reservations EXCEPT ![a] = reservations[a]]
          /\ MessageFree(a, m)
      BY <2>1 DEF RecordSubmissionIntent, TypeOK
    <3>2. /\ journal' = journal \cup
                {NewEvent(a, next, k, old.state, "submission_intent_recorded")}
          /\ emitted' = emitted \cup {<<a, next>>}
      BY <2>4 DEF AppendEvent, Enqueue, NewEvent
    <3>3. "submission_intent_recorded" \in AllowedTransitions("signed")
      BY DEF AllowedTransitions
    <3> HIDE DEF row
    <3> QED BY <1>0, <1>3, <2>3, <2>4, <3>1, <3>2, <3>3 DEF Advances
  <2>6. WriteUnderLease(w, a)
    BY <2>1 DEF RecordSubmissionIntent
  <2> QED BY <1>4, <2>4, <2>5, <2>6 DEF AppendEvent, WriteUnderLease
<1>7. CASE ReleaseAbandonedReservation(w, a, k)
  <2> DEFINE row == [old EXCEPT !.revision = next, !.reservation = "released"]
  <2>1. /\ next \in Revision /\ old.state \in PreSubmission
        /\ AppendEvent(a, next, k, old.state, old.state, "capital.reservation")
    BY <1>7 DEF ReleaseAbandonedReservation
  <2>2. /\ row \in AttemptRow /\ row.revision = next /\ row.state = old.state
        /\ row.message = old.message /\ row.reservation = "released"
    BY <1>0, <2>1 DEF AttemptRow, ReservationState
  <2>3. Advances(a, row, k)
    <3>1. /\ attempts' = [attempts EXCEPT ![a] = row]
          /\ reservations' = [reservations EXCEPT ![a] = "released"]
      BY <1>7 DEF ReleaseAbandonedReservation
    <3>2. /\ journal' = journal \cup {NewEvent(a, next, k, old.state, old.state)}
          /\ emitted' = emitted \cup {<<a, next>>}
      BY <2>1 DEF AppendEvent, Enqueue, NewEvent
    <3>3. "released" \in ReservationState
      BY DEF ReservationState
    <3> HIDE DEF row
    <3> QED BY <1>0, <1>3, <2>1, <2>2, <3>1, <3>2, <3>3 DEF Advances
  <2>4. WriteUnderLease(w, a)
    BY <1>7 DEF ReleaseAbandonedReservation
  <2> QED BY <1>4, <2>1, <2>3, <2>4 DEF AppendEvent, WriteUnderLease
<1> QED BY <1>1, <1>5, <1>6, <1>7

(* The other change of the lifecycle's own state. *)
Creates(a, k, s, x) ==
    /\ ~Exists(a)
    /\ k \in Key /\ s \in ExecutionState /\ x \in ReservationState
    /\ attempts' = [attempts EXCEPT ![a] =
           [state |-> s, revision |-> 0, message |-> NoMessage,
            reservation |-> x, terminal |-> FALSE]]
    /\ reservations' = [reservations EXCEPT ![a] = x]
    /\ journal' = journal \cup {NewEvent(a, 0, k, "none", s)}
    /\ emitted' = emitted \cup {<<a, 0>>}
    /\ UNCHANGED writer

(* create_attempt makes a row that was not there, with its first event. *)
LEMMA CreateCreates ==
    ASSUME NEW a \in Attempt, NEW s \in InitialStates, NEW reserve \in BOOLEAN,
           NEW k \in KeysFor(a, 0), CreateAttempt(a, k, s, reserve)
    PROVE  /\ \E x : Creates(a, k, s, x)
           /\ \E e \in EventId, t \in Topic : Enqueue(e, t) /\ UNCHANGED leaseVars
<1> DEFINE x == IF reserve THEN "active" ELSE "none"
<1>1. x \in ReservationState
  BY DEF ReservationState
<1>2. k \in Key /\ <<a, 0>> \in EventId
  <2>1. 0 \in 0..(MaxRevision + 1) /\ 0 \in 0..MaxRevision
    OBVIOUS
  <2> QED BY <2>1
<1>3. Creates(a, k, s, x)
  BY <1>1, <1>2 DEF CreateAttempt, AppendEvent, Enqueue, NewEvent, Creates
<1> QED BY <1>2, <1>3 DEF CreateAttempt, AppendEvent

(* A created attempt has the row create_attempt inserts. *)
LEMMA CreatedRow ==
    ASSUME TypeOK, NEW a \in Attempt, NEW k, NEW s, NEW x, Creates(a, k, s, x)
    PROVE  /\ attempts'[a] \in AttemptRow /\ Exists(a)'
           /\ attempts'[a].state = s /\ attempts'[a].revision = 0
           /\ attempts'[a].message = NoMessage
           /\ attempts'[a].reservation = x
           /\ \A b \in Attempt \ {a} : attempts'[b] = attempts[b]
<1> DEFINE row == [state |-> s, revision |-> 0, message |-> NoMessage,
                   reservation |-> x, terminal |-> FALSE]
<1>1. 0 \in Revision
  BY DEF Revision
<1>2. row \in AttemptRow
  BY <1>1 DEF Creates, AttemptRow
<1>3. /\ row.state = s /\ row.revision = 0 /\ row.message = NoMessage
      /\ row.reservation = x
  OBVIOUS
<1>4. attempts' = [attempts EXCEPT ![a] = row]
  BY DEF Creates
<1> HIDE DEF row
<1>5. attempts'[a] = row
  BY <1>4 DEF TypeOK
<1>6. Exists(a)'
  BY <1>2, <1>5 DEF Exists
<1> QED BY <1>2, <1>3, <1>4, <1>5, <1>6 DEF TypeOK

-----------------------------------------------------------------------------
(* A step of the store, seen from its tables. *)
LEMMA StepShape ==
    ASSUME TypeOK, [Next]_vars
    PROVE  /\ [OutboxNext]_outboxAllVars
           /\ \/ \E a \in Attempt : \E k, s, x : Creates(a, k, s, x)
              \/ \E w \in Worker, a \in Attempt :
                    WriteUnderLease(w, a) /\ \E row, k : Advances(a, row, k)
              \/ UNCHANGED <<lifecycleVars, emitted>>
<1>1. ASSUME NEW a \in Attempt, NEW s \in InitialStates, NEW reserve \in BOOLEAN,
             NEW k \in KeysFor(a, 0), CreateAttempt(a, k, s, reserve)
      PROVE  /\ OutboxNext
             /\ \E x : Creates(a, k, s, x)
  BY <1>1, CreateCreates DEF OutboxNext, OutboxEnvironment
<1>2. ASSUME NEW w \in Worker, NEW a \in Attempt, Write(w, a)
      PROVE  /\ OutboxNext
             /\ WriteUnderLease(w, a) /\ \E row, k : Advances(a, row, k)
  BY <1>2, WriteAdvances DEF OutboxNext, OutboxEnvironment
<1>3. ASSUME NEW w \in Worker, NEW a \in Attempt, AcquireAttemptLease(w, a)
      PROVE  OutboxNext /\ UNCHANGED <<lifecycleVars, emitted>>
  BY <1>3 DEF AcquireAttemptLease, OutboxNext, OutboxEnvironment, outboxVars
<1>4. ASSUME NEW w \in Worker, WorkerCrash(w)
      PROVE  OutboxNext /\ UNCHANGED <<lifecycleVars, emitted>>
  BY <1>4 DEF WorkerCrash, OutboxNext, OutboxEnvironment, outboxVars
<1>5. ASSUME OutboxStep, UNCHANGED lifecycleVars
      PROVE  OutboxNext /\ UNCHANGED <<lifecycleVars, emitted>>
  BY <1>5
  DEF OutboxNext, OutboxStep, PublisherStep, ClaimStart, ClaimLease, ClaimRefused,
      ClaimRows, Publish, Complete, PublisherCrash, PurgeCompleted
<1>6. ASSUME TickStore
      PROVE  OutboxNext /\ UNCHANGED <<lifecycleVars, emitted>>
  BY <1>6 DEF TickStore, OutboxNext, OutboxEnvironment, outboxVars
<1>7. ASSUME Reboot
      PROVE  OutboxNext /\ UNCHANGED <<lifecycleVars, emitted>>
  BY <1>7 DEF Reboot, OutboxReboot, OutboxNext, OutboxEnvironment
<1>8. ASSUME UNCHANGED vars
      PROVE  UNCHANGED outboxAllVars /\ UNCHANGED <<lifecycleVars, emitted>>
  BY <1>8 DEF vars, outboxAllVars, outboxVars
<1> QED BY <1>1, <1>2, <1>3, <1>4, <1>5, <1>6, <1>7, <1>8 DEF Next

(* The empty store is well typed. *)
LEMMA InitLifecycleTypes == Init => TypeOK
<1> SUFFICES ASSUME Init PROVE TypeOK
  OBVIOUS
<1>1. OutboxTypeOK
  BY InitTypes DEF Init
<1>2. 0 \in 0..MaxFence
  OBVIOUS
<1> QED BY <1>1, <1>2 DEF Init, TypeOK, ReservationState, Writer

(* Every operation of the store keeps the types of its tables. *)
LEMMA LifecycleTypesStep ==
    ASSUME TypeOK, [Next]_vars
    PROVE  TypeOK'
<1>1. OutboxTypeOK'
  BY StepShape, OutboxStepKeepsTypes DEF TypeOK
<1>2. ASSUME NEW a \in Attempt, NEW k, NEW s, NEW x, Creates(a, k, s, x)
      PROVE  TypeOK'
  <2>1. 0 \in Revision
    BY DEF Revision
  <2>2. NewEvent(a, 0, k, "none", s) \in Event
    BY <1>2, <2>1 DEF Creates, NewEvent, Event
  <2>3. attempts' \in [Attempt -> AttemptRow \cup {NoAttempt}]
    <3> DEFINE row == [state |-> s, revision |-> 0, message |-> NoMessage,
                       reservation |-> x, terminal |-> FALSE]
    <3>1. attempts' = [attempts EXCEPT ![a] = row]
      BY <1>2 DEF Creates
    <3> HIDE DEF row
    <3> QED BY <1>2, <3>1, CreatedRow DEF TypeOK
  <2> QED BY <1>1, <1>2, <2>2, <2>3 DEF Creates, TypeOK
<1>3. ASSUME NEW w \in Worker, NEW a \in Attempt, WriteUnderLease(w, a),
             NEW row, NEW k, Advances(a, row, k)
      PROVE  TypeOK'
  <2>1. attempts[a] \in AttemptRow
    BY <1>3 DEF Advances, Exists, TypeOK
  <2>2. NewEvent(a, row.revision, k, attempts[a].state, row.state) \in Event
    BY <1>3, <2>1 DEF Advances, NewEvent, Event, AttemptRow
  <2>3. held[w][a] \in 0..MaxFence
    BY DEF TypeOK, OutboxTypeOK, LeaseTypeOK
  <2>4. writer' \in [Attempt -> Writer]
    BY <1>3, <2>3 DEF WriteUnderLease, TypeOK, Writer
  <2>5. /\ attempts' \in [Attempt -> AttemptRow \cup {NoAttempt}]
        /\ reservations' \in [Attempt -> ReservationState]
    BY <1>3 DEF Advances, TypeOK
  <2> QED BY <1>1, <1>3, <2>2, <2>4, <2>5 DEF Advances, TypeOK
<1>4. ASSUME UNCHANGED <<lifecycleVars, emitted>>
      PROVE  TypeOK'
  BY <1>1, <1>4 DEF lifecycleVars, TypeOK
<1> QED BY <1>2, <1>3, <1>4, StepShape

(* The tables of the lifecycle store keep their types. *)
THEOREM TypeCorrect == Spec => []TypeOK
<1>1. Init => TypeOK
  BY InitLifecycleTypes
<1>2. TypeOK /\ [Next]_vars => TypeOK'
  BY LifecycleTypesStep
<1> QED BY <1>1, <1>2, PTL DEF Spec

(* The lifecycle store implements the outbox specification: every write    *)
(* commits its event with one outbox row, and it disturbs nothing the      *)
(* publishers rely on.  What is proved of the outbox holds of the store.   *)
THEOREM ImplementsOutbox == Spec => OutboxSpec
<1>1. Init => OutboxInit
  BY DEF Init
<1>2. TypeOK /\ [Next]_vars => [OutboxNext]_outboxAllVars
  BY StepShape
<1> QED BY <1>1, <1>2, TypeCorrect, PTL DEF Spec, OutboxSpec

-----------------------------------------------------------------------------
(* What JournalReplaysState says of one attempt. *)
Replays(a) ==
    /\ ~Exists(a) => EventsOf(a) = {}
    /\ Exists(a) =>
          /\ {e.seq : e \in EventsOf(a)} = 0..attempts[a].revision
          /\ \A e, f \in EventsOf(a) :
                /\ e.seq = f.seq => e = f
                /\ f.seq = e.seq + 1 => f.from = e.to
          /\ \A e \in EventsOf(a) :
                e.seq = attempts[a].revision => e.to = attempts[a].state

(* JournalReplaysState is Replays of every attempt. *)
LEMMA ReplaysForAll == JournalReplaysState <=> \A a \in Attempt : Replays(a)
BY DEF JournalReplaysState, Replays

(* An attempt that is left alone, with its events, still replays. *)
LEMMA ReplaysUndisturbed ==
    ASSUME NEW b \in Attempt, Replays(b), attempts'[b] = attempts[b],
           EventsOf(b)' = EventsOf(b)
    PROVE  Replays(b)'
BY DEF Replays, Exists

(* Moving an attempt to its next revision with the event that says so      *)
(* keeps the journal gapless and linked.                                   *)
LEMMA JournalGrows ==
    ASSUME TypeOK, JournalReplaysState, NEW a \in Attempt, NEW row \in AttemptRow,
           NEW k, Exists(a), row.revision = attempts[a].revision + 1,
           attempts' = [attempts EXCEPT ![a] = row],
           journal' = journal \cup
               {NewEvent(a, row.revision, k, attempts[a].state, row.state)}
    PROVE  JournalReplaysState'
<1> DEFINE old == attempts[a]
           new == NewEvent(a, row.revision, k, old.state, row.state)
<1>0. old \in AttemptRow /\ old.revision \in Nat /\ row.revision = old.revision + 1
  BY DEF Exists, TypeOK, AttemptRow, Revision
<1>1. /\ new.attempt = a /\ new.seq = row.revision
      /\ new.from = old.state /\ new.to = row.state
  BY DEF NewEvent
<1>2. EventsOf(a)' = EventsOf(a) \cup {new}
  BY <1>1 DEF EventsOf
<1>3. attempts'[a] = row /\ Exists(a)'
  BY DEF TypeOK, Exists
<1>4. Replays(a)
  BY ReplaysForAll
<1>5. {e.seq : e \in EventsOf(a)} = 0..old.revision
  BY <1>4 DEF Replays
<1>6. \A e \in EventsOf(a) : e.seq \in Nat /\ e.seq <= old.revision
  BY <1>0, <1>5
<1>7. {e.seq : e \in EventsOf(a)'} = 0..row.revision
  <2>1. {e.seq : e \in EventsOf(a)'} = {e.seq : e \in EventsOf(a)} \cup {new.seq}
    BY <1>2
  <2>2. 0..row.revision = (0..old.revision) \cup {row.revision}
    BY <1>0
  <2> QED BY <1>1, <1>5, <2>1, <2>2
<1>8. ASSUME NEW e \in EventsOf(a) \cup {new}, NEW f \in EventsOf(a) \cup {new}
      PROVE  /\ e.seq = f.seq => e = f
             /\ f.seq = e.seq + 1 => f.from = e.to
  <2>1. CASE e \in EventsOf(a) /\ f \in EventsOf(a)
    BY <1>4, <2>1 DEF Replays
  <2>2. CASE e \in EventsOf(a) /\ f = new
    <3>1. f.seq = e.seq + 1 => e.seq = old.revision
      BY <1>0, <1>1, <1>6, <2>2
    <3>2. e.seq = old.revision => e.to = old.state
      BY <1>4, <2>2 DEF Replays
    <3> HIDE DEF new, old
    <3> QED BY <1>0, <1>1, <1>6, <2>2, <3>1, <3>2
  <2>3. CASE e = new
    <3> HIDE DEF new, old
    <3> QED BY <1>0, <1>1, <1>6, <2>3
  <2> QED BY <2>1, <2>2, <2>3
<1>9. \A e \in EventsOf(a)' : e.seq = row.revision => e.to = row.state
  <2> HIDE DEF new, old
  <2> QED BY <1>0, <1>1, <1>2, <1>6
<1>10. Replays(a)'
  <2> HIDE DEF new
  <2> QED BY <1>2, <1>3, <1>7, <1>8, <1>9 DEF Replays
<1>11. \A b \in Attempt \ {a} : Replays(b)'
  <2>1. \A b \in Attempt \ {a} :
           attempts'[b] = attempts[b] /\ EventsOf(b)' = EventsOf(b)
    BY <1>1 DEF EventsOf, TypeOK
  <2> QED BY <2>1, ReplaysForAll, ReplaysUndisturbed
<1>12. \A b \in Attempt : Replays(b)'
  BY <1>10, <1>11
<1> QED BY <1>12 DEF JournalReplaysState, Replays

(* The journal replays the state after every operation of the store. *)
LEMMA JournalStep ==
    ASSUME TypeOK, JournalReplaysState, [Next]_vars
    PROVE  JournalReplaysState'
<1>1. ASSUME NEW a \in Attempt, NEW k, NEW s, NEW x, Creates(a, k, s, x)
      PROVE  JournalReplaysState'
  <2> DEFINE new == NewEvent(a, 0, k, "none", s)
  <2>1. new.attempt = a /\ new.seq = 0 /\ new.to = s
    BY DEF NewEvent
  <2>2. EventsOf(a) = {}
    BY <1>1 DEF Creates, JournalReplaysState
  <2>3. EventsOf(a)' = {new}
    BY <1>1, <2>1, <2>2 DEF Creates, EventsOf
  <2>4. attempts'[a].revision = 0 /\ attempts'[a].state = s /\ Exists(a)'
    BY <1>1, CreatedRow
  <2>5. Replays(a)'
    BY <2>1, <2>3, <2>4 DEF Replays
  <2>6. \A b \in Attempt \ {a} :
           attempts'[b] = attempts[b] /\ EventsOf(b)' = EventsOf(b)
    BY <1>1, <2>1 DEF Creates, EventsOf, TypeOK
  <2>7. \A b \in Attempt : Replays(b)'
    BY <2>5, <2>6, ReplaysForAll, ReplaysUndisturbed
  <2> QED BY <2>7 DEF JournalReplaysState, Replays
<1>2. ASSUME NEW a \in Attempt, NEW row, NEW k, Advances(a, row, k)
      PROVE  JournalReplaysState'
  BY <1>2, JournalGrows DEF Advances
<1>3. ASSUME UNCHANGED <<lifecycleVars, emitted>>
      PROVE  JournalReplaysState'
  BY <1>3 DEF lifecycleVars, EventsOf, Exists, JournalReplaysState
<1> QED BY <1>1, <1>2, <1>3, StepShape

(* integrity_check never finds a gap, a duplicate or a state the journal   *)
(* does not explain.                                                       *)
THEOREM JournalCorrect == Spec => []JournalReplaysState
<1>1. Init => JournalReplaysState
  BY DEF Init, JournalReplaysState, Exists, EventsOf
<1>2. TypeOK /\ JournalReplaysState /\ [Next]_vars => JournalReplaysState'
  BY JournalStep
<1> QED BY <1>1, <1>2, TypeCorrect, PTL DEF Spec

(* State, journal and outbox are written together. *)
THEOREM EventsEmitted == Spec => []EveryEventIsEmitted
<1>1. Init => EveryEventIsEmitted
  BY DEF Init, OutboxInit, EveryEventIsEmitted
<1>2. ASSUME TypeOK, EveryEventIsEmitted, [Next]_vars
      PROVE  EveryEventIsEmitted'
  <2>1. ASSUME NEW a, NEW seq, NEW k, NEW from, NEW to,
               journal' = journal \cup {NewEvent(a, seq, k, from, to)},
               emitted' = emitted \cup {<<a, seq>>}
        PROVE  EveryEventIsEmitted'
    <3> DEFINE new == NewEvent(a, seq, k, from, to)
    <3>1. new.attempt = a /\ new.seq = seq
      BY DEF NewEvent
    <3> HIDE DEF new
    <3>2. {<<e.attempt, e.seq>> : e \in journal \cup {new}} =
             {<<e.attempt, e.seq>> : e \in journal} \cup {<<a, seq>>}
      BY <3>1
    <3> QED BY <1>2, <2>1, <3>2 DEF EveryEventIsEmitted, new
  <2>2. ASSUME NEW a \in Attempt, NEW k, NEW s, NEW x, Creates(a, k, s, x)
        PROVE  EveryEventIsEmitted'
    BY <2>1, <2>2 DEF Creates
  <2>3. ASSUME NEW a \in Attempt, NEW row, NEW k, Advances(a, row, k)
        PROVE  EveryEventIsEmitted'
    BY <2>1, <2>3 DEF Advances
  <2>4. ASSUME UNCHANGED <<lifecycleVars, emitted>>
        PROVE  EveryEventIsEmitted'
    BY <1>2, <2>4 DEF lifecycleVars, EveryEventIsEmitted
  <2> QED BY <1>2, <2>2, <2>3, <2>4, StepShape
<1> QED BY <1>1, <1>2, TypeCorrect, PTL DEF Spec

(* The reservation row and its copy in the attempt never differ. *)
THEOREM CopiesAgree == Spec => []ReservationCopiesAgree
<1>1. Init => ReservationCopiesAgree
  BY DEF Init, ReservationCopiesAgree, Exists
<1>2. ASSUME TypeOK, ReservationCopiesAgree, [Next]_vars
      PROVE  ReservationCopiesAgree'
  <2>1. ASSUME NEW a \in Attempt, NEW k, NEW s, NEW x, Creates(a, k, s, x)
        PROVE  ReservationCopiesAgree'
    <3>1. /\ attempts'[a].reservation = x /\ Exists(a)'
          /\ \A b \in Attempt \ {a} : attempts'[b] = attempts[b]
      BY <1>2, <2>1, CreatedRow
    <3>2. /\ reservations'[a] = x
          /\ \A b \in Attempt \ {a} : reservations'[b] = reservations[b]
      BY <1>2, <2>1 DEF Creates, TypeOK
    <3> QED BY <1>2, <3>1, <3>2 DEF ReservationCopiesAgree, Exists
  <2>2. ASSUME NEW a \in Attempt, NEW row, NEW k, Advances(a, row, k)
        PROVE  ReservationCopiesAgree'
    <3>1. /\ attempts'[a] = row /\ Exists(a) /\ Exists(a)'
          /\ reservations[a] = attempts[a].reservation
      BY <1>2, <2>2 DEF Advances, TypeOK, Exists, ReservationCopiesAgree
    <3>2. reservations'[a] = row.reservation
      BY <1>2, <2>2, <3>1 DEF Advances, TypeOK
    <3>3. \A b \in Attempt \ {a} :
             attempts'[b] = attempts[b] /\ reservations'[b] = reservations[b]
      BY <1>2, <2>2 DEF Advances, TypeOK
    <3> QED BY <1>2, <3>1, <3>2, <3>3 DEF ReservationCopiesAgree, Exists
  <2>3. ASSUME UNCHANGED <<lifecycleVars, emitted>>
        PROVE  ReservationCopiesAgree'
    BY <1>2, <2>3 DEF lifecycleVars, ReservationCopiesAgree, Exists
  <2> QED BY <1>2, <2>1, <2>2, <2>3, StepShape
<1> QED BY <1>1, <1>2, TypeCorrect, PTL DEF Spec

-----------------------------------------------------------------------------
(* An attempt whose journal holds an intent has left the states it could   *)
(* be submitted from for good.                                             *)
IntentsAreBehind ==
    \A e \in journal :
        e.to = "submission_intent_recorded" =>
            /\ Exists(e.attempt)
            /\ attempts[e.attempt].state \in MayHaveSubmitted \cup TerminalStates

IntentInv == TypeOK /\ IntentsAreBehind /\ OneIntentPerMessageAndAttempt

(* Every operation of the store keeps intents unique. *)
LEMMA IntentStep ==
    ASSUME IntentInv, [Next]_vars
    PROVE  IntentInv'
<1> DEFINE intent == "submission_intent_recorded"
<1>0. TypeOK /\ IntentsAreBehind /\ OneIntentPerMessageAndAttempt /\ TypeOK'
  BY LifecycleTypesStep DEF IntentInv
<1>1. ASSUME NEW a \in Attempt, NEW k, NEW s, NEW x, Creates(a, k, s, x)
      PROVE  IntentInv'
  <2> DEFINE new == NewEvent(a, 0, k, "none", s)
  <2>1. new.attempt = a /\ new.to = s
    BY DEF NewEvent
  <2>2. /\ attempts'[a].state = s /\ attempts'[a].message = NoMessage
        /\ \A b \in Attempt \ {a} : attempts'[b] = attempts[b]
        /\ Exists(a)'
    BY <1>0, <1>1, CreatedRow
  <2>3. journal' = journal \cup {new} /\ ~Exists(a)
    BY <1>1 DEF Creates
  <2> HIDE DEF new
  <2>4. \A e \in journal : e.attempt \in Attempt /\ (e.to = intent => e.attempt # a)
    BY <1>0, <2>3 DEF IntentsAreBehind, TypeOK, Event
  <2>5. IntentsAreBehind'
    BY <1>0, <2>1, <2>2, <2>3, <2>4, SubmittedIsClosed DEF IntentsAreBehind, Exists
  <2>6. OneIntentPerMessageAndAttempt'
    BY <1>0, <2>1, <2>2, <2>3, <2>4 DEF OneIntentPerMessageAndAttempt, Exists
  <2> QED BY <1>0, <2>5, <2>6 DEF IntentInv
<1>2. ASSUME NEW a \in Attempt, NEW row, NEW k, Advances(a, row, k)
      PROVE  IntentInv'
  <2> DEFINE old == attempts[a]
             new == NewEvent(a, row.revision, k, old.state, row.state)
  <2>1. new.attempt = a /\ new.to = row.state
    BY DEF NewEvent
  <2>2. /\ attempts'[a] = row /\ Exists(a) /\ Exists(a)'
        /\ \A b \in Attempt \ {a} : attempts'[b] = attempts[b]
        /\ journal' = journal \cup {new}
    BY <1>0, <1>2 DEF Advances, TypeOK, Exists
  <2>3. /\ \/ row.state \in AllowedTransitions(old.state)
           \/ row.state = old.state /\ row.state \in PreSubmission
        /\ \/ row.message = old.message
           \/ old.state = "signed" /\ MessageFree(a, row.message)
    BY <1>2 DEF Advances
  <2> HIDE DEF new
  <2>4. \A e \in journal : e.attempt \in Attempt
    BY <1>0 DEF TypeOK, Event
  <2>5. row.state = intent => \A e \in journal : e.to = intent => e.attempt # a
    BY <1>0, <2>3, SubmittedIsClosed DEF IntentsAreBehind
  <2>6. old.state \in MayHaveSubmitted \cup TerminalStates =>
           row.state \in MayHaveSubmitted \cup TerminalStates
    BY <2>3, SubmittedIsClosed
  <2>7. IntentsAreBehind'
    BY <1>0, <2>1, <2>2, <2>4, <2>6, SubmittedIsClosed DEF IntentsAreBehind, Exists
  <2>8. OneIntentPerMessageAndAttempt'
    <3>1. \A b \in Attempt \ {a} :
             Exists(b) /\ attempts[b].message = row.message => row.message = NoMessage
      BY <1>0, <2>2, <2>3 DEF OneIntentPerMessageAndAttempt, MessageFree
    <3>2. \A b, c \in Attempt :
             /\ Exists(b)' /\ Exists(c)'
             /\ attempts'[b].message = attempts'[c].message
             /\ attempts'[b].message # NoMessage
             => b = c
      BY <1>0, <2>2, <3>1 DEF OneIntentPerMessageAndAttempt, Exists
    <3>3. \A e, f \in journal' :
             e.attempt = f.attempt /\ e.to = intent /\ f.to = intent => e = f
      BY <1>0, <2>1, <2>2, <2>5 DEF OneIntentPerMessageAndAttempt
    <3> QED BY <3>2, <3>3 DEF OneIntentPerMessageAndAttempt
  <2> QED BY <1>0, <2>7, <2>8 DEF IntentInv
<1>3. ASSUME UNCHANGED <<lifecycleVars, emitted>>
      PROVE  IntentInv'
  BY <1>0, <1>3
  DEF lifecycleVars, IntentInv, IntentsAreBehind, OneIntentPerMessageAndAttempt, Exists
<1> QED BY <1>0, <1>1, <1>2, <1>3, StepShape

(* A message is the intent of one attempt, and an attempt records one      *)
(* intent, whatever workers, crashes and retries do.                       *)
THEOREM IntentUnique == Spec => []OneIntentPerMessageAndAttempt
<1>1. Init => IntentInv
  <2> SUFFICES ASSUME Init PROVE IntentInv
    OBVIOUS
  <2> QED BY InitLifecycleTypes
          DEF Init, IntentInv, IntentsAreBehind, OneIntentPerMessageAndAttempt, Exists
<1>2. IntentInv /\ [Next]_vars => IntentInv'
  BY IntentStep
<1>3. IntentInv => OneIntentPerMessageAndAttempt
  BY DEF IntentInv
<1> QED BY <1>1, <1>2, <1>3, PTL DEF Spec

(* Once a submission may have happened, the message stays and recovery     *)
(* never offers to resume or rebuild the attempt.                          *)
THEOREM IntentIrrevocable == Spec => IntentIsIrrevocable
<1>1. ASSUME TypeOK, [Next]_vars, NEW b \in Attempt, Exists(b),
             attempts[b].state \in MayHaveSubmitted
      PROVE  /\ attempts'[b].message = attempts[b].message
             /\ RecoveryAction(attempts'[b].state)
                    \notin {"resume_pre_submission", "rebuild"}
  <2>1. ASSUME attempts'[b] = attempts[b]
        PROVE  RecoveryAction(attempts'[b].state)
                  \notin {"resume_pre_submission", "rebuild"}
    BY <1>1, <2>1, SubmittedIsClosed
  <2>2. ASSUME NEW a \in Attempt, NEW k, NEW s, NEW x, Creates(a, k, s, x)
        PROVE  attempts'[b] = attempts[b]
    BY <1>1, <2>2 DEF Creates, TypeOK
  <2>3. ASSUME NEW a \in Attempt, NEW row, NEW k, Advances(a, row, k), a # b
        PROVE  attempts'[b] = attempts[b]
    BY <1>1, <2>3 DEF Advances, TypeOK
  <2>4. ASSUME NEW row, NEW k, Advances(b, row, k)
        PROVE  /\ attempts'[b].message = attempts[b].message
               /\ RecoveryAction(attempts'[b].state)
                      \notin {"resume_pre_submission", "rebuild"}
    <3>1. attempts'[b] = row
      BY <1>1, <2>4 DEF Advances, TypeOK
    <3>2. attempts[b].state \notin PreSubmission /\ attempts[b].state # "signed"
      BY <1>1, SubmittedIsClosed
    <3>3. row.message = attempts[b].message
      BY <2>4, <3>2 DEF Advances
    <3>4. row.state \in MayHaveSubmitted \cup TerminalStates
      BY <1>1, <2>4, <3>2, SubmittedIsClosed DEF Advances
    <3> QED BY <3>1, <3>3, <3>4, SubmittedIsClosed
  <2>5. ASSUME UNCHANGED <<lifecycleVars, emitted>>
        PROVE  attempts'[b] = attempts[b]
    BY <2>5 DEF lifecycleVars
  <2> QED BY <1>1, <2>1, <2>2, <2>3, <2>4, <2>5, StepShape
<1>2. TypeOK /\ [Next]_vars =>
         [\A a \in Attempt :
             Exists(a) /\ attempts[a].state \in MayHaveSubmitted =>
                 /\ attempts'[a].message = attempts[a].message
                 /\ RecoveryAction(attempts'[a].state)
                        \notin {"resume_pre_submission", "rebuild"}]_vars
  BY <1>1
<1> QED BY <1>2, TypeCorrect, PTL DEF Spec, IntentIsIrrevocable

-----------------------------------------------------------------------------
(* The last writer's fence is not ahead of the lease, and where they are   *)
(* equal the lease is still that writer's.                                 *)
WritersAreFenced ==
    \A a \in Attempt :
        /\ writer[a].fence <= leases[a].fence
        /\ writer[a].fence = leases[a].fence => writer[a].owner = leases[a].owner

(* Every operation keeps the last writer of an attempt behind its lease. *)
LEMMA WriterStep ==
    ASSUME TypeOK, WritersAreFenced, [Next]_vars
    PROVE  /\ WritersAreFenced'
           /\ \A a \in Attempt :
                 writer'[a] # writer[a] => writer'[a].fence > writer[a].fence
<1>0. /\ \A a \in Attempt :
            /\ writer[a].fence \in Nat /\ leases[a].fence \in Nat
      /\ \A w \in Worker, a \in Attempt : held[w][a] \in Nat
  BY DEF TypeOK, Writer, OutboxTypeOK, LeaseTypeOK, LeaseRow
<1>1. ASSUME UNCHANGED writer
      PROVE  WritersAreFenced'
  <2>1. \A a \in Attempt :
           leases'[a] = leases[a] \/ leases'[a].fence = leases[a].fence + 1
    BY StepShape, LeaseRowSteps DEF TypeOK
  <2>2. ASSUME NEW a \in Attempt
        PROVE  /\ writer[a].fence <= leases'[a].fence
               /\ writer[a].fence = leases'[a].fence => writer[a].owner = leases'[a].owner
    BY <1>0, <2>1 DEF WritersAreFenced
  <2> QED BY <1>1, <2>2 DEF WritersAreFenced
<1>2. ASSUME NEW w \in Worker, NEW a \in Attempt, WriteUnderLease(w, a)
      PROVE  /\ WritersAreFenced'
             /\ \A b \in Attempt :
                   writer'[b] # writer[b] => writer'[b].fence > writer[b].fence
  <2> DEFINE new == [owner |-> w, fence |-> held[w][a]]
  <2>1. /\ new.owner = w /\ new.fence = held[w][a]
        /\ leases[a].owner = w /\ leases[a].fence = held[w][a]
        /\ UNCHANGED leases
    BY <1>2 DEF WriteUnderLease, VerifyLease, leaseVars
  <2>2. /\ writer'[a] = new
        /\ \A b \in Attempt \ {a} : writer'[b] = writer[b]
    BY <1>2 DEF WriteUnderLease, TypeOK
  <2>3. writer[a].fence = new.fence => writer[a] = new
    <3>1. writer[a] \in Writer
      BY DEF TypeOK
    <3> QED BY <2>1, <3>1 DEF WritersAreFenced, Writer
  <2> HIDE DEF new
  <2>4. writer[a] # new => new.fence > writer[a].fence
    BY <1>0, <2>1, <2>3 DEF WritersAreFenced
  <2>5. WritersAreFenced'
    BY <1>0, <2>1, <2>2 DEF WritersAreFenced
  <2> QED BY <2>2, <2>4, <2>5
<1>3. ASSUME NEW a \in Attempt, NEW k, NEW s, NEW x, Creates(a, k, s, x)
      PROVE  UNCHANGED writer
  BY <1>3 DEF Creates
<1>4. ASSUME UNCHANGED <<lifecycleVars, emitted>>
      PROVE  UNCHANGED writer
  BY <1>4 DEF lifecycleVars
<1> QED BY <1>1, <1>2, <1>3, <1>4, StepShape

(* Writes of an attempt come in the order of their fences: a worker whose  *)
(* lease was taken over never writes again under its old token.            *)
THEOREM WritesAreFenced == Spec => FencedWrites
<1>1. Init => WritersAreFenced
  BY DEF Init, OutboxInit, LeaseInit, NoLease, WritersAreFenced
<1>2. TypeOK /\ WritersAreFenced /\ [Next]_vars =>
         /\ WritersAreFenced'
         /\ [\A a \in Attempt :
                writer'[a] # writer[a] => writer'[a].fence > writer[a].fence]_vars
  BY WriterStep
<1> QED BY <1>1, <1>2, TypeCorrect, PTL DEF Spec, FencedWrites
=============================================================================
