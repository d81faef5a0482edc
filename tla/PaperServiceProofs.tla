-------------------------- MODULE PaperServiceProofs --------------------------
(***************************************************************************)
(* Theorems about the paper service for every number of processes,         *)
(* attempts, cycles and plans: its tables and calls are well typed, the    *)
(* vertical of an attempt runs once, outcomes are final, and a success is  *)
(* recorded only for an attempt that succeeded.  While the machine keeps   *)
(* up with its timers, a cycle without a record is in the hands of a call  *)
(* that can record it, unless one of its calls was stopped.                *)
(*                                                                         *)
(* Every step is seen twice: as one of eight changes of the tables (Shape) *)
(* and as a move of one call (CallMoves).  The invariants are proved for   *)
(* these and not for the actions one by one.                               *)
(***************************************************************************)
EXTENDS PaperService, DurableLifecycleProofs

USE LeaseAssumption, OutboxAssumption, LifecycleAssumption, NoAttemptIsNoRow,
    AuthorityAssumption, PaperAssumption, PaperKeys

(* Steps that work on the current item. *)
ItemSteps == {"preparing", "leasing", "releasing", "vertical", "rejecting",
              "completing"}

SomeSuccess == \E a \in Attempt : terminals[a].outcome = "success"

(* What a call may rely on: it has a cycle once it has begun one, its item *)
(* has a row, and a success it reports is committed.                       *)
CallOK(call) ==
    /\ call.pc \notin {"idle", "numbering"} => call.cycle \in Cycle
    /\ call.pc \in ItemSteps => call.todo # <<>> /\ Exists(Head(call.todo))
    /\ call.report = "success" => SomeSuccess

CallsOK == \A p \in Process : CallOK(service[p])

PaperInv == PaperTypeOK /\ CallsOK

-----------------------------------------------------------------------------
Finishes(p, a, now, target, outcome) ==
    /\ Exists(a)
    /\ target \in {"planned", "rejected"} /\ outcome \in {"success", "blocked"}
    /\ target = "rejected" <=> outcome = "blocked"
    /\ RecordTerminal(p, a, now, outcome, "released")
    /\ FinishAttempt(a, <<a, "terminal">>, target, "released")
    /\ target = "planned" => attempts[a].state = "planned"

(* What a step does to the tables. *)
Shape ==
    \/ /\ [Next]_vars
       /\ UNCHANGED <<lifecycleVars, authorityVars, verticals>>
    \/ \E a \in Attempt :
          /\ CreateAttempt(a, <<a, "reserve">>, "planned", TRUE)
          /\ UNCHANGED <<authorityVars, verticals>>
    \/ \E a \in Attempt :
          /\ ReleaseAbandonedReservation(LeaseOwner, a, <<a, "release">>)
          /\ UNCHANGED <<authorityVars, verticals>>
    \/ \E p \in Process, c \in Cycle :
          BeginIntent(p, c, "cycle") /\ UNCHANGED verticals
    \/ \E p \in Process, a \in Attempt, plan \in Plan :
          /\ BeginIntent(p, a, plan) /\ Exists(a)
          /\ verticals' = [verticals EXCEPT ![a] = IF @ < 2 THEN @ + 1 ELSE @]
    \/ \E p \in Process, c \in Cycle, now \in Int :
          BindEvidence(p, c, now, service[p].evidence) /\ UNCHANGED verticals
    \/ \E p \in Process, c \in Cycle, now \in Int :
          /\ CommitCycleTerminal(p, c, now, service[p].report, service[p].evidence)
          /\ UNCHANGED verticals
    \/ \E p \in Process, a \in Attempt, now \in Int :
          \E target, outcome :
             Finishes(p, a, now, target, outcome) /\ UNCHANGED verticals

(* The current item of a call that works on one. *)
LEMMA CurrentIsAttempt ==
    ASSUME PaperInv, NEW p \in Process,
           service[p].pc \in ItemSteps \/ service[p].todo # <<>>
    PROVE  Current(p) \in Attempt
<1>1. service[p].todo \in Seq(Attempt)
  BY DEF PaperInv, PaperTypeOK, RunCall
<1>2. service[p].todo # <<>>
  BY DEF PaperInv, CallsOK, CallOK
<1> QED BY <1>1, <1>2 DEF Current

(* The readings of a call are integers. *)
LEMMA ReadingsAreInt ==
    ASSUME PaperInv, NEW p \in Process, NEW now \in Readings(p)
    PROVE  now \in Int
<1>1. service[p].since \in Int /\ clock.tick \in Int
  BY DEF PaperInv, PaperTypeOK, RunCall, TypeOK, OutboxTypeOK, LeaseTypeOK, Instant
<1> QED BY <1>1 DEF Readings

(* Every step of the service is one of the eight changes of the tables. *)
LEMMA PaperShape ==
    ASSUME PaperInv, [PaperNext]_paperAllVars
    PROVE  Shape
<1>1. ASSUME StoreUnchanged
      PROVE  Shape
  BY <1>1 DEF StoreUnchanged, vars, Shape
<1>2. ASSUME NEW p \in Process, RunOnce(p)
      PROVE  Shape
  <2>1. CASE ReadSequence(p) \/ BeginCycleConflict(p) \/ SourceTimesOut(p)
             \/ BindRefused(p) \/ ReserveRefused(p) \/ ReleaseRefused(p)
             \/ VerticalTimesOut(p) \/ AttemptCommitRefused(p)
             \/ VerifyReplay(p) \/ CommitCycleRefused(p)
    <3>1. StoreUnchanged
      BY <2>1, Zenon
      DEF ReadSequence, BeginCycleConflict, SourceTimesOut, BindRefused,
          ReserveRefused, ReleaseRefused, VerticalTimesOut, AttemptCommitRefused,
          VerifyReplay, CommitCycleRefused
    <3> QED BY <1>1, <3>1
  <2>2. CASE BeginCycle(p)
    <3>1. service[p].cycle \in Cycle
      BY <2>2 DEF BeginCycle, At, PaperInv, CallsOK, CallOK
    <3> QED BY <2>2, <3>1, <1>1 DEF BeginCycle, StoreUnchanged, Shape
  <2>3. CASE Bind(p)
    <3>1. service[p].cycle \in Cycle
      BY <2>3 DEF Bind, At, PaperInv, CallsOK, CallOK
    <3> QED BY <2>3, <3>1, ReadingsAreInt DEF Bind, Shape
  <2>4. CASE Reserve(p)
    <3>1. Current(p) \in Attempt
      BY <2>4, CurrentIsAttempt DEF Reserve
    <3> QED BY <2>4, <3>1, <1>1 DEF Reserve, StoreUnchanged, Shape
  <2>5. CASE ReleaseLease(p)
    <3>1. Current(p) \in Attempt
      BY <2>5, CurrentIsAttempt DEF ReleaseLease, At, ItemSteps
    <3>2. Next
      BY <2>5, <3>1 DEF ReleaseLease, Next
    <3> QED BY <2>5, <3>2 DEF ReleaseLease, AcquireAttemptLease, Shape
  <2>6. CASE Release(p)
    <3>1. Current(p) \in Attempt
      BY <2>6, CurrentIsAttempt DEF Release, At, ItemSteps
    <3> QED BY <2>6, <3>1, <1>1 DEF Release, StoreUnchanged, Shape
  <2>7. CASE BeginAttempt(p)
    <3>1. Current(p) \in Attempt /\ Exists(Current(p))
      BY <2>7, CurrentIsAttempt
      DEF BeginAttempt, At, ItemSteps, PaperInv, CallsOK, CallOK, Current
    <3> QED BY <2>7, <3>1, <1>1 DEF BeginAttempt, StartVertical, StoreUnchanged, Shape
  <2>8. CASE Reject(p)
    <3>1. Current(p) \in Attempt
      BY <2>8, CurrentIsAttempt DEF Reject, At, ItemSteps
    <3>2. PICK now \in Readings(p) :
             CommitAttemptTerminal(p, Current(p), <<Current(p), "terminal">>, now,
                                   "rejected", "released", "blocked")
      BY <2>8 DEF Reject
    <3>3. Finishes(p, Current(p), now, "rejected", "blocked")
      BY <3>2 DEF CommitAttemptTerminal, Finishes
    <3> QED BY <2>8, <3>1, <3>3, ReadingsAreInt DEF Reject, Shape
  <2>9. CASE CommitSuccess(p)
    <3>1. Current(p) \in Attempt
      BY <2>9, CurrentIsAttempt DEF CommitSuccess, At, ItemSteps
    <3>2. PICK now \in Readings(p) :
             CommitPaperSuccess(p, Current(p), <<Current(p), "terminal">>, now)
      BY <2>9 DEF CommitSuccess
    <3>3. Finishes(p, Current(p), now, "planned", "success")
      BY <3>2 DEF CommitPaperSuccess, Finishes
    <3> QED BY <2>9, <3>1, <3>3, ReadingsAreInt DEF CommitSuccess, Shape
  <2>10. CASE CommitCycle(p)
    <3>1. service[p].cycle \in Cycle
      BY <2>10 DEF CommitCycle, At, PaperInv, CallsOK, CallOK
    <3> QED BY <2>10, <3>1, ReadingsAreInt DEF CommitCycle, Shape
  <2> QED BY <1>2, <2>1, <2>2, <2>3, <2>4, <2>5, <2>6, <2>7, <2>8, <2>9, <2>10
          DEF RunOnce
<1>3. ASSUME NEW p \in Process, Environment(p)
      PROVE  Shape
  <2>1. StoreUnchanged
    BY <1>3, Zenon
    DEF Environment, CheckRecovery, SourceReturns, SourceFails, PrepareFails,
        VerticalRejects, VerticalReturns, ServiceStops
  <2> QED BY <1>1, <2>1
<1>4. CASE PaperTick
  BY <1>4 DEF PaperTick, TickStore, Next, paperVars, Shape
<1>5. CASE PaperReboot
  BY <1>5 DEF PaperReboot, Reboot, Next, Shape
<1>6. CASE UNCHANGED paperAllVars
  BY <1>1, <1>6 DEF paperAllVars, paperVars, StoreUnchanged
<1> QED BY <1>2, <1>3, <1>4, <1>5, <1>6 DEF PaperNext

-----------------------------------------------------------------------------
(* The coordinator's two operations are steps of the store. *)
LEMMA CoordinatorSteps ==
    ASSUME TypeOK, NEW a \in Attempt
    PROVE  /\ CreateAttempt(a, <<a, "reserve">>, "planned", TRUE) => Next
           /\ ReleaseAbandonedReservation(LeaseOwner, a, <<a, "release">>) => Next
<1>1. ASSUME CreateAttempt(a, <<a, "reserve">>, "planned", TRUE)
      PROVE  Next
  <2>1. <<a, "reserve">> \in KeysFor(a, 0)
    <3>1. 0 \in 0..(MaxRevision + 1)
      OBVIOUS
    <3> QED BY <3>1
  <2> QED BY <1>1, <2>1 DEF Next
<1>2. ASSUME ReleaseAbandonedReservation(LeaseOwner, a, <<a, "release">>)
      PROVE  Next
  <2>1. Exists(a) /\ attempts[a].revision + 1 \in Revision
    BY <1>2 DEF ReleaseAbandonedReservation, WriteUnderLease
  <2>2. attempts[a].revision + 1 \in 0..(MaxRevision + 1)
    BY <2>1 DEF Revision
  <2>3. <<a, "release">> \in KeysFor(a, attempts[a].revision + 1)
    BY <2>2
  <2> QED BY <1>2, <2>1, <2>3 DEF Write, Next
<1> QED BY <1>1, <1>2

(* The coordinator creates a planned attempt. *)
LEMMA ReserveCreates ==
    ASSUME TypeOK, NEW a \in Attempt,
           CreateAttempt(a, <<a, "reserve">>, "planned", TRUE)
    PROVE  \E x : /\ Creates(a, <<a, "reserve">>, "planned", x)
                  /\ attempts'[a] \in AttemptRow
                  /\ attempts'[a].state = "planned" /\ attempts'[a].terminal = FALSE
                  /\ attempts'[a].reservation = reservations'[a]
<1>1. <<a, "reserve">> \in KeysFor(a, 0)
  <2>1. 0 \in 0..(MaxRevision + 1)
    OBVIOUS
  <2> QED BY <2>1
<1>2. PICK x : Creates(a, <<a, "reserve">>, "planned", x)
  BY <1>1, CreateCreates
<1>3. /\ attempts'[a] \in AttemptRow /\ attempts'[a].state = "planned"
      /\ attempts'[a].reservation = x
  BY <1>2, CreatedRow
<1>4. attempts'[a].terminal = FALSE /\ reservations'[a] = x
  BY <1>2 DEF Creates, TypeOK
<1> QED BY <1>2, <1>3, <1>4

(* Attempt a is finished with this row and the event that says so. *)
FinishedWith(a, row, target) ==
    /\ row.revision = attempts[a].revision + 1
    /\ row.state = target /\ row.terminal = TRUE
    /\ row.reservation = IF attempts[a].reservation = "none"
                         THEN "none" ELSE "released"
    /\ attempts' = [attempts EXCEPT ![a] = row]
    /\ journal' = journal \cup
          {NewEvent(a, row.revision, <<a, "terminal">>, attempts[a].state, row.state)}
    /\ <<a, "terminal">> \in Key

(* Finishing an attempt writes such a row. *)
LEMMA FinishedRow ==
    ASSUME TypeOK, NEW p \in Process, NEW a \in Attempt, NEW now, NEW target,
           NEW outcome, Finishes(p, a, now, target, outcome)
    PROVE  \E row \in AttemptRow : FinishedWith(a, row, target)
<1> DEFINE old == attempts[a]
           next == old.revision + 1
           r == IF old.reservation = "none" THEN old.reservation ELSE "released"
           row == [old EXCEPT !.state = target, !.revision = next,
                              !.terminal = TRUE, !.reservation = r]
<1>1. old \in AttemptRow /\ next \in Revision
  BY DEF Finishes, FinishAttempt, TypeOK, Exists
<1>2. target \in ExecutionState /\ r \in ReservationState
  BY <1>1 DEF Finishes, ExecutionState, PreSubmission, TerminalStates,
              AttemptRow, ReservationState
<1>3. /\ row \in AttemptRow /\ row.revision = next /\ row.state = target
      /\ row.terminal = TRUE /\ row.reservation = r
  <2> HIDE DEF r, next
  <2> QED BY <1>1, <1>2 DEF AttemptRow
<1>4. /\ attempts' = [attempts EXCEPT ![a] = row]
      /\ journal' = journal \cup
            {NewEvent(a, next, <<a, "terminal">>, old.state, target)}
  BY DEF Finishes, FinishAttempt, JournalOnly, NewEvent
<1>5. <<a, "terminal">> \in Key
  <2>1. 0 \in 0..(MaxRevision + 1)
    OBVIOUS
  <2>2. <<a, "terminal">> \in KeysFor(a, 0)
    BY <2>1
  <2> QED BY <2>1, <2>2
<1> HIDE DEF row
<1>6. FinishedWith(a, row, target)
  BY <1>3, <1>4, <1>5 DEF FinishedWith
<1> QED BY <1>3, <1>6

(* The tables of the store keep their types, and rows are never deleted. *)
LEMMA StoreTypesStep ==
    ASSUME PaperInv, Shape
    PROVE  TypeOK' /\ \A a \in Attempt : Exists(a) => Exists(a)'
<1>0. TypeOK
  BY DEF PaperInv, PaperTypeOK
<1>1. ASSUME [Next]_vars, UNCHANGED lifecycleVars
      PROVE  TypeOK' /\ \A a \in Attempt : Exists(a) => Exists(a)'
  BY <1>0, <1>1, LifecycleTypesStep DEF lifecycleVars, Exists
<1>2. ASSUME NEW a \in Attempt, CreateAttempt(a, <<a, "reserve">>, "planned", TRUE)
      PROVE  TypeOK' /\ \A b \in Attempt : Exists(b) => Exists(b)'
  <2>1. TypeOK'
    BY <1>0, <1>2, CoordinatorSteps, LifecycleTypesStep
  <2>2. ~Exists(a) /\ \A b \in Attempt \ {a} : attempts'[b] = attempts[b]
    BY <1>0, <1>2 DEF CreateAttempt, TypeOK
  <2> QED BY <2>1, <2>2 DEF Exists
<1>3. ASSUME NEW a \in Attempt,
             ReleaseAbandonedReservation(LeaseOwner, a, <<a, "release">>)
      PROVE  TypeOK' /\ \A b \in Attempt : Exists(b) => Exists(b)'
  <2>1. TypeOK'
    BY <1>0, <1>3, CoordinatorSteps, LifecycleTypesStep
  <2>2. \A b \in Attempt \ {a} : attempts'[b] = attempts[b]
    BY <1>0, <1>3 DEF ReleaseAbandonedReservation, TypeOK
  <2>3. PICK row, k : Advances(a, row, k)
    <3>1. <<a, "release">> \in KeysFor(a, attempts[a].revision + 1)
      <4>1. attempts[a].revision + 1 \in Revision
        BY <1>3 DEF ReleaseAbandonedReservation
      <4>2. attempts[a].revision + 1 \in 0..(MaxRevision + 1)
        BY <4>1 DEF Revision
      <4> QED BY <4>2
    <3>2. Write(LeaseOwner, a)
      BY <1>3, <3>1 DEF Write, ReleaseAbandonedReservation, WriteUnderLease
    <3> QED BY <1>0, <3>2, WriteAdvances
  <2>4. attempts'[a] \in AttemptRow
    BY <1>0, <2>3 DEF Advances, TypeOK
  <2> QED BY <2>1, <2>2, <2>4 DEF Exists
<1>4. ASSUME UNCHANGED <<leaseVars, outboxVars, lifecycleVars>>
      PROVE  TypeOK' /\ \A a \in Attempt : Exists(a) => Exists(a)'
  BY <1>1, <1>4 DEF vars
<1>5. ASSUME NEW p \in Process, NEW a \in Attempt, NEW now, NEW target,
             NEW outcome, Finishes(p, a, now, target, outcome)
      PROVE  TypeOK' /\ \A b \in Attempt : Exists(b) => Exists(b)'
  <2>1. PICK row \in AttemptRow : FinishedWith(a, row, target)
    BY <1>0, <1>5, FinishedRow
  <2>2. OutboxTypeOK'
    <3>1. UNCHANGED outboxAllVars
      BY <1>5 DEF Finishes, FinishAttempt, JournalOnly, outboxAllVars
    <3> QED BY <1>0, <3>1, OutboxStepKeepsTypes DEF TypeOK
  <2>3. attempts[a] \in AttemptRow
    BY <1>0, <1>5 DEF Finishes, Exists, TypeOK
  <2>4. NewEvent(a, row.revision, <<a, "terminal">>, attempts[a].state, row.state)
           \in Event
    BY <2>1, <2>3 DEF FinishedWith, NewEvent, Event, AttemptRow
  <2>5. reservations' \in [Attempt -> ReservationState]
    BY <1>0, <1>5 DEF Finishes, FinishAttempt, TypeOK, ReservationState
  <2>6. UNCHANGED writer
    BY <1>5 DEF Finishes, FinishAttempt
  <2>7. \A b \in Attempt : Exists(b) => Exists(b)'
    BY <1>0, <2>1 DEF FinishedWith, TypeOK, Exists
  <2> QED BY <1>0, <2>1, <2>2, <2>4, <2>5, <2>6, <2>7 DEF FinishedWith, TypeOK
<1> QED BY <1>1, <1>2, <1>3, <1>4, <1>5
        DEF Shape, BeginIntent, BindEvidence, CommitCycleTerminal
(* A new intent is one, and so tells that it was recorded. *)
LEMMA NewIntentIsIntent ==
    ASSUME PaperInv, NEW p \in Process, NEW x \in Plan \cup {"cycle"}
    PROVE  NewIntent(p, x) \in Intent
<1>1. clock.boot \in 1..MaxBoot /\ clock.tick \in Nat
  BY DEF PaperInv, PaperTypeOK, TypeOK, OutboxTypeOK, LeaseTypeOK, Instant
<1>2. clock.tick + TTL \in Nat
  BY <1>1
<1>3. OwnerOf[p] \in OwnerId
  OBVIOUS
<1> QED BY <1>1, <1>2, <1>3 DEF NewIntent, Intent

(* The row a bound intent becomes. *)
LEMMA BoundIntent ==
    ASSUME PaperInv, NEW p \in Process, NEW c \in Cycle, NEW now,
           BindEvidence(p, c, now, service[p].evidence), intents[c] \in Intent
    PROVE  \E new \in Intent :
              /\ intents' = [intents EXCEPT ![c] = new]
              /\ new.owner = intents[c].owner /\ new.payload = intents[c].payload
              /\ new.boot = intents[c].boot /\ new.expires = intents[c].expires
              /\ new.evidence = service[p].evidence
<1> DEFINE new == [intents[c] EXCEPT !.evidence = service[p].evidence,
                                     !.status = "evidence_bound"]
<1>1. service[p].evidence \in Evidence \cup {NoEvidence}
  BY DEF PaperInv, PaperTypeOK, RunCall
<1>2. /\ new \in Intent
      /\ new.owner = intents[c].owner /\ new.payload = intents[c].payload
      /\ new.boot = intents[c].boot /\ new.expires = intents[c].expires
      /\ new.evidence = service[p].evidence
  BY <1>1 DEF Intent
<1>3. intents' = [intents EXCEPT ![c] = new]
  BY DEF BindEvidence
<1> QED BY <1>2, <1>3

(* The row of an intent at its terminal record. *)
LEMMA RecordedIntent ==
    ASSUME NEW p, NEW i, NEW now, NEW outcome, NEW reservation,
           RecordTerminal(p, i, now, outcome, reservation), intents[i] \in Intent
    PROVE  \E new \in Intent :
              /\ intents' = [intents EXCEPT ![i] = new]
              /\ new.owner = intents[i].owner /\ new.payload = intents[i].payload
              /\ new.boot = intents[i].boot /\ new.expires = intents[i].expires
              /\ new.evidence = intents[i].evidence
<1>1. PICK status \in {"terminal", "indeterminate"} :
         intents' = [intents EXCEPT ![i].status = status]
  BY DEF RecordTerminal
<1> DEFINE new == [intents[i] EXCEPT !.status = status]
<1>2. /\ new \in Intent
      /\ new.owner = intents[i].owner /\ new.payload = intents[i].payload
      /\ new.boot = intents[i].boot /\ new.expires = intents[i].expires
      /\ new.evidence = intents[i].evidence
  BY DEF Intent
<1>3. intents' = [intents EXCEPT ![i] = new]
  BY <1>1
<1> QED BY <1>2, <1>3

(* Intents and terminal records keep their types, and a terminal record,   *)
(* once there, is never written again.                                     *)
LEMMA AuthorityStep ==
    ASSUME PaperInv, Shape
    PROVE  /\ AuthorityTypeOK'
           /\ \A i \in Work : Recorded(i) => Recorded(i)'
           /\ \A i \in Work : Resolved(i) => terminals'[i] = terminals[i]
<1>0. /\ intents \in [Work -> Intent \cup {NoIntent}]
      /\ terminals \in [Work -> Terminal]
      /\ Attempt \subseteq Work /\ Cycle \subseteq Work
  BY DEF PaperInv, PaperTypeOK, AuthorityTypeOK, Work
<1> DEFINE Kept ==
      /\ AuthorityTypeOK'
      /\ \A i \in Work : Recorded(i) => Recorded(i)'
      /\ \A i \in Work : Resolved(i) => terminals'[i] = terminals[i]
<1>1. ASSUME UNCHANGED authorityVars
      PROVE  Kept
  BY <1>0, <1>1 DEF authorityVars, AuthorityTypeOK, Recorded
<1>2. ASSUME NEW p \in Process, NEW i \in Work, NEW x \in Plan \cup {"cycle"},
             BeginIntent(p, i, x)
      PROVE  Kept
  <2>1. NewIntent(p, x) \in Intent
    BY NewIntentIsIntent
  <2> QED BY <1>0, <1>2, <2>1, NoIntentIsNoRow
          DEF BeginIntent, AuthorityTypeOK, Recorded
<1>3. ASSUME NEW i \in Work, NEW new \in Intent,
             intents' = [intents EXCEPT ![i] = new]
      PROVE  /\ intents' \in [Work -> Intent \cup {NoIntent}]
             /\ \A j \in Work : Recorded(j) => Recorded(j)'
  BY <1>0, <1>3, NoIntentIsNoRow DEF Recorded
<1>4. ASSUME NEW p \in Process, NEW c \in Cycle, NEW now \in Int,
             BindEvidence(p, c, now, service[p].evidence)
      PROVE  Kept
  <2>1. intents[c] \in Intent /\ c \in Work
    BY <1>0, <1>4 DEF BindEvidence, FenceValid, Recorded
  <2>2. \E new \in Intent :
           /\ intents' = [intents EXCEPT ![c] = new]
           /\ new.owner = intents[c].owner /\ new.payload = intents[c].payload
           /\ new.boot = intents[c].boot /\ new.expires = intents[c].expires
           /\ new.evidence = service[p].evidence
    BY <1>4, <2>1, BoundIntent, Zenon
  <2>3. UNCHANGED terminals
    BY <1>4 DEF BindEvidence
  <2> QED BY <1>0, <1>3, <2>1, <2>2, <2>3 DEF AuthorityTypeOK
<1>5. ASSUME NEW p \in Process, NEW i \in Work, NEW now \in Int,
             NEW outcome \in Outcome,
             NEW reservation \in ReservationState \cup {"not_applicable"},
             RecordTerminal(p, i, now, outcome, reservation)
      PROVE  Kept
  <2>1. intents[i] \in Intent
    BY <1>0, <1>5 DEF RecordTerminal, FenceValid, Recorded
  <2>2. /\ intents' \in [Work -> Intent \cup {NoIntent}]
        /\ \A j \in Work : Recorded(j) => Recorded(j)'
    <3>1. PICK new \in Intent : intents' = [intents EXCEPT ![i] = new]
      BY <1>5, <2>1, RecordedIntent
    <3> QED BY <1>3, <3>1
  <2>3. terminals' \in [Work -> Terminal]
    BY <1>0, <1>5 DEF RecordTerminal, Terminal
  <2>4. \A j \in Work : Resolved(j) => terminals'[j] = terminals[j]
    BY <1>0, <1>5 DEF RecordTerminal
  <2> QED BY <2>2, <2>3, <2>4 DEF AuthorityTypeOK
<1>6. ASSUME NEW p \in Process, NEW c \in Cycle, NEW now \in Int,
             CommitCycleTerminal(p, c, now, service[p].report, service[p].evidence)
      PROVE  Kept
  <2>1. service[p].report \in Outcome
    BY DEF PaperInv, PaperTypeOK, RunCall
  <2> QED BY <1>0, <1>5, <1>6, <2>1 DEF CommitCycleTerminal
<1>7. ASSUME NEW p \in Process, NEW a \in Attempt, NEW now \in Int, NEW target,
             NEW outcome, Finishes(p, a, now, target, outcome)
      PROVE  Kept
  BY <1>0, <1>5, <1>7 DEF Finishes, Outcome, ReservationState
<1> QED BY <1>0, <1>1, <1>2, <1>4, <1>6, <1>7 DEF Shape

(* A success of an attempt stays one. *)
LEMMA SuccessStays ==
    ASSUME PaperInv, Shape
    PROVE  SomeSuccess => SomeSuccess'
<1> SUFFICES ASSUME NEW a \in Attempt, terminals[a].outcome = "success"
             PROVE  SomeSuccess'
  BY DEF SomeSuccess
<1>1. a \in Work /\ Resolved(a)
  BY DEF Work, Resolved, NoTerminal
<1> QED BY <1>1, AuthorityStep DEF SomeSuccess

-----------------------------------------------------------------------------
(* What a step leaves of the calls. *)
CallsMove ==
    /\ service' \in [Process -> RunCall]
    /\ CallsOK'
    /\ stopped' \subseteq Cycle

(* What a call relies on is not taken away. *)
LEMMA CallStays ==
    ASSUME PaperInv, Shape, NEW call \in RunCall, CallOK(call)
    PROVE  CallOK(call)'
<1>1. call.todo \in Seq(Attempt)
  BY DEF RunCall
<1>2. call.todo # <<>> => Head(call.todo) \in Attempt
  BY <1>1
<1>3. \A a \in Attempt : Exists(a) => Exists(a)'
  BY StoreTypesStep
<1>4. SomeSuccess => SomeSuccess'
  BY SuccessStays
<1> QED BY <1>2, <1>3, <1>4 DEF CallOK

(* One call is replaced by another that relies on nothing more. *)
LEMMA CallReplaced ==
    ASSUME PaperInv, Shape, NEW p \in Process, NEW call \in RunCall,
           CallOK(call)', service' = [service EXCEPT ![p] = call]
    PROVE  service' \in [Process -> RunCall] /\ CallsOK'
<1>1. service \in [Process -> RunCall]
  BY DEF PaperInv, PaperTypeOK
<1>2. \A q \in Process : CallOK(service[q]) /\ service[q] \in RunCall
  BY <1>1 DEF PaperInv, CallsOK
<1>3. \A q \in Process \ {p} : service'[q] = service[q]
  BY <1>1
<1>4. service'[p] = call
  BY <1>1
<1>5. ASSUME NEW q \in Process
      PROVE  CallOK(service[q])'
  <2>1. CASE q = p
    BY <1>4, <2>1 DEF CallOK
  <2>2. CASE q # p
    <3>1. PICK other \in RunCall : other = service[q] /\ CallOK(other)
      BY <1>2
    <3>2. CallOK(other)' /\ service'[q] = other
      BY <1>3, <2>2, <3>1, CallStays
    <3> QED BY <3>2 DEF CallOK
  <2> QED BY <2>1, <2>2
<1> QED BY <1>1, <1>5 DEF CallsOK

(* A call goes on. *)
LEMMA GotoMoves ==
    ASSUME PaperInv, Shape, NEW p \in Process, NEW call \in RunCall,
           CallOK(call)', Goto(p, call)
    PROVE  CallsMove
<1>1. clock.tick \in 0..MaxTick
  BY DEF PaperInv, PaperTypeOK, TypeOK, OutboxTypeOK, LeaseTypeOK, Instant
<1>2. PICK now \in RunCall : now = [call EXCEPT !.since = clock.tick]
  BY <1>1 DEF RunCall
<1>3. now.pc = call.pc /\ now.cycle = call.cycle /\ now.todo = call.todo
      /\ now.report = call.report
  BY <1>2 DEF RunCall
<1>4. service' = [service EXCEPT ![p] = now]
  BY <1>2 DEF Goto
<1>5. CallOK(now)'
  BY <1>3 DEF CallOK
<1> QED BY <1>4, <1>5, CallReplaced DEF CallsMove, Goto, PaperInv, PaperTypeOK

(* A call goes on to step. *)
LEMMA AdvanceMoves ==
    ASSUME PaperInv, Shape, NEW p \in Process, NEW step \in Step, Advance(p, step),
           step \notin {"idle", "numbering"} => service[p].cycle \in Cycle,
           step \in ItemSteps => /\ service[p].todo # <<>>
                                 /\ attempts'[Current(p)] # NoAttempt
    PROVE  CallsMove
<1>1. service[p] \in RunCall /\ CallOK(service[p])
  BY DEF PaperInv, PaperTypeOK, CallsOK
<1>2. PICK call \in RunCall : call = [service[p] EXCEPT !.pc = step]
  BY <1>1 DEF RunCall
<1>3. call.pc = step /\ call.cycle = service[p].cycle /\ call.todo = service[p].todo
      /\ call.report = service[p].report
  BY <1>1, <1>2 DEF RunCall
<1>4. service[p].report = "success" => SomeSuccess'
  BY <1>1, SuccessStays DEF CallOK
<1>5. CallOK(call)'
  BY <1>3, <1>4 DEF CallOK, Current, Exists
<1> QED BY <1>2, <1>5, GotoMoves DEF Advance

(* A call comes to its report. *)
LEMMA ReportMoves ==
    ASSUME PaperInv, Shape, NEW p \in Process, NEW outcome \in Outcome,
           Report(p, outcome), service[p].cycle \in Cycle,
           outcome = "success" => SomeSuccess'
    PROVE  CallsMove
<1>1. service[p] \in RunCall
  BY DEF PaperInv, PaperTypeOK
<1>2. "reporting" \in Step /\ 0 \in 0..MaxFence
  BY DEF Step
<1> DEFINE new == [service[p] EXCEPT !.pc = "reporting", !.fence = 0, !.report = outcome]
<1>3. new \in RunCall
  BY <1>1, <1>2 DEF RunCall
<1>4. PICK call \in RunCall : call = new
  BY <1>3
<1>5. call.pc = "reporting" /\ call.cycle = service[p].cycle /\ call.report = outcome
  BY <1>1, <1>4 DEF RunCall
<1>6. CallOK(call)'
  BY <1>5 DEF CallOK, ItemSteps
<1> QED BY <1>4, <1>6, GotoMoves DEF Report

(* A call reports that its source gave no batch. *)
LEMMA NoBatchMoves ==
    ASSUME PaperInv, Shape, NEW p \in Process, ReportNoBatch(p),
           service[p].cycle \in Cycle
    PROVE  CallsMove
<1>1. service[p] \in RunCall
  BY DEF PaperInv, PaperTypeOK
<1>2. "reporting" \in Step /\ "indeterminate" \in Outcome
  BY DEF Step, Outcome
<1> DEFINE new == [service[p] EXCEPT !.pc = "reporting", !.evidence = SourceFailure,
                                     !.report = "indeterminate"]
<1>3. new \in RunCall
  BY <1>1, <1>2 DEF RunCall
<1>4. PICK call \in RunCall : call = new
  BY <1>3
<1>5. /\ call.pc = "reporting" /\ call.cycle = service[p].cycle
      /\ call.report = "indeterminate"
  BY <1>1, <1>4 DEF RunCall
<1>6. CallOK(call)'
  BY <1>5 DEF CallOK, ItemSteps
<1> QED BY <1>4, <1>6, GotoMoves DEF ReportNoBatch

(* A call leaves an item. *)
LEMMA NextItemMoves ==
    ASSUME PaperInv, Shape, NEW p \in Process, NEW r \in Attempt \cup {NoAttempt},
           NextItem(p, r), service[p].cycle \in Cycle, service[p].todo # <<>>
    PROVE  CallsMove
<1>1. service[p] \in RunCall /\ CallOK(service[p])
  BY DEF PaperInv, PaperTypeOK, CallsOK
<1>2. Tail(service[p].todo) \in Seq(Attempt)
  BY <1>1 DEF RunCall
<1>3. "reserving" \in Step /\ 0 \in 0..MaxFence
  BY DEF Step
<1> DEFINE new == [service[p] EXCEPT !.pc = "reserving", !.todo = Tail(@), !.fence = 0,
                                     !.replay = IF @ = NoAttempt THEN r ELSE @]
<1>4. new \in RunCall
  BY <1>1, <1>2, <1>3 DEF RunCall
<1>5. PICK call \in RunCall : call = new
  BY <1>4
<1>6. call.pc = "reserving" /\ call.cycle = service[p].cycle
      /\ call.report = service[p].report
  BY <1>1, <1>5 DEF RunCall
<1>7. service[p].report = "success" => SomeSuccess'
  BY <1>1, SuccessStays DEF CallOK
<1>8. CallOK(call)'
  BY <1>6, <1>7 DEF CallOK, ItemSteps
<1> QED BY <1>5, <1>8, GotoMoves DEF NextItem

(* A call ends. *)
LEMMA EndMoves ==
    ASSUME PaperInv, Shape, NEW p \in Process,
           service' = [service EXCEPT ![p] = NotRunning],
           stopped' \subseteq stopped \cup Cycle
    PROVE  CallsMove
<1>1. NotRunning \in RunCall
  BY DEF NotRunning, RunCall, Step, Outcome
<1>2. PICK call \in RunCall : call = NotRunning
  BY <1>1
<1>3. CallOK(call)'
  BY <1>2 DEF CallOK, NotRunning, ItemSteps
<1> QED BY <1>2, <1>3, CallReplaced DEF CallsMove, PaperInv, PaperTypeOK

(* What a call on an item has, and keeps. *)
LEMMA OnItem ==
    ASSUME PaperInv, Shape, NEW p \in Process, service[p].pc \in ItemSteps
    PROVE  /\ service[p].cycle \in Cycle /\ service[p].todo # <<>>
           /\ Current(p) \in Attempt /\ Exists(Current(p))
           /\ attempts'[Current(p)] # NoAttempt
<1>1. service[p].cycle \in Cycle /\ service[p].todo # <<>> /\ Exists(Current(p))
  BY DEF PaperInv, CallsOK, CallOK, ItemSteps, Current
<1>2. Current(p) \in Attempt
  BY CurrentIsAttempt
<1>3. Exists(Current(p))'
         = (attempts'[Current(p)'] # NoAttempt)
  BY DEF Exists
<1>4. \A a \in Attempt : Exists(a) => attempts'[a] # NoAttempt
  BY StoreTypesStep DEF Exists
<1> QED BY <1>1, <1>2, <1>4

(* Every step moves at most one call, and as its code says. *)
LEMMA RunOnceMoves ==
    ASSUME PaperInv, Shape, NEW p \in Process, RunOnce(p)
    PROVE  CallsMove
<1>1. service[p].pc \notin {"idle", "numbering"} => service[p].cycle \in Cycle
  BY DEF PaperInv, CallsOK, CallOK
<1>2. \A outcome \in {"blocked", "indeterminate"} : outcome \in Outcome /\ outcome # "success"
  BY DEF Outcome
<1>3. CASE ReadSequence(p)
  <2>1. PICK n \in Cycle : Goto(p, [service[p] EXCEPT !.pc = "beginning", !.cycle = n])
    BY <1>3, Zenon DEF ReadSequence
  <2>2. service[p] \in RunCall /\ CallOK(service[p])
    BY DEF PaperInv, PaperTypeOK, CallsOK
  <2>3. "beginning" \in Step /\ n \in 0..MaxCycle
    BY DEF Step, Cycle
  <2> DEFINE new == [service[p] EXCEPT !.pc = "beginning", !.cycle = n]
  <2>4. new \in RunCall
    BY <2>2, <2>3 DEF RunCall
  <2>5. PICK call \in RunCall : call = new
    BY <2>4
  <2>6. call.pc = "beginning" /\ call.cycle = n /\ call.report = service[p].report
    BY <2>2, <2>5 DEF RunCall
  <2>7. CallOK(call)'
    BY <2>2, <2>6, SuccessStays DEF CallOK, ItemSteps
  <2> QED BY <2>1, <2>5, <2>7, GotoMoves
<1>4. CASE BeginCycle(p)
  <2>1. Goto(p, [service[p] EXCEPT !.pc = "sourcing", !.started = clock.tick])
        /\ service[p].cycle \in Cycle
    BY <1>1, <1>4 DEF BeginCycle, At
  <2>2. service[p] \in RunCall /\ CallOK(service[p])
    BY DEF PaperInv, PaperTypeOK, CallsOK
  <2>3. "sourcing" \in Step /\ clock.tick \in 0..MaxTick
    BY DEF Step, PaperInv, PaperTypeOK, TypeOK, OutboxTypeOK, LeaseTypeOK, Instant
  <2> DEFINE new == [service[p] EXCEPT !.pc = "sourcing", !.started = clock.tick]
  <2>4. new \in RunCall
    BY <2>2, <2>3 DEF RunCall
  <2>5. PICK call \in RunCall : call = new
    BY <2>4
  <2>6. call.pc = "sourcing" /\ call.cycle = service[p].cycle
        /\ call.report = service[p].report
    BY <2>2, <2>5 DEF RunCall
  <2>7. CallOK(call)'
    BY <2>1, <2>2, <2>6, SuccessStays DEF CallOK, ItemSteps
  <2> QED BY <2>1, <2>5, <2>7, GotoMoves
<1>5. CASE BeginCycleConflict(p) \/ BindRefused(p) \/ CommitCycleRefused(p)
  BY <1>5, EndMoves DEF BeginCycleConflict, BindRefused, CommitCycleRefused, EndCall
<1>6. CASE SourceTimesOut(p)
  BY <1>1, <1>6, NoBatchMoves DEF SourceTimesOut, At
<1>7. CASE Bind(p)
  <2>1. CASE Report(p, "blocked")
    BY <1>1, <1>2, <1>7, <2>1, ReportMoves DEF Bind, At
  <2>2. CASE Advance(p, "reserving")
    BY <1>1, <1>7, <2>2, AdvanceMoves DEF Bind, At, Step, ItemSteps
  <2> QED BY <1>7, <2>1, <2>2 DEF Bind
<1>8. CASE Reserve(p)
  <2>1. Current(p) \in Attempt
    BY <1>8, CurrentIsAttempt DEF Reserve
  <2>2. attempts \in [Attempt -> AttemptRow \cup {NoAttempt}]
    BY DEF PaperInv, PaperTypeOK, TypeOK
  <2>3. attempts'[Current(p)] # NoAttempt
    <3>1. CASE UNCHANGED vars /\ Exists(Current(p))
      BY <3>1 DEF vars, lifecycleVars, Exists
    <3>2. CASE CreateAttempt(Current(p), <<Current(p), "reserve">>, "planned", TRUE)
      <4>1. attempts'[Current(p)] \in AttemptRow
        BY <2>1, <3>2, ReserveCreates DEF PaperInv, PaperTypeOK
      <4> QED BY <4>1
    <3> QED BY <1>8, <3>1, <3>2 DEF Reserve
  <2> QED BY <1>1, <1>8, <2>3, AdvanceMoves DEF Reserve, At, Step
<1>9. CASE ReserveRefused(p)
  <2>1. service[p].cycle \in Cycle /\ service[p].todo # <<>>
    BY <1>1, <1>9 DEF ReserveRefused, At
  <2>2. CASE NextItem(p, NoAttempt)
    BY <2>1, <2>2, NextItemMoves
  <2>3. CASE Goto(p, [service[p] EXCEPT !.todo = <<>>])
    <3>1. service[p] \in RunCall /\ CallOK(service[p])
      BY DEF PaperInv, PaperTypeOK, CallsOK
    <3> DEFINE new == [service[p] EXCEPT !.todo = <<>>]
    <3>2. <<>> \in Seq(Attempt)
      OBVIOUS
    <3>3. new \in RunCall
      BY <3>1, <3>2 DEF RunCall
    <3>4. PICK call \in RunCall : call = new
      BY <3>3
    <3>5. call.pc = "reserving" /\ call.cycle = service[p].cycle
          /\ call.report = service[p].report
      BY <1>9, <3>1, <3>4 DEF RunCall, ReserveRefused, At
    <3>6. CallOK(call)'
      BY <2>1, <3>1, <3>5, SuccessStays DEF CallOK, ItemSteps
    <3> QED BY <2>3, <3>4, <3>6, GotoMoves
  <2>4. CASE Report(p, "indeterminate")
    BY <1>2, <2>1, <2>4, ReportMoves
  <2> QED BY <1>9, <2>2, <2>3, <2>4 DEF ReserveRefused
<1>10. CASE ReleaseLease(p)
  <2>1. service[p].pc \in ItemSteps
    BY <1>10 DEF ReleaseLease, At, ItemSteps
  <2>2. service[p] \in RunCall /\ CallOK(service[p])
    BY DEF PaperInv, PaperTypeOK, CallsOK
  <2>3. PICK call \in RunCall :
          /\ call = [service[p] EXCEPT !.pc = "releasing",
                                       !.fence = leases[Current(p)].fence + 1]
          /\ Goto(p, call)
    <3>1. leases[Current(p)].fence + 1 \in 0..MaxFence
      <4>1. leases[Current(p)].fence < MaxFence
        BY <1>10 DEF ReleaseLease, AcquireAttemptLease, AcquireLease
      <4>2. Current(p) \in Resource
        BY <2>1, OnItem
      <4>3. leases[Current(p)].fence \in Nat
        BY <4>2 DEF PaperInv, PaperTypeOK, TypeOK, OutboxTypeOK, LeaseTypeOK, LeaseRow
      <4> QED BY <4>1, <4>3
    <3>2. "releasing" \in Step
      BY DEF Step
    <3> DEFINE new == [service[p] EXCEPT !.pc = "releasing",
                                         !.fence = leases[Current(p)].fence + 1]
    <3>3. new \in RunCall
      BY <2>2, <3>1, <3>2 DEF RunCall
    <3>4. Goto(p, new)
      BY <1>10 DEF ReleaseLease
    <3> QED BY <3>3, <3>4
  <2>4. call.pc = "releasing" /\ call.cycle = service[p].cycle
        /\ call.todo = service[p].todo /\ call.report = service[p].report
    BY <2>2, <2>3 DEF RunCall
  <2>5. CallOK(call)'
    BY <2>1, <2>2, <2>4, OnItem, SuccessStays DEF CallOK, Current, Exists
  <2> QED BY <2>3, <2>5, GotoMoves
<1>11. CASE Release(p)
  <2>1. service[p].pc \in ItemSteps
    BY <1>11 DEF Release, At, ItemSteps
  <2> QED BY <1>11, <2>1, OnItem, NextItemMoves DEF Release
<1>12. CASE ReleaseRefused(p) \/ VerticalTimesOut(p) \/ AttemptCommitRefused(p)
  BY <1>1, <1>2, <1>12, ReportMoves
  DEF ReleaseRefused, VerticalTimesOut, AttemptCommitRefused, At
<1>13. CASE BeginAttempt(p)
  <2>1. service[p].pc \in ItemSteps
    BY <1>13 DEF BeginAttempt, At, ItemSteps
  <2>2. CASE Advance(p, "vertical")
    BY <2>1, <2>2, OnItem, AdvanceMoves DEF Step
  <2>3. CASE \E r \in Attempt \cup {NoAttempt} : NextItem(p, r)
    BY <2>1, <2>3, OnItem, NextItemMoves
  <2> QED BY <1>13, <2>1, <2>2, <2>3, OnItem DEF BeginAttempt, StartVertical
<1>14. CASE Reject(p)
  <2>1. service[p].pc \in ItemSteps
    BY <1>14 DEF Reject, At, ItemSteps
  <2> QED BY <1>14, <2>1, OnItem, NextItemMoves DEF Reject
<1>15. CASE CommitSuccess(p)
  <2>1. service[p].pc \in ItemSteps
    BY <1>15 DEF CommitSuccess, At, ItemSteps
  <2>2. SomeSuccess'
    <3>1. PICK now \in Readings(p) :
             CommitPaperSuccess(p, Current(p), <<Current(p), "terminal">>, now)
      BY <1>15 DEF CommitSuccess
    <3>2. Current(p) \in Attempt /\ Current(p) \in Work
      BY <2>1, OnItem DEF Work
    <3>3. terminals'[Current(p)].outcome = "success"
      BY <3>1, <3>2 DEF CommitPaperSuccess, RecordTerminal, PaperInv, PaperTypeOK,
                        AuthorityTypeOK
    <3> QED BY <3>2, <3>3 DEF SomeSuccess
  <2> QED BY <1>15, <2>1, <2>2, OnItem, ReportMoves DEF CommitSuccess, Outcome
<1>16. CASE VerifyReplay(p)
  <2>1. service[p].cycle \in Cycle
    BY <1>1, <1>16 DEF VerifyReplay, At
  <2>2. service[p].replay \in Attempt \cup {NoAttempt}
    BY DEF PaperInv, PaperTypeOK, RunCall
  <2>3. PICK outcome \in Outcome :
           /\ Report(p, outcome)
           /\ outcome = "success" => SomeSuccess
    <3>1. CASE Report(p, "blocked") \/ Report(p, "indeterminate")
      BY <1>2, <3>1
    <3>2. CASE /\ service[p].replay # NoAttempt
               /\ terminals[service[p].replay].outcome = "success"
               /\ Report(p, "success")
      BY <2>2, <3>2 DEF SomeSuccess, Outcome
    <3> QED BY <1>16, <3>1, <3>2 DEF VerifyReplay
  <2> QED BY <2>1, <2>3, SuccessStays, ReportMoves
<1>17. CASE CommitCycle(p)
  BY <1>17, EndMoves DEF CommitCycle, EndCall
<1> QED BY <1>3, <1>4, <1>5, <1>6, <1>7, <1>8, <1>9, <1>10, <1>11, <1>12, <1>13,
           <1>14, <1>15, <1>16, <1>17 DEF RunOnce

(* So do the answers of the environment, the clock and the restarts. *)
LEMMA CallsStep ==
    ASSUME PaperInv, [PaperNext]_paperAllVars
    PROVE  CallsMove
<1>0. Shape
  BY PaperShape
<1>1. \A p \in Process : service[p].pc \notin {"idle", "numbering"} =>
                             service[p].cycle \in Cycle
  BY DEF PaperInv, CallsOK, CallOK
<1>2. ASSUME NEW p \in Process, Environment(p)
      PROVE  CallsMove
  <2>1. CASE CheckRecovery(p)
    BY <1>0, <2>1, AdvanceMoves DEF CheckRecovery, Step, ItemSteps
  <2>2. CASE SourceReturns(p)
    <3>1. service[p].cycle \in Cycle
      BY <1>1, <2>2 DEF SourceReturns, At
    <3>2. PICK b \in Batches, e \in Evidence \ {SourceFailure} :
             Goto(p, [service[p] EXCEPT !.pc = "binding", !.todo = b, !.evidence = e])
      BY <2>2, Zenon DEF SourceReturns
    <3>3. service[p] \in RunCall /\ CallOK(service[p])
      BY DEF PaperInv, PaperTypeOK, CallsOK
    <3>4. "binding" \in Step /\ b \in Seq(Attempt)
      BY DEF Step
    <3> DEFINE new == [service[p] EXCEPT !.pc = "binding", !.todo = b, !.evidence = e]
    <3>5. new \in RunCall
      BY <3>3, <3>4 DEF RunCall
    <3>6. PICK call \in RunCall : call = new
      BY <3>5
    <3>7. call.pc = "binding" /\ call.cycle = service[p].cycle
          /\ call.report = service[p].report
      BY <3>3, <3>6 DEF RunCall
    <3>8. CallOK(call)'
      BY <1>0, <3>1, <3>3, <3>7, SuccessStays DEF CallOK, ItemSteps
    <3> QED BY <1>0, <3>2, <3>6, <3>8, GotoMoves
  <2>3. CASE SourceFails(p)
    BY <1>0, <1>1, <2>3, NoBatchMoves DEF SourceFails, At
  <2>4. CASE PrepareFails(p) \/ VerticalRejects(p) \/ VerticalReturns(p)
    <3>1. service[p].pc \in ItemSteps
      BY <2>4 DEF PrepareFails, VerticalRejects, VerticalReturns, At, ItemSteps
    <3> QED BY <1>0, <2>4, <3>1, OnItem, AdvanceMoves
            DEF PrepareFails, VerticalRejects, VerticalReturns, Step
  <2>5. CASE ServiceStops(p)
    BY <1>0, <2>5, EndMoves DEF ServiceStops
  <2> QED BY <1>2, <2>1, <2>2, <2>3, <2>4, <2>5 DEF Environment
<1>3. ASSUME UNCHANGED <<service, stopped>>
      PROVE  CallsMove
  <2>1. \A p \in Process : service[p] \in RunCall /\ CallOK(service[p])
    BY DEF PaperInv, PaperTypeOK, CallsOK
  <2>2. ASSUME NEW p \in Process
        PROVE  CallOK(service[p])'
    <3>1. PICK call \in RunCall : call = service[p] /\ CallOK(call)
      BY <2>1
    <3>2. CallOK(call)' /\ service'[p] = call
      BY <1>0, <1>3, <3>1, CallStays
    <3> QED BY <3>2 DEF CallOK
  <2> QED BY <1>3, <2>2 DEF CallsMove, CallsOK, PaperInv, PaperTypeOK
<1>4. CASE PaperTick
  BY <1>3, <1>4 DEF PaperTick, paperVars
<1>5. CASE PaperReboot
  <2>1. NotRunning \in RunCall
    BY DEF NotRunning, RunCall, Step, Outcome
  <2>2. PICK call \in RunCall : call = NotRunning
    BY <2>1
  <2>3. CallOK(call)'
    BY <2>2 DEF CallOK, NotRunning, ItemSteps
  <2>4. service' = [p \in Process |-> call]
    BY <1>5, <2>2 DEF PaperReboot
  <2>5. ASSUME NEW p \in Process
        PROVE  CallOK(service[p])'
    <3>1. service'[p] = call
      BY <2>4
    <3> QED BY <2>3, <3>1 DEF CallOK
  <2> QED BY <1>5, <2>4, <2>5
          DEF PaperReboot, CallsMove, CallsOK, PaperInv, PaperTypeOK
<1>6. CASE UNCHANGED paperAllVars
  BY <1>3, <1>6 DEF paperAllVars, paperVars
<1> QED BY <1>0, <1>2, <1>4, <1>5, <1>6, RunOnceMoves DEF PaperNext

-----------------------------------------------------------------------------
(* Initially nothing is stored and no call runs. *)
LEMMA PaperInitially == PaperInit => PaperInv
<1> SUFFICES ASSUME PaperInit
             PROVE  PaperInv
  OBVIOUS
<1>1. TypeOK
  BY InitLifecycleTypes DEF PaperInit
<1>2. AuthorityTypeOK
  BY DEF PaperInit, AuthorityInit, AuthorityTypeOK, Terminal, NoTerminal
<1>3. NotRunning \in RunCall /\ CallOK(NotRunning)
  BY DEF NotRunning, RunCall, Step, Outcome, CallOK, ItemSteps
<1>4. service \in [Process -> RunCall]
  BY <1>3 DEF PaperInit
<1>5. ASSUME NEW p \in Process
      PROVE  CallOK(service[p])
  <2>1. service[p] = NotRunning
    BY DEF PaperInit
  <2> QED BY <1>3, <2>1
<1> QED BY <1>1, <1>2, <1>4, <1>5 DEF PaperInv, PaperTypeOK, CallsOK, PaperInit

(* Every step keeps the types and what the calls rely on. *)
LEMMA PaperInvStep == PaperInv /\ [PaperNext]_paperAllVars => PaperInv'
<1> SUFFICES ASSUME PaperInv, [PaperNext]_paperAllVars
             PROVE  PaperInv'
  OBVIOUS
<1>1. Shape
  BY PaperShape
<1>2. TypeOK' /\ AuthorityTypeOK' /\ CallsMove
  BY <1>1, StoreTypesStep, AuthorityStep, CallsStep
<1>3. verticals' \in [Attempt -> 0..2]
  <2>1. verticals \in [Attempt -> 0..2]
    BY DEF PaperInv, PaperTypeOK
  <2>2. \/ UNCHANGED verticals
        \/ \E a \in Attempt :
              verticals' = [verticals EXCEPT ![a] = IF @ < 2 THEN @ + 1 ELSE @]
    BY <1>1, Zenon DEF Shape
  <2>3. ASSUME NEW a \in Attempt,
               verticals' = [verticals EXCEPT ![a] = IF @ < 2 THEN @ + 1 ELSE @]
        PROVE  verticals' \in [Attempt -> 0..2]
    <3>1. (IF verticals[a] < 2 THEN verticals[a] + 1 ELSE verticals[a]) \in 0..2
      BY <2>1
    <3> QED BY <2>1, <2>3, <3>1
  <2> QED BY <2>1, <2>2, <2>3
<1> QED BY <1>2, <1>3 DEF CallsMove, PaperInv, PaperTypeOK

(* The tables and the calls of the paper service are well typed, and every *)
(* call has what its next step needs: a cycle, and a row for its item.     *)
THEOREM PaperTypeCorrect == PaperSpec => []PaperTypeOK
<1>1. PaperSpec => []PaperInv
  BY PaperInitially, PaperInvStep, PTL DEF PaperSpec
<1>2. PaperInv => PaperTypeOK
  BY DEF PaperInv
<1> QED BY <1>1, <1>2, PTL

-----------------------------------------------------------------------------
(* The service and the authority, whose terminals write attempts, journal  *)
(* and reservations without the store, leave leases and outbox alone or    *)
(* change them as an environment of the outbox may: what is proved of the  *)
(* outbox holds where they run on its database.                            *)
THEOREM PaperImplementsOutbox == PaperSpec => OutboxSpec
<1>1. PaperInit => OutboxInit
  BY DEF PaperInit, Init
<1>2. PaperInv /\ [PaperNext]_paperAllVars => [OutboxNext]_outboxAllVars
  <2> SUFFICES ASSUME PaperInv, [PaperNext]_paperAllVars
               PROVE  [OutboxNext]_outboxAllVars
    OBVIOUS
  <2>1. TypeOK /\ Shape
    BY PaperShape DEF PaperInv, PaperTypeOK
  <2>2. [Next]_vars => [OutboxNext]_outboxAllVars
    BY <2>1, StepShape
  <2>3. UNCHANGED <<leaseVars, outboxVars>> => [OutboxNext]_outboxAllVars
    BY DEF outboxAllVars
  <2>4. ASSUME NEW a \in Attempt,
               \/ CreateAttempt(a, <<a, "reserve">>, "planned", TRUE)
               \/ ReleaseAbandonedReservation(LeaseOwner, a, <<a, "release">>)
        PROVE  Next
    BY <2>1, <2>4, CoordinatorSteps
  <2>5. ASSUME NEW p \in Process, NEW i, NEW x, BeginIntent(p, i, x)
        PROVE  UNCHANGED <<leaseVars, outboxVars>>
    BY <2>5 DEF BeginIntent
  <2>6. ASSUME NEW p \in Process, NEW c, NEW now, NEW e, BindEvidence(p, c, now, e)
        PROVE  UNCHANGED <<leaseVars, outboxVars>>
    BY <2>6 DEF BindEvidence
  <2>7. ASSUME NEW p \in Process, NEW c, NEW now, NEW r, NEW e,
               CommitCycleTerminal(p, c, now, r, e)
        PROVE  UNCHANGED <<leaseVars, outboxVars>>
    BY <2>7 DEF CommitCycleTerminal
  <2>8. ASSUME NEW p \in Process, NEW a \in Attempt, NEW now, NEW target,
               NEW outcome, Finishes(p, a, now, target, outcome)
        PROVE  UNCHANGED <<leaseVars, outboxVars>>
    BY <2>8 DEF Finishes, FinishAttempt, JournalOnly
  <2> QED BY <2>1, <2>2, <2>3, <2>4, <2>5, <2>6, <2>7, <2>8, Zenon DEF Shape
<1>3. PaperSpec => []PaperInv
  BY PaperInitially, PaperInvStep, PTL DEF PaperSpec
<1> QED BY <1>1, <1>2, <1>3, PTL DEF PaperSpec, OutboxSpec

(* No outcome is ever replaced by another. *)
THEOREM PaperTerminalsFinal == PaperSpec => TerminalsAreFinal
<1>1. PaperSpec => []PaperInv
  BY PaperInitially, PaperInvStep, PTL DEF PaperSpec
<1>2. PaperInv /\ [PaperNext]_paperAllVars =>
          [\A i \in Work : Resolved(i) => terminals'[i] = terminals[i]]_paperAllVars
  BY PaperShape, AuthorityStep
<1> QED BY <1>1, <1>2, PTL DEF PaperSpec, TerminalsAreFinal

-----------------------------------------------------------------------------
(* An attempt whose vertical was run is one whose intent is recorded. *)
VerticalsFollowIntents == \A a \in Attempt : verticals[a] = IF Recorded(a) THEN 1 ELSE 0

(* How one step changes what is recorded of attempts: one new intent,      *)
(* whose vertical is run with it, or nothing.                              *)
LEMMA IntentsOfAttempts ==
    ASSUME PaperInv, Shape
    PROVE  \/ /\ UNCHANGED verticals
              /\ \A b \in Attempt : Recorded(b)' <=> Recorded(b)
           \/ \E a \in Attempt :
                 /\ ~Recorded(a) /\ Recorded(a)' /\ Exists(a)
                 /\ verticals' = [verticals EXCEPT ![a] = IF @ < 2 THEN @ + 1 ELSE @]
                 /\ UNCHANGED <<terminals, attempts, reservations>>
                 /\ \A b \in Attempt \ {a} : Recorded(b)' <=> Recorded(b)
<1> DEFINE Same == \A b \in Attempt : Recorded(b)' <=> Recorded(b)
<1>0. /\ intents \in [Work -> Intent \cup {NoIntent}]
      /\ \A b \in Attempt : b \in Work /\ b \notin Cycle
      /\ \A c \in Cycle : c \in Work
      /\ \A i \in Work : Recorded(i) => Recorded(i)'
  BY AuthorityStep DEF PaperInv, PaperTypeOK, AuthorityTypeOK, Work
<1>1. ASSUME UNCHANGED authorityVars
      PROVE  Same
  BY <1>1 DEF authorityVars, Recorded
<1>2. ASSUME NEW i \in Work, ~Recorded(i) => i \in Cycle,
             \A j \in Work \ {i} : intents'[j] = intents[j]
      PROVE  Same
  BY <1>0, <1>2 DEF Recorded
<1>3. ASSUME NEW p \in Process, NEW c \in Cycle, BeginIntent(p, c, "cycle")
      PROVE  Same
  BY <1>0, <1>2, <1>3 DEF BeginIntent
<1>4. ASSUME NEW p \in Process, NEW a \in Attempt, NEW plan \in Plan,
             BeginIntent(p, a, plan), Exists(a)
      PROVE  /\ ~Recorded(a) /\ Recorded(a)' /\ Exists(a)
             /\ UNCHANGED <<terminals, attempts, reservations>>
             /\ \A b \in Attempt \ {a} : Recorded(b)' <=> Recorded(b)
  <2>1. NewIntent(p, plan) # NoIntent
    BY NewIntentIsIntent, NoIntentIsNoRow
  <2> QED BY <1>0, <1>4, <2>1 DEF BeginIntent, Recorded, lifecycleVars
<1>5. ASSUME NEW p \in Process, NEW c \in Cycle, NEW now \in Int,
             \/ BindEvidence(p, c, now, service[p].evidence)
             \/ CommitCycleTerminal(p, c, now, service[p].report, service[p].evidence)
      PROVE  Same
  BY <1>0, <1>2, <1>5 DEF BindEvidence, CommitCycleTerminal, RecordTerminal
<1>6. ASSUME NEW p \in Process, NEW a \in Attempt, NEW now \in Int, NEW target,
             NEW outcome, Finishes(p, a, now, target, outcome)
      PROVE  Same
  <2>1. Recorded(a)
    BY <1>6 DEF Finishes, RecordTerminal, FenceValid
  <2> QED BY <1>0, <1>2, <1>6, <2>1 DEF Finishes, RecordTerminal
<1> HIDE DEF Same
<1>7. \/ UNCHANGED verticals /\ Same
      \/ \E a \in Attempt :
            /\ ~Recorded(a) /\ Recorded(a)' /\ Exists(a)
            /\ verticals' = [verticals EXCEPT ![a] = IF @ < 2 THEN @ + 1 ELSE @]
            /\ UNCHANGED <<terminals, attempts, reservations>>
            /\ \A b \in Attempt \ {a} : Recorded(b)' <=> Recorded(b)
  BY <1>1, <1>3, <1>4, <1>5, <1>6, Zenon DEF Shape
<1> QED BY <1>7 DEF Same

(* No attempt has its vertical run twice, whatever cycles, processes and   *)
(* plans it comes in.                                                      *)
THEOREM VerticalsOnce == PaperSpec => []OneVerticalPerAttempt
<1> DEFINE VInv == PaperInv /\ VerticalsFollowIntents
<1>1. PaperInit => VInv
  BY PaperInitially
  DEF PaperInit, AuthorityInit, VerticalsFollowIntents, Recorded, Work
<1>2. VInv /\ [PaperNext]_paperAllVars => VInv'
  <2> SUFFICES ASSUME VInv, [PaperNext]_paperAllVars
               PROVE  VInv'
    OBVIOUS
  <2>1. PaperInv' /\ Shape
    BY PaperInvStep, PaperShape
  <2>2. verticals \in [Attempt -> 0..2]
    BY DEF PaperInv, PaperTypeOK
  <2>3. VerticalsFollowIntents'
    BY <2>1, <2>2, IntentsOfAttempts DEF VerticalsFollowIntents
  <2> QED BY <2>1, <2>3
<1>3. VInv => OneVerticalPerAttempt
  BY DEF VerticalsFollowIntents, OneVerticalPerAttempt
<1> QED BY <1>1, <1>2, <1>3, PTL DEF PaperSpec

-----------------------------------------------------------------------------
(* What the tables say of one attempt: no intent without a row, no record  *)
(* without an intent, a reservation that is active or released in both     *)
(* copies, and a terminal record that agrees with the row.                 *)
Story(a) ==
    /\ Recorded(a) => Exists(a)
    /\ Resolved(a) => Recorded(a)
    /\ Exists(a) =>
          /\ attempts[a].reservation = reservations[a]
          /\ reservations[a] \in {"active", "released"}
          /\ attempts[a].terminal <=> Resolved(a)
          /\ attempts[a].state = "rejected" <=> terminals[a].outcome = "blocked"
          /\ Resolved(a) => terminals[a].reservation = "released"
                            /\ reservations[a] = "released"

Stories == \A a \in Attempt : Story(a)

(* A step that does not touch an attempt leaves its story. *)
LEMMA StoryUndisturbed ==
    ASSUME NEW b \in Attempt, Story(b), attempts'[b] = attempts[b],
           reservations'[b] = reservations[b], terminals'[b] = terminals[b],
           Recorded(b)' <=> Recorded(b)
    PROVE  Story(b)'
BY DEF Story, Exists, Resolved

(* Every step keeps the story of every attempt. *)
LEMMA StoriesStep ==
    ASSUME PaperInv, Stories, Shape
    PROVE  Stories'
<1>0. /\ attempts \in [Attempt -> AttemptRow \cup {NoAttempt}]
      /\ reservations \in [Attempt -> ReservationState]
      /\ terminals \in [Work -> Terminal] /\ TypeOK
      /\ \A b \in Attempt : b \in Work /\ b \notin Cycle
  BY DEF PaperInv, PaperTypeOK, TypeOK, AuthorityTypeOK, Work
<1>1. \/ \A b \in Attempt : Recorded(b)' <=> Recorded(b)
      \/ \E a \in Attempt :
            /\ ~Recorded(a) /\ Recorded(a)' /\ Exists(a)
            /\ UNCHANGED <<terminals, attempts, reservations>>
            /\ \A b \in Attempt \ {a} : Recorded(b)' <=> Recorded(b)
  BY IntentsOfAttempts
<1>2. ASSUME NEW a \in Attempt, ~Recorded(a), Recorded(a)', Exists(a),
             UNCHANGED <<terminals, attempts, reservations>>,
             \A b \in Attempt \ {a} : Recorded(b)' <=> Recorded(b)
      PROVE  Stories'
  <2>1. Story(a)'
    BY <1>2 DEF Stories, Story, Exists, Resolved
  <2>2. ASSUME NEW b \in Attempt \ {a}
        PROVE  Story(b)'
    BY <1>2, <2>2, StoryUndisturbed DEF Stories
  <2> QED BY <2>1, <2>2 DEF Stories
<1> SUFFICES ASSUME \A b \in Attempt : Recorded(b)' <=> Recorded(b)
             PROVE  Stories'
  BY <1>1, <1>2
<1>3. ASSUME UNCHANGED <<attempts, reservations>>,
             \A b \in Attempt : terminals'[b] = terminals[b]
      PROVE  Stories'
  BY <1>3, StoryUndisturbed DEF Stories
<1>4. ASSUME NEW a \in Attempt, CreateAttempt(a, <<a, "reserve">>, "planned", TRUE),
             UNCHANGED authorityVars
      PROVE  Stories'
  <2>1. ASSUME NEW b \in Attempt \ {a}
        PROVE  Story(b)'
    BY <1>0, <1>4, StoryUndisturbed DEF CreateAttempt, Stories, authorityVars
  <2>2. /\ attempts'[a].state = "planned" /\ attempts'[a].terminal = FALSE
        /\ attempts'[a].reservation = reservations'[a]
    BY <1>0, <1>4, ReserveCreates
  <2>3. reservations'[a] = "active" /\ ~Exists(a)
    BY <1>0, <1>4 DEF CreateAttempt
  <2>4. ~Recorded(a)' /\ terminals'[a] = NoTerminal
    BY <1>4, <2>3 DEF Stories, Story, Resolved, authorityVars
  <2>5. Story(a)'
    BY <2>2, <2>3, <2>4 DEF Story, Resolved, NoTerminal
  <2> QED BY <2>1, <2>5 DEF Stories
<1>5. ASSUME NEW a \in Attempt,
             ReleaseAbandonedReservation(LeaseOwner, a, <<a, "release">>),
             UNCHANGED authorityVars
      PROVE  Stories'
  <2>1. ASSUME NEW b \in Attempt \ {a}
        PROVE  Story(b)'
    BY <1>0, <1>5, StoryUndisturbed
    DEF ReleaseAbandonedReservation, Stories, authorityVars
  <2>2. /\ Exists(a) /\ reservations[a] = "active"
        /\ attempts[a] \in AttemptRow
    BY <1>0, <1>5 DEF ReleaseAbandonedReservation, WriteUnderLease, Exists
  <2>3. /\ attempts'[a].state = attempts[a].state
        /\ attempts'[a].terminal = attempts[a].terminal
        /\ attempts'[a].reservation = "released" /\ reservations'[a] = "released"
    BY <1>0, <1>5, <2>2 DEF ReleaseAbandonedReservation, AttemptRow
  <2>4. Exists(a)'
    BY <2>2, StoreTypesStep
  <2>5. ~Resolved(a) /\ terminals'[a] = terminals[a]
    BY <1>5, <2>2 DEF Stories, Story, authorityVars
  <2>6. Story(a)'
    <3>1. /\ Recorded(a)' => Exists(a)'
          /\ attempts[a].terminal <=> Resolved(a)
          /\ attempts[a].state = "rejected" <=> terminals[a].outcome = "blocked"
          /\ ~Resolved(a)'
      BY <2>2, <2>4, <2>5 DEF Stories, Story, Resolved
    <3> QED BY <2>3, <2>5, <3>1 DEF Story
  <2> QED BY <2>1, <2>6 DEF Stories
<1>6. ASSUME NEW p \in Process, NEW c \in Cycle, NEW now \in Int,
             CommitCycleTerminal(p, c, now, service[p].report, service[p].evidence)
      PROVE  Stories'
  BY <1>0, <1>3, <1>6 DEF CommitCycleTerminal, RecordTerminal, lifecycleVars
<1>7. ASSUME NEW p \in Process, NEW a \in Attempt, NEW now \in Int, NEW target,
             NEW outcome, Finishes(p, a, now, target, outcome)
      PROVE  Stories'
  <2>1. ASSUME NEW b \in Attempt \ {a}
        PROVE  Story(b)'
    BY <1>0, <1>7, StoryUndisturbed
    DEF Finishes, RecordTerminal, FinishAttempt, Stories
  <2>2. PICK row \in AttemptRow : FinishedWith(a, row, target)
    BY <1>0, <1>7, FinishedRow
  <2>3. /\ Exists(a) /\ attempts[a].reservation # "none"
        /\ Recorded(a) /\ ~Resolved(a)
    BY <1>7 DEF Finishes, RecordTerminal, FenceValid, Stories, Story
  <2>4. /\ attempts'[a].state = target /\ attempts'[a].terminal = TRUE
        /\ attempts'[a].reservation = "released"
    BY <1>0, <2>2, <2>3 DEF FinishedWith
  <2>5. reservations'[a] = "released"
    <3>1. reservations[a] # "none"
      BY <2>3 DEF Stories, Story
    <3> QED BY <1>0, <1>7, <3>1 DEF Finishes, FinishAttempt
  <2>6. terminals'[a] = [outcome |-> outcome, reservation |-> "released"]
    BY <1>0, <1>7 DEF Finishes, RecordTerminal
  <2>7. Recorded(a)' /\ Resolved(a)' /\ Exists(a)'
    BY <1>0, <1>7, <2>2, <2>3, <2>6
    DEF Finishes, FinishedWith, Resolved, NoTerminal, Exists
  <2>8. Story(a)'
    BY <1>7, <2>4, <2>5, <2>6, <2>7 DEF Story, Finishes
  <2> QED BY <2>1, <2>8 DEF Stories
<1>8. ASSUME UNCHANGED <<lifecycleVars, terminals>>
      PROVE  Stories'
  BY <1>3, <1>8 DEF lifecycleVars
<1> QED BY <1>4, <1>5, <1>6, <1>7, <1>8
        DEF Shape, BeginIntent, BindEvidence, authorityVars

(* The row of an attempt, both copies of its reservation and its terminal  *)
(* record always agree.                                                    *)
THEOREM AttemptsAgree == PaperSpec => []AttemptsAgreeWithTerminals
<1> DEFINE SInv == PaperInv /\ Stories
<1>1. PaperInit => SInv
  <2> SUFFICES ASSUME PaperInit
               PROVE  SInv
    OBVIOUS
  <2>1. \A a \in Attempt : ~Exists(a) /\ ~Recorded(a) /\ ~Resolved(a)
    BY DEF PaperInit, Init, AuthorityInit, Exists, Recorded, Resolved, Work
  <2> QED BY <2>1, PaperInitially DEF Stories, Story
<1>2. SInv /\ [PaperNext]_paperAllVars => SInv'
  BY PaperInvStep, PaperShape, StoriesStep
<1>3. SInv => AttemptsAgreeWithTerminals
  BY DEF Stories, Story, AttemptsAgreeWithTerminals
<1> QED BY <1>1, <1>2, <1>3, PTL DEF PaperSpec

-----------------------------------------------------------------------------
(* A cycle is recorded as a success only when the success of an attempt is *)
(* committed: what a call reports stays true until it is recorded.         *)
THEOREM SuccessVerified == PaperSpec => []SuccessIsVerified
<1> DEFINE SInv == PaperInv /\ SuccessIsVerified
<1>1. PaperInit => SInv
  <2> SUFFICES ASSUME PaperInit
               PROVE  SInv
    OBVIOUS
  <2>1. \A c \in Cycle : terminals[c].outcome = "none"
    BY DEF PaperInit, AuthorityInit, NoTerminal, Work
  <2> QED BY <2>1, PaperInitially DEF SuccessIsVerified
<1>2. SInv /\ [PaperNext]_paperAllVars => SInv'
  <2> SUFFICES ASSUME SInv, [PaperNext]_paperAllVars
               PROVE  SInv'
    OBVIOUS
  <2>1. PaperInv' /\ Shape
    BY PaperInvStep, PaperShape
  <2>2. SomeSuccess => SomeSuccess'
    BY <2>1, SuccessStays
  <2>3. /\ terminals \in [Work -> Terminal]
        /\ \A c \in Cycle : c \in Work /\ c \notin Attempt
        /\ \A a \in Attempt : a \in Work
    BY DEF PaperInv, PaperTypeOK, AuthorityTypeOK, Work
  <2>4. ASSUME \A c \in Cycle : terminals'[c] = terminals[c]
        PROVE  SuccessIsVerified'
    <3>1. ASSUME NEW c \in Cycle, terminals'[c].outcome = "success"
          PROVE  SomeSuccess
      <4>1. terminals[c].outcome = "success"
        BY <2>4, <3>1
      <4> QED BY <4>1 DEF SuccessIsVerified, SomeSuccess
    <3> QED BY <2>2, <3>1 DEF SuccessIsVerified, SomeSuccess
  <2>5. ASSUME NEW p \in Process, NEW c \in Cycle, NEW now \in Int,
               CommitCycleTerminal(p, c, now, service[p].report, service[p].evidence)
        PROVE  SuccessIsVerified'
    <3>1. service[p].report = "success" => SomeSuccess
      BY DEF PaperInv, CallsOK, CallOK
    <3>2. /\ terminals'[c].outcome = service[p].report
          /\ \A d \in Cycle \ {c} : terminals'[d] = terminals[d]
      BY <2>3, <2>5 DEF CommitCycleTerminal, RecordTerminal
    <3> QED BY <2>2, <3>1, <3>2 DEF SuccessIsVerified, SomeSuccess
  <2>6. ASSUME NEW p \in Process, NEW a \in Attempt, NEW now \in Int, NEW target,
               NEW outcome, Finishes(p, a, now, target, outcome)
        PROVE  \A c \in Cycle : terminals'[c] = terminals[c]
    BY <2>3, <2>6 DEF Finishes, RecordTerminal
  <2>7. UNCHANGED terminals => \A c \in Cycle : terminals'[c] = terminals[c]
    OBVIOUS
  <2>8. SuccessIsVerified'
    BY <2>1, <2>4, <2>5, <2>6, <2>7
    DEF Shape, BeginIntent, BindEvidence, authorityVars
  <2> QED BY <2>1, <2>8
<1> QED BY <1>1, <1>2, PTL DEF PaperSpec

(* The journal of an attempt has no gap and replays to its row also under  *)
(* the unified authority, which writes rows and events without a lease.    *)
THEOREM PaperJournalCorrect == PaperSpec => []JournalReplaysState
<1> DEFINE JInv == PaperInv /\ JournalReplaysState
<1>1. PaperInit => JInv
  BY PaperInitially DEF PaperInit, Init, JournalReplaysState, Exists, EventsOf
<1>2. JInv /\ [PaperNext]_paperAllVars => JInv'
  <2> SUFFICES ASSUME JInv, [PaperNext]_paperAllVars
               PROVE  JInv'
    OBVIOUS
  <2>1. PaperInv' /\ Shape /\ TypeOK
    BY PaperInvStep, PaperShape DEF PaperInv, PaperTypeOK
  <2>2. ASSUME [Next]_vars
        PROVE  JournalReplaysState'
    BY <2>1, <2>2, JournalStep
  <2>3. ASSUME NEW p \in Process, NEW a \in Attempt, NEW now \in Int, NEW target,
               NEW outcome, Finishes(p, a, now, target, outcome)
        PROVE  JournalReplaysState'
    <3>1. PICK row \in AttemptRow : FinishedWith(a, row, target)
      BY <2>1, <2>3, FinishedRow
    <3>2. Exists(a)
      BY <2>3 DEF Finishes
    <3> QED BY <2>1, <3>1, <3>2, JournalGrows DEF FinishedWith
  <2>4. UNCHANGED <<leaseVars, outboxVars, lifecycleVars>> => JournalReplaysState'
    BY <2>2 DEF vars
  <2>5. JournalReplaysState'
    BY <2>1, <2>2, <2>3, <2>4, CoordinatorSteps
    DEF Shape, BeginIntent, BindEvidence, CommitCycleTerminal
  <2> QED BY <2>1, <2>5
<1> QED BY <1>1, <1>2, PTL DEF PaperSpec

-----------------------------------------------------------------------------
(* A machine that keeps up with its timers, and a cycle deadline below the *)
(* lifetime of the intents.                                                *)
Timely == Prompt /\ Deadline < TTL

(* The steps of a call whose cycle has an intent. *)
BegunSteps == Step \ {"idle", "numbering", "beginning"}

(* Those of a call that has no answer of its source yet, and the others.   *)
EarlySteps == {"idle", "numbering", "beginning", "sourcing"}
LateSteps == Step \ EarlySteps

(* Cycle c has an intent of this boot that expires at a time. *)
Fenced(c, until) ==
    /\ Recorded(c)
    /\ intents[c].boot = clock.boot /\ intents[c].expires = until

(* A call that is about to begin its cycle finds no intent or one as old   *)
(* as its own would be; one that has begun it is within its deadline,      *)
(* which counts from the same reading as the lifetime of its intent.       *)
OnTime(p, call) ==
    /\ call.pc = "beginning" /\ Recorded(call.cycle) =>
          Fenced(call.cycle, clock.tick + TTL)
    /\ call.pc \in BegunSteps =>
          /\ Fenced(call.cycle, call.started + TTL)
          /\ clock.tick <= call.started + Deadline

CallsOnTime == \A p \in Process : OnTime(p, service[p])

(* The intent of a cycle, once there, keeps everything but its evidence    *)
(* and its status; a new one is made by some process at this time.         *)
LEMMA CycleIntents ==
    ASSUME PaperInv, Shape, NEW c \in Cycle
    PROVE  \/ /\ ~Recorded(c)
              /\ \E q \in Process : intents'[c] = NewIntent(q, "cycle")
           \/ /\ Recorded(c)' <=> Recorded(c)
              /\ Recorded(c) => /\ intents'[c].owner = intents[c].owner
                                /\ intents'[c].payload = intents[c].payload
                                /\ intents'[c].boot = intents[c].boot
                                /\ intents'[c].expires = intents[c].expires
<1> DEFINE Kept == /\ Recorded(c)' <=> Recorded(c)
                   /\ Recorded(c) => /\ intents'[c].owner = intents[c].owner
                                     /\ intents'[c].payload = intents[c].payload
                                     /\ intents'[c].boot = intents[c].boot
                                     /\ intents'[c].expires = intents[c].expires
<1>0. /\ intents \in [Work -> Intent \cup {NoIntent}]
      /\ c \in Work /\ \A a \in Attempt : a # c
  BY DEF PaperInv, PaperTypeOK, AuthorityTypeOK, Work
<1>1. ASSUME intents'[c] = intents[c]
      PROVE  Kept
  BY <1>1 DEF Recorded
<1>2. ASSUME NEW i \in Work, NEW new \in Intent, intents[i] \in Intent,
             intents' = [intents EXCEPT ![i] = new],
             new.owner = intents[i].owner /\ new.payload = intents[i].payload,
             new.boot = intents[i].boot /\ new.expires = intents[i].expires
      PROVE  Kept
  <2>1. CASE i # c
    BY <1>0, <1>1, <1>2, <2>1
  <2>2. CASE i = c
    <3>1. intents'[c] = new
      BY <1>0, <1>2, <2>2
    <3> QED BY <1>2, <2>2, <3>1, NoIntentIsNoRow DEF Recorded
  <2> QED BY <2>1, <2>2
<1>3. ASSUME NEW q \in Process, NEW i \in Work, NEW now \in Int, NEW outcome,
             NEW reservation, RecordTerminal(q, i, now, outcome, reservation)
      PROVE  Kept
  <2>1. intents[i] \in Intent
    BY <1>0, <1>3 DEF RecordTerminal, FenceValid, Recorded
  <2> QED BY <1>2, <1>3, <2>1, RecordedIntent
<1>4. ASSUME NEW q \in Process, NEW d \in Cycle, NEW now \in Int,
             BindEvidence(q, d, now, service[q].evidence)
      PROVE  Kept
  <2>1. intents[d] \in Intent /\ d \in Work
    BY <1>0, <1>4 DEF BindEvidence, FenceValid, Recorded, Work
  <2>2. PICK new \in Intent :
           /\ intents' = [intents EXCEPT ![d] = new]
           /\ new.owner = intents[d].owner /\ new.payload = intents[d].payload
           /\ new.boot = intents[d].boot /\ new.expires = intents[d].expires
           /\ new.evidence = service[q].evidence
    BY <1>4, <2>1, BoundIntent, Zenon
  <2> QED BY <1>2, <2>1, <2>2
<1>5. ASSUME NEW q \in Process, NEW i \in Work, NEW x, i # c, BeginIntent(q, i, x)
      PROVE  Kept
  BY <1>0, <1>1, <1>5 DEF BeginIntent
<1>6. ASSUME NEW q \in Process, BeginIntent(q, c, "cycle")
      PROVE  ~Recorded(c) /\ intents'[c] = NewIntent(q, "cycle")
  BY <1>0, <1>6 DEF BeginIntent
<1>7. ASSUME UNCHANGED authorityVars
      PROVE  Kept
  BY <1>1, <1>7 DEF authorityVars
<1>8. \A i \in Cycle \cup Attempt : i \in Work
  BY DEF Work
<1> QED BY <1>0, <1>3, <1>4, <1>5, <1>6, <1>7, <1>8
        DEF Shape, CommitCycleTerminal, Finishes

(* The clock stands still while a call runs. *)
LEMMA ClockStands ==
    ASSUME NEW p \in Process, RunOnce(p) \/ Environment(p)
    PROVE  clock' = clock
<1>1. StoreUnchanged => clock' = clock
  BY DEF StoreUnchanged, vars, leaseVars
<1>2. CASE ReadSequence(p) \/ BeginCycleConflict(p) \/ SourceTimesOut(p)
           \/ BindRefused(p) \/ ReserveRefused(p) \/ ReleaseRefused(p)
           \/ VerticalTimesOut(p) \/ AttemptCommitRefused(p)
           \/ VerifyReplay(p) \/ CommitCycleRefused(p)
  <2>1. StoreUnchanged
    BY <1>2, Zenon
    DEF ReadSequence, BeginCycleConflict, SourceTimesOut, BindRefused,
        ReserveRefused, ReleaseRefused, VerticalTimesOut, AttemptCommitRefused,
        VerifyReplay, CommitCycleRefused
  <2> QED BY <1>1, <2>1
<1>3. CASE BeginCycle(p) \/ Bind(p) \/ BeginAttempt(p)
  BY <1>3 DEF BeginCycle, Bind, BeginAttempt, BeginIntent, BindEvidence, vars, leaseVars
<1>4. CASE Reserve(p) \/ ReleaseLease(p) \/ Release(p)
  BY <1>4 DEF Reserve, ReleaseLease, Release, CreateAttempt, AcquireAttemptLease,
              AcquireLease, ReleaseAbandonedReservation, WriteUnderLease, vars, leaseVars
<1>5. CASE Reject(p) \/ CommitSuccess(p) \/ CommitCycle(p)
  BY <1>5 DEF Reject, CommitSuccess, CommitCycle, CommitAttemptTerminal,
              CommitPaperSuccess, CommitCycleTerminal, FinishAttempt, leaseVars
<1>6. CASE Environment(p)
  <2>1. StoreUnchanged \/ ServiceStops(p)
    BY <1>6, Zenon DEF Environment, CheckRecovery, SourceReturns, SourceFails,
                       PrepareFails, VerticalRejects, VerticalReturns
  <2> QED BY <1>1, <2>1 DEF ServiceStops, vars, leaseVars
<1> QED BY <1>2, <1>3, <1>4, <1>5, <1>6 DEF RunOnce

(* What a step makes of the cycle and the deadline of the call that takes  *)
(* it: it ends or starts a call, draws a number, begins the cycle, or      *)
(* keeps both.  Its evidence is that of the answer, and stays.             *)
KeepsCycle(p) ==
    /\ service[p].pc \in BegunSteps /\ service'[p].pc \in BegunSteps
    /\ service'[p].cycle = service[p].cycle
    /\ service'[p].started = service[p].started

Draws(p) ==
    /\ service'[p].pc = "beginning"
    /\ service'[p].cycle \in Cycle /\ ~Recorded(service'[p].cycle)
    /\ UNCHANGED intents

Begins(p) ==
    LET c == service[p].cycle
    IN  /\ At(p, "beginning") /\ service'[p].pc \in BegunSteps
        /\ service'[p].cycle = c /\ service'[p].started = clock.tick
        /\ BeginIntent(p, c, "cycle") \/ IntentReplayed(p, c, "cycle")

AnswerMove(p) ==
    \/ service'[p].pc = "idle" /\ service'[p].evidence = NoEvidence
    \/ /\ service'[p].evidence = service[p].evidence
       /\ service'[p].pc \in EarlySteps => service[p].pc \in EarlySteps
    \/ service[p].pc = "sourcing" /\ service'[p].pc \in LateSteps

CycleMove(p) ==
    /\ AnswerMove(p)
    /\ \A q \in Process \ {p} : service'[q] = service[q]
    /\ \/ service'[p].pc \in {"idle", "numbering"}
       \/ Draws(p) \/ Begins(p) \/ KeepsCycle(p)

GoesOn(p) == CycleMove(p) /\ KeepsCycle(p) /\ UNCHANGED stopped

(* A call that has begun its cycle and goes on keeps cycle and deadline,   *)
LEMMA GotoKeepsCycle ==
    ASSUME PaperInv, NEW p \in Process, service[p].pc \in BegunSteps,
           NEW call, Goto(p, call), call.pc \in LateSteps,
           call.cycle = service[p].cycle, call.started = service[p].started,
           call.evidence = service[p].evidence \/ service[p].pc = "sourcing",
           DOMAIN call = DOMAIN NotRunning
    PROVE  GoesOn(p)
<1> DEFINE new == [call EXCEPT !.since = clock.tick]
<1>1. /\ new.pc = call.pc /\ new.cycle = call.cycle
      /\ new.started = call.started /\ new.evidence = call.evidence
  BY DEF NotRunning
<1>2. service' = [service EXCEPT ![p] = new] /\ UNCHANGED stopped
  BY DEF Goto
<1>3. service \in [Process -> RunCall]
  BY DEF PaperInv, PaperTypeOK
<1>4. call.pc \in BegunSteps /\ call.pc \notin EarlySteps
  BY DEF LateSteps, EarlySteps, BegunSteps
<1> HIDE DEF new
<1>5. KeepsCycle(p) /\ \A q \in Process \ {p} : service'[q] = service[q]
  BY <1>1, <1>2, <1>3, <1>4 DEF KeepsCycle
<1>6. AnswerMove(p)
  BY <1>1, <1>2, <1>3, <1>4 DEF AnswerMove
<1> QED BY <1>2, <1>5, <1>6 DEF CycleMove, GoesOn

(* in whatever way it goes on.                                             *)
LEMMA GoingOnKeepsCycle ==
    ASSUME PaperInv, NEW p \in Process, service[p].pc \in BegunSteps,
           \/ \E step \in LateSteps : Advance(p, step)
           \/ \E outcome : Report(p, outcome)
           \/ \E r : NextItem(p, r)
    PROVE  GoesOn(p)
<1>0. /\ service[p] \in RunCall /\ DOMAIN service[p] = DOMAIN NotRunning
      /\ {"reporting", "reserving", "releasing"} \subseteq LateSteps
  BY DEF PaperInv, PaperTypeOK, RunCall, NotRunning, LateSteps, EarlySteps, Step
<1>1. ASSUME NEW step \in LateSteps, Advance(p, step)
      PROVE  GoesOn(p)
  <2> DEFINE new == [service[p] EXCEPT !.pc = step]
  <2>1. /\ new.pc = step /\ new.cycle = service[p].cycle
        /\ new.started = service[p].started /\ DOMAIN new = DOMAIN NotRunning
        /\ new.evidence = service[p].evidence
    BY <1>0 DEF RunCall
  <2>2. Goto(p, new)
    BY <1>1 DEF Advance
  <2> HIDE DEF new
  <2> QED BY <2>1, <2>2, GotoKeepsCycle
<1>2. ASSUME NEW outcome, Report(p, outcome)
      PROVE  GoesOn(p)
  <2> DEFINE new == [service[p] EXCEPT !.pc = "reporting", !.fence = 0,
                                       !.report = outcome]
  <2>1. /\ new.pc = "reporting" /\ new.cycle = service[p].cycle
        /\ new.started = service[p].started /\ DOMAIN new = DOMAIN NotRunning
        /\ new.evidence = service[p].evidence
    BY <1>0 DEF RunCall
  <2>2. Goto(p, new)
    BY <1>2, Zenon DEF Report
  <2> HIDE DEF new
  <2> QED BY <1>0, <2>1, <2>2, GotoKeepsCycle
<1>3. ASSUME NEW r, NextItem(p, r)
      PROVE  GoesOn(p)
  <2> DEFINE new == [service[p] EXCEPT !.pc = "reserving", !.todo = Tail(@), !.fence = 0,
                                       !.replay = IF @ = NoAttempt THEN r ELSE @]
  <2>1. /\ new.pc = "reserving" /\ new.cycle = service[p].cycle
        /\ new.started = service[p].started /\ DOMAIN new = DOMAIN NotRunning
        /\ new.evidence = service[p].evidence
    BY <1>0 DEF RunCall
  <2>2. Goto(p, new)
    BY <1>3, Zenon DEF NextItem
  <2> HIDE DEF new
  <2> QED BY <1>0, <2>1, <2>2, GotoKeepsCycle
<1> QED BY <1>1, <1>2, <1>3, Zenon

(* The steps that end a call whose cycle has begun.                        *)
Ends(p) ==
    BindRefused(p) \/ CommitCycleRefused(p) \/ CommitCycle(p) \/ ServiceStops(p)

(* The call that takes a step moves like that.  One that has begun its     *)
(* cycle goes on, or the step is one of those that end it.                 *)
LEMMA CycleMoves ==
    ASSUME PaperInv, NEW p \in Process, RunOnce(p) \/ Environment(p)
    PROVE  /\ CycleMove(p)
           /\ service[p].pc \in BegunSteps => KeepsCycle(p) \/ Ends(p)
           /\ UNCHANGED stopped \/ ServiceStops(p)
<1> DEFINE Moves ==
      /\ CycleMove(p)
      /\ service[p].pc \in BegunSteps => KeepsCycle(p) \/ Ends(p)
      /\ UNCHANGED stopped \/ ServiceStops(p)
<1>0. service[p] \in RunCall /\ service \in [Process -> RunCall]
  BY DEF PaperInv, PaperTypeOK
<1>1. ASSUME NEW step, At(p, step), step \in BegunSteps,
             \/ \E to \in LateSteps : Advance(p, to)
             \/ \E outcome : Report(p, outcome)
             \/ \E r : NextItem(p, r)
      PROVE  Moves
  <2>1. service[p].pc \in BegunSteps
    BY <1>1 DEF At
  <2>2. GoesOn(p)
    BY <1>1, <2>1, GoingOnKeepsCycle, Zenon
  <2> QED BY <2>2 DEF GoesOn
<1>2. /\ {"sourcing", "binding", "reserving", "preparing", "leasing", "releasing",
          "vertical", "rejecting", "completing", "reporting"} \subseteq BegunSteps
      /\ {"binding", "reserving", "preparing", "leasing", "releasing",
          "vertical", "rejecting", "completing", "reporting"} \subseteq LateSteps
  BY DEF BegunSteps, LateSteps, EarlySteps, Step
<1>3. ASSUME service' = [service EXCEPT ![p] = NotRunning]
      PROVE  CycleMove(p)
  BY <1>0, <1>3 DEF CycleMove, AnswerMove, NotRunning
<1>4. CASE BindRefused(p) \/ CommitCycleRefused(p) \/ CommitCycle(p)
  <2>1. EndCall(p) /\ Ends(p)
    BY <1>4 DEF BindRefused, CommitCycleRefused, CommitCycle, Ends
  <2> QED BY <1>3, <2>1 DEF EndCall
<1>5. CASE BeginCycleConflict(p)
  <2>1. EndCall(p) /\ service[p].pc \notin BegunSteps
    BY <1>5 DEF BeginCycleConflict, At, BegunSteps
  <2> QED BY <1>3, <2>1 DEF EndCall
<1>6. CASE ServiceStops(p)
  BY <1>3, <1>6 DEF ServiceStops, Ends
<1>7. ASSUME CheckRecovery(p)
      PROVE  Moves
  <2> DEFINE new == [[service[p] EXCEPT !.pc = "numbering"] EXCEPT !.since = clock.tick]
  <2>1. new.pc = "numbering" /\ new.evidence = service[p].evidence
    BY <1>0 DEF RunCall
  <2>2. service' = [service EXCEPT ![p] = new] /\ UNCHANGED stopped
    BY <1>7 DEF CheckRecovery, Advance, Goto
  <2>3. service[p].pc = "idle"
    BY <1>7 DEF CheckRecovery, At
  <2> HIDE DEF new
  <2>4. CycleMove(p)
    BY <1>0, <2>1, <2>2, <2>3 DEF CycleMove, AnswerMove, EarlySteps
  <2> QED BY <2>2, <2>3, <2>4 DEF BegunSteps
<1>8. ASSUME ReadSequence(p)
      PROVE  Moves
  <2>1. PICK n \in Cycle :
           /\ IsNextSequence(n)
           /\ Goto(p, [service[p] EXCEPT !.pc = "beginning", !.cycle = n])
    BY <1>8, Zenon DEF ReadSequence
  <2> DEFINE new == [[service[p] EXCEPT !.pc = "beginning", !.cycle = n]
                        EXCEPT !.since = clock.tick]
  <2>2. new.pc = "beginning" /\ new.cycle = n /\ new.evidence = service[p].evidence
    BY <1>0 DEF RunCall
  <2>3. service' = [service EXCEPT ![p] = new] /\ UNCHANGED stopped
    BY <2>1 DEF Goto
  <2>4. ~Recorded(n)
    BY <2>1 DEF IsNextSequence, Cycle
  <2>5. UNCHANGED intents /\ service[p].pc = "numbering"
    BY <1>8 DEF ReadSequence, StoreUnchanged, authorityVars, At
  <2> HIDE DEF new
  <2>6. CycleMove(p)
    BY <1>0, <2>2, <2>3, <2>4, <2>5 DEF CycleMove, Draws, AnswerMove, EarlySteps
  <2> QED BY <2>3, <2>5, <2>6 DEF BegunSteps
<1>9. ASSUME BeginCycle(p)
      PROVE  Moves
  <2> DEFINE new == [[service[p] EXCEPT !.pc = "sourcing", !.started = clock.tick]
                        EXCEPT !.since = clock.tick]
  <2>1. /\ new.pc = "sourcing" /\ new.started = clock.tick
        /\ new.cycle = service[p].cycle /\ new.evidence = service[p].evidence
    BY <1>0 DEF RunCall
  <2>2. service' = [service EXCEPT ![p] = new] /\ UNCHANGED stopped
    BY <1>9 DEF BeginCycle, Goto
  <2>3. /\ service[p].pc = "beginning"
        /\ \/ BeginIntent(p, service[p].cycle, "cycle")
           \/ IntentReplayed(p, service[p].cycle, "cycle")
    BY <1>9 DEF BeginCycle, At
  <2> HIDE DEF new
  <2>4. Begins(p)
    BY <1>0, <1>2, <2>1, <2>2, <2>3 DEF Begins, At
  <2>5. CycleMove(p)
    BY <1>0, <2>1, <2>2, <2>3, <2>4 DEF CycleMove, AnswerMove, EarlySteps
  <2> QED BY <2>2, <2>3, <2>5 DEF BegunSteps
<1>10. ASSUME NEW call, Goto(p, call), service[p].pc \in BegunSteps,
              call.pc \in LateSteps,
              call.cycle = service[p].cycle, call.started = service[p].started,
              call.evidence = service[p].evidence \/ service[p].pc = "sourcing",
              DOMAIN call = DOMAIN NotRunning
       PROVE  Moves
  <2>1. GoesOn(p)
    BY <1>10, GotoKeepsCycle
  <2> QED BY <2>1 DEF GoesOn
<1>11. CASE Bind(p) \/ Reserve(p)
  BY <1>1, <1>2, <1>11, Zenon DEF Bind, Reserve
<1>12. CASE SourceFails(p) \/ SourceTimesOut(p)
  <2> DEFINE new == [service[p] EXCEPT !.pc = "reporting", !.evidence = SourceFailure,
                                       !.report = "indeterminate"]
  <2>1. Goto(p, new) /\ service[p].pc = "sourcing"
    BY <1>12, Zenon DEF SourceFails, SourceTimesOut, ReportNoBatch, At
  <2>2. /\ new.pc = "reporting" /\ new.cycle = service[p].cycle
        /\ new.started = service[p].started /\ DOMAIN new = DOMAIN NotRunning
    BY <1>0 DEF RunCall, NotRunning
  <2> HIDE DEF new
  <2> QED BY <1>2, <1>10, <2>1, <2>2
<1>13. CASE SourceReturns(p)
  <2>1. PICK b \in Batches, e \in Evidence \ {SourceFailure} :
           Goto(p, [service[p] EXCEPT !.pc = "binding", !.todo = b, !.evidence = e])
    BY <1>13, Zenon DEF SourceReturns
  <2> DEFINE new == [service[p] EXCEPT !.pc = "binding", !.todo = b, !.evidence = e]
  <2>2. service[p].pc = "sourcing"
    BY <1>13, Zenon DEF SourceReturns, At
  <2>3. /\ new.pc = "binding" /\ new.cycle = service[p].cycle
        /\ new.started = service[p].started /\ DOMAIN new = DOMAIN NotRunning
    BY <1>0 DEF RunCall, NotRunning
  <2>4. Goto(p, new)
    BY <2>1
  <2> HIDE DEF new
  <2> QED BY <1>2, <1>10, <2>2, <2>3, <2>4
<1>14. CASE ReserveRefused(p)
  <2>1. At(p, "reserving")
    BY <1>14, Zenon DEF ReserveRefused
  <2>2. CASE Goto(p, [service[p] EXCEPT !.todo = <<>>])
    <3> DEFINE new == [service[p] EXCEPT !.todo = <<>>]
    <3>1. /\ new.pc = "reserving" /\ new.cycle = service[p].cycle
          /\ new.started = service[p].started /\ DOMAIN new = DOMAIN NotRunning
          /\ new.evidence = service[p].evidence
      BY <1>0, <2>1 DEF RunCall, NotRunning, At
    <3>2. Goto(p, new) /\ service[p].pc = "reserving"
      BY <2>1, <2>2 DEF At
    <3> HIDE DEF new
    <3> QED BY <1>2, <1>10, <3>1, <3>2
  <2> QED BY <1>1, <1>2, <1>14, <2>1, <2>2, Zenon DEF ReserveRefused
<1>15. CASE ReleaseLease(p)
  <2>1. PICK fence : /\ At(p, "leasing")
                     /\ Goto(p, [service[p] EXCEPT !.pc = "releasing", !.fence = fence])
    BY <1>15, Zenon DEF ReleaseLease
  <2> DEFINE new == [service[p] EXCEPT !.pc = "releasing", !.fence = fence]
  <2>2. /\ new.pc = "releasing" /\ new.cycle = service[p].cycle
        /\ new.started = service[p].started /\ DOMAIN new = DOMAIN NotRunning
        /\ new.evidence = service[p].evidence
    BY <1>0 DEF RunCall, NotRunning
  <2>3. Goto(p, new) /\ service[p].pc = "leasing"
    BY <2>1 DEF At
  <2> HIDE DEF new
  <2> QED BY <1>2, <1>10, <2>2, <2>3
<1>16. CASE Release(p) \/ ReleaseRefused(p)
  BY <1>1, <1>2, <1>16, Zenon DEF Release, ReleaseRefused
<1>17. CASE BeginAttempt(p)
  BY <1>1, <1>2, <1>17, Zenon DEF BeginAttempt, StartVertical
<1>18. CASE VerticalTimesOut(p) \/ Reject(p) \/ CommitSuccess(p)
            \/ AttemptCommitRefused(p) \/ VerifyReplay(p)
  BY <1>1, <1>2, <1>18, Zenon
  DEF VerticalTimesOut, Reject, CommitSuccess, AttemptCommitRefused, VerifyReplay
<1>19. CASE PrepareFails(p) \/ VerticalRejects(p) \/ VerticalReturns(p)
  BY <1>1, <1>2, <1>19, Zenon DEF PrepareFails, VerticalRejects, VerticalReturns
<1> QED BY <1>4, <1>5, <1>6, <1>7, <1>8, <1>9, <1>11, <1>12, <1>13, <1>14, <1>15,
           <1>16, <1>17, <1>18, <1>19, Zenon DEF RunOnce, Environment

(* While the clock stands, a call stays on time. *)
LEMMA OnTimeStays ==
    ASSUME Timely, PaperInv, Shape, clock' = clock, NEW p \in Process,
           NEW call \in RunCall, CallOK(call), OnTime(p, call)
    PROVE  OnTime(p, call)'
<1>1. CASE call.pc \in {"idle", "numbering"}
  BY <1>1 DEF OnTime, BegunSteps
<1>2. CASE call.pc \notin {"idle", "numbering"}
  <2>1. call.cycle \in Cycle
    BY <1>2 DEF CallOK
  <2>2. CASE ~Recorded(call.cycle) /\ call.pc = "beginning"
    <3>1. ASSUME NEW q \in Process, intents'[call.cycle] = NewIntent(q, "cycle")
          PROVE  OnTime(p, call)'
      <4>1. NewIntent(q, "cycle") # NoIntent
        BY <2>1, NewIntentIsIntent, NoIntentIsNoRow
      <4> QED BY <2>2, <3>1, <4>1 DEF OnTime, Fenced, Recorded, NewIntent, BegunSteps
    <3> QED BY <2>1, <2>2, <3>1, CycleIntents DEF OnTime, BegunSteps
  <2>3. CASE Recorded(call.cycle)
    BY <2>1, <2>3, CycleIntents DEF OnTime, Fenced
  <2>4. call.pc # "beginning" => Recorded(call.cycle)
    BY <1>2 DEF OnTime, Fenced, BegunSteps, RunCall
  <2> QED BY <2>2, <2>3, <2>4
<1> QED BY <1>1, <1>2

(* Every step leaves every call on time. *)
LEMMA CallsOnTimeStep ==
    ASSUME Timely, PaperInv, CallsOnTime, [PaperNext]_paperAllVars
    PROVE  CallsOnTime'
<1>0. /\ Shape
      /\ \A p \in Process : service[p] \in RunCall /\ CallOK(service[p])
                            /\ OnTime(p, service[p])
  BY PaperShape DEF PaperInv, PaperTypeOK, CallsOK, CallsOnTime
<1>1. ASSUME clock' = clock, NEW p \in Process, service'[p] = service[p]
      PROVE  OnTime(p, service[p])'
  <2>1. PICK call \in RunCall : call = service[p] /\ CallOK(call) /\ OnTime(p, call)
    BY <1>0
  <2>2. OnTime(p, call)' /\ service'[p] = call
    BY <1>0, <1>1, <2>1, OnTimeStays
  <2> QED BY <2>2 DEF OnTime
<1>2. ASSUME NEW p \in Process, RunOnce(p) \/ Environment(p)
      PROVE  CallsOnTime'
  <2>1. clock' = clock /\ CycleMove(p)
    BY <1>2, ClockStands, CycleMoves
  <2>2. ASSUME NEW q \in Process \ {p}
        PROVE  OnTime(q, service[q])'
    BY <1>1, <2>1 DEF CycleMove
  <2> SUFFICES OnTime(p, service[p])'
    BY <2>2 DEF CallsOnTime
  <2>3. clock.tick \in Int /\ Deadline \in Nat /\ TTL \in Int
    BY DEF PaperInv, PaperTypeOK, TypeOK, OutboxTypeOK, LeaseTypeOK, Instant
  <2>4. CASE service'[p].pc \in {"idle", "numbering"}
    BY <2>4 DEF OnTime, BegunSteps
  <2>5. CASE Draws(p)
    BY <2>5 DEF Draws, OnTime, Recorded, BegunSteps
  <2>6. CASE Begins(p)
    <3> DEFINE c == service[p].cycle
    <3>1. c \in Cycle /\ c \in Work
      BY <1>0, <2>6 DEF Begins, At, CallOK, Work
    <3>2. service'[p].cycle = c /\ service'[p].started = clock.tick
          /\ service'[p].pc # "beginning"
      BY <2>6 DEF Begins, BegunSteps
    <3>3. CASE BeginIntent(p, c, "cycle")
      <4>1. intents'[c] = NewIntent(p, "cycle") /\ NewIntent(p, "cycle") # NoIntent
        BY <3>1, <3>3, NewIntentIsIntent, NoIntentIsNoRow
        DEF BeginIntent, PaperInv, PaperTypeOK, AuthorityTypeOK
      <4> HIDE DEF c
      <4> QED BY <2>1, <2>3, <3>2, <4>1 DEF OnTime, Fenced, Recorded, NewIntent
    <3>4. CASE Recorded(c)
      <4>1. Fenced(c, clock.tick + TTL)
        BY <1>0, <2>6, <3>4 DEF Begins, At, OnTime
      <4> HIDE DEF c
      <4> QED BY <2>1, <2>3, <3>1, <3>2, <3>4, <4>1, <1>0, CycleIntents DEF OnTime, Fenced
    <3> QED BY <2>6, <3>3, <3>4 DEF Begins, IntentReplayed
  <2>7. CASE KeepsCycle(p)
    <3> DEFINE c == service[p].cycle
    <3>1. c \in Cycle
      BY <1>0, <2>7 DEF KeepsCycle, BegunSteps, CallOK
    <3>2. /\ Fenced(c, service[p].started + TTL)
          /\ clock.tick <= service[p].started + Deadline
      BY <1>0, <2>7 DEF KeepsCycle, OnTime
    <3>3. /\ service'[p].cycle = c /\ service'[p].started = service[p].started
          /\ service'[p].pc # "beginning"
      BY <2>7 DEF KeepsCycle, BegunSteps
    <3> HIDE DEF c
    <3> QED BY <2>1, <3>1, <3>2, <3>3, <1>0, CycleIntents DEF OnTime, Fenced
  <2> QED BY <2>1, <2>4, <2>5, <2>6, <2>7 DEF CycleMove
<1>3. CASE PaperTick
  <2>1. /\ UNCHANGED <<intents, service>>
        /\ clock' = [clock EXCEPT !.tick = @ + 1]
        /\ \A p \in Process : Waiting(p)
    BY <1>3 DEF PaperTick, TickStore, Tick, authorityVars, paperVars, Timely
  <2>2. clock.tick \in Int /\ clock'.tick = clock.tick + 1 /\ clock'.boot = clock.boot
    BY <2>1 DEF PaperInv, PaperTypeOK, TypeOK, OutboxTypeOK, LeaseTypeOK, Instant
  <2>3. ASSUME NEW p \in Process
        PROVE  OnTime(p, service[p])'
    <3>1. service[p].pc # "beginning"
      BY <2>1 DEF Waiting, At
    <3>2. service[p].pc \in BegunSteps => clock.tick < service[p].started + Deadline
      <4>1. service[p].started \in Int
        BY <1>0 DEF RunCall
      <4>2. service[p].pc \in BegunSteps => ~(clock.tick >= service[p].started + Deadline)
        BY <2>1, Zenon DEF Waiting, At, BeyondDeadline, BegunSteps
      <4> QED BY <2>2, <4>1, <4>2
    <3>3. service[p].started \in Int
      BY <1>0 DEF RunCall
    <3>4. service[p].pc \in BegunSteps =>
             Fenced(service[p].cycle, service[p].started + TTL)
      BY <1>0 DEF OnTime
    <3>5. service'[p] = service[p]
      BY <2>1
    <3>6. service[p].pc \in BegunSteps =>
             /\ Fenced(service[p].cycle, service[p].started + TTL)'
             /\ clock'.tick <= service[p].started + Deadline
      <4>1. service[p].pc \in BegunSteps =>
               Fenced(service[p].cycle, service[p].started + TTL)'
        BY <2>1, <2>2, <3>4, <3>5 DEF Fenced, Recorded
      <4> QED BY <2>2, <3>2, <3>3, <4>1
    <3> QED BY <3>1, <3>5, <3>6 DEF OnTime
  <2> QED BY <2>3 DEF CallsOnTime
<1>4. CASE PaperReboot
  <2>1. \A p \in Process : service'[p].pc = "idle"
    BY <1>4 DEF PaperReboot, NotRunning
  <2> QED BY <2>1 DEF CallsOnTime, OnTime, BegunSteps
<1>5. CASE UNCHANGED paperAllVars
  BY <1>1, <1>5 DEF CallsOnTime, paperAllVars, paperVars, vars, leaseVars
<1> QED BY <1>2, <1>3, <1>4, <1>5 DEF PaperNext

(* A call that has begun its cycle works under an intent of its process,   *)
(* or on a cycle that has its record.                                      *)
Owns(p, call) ==
    call.pc \in BegunSteps =>
        intents[call.cycle].owner = OwnerOf[p] \/ Resolved(call.cycle)

CallsOwn == \A p \in Process : Owns(p, service[p])

(* Every step leaves it so: begin_cycle_intent refuses the open intent of  *)
(* another owner.                                                          *)
LEMMA CallsOwnStep ==
    ASSUME PaperInv, CallsOnTime, CallsOwn, [PaperNext]_paperAllVars
    PROVE  CallsOwn'
<1>0. /\ Shape
      /\ \A p \in Process : service[p] \in RunCall /\ CallOK(service[p])
                            /\ Owns(p, service[p])
      /\ \A p \in Process : service[p].pc \in BegunSteps => Recorded(service[p].cycle)
  BY PaperShape DEF PaperInv, PaperTypeOK, CallsOK, CallsOwn, CallsOnTime, OnTime, Fenced
<1>1. ASSUME NEW p \in Process, NEW c \in Cycle, Recorded(c),
             intents[c].owner = OwnerOf[p] \/ Resolved(c)
      PROVE  intents'[c].owner = OwnerOf[p] \/ Resolved(c)'
  <2>1. intents'[c].owner = intents[c].owner
    BY <1>0, <1>1, CycleIntents
  <2>2. Resolved(c) => Resolved(c)'
    BY <1>0, AuthorityStep DEF Resolved, Work
  <2> QED BY <1>1, <2>1, <2>2
<1>2. ASSUME NEW p \in Process, service'[p].pc \in BegunSteps => KeepsCycle(p)
      PROVE  Owns(p, service[p])'
  <2> SUFFICES ASSUME service'[p].pc \in BegunSteps
               PROVE  \/ intents'[service'[p].cycle].owner = OwnerOf[p]
                      \/ Resolved(service[p].cycle)'
    BY DEF Owns
  <2>1. service[p].pc \in BegunSteps /\ service'[p].cycle = service[p].cycle
    BY <1>2 DEF KeepsCycle
  <2>2. service[p].cycle \in Cycle
    BY <1>0, <2>1 DEF CallOK, BegunSteps
  <2>3. \/ intents'[service[p].cycle].owner = OwnerOf[p]
        \/ terminals'[service[p].cycle] # NoTerminal
    BY <1>0, <1>1, <2>1, <2>2 DEF Owns, Resolved
  <2> QED BY <2>1, <2>3 DEF Resolved
<1>3. ASSUME NEW p \in Process, RunOnce(p) \/ Environment(p)
      PROVE  CallsOwn'
  <2>1. CycleMove(p)
    BY <1>3, CycleMoves
  <2>2. ASSUME NEW q \in Process \ {p}
        PROVE  Owns(q, service[q])'
    BY <1>2, <2>1 DEF CycleMove, KeepsCycle
  <2> SUFFICES Owns(p, service[p])'
    BY <2>2 DEF CallsOwn
  <2>3. CASE service'[p].pc \notin BegunSteps
    BY <2>3 DEF Owns
  <2>4. CASE KeepsCycle(p)
    BY <1>2, <2>4
  <2>5. CASE Begins(p)
    <3>1. service[p].cycle \in Cycle /\ service[p].cycle \in Work
      BY <1>0, <2>5 DEF Begins, At, CallOK, Work
    <3>2. service'[p].cycle = service[p].cycle
      BY <2>5 DEF Begins
    <3>3. CASE BeginIntent(p, service[p].cycle, "cycle")
      <4>1. intents'[service[p].cycle].owner = OwnerOf[p]
        BY <3>1, <3>3 DEF BeginIntent, NewIntent, PaperInv, PaperTypeOK, AuthorityTypeOK
      <4> QED BY <3>2, <4>1 DEF Owns
    <3>4. CASE IntentReplayed(p, service[p].cycle, "cycle")
      <4>1. \/ intents'[service[p].cycle].owner = OwnerOf[p]
            \/ terminals'[service[p].cycle] # NoTerminal
        BY <1>1, <3>1, <3>4 DEF IntentReplayed, Resolved
      <4> QED BY <3>2, <4>1 DEF Owns, Resolved
    <3> QED BY <2>5, <3>3, <3>4 DEF Begins
  <2>6. service'[p].pc \in {"idle", "numbering"} \/ Draws(p) => service'[p].pc \notin BegunSteps
    BY DEF Draws, BegunSteps
  <2> QED BY <2>1, <2>3, <2>4, <2>5, <2>6 DEF CycleMove
<1>4. CASE PaperReboot
  <2>1. \A p \in Process : service'[p].pc = "idle"
    BY <1>4 DEF PaperReboot, NotRunning
  <2> QED BY <2>1 DEF CallsOwn, Owns, BegunSteps
<1>5. CASE PaperTick \/ UNCHANGED paperAllVars
  <2>1. UNCHANGED service
    BY <1>5 DEF PaperTick, paperAllVars, paperVars
  <2> QED BY <1>2, <2>1 DEF CallsOwn, KeepsCycle
<1> QED BY <1>3, <1>4, <1>5 DEF PaperNext

(* The fence of a call that is on time is valid whenever it is used, while *)
(* its cycle has no record.                                                *)
LEMMA OnTimeFence ==
    ASSUME Timely, PaperInv, CallsOnTime, CallsOwn, NEW p \in Process,
           service[p].pc \in BegunSteps, ~Resolved(service[p].cycle),
           NEW now \in Readings(p)
    PROVE  FenceValid(p, service[p].cycle, now)
<1>1. /\ Fenced(service[p].cycle, service[p].started + TTL)
      /\ clock.tick <= service[p].started + Deadline
  BY DEF CallsOnTime, OnTime
<1>2. /\ service[p].started \in Int /\ clock.tick \in Int
      /\ now \in Int /\ now <= clock.tick
  BY DEF Readings, PaperInv, PaperTypeOK, RunCall, TypeOK, OutboxTypeOK, LeaseTypeOK,
         Instant
<1>3. now < service[p].started + TTL
  BY <1>1, <1>2 DEF Timely
<1>4. intents[service[p].cycle].owner = OwnerOf[p]
  BY DEF CallsOwn, Owns
<1> QED BY <1>1, <1>3, <1>4 DEF Fenced, FenceValid

-----------------------------------------------------------------------------
(* A call without an answer of its source has no evidence. *)
NoAnswerYet ==
    \A p \in Process : service[p].pc \in EarlySteps => service[p].evidence = NoEvidence

(* No step gives it one. *)
LEMMA NoAnswerYetStep ==
    ASSUME PaperInv, NoAnswerYet, [PaperNext]_paperAllVars
    PROVE  NoAnswerYet'
<1>1. ASSUME NEW p \in Process, RunOnce(p) \/ Environment(p)
      PROVE  NoAnswerYet'
  <2>1. CycleMove(p)
    BY <1>1, CycleMoves
  <2>2. service'[p].pc \in EarlySteps => service'[p].evidence = NoEvidence
    BY <2>1 DEF CycleMove, AnswerMove, NoAnswerYet, LateSteps
  <2> QED BY <2>1, <2>2 DEF CycleMove, NoAnswerYet
<1>2. CASE PaperReboot
  BY <1>2 DEF PaperReboot, NotRunning, NoAnswerYet
<1>3. CASE PaperTick \/ UNCHANGED paperAllVars
  BY <1>3 DEF PaperTick, paperAllVars, paperVars, NoAnswerYet
<1> QED BY <1>1, <1>2, <1>3 DEF PaperNext

(* Process q is on cycle c and can record it. *)
Holds(q, c) == OnCycle(q, c) /\ ~EvidenceConflict(c, service[q].evidence)

(* Only the begin of a cycle makes its intent, and only a bind changes the *)
(* evidence of it.                                                         *)
LEMMA CycleRows ==
    ASSUME PaperInv, NEW p \in Process, RunOnce(p) \/ Environment(p), NEW c \in Cycle
    PROVE  \/ /\ BeginCycle(p) /\ service[p].cycle = c
              /\ intents'[c].evidence = NoEvidence
           \/ /\ Bind(p) /\ service[p].cycle = c
              /\ intents'[c].evidence = service[p].evidence
           \/ /\ Recorded(c)' => Recorded(c)
              /\ Recorded(c) => intents'[c].evidence = intents[c].evidence
<1> DEFINE Kept == /\ Recorded(c)' => Recorded(c)
                   /\ Recorded(c) => intents'[c].evidence = intents[c].evidence
<1>0. /\ intents \in [Work -> Intent \cup {NoIntent}]
      /\ c \in Work /\ \A a \in Attempt : a # c
      /\ \A i \in Cycle \cup Attempt : i \in Work
  BY DEF PaperInv, PaperTypeOK, AuthorityTypeOK, Work
<1>1. ASSUME intents'[c] = intents[c]
      PROVE  Kept
  BY <1>1 DEF Recorded
<1>2. StoreUnchanged \/ UNCHANGED authorityVars => Kept
  BY <1>1 DEF StoreUnchanged, authorityVars
<1>3. CASE ReadSequence(p) \/ BeginCycleConflict(p) \/ SourceTimesOut(p)
           \/ BindRefused(p) \/ ReserveRefused(p) \/ ReleaseRefused(p)
           \/ VerticalTimesOut(p) \/ AttemptCommitRefused(p)
           \/ VerifyReplay(p) \/ CommitCycleRefused(p)
  <2>1. StoreUnchanged
    BY <1>3, Zenon
    DEF ReadSequence, BeginCycleConflict, SourceTimesOut, BindRefused,
        ReserveRefused, ReleaseRefused, VerticalTimesOut, AttemptCommitRefused,
        VerifyReplay, CommitCycleRefused
  <2> QED BY <1>2, <2>1
<1>4. CASE Environment(p)
  <2>1. StoreUnchanged
    BY <1>4, Zenon DEF Environment, CheckRecovery, SourceReturns, SourceFails,
                       PrepareFails, VerticalRejects, VerticalReturns, ServiceStops
  <2> QED BY <1>2, <2>1
<1>5. ASSUME NEW i \in Work, NEW x, BeginIntent(p, i, x)
      PROVE  \/ i = c /\ intents'[c].evidence = NoEvidence
             \/ Kept
  <2>1. CASE i = c
    BY <1>0, <1>5, <2>1 DEF BeginIntent, NewIntent
  <2>2. CASE i # c
    BY <1>0, <1>1, <1>5, <2>2 DEF BeginIntent
  <2> QED BY <2>1, <2>2
<1>6. CASE BeginCycle(p)
  <2>1. service[p].cycle \in Cycle
    BY <1>6 DEF BeginCycle, At, PaperInv, CallsOK, CallOK
  <2>2. BeginIntent(p, service[p].cycle, "cycle") \/ UNCHANGED authorityVars
    BY <1>6 DEF BeginCycle
  <2> QED BY <1>0, <1>2, <1>5, <1>6, <2>1, <2>2
<1>7. CASE BeginAttempt(p)
  <2>1. Current(p) \in Attempt
    BY <1>7, CurrentIsAttempt DEF BeginAttempt, At, ItemSteps
  <2>2. \/ \E plan \in Plan : BeginIntent(p, Current(p), plan)
        \/ UNCHANGED authorityVars
    BY <1>7, Zenon DEF BeginAttempt
  <2> QED BY <1>0, <1>2, <1>5, <2>1, <2>2
<1>8. CASE Bind(p)
  <2>1. PICK d \in Cycle : d = service[p].cycle
    BY <1>8 DEF Bind, At, PaperInv, CallsOK, CallOK
  <2>2. PICK now : BindEvidence(p, d, now, service[p].evidence)
    BY <1>8, <2>1 DEF Bind
  <2>3. intents[d] \in Intent
    BY <1>0, <2>2 DEF BindEvidence, FenceValid, Recorded
  <2>4. PICK new \in Intent :
           /\ intents' = [intents EXCEPT ![d] = new]
           /\ new.owner = intents[d].owner /\ new.payload = intents[d].payload
           /\ new.boot = intents[d].boot /\ new.expires = intents[d].expires
           /\ new.evidence = service[p].evidence
    BY <2>2, <2>3, BoundIntent, Zenon
  <2>5. CASE d = c
    BY <1>0, <1>8, <2>1, <2>4, <2>5
  <2>6. CASE d # c
    BY <1>0, <1>1, <2>4, <2>6
  <2> QED BY <2>5, <2>6
<1>9. ASSUME NEW i \in Work, NEW now, NEW outcome, NEW reservation,
             RecordTerminal(p, i, now, outcome, reservation)
      PROVE  Kept
  <2>1. intents[i] \in Intent
    BY <1>0, <1>9 DEF RecordTerminal, FenceValid, Recorded
  <2>2. PICK new \in Intent : /\ intents' = [intents EXCEPT ![i] = new]
                              /\ new.evidence = intents[i].evidence
    BY <1>9, <2>1, RecordedIntent
  <2>3. CASE i = c
    <3>1. Recorded(c) /\ intents'[c].evidence = intents[c].evidence
      BY <1>0, <1>9, <2>2, <2>3 DEF RecordTerminal, FenceValid
    <3> QED BY <3>1
  <2>4. CASE i # c
    BY <1>0, <1>1, <2>2, <2>4
  <2> QED BY <2>3, <2>4
<1>10. CASE Reject(p) \/ CommitSuccess(p)
  <2>1. Current(p) \in Attempt
    BY <1>10, CurrentIsAttempt DEF Reject, CommitSuccess, At, ItemSteps
  <2> QED BY <1>0, <1>9, <1>10, <2>1
          DEF Reject, CommitSuccess, CommitAttemptTerminal, CommitPaperSuccess
<1>11. CASE CommitCycle(p)
  <2>1. service[p].cycle \in Cycle
    BY <1>11 DEF CommitCycle, At, PaperInv, CallsOK, CallOK
  <2> QED BY <1>0, <1>9, <1>11, <2>1 DEF CommitCycle, CommitCycleTerminal
<1>12. CASE Reserve(p) \/ ReleaseLease(p) \/ Release(p)
  <2>1. UNCHANGED authorityVars
    BY <1>12 DEF Reserve, ReleaseLease, Release
  <2> QED BY <1>2, <2>1
<1> QED BY <1>3, <1>4, <1>6, <1>7, <1>8, <1>10, <1>11, <1>12, Zenon DEF RunOnce

(* A step of a call leaves an open cycle in the hands of a call that can   *)
(* record it.  A call that is on time is refused for its evidence only,    *)
(* and then it is not the one that holds the cycle.                        *)
LEMMA OpenCyclesHeld ==
    ASSUME Timely, PaperInv, Shape, CallsOnTime, CallsOwn, NoAnswerYet,
           EndedCyclesAreRecorded,
           NEW p \in Process, RunOnce(p) \/ Environment(p),
           NEW c \in Cycle, Unresolved(c)', c \notin stopped'
    PROVE  \E q \in Process : Holds(q, c)'
<1>0. /\ CycleMove(p)
      /\ service[p].pc \in BegunSteps => KeepsCycle(p) \/ Ends(p)
      /\ UNCHANGED stopped \/ ServiceStops(p)
  BY CycleMoves
<1>1. c \notin stopped
  BY <1>0 DEF ServiceStops
<1>2. c \in Work /\ ~Resolved(c)
  BY AuthorityStep DEF Unresolved, Resolved, Work
<1>3. /\ \A q \in Process : Begun(q) <=> service[q].pc \in BegunSteps
      /\ \A q \in Process : service'[q].pc \in BegunSteps => Begun(q)'
  BY DEF Begun, BegunSteps, PaperInv, PaperTypeOK, RunCall
<1>4. CASE BeginCycle(p) /\ service[p].cycle = c /\ intents'[c].evidence = NoEvidence
  <2>1. service[p].pc = "beginning"
    BY <1>4 DEF BeginCycle, At
  <2>2. OnCycle(p, c)'
    <3>1. service'[p].pc = "sourcing" /\ service'[p].cycle = c
      BY <1>4 DEF BeginCycle, Goto, PaperInv, PaperTypeOK, RunCall
    <3> QED BY <3>1 DEF OnCycle, Begun
  <2> QED BY <1>4, <2>2 DEF Holds, EvidenceConflict
<1>5. CASE Bind(p) /\ service[p].cycle = c /\ intents'[c].evidence = service[p].evidence
  <2>1. service[p].pc = "binding" /\ "binding" \in BegunSteps /\ "binding" \notin EarlySteps
    BY <1>5 DEF Bind, At, BegunSteps, Step, EarlySteps
  <2>2. GoesOn(p)
    <3>1. {"reserving"} \subseteq LateSteps
      BY DEF LateSteps, EarlySteps, Step
    <3>2. (\E outcome : Report(p, outcome)) \/ (\E step \in LateSteps : Advance(p, step))
      BY <1>5, <3>1, Zenon DEF Bind
    <3> QED BY <2>1, <3>2, GoingOnKeepsCycle, Zenon
  <2>3. OnCycle(p, c)'
    BY <1>3, <1>5, <2>2 DEF GoesOn, KeepsCycle, OnCycle
  <2>4. service'[p].evidence = service[p].evidence
    BY <2>1, <2>2 DEF GoesOn, CycleMove, AnswerMove, KeepsCycle, BegunSteps
  <2> QED BY <1>5, <2>3, <2>4 DEF Holds, EvidenceConflict
<1>6. CASE /\ Recorded(c)' => Recorded(c)
           /\ Recorded(c) => intents'[c].evidence = intents[c].evidence
  <2>1. Recorded(c) /\ Recorded(c)' /\ intents'[c].evidence = intents[c].evidence
    BY <1>6 DEF Unresolved
  <2>2. PICK q \in Process : Holds(q, c)
    BY <1>1, <1>2, <2>1 DEF EndedCyclesAreRecorded, Unresolved, Holds
  <2>3. CASE q # p
    <3>1. service'[q] = service[q]
      BY <1>0, <2>3 DEF CycleMove
    <3> QED BY <2>1, <2>2, <3>1 DEF Holds, OnCycle, Begun, EvidenceConflict
  <2>4. CASE q = p /\ KeepsCycle(p)
    <3>1. OnCycle(p, c)'
      BY <1>3, <2>2, <2>4 DEF KeepsCycle, Holds, OnCycle
    <3>2. service'[p].evidence = service[p].evidence \/ service[p].evidence = NoEvidence
      BY <1>0, <2>4 DEF CycleMove, AnswerMove, KeepsCycle, BegunSteps, NoAnswerYet,
                        EarlySteps
    <3>3. intents[c].evidence \in {NoEvidence, service[p].evidence}
      BY <2>1, <2>2, <2>4 DEF Holds, EvidenceConflict
    <3>4. ~EvidenceConflict(c, service[p].evidence)'
      BY <2>1, <3>2, <3>3 DEF EvidenceConflict
    <3> QED BY <3>1, <3>4 DEF Holds
  <2>5. CASE q = p /\ Ends(p)
    <3>1. /\ service[p].cycle = c /\ service[p].pc \in BegunSteps
          /\ ~EvidenceConflict(c, service[p].evidence)
      BY <1>3, <2>2, <2>5 DEF Holds, OnCycle
    <3>2. ~BindRefused(p) /\ ~CommitCycleRefused(p)
      BY <1>2, <3>1, OnTimeFence DEF BindRefused, CommitCycleRefused
    <3>3. ~CommitCycle(p)
      <4>1. CommitCycle(p) => terminals'[c].outcome = service[p].report
        BY <1>2, <3>1 DEF CommitCycle, CommitCycleTerminal, RecordTerminal,
                          PaperInv, PaperTypeOK, AuthorityTypeOK
      <4>2. service[p].report # "none"
        BY DEF PaperInv, PaperTypeOK, RunCall, Outcome
      <4>3. terminals'[c].outcome = "none"
        BY DEF Unresolved, Resolved, NoTerminal
      <4> QED BY <4>1, <4>2, <4>3
    <3>4. ~ServiceStops(p)
      BY <2>2, <2>5 DEF ServiceStops, Holds
    <3> QED BY <2>5, <3>2, <3>3, <3>4 DEF Ends
  <2>6. q = p => KeepsCycle(p) \/ Ends(p)
    BY <1>0, <1>3, <2>2 DEF Holds, OnCycle
  <2> QED BY <2>3, <2>4, <2>5, <2>6
<1> QED BY <1>4, <1>5, <1>6, CycleRows

(* On a machine that keeps up with its timers, with a deadline below the   *)
(* lifetime of the intents, a cycle without a record is in the hands of a  *)
(* call that can record it, or one of its calls was stopped: also when     *)
(* several processes run one cycle and the answers of their sources        *)
(* differ.                                                                 *)
THEOREM EndedCyclesRecorded ==
    ASSUME Timely
    PROVE  PaperSpec => []EndedCyclesAreRecorded
<1> DEFINE EInv == PaperInv /\ CallsOnTime /\ CallsOwn /\ NoAnswerYet
                   /\ EndedCyclesAreRecorded
<1>1. PaperInit => EInv
  <2> SUFFICES ASSUME PaperInit
               PROVE  EInv
    OBVIOUS
  <2>1. \A p \in Process : service[p].pc = "idle" /\ service[p].evidence = NoEvidence
    BY DEF PaperInit, NotRunning
  <2>2. CallsOnTime /\ CallsOwn /\ NoAnswerYet
    BY <2>1 DEF CallsOnTime, OnTime, CallsOwn, Owns, BegunSteps, NoAnswerYet
  <2>3. \A c \in Cycle : ~Recorded(c)
    BY DEF PaperInit, AuthorityInit, Recorded, Work
  <2> QED BY <2>2, <2>3, PaperInitially DEF EndedCyclesAreRecorded, Unresolved
<1>2. EInv /\ [PaperNext]_paperAllVars => EInv'
  <2> SUFFICES ASSUME EInv, [PaperNext]_paperAllVars
               PROVE  EInv'
    OBVIOUS
  <2>1. PaperInv' /\ CallsOnTime' /\ CallsOwn' /\ NoAnswerYet' /\ Shape
    BY PaperInvStep, CallsOnTimeStep, CallsOwnStep, NoAnswerYetStep, PaperShape
  <2>2. ASSUME NEW p \in Process, RunOnce(p) \/ Environment(p)
        PROVE  EndedCyclesAreRecorded'
    <3>1. ASSUME NEW c \in Cycle, Unresolved(c)', c \notin stopped'
          PROVE  \E q \in Process : Holds(q, c)'
      BY <2>1, <2>2, <3>1, OpenCyclesHeld
    <3> QED BY <3>1 DEF EndedCyclesAreRecorded, Holds
  <2>3. CASE PaperReboot
    <3>1. /\ UNCHANGED <<intents, terminals>>
          /\ stopped' = stopped \cup {c \in Cycle : \E p \in Process : OnCycle(p, c)}
      BY <2>3 DEF PaperReboot, authorityVars
    <3>2. ASSUME NEW c \in Cycle, Unresolved(c)', c \notin stopped'
          PROVE  FALSE
      <4>1. Unresolved(c)
        BY <3>1, <3>2 DEF Unresolved, Recorded, Resolved
      <4>2. c \notin stopped
        BY <3>1, <3>2
      <4>3. c \notin {d \in Cycle : \E q \in Process : OnCycle(q, d)}
        BY <3>1, <3>2
      <4>4. ~\E q \in Process : OnCycle(q, c)
        BY <4>3, Zenon
      <4> QED BY <4>1, <4>2, <4>4 DEF EndedCyclesAreRecorded
    <3>3. EndedCyclesAreRecorded'
      BY <3>2 DEF EndedCyclesAreRecorded
    <3> QED BY <2>1, <3>3
  <2>4. CASE PaperTick \/ UNCHANGED paperAllVars
    <3>1. UNCHANGED <<intents, terminals, service, stopped>>
      BY <2>4 DEF PaperTick, paperAllVars, paperVars, authorityVars
    <3>2. ASSUME NEW c \in Cycle, Unresolved(c)', c \notin stopped'
          PROVE  \E q \in Process : Holds(q, c)'
      <4>1. Unresolved(c) /\ c \notin stopped
        BY <3>1, <3>2 DEF Unresolved, Recorded, Resolved
      <4>2. PICK q \in Process : Holds(q, c)
        BY <4>1 DEF EndedCyclesAreRecorded, Holds
      <4>3. OnCycle(q, c)'
        BY <3>1, <4>2 DEF Holds, OnCycle, Begun
      <4>4. ~EvidenceConflict(c, service[q].evidence)'
        BY <3>1, <4>2 DEF Holds, EvidenceConflict, Recorded
      <4>5. Holds(q, c)'
        BY <4>3, <4>4 DEF Holds
      <4> QED BY <4>5, Zenon
    <3>3. EndedCyclesAreRecorded'
      BY <3>2 DEF EndedCyclesAreRecorded, Holds
    <3> QED BY <2>1, <3>3
  <2> QED BY <2>1, <2>2, <2>3, <2>4 DEF PaperNext
<1> QED BY <1>1, <1>2, PTL DEF PaperSpec
=============================================================================
