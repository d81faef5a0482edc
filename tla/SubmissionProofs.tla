--------------------------- MODULE SubmissionProofs ---------------------------
(***************************************************************************)
(* Theorems about the permit-bound submission service for every number of  *)
(* attempts, processes, tasks, messages and permits: it implements the     *)
(* store's specification, its calls and permits are well typed, a permit   *)
(* pays for one request, an attempt that was posted is never offered to    *)
(* recovery as if it had not been, a landing is on the chain, and a call   *)
(* that keeps its lease to the end leaves the attempt past its intent.     *)
(***************************************************************************)
EXTENDS Submission, DurableLifecycleProofs

USE LeaseAssumption, OutboxAssumption, LifecycleAssumption, NoAttemptIsNoRow,
    SubmissionAssumption, StoreServesSubmission, ServiceKeepsApart

(* The attempt is past the states it could be submitted from. *)
Closed(a) ==
    Exists(a) /\ attempts[a].state \in MayHaveSubmitted \cup TerminalStates

(* Its own message is on the chain. *)
OnChain(a) ==
    /\ Closed(a)
    /\ attempts[a].message # NoMessage /\ chain[attempts[a].message] = "landed"

IsIntentKey(k) == \E j \in CallKey : k = StoreKey(j, "intent")

IsOutcomeKey(k) ==
    \E j \in CallKey, s \in {"ack", "transport-error"} : k = StoreKey(j, s)

(* What a call writes when it knows what became of its request. *)
Answered == {"accepted", "submission_uncertain", "landed"}

(* It is past its intent: somebody wrote what became of a request.         *)
Left(a) ==
    Closed(a) /\ attempts[a].state # "submission_intent_recorded"

(* What is known of a call: its attempt has an intent; what it is about to *)
(* write is no intent, and a landing only if it is on the chain; and while *)
(* the attempt has nothing but its intent, it is at the revision the call  *)
(* has read.                                                               *)
TaskOK(c) ==
    /\ Closed(c.attempt)
    /\ c.pc = "recording" =>
          /\ ~IsIntentKey(c.key)
          /\ c.target \in Answered
          /\ c.target = "landed" => OnChain(c.attempt) /\ Left(c.attempt)
          /\ c.target # "landed" => IsOutcomeKey(c.key)
          /\ attempts[c.attempt].state = "submission_intent_recorded" =>
                c.revision = attempts[c.attempt].revision

TasksOK == \A t \in Task : tasks[t] # NoTask => TaskOK(tasks[t])

(* An event under an intent's key is an intent. *)
IntentKeysAreIntents ==
    \A e \in journal : IsIntentKey(e.key) => e.to = "submission_intent_recorded"

ServiceInv == SubmissionTypeOK /\ IntentInv /\ IntentKeysAreIntents /\ TasksOK

-----------------------------------------------------------------------------
(* A step of the store that writes attempt a, and event k if any. *)
Touches(a, k) ==
    /\ \A b \in Attempt \ {a} : attempts'[b] = attempts[b]
    /\ \A e \in journal' \ journal : e.key = k /\ e.to = attempts'[a].state
    /\ IsIntentKey(k) => attempts'[a].state = "submission_intent_recorded"
    /\ IsOutcomeKey(k) => attempts'[a].state \in Answered
    /\ attempts'[a].state = "landed" => OnChain(a)

(* What a step of the service does to the store. *)
StoreStep ==
    /\ [Next]_vars
    /\ UNCHANGED lifecycleVars \/ \E a \in Attempt, k \in Key : Touches(a, k)

(* The service's keys and targets are the store's. *)
LEMMA TransitionIsWrite ==
    ASSUME ServiceInv, NEW w \in Worker, NEW a \in Attempt, NEW k \in Key,
           NEW target \in Targets, NEW release \in ReleaseFlags,
           Transition(w, a, k, attempts[a].revision, target, release)
    PROVE  Next
<1>1. Exists(a) /\ attempts[a].revision + 1 \in Revision
      /\ target \in AllowedTransitions(attempts[a].state)
  BY DEF Transition, WriteUnderLease
<1>2. attempts[a].revision + 1 \in 0..(MaxRevision + 1)
  BY <1>1 DEF Revision
<1>3. k \in KeysFor(a, attempts[a].revision + 1)
  BY <1>2
<1> QED BY <1>1, <1>3 DEF Write, Next

(* A transition touches its attempt only. *)
LEMMA TransitionTouches ==
    ASSUME ServiceInv, NEW w \in Worker, NEW a \in Attempt, NEW k \in Key,
           NEW target \in Targets, NEW release, NEW revision,
           Transition(w, a, k, revision, target, release),
           ~IsIntentKey(k), IsOutcomeKey(k) => target \in Answered,
           target = "landed" => OnChain(a)
    PROVE  Touches(a, k)
<1>1. attempts \in [Attempt -> AttemptRow \cup {NoAttempt}] /\ attempts[a] \in AttemptRow
  BY DEF ServiceInv, SubmissionTypeOK, TypeOK, Transition, WriteUnderLease, Exists
<1>2. attempts'[a].state = target /\ \A b \in Attempt \ {a} : attempts'[b] = attempts[b]
  BY <1>1 DEF Transition, AttemptRow
<1>3. \A e \in journal' \ journal : e.key = k /\ e.to = target
  BY DEF Transition, AppendEvent
<1> QED BY <1>2, <1>3 DEF Touches

(* The keys of other events are not those of intents. *)
LEMMA EventKeys ==
    ASSUME NEW a \in Attempt, NEW n \in 0..(MaxRevision + 1)
    PROVE  /\ EventKey(a, n) \in Key
           /\ ~IsIntentKey(EventKey(a, n)) /\ ~IsOutcomeKey(EventKey(a, n))
BY DEF IsIntentKey, IsOutcomeKey

(* What the pipeline does to attempts are steps of the store. *)
LEMMA PipelineStep ==
    ASSUME ServiceInv, Pipeline
    PROVE  StoreStep
<1>0. \A a \in Attempt : attempts[a].revision + 1 \in Revision =>
          attempts[a].revision + 1 \in 0..(MaxRevision + 1)
  BY DEF Revision
<1>1. ASSUME NEW a \in Attempt, NEW s \in InitialStates, NEW reserve \in ReserveFlags,
             CreateAttempt(a, EventKey(a, 0), s, reserve)
      PROVE  StoreStep
  <2>1. 0 \in 0..(MaxRevision + 1)
    OBVIOUS
  <2>2. EventKey(a, 0) \in KeysFor(a, 0) /\ EventKey(a, 0) \in Key
        /\ ~IsIntentKey(EventKey(a, 0)) /\ ~IsOutcomeKey(EventKey(a, 0))
    BY <2>1, EventKeys
  <2>3. Next
    BY <1>1, <2>2 DEF Next
  <2>4. PICK x : Creates(a, EventKey(a, 0), s, x)
    BY <1>1, <2>2, CreateCreates
  <2>5. TypeOK
    BY DEF ServiceInv, SubmissionTypeOK
  <2>6. attempts'[a].state = s /\ \A b \in Attempt \ {a} : attempts'[b] = attempts[b]
    BY <2>4, <2>5, CreatedRow
  <2>7. \A e \in journal' \ journal : e.key = EventKey(a, 0) /\ e.to = s
    BY <2>4 DEF Creates, NewEvent
  <2>8. Touches(a, EventKey(a, 0))
    BY <2>2, <2>6, <2>7 DEF Touches
  <2> QED BY <2>2, <2>3, <2>8 DEF StoreStep
<1>2. ASSUME NEW w \in Worker, NEW a \in Attempt, NEW target \in PipelineTargets,
             NEW release \in ReleaseFlags, attempts[a].revision + 1 \in Revision,
             Transition(w, a, EventKey(a, attempts[a].revision + 1),
                        attempts[a].revision, target, release)
      PROVE  StoreStep
  <2>1. EventKey(a, attempts[a].revision + 1) \in Key
        /\ ~IsIntentKey(EventKey(a, attempts[a].revision + 1))
        /\ ~IsOutcomeKey(EventKey(a, attempts[a].revision + 1))
    BY <1>0, <1>2, EventKeys
  <2> QED BY <1>2, <2>1, TransitionIsWrite, TransitionTouches DEF StoreStep
<1>3. ASSUME NEW w \in Worker, NEW a \in Attempt,
             attempts[a].revision + 1 \in Revision,
             ReleaseAbandonedReservation(w, a, EventKey(a, attempts[a].revision + 1))
      PROVE  StoreStep
  <2> DEFINE k == EventKey(a, attempts[a].revision + 1)
  <2>1. /\ k \in Key /\ k \in KeysFor(a, attempts[a].revision + 1)
        /\ ~IsIntentKey(k) /\ ~IsOutcomeKey(k)
    BY <1>0, <1>3, EventKeys
  <2> HIDE DEF k
  <2>2. ReleaseAbandonedReservation(w, a, k)
    BY <1>3 DEF k
  <2>3. Write(w, a)
    BY <2>1, <2>2 DEF Write, ReleaseAbandonedReservation, WriteUnderLease
  <2>4. attempts \in [Attempt -> AttemptRow \cup {NoAttempt}]
        /\ attempts[a] \in AttemptRow
    BY <2>2 DEF ServiceInv, SubmissionTypeOK, TypeOK, ReleaseAbandonedReservation,
                WriteUnderLease, Exists
  <2>5. /\ attempts'[a].state = attempts[a].state
        /\ \A b \in Attempt \ {a} : attempts'[b] = attempts[b]
    BY <2>2, <2>4 DEF ReleaseAbandonedReservation, AttemptRow
  <2>6. \A e \in journal' \ journal : e.key = k /\ e.to = attempts[a].state
    BY <2>2 DEF ReleaseAbandonedReservation, AppendEvent
  <2>7. attempts[a].state # "landed"
    BY <2>2 DEF ReleaseAbandonedReservation, PreSubmission
  <2>8. Touches(a, k)
    BY <2>1, <2>5, <2>6, <2>7 DEF Touches
  <2> QED BY <2>1, <2>3, <2>8 DEF StoreStep, Next
<1>4. ASSUME NEW w \in Worker, NEW a \in Attempt, AcquireAttemptLease(w, a)
      PROVE  StoreStep
  BY <1>4 DEF StoreStep, Next, AcquireAttemptLease
<1>5. ASSUME OutboxStep, UNCHANGED lifecycleVars
      PROVE  StoreStep
  BY <1>5 DEF StoreStep, Next
<1>6. ASSUME TickStore
      PROVE  StoreStep
  BY <1>6 DEF StoreStep, Next, TickStore
<1> QED BY <1>1, <1>2, <1>3, <1>4, <1>5, <1>6 DEF Pipeline

(* A message that was observed landed is on the chain, and its attempt was *)
(* submitted.                                                              *)
LEMMA ObservedOnChain ==
    ASSUME ServiceInv, NEW t \in Task, NEW w \in Worker, NEW a \in Attempt,
           RecordObservation(t, w, a, "landed")
    PROVE  OnChain(a)
<1>1. Exists(a) /\ attempts[a].message # NoMessage
      /\ "landed" \in Observations(attempts[a].message)
  BY DEF RecordObservation
<1>2. chain[attempts[a].message] = "landed"
  BY <1>1 DEF Observations
<1>3. attempts[a].state \in MayHaveSubmitted \cup TerminalStates
  <2>1. CASE attempts[a].state = "accepted"
    BY <2>1 DEF MayHaveSubmitted
  <2>2. CASE attempts[a].state # "accepted"
    <3>1. "landed" \in AllowedTransitions(attempts[a].state)
      BY <2>2 DEF RecordObservation, Transition, ObservationTarget
    <3> QED BY <3>1 DEF AllowedTransitions, MayHaveSubmitted, TerminalStates
  <2> QED BY <2>1, <2>2
<1> QED BY <1>1, <1>2, <1>3 DEF OnChain, Closed

(* Every step of the service is a step of the store, or none. *)
LEMMA ServiceStoreStep ==
    ASSUME ServiceInv, [SubmissionNext]_submissionAllVars
    PROVE  StoreStep
<1>0. ASSUME UNCHANGED vars
      PROVE  StoreStep
  BY <1>0 DEF StoreStep, vars
<1>1. ASSUME NEW t \in Task, NEW w \in Worker, NEW a \in Attempt, NEW k \in CallKey,
             NEW p \in permits[w], SubmitIntent(t, w, a, k, p)
      PROVE  StoreStep
  <2>1. CASE UNCHANGED vars
    BY <1>0, <2>1
  <2>2. CASE RecordSubmissionIntent(w, a, StoreKey(k, "intent"),
                                    attempts[a].revision, p.message)
    <3> DEFINE key == StoreKey(k, "intent")
    <3>1. p.message \in Message /\ key \in Key /\ ~IsOutcomeKey(key)
      BY DEF ServiceInv, SubmissionTypeOK, Permit, IsOutcomeKey
    <3>2. Exists(a) /\ attempts[a].revision + 1 \in Revision
      BY <2>2 DEF RecordSubmissionIntent, WriteUnderLease
    <3>3. key \in KeysFor(a, attempts[a].revision + 1)
      BY <3>1, <3>2 DEF Revision
    <3>4. Write(w, a)
      BY <2>2, <3>1, <3>2, <3>3 DEF Write
    <3>5. attempts \in [Attempt -> AttemptRow \cup {NoAttempt}]
          /\ attempts[a] \in AttemptRow
      BY <3>2 DEF ServiceInv, SubmissionTypeOK, TypeOK, Exists
    <3>6. /\ attempts'[a].state = "submission_intent_recorded"
          /\ \A b \in Attempt \ {a} : attempts'[b] = attempts[b]
      BY <2>2, <3>5 DEF RecordSubmissionIntent, AttemptRow
    <3>7. \A e \in journal' \ journal :
             e.key = key /\ e.to = "submission_intent_recorded"
      BY <2>2 DEF RecordSubmissionIntent, AppendEvent
    <3>8. Touches(a, key)
      BY <3>1, <3>6, <3>7 DEF Touches
    <3> QED BY <3>1, <3>4, <3>8 DEF StoreStep, Next
  <2> QED BY <1>1, <2>1, <2>2 DEF SubmitIntent
<1>2. ASSUME NEW t \in Task, RecordOutcome(t)
      PROVE  StoreStep
  <2> DEFINE c == tasks[t]
  <2>1. CASE UNCHANGED vars
    BY <1>0, <2>1
  <2>2. CASE Transition(c.worker, c.attempt, c.key, c.revision, c.target, FALSE)
    <3>1. c # NoTask /\ c.pc = "recording" /\ TaskOK(c)
      BY <1>2 DEF RecordOutcome, Calling, ServiceInv, TasksOK
    <3>2. c \in WriteCall
      BY <3>1 DEF ServiceInv, SubmissionTypeOK, SubmitCall
    <3>3. c.worker \in Worker /\ c.attempt \in Attempt /\ c.key \in Key
          /\ c.revision = attempts[c.attempt].revision
      BY <2>2, <3>2 DEF WriteCall, Transition
    <3>4. /\ c.target \in Targets /\ c.target \in Answered
          /\ FALSE \in ReleaseFlags /\ ~IsIntentKey(c.key)
          /\ c.target = "landed" => OnChain(c.attempt)
      BY <3>1 DEF TaskOK, Answered
    <3> HIDE DEF c
    <3> QED BY <2>2, <3>3, <3>4, TransitionIsWrite, TransitionTouches DEF StoreStep
  <2> QED BY <1>2, <2>1, <2>2 DEF RecordOutcome
<1>3. ASSUME NEW t \in Task, NEW w \in Worker, NEW a \in Attempt,
             NEW o \in {"accepted", "unknown", "landed", "failed", "expired"},
             RecordObservation(t, w, a, o)
      PROVE  StoreStep
  <2> DEFINE next == attempts[a].revision + 1
             first == o = "landed" /\ attempts[a].state = "accepted"
             target == IF first THEN "pending" ELSE ObservationTarget(o)
  <2>1. Transition(w, a, EventKey(a, next), attempts[a].revision, target, FALSE)
        /\ next \in Revision /\ attempts[a].message # NoMessage
        /\ o \in Observations(attempts[a].message) /\ Exists(a)
    BY <1>3 DEF RecordObservation
  <2>2. /\ EventKey(a, next) \in Key
        /\ ~IsIntentKey(EventKey(a, next)) /\ ~IsOutcomeKey(EventKey(a, next))
    BY <2>1, EventKeys DEF Revision
  <2>3. target \in {"pending", "landed", "reconciling"} /\ FALSE \in ReleaseFlags
        /\ (target = "landed" => o = "landed")
    BY DEF ObservationTarget
  <2>4. target = "landed" => OnChain(a)
    BY <1>3, <2>3, ObservedOnChain DEF RecordObservation
  <2> HIDE DEF target, next
  <2> QED BY <2>1, <2>2, <2>3, <2>4, TransitionIsWrite, TransitionTouches DEF StoreStep
<1>4. ASSUME NEW t \in Task, Service(t)
      PROVE  StoreStep
  BY <1>0, <1>1, <1>2, <1>3, <1>4
  DEF Service, Dispatch, PermitRefused, Acknowledged, Ambiguous, Cancelled, CallRaises
<1>5. ASSUME NEW w \in Worker, ProcessCrash(w)
      PROVE  StoreStep
  BY <1>5 DEF ProcessCrash, WorkerCrash, StoreStep, Next
<1>6. ASSUME MachineReboot
      PROVE  StoreStep
  BY <1>6 DEF MachineReboot, Reboot, StoreStep, Next
<1> QED BY <1>0, <1>4, <1>5, <1>6, PipelineStep
        DEF SubmissionNext, submissionAllVars, IssuePermit, ChainDecides

-----------------------------------------------------------------------------
(* An attempt that was submitted stays so, with its message, and has its   *)
(* intent only as long as nothing is written.                              *)
LEMMA ClosedStays ==
    ASSUME ServiceInv, StoreStep, NEW a \in Attempt, Closed(a)
    PROVE  /\ attempts'[a] # NoAttempt
           /\ attempts'[a].state \in MayHaveSubmitted \cup TerminalStates
           /\ attempts'[a].message = attempts[a].message
           /\ attempts'[a].state = "submission_intent_recorded" =>
                 attempts'[a] = attempts[a]
<1>0. TypeOK /\ [Next]_vars
  BY DEF ServiceInv, SubmissionTypeOK, StoreStep
<1>1. ASSUME NEW b \in Attempt, NEW k, NEW s, NEW x, Creates(b, k, s, x)
      PROVE  attempts'[a] = attempts[a]
  <2>1. a # b
    BY <1>1 DEF Creates, Closed
  <2> QED BY <1>0, <1>1, <2>1, CreatedRow
<1>2. ASSUME NEW b \in Attempt, NEW row, NEW k, Advances(b, row, k)
      PROVE  /\ attempts'[a] # NoAttempt
             /\ attempts'[a].state \in MayHaveSubmitted \cup TerminalStates
             /\ attempts'[a].message = attempts[a].message
             /\ attempts'[a].state = "submission_intent_recorded" =>
                   attempts'[a] = attempts[a]
  <2>1. CASE a # b
    BY <1>0, <1>2, <2>1 DEF Advances, TypeOK, Closed, Exists
  <2>2. CASE a = b
    <3>1. attempts'[a] = row
      BY <1>0, <1>2, <2>2 DEF Advances, TypeOK
    <3>2. row.state \in AllowedTransitions(attempts[a].state)
      BY <1>2, <2>2, SubmittedIsClosed DEF Advances, Closed
    <3>3. row.message = attempts[a].message
      BY <1>2, <2>2, SubmittedIsClosed DEF Advances, Closed
    <3> QED BY <1>2, <3>1, <3>2, <3>3, SubmittedIsClosed DEF Advances, Closed
  <2> QED BY <2>1, <2>2
<1>3. CASE UNCHANGED lifecycleVars
  BY <1>3 DEF lifecycleVars, Closed, Exists
<1> QED BY <1>0, <1>1, <1>2, <1>3, StepShape DEF Closed, Exists

(* Nothing leads back to an intent. *)
LEMMA LeftStays ==
    ASSUME ServiceInv, StoreStep, NEW a \in Attempt, Left(a)
    PROVE  Left(a)'
BY ClosedStays DEF Left, Closed, Exists

(* What became of a message stays. *)
LEMMA ChainStays ==
    ASSUME ServiceInv, [SubmissionNext]_submissionAllVars
    PROVE  /\ chain' \in [Message -> {"unseen", "landed", "failed"}]
           /\ \A m \in Message : chain[m] = "landed" => chain'[m] = "landed"
<1>1. chain \in [Message -> {"unseen", "landed", "failed"}]
  BY DEF ServiceInv, SubmissionTypeOK
<1>2. ASSUME UNCHANGED chain
      PROVE  /\ chain' \in [Message -> {"unseen", "landed", "failed"}]
             /\ \A m \in Message : chain[m] = "landed" => chain'[m] = "landed"
  BY <1>1, <1>2
<1>3. ASSUME NEW m \in Message, NEW outcome \in {"landed", "failed"},
             ChainDecides(m, outcome)
      PROVE  /\ chain' \in [Message -> {"unseen", "landed", "failed"}]
             /\ \A n \in Message : chain[n] = "landed" => chain'[n] = "landed"
  BY <1>1, <1>3 DEF ChainDecides
<1>4. ASSUME NEW t \in Task, Service(t)
      PROVE  UNCHANGED chain
  BY <1>4, Zenon
  DEF Service, SubmitIntent, Dispatch, PermitRefused, Acknowledged, Ambiguous,
      Cancelled, RecordOutcome, RecordObservation, CallRaises
<1>5. ASSUME UNCHANGED submissionVars
      PROVE  UNCHANGED chain
  BY <1>5 DEF submissionVars
<1>6. ASSUME NEW w \in Worker, ProcessCrash(w)
      PROVE  UNCHANGED chain
  BY <1>6 DEF ProcessCrash
<1>7. ASSUME MachineReboot
      PROVE  UNCHANGED chain
  BY <1>7 DEF MachineReboot
<1> QED BY <1>2, <1>3, <1>4, <1>5, <1>6, <1>7, Zenon
        DEF SubmissionNext, submissionAllVars, IssuePermit

(* And so does what is on the chain of an attempt. *)
LEMMA OnChainStays ==
    ASSUME ServiceInv, [SubmissionNext]_submissionAllVars, NEW a \in Attempt,
           OnChain(a)
    PROVE  OnChain(a)'
<1>1. StoreStep
  BY ServiceStoreStep
<1>2. attempts[a].message \in Message
  BY DEF OnChain, Closed, Exists, ServiceInv, SubmissionTypeOK, TypeOK, AttemptRow
<1> QED BY <1>1, <1>2, ClosedStays, ChainStays DEF OnChain, Closed, Exists

(* What is known of a call is not taken away. *)
LEMMA TaskStays ==
    ASSUME ServiceInv, [SubmissionNext]_submissionAllVars,
           NEW c \in SubmitCall \cup WriteCall, TaskOK(c)
    PROVE  TaskOK(c)'
<1>1. c.attempt \in Attempt
  BY DEF SubmitCall, WriteCall
<1>2. Closed(c.attempt) => Closed(c.attempt)'
  BY <1>1, ServiceStoreStep, ClosedStays DEF Closed, Exists
<1>3. OnChain(c.attempt) => OnChain(c.attempt)'
  BY <1>1, OnChainStays
<1>4. Left(c.attempt) => Left(c.attempt)'
  BY <1>1, ServiceStoreStep, LeftStays
<1>5. attempts'[c.attempt].state = "submission_intent_recorded" =>
          attempts'[c.attempt] = attempts[c.attempt]
  BY <1>1, ServiceStoreStep, ClosedStays DEF TaskOK
<1> QED BY <1>2, <1>3, <1>4, <1>5 DEF TaskOK, IsIntentKey, IsOutcomeKey

(* Events are appended under the key of their writer. *)
LEMMA IntentKeysStep ==
    ASSUME ServiceInv, StoreStep
    PROVE  IntentKeysAreIntents'
<1>1. CASE UNCHANGED lifecycleVars
  BY <1>1 DEF lifecycleVars, IntentKeysAreIntents, ServiceInv, IsIntentKey
<1>2. ASSUME NEW a \in Attempt, NEW k \in Key, Touches(a, k)
      PROVE  IntentKeysAreIntents'
  BY <1>2 DEF Touches, IntentKeysAreIntents, ServiceInv, IsIntentKey
<1> QED BY <1>1, <1>2 DEF StoreStep

-----------------------------------------------------------------------------
(* What a step leaves of the calls. *)
TasksMove ==
    /\ tasks' \in [Task -> SubmitCall \cup WriteCall \cup {NoTask}]
    /\ TasksOK'

(* No call, or one of them is replaced by one that knows no more. *)
LEMMA TaskReplaced ==
    ASSUME ServiceInv, [SubmissionNext]_submissionAllVars, NEW t \in Task,
           NEW c \in SubmitCall \cup WriteCall \cup {NoTask},
           c # NoTask => TaskOK(c)', tasks' = [tasks EXCEPT ![t] = c]
    PROVE  TasksMove
<1>1. tasks \in [Task -> SubmitCall \cup WriteCall \cup {NoTask}]
  BY DEF ServiceInv, SubmissionTypeOK
<1>2. ASSUME NEW u \in Task, tasks'[u] # NoTask
      PROVE  TaskOK(tasks[u])'
  <2>1. CASE u = t
    <3>1. tasks'[u] = c
      BY <1>1, <2>1
    <3> QED BY <1>2, <3>1 DEF TaskOK
  <2>2. CASE u # t
    <3>1. tasks'[u] = tasks[u]
      BY <1>1, <2>2
    <3>2. PICK d \in SubmitCall \cup WriteCall : d = tasks[u] /\ TaskOK(d)
      BY <1>1, <1>2, <3>1 DEF ServiceInv, TasksOK
    <3>3. TaskOK(d)'
      BY <3>2, TaskStays
    <3> QED BY <3>1, <3>2, <3>3 DEF TaskOK
  <2> QED BY <2>1, <2>2
<1> QED BY <1>1, <1>2 DEF TasksMove, TasksOK

(* A call that is about to record its answer. *)
LEMMA RecordingMoves ==
    ASSUME ServiceInv, [SubmissionNext]_submissionAllVars, NEW t \in Task,
           Calling(t, "preparing") \/ Calling(t, "awaiting"),
           NEW suffix \in {"ack", "transport-error"},
           NEW target \in {"accepted", "submission_uncertain"}, UNCHANGED vars,
           tasks' = [tasks EXCEPT ![t] = Recording(tasks[t], suffix, target)]
    PROVE  TasksMove
<1> DEFINE c == tasks[t]
<1>1. c \in SubmitCall /\ Closed(c.attempt)
  <2>1. c \in SubmitCall \cup WriteCall /\ c.pc \in {"preparing", "awaiting"}
    BY DEF ServiceInv, SubmissionTypeOK, Calling
  <2>2. TaskOK(c)
    BY DEF ServiceInv, TasksOK, Calling
  <2> QED BY <2>1, <2>2 DEF WriteCall, TaskOK
<1> HIDE DEF c
<1>2. /\ c.worker \in Worker /\ c.attempt \in Attempt
      /\ c.fence \in 0..MaxFence /\ c.key \in CallKey
  BY <1>1 DEF SubmitCall
<1>3. attempts[c.attempt].revision \in Revision
  BY <1>1, <1>2 DEF Closed, Exists, ServiceInv, SubmissionTypeOK, TypeOK, AttemptRow
<1>4. /\ StoreKey(c.key, suffix) \in Key
      /\ ~IsIntentKey(StoreKey(c.key, suffix)) /\ IsOutcomeKey(StoreKey(c.key, suffix))
  BY <1>2 DEF IsIntentKey, IsOutcomeKey
<1>5. target \in ExecutionState
  BY DEF ExecutionState, MayHaveSubmitted
<1>6. Recording(c, suffix, target) \in WriteCall
  BY <1>2, <1>3, <1>4, <1>5 DEF Recording, WriteCall
<1>7. PICK r \in WriteCall : r = Recording(c, suffix, target)
  BY <1>6
<1>8. /\ r.pc = "recording" /\ r.key = StoreKey(c.key, suffix) /\ r.target = target
      /\ r.attempt = c.attempt /\ r.revision = attempts[c.attempt].revision
  BY <1>7 DEF Recording
<1>9. UNCHANGED attempts
  BY DEF vars, lifecycleVars
<1>10. TaskOK(r)'
  BY <1>1, <1>4, <1>8, <1>9
  DEF TaskOK, Closed, Exists, IsIntentKey, IsOutcomeKey, Answered
<1> QED BY <1>7, <1>10, TaskReplaced DEF c

(* Calls that go on as they are, or end. *)
LEMMA TasksKept ==
    ASSUME ServiceInv, [SubmissionNext]_submissionAllVars,
           tasks' \in [Task -> SubmitCall \cup WriteCall \cup {NoTask}],
           \A t \in Task : tasks'[t] = tasks[t] \/ tasks'[t] = NoTask
    PROVE  TasksMove
<1>1. ASSUME NEW t \in Task, tasks'[t] # NoTask
      PROVE  TaskOK(tasks[t])'
  <2>1. tasks'[t] = tasks[t] /\ tasks[t] # NoTask
    BY <1>1
  <2>2. PICK c \in SubmitCall \cup WriteCall : c = tasks[t] /\ TaskOK(c)
    BY <2>1 DEF ServiceInv, SubmissionTypeOK, TasksOK
  <2>3. TaskOK(c)'
    BY <2>2, TaskStays
  <2> QED BY <2>1, <2>2, <2>3 DEF TaskOK
<1> QED BY <1>1 DEF TasksMove, TasksOK

(* A call of submit starts only behind an intent. *)
LEMMA SubmitMoves ==
    ASSUME ServiceInv, [SubmissionNext]_submissionAllVars, NEW t \in Task,
           NEW w \in Worker, NEW a \in Attempt, NEW k \in CallKey,
           NEW p \in permits[w], SubmitIntent(t, w, a, k, p)
    PROVE  TasksMove
<1>1. p \in Permit /\ held[w][a] \in 0..MaxFence
  BY DEF ServiceInv, SubmissionTypeOK, TypeOK, OutboxTypeOK, LeaseTypeOK
<1>2. PICK c \in SubmitCall :
         c = [pc |-> "preparing", worker |-> w, attempt |-> a,
              fence |-> held[w][a], key |-> k, permit |-> p]
  BY <1>1 DEF SubmitCall
<1>3. Closed(a)'
  <2>1. CASE RecordSubmissionIntent(w, a, StoreKey(k, "intent"),
                                    attempts[a].revision, p.message)
    <3>1. /\ attempts \in [Attempt -> AttemptRow \cup {NoAttempt}]
          /\ attempts[a] \in AttemptRow /\ attempts[a].revision + 1 \in Revision
      BY <2>1 DEF ServiceInv, SubmissionTypeOK, TypeOK, RecordSubmissionIntent,
                  WriteUnderLease, Exists
    <3> DEFINE row == [attempts[a] EXCEPT !.state = "submission_intent_recorded",
                           !.revision = attempts[a].revision + 1, !.message = p.message]
    <3>2. attempts' = [attempts EXCEPT ![a] = row]
      BY <2>1 DEF RecordSubmissionIntent
    <3>3. p.message \in Message /\ "submission_intent_recorded" \in ExecutionState
      BY <1>1 DEF Permit, ExecutionState, MayHaveSubmitted
    <3>4. row \in AttemptRow /\ row.state = "submission_intent_recorded"
      BY <3>1, <3>3 DEF AttemptRow
    <3> HIDE DEF row
    <3>5. attempts'[a] = row /\ row # NoAttempt
      BY <3>1, <3>2, <3>4
    <3> QED BY <3>4, <3>5, SubmittedIsClosed DEF Closed, Exists
  <2>2. CASE Replayed(a, StoreKey(k, "intent")) /\ UNCHANGED vars
    <3>1. PICK e \in journal : e.key = StoreKey(k, "intent") /\ e.attempt = a
      BY <2>2 DEF Replayed
    <3>2. e.to = "submission_intent_recorded"
      BY <3>1 DEF ServiceInv, IntentKeysAreIntents, IsIntentKey
    <3>3. Closed(a)
      BY <3>1, <3>2 DEF ServiceInv, IntentInv, IntentsAreBehind, Closed
    <3> QED BY <2>2, <3>3 DEF Closed, Exists, vars, lifecycleVars
  <2> QED BY <2>1, <2>2 DEF SubmitIntent
<1>4. TaskOK(c)'
  <2>1. c.pc = "preparing" /\ c.attempt = a
    BY <1>2
  <2> QED BY <1>3, <2>1 DEF TaskOK, Closed, Exists
<1>5. tasks' = [tasks EXCEPT ![t] = c]
  BY <1>2 DEF SubmitIntent
<1> QED BY <1>4, <1>5, TaskReplaced

(* An observation leaves at most the second half of a landing to be        *)
(* written.                                                                *)
LEMMA ObservationMoves ==
    ASSUME ServiceInv, [SubmissionNext]_submissionAllVars, NEW t \in Task,
           NEW w \in Worker, NEW a \in Attempt,
           NEW o \in {"accepted", "unknown", "landed", "failed", "expired"},
           RecordObservation(t, w, a, o)
    PROVE  TasksMove
<1> DEFINE next == attempts[a].revision + 1
<1>1. CASE o = "landed" /\ attempts[a].state = "accepted"
  <2>1. next \in Revision /\ next + 1 \in 0..(MaxRevision + 1)
    BY DEF RecordObservation, Revision
  <2>2. EventKey(a, next + 1) \in Key /\ ~IsIntentKey(EventKey(a, next + 1))
    BY <2>1, EventKeys
  <2>3. held[w][a] \in 0..MaxFence /\ "landed" \in ExecutionState
    BY DEF ServiceInv, SubmissionTypeOK, TypeOK, OutboxTypeOK, LeaseTypeOK,
           ExecutionState, MayHaveSubmitted
  <2>4. tasks' = [tasks EXCEPT ![t] =
                    [pc |-> "recording", worker |-> w, attempt |-> a,
                     fence |-> held[w][a], key |-> EventKey(a, next + 1),
                     target |-> "landed", revision |-> next]]
    BY <1>1 DEF RecordObservation
  <2> HIDE DEF next
  <2>5. PICK c \in WriteCall :
           c = [pc |-> "recording", worker |-> w, attempt |-> a,
                fence |-> held[w][a], key |-> EventKey(a, next + 1),
                target |-> "landed", revision |-> next]
    BY <2>1, <2>2, <2>3 DEF WriteCall
  <2>6. OnChain(a)'
    BY <1>1, ObservedOnChain, OnChainStays
  <2>7. attempts'[a].state = "pending"
    <3>1. attempts \in [Attempt -> AttemptRow \cup {NoAttempt}]
          /\ attempts[a] \in AttemptRow
      BY DEF ServiceInv, SubmissionTypeOK, TypeOK, RecordObservation, Exists
    <3> QED BY <1>1, <3>1 DEF RecordObservation, Transition, AttemptRow
  <2>8. c.pc = "recording" /\ c.attempt = a /\ ~IsIntentKey(c.key)
        /\ c.target = "landed"
    BY <2>2, <2>5
  <2>9. TaskOK(c)'
    BY <2>6, <2>7, <2>8
    DEF TaskOK, IsIntentKey, OnChain, Left, Closed, Exists, Answered
  <2> QED BY <2>4, <2>5, <2>9, TaskReplaced
<1>2. CASE ~(o = "landed" /\ attempts[a].state = "accepted")
  <2>1. tasks' = [tasks EXCEPT ![t] = NoTask]
    BY <1>2 DEF RecordObservation
  <2> QED BY <2>1, TaskReplaced
<1> QED BY <1>1, <1>2

(* Every step keeps what is known of the calls. *)
LEMMA TasksStep ==
    ASSUME ServiceInv, [SubmissionNext]_submissionAllVars
    PROVE  TasksMove
<1>0. tasks \in [Task -> SubmitCall \cup WriteCall \cup {NoTask}]
  BY DEF ServiceInv, SubmissionTypeOK
<1>1. ASSUME NEW t \in Task, Dispatch(t)
      PROVE  TasksMove
  <2>1. tasks[t] \in SubmitCall \cup WriteCall /\ tasks[t].pc = "preparing"
        /\ TaskOK(tasks[t])
    BY <1>0, <1>1 DEF Dispatch, Calling, ServiceInv, TasksOK
  <2>2. PICK d \in SubmitCall : d = tasks[t] /\ TaskOK(d)'
    BY <2>1, TaskStays DEF WriteCall, TaskOK
  <2>3. PICK c \in SubmitCall : c = [d EXCEPT !.pc = "awaiting"]
    BY DEF SubmitCall
  <2>4. c.pc = "awaiting" /\ c.attempt = d.attempt /\ d.pc = "preparing"
    BY <2>1, <2>2, <2>3 DEF SubmitCall
  <2>5. TaskOK(c)'
    BY <2>2, <2>4 DEF TaskOK
  <2>6. tasks' = [tasks EXCEPT ![t] = c]
    BY <1>1, <2>2, <2>3 DEF Dispatch
  <2> QED BY <2>5, <2>6, TaskReplaced
<1>2. ASSUME NEW t \in Task, PermitRefused(t) \/ Acknowledged(t) \/ Ambiguous(t)
      PROVE  TasksMove
  BY <1>2, RecordingMoves DEF PermitRefused, Acknowledged, Ambiguous
<1>3. ASSUME NEW t \in Task, Cancelled(t) \/ RecordOutcome(t) \/ CallRaises(t)
      PROVE  TasksMove
  <2>1. tasks' = [tasks EXCEPT ![t] = NoTask]
    BY <1>3 DEF Cancelled, RecordOutcome, CallRaises
  <2> QED BY <2>1, TaskReplaced
<1>4. ASSUME NEW t \in Task, Service(t)
      PROVE  TasksMove
  BY <1>1, <1>2, <1>3, <1>4, SubmitMoves, ObservationMoves DEF Service
<1>5. ASSUME UNCHANGED tasks
      PROVE  TasksMove
  BY <1>0, <1>5, TasksKept
<1>6. ASSUME NEW w \in Worker, ProcessCrash(w)
      PROVE  TasksMove
  <2>1. tasks' = [t \in Task |->
           IF tasks[t] # NoTask /\ tasks[t].worker = w THEN NoTask ELSE tasks[t]]
    BY <1>6 DEF ProcessCrash
  <2>2. \A t \in Task : tasks'[t] = tasks[t] \/ tasks'[t] = NoTask
    BY <2>1
  <2>3. tasks' \in [Task -> SubmitCall \cup WriteCall \cup {NoTask}]
    BY <1>0, <2>1
  <2> QED BY <2>2, <2>3, TasksKept
<1>7. ASSUME MachineReboot
      PROVE  TasksMove
  BY <1>7, TasksKept DEF MachineReboot
<1> QED BY <1>4, <1>5, <1>6, <1>7
        DEF SubmissionNext, submissionAllVars, submissionVars, IssuePermit, ChainDecides

(* What permits and requests a step adds. *)
PermitsMove ==
    \/ UNCHANGED <<permits, consumed, issued, posts>>
    \/ \E w \in Worker, a \in Attempt, m \in Message : IssuePermit(w, a, m)
    \/ \E t \in Task : Dispatch(t) /\ tasks[t] \in SubmitCall /\ TaskOK(tasks[t])
    \/ \E w \in Worker :
          /\ permits' = [permits EXCEPT ![w] = {}]
          /\ consumed' = [consumed EXCEPT ![w] = {}]
          /\ UNCHANGED <<issued, posts>>
    \/ /\ permits' = [w \in Worker |-> {}]
       /\ consumed' = [w \in Worker |-> {}]
       /\ UNCHANGED <<issued, posts>>

(* Every step is one of these. *)
LEMMA PermitsShape ==
    ASSUME ServiceInv, [SubmissionNext]_submissionAllVars
    PROVE  PermitsMove
<1>1. ASSUME NEW t \in Task, Service(t)
      PROVE  UNCHANGED <<permits, consumed, issued, posts>> \/ Dispatch(t)
  <2>1. CASE \E w \in Worker, a \in Attempt, k \in CallKey :
                \E p \in permits[w] : SubmitIntent(t, w, a, k, p)
    BY <2>1 DEF SubmitIntent
  <2>2. CASE \E w \in Worker, a \in Attempt,
                o \in {"accepted", "unknown", "landed", "failed", "expired"} :
                RecordObservation(t, w, a, o)
    BY <2>2 DEF RecordObservation
  <2>3. CASE PermitRefused(t) \/ Acknowledged(t) \/ Ambiguous(t) \/ Cancelled(t)
    BY <2>3 DEF PermitRefused, Acknowledged, Ambiguous, Cancelled
  <2>4. CASE RecordOutcome(t) \/ CallRaises(t)
    BY <2>4 DEF RecordOutcome, CallRaises
  <2> QED BY <1>1, <2>1, <2>2, <2>3, <2>4 DEF Service
<1>2. ASSUME NEW t \in Task, Dispatch(t)
      PROVE  tasks[t] \in SubmitCall /\ TaskOK(tasks[t])
  <2>1. tasks[t] \in SubmitCall \cup WriteCall /\ tasks[t].pc = "preparing"
    BY <1>2 DEF Dispatch, Calling, ServiceInv, SubmissionTypeOK
  <2>2. TaskOK(tasks[t])
    BY <1>2 DEF Dispatch, Calling, ServiceInv, TasksOK
  <2> QED BY <2>1, <2>2 DEF WriteCall
<1>3. CASE \E t \in Task : Service(t)
  BY <1>1, <1>2, <1>3 DEF PermitsMove
<1>4. CASE \/ Pipeline /\ UNCHANGED submissionVars
           \/ \E m \in Message, outcome \in {"landed", "failed"} : ChainDecides(m, outcome)
           \/ UNCHANGED submissionAllVars
  <2>1. UNCHANGED <<permits, consumed, issued, posts>>
    BY <1>4 DEF ChainDecides, submissionVars, submissionAllVars
  <2> QED BY <2>1 DEF PermitsMove
<1>5. CASE \E w \in Worker : ProcessCrash(w)
  BY <1>5 DEF ProcessCrash, PermitsMove
<1>6. CASE MachineReboot
  BY <1>6 DEF MachineReboot, PermitsMove
<1>7. CASE \E w \in Worker, a \in Attempt, m \in Message : IssuePermit(w, a, m)
  BY <1>7 DEF PermitsMove
<1> QED BY <1>3, <1>4, <1>5, <1>6, <1>7 DEF SubmissionNext

(* Permits and requests keep their types. *)
LEMMA PermitTypesStep ==
    ASSUME SubmissionTypeOK, PermitsMove
    PROVE  /\ permits' \in [Worker -> SUBSET Permit]
           /\ consumed' \in [Worker -> SUBSET PermitId]
           /\ issued' \in 0..MaxPermit
           /\ posts' \in Seq(Post)
<1>0. /\ permits \in [Worker -> SUBSET Permit]
      /\ consumed \in [Worker -> SUBSET PermitId]
      /\ issued \in 0..MaxPermit
      /\ posts \in Seq(Post)
  BY DEF SubmissionTypeOK
<1>1. CASE UNCHANGED <<permits, consumed, issued, posts>>
  BY <1>0, <1>1
<1>2. ASSUME NEW w \in Worker, NEW a \in Attempt, NEW m \in Message,
             IssuePermit(w, a, m)
      PROVE  /\ permits' \in [Worker -> SUBSET Permit]
             /\ issued' \in 0..MaxPermit
  <2>1. issued + 1 \in PermitId /\ issued + 1 \in 0..MaxPermit
    BY <1>0, <1>2 DEF IssuePermit, PermitId
  <2>2. [id |-> issued + 1, attempt |-> a, message |-> m] \in Permit
    BY <2>1 DEF Permit
  <2> QED BY <1>0, <1>2, <2>1, <2>2 DEF IssuePermit
<1>3. ASSUME NEW t \in Task, Dispatch(t), tasks[t] \in SubmitCall
      PROVE  /\ consumed' \in [Worker -> SUBSET PermitId]
             /\ posts' \in Seq(Post)
  <2>1. PICK c \in SubmitCall : c = tasks[t]
    BY <1>3
  <2>2. /\ c.attempt \in Attempt /\ c.key \in CallKey
        /\ c.permit \in Permit /\ c.permit.id \in PermitId
    BY DEF SubmitCall, Permit
  <2>3. [attempt |-> c.attempt, key |-> c.key, permit |-> c.permit] \in Post
    BY <2>2 DEF Post
  <2>4. /\ consumed' = [consumed EXCEPT ![c.worker] = @ \cup {c.permit.id}]
        /\ posts' = Append(posts, [attempt |-> c.attempt, key |-> c.key,
                                   permit |-> c.permit])
    BY <1>3, <2>1 DEF Dispatch
  <2>5. consumed' \in [Worker -> SUBSET PermitId]
    BY <1>0, <2>2, <2>4
  <2>6. posts' \in Seq(Post)
    BY <1>0, <2>3, <2>4
  <2> QED BY <2>5, <2>6
<1> QED BY <1>0, <1>1, <1>2, <1>3 DEF PermitsMove, IssuePermit, Dispatch

(* Initially there are no calls, permits or requests. *)
LEMMA ServiceInitially == SubmissionInit => ServiceInv
<1> SUFFICES ASSUME SubmissionInit PROVE ServiceInv
  OBVIOUS
<1>1. TypeOK
  BY InitLifecycleTypes DEF SubmissionInit
<1>2. IntentInv /\ IntentKeysAreIntents
  BY <1>1 DEF SubmissionInit, Init, IntentInv, IntentsAreBehind,
              OneIntentPerMessageAndAttempt, IntentKeysAreIntents, Exists
<1>3. SubmissionTypeOK /\ TasksOK
  BY <1>1 DEF SubmissionInit, SubmissionTypeOK, TasksOK
<1> QED BY <1>2, <1>3 DEF ServiceInv

(* Every step keeps the types, and what is known of events and calls. *)
LEMMA ServiceInvStep ==
    ServiceInv /\ [SubmissionNext]_submissionAllVars => ServiceInv'
<1> SUFFICES ASSUME ServiceInv, [SubmissionNext]_submissionAllVars
             PROVE  ServiceInv'
  OBVIOUS
<1>1. StoreStep /\ TasksMove /\ PermitsMove
  BY ServiceStoreStep, TasksStep, PermitsShape
<1>2. IntentInv'
  BY <1>1, IntentStep DEF ServiceInv, StoreStep
<1>3. IntentKeysAreIntents'
  BY <1>1, IntentKeysStep
<1>4. SubmissionTypeOK'
  BY <1>1, <1>2, PermitTypesStep, ChainStays
  DEF ServiceInv, IntentInv, TasksMove, SubmissionTypeOK
<1> QED BY <1>1, <1>2, <1>3, <1>4 DEF ServiceInv, TasksMove

(* Permits, calls, requests and the store under them are well typed. *)
THEOREM SubmissionTypeCorrect == SubmissionSpec => []SubmissionTypeOK
<1>1. ServiceInv => SubmissionTypeOK
  BY DEF ServiceInv
<1> QED BY <1>1, ServiceInitially, ServiceInvStep, PTL DEF SubmissionSpec

(* The service with its tasks, permits and crashes is a user of the store: *)
(* what it does to the store the store's specification allows, and what is *)
(* proved of the store holds under it.                                     *)
THEOREM ServiceImplementsStore == SubmissionSpec => Spec
<1>1. SubmissionInit => Init
  BY DEF SubmissionInit
<1>2. ServiceInv /\ [SubmissionNext]_submissionAllVars => [Next]_vars
  BY ServiceStoreStep DEF StoreStep
<1> QED BY <1>1, <1>2, ServiceInitially, ServiceInvStep, PTL DEF SubmissionSpec, Spec

-----------------------------------------------------------------------------
(* A permit has one issuer, and once its request was posted it is consumed *)
(* there.                                                                  *)
PermitsAreSpent ==
    /\ \A w \in Worker : \A p \in permits[w] : p.id <= issued
    /\ \A v, w \in Worker : \A p \in permits[v], q \in permits[w] :
          p.id = q.id => v = w
    /\ \A i \in 1..Len(posts) :
          /\ posts[i].permit.id <= issued
          /\ \A w \in Worker : \A p \in permits[w] :
                p.id = posts[i].permit.id => p.id \in consumed[w]

PermitInv == SubmissionTypeOK /\ PermitsAreSpent /\ OnePostPerPermit

(* Issuing, consuming and losing permits keeps them spent once. *)
LEMMA PermitStep ==
    ASSUME PermitInv, PermitsMove
    PROVE  PermitsAreSpent' /\ OnePostPerPermit'
<1>0. /\ permits \in [Worker -> SUBSET Permit]
      /\ consumed \in [Worker -> SUBSET PermitId]
      /\ issued \in Nat /\ posts \in Seq(Post)
      /\ \A p \in Permit : p.id \in Nat
      /\ \A i \in 1..Len(posts) : posts[i] \in Post /\ posts[i].permit \in Permit
  <2>1. \A p \in Permit : p.id \in Nat
    BY DEF Permit, PermitId
  <2>2. /\ permits \in [Worker -> SUBSET Permit]
        /\ consumed \in [Worker -> SUBSET PermitId]
        /\ issued \in Nat /\ posts \in Seq(Post)
    BY DEF PermitInv, SubmissionTypeOK
  <2>3. \A q \in Post : q.permit \in Permit
    BY DEF Post
  <2>4. \A i \in 1..Len(posts) : posts[i] \in Post
    BY <2>2
  <2> QED BY <2>1, <2>2, <2>3, <2>4
<1>1. CASE UNCHANGED <<permits, consumed, issued, posts>>
  BY <1>1 DEF PermitInv, PermitsAreSpent, OnePostPerPermit
<1>2. ASSUME NEW w \in Worker, NEW a \in Attempt, NEW m \in Message,
             IssuePermit(w, a, m)
      PROVE  PermitsAreSpent' /\ OnePostPerPermit'
  <2> DEFINE new == [id |-> issued + 1, attempt |-> a, message |-> m]
  <2>1. /\ permits'[w] = permits[w] \cup {new}
        /\ \A v \in Worker \ {w} : permits'[v] = permits[v]
        /\ issued' = issued + 1 /\ UNCHANGED <<consumed, posts>>
    BY <1>0, <1>2 DEF IssuePermit
  <2>2. new.id = issued + 1
    OBVIOUS
  <2> HIDE DEF new
  <2>3. \A v \in Worker : \A p \in permits[v] : p.id \in Nat /\ p.id <= issued
    BY <1>0 DEF PermitInv, PermitsAreSpent
  <2>4. \A i \in 1..Len(posts) :
           posts[i].permit.id \in Nat /\ posts[i].permit.id <= issued
    BY <1>0 DEF PermitInv, PermitsAreSpent
  <2>5. \A v \in Worker : \A p \in permits'[v] : p \in permits[v] \/ (v = w /\ p = new)
    <3>1. ASSUME NEW v \in Worker, NEW p \in permits'[v]
          PROVE  p \in permits[v] \/ (v = w /\ p = new)
      <4>1. CASE v = w
        BY <2>1, <3>1, <4>1
      <4>2. CASE v # w
        BY <2>1, <3>1, <4>2
      <4> QED BY <4>1, <4>2
    <3> QED BY <3>1
  <2>6. \A v \in Worker : \A p \in permits'[v] : p.id <= issued'
    BY <1>0, <2>1, <2>2, <2>3, <2>5
  <2>7. ASSUME NEW v \in Worker, NEW u \in Worker, NEW p \in permits'[v],
               NEW q \in permits'[u], p.id = q.id
        PROVE  v = u
    <3>1. CASE p \in permits[v] /\ q \in permits[u]
      BY <2>7, <3>1 DEF PermitInv, PermitsAreSpent
    <3>2. CASE p \in permits[v] /\ u = w /\ q = new
      BY <1>0, <2>2, <2>3, <2>7, <3>2
    <3>3. CASE v = w /\ p = new /\ q \in permits[u]
      BY <1>0, <2>2, <2>3, <2>7, <3>3
    <3> QED BY <2>5, <3>1, <3>2, <3>3
  <2>8. ASSUME NEW i \in 1..Len(posts), NEW v \in Worker, NEW p \in permits'[v],
               p.id = posts[i].permit.id
        PROVE  p.id \in consumed[v]
    <3>1. CASE p \in permits[v]
      BY <2>8, <3>1 DEF PermitInv, PermitsAreSpent
    <3>2. CASE p = new
      BY <1>0, <2>2, <2>4, <2>8, <3>2
    <3> QED BY <2>5, <3>1, <3>2
  <2>9. PermitsAreSpent'
    BY <1>0, <2>1, <2>4, <2>6, <2>7, <2>8 DEF PermitsAreSpent
  <2> QED BY <2>1, <2>9 DEF PermitInv, OnePostPerPermit
<1>3. ASSUME NEW t \in Task, Dispatch(t), tasks[t] \in SubmitCall
      PROVE  PermitsAreSpent' /\ OnePostPerPermit'
  <2>1. PICK c \in SubmitCall : c = tasks[t]
    BY <1>3
  <2> DEFINE q == [attempt |-> c.attempt, key |-> c.key, permit |-> c.permit]
  <2>2. /\ c.permit \in permits[c.worker] /\ c.permit.id \notin consumed[c.worker]
        /\ consumed' = [consumed EXCEPT ![c.worker] = @ \cup {c.permit.id}]
        /\ posts' = Append(posts, q) /\ UNCHANGED <<permits, issued>>
    BY <1>3, <2>1 DEF Dispatch, Consumable
  <2>3. c.worker \in Worker /\ q.permit = c.permit /\ c.permit \in Permit
    BY DEF SubmitCall
  <2>4. q \in Post
    BY DEF SubmitCall, Post
  <2> HIDE DEF q
  <2>5. /\ Len(posts') = Len(posts) + 1 /\ Len(posts) \in Nat
        /\ posts'[Len(posts) + 1] = q
        /\ \A i \in 1..Len(posts) : posts'[i] = posts[i]
    BY <1>0, <2>2, <2>4
  <2>6. \A i \in 1..Len(posts) : posts[i].permit.id # c.permit.id
    BY <2>2, <2>3 DEF PermitInv, PermitsAreSpent
  <2>7. \A i \in 1..Len(posts') : i \in 1..Len(posts) \/ i = Len(posts) + 1
    BY <2>5
  <2>8. \A v \in Worker : consumed[v] \subseteq consumed'[v]
    BY <1>0, <2>2
  <2>9. c.permit.id \in consumed'[c.worker]
    BY <1>0, <2>2, <2>3
  <2>10. OnePostPerPermit'
    <3>1. ASSUME NEW i \in 1..Len(posts'), NEW j \in 1..Len(posts'),
                 posts'[i].permit.id = posts'[j].permit.id
          PROVE  i = j
      <4>1. CASE i \in 1..Len(posts) /\ j \in 1..Len(posts)
        BY <2>5, <3>1, <4>1 DEF PermitInv, OnePostPerPermit
      <4>2. CASE i \in 1..Len(posts) /\ j = Len(posts) + 1
        BY <2>3, <2>5, <2>6, <3>1, <4>2
      <4>3. CASE i = Len(posts) + 1 /\ j \in 1..Len(posts)
        BY <2>3, <2>5, <2>6, <3>1, <4>3
      <4> QED BY <2>7, <4>1, <4>2, <4>3
    <3> QED BY <3>1 DEF OnePostPerPermit
  <2>11. ASSUME NEW i \in 1..Len(posts')
         PROVE  /\ posts'[i].permit.id <= issued
                /\ \A w \in Worker : \A p \in permits[w] :
                      p.id = posts'[i].permit.id => p.id \in consumed'[w]
    <3>1. CASE i \in 1..Len(posts)
      BY <2>5, <2>8, <3>1 DEF PermitInv, PermitsAreSpent
    <3>2. CASE i = Len(posts) + 1
      <4>1. c.permit.id <= issued
        BY <2>2, <2>3 DEF PermitInv, PermitsAreSpent
      <4>2. \A w \in Worker : \A p \in permits[w] :
               p.id = c.permit.id => w = c.worker
        BY <2>2, <2>3 DEF PermitInv, PermitsAreSpent
      <4> QED BY <2>3, <2>5, <2>9, <3>2, <4>1, <4>2
    <3> QED BY <2>7, <3>1, <3>2
  <2>12. PermitsAreSpent'
    BY <2>2, <2>11 DEF PermitInv, PermitsAreSpent
  <2> QED BY <2>10, <2>12
<1>4. ASSUME NEW w \in Worker, permits' = [permits EXCEPT ![w] = {}],
             consumed' = [consumed EXCEPT ![w] = {}], UNCHANGED <<issued, posts>>
      PROVE  PermitsAreSpent' /\ OnePostPerPermit'
  <2>1. \A v \in Worker : permits'[v] \subseteq permits[v]
    BY <1>0, <1>4
  <2>2. \A v \in Worker : permits'[v] # {} => consumed'[v] = consumed[v]
    BY <1>0, <1>4
  <2>3. PermitsAreSpent'
    BY <1>4, <2>1, <2>2 DEF PermitInv, PermitsAreSpent
  <2> QED BY <1>4, <2>3 DEF PermitInv, OnePostPerPermit
<1>5. ASSUME permits' = [w \in Worker |-> {}], UNCHANGED <<issued, posts>>
      PROVE  PermitsAreSpent' /\ OnePostPerPermit'
  BY <1>5 DEF PermitInv, PermitsAreSpent, OnePostPerPermit
<1> QED BY <1>1, <1>2, <1>3, <1>4, <1>5 DEF PermitsMove

(* A permit pays for one request, whatever tasks, crashes and reboots it   *)
(* meets.                                                                  *)
THEOREM PermitsPostOnce == SubmissionSpec => []OnePostPerPermit
<1> DEFINE PInv == ServiceInv /\ PermitInv
<1>1. SubmissionInit => PInv
  <2> SUFFICES ASSUME SubmissionInit PROVE PInv
    OBVIOUS
  <2>1. ServiceInv
    BY ServiceInitially
  <2>2. posts = <<>> /\ \A w \in Worker : permits[w] = {}
    BY DEF SubmissionInit
  <2> QED BY <2>1, <2>2 DEF ServiceInv, PermitInv, PermitsAreSpent, OnePostPerPermit
<1>2. PInv /\ [SubmissionNext]_submissionAllVars => PInv'
  BY ServiceInvStep, PermitsShape, PermitStep DEF ServiceInv, PermitInv
<1>3. PInv => OnePostPerPermit
  BY DEF PermitInv
<1> QED BY <1>1, <1>2, <1>3, PTL DEF SubmissionSpec

-----------------------------------------------------------------------------
(* The attempts of all requests so far were submitted. *)
PostsClosed == \A i \in 1..Len(posts) : Closed(posts[i].attempt)

(* A request is for an attempt with an intent, and that stays. *)
LEMMA PostsClosedStep ==
    ASSUME ServiceInv, [SubmissionNext]_submissionAllVars, PostsClosed
    PROVE  PostsClosed'
<1>0. posts \in Seq(Post) /\ \A i \in 1..Len(posts) : posts[i].attempt \in Attempt
  <2>1. posts \in Seq(Post)
    BY DEF ServiceInv, SubmissionTypeOK
  <2>2. \A i \in 1..Len(posts) : posts[i] \in Post
    BY <2>1
  <2> QED BY <2>1, <2>2 DEF Post
<1>1. \A a \in Attempt : Closed(a) => Closed(a)'
  BY ServiceStoreStep, ClosedStays DEF Closed, Exists
<1>2. CASE UNCHANGED posts
  BY <1>0, <1>1, <1>2 DEF PostsClosed, Closed, Exists
<1>3. ASSUME NEW t \in Task, Dispatch(t), tasks[t] \in SubmitCall, TaskOK(tasks[t])
      PROVE  PostsClosed'
  <2>1. PICK c \in SubmitCall : c = tasks[t] /\ TaskOK(c)
    BY <1>3
  <2>2. c.attempt \in Attempt /\ Closed(c.attempt)
    BY <2>1 DEF SubmitCall, TaskOK
  <2>3. PICK q \in Post : q.attempt = c.attempt /\ posts' = Append(posts, q)
    <3> DEFINE q == [attempt |-> c.attempt, key |-> c.key, permit |-> c.permit]
    <3>1. q \in Post
      BY DEF SubmitCall, Post
    <3>2. posts' = Append(posts, q)
      BY <1>3, <2>1 DEF Dispatch
    <3> QED BY <3>1, <3>2
  <2>4. /\ Len(posts') = Len(posts) + 1 /\ posts'[Len(posts) + 1] = q
        /\ \A i \in 1..Len(posts) : posts'[i] = posts[i]
        /\ Len(posts) \in Nat
    BY <1>0, <2>3
  <2>5. ASSUME NEW i \in 1..Len(posts')
        PROVE  /\ posts'[i].attempt \in Attempt
               /\ Closed(posts'[i].attempt)
    <3>1. CASE i \in 1..Len(posts)
      BY <1>0, <2>4, <3>1 DEF PostsClosed
    <3>2. CASE i = Len(posts) + 1
      BY <2>2, <2>3, <2>4, <3>2
    <3> QED BY <2>4, <3>1, <3>2
  <2> QED BY <1>1, <2>5 DEF PostsClosed, Closed, Exists
<1>4. PermitsMove
  BY PermitsShape
<1> QED BY <1>2, <1>3, <1>4 DEF PermitsMove, IssuePermit

(* Write-ahead intent: an attempt a request was posted for is reconciled   *)
(* after a restart, never resumed or rebuilt.                              *)
THEOREM PostsReconciled == SubmissionSpec => []PostedAttemptsAreReconciled
<1> DEFINE PInv == ServiceInv /\ PostsClosed
<1>1. SubmissionInit => PInv
  <2> SUFFICES ASSUME SubmissionInit PROVE PInv
    OBVIOUS
  <2>1. posts = <<>>
    BY DEF SubmissionInit
  <2> QED BY <2>1, ServiceInitially DEF PostsClosed
<1>2. PInv /\ [SubmissionNext]_submissionAllVars => PInv'
  BY ServiceInvStep, PostsClosedStep
<1>3. PInv => PostedAttemptsAreReconciled
  BY SubmittedIsClosed DEF PostsClosed, Closed, PostRange, PostedAttemptsAreReconciled
<1> QED BY <1>1, <1>2, <1>3, PTL DEF SubmissionSpec

(* A landed attempt was on the chain before it was written so. *)
LEMMA LandedStep ==
    ASSUME ServiceInv, [SubmissionNext]_submissionAllVars, LandedIsOnChain
    PROVE  LandedIsOnChain'
<1>0. StoreStep
  BY ServiceStoreStep
<1>1. ASSUME NEW b \in Attempt, OnChain(b)
      PROVE  /\ attempts'[b].message # NoMessage
             /\ chain'[attempts'[b].message] = "landed"
  BY <1>1, OnChainStays DEF OnChain
<1>2. ASSUME NEW b \in Attempt, Exists(b), attempts[b].state = "landed"
      PROVE  OnChain(b)
  BY <1>2 DEF LandedIsOnChain, OnChain, Closed, MayHaveSubmitted
<1>3. CASE UNCHANGED lifecycleVars
  BY <1>1, <1>2, <1>3 DEF lifecycleVars, LandedIsOnChain, Exists
<1>4. ASSUME NEW a \in Attempt, NEW k \in Key, Touches(a, k)
      PROVE  LandedIsOnChain'
  <2>1. ASSUME NEW b \in Attempt, attempts'[b] # NoAttempt,
               attempts'[b].state = "landed"
        PROVE  OnChain(b)
    <3>1. CASE b = a
      BY <1>4, <2>1, <3>1 DEF Touches
    <3>2. CASE b # a
      BY <1>2, <1>4, <2>1, <3>2 DEF Touches, Exists
    <3> QED BY <3>1, <3>2
  <2> QED BY <1>1, <2>1 DEF LandedIsOnChain, Exists
<1> QED BY <1>0, <1>3, <1>4 DEF StoreStep

(* No acknowledgement becomes a landing: a landed attempt has its message  *)
(* on the chain, in every interleaving of calls, polls and crashes.        *)
THEOREM LandingsAreOnChain == SubmissionSpec => []LandedIsOnChain
<1> DEFINE LInv == ServiceInv /\ LandedIsOnChain
<1>1. SubmissionInit => LInv
  <2> SUFFICES ASSUME SubmissionInit PROVE LInv
    OBVIOUS
  <2>1. \A a \in Attempt : attempts[a] = NoAttempt
    BY DEF SubmissionInit, Init
  <2> QED BY <2>1, ServiceInitially DEF LandedIsOnChain, Exists
<1>2. LInv /\ [SubmissionNext]_submissionAllVars => LInv'
  BY ServiceInvStep, LandedStep
<1> QED BY <1>1, <1>2, PTL DEF SubmissionSpec

-----------------------------------------------------------------------------
(* Once the outcome of a request is in the journal of an attempt, the      *)
(* attempt is past its intent.                                             *)
OutcomesLeave == \A e \in journal : IsOutcomeKey(e.key) => Left(e.attempt)

(* A lease that has an owner was acquired. *)
LeasesAreAcquired ==
    \A r \in Resource : leases[r].owner \in Owner => leases[r].fence > 0

(* A new event tells the state its attempt is in. *)
LEMMA NewEventOfRow ==
    ASSUME TypeOK, [Next]_vars, NEW e \in journal' \ journal
    PROVE  /\ e.attempt \in Attempt /\ attempts'[e.attempt] # NoAttempt
           /\ e.to = attempts'[e.attempt].state
<1>1. ASSUME NEW a \in Attempt, NEW k, NEW s, NEW x, Creates(a, k, s, x)
      PROVE  /\ e.attempt = a /\ attempts'[a] # NoAttempt
             /\ e.to = attempts'[a].state
  <2>1. e = NewEvent(a, 0, k, "none", s)
    BY <1>1 DEF Creates
  <2>2. e.attempt = a /\ e.to = s
    BY <2>1 DEF NewEvent
  <2>3. attempts'[a].state = s /\ attempts'[a] \in AttemptRow
    BY <1>1, CreatedRow
  <2> QED BY <2>2, <2>3
<1>2. ASSUME NEW a \in Attempt, NEW row, NEW k, Advances(a, row, k)
      PROVE  /\ e.attempt = a /\ attempts'[a] # NoAttempt
             /\ e.to = attempts'[a].state
  <2>1. attempts'[a] = row
    BY <1>2 DEF Advances, TypeOK
  <2>2. e = NewEvent(a, row.revision, k, attempts[a].state, row.state)
    BY <1>2 DEF Advances
  <2> QED BY <1>2, <2>1, <2>2 DEF Advances, NewEvent
<1>3. UNCHANGED lifecycleVars => FALSE
  BY DEF lifecycleVars
<1> QED BY <1>1, <1>2, <1>3, StepShape

(* Outcomes are written to attempts that leave their intent by it. *)
LEMMA OutcomesLeaveStep ==
    ASSUME ServiceInv, StoreStep, OutcomesLeave
    PROVE  OutcomesLeave'
<1>0. TypeOK /\ [Next]_vars /\ \A e \in journal : e.attempt \in Attempt
  BY DEF ServiceInv, SubmissionTypeOK, TypeOK, StoreStep, Event
<1>1. ASSUME NEW e \in journal, IsOutcomeKey(e.key)
      PROVE  Left(e.attempt)'
  <2>1. PICK a \in Attempt : a = e.attempt /\ Left(a)
    BY <1>0, <1>1 DEF OutcomesLeave
  <2>2. Left(a)'
    BY <2>1, LeftStays
  <2> QED BY <2>1, <2>2
<1>2. ASSUME NEW e \in journal' \ journal, IsOutcomeKey(e.key)
      PROVE  Left(e.attempt)'
  <2>1. /\ e.attempt \in Attempt /\ attempts'[e.attempt] # NoAttempt
        /\ e.to = attempts'[e.attempt].state
    BY <1>0, NewEventOfRow
  <2>2. PICK a \in Attempt, k \in Key : Touches(a, k)
    BY <1>2 DEF StoreStep, lifecycleVars
  <2>3. e.to \in Answered
    BY <1>2, <2>2 DEF Touches
  <2> QED BY <2>1, <2>3 DEF Left, Closed, Exists, Answered, MayHaveSubmitted
<1> QED BY <1>1, <1>2 DEF OutcomesLeave, IsOutcomeKey

(* A call that raises under a valid lease finds that its outcome was       *)
(* written before, or the attempt past its intent.                         *)
LEMMA LeasedCallLeaves ==
    ASSUME ServiceInv, OutcomesLeave, NEW t \in Task, Calling(t, "recording"),
           RecordOutcome(t) \/ CallRaises(t),
           HoldsToken(tasks[t]), VerifyLease(tasks[t].worker, tasks[t].attempt)
    PROVE  attempts'[tasks[t].attempt].state # "submission_intent_recorded"
<1>1. PICK c \in WriteCall : c = tasks[t] /\ TaskOK(c) /\ c.pc = "recording"
  BY DEF Calling, ServiceInv, SubmissionTypeOK, TasksOK, SubmitCall
<1>2. /\ attempts \in [Attempt -> AttemptRow \cup {NoAttempt}]
      /\ c.attempt \in Attempt /\ attempts[c.attempt] \in AttemptRow
      /\ c.target \in Answered
  BY <1>1 DEF WriteCall, TaskOK, Closed, Exists, ServiceInv, SubmissionTypeOK, TypeOK
<1>3. CASE UNCHANGED attempts /\ Left(c.attempt)
  BY <1>1, <1>3 DEF Left
<1>4. c.target = "landed" => Left(c.attempt)
  BY <1>1 DEF TaskOK
<1>5. c.target # "landed" /\ Replayed(c.attempt, c.key) => Left(c.attempt)
  BY <1>1 DEF TaskOK, Replayed, OutcomesLeave
<1>6. CASE RecordOutcome(t)
  <2>1. CASE Transition(c.worker, c.attempt, c.key, c.revision, c.target, FALSE)
    <3>1. attempts'[c.attempt].state = c.target
      BY <1>2, <2>1 DEF Transition, AttemptRow
    <3> QED BY <1>1, <1>2, <3>1 DEF Answered
  <2>2. CASE Replayed(c.attempt, c.key) /\ UNCHANGED vars
    <3>1. UNCHANGED attempts
      BY <2>2 DEF vars, lifecycleVars
    <3> QED BY <1>3, <1>4, <1>5, <2>2, <3>1
  <2> QED BY <1>1, <1>6, <2>1, <2>2 DEF RecordOutcome
<1>7. CASE CallRaises(t)
  <2>1. UNCHANGED attempts
    BY <1>7 DEF CallRaises, vars, lifecycleVars
  <2>2. /\ ~Replayed(c.attempt, c.key)
        /\ \/ c.revision # attempts[c.attempt].revision
           \/ c.target \notin AllowedTransitions(attempts[c.attempt].state)
    BY <1>1, <1>7 DEF CallRaises
  <2>3. CASE c.target = "landed"
    BY <1>3, <1>4, <2>1, <2>3
  <2>4. CASE c.target # "landed"
    <3>1. SUFFICES attempts[c.attempt].state # "submission_intent_recorded"
      BY <1>1, <2>1
    <3>2. {"accepted", "submission_uncertain"}
              \subseteq AllowedTransitions("submission_intent_recorded")
      BY DEF AllowedTransitions
    <3> QED BY <1>1, <1>2, <2>2, <2>4, <3>2 DEF TaskOK, Answered
  <2> QED BY <2>3, <2>4
<1> QED BY <1>6, <1>7

(* The step that ends a call under a valid lease, without a restart, is    *)
(* the call's own.                                                         *)
LEMMA EndOfLeasedCall ==
    ASSUME ServiceInv, LeasesAreAcquired, [SubmissionNext]_submissionAllVars,
           NEW t \in Task, Calling(t, "recording"), tasks'[t] = NoTask,
           HoldsToken(tasks[t]), VerifyLease(tasks[t].worker, tasks[t].attempt),
           UNCHANGED <<clock, held>>
    PROVE  RecordOutcome(t) \/ CallRaises(t)
<1>0. /\ tasks[t] # NoTask /\ tasks[t] \in WriteCall
      /\ tasks \in [Task -> SubmitCall \cup WriteCall \cup {NoTask}]
  BY DEF Calling, ServiceInv, SubmissionTypeOK, SubmitCall
<1>1. ASSUME NEW u \in Task, Service(u), u # t
      PROVE  FALSE
  <2>1. PICK c : tasks' = [tasks EXCEPT ![u] = c]
    <3>1. CASE \E w \in Worker, a \in Attempt, k \in CallKey :
                  \E p \in permits[w] : SubmitIntent(u, w, a, k, p)
      BY <3>1 DEF SubmitIntent
    <3>2. CASE \E w \in Worker, a \in Attempt,
                  o \in {"accepted", "unknown", "landed", "failed", "expired"} :
                  RecordObservation(u, w, a, o)
      BY <3>2 DEF RecordObservation
    <3>3. CASE Dispatch(u) \/ PermitRefused(u) \/ Acknowledged(u) \/ Ambiguous(u)
      BY <3>3 DEF Dispatch, PermitRefused, Acknowledged, Ambiguous
    <3>4. CASE Cancelled(u) \/ RecordOutcome(u) \/ CallRaises(u)
      BY <3>4 DEF Cancelled, RecordOutcome, CallRaises
    <3> QED BY <1>1, <3>1, <3>2, <3>3, <3>4 DEF Service
  <2> QED BY <1>0, <1>1, <2>1
<1>2. ASSUME Service(t)
      PROVE  RecordOutcome(t) \/ CallRaises(t)
  BY <1>0, <1>2 DEF Service, SubmitIntent, RecordObservation, Dispatch, PermitRefused,
                    Acknowledged, Ambiguous, Cancelled, Calling
<1>3. ASSUME NEW w \in Worker, ProcessCrash(w)
      PROVE  FALSE
  <2>1. tasks[t].worker = w
    BY <1>0, <1>3 DEF ProcessCrash
  <2>2. tasks[t].attempt \in Resource /\ w \in Owner
    BY <1>0 DEF WriteCall
  <2>3. held[w][tasks[t].attempt] > 0
    BY <2>1, <2>2 DEF VerifyLease, LeasesAreAcquired
  <2>4. held'[w][tasks[t].attempt] = 0
    BY <1>3, <2>2 DEF ProcessCrash, WorkerCrash, ForgetTokens, ServiceInv,
                      SubmissionTypeOK, TypeOK, OutboxTypeOK, LeaseTypeOK
  <2> QED BY <2>3, <2>4
<1>4. ASSUME MachineReboot
      PROVE  FALSE
  <2>1. clock'.boot = clock.boot + 1 /\ clock.boot \in Int
    BY <1>4 DEF MachineReboot, Reboot, OutboxReboot, RebootClock, ServiceInv,
                SubmissionTypeOK, TypeOK, OutboxTypeOK, LeaseTypeOK, Instant
  <2> QED BY <2>1
<1>5. ASSUME UNCHANGED tasks
      PROVE  FALSE
  BY <1>0, <1>5
<1> QED BY <1>1, <1>2, <1>3, <1>4, <1>5
        DEF SubmissionNext, submissionAllVars, submissionVars, IssuePermit, ChainDecides

(* Leases are acquired with a larger fence. *)
LEMMA LeasesAcquiredStep ==
    ASSUME TypeOK, LeasesAreAcquired, [Next]_vars
    PROVE  LeasesAreAcquired'
<1>0. OutboxTypeOK /\ [OutboxNext]_outboxAllVars
  BY StepShape DEF TypeOK
<1>1. ASSUME NEW r \in Resource, leases'[r].owner \in Owner
      PROVE  leases'[r].fence > 0
  <2>1. leases[r].fence \in Nat
    BY <1>0 DEF OutboxTypeOK, LeaseTypeOK, LeaseRow
  <2>2. leases'[r] = leases[r] \/ leases'[r].fence = leases[r].fence + 1
    BY <1>0, LeaseRowSteps
  <2> QED BY <1>1, <2>1, <2>2 DEF LeasesAreAcquired
<1> QED BY <1>1 DEF LeasesAreAcquired

(* A call that keeps its lease to the end leaves the attempt with more     *)
(* than its intent, whatever other calls, polls and crashes did meanwhile. *)
THEOREM LeasedCallsLeave == SubmissionSpec => LeasedCallsLeaveTheIntent
<1> DEFINE LInv == ServiceInv /\ OutcomesLeave /\ LeasesAreAcquired
<1>1. SubmissionInit => LInv
  <2> SUFFICES ASSUME SubmissionInit PROVE LInv
    OBVIOUS
  <2>1. OutcomesLeave
    BY DEF SubmissionInit, Init, OutcomesLeave
  <2>2. LeasesAreAcquired
    BY DEF SubmissionInit, Init, OutboxInit, LeaseInit, NoLease, LeasesAreAcquired
  <2> QED BY <2>1, <2>2, ServiceInitially
<1>2. LInv /\ [SubmissionNext]_submissionAllVars => LInv'
  <2> SUFFICES ASSUME LInv, [SubmissionNext]_submissionAllVars PROVE LInv'
    OBVIOUS
  <2>1. StoreStep /\ TypeOK
    BY ServiceStoreStep DEF ServiceInv, SubmissionTypeOK
  <2> QED BY <2>1, ServiceInvStep, OutcomesLeaveStep, LeasesAcquiredStep DEF StoreStep
<1> DEFINE Leaves ==
      \A t \in Task :
          /\ Calling(t, "recording") /\ tasks'[t] = NoTask
          /\ HoldsToken(tasks[t]) /\ VerifyLease(tasks[t].worker, tasks[t].attempt)
          /\ UNCHANGED <<clock, held>>
          => attempts'[tasks[t].attempt].state # "submission_intent_recorded"
<1>3. LInv /\ [SubmissionNext]_submissionAllVars => [Leaves]_submissionAllVars
  BY EndOfLeasedCall, LeasedCallLeaves
<1> QED BY <1>1, <1>2, <1>3, PTL DEF SubmissionSpec, LeasedCallsLeaveTheIntent
=============================================================================
