------------------------------ MODULE Submission ------------------------------
(***************************************************************************)
(* The permit-bound submission service over the durable store              *)
(* (submission/durable.py, with the permits and senders of                 *)
(* submission/permit_bound.py).  submit() records the intent, consumes a   *)
(* permit of its process, posts the payload and records what the answer    *)
(* was; record_observation() records what a status poll saw.  Between two  *)
(* of these steps a call can be overtaken by other tasks and processes,    *)
(* lose its lease, or die with its process.                                *)
(*                                                                         *)
(* The store's own operations are those of DurableLifecycle.               *)
(***************************************************************************)
EXTENDS DurableLifecycle, Sequences

CONSTANTS
    Task,             \* coroutines that run submit or record_observation
    NoTask,           \* a task that is not in a call
    CallKey,          \* idempotency keys of submit, one per caller's intention
    StoreKey(_, _),   \* StoreKey(k, s): the key f"{k}:{s}" of the store
    EventKey(_, _),   \* EventKey(a, n): a key no other event was given
    PipelineTargets,  \* states reached by transition outside this service
    ReserveFlags,     \* create_attempt with a reservation or without
    MaxPermit         \* bound: permits issued

ASSUME SubmissionAssumption ==
    /\ \A k \in CallKey, s \in {"intent", "ack", "transport-error"} :
          StoreKey(k, s) \in Key
    /\ \A a \in Attempt, n \in 0..(MaxRevision + 1) : EventKey(a, n) \in Key
    /\ PipelineTargets \subseteq Targets
    /\ ReserveFlags \subseteq BOOLEAN
    /\ MaxPermit \in Nat

(* The store leaves the keys to its callers, and the service's targets are *)
(* among those it is asked for.                                            *)
ASSUME StoreServesSubmission ==
    /\ \A a \in Attempt, n \in 0..(MaxRevision + 1) : Key \subseteq KeysFor(a, n)
    /\ {"accepted", "submission_uncertain", "pending", "landed", "reconciling"}
           \subseteq Targets
    /\ FALSE \in ReleaseFlags

(* Only an intent has the key of an intent, nobody else uses the keys of   *)
(* this service, and only it records a landing.                            *)
ASSUME ServiceKeepsApart ==
    /\ \A k \in CallKey :
          /\ \A j \in CallKey, s \in {"ack", "transport-error"} :
                StoreKey(j, s) # StoreKey(k, "intent")
          /\ \A a \in Attempt, n \in 0..(MaxRevision + 1),
                s \in {"intent", "ack", "transport-error"} :
                EventKey(a, n) # StoreKey(k, s)
    /\ "landed" \notin PipelineTargets \cup InitialStates

VARIABLES
    permits,     \* permits[w]: permits LivePermitIssuer of process w issued
    consumed,    \* consumed[w]: permit ids it has consumed
    issued,      \* permits issued so far (uuid4 ids never repeat)
    tasks,       \* tasks[t]: the call t is in
    posts,       \* ghost: requests handed to the transport, in order
    chain        \* external: what became of a message on the chain

submissionVars == <<permits, consumed, issued, tasks, posts, chain>>
submissionAllVars == <<vars, submissionVars>>

-----------------------------------------------------------------------------
PermitId == 1..MaxPermit

(* The payload, its signatures and its digests stand and fall with the     *)
(* message they sign. *)
Permit == [id : PermitId, attempt : Attempt, message : Message]

Post == [attempt : Attempt, key : CallKey, permit : Permit]

SubmitCall == [pc : {"preparing", "awaiting"}, worker : Worker,
               attempt : Attempt, fence : 0..MaxFence,
               key : CallKey, permit : Permit]

(* A call about to write what it learned, at the revision it read. *)
WriteCall == [pc : {"recording"}, worker : Worker, attempt : Attempt,
              fence : 0..MaxFence, key : Key, target : ExecutionState,
              revision : Revision]

SubmissionTypeOK ==
    /\ TypeOK
    /\ permits \in [Worker -> SUBSET Permit]
    /\ consumed \in [Worker -> SUBSET PermitId]
    /\ issued \in 0..MaxPermit
    /\ tasks \in [Task -> SubmitCall \cup WriteCall \cup {NoTask}]
    /\ posts \in Seq(Post)
    /\ chain \in [Message -> {"unseen", "landed", "failed"}]

SubmissionInit ==
    /\ Init
    /\ permits = [w \in Worker |-> {}]
    /\ consumed = [w \in Worker |-> {}]
    /\ issued = 0
    /\ tasks = [t \in Task |-> NoTask]
    /\ posts = <<>>
    /\ chain = [m \in Message |-> "unseen"]

-----------------------------------------------------------------------------
(* IssuePermit with a bug: the counter is read before it is advanced. *)
IssuePermitOffByOne(w, a, m) ==
    /\ issued < MaxPermit
    /\ issued' = issued + 1
    /\ permits' = [permits EXCEPT ![w] =
           @ \cup {[id |-> issued, attempt |-> a, message |-> m]}]
    /\ UNCHANGED <<vars, consumed, tasks, posts, chain>>

(* LivePermitIssuer.issue: the request names an attempt and the message of *)
(* its exact simulation. *)
IssuePermit(w, a, m) ==
    /\ issued < MaxPermit
    /\ issued' = issued + 1
    /\ permits' = [permits EXCEPT ![w] =
           @ \cup {[id |-> issued + 1, attempt |-> a, message |-> m]}]
    /\ UNCHANGED <<vars, consumed, tasks, posts, chain>>

Calling(t, pc) == tasks[t] # NoTask /\ tasks[t].pc = pc

(* The token a call was given is still the newest its worker holds. *)
HoldsToken(c) == held[c.worker][c.attempt] = c.fence

(* SubmitIntent with a bug: the request leaves before its intent exists. *)
SubmitWithoutIntent(t, w, a, k, p) ==
    /\ tasks[t] = NoTask
    /\ p \in permits[w]
    /\ Exists(a)
    /\ VerifyLease(w, a)
    /\ tasks' = [tasks EXCEPT ![t] =
           [pc |-> "preparing", worker |-> w, attempt |-> a,
            fence |-> held[w][a], key |-> k, permit |-> p]]
    /\ UNCHANGED <<vars, permits, consumed, issued, posts, chain>>

(* submit: the permit binds the message (validate_permit_payload), then    *)
(* record_submission_intent commits the intent, or finds its key in the    *)
(* journal and returns the attempt as it is.                               *)
SubmitIntent(t, w, a, k, p) ==
    /\ tasks[t] = NoTask
    /\ p \in permits[w]
    /\ Exists(a)
    /\ \/ RecordSubmissionIntent(w, a, StoreKey(k, "intent"),
                                 attempts[a].revision, p.message)
       \/ /\ Replayed(a, StoreKey(k, "intent"))
          /\ VerifyLease(w, a)
          /\ UNCHANGED vars
    /\ tasks' = [tasks EXCEPT ![t] =
           [pc |-> "preparing", worker |-> w, attempt |-> a,
            fence |-> held[w][a], key |-> k, permit |-> p]]
    /\ UNCHANGED <<permits, consumed, issued, posts, chain>>

(* Consumable with a bug: consumed permits are not looked up. *)
ConsumableAgain(w, p) == p \in permits[w]

(* _prepare and _post: the issuer accepts a permit it issued and has not   *)
(* consumed, and the request leaves.                                       *)
Consumable(w, p) == p \in permits[w] /\ p.id \notin consumed[w]

Dispatch(t) ==
    LET c == tasks[t]
    IN  /\ Calling(t, "preparing")
        /\ Consumable(c.worker, c.permit)
        /\ consumed' = [consumed EXCEPT ![c.worker] = @ \cup {c.permit.id}]
        /\ posts' = Append(posts, [attempt |-> c.attempt, key |-> c.key,
                                   permit |-> c.permit])
        /\ tasks' = [tasks EXCEPT ![t] = [c EXCEPT !.pc = "awaiting"]]
        /\ UNCHANGED <<vars, permits, issued, chain>>

(* Recording with a bug: an acknowledgement is taken for an observation. *)
RecordingAsPending(c, suffix, target) ==
    [pc |-> "recording", worker |-> c.worker, attempt |-> c.attempt,
     fence |-> c.fence, key |-> StoreKey(c.key, suffix),
     target |-> IF target = "accepted" THEN "pending" ELSE target,
     revision |-> attempts[c.attempt].revision]

(* What the answer was is written in a later transaction: to ACCEPTED for  *)
(* the expected acknowledgement, to SUBMISSION_UNCERTAIN otherwise.        *)
Recording(c, suffix, target) ==
    [pc |-> "recording", worker |-> c.worker, attempt |-> c.attempt,
     fence |-> c.fence, key |-> StoreKey(c.key, suffix), target |-> target,
     revision |-> attempts[c.attempt].revision]

(* The permit was consumed before, or has expired by now: SubmissionError. *)
PermitRefused(t) ==
    /\ Calling(t, "preparing")
    /\ tasks' = [tasks EXCEPT ![t] =
           Recording(@, "transport-error", "submission_uncertain")]
    /\ UNCHANGED <<vars, permits, consumed, issued, posts, chain>>

(* The endpoint acknowledges. *)
Acknowledged(t) ==
    /\ Calling(t, "awaiting")
    /\ tasks' = [tasks EXCEPT ![t] = Recording(@, "ack", "accepted")]
    /\ UNCHANGED <<vars, permits, consumed, issued, posts, chain>>

(* Ambiguous with a bug: the wait has no timeout of its own. *)
AmbiguousOnAnswer(t) ==
    LET c == tasks[t]
    IN  /\ Calling(t, "awaiting")
        /\ chain[c.permit.message] # "unseen"
        /\ tasks' = [tasks EXCEPT ![t] =
               Recording(c, "transport-error", "submission_uncertain")]
        /\ UNCHANGED <<vars, permits, consumed, issued, posts, chain>>

(* The request times out, or is answered in any other way. *)
Ambiguous(t) ==
    /\ Calling(t, "awaiting")
    /\ tasks' = [tasks EXCEPT ![t] =
           Recording(@, "transport-error", "submission_uncertain")]
    /\ UNCHANGED <<vars, permits, consumed, issued, posts, chain>>

(* The coroutine is cancelled while it waits: nothing is written. *)
Cancelled(t) ==
    /\ Calling(t, "awaiting")
    /\ tasks' = [tasks EXCEPT ![t] = NoTask]
    /\ UNCHANGED <<vars, permits, consumed, issued, posts, chain>>

(* The transition that ends a call: made under the call's token at the     *)
(* revision it read, unless its key is already in the journal.             *)
RecordOutcome(t) ==
    LET c == tasks[t]
    IN  /\ Calling(t, "recording")
        /\ HoldsToken(c)
        /\ \/ Transition(c.worker, c.attempt, c.key, c.revision, c.target, FALSE)
           \/ /\ Replayed(c.attempt, c.key)
              /\ VerifyLease(c.worker, c.attempt)
              /\ UNCHANGED vars
        /\ tasks' = [tasks EXCEPT ![t] = NoTask]
        /\ UNCHANGED <<permits, consumed, issued, posts, chain>>

(* Or it raises: the lease is gone, the revision has moved, or the state   *)
(* machine does not allow the step any more.  The attempt stays as it is.  *)
CallRaises(t) ==
    LET c   == tasks[t]
        row == attempts[c.attempt]
    IN  /\ Calling(t, "recording")
        /\ \/ ~HoldsToken(c) \/ ~VerifyLease(c.worker, c.attempt)
           \/ /\ ~Replayed(c.attempt, c.key)
              /\ \/ c.revision # row.revision
                 \/ c.target \notin AllowedTransitions(row.state)
        /\ tasks' = [tasks EXCEPT ![t] = NoTask]
        /\ UNCHANGED <<vars, permits, consumed, issued, posts, chain>>

-----------------------------------------------------------------------------
(* What the signature and bundle classifiers make of a status answer, when *)
(* the provider answers truly and about this attempt's own message: a      *)
(* landing only of a message that landed, a failure only of one that       *)
(* failed, the other answers at any time.                                  *)
Observations(m) ==
    {"accepted", "unknown"}
        \cup (IF chain[m] = "unseen" THEN {"expired"} ELSE {chain[m]})

ObservationTarget(o) ==
    CASE o = "landed"   -> "landed"
      [] o = "accepted" -> "pending"
      [] OTHER          -> "reconciling"

(* RecordObservation with a bug: whatever is observed from ACCEPTED counts  *)
(* as a landing. *)
RecordAcknowledgedAsLanded(t, w, a, o) ==
    LET row   == attempts[a]
        next  == row.revision + 1
        first == row.state = "accepted"
    IN  /\ tasks[t] = NoTask
        /\ Exists(a) /\ row.message # NoMessage
        /\ o \in Observations(row.message)
        /\ next \in Revision
        /\ Transition(w, a, EventKey(a, next), row.revision,
                      IF first THEN "pending" ELSE ObservationTarget(o), FALSE)
        /\ tasks' = [tasks EXCEPT ![t] =
               IF first
               THEN [pc |-> "recording", worker |-> w, attempt |-> a,
                     fence |-> held[w][a], key |-> EventKey(a, next + 1),
                     target |-> "landed", revision |-> next]
               ELSE NoTask]
        /\ UNCHANGED <<permits, consumed, issued, posts, chain>>

(* record_observation at the revision its caller expects.  A landing seen  *)
(* from ACCEPTED is written in two transactions, the first to PENDING.     *)
RecordObservation(t, w, a, o) ==
    LET row   == attempts[a]
        next  == row.revision + 1
        first == o = "landed" /\ row.state = "accepted"
    IN  /\ tasks[t] = NoTask
        /\ Exists(a) /\ row.message # NoMessage
        /\ o \in Observations(row.message)
        /\ next \in Revision
        /\ Transition(w, a, EventKey(a, next), row.revision,
                      IF first THEN "pending" ELSE ObservationTarget(o), FALSE)
        /\ tasks' = [tasks EXCEPT ![t] =
               IF first
               THEN [pc |-> "recording", worker |-> w, attempt |-> a,
                     fence |-> held[w][a], key |-> EventKey(a, next + 1),
                     target |-> "landed", revision |-> next]
               ELSE NoTask]
        /\ UNCHANGED <<permits, consumed, issued, posts, chain>>

-----------------------------------------------------------------------------
(* A posted message lands or fails on the chain, once, at any later time. *)
ChainDecides(m, outcome) ==
    /\ \E i \in 1..Len(posts) : posts[i].permit.message = m
    /\ chain[m] = "unseen"
    /\ chain' = [chain EXCEPT ![m] = outcome]
    /\ UNCHANGED <<vars, permits, consumed, issued, tasks, posts>>

(* A process dies with its tokens, permits and calls; requests it handed   *)
(* over stay on their way.                                                 *)
ProcessCrash(w) ==
    /\ WorkerCrash(w)
    /\ permits' = [permits EXCEPT ![w] = {}]
    /\ consumed' = [consumed EXCEPT ![w] = {}]
    /\ tasks' = [t \in Task |->
           IF tasks[t] # NoTask /\ tasks[t].worker = w THEN NoTask ELSE tasks[t]]
    /\ UNCHANGED <<issued, posts, chain>>

MachineReboot ==
    /\ Reboot
    /\ permits' = [w \in Worker |-> {}]
    /\ consumed' = [w \in Worker |-> {}]
    /\ tasks' = [t \in Task |-> NoTask]
    /\ UNCHANGED <<issued, posts, chain>>

(* What the rest of the program does with attempts: create them, take them *)
(* through the states before submission, release their reservations.       *)
Pipeline ==
    \/ \E a \in Attempt, s \in InitialStates, reserve \in ReserveFlags :
          CreateAttempt(a, EventKey(a, 0), s, reserve)
    \/ \E w \in Worker, a \in Attempt :
          /\ Exists(a)
          /\ LET row  == attempts[a]
                 next == row.revision + 1
             IN  /\ next \in Revision
                 /\ \/ \E target \in PipelineTargets, release \in ReleaseFlags :
                          Transition(w, a, EventKey(a, next), row.revision,
                                     target, release)
                    \/ ReleaseAbandonedReservation(w, a, EventKey(a, next))
    \/ \E w \in Worker, a \in Attempt : AcquireAttemptLease(w, a)
    \/ OutboxStep /\ UNCHANGED lifecycleVars
    \/ TickStore

Service(t) ==
    \/ \E w \in Worker, a \in Attempt, k \in CallKey :
          \E p \in permits[w] : SubmitIntent(t, w, a, k, p)
    \/ Dispatch(t)
    \/ PermitRefused(t)
    \/ Acknowledged(t)
    \/ Ambiguous(t)
    \/ Cancelled(t)
    \/ RecordOutcome(t)
    \/ \E w \in Worker, a \in Attempt,
          o \in {"accepted", "unknown", "landed", "failed", "expired"} :
          RecordObservation(t, w, a, o)
    \/ CallRaises(t)

SubmissionNext ==
    \/ Pipeline /\ UNCHANGED submissionVars
    \/ \E w \in Worker, a \in Attempt, m \in Message : IssuePermit(w, a, m)
    \/ \E t \in Task : Service(t)
    \/ \E m \in Message, outcome \in {"landed", "failed"} : ChainDecides(m, outcome)
    \/ \E w \in Worker : ProcessCrash(w)
    \/ MachineReboot

SubmissionSpec == SubmissionInit /\ [][SubmissionNext]_submissionAllVars

(* What the event loop makes of a call without any help: asyncio.wait_for  *)
(* ends the wait for the endpoint, and the rest of the call does not wait. *)
CallStep(t) ==
    \/ Dispatch(t) \/ PermitRefused(t)
    \/ Ambiguous(t)
    \/ RecordOutcome(t) \/ CallRaises(t)

FairSubmissionSpec ==
    SubmissionSpec /\ \A t \in Task : WF_submissionAllVars(CallStep(t))
-----------------------------------------------------------------------------
PostRange == {posts[i] : i \in 1..Len(posts)}

(* Write-ahead intent: once a request for an attempt was handed to the     *)
(* transport, a restarted process is never told to resume or rebuild that  *)
(* attempt, wherever the crash fell.                                       *)
PostedAttemptsAreReconciled ==
    \A q \in PostRange :
        /\ Exists(q.attempt)
        /\ RecoveryAction(attempts[q.attempt].state)
               \notin {"resume_pre_submission", "rebuild"}

(* A permit pays for one request, in whatever tasks and after whatever     *)
(* restarts it turns up.                                                   *)
OnePostPerPermit ==
    \A i, j \in 1..Len(posts) : posts[i].permit.id = posts[j].permit.id => i = j

(* An acknowledgement is never turned into a landing: an attempt is landed *)
(* only when its message is on the chain.                                  *)
LandedIsOnChain ==
    \A a \in Attempt :
        Exists(a) /\ attempts[a].state = "landed" =>
            attempts[a].message # NoMessage /\ chain[attempts[a].message] = "landed"

(* Every call ends, whether its endpoint answers or not. *)
SubmitCallsEnd == \A t \in Task : tasks[t] # NoTask ~> tasks[t] = NoTask

(* A call that keeps its lease to the end does not leave the attempt with  *)
(* nothing but its intent: what became of the request is written down,     *)
(* whatever other calls did to the attempt meanwhile.                      *)
LeasedCallsLeaveTheIntent ==
    [][\A t \in Task :
          /\ Calling(t, "recording") /\ tasks'[t] = NoTask
          /\ HoldsToken(tasks[t]) /\ VerifyLease(tasks[t].worker, tasks[t].attempt)
          /\ UNCHANGED <<clock, held>>
          => attempts'[tasks[t].attempt].state
                 # "submission_intent_recorded"]_submissionAllVars

(* No double-submit path                                                   *)
(* (docs/architecture/pr045_permit_bound_submission.md): an attempt is     *)
(* handed to the transport once.                                           *)
OnePostPerAttempt ==
    \A i, j \in 1..Len(posts) : posts[i].attempt = posts[j].attempt => i = j

=============================================================================
