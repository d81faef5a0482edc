# TLA+ models and proofs of the durable execution core

This directory specifies the parts of the repository that decide whether money
can be committed twice: the durable SQLite store of execution attempts, its
leases and outbox, the service that hands signed transactions to the network,
the capital coordinator, the paper service that runs on the unified authority,
and the plane that takes provider events in and hands them over.  TLC checks
the modules on small instances; TLAPS proves the central properties for every
value of the constants.

Sources are named below as they lie in the repository (`src/...` is the Python
package, `docs/...` the documentation; in `PROJECT.json` both are prefixed by
`src/`, the checkout).

## 1. The system

The program is a fail-closed Solana flash-loan arbitrage runtime.  Market data
becomes a candidate, a candidate a plan, a plan a compiled, simulated, approved
and signed transaction; live sending is denied by build policy.  Most of the
package is pure computation (quotes, routes, policies, evidence gates).  What
keeps state, and must keep it right through crashes, is this:

| component | state | operations | interacts with |
|---|---|---|---|
| leases and trusted time (`durability/trusted_time_store.py`, `time_authority.py`) | one row per resource: owner, fencing token, boot, deadline; the token in each process's memory | `acquire_lease`, `_verify_lease` | every leased write, `claim_outbox` |
| transactional outbox (`durability/lifecycle.py`, `trusted_time_store.py`) | rows with their claims, retention ledger | enqueue in `_event`, `claim_outbox`, `complete_outbox`, `purge_completed_outbox` | leases; publishers outside the store |
| execution state machine (`execution/state_machine.py`, `execution/models.py`) | none | allowed transitions, classes of states | lifecycle store |
| lifecycle store (`durability/lifecycle.py`) | attempts, reservations, hash-chained event journal | `create_attempt`, `transition`, `record_submission_intent`, `release_abandoned_reservation`, `scan_startup_recovery`, `integrity_check`, backup and restore | leases, outbox, all callers |
| permit-bound submission (`submission/durable.py`, `submission/permit_bound.py`) | issued and consumed permits of a process; calls in flight | `submit`, `record_observation`, issue and consume a permit, senders, status classifiers | lifecycle store, endpoints |
| capital coordinator (`economics/durable_reservations.py`, `paper_shadow/paper_outcome_pr187.py`) | none of its own: reservations, snapshots and outcomes in the store's database | `reserve`, `release_pre_submission_reservation`, `commit` of an outcome | lifecycle store |
| unified authority (`durability/unified_authority_pr02.py`, `paper_shadow/mpr2602_completion.py`) | intents with their fences, terminal records, evidence; the store's tables | begin an intent, bind evidence, commit a cycle's or an attempt's terminal, `recovery_summary` | lifecycle store, in one database |
| paper service (`paper_shadow/durable_service_a3.py`, `exact_attempt_pr152.py`, `a2_exact_attempt_runtime.py`) | the call of `run_once` in progress | a cycle: source, evidence, reserve, prepare, vertical, commit | unified authority, capital coordinator, sources |
| provider delivery, rooted recovery (`providers/helius/delivery.py`, `rooted_recovery.py`) | inbox, cursor and gap of each webhook, work rows with leases, handoffs, dead letters | `enqueue`; `run_once` = claim, gap, backfill, `close_gap`, verify, `commit_handoff` or `defer` | RPC ports, the A3 admission sink |
| sender admission (`submission/canonical_sender.py`, `lifecycle_integration.py`) | none | build the sender stack, admit an attempt | submission |
| later stores (`runtime_kernel_pr196`, `pr195_durable_lifecycle`, `pr206_durable_state`, `mpr19_economic_authority`) | parallel generations of the same state | | none of the above |
| provider governance, live canary, isolated signer | quotas, stages, signing sessions | | stores of their own |
| observability, audit anchor, release gates, research | append-only records, pure evidence evaluation | | read nothing back into the core |

What makes the core hard:

* Several processes on one host share the database.  Every operation is one
  transaction, but a *protocol* (take a lease, read, write, await an endpoint,
  write again) is many, and anything happens in between.  Several operations
  read the clock before they wait for the writer lock.
* Deadlines are monotonic times of one boot.  A lease or an intent can expire
  or be taken over while its holder works; after a reboot an old deadline means
  nothing.
* A publisher, a submission or a cycle may be repeated after a lost answer, by
  the same process or by its successor; deliveries repeat and arrive out of
  order.
* A process may die, or a coroutine be cancelled, between the recorded intent,
  the effect and the recorded outcome.
* Wallet balances are observed outside the store and used later.

What makes each component correct: only the newest lease writes an attempt;
attempt, journal, reservation copies and outbox never disagree; an undelivered
event is never lost; a message is the intent of one attempt; a possibly
broadcast attempt is never resumed or rebuilt; a permit pays for one request;
an acknowledgement is not a landing; a lamport is not promised twice; expensive
work runs once per attempt and its outcome is recorded once, truthfully; a
provider event is handed over once, and only after what came before it was
recovered.

## 2. The modules

```
Leases <-- DurableOutbox <-- DurableLifecycle <-- Submission
                |    ExecutionStates --^     <-- CapitalReservations
            (INSTANCE)                       <-- UnifiedAuthority <-- PaperService
             Delivery
                                             RootedRecovery (a database of its own)

DurableOutboxProofs <-- OutboxDeliveryProofs
        ^
DurableLifecycleProofs <-- SubmissionProofs | CapitalReservationsProofs | PaperServiceProofs
RootedRecoveryProofs <-- RootedCursorProofs
```

(an arrow points at the module that is extended; `MC*` modules instantiate;
`ExecutionStates` is extended by `DurableLifecycle`.)

**`Leases`.** `leases` joins `durable_leases` with its time-domain row, `held`
is the token each process keeps, `clock` the trusted clock (boot and
monotonic tick).  `AcquireLease` refuses another live owner and always takes a
larger fence, even for the same owner; `VerifyLease` asks for owner, exact
fence and a deadline of this boot.  `ForgetTokens` is a dying process,
`RebootClock` a restart of the machine.

**`DurableOutbox`.** `outbox`, `calls` (a `claim_outbox` in progress),
`handles` (the items a publisher was given), `ledger`.  `claim_outbox` is three
actions, `ClaimStart` (reads the clock), `ClaimLease` or `ClaimRefused`,
`ClaimRows` (claims by the first reading, topic lease not verified again),
because they are separate transactions.  `Complete` uses any earlier clock
reading, as the code reads the clock before it waits for the writer lock.
`IsNextId` is SQLite's choice of an `INTEGER PRIMARY KEY` without
`AUTOINCREMENT`: the id of a purged last row is given out again.
`PurgeCompleted` removes any set of completed rows, because completion times
are UTC and UTC may step.  Left out: payloads and `available_at_ns` (rows are
available at once).  `emitted`, `published` and `purged` are history.  The
specification `OutboxSpec` has an environment (`OutboxEnvironment`: commits of
events, leases of other resources, clock, crashes), so it is at once a
component and the abstract specification that the lifecycle store implements.

**`Delivery`.** What the outbox promises its users, without rows, leases or
fences: a committed event is delivered at least once and given up only after
that.  `ImplementsDelivery` maps `emitted`, `published` and the pending rows to
its three variables.

**`ExecutionStates`.** The state machine and the classes of states the store
decides by, `RecoveryAction` being `scan_startup_recovery`.

**`DurableLifecycle`.** `attempts`, `reservations` (kept apart from the copy in
the attempt, as in the schema), `journal`, and a history variable `writer`.
One action per operation; each contains the lease check, the idempotency key,
the revision check, the row, the reservation, the journal event and the outbox
row, since the code does all of it in one transaction.  A refused operation
rolls back and is no step; a repeated idempotency key changes nothing.  Hash
chain and payload digests are abstracted to the sequence and the linking of
events, which is what they protect.

**`Submission`.** `tasks` are the coroutines in `submit` or
`record_observation`, `permits`/`consumed` the memory of each process's
`LivePermitIssuer`, `chain` what became of a message (external), `posts` the
requests handed to the transport (history).  `submit` is `SubmitIntent`,
`Dispatch` or `PermitRefused`, then `Acknowledged`, `Ambiguous` or `Cancelled`,
and `RecordOutcome` or `CallRaises`; between any two of them other tasks act,
the lease may be lost, the process may die.  Payload, signatures and digests
are one with the message they sign.  `Pipeline` is everything else that writes
attempts.  A status answer is assumed to be true and about the attempt's own
message: the code takes the observation from its caller.  The assumption
`StoreServesSubmission` says that the store accepts the keys and targets of this
service, and `ServiceKeepsApart` that the keys made by `f"{key}:intent"`,
`f"{key}:ack"` and `f"{key}:transport-error"` are not those of other events and
that nothing but this service records a landing.

**`CapitalReservations`.** Over the store: `wallet` is the balance at each slot
(others move funds), `snapshots` the observation a process holds, `basis` the
snapshot in the creation event of an attempt.  `ReserveCapital` is `reserve`
under the writer lock with `_validate_snapshot`, the consistency check of the
active attempts, the subtraction and `create_attempt`.  `ReleaseStep` is the
fenced release, two transactions.  The outcome commit is `OutcomeStart`,
`OutcomeReservation`, `OutcomeAttempt`, `OutcomeRow`: the connection is in
autocommit mode, so each statement commits by itself.  `settled` is the time of
a settlement, `latest` history.  One native balance stands for the per-token
ledgers; `NeedOf` adds up what a set of attempts needs by counting their
`Lamports`.

**`UnifiedAuthority`.** `intents` and `terminals`, by cycle or attempt.
`BeginIntent`, `IntentReplayed` and `IntentConflict` are the three ends of
`_begin_intent`; `FenceValid` is `_verify_fence`, judged by a reading taken
before the transaction; `RecordTerminal` with `FinishAttempt` is the one
transaction that ends an attempt (terminal, intent, attempt row, event,
reservation).  An `AuthorityFence` never changes after it is issued and its
token and generation are constant, so a caller's fence is a copy of the row.
`evidence` of an intent is the hash `bind_provider_evidence` wrote;
`EvidenceConflict` is `PR02_PROVIDER_EVIDENCE_CONFLICT`, which refuses to bind
other evidence or to commit a cycle's record under it.

**`PaperService`.** `service` is the call of `run_once` of each process: one
action per transaction and per end of the two waits (batch source and vertical),
`since` the earliest clock reading a step may use, `started` where the cycle
deadline counts from.  All processes share one owner id (`LeaseOwner`), as the
installed composition configures them, so a release takes the token of whoever
had it.  `RunOnce` collects what the call does by itself, `Environment` what
sources, verticals, supervisors and operators do.  `Prompt` restricts the clock
to machines that run steps and timers that are due before time goes on; it is
FALSE where safety is checked, TRUE where the question is what a deadline
achieves.  `PaperKeys` names the three idempotency keys the service uses.
Each answer of a source has its `evidence`; a cycle without a batch is committed
under an evidence of its own (`SourceFailure`), which is not bound.  Two processes
that run one cycle may hold different evidence, and the one whose evidence is not
the bound one ends by an exception (`BindRefused`, `CommitCycleRefused`).
`VerifyReplay` chooses between success and indeterminate for a replayed item with
a committed success: `_verified_from_rows` compares its request and evidence,
which the model does not tell apart.  `EndCall` is a call that returns or raises,
`ServiceStops` and `PaperReboot` one that is stopped.  `verticals` and `stopped`
(the cycles with a stopped call) are history.

**`RootedRecovery`.** A delivery is one action (one transaction): new rows for
the events not in the inbox, and the cursor and gap their slots leave behind.
The code walks through the events, sorted by slot with those without one last;
`Contiguous(d, n)` says that the walk moves the cursor over the first `n` of
them, `CursorAfter(d, k)` where it then is, and the event after them, if it has
a slot, `Opens` the gap.  `calls` is a `run_once` in progress: `RunOnce` reads
the clock (once for the whole call), `ClaimNext`, `ReadGap`, `Recover` (the
backfill and `close_gap`'s own reading of the gap), `CloseGap`, `Handoff` or
`Defer`, each a transaction of its own; `FenceLost` is the call whose claim was
taken over. Events are named by their inbox dedup key, and the slot of an event
is fixed (`SlotOf`; `CanonicalOrder` sorts a delivery by it).  `TransactionOf` is
`InboxClaim.event_identity`, which several events may share.  Every rejection of
a backfill or of evidence is one outcome, `Defer`.  The field `unchecked` of an
inbox row is history: its slot was not compared with the cursor.

## 3. Properties and runs

| run | instance and bounds | distinct states | checks |
|---|---|---|---|
| `outbox` | the store with 2 attempts that are only created, 2 publishers of 1 topic, ids 1..2, TTL 2, ticks 0..3, 2 boots, 3 acquisitions | 909,736 | `OutboxTypeOK`, `EventsSurviveUntilPublished`, `LiveClaimsAreKept`, `ImplementsDelivery` |
| `lifecycle` | 1 attempt, 2 workers, 2 messages, all 24 states, TTL 1, 2 boots, 3 acquisitions, 12 revisions | 489,972 | `TypeOK`, `JournalReplaysState`, `ReservationCopiesAgree`, `OneIntentPerMessageAndAttempt`, `EveryEventIsEmitted`, `FencedWrites`, `IntentIsIrrevocable`, `OutboxSpec` |
| `submission` | 1 attempt, 2 processes, 2 tasks, 1 key, 2 permits, 2 boots | 754,128 | `SubmissionTypeOK`, `PostedAttemptsAreReconciled`, `OnePostPerPermit`, `LandedIsOnChain` |
| `submission_live` | 1 process, 2 tasks, 2 permits, weak fairness of `CallStep` | 129,582 | `SubmitCallsEnd`, `LeasedCallsLeaveTheIntent` |
| `paper_service` | 2 processes, 1 attempt, 2 plans, 2 cycles, intent lifetime 2, deadline 1, 2 answers and no answer, any clock | 583,317 | `PaperTypeOK`, `OneVerticalPerAttempt`, `AttemptsAgreeWithTerminals`, `SuccessIsVerified`, `JournalReplaysState`, `TerminalsAreFinal` |
| `paper_live` | 2 processes, 1 attempt, 1 plan, 2 cycles, 2 answers and no answer, 2 boots, lifetime 2, deadline 1, prompt clock, fairness | 432,142 | `EndedCyclesAreRecorded`, `CallsEnd` |
| `capital` | 2 processes, 2 attempts of need 1, balances 1 and 2, 2 slots, snapshot age 1 | 2.75 million | `CapitalTypeOK`, `WalletCoversReservations`, `SettledCapitalIsNotReused`, `OutcomesAreSettled` |
| `recovery` | 1 webhook, 2 deliveries of 2 events (slots 1, 3; 5, 5), 2 callers under one worker id, 2 boots, 2 attempts, 3 claims | 5.9 million | `RecoveryTypeOK`, `CheckedHandoffsFollowTheCursor`, `OneOutcomePerRow`, `AdmissionsMatchHandoffs`, `ClaimsAreExclusive` |

Outbox and store:

* `EventsSurviveUntilPublished`: at-least-once delivery.  A committed event was
  delivered or its row is still pending, whatever the crashes, late or repeated
  completions, purges and reused ids.  `ImplementsDelivery` says the same as a
  refinement, for every step.
* `LiveClaimsAreKept`: a row changes hands only when its claim has expired by
  the clock of that moment, although the claimer judges by an older reading.
* `JournalReplaysState`: `integrity_check` as an invariant.
* `EveryEventIsEmitted`, `ReservationCopiesAgree`: what is written twice agrees.
* `FencedWrites`: successive leases that write an attempt have growing fences.
* `OneIntentPerMessageAndAttempt`, `IntentIsIrrevocable`: no second trade.
* `OutboxSpec` as a property of the store: the store is an environment the
  outbox may have.

Submission: `PostedAttemptsAreReconciled` (the write-ahead intent survives every
crash point), `OnePostPerPermit`, `LandedIsOnChain` (an acknowledgement never
becomes a landing), `SubmitCallsEnd`, and `LeasedCallsLeaveTheIntent` (a call
that keeps its lease to the end leaves a trace of its request, even if the write
raises because another call was faster).

Capital: `WalletCoversReservations` (an older, richer snapshot gets nothing),
`SettledCapitalIsNotReused` (capital consumed after a snapshot still counts
against it), `OutcomesAreSettled` (an outcome row has a settled reservation
although its commit is not atomic).

Paper service: `OneVerticalPerAttempt` (an intent that is there already is no
permission to repeat effects), `TerminalsAreFinal`, `AttemptsAgreeWithTerminals`,
`SuccessIsVerified` (no cycle reports a success nobody committed),
`EndedCyclesAreRecorded` (a cycle that is open, and would keep the next one from
starting, is in the hands of a call that can still record it, unless one of its
calls was stopped), `CallsEnd`.

Rooted recovery: `CheckedHandoffsFollowTheCursor` (an event whose slot was
compared with the cursor is handed over only within its reach, whichever call
closes its gap and whatever other gap opens meanwhile), `OneOutcomePerRow`,
`AdmissionsMatchHandoffs`, `ClaimsAreExclusive` (two calls never both pass
`_assert_fence` for one row, even under one worker id).

**Why the bounds are enough.**  Two owners and three acquisitions give a stale
holder, a new holder and the stale holder's return; two boots give a deadline
of another time domain; two ids with two events give the reuse of an id.  The
`lifecycle` bound of revisions (12) is the longest path of the state machine
from `planned` with a release in it, and that of `submission` (10) the longest
one through its pipeline, so both are explored to their ends.  Two permits and
two tasks give a repeated `submit` and two overlapping ones.  Two processes, two
plans and two cycles give two processes on one cycle sequence, an attempt that
comes again with another plan, and a cycle after an unresolved one; two answers
give two calls of one cycle with evidence that conflicts, and no answer a third
evidence that is committed without being bound.  Batches of two attempts are in no
run (the states grow tenfold); the theorems about the paper service hold for
batches of any length.
Two slots, two balances and two attempts give a snapshot that is older and
richer, one that predates a settlement, and two capital needs that fit together
only in the larger balance.  Three slots with `MaxSlotGap` 1 give a gap inside a
delivery, one between deliveries, a delivery behind an open gap and a second gap
after the first is closed; two attempts and three claims give a retry, a dead
letter and a takeover.
`MaxTick`, `MaxBoot`, `MaxFence`, `MaxRow`, `MaxRevision`, `MaxPermit`,
`MaxCycle` and `MaxSlot` cut behaviours off and change nothing else; `CallFits`
starts a call of the paper service only while there is a cycle number for every
call that is drawing one and its deadline falls inside the bounded clock, so that
no call is left stuck at a bound;
`CHECK_DEADLOCK FALSE` is there because a model at its bounds, or a program
with nothing to do, stops.

The VIEWs of `submission` and `capital` hide the outbox, which no guard or
property of those runs depends on (no publisher runs there, and `MaxRow` is not
reached before `MaxRevision`), and `capital` the history variable `writer`;
that of `outbox` hides the attempts, which are determined by the events there;
that of `recovery` hides the gap a call read after it has stopped using it.
Keys are only compared, so `MCKeysFor` names the key of a new event after the
event.  Symmetry is used over interchangeable owners, processes, plans, tasks,
answers, events and callers, in runs without liveness.

In `lifecycle` there is one attempt, so the half of
`OneIntentPerMessageAndAttempt` about two attempts is not exercised by TLC; the
theorem `IntentUnique` covers it.  In `outbox` publishers run over the store,
but no worker writes after a creation; that every other write is one the outbox
allows is `OutboxSpec` in `lifecycle`, and for all constants `ImplementsOutbox`
together with `AtLeastOnce`.

**Fairness.**  `FairSubmissionSpec` assumes weak fairness of the steps a call
takes by itself: the event loop runs a coroutine that can go on, and
`asyncio.wait_for` ends the wait for the endpoint (`Ambiguous`), so no answer of
the endpoint is assumed.  `FairPaperSpec` assumes it of `RunOnce`, in which the
two timeouts are, and strong fairness of the clock: time goes on although the
`Prompt` clock waits, again and again, for the next step of some other call.
Sources, verticals and operators are never assumed to act.  Nothing else has
fairness: no code in the package drives `scan_startup_recovery`, `claim_outbox`,
the purge or the rooted recovery worker in a loop, so that recovery, delivery and
handoff *eventually* happen is not promised by it.

### Where the code and its documentation part

Each of these is a run TLC must find violated.

| run | property | what happens |
|---|---|---|
| `submission_replay` | `OnePostPerAttempt` | `submit` repeated with its key and a fresh permit posts again |
| `paper_deadline` | `EndedCyclesAreRecorded` | by default the cycle deadline equals the lifetime of the cycle's intent, and starts later: a cycle that times out can no longer commit its record, and the unresolved intent blocks every later cycle |
| `paper_release` | `OpenAttemptsKeepCapital` | a cycle that fails to prepare an attempt releases the reservation of the unresolved intent an earlier cycle left |
| `recovery_hidden_gap` | `HandoffsFollowTheCursor` | an event that arrives while a gap is open and jumps over further slots is handed over once the first gap is closed; the slots before it are never recovered and no second gap is recorded |

Further observations, for which there is no run because the property would only
restate a missing comparison, or would need an instance of its own:

* Two processes on one cycle with different evidence: the call whose evidence is
  not the bound one raises `PR02_PROVIDER_EVIDENCE_CONFLICT` and leaves the cycle
  open to the other (`unified_authority_pr02.py:703`, `:753`).  If that other
  process then dies, the cycle stays open although a healthy process ran it to its
  report, and blocks the service; this is why `EndedCyclesAreRecorded` excepts a
  cycle any of whose calls was stopped, not only the last one.
* An owner id that serves two topics (`trusted_time_store.py:351`): fencing
  tokens count per topic and SQLite gives the id of a purged last row out again,
  so the late completion of a purged row can complete an undelivered row of the
  other topic.  This is why `AtLeastOnce` assumes one topic per owner id.
* A reservation released before submission, after which the attempt is signed
  and submitted all the same (`lifecycle.py:1078`).
* `permit.attempt_id` is compared by the admission gate, not by `submit`
  (`submission/durable.py:55`); a replayed key is not compared with the recorded
  message (`lifecycle.py:964`).
* The ledger of purges uses `INSERT OR IGNORE` under reused ids
  (`lifecycle.py:1235`): the second purge of an id leaves no entry.
* The outcome commit of `paper_outcome_pr187.py:337` is not the one transaction
  its docs describe; what still holds of it is `OutcomesAreSettled`.
* Rooted recovery: `claim_next` never compares attempts with `max_attempts`
  (`rooted_recovery.py:386`), so a row whose calls die is retried without end;
  deferrals by an open gap count as attempts; evidence is judged expired by the
  clock reading of the call's beginning; `InboxClaim.event_identity` drops the
  event discriminator that the dedup key has, so the second event of a
  transaction is settled without an admission of its own; deadlines are raw
  monotonic times and lie ahead of the clock after a reboot.

## 4. What is proved

All for arbitrary sets of owners, resources, attempts, publishers, topics,
messages, keys, processes, plans, events and deliveries, and arbitrary bounds,
from the named assumptions on the constants (`LeaseAssumption`,
`OutboxAssumption`, `LifecycleAssumption`, `NoAttemptIsNoRow`,
`SubmissionAssumption`, `StoreServesSubmission`, `ServiceKeepsApart`,
`AuthorityAssumption`, `NoIntentIsNoRow`, `PaperAssumption`, `PaperKeys`,
`CapitalAssumption`, `RecoveryAssumption`), which TLC evaluates in every run
that uses the module.

* `DurableOutboxProofs`.  `OutboxTypeCorrect`; `LiveClaimsKept`.  The latter
  needs an invariant about calls in progress: a claiming call's clock reading
  is not later than the clock, in the boot in which it runs, so what was
  expired at the reading is expired now.
* `OutboxDeliveryProofs`.  `AtLeastOnce` and `DeliveryImplemented`, both under
  `OneTopicEach`.  The property alone is not inductive: a completion might hit a
  row other than the one delivered.  `DeliveryInv` strengthens it: ids are
  unique in the table; the fence of an item, and of a call in progress, is at
  most that of the topic's lease, and a call about to claim has a larger fence
  than every item of its publisher; and a row with an item's id, owner and
  fence carries the item's event.  Fences only grow (`FencesGrow`) and rows are
  claimed under new fences, which is what makes the reuse of ids harmless.
* `DurableLifecycleProofs`.  `TypeCorrect`; `ImplementsOutbox` (every step of
  the store is a step of `OutboxSpec` or a stutter, so the theorems above hold
  in the store); `JournalCorrect`, `EventsEmitted`, `CopiesAgree`,
  `IntentUnique`, `IntentIrrevocable`, `WritesAreFenced`.  `StepShape` reduces
  each step to one of three shapes, an attempt created, advanced by one
  revision under the lease, or untouched, and the invariants are shown for the
  shapes.
* `SubmissionProofs`.  `ServiceImplementsStore`: the service is a user of the
  store, so every theorem of the store holds under it.  `PermitsPostOnce` by
  `PermitInv`: a permit has one issuer, and once its request was posted it is
  consumed there.  `PostsReconciled` and `LandingsAreOnChain` by what a
  call in progress knows (`TaskOK`): its attempt has an intent and has left the
  states before submission for good, and a call about to write a landing has
  seen it on the chain.  `LeasedCallsLeave` needs more of it.  A call's write
  raises when another task wrote the attempt since it read the revision; that
  this task left the intent behind, rather than only moved it, is
  `LeftStays` and the part of `TaskOK` about revisions: an attempt that is at
  its intent still is at the revision the call read, so the call's own write
  succeeds.  A write whose key is in the journal already (`Replayed`) is covered
  by `OutcomesLeave`: an outcome key is in the journal only of an attempt past
  its intent, which is where the assumption on the keys is used.  `EndOfLeasedCall`
  shows that with the lease held and no reboot the step that ends a call is
  the call's own.
* `PaperServiceProofs`.  `PaperTypeCorrect`, `PaperTerminalsFinal`,
  `VerticalsOnce`, `AttemptsAgree`, `SuccessVerified`, `PaperJournalCorrect`.
  `PaperInv` adds to the types what each step of a call relies on (a cycle, an
  item, a row for it); `Shape` reduces the actions to what they do to intents,
  terminals and rows.  `PaperImplementsOutbox`: service and authority are an
  environment the outbox may have, although the authority writes attempts
  without the store's operations.  `EndedCyclesRecorded` is proved under
  `Timely`, for any number of processes on one cycle, whatever their sources
  answer and whoever they are: the machine runs steps and timers that are due
  before time goes on (`Prompt`), and the cycle deadline is below the lifetime of
  the intents.  Neither can be dropped (TLC refutes the property without it); the
  second is false in the default configuration, which is the finding of
  `paper_deadline`.  The property is not inductive alone; what it needs is
  `CallsOnTime` (a call that has begun its cycle is within its deadline, and the
  intent it works under, its own or one it replayed, expires `TTL` after the
  reading its deadline counts from, so the fence outlives every step of the call),
  `CallsOwn` (that intent is its process's, or the cycle has its record already)
  and `NoAnswerYet` (a call has no evidence before its source answers).
  `OpenCyclesHeld` then follows the evidence of an open cycle: nobody has bound
  any, and every call on the cycle can record it, or some call has, and it is still
  there or was stopped; what a conflict refuses is never the call that holds the
  cycle.
* `CapitalReservationsProofs`.  `CapitalTypeCorrect`, `OutcomesSettled`.
  `CapitalInv` says that the state a commit in progress settles is final: only
  an active reservation changes, so no other process takes the reservation away
  between two of its statements.  `WalletCovers` and `SettledCapitalCounts` by
  `LatestInv`: the snapshot granted last is of the newest slot, reservations of
  one slot have one balance, and the attempts that hold capital, or had it
  consumed at or after the capture of that snapshot, need no more than its
  balance.  A commit or a release only takes attempts out of that sum or leaves
  it as it is, and a new snapshot is admitted only after what was consumed
  before it has left.  Sums are cardinalities (`NeedOf`), so that the library's
  theorems on finite sets prove what a fold would need induction for.
  `CoordinatorImplementsOutbox`: the coordinator, its statements outside any
  transaction included, is an environment the outbox may have.
* `RootedRecoveryProofs`.  `RowsEndOnce`, `AdmittedOnce`, `FencesSeparateCalls`
  from `RecoveryInv`: the types, `ClaimsAreNumbered` (every call in progress has
  a fence no larger than its row's, and no two calls have the same fence of one
  row), `AdmissionsMatchHandoffs`, and the outcomes for every event, not only
  those in the inbox: a row that was handed over or is a dead letter is settled,
  so no call that is still under way passes its fence.
* `RootedCursorProofs`.  `RecoveryTypes`, and `CheckedHandoffs` from
  `CursorInv`.  A cursor only grows, and an open gap goes away only when the
  cursor has reached its end (`GapsMove`).  An event that was compared with the
  cursor is within its reach, or opened the gap that is open now; the latter
  comes within reach when that gap is closed.  A call that has read the gap
  and is about to close it knows that it is the gap of its event or that the
  event is within reach (`CallKnows`), whichever gap is open by then.  That a
  delivery leaves exactly one such event behind (`ContiguousEvents`) is shown for
  deliveries of any length.  Both modules rest on `CanonicalOrder`, which fixes the
  slot of each event (`SlotOf`): an event re-sent under the same dedup key with
  another slot, which the inbox reports as `CONFLICT`
  (`providers/helius/delivery.py:812-817`) after its slot has moved the cursor
  (`:759-775`), is excluded.  Such a delivery adds no row and only moves the
  cursor up or opens a gap.

Every safety invariant and every action property of the passing runs is a
theorem.  Only model-checked: liveness (`SubmitCallsEnd`, `CallsEnd`), out of
the prover's reach, as is ENABLED; and the four runs that end in a violation.

## 5. Not modelled

* Lifecycle store: `backup_to`/`restore_from`, schema migration and file
  hardening; `record_retention_eligibility` and the table of clock incidents,
  which no modelled operation reads; clock anomalies other than a reboot (the
  operation raises and changes nothing).
* Submission: expiry of permits by a clock (a permit may be refused at any time
  instead); validation of wires, tips and endpoints (pure); the admission gate.
* Unified authority: shadow work, its own dead letters, runtime incidents.
* Paper service: the content of quotes, candidates and reports, the shadow
  runner, the signal handling of the loop.
* Provider delivery: decoding and authentication of requests, representations
  and backfill jobs (written, read by nothing in the recovery), conflicting
  deliveries of one event with different slots (section 4), the other
  policies for failed transactions, rows without a payload;
  `rooted_ingestion_pr03.py`, a store of its own.
* Every component of section 1 that no module names: parallel generations of
  the durable state that the submission path does not use, provider governance,
  the isolated signer (mostly cryptographic checks), live canary and live
  control (quarantined), and the large pure part of the package (strategy,
  routing, quotes, evidence evaluation, release gates), which keeps no state and
  is far better tested than model-checked.

The map covers a small share of the package for that reason: most of its lines
are pure evaluators and parallel generations.  `PROJECT.json` gives the reason
for each component, and lists the hazards with the properties that cover them.

## 6. Plan

1. *Done*: leases, outbox and its refinement of `Delivery`, state machine,
   lifecycle store, submission with liveness, capital, unified authority and
   paper service, provider delivery and rooted recovery.
2. *Done*: the invariants and action properties of all passing runs, and the
   implementation of the outbox by every component that writes its database.
3. `StoreBackup`: backup and restore over `DurableLifecycle`; what a restore
   does to fences, intents and reservations.
4. The admission gate as a guard of `Submission`; provider governance
   (`ProviderSpendAuthority`: budgets, leases, breakers).
