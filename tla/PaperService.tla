----------------------------- MODULE PaperService -----------------------------
(***************************************************************************)
(* The installed sender-free paper service: run_once of                    *)
(* paper_shadow/durable_service_a3.py with the attempt orchestrator        *)
(* (exact_attempt_pr152.py), the cycle runtime (a2_exact_attempt_runtime)  *)
(* and the completion wrapper (mpr2602_completion.py) over one unified     *)
(* authority.  Several processes may run it on one database; each runs its *)
(* cycles one after the other (repeated_service_pr04.py).                  *)
(*                                                                         *)
(* A call of run_once awaits at two places, the batch source and the       *)
(* vertical (provider calls and simulation), both within one cycle         *)
(* deadline; everything else is a sequence of transactions, and any other  *)
(* process may run between two of them.  A call that raises leaves what it *)
(* has committed.                                                          *)
(***************************************************************************)
EXTENDS UnifiedAuthority, Sequences

CONSTANTS
    LeaseOwner,   \* the owner_id of every process's capital coordinator
    Batches,      \* batches of the source: sequences of attempts
    SourceFailure,  \* the evidence of a cycle whose source gave no batch
    Deadline,     \* cycle_deadline_seconds, in ticks
    Prompt        \* BOOLEAN: the clock waits for steps and timers that are due

ASSUME PaperAssumption ==
    /\ Batches \subseteq Seq(Attempt)
    /\ SourceFailure \in Evidence
    /\ Deadline \in Nat \ {0}
    /\ Prompt \in BOOLEAN
    /\ NoAttempt \notin Attempt
    /\ LeaseOwner \in Worker

(* The service is one of the callers the store expects.                    *)
ASSUME PaperKeys ==
    /\ "planned" \in InitialStates
    /\ \A a \in Attempt, n \in 0..(MaxRevision + 1) :
          {<<a, "reserve">>, <<a, "release">>, <<a, "terminal">>} \subseteq KeysFor(a, n)

VARIABLES
    service,      \* service[p]: the call of run_once in progress
    verticals,    \* ghost: how often the vertical of each attempt was run
    stopped       \* ghost: cycles with a call that did not end by itself

paperVars == <<service, verticals, stopped>>
paperAllVars == <<vars, authorityVars, paperVars>>

-----------------------------------------------------------------------------
(* Where a call of run_once stands.  The two waits are "sourcing" and      *)
(* "vertical".                                                             *)
Step == {"idle", "numbering", "beginning", "sourcing", "binding", "reserving",
         "preparing", "leasing", "releasing", "vertical", "rejecting", "completing",
         "reporting"}

(* since: when the step was entered, and so the earliest reading of the    *)
(* clock it can use; todo: the items not finished yet; replay: the first   *)
(* item whose intent was already there; fence: the LeaseToken of a         *)
(* release; evidence: what its batch, or the lack of one, is known by;     *)
(* report: the outcome to commit.                                          *)
RunCall == [pc : Step, cycle : 0..MaxCycle, started : 0..MaxTick,
            since : 0..MaxTick, todo : Seq(Attempt),
            replay : Attempt \cup {NoAttempt}, fence : 0..MaxFence,
            evidence : Evidence \cup {NoEvidence}, report : Outcome]

NotRunning == [pc |-> "idle", cycle |-> 0, started |-> 0, since |-> 0,
               todo |-> <<>>, replay |-> NoAttempt, fence |-> 0,
               evidence |-> NoEvidence, report |-> "blocked"]

PaperTypeOK ==
    /\ TypeOK /\ AuthorityTypeOK
    /\ service \in [Process -> RunCall]
    /\ verticals \in [Attempt -> 0..2]
    /\ stopped \subseteq Cycle

PaperInit ==
    /\ Init /\ AuthorityInit
    /\ service = [p \in Process |-> NotRunning]
    /\ verticals = [a \in Attempt |-> 0]
    /\ stopped = {}

-----------------------------------------------------------------------------
At(p, step) == service[p].pc = step

(* The call has begun its cycle. *)
Begun(p) == service[p].pc \notin {"idle", "numbering", "beginning"}

OnCycle(p, c) == Begun(p) /\ service[p].cycle = c

Current(p) == Head(service[p].todo)

(* The readings of the clock a step may use: one since it was entered. *)
Readings(p) == service[p].since..clock.tick

Goto(p, call) ==
    /\ service' = [service EXCEPT ![p] = [call EXCEPT !.since = clock.tick]]
    /\ UNCHANGED stopped

Advance(p, step) == Goto(p, [service[p] EXCEPT !.pc = step])

Report(p, outcome) ==
    Goto(p, [service[p] EXCEPT !.pc = "reporting", !.fence = 0, !.report = outcome])

(* run_once returns or raises: the call is over, its cycle as it is. *)
EndCall(p) ==
    /\ service' = [service EXCEPT ![p] = NotRunning]
    /\ UNCHANGED stopped

StoreUnchanged == UNCHANGED <<vars, authorityVars, verticals>>

(* BeyondDeadline with a bug: each wait gets a whole deadline of its own. *)
BeyondOwnDeadline(p) == clock.tick >= service[p].since + Deadline

(* And with another: the timer is armed with milliseconds for seconds. *)
BeyondDeadlineInMillis(p) == clock.tick >= service[p].started + 1000 * Deadline

(* The deadline of the cycle, counted from its begin. *)
BeyondDeadline(p) == clock.tick >= service[p].started + Deadline

-----------------------------------------------------------------------------
(* The bounds: a call starts while there is a number left for it, also if  *)
(* every other call that is drawing one begins a cycle, and its deadline   *)
(* falls inside the bounded clock.                                         *)
CallFits ==
    /\ clock.tick + Deadline <= MaxTick
    /\ Cardinality({q \in Process : At(q, "numbering") \/ At(q, "beginning")})
          < Cardinality({c \in Cycle : ~Recorded(c)})

(* run_once: recovery_summary refuses while a cycle is unresolved.         *)
CheckRecovery(p) ==
    /\ At(p, "idle") /\ CallFits
    /\ ~\E c \in Cycle : Unresolved(c)
    /\ Advance(p, "numbering")
    /\ StoreUnchanged

(* next_cycle_sequence, in a transaction of its own. *)
ReadSequence(p) ==
    /\ At(p, "numbering")
    /\ \E n \in Cycle :
          /\ IsNextSequence(n)
          /\ Goto(p, [service[p] EXCEPT !.pc = "beginning", !.cycle = n])
    /\ StoreUnchanged

(* begin_cycle_intent.  Whether the fence is a replay is not looked at, so *)
(* two processes that read the same sequence run the same cycle.           *)
BeginCycle(p) ==
    LET c == service[p].cycle
    IN  /\ At(p, "beginning")
        /\ \/ BeginIntent(p, c, "cycle")
           \/ IntentReplayed(p, c, "cycle") /\ UNCHANGED <<vars, authorityVars>>
        /\ Goto(p, [service[p] EXCEPT !.pc = "sourcing", !.started = clock.tick])
        /\ UNCHANGED verticals

BeginCycleConflict(p) ==
    /\ At(p, "beginning")
    /\ IntentConflict(p, service[p].cycle, "cycle")
    /\ EndCall(p)
    /\ StoreUnchanged

(* The batch source returns a batch; its evidence is that of this answer.  *)
SourceReturns(p) ==
    /\ At(p, "sourcing")
    /\ \E b \in Batches, e \in Evidence \ {SourceFailure} :
          Goto(p, [service[p] EXCEPT !.pc = "binding", !.todo = b, !.evidence = e])
    /\ StoreUnchanged

(* Without a batch the cycle is indeterminate, under an evidence of its    *)
(* own which is not bound.                                                 *)
ReportNoBatch(p) ==
    Goto(p, [service[p] EXCEPT !.pc = "reporting", !.evidence = SourceFailure,
                               !.report = "indeterminate"])

(* It raises, or asyncio.wait_for cuts it off. *)
SourceFails(p) ==
    /\ At(p, "sourcing")
    /\ ReportNoBatch(p)
    /\ StoreUnchanged

SourceTimesOut(p) ==
    /\ At(p, "sourcing")
    /\ BeyondDeadline(p)
    /\ ReportNoBatch(p)
    /\ StoreUnchanged

(* bind_provider_evidence, then the choice of _report_for_batch: a batch   *)
(* with blockers, an unwired runtime or no time left is reported blocked.  *)
Bind(p) ==
    /\ At(p, "binding")
    /\ \E now \in Readings(p) :
          BindEvidence(p, service[p].cycle, now, service[p].evidence)
    /\ \/ Report(p, "blocked")
       \/ ~BeyondDeadline(p) /\ Advance(p, "reserving")
    /\ UNCHANGED verticals

(* The fence is no longer valid, or another call of the cycle has bound    *)
(* the evidence of another answer.                                         *)
BindRefused(p) ==
    /\ At(p, "binding")
    /\ \/ \E now \in Readings(p) : ~FenceValid(p, service[p].cycle, now)
       \/ EvidenceConflict(service[p].cycle, service[p].evidence)
    /\ EndCall(p)
    /\ StoreUnchanged

-----------------------------------------------------------------------------
NextItem(p, replay) ==
    Goto(p, [service[p] EXCEPT !.pc = "reserving", !.todo = Tail(@), !.fence = 0,
                               !.replay = IF @ = NoAttempt THEN replay ELSE @])

(* DurableCapitalCoordinator.reserve: create_attempt, or the exact replay  *)
(* of an earlier creation.                                                 *)
Reserve(p) ==
    /\ At(p, "reserving") /\ service[p].todo # <<>>
    /\ \/ CreateAttempt(Current(p), <<Current(p), "reserve">>, "planned", TRUE)
       \/ Exists(Current(p)) /\ UNCHANGED vars
    /\ Advance(p, "preparing")
    /\ UNCHANGED <<authorityVars, verticals>>

(* Capital refuses the item (the next one is tried), the provider evidence *)
(* does (the items after it are not tried), or the coordinator raises.     *)
ReserveRefused(p) ==
    /\ At(p, "reserving") /\ service[p].todo # <<>>
    /\ \/ NextItem(p, NoAttempt)
       \/ Goto(p, [service[p] EXCEPT !.todo = <<>>])
       \/ Report(p, "indeterminate")
    /\ StoreUnchanged

(* candidate_factory or the validation of its candidate raises. *)
PrepareFails(p) ==
    /\ At(p, "preparing")
    /\ Advance(p, "leasing")
    /\ StoreUnchanged

(* _release, first transaction: the lease of the attempt.  All processes   *)
(* are one lease owner, so it is never refused, and takes the token of     *)
(* whoever had it.                                                         *)
ReleaseLease(p) ==
    LET a == Current(p)
    IN  /\ At(p, "leasing")
        /\ AcquireAttemptLease(LeaseOwner, a)
        /\ Goto(p, [service[p] EXCEPT !.pc = "releasing", !.fence = leases[a].fence + 1])
        /\ UNCHANGED <<authorityVars, verticals>>

(* The token of the call is still the newest, and not expired. *)
TokenValid(p, a) == service[p].fence = held[LeaseOwner][a] /\ VerifyLease(LeaseOwner, a)

(* _release, second: whether the attempt has an open intent is not asked.  *)
(* With nothing reserved it changes nothing.                               *)
Release(p) ==
    LET a == Current(p)
    IN  /\ At(p, "releasing")
        /\ TokenValid(p, a)
        /\ \/ ReleaseAbandonedReservation(LeaseOwner, a, <<a, "release">>)
           \/ /\ attempts[a].state \in PreSubmission /\ reservations[a] # "active"
              /\ UNCHANGED vars
        /\ NextItem(p, NoAttempt)
        /\ UNCHANGED <<authorityVars, verticals>>

(* The token was taken or has expired, or the attempt was rejected. *)
ReleaseRefused(p) ==
    LET a == Current(p)
    IN  /\ At(p, "releasing")
        /\ ~(TokenValid(p, a) /\ attempts[a].state \in PreSubmission)
        /\ Report(p, "indeterminate")
        /\ StoreUnchanged

-----------------------------------------------------------------------------
StartVertical(p) ==
    /\ Advance(p, "vertical")
    /\ verticals' = [verticals EXCEPT ![Current(p)] = IF @ < 2 THEN @ + 1 ELSE @]

(* BeginAttempt with a bug: a replayed intent counts as permission. *)
BeginAttemptAgain(p) ==
    LET a == Current(p)
    IN  /\ At(p, "preparing")
        /\ \E plan \in Plan :
              \/ BeginIntent(p, a, plan) /\ StartVertical(p)
              \/ /\ IntentReplayed(p, a, plan) /\ ~Resolved(a)
                 /\ StartVertical(p)
                 /\ UNCHANGED <<vars, authorityVars>>

(* begin_prepared_attempt_intent: a new intent runs the vertical; an       *)
(* intent that is already there never does, and one that conflicts with    *)
(* the plan, or must be reconciled, blocks the item.                       *)
BeginAttempt(p) ==
    LET a == Current(p)
    IN  /\ At(p, "preparing")
        /\ \E plan \in Plan :
              \/ BeginIntent(p, a, plan) /\ StartVertical(p)
              \/ /\ IntentReplayed(p, a, plan)
                 /\ NextItem(p, a)
                 /\ UNCHANGED <<vars, authorityVars, verticals>>
              \/ /\ IntentConflict(p, a, plan)
                 /\ NextItem(p, NoAttempt)
                 /\ UNCHANGED <<vars, authorityVars, verticals>>

(* The vertical raises, or the final fee is refused: in both cases the     *)
(* rejection is committed.  (The refused fee first releases the            *)
(* reservation in a transaction that is rolled back.)                      *)
VerticalRejects(p) ==
    /\ At(p, "vertical")
    /\ Advance(p, "rejecting")
    /\ StoreUnchanged

(* It returns, and finalize_reserved_attempt accepts its fee against the   *)
(* reservation, which must still be active.                                *)
VerticalReturns(p) ==
    /\ At(p, "vertical")
    /\ reservations[Current(p)] = "active"
    /\ Advance(p, "completing")
    /\ StoreUnchanged

(* wait_for cancels the runtime cycle: no handler commits anything for the *)
(* attempt, whose intent and reservation stay.                             *)
VerticalTimesOut(p) ==
    /\ At(p, "vertical")
    /\ BeyondDeadline(p)
    /\ Report(p, "blocked")
    /\ StoreUnchanged

(* _commit_prepared_rejection, after which the next item is tried. *)
Reject(p) ==
    LET a == Current(p)
    IN  /\ At(p, "rejecting")
        /\ \E now \in Readings(p) :
              CommitAttemptTerminal(p, a, <<a, "terminal">>, now,
                                    "rejected", "released", "blocked")
        /\ NextItem(p, NoAttempt)
        /\ UNCHANGED verticals

CommitSuccess(p) ==
    LET a == Current(p)
    IN  /\ At(p, "completing")
        /\ \E now \in Readings(p) : CommitPaperSuccess(p, a, <<a, "terminal">>, now)
        /\ Report(p, "success")
        /\ UNCHANGED verticals

(* Either commit raises: the fence is no longer valid or the reservation   *)
(* gone.  _run_a2_cycle turns it into an indeterminate report.             *)
AttemptCommitRefused(p) ==
    LET a == Current(p)
    IN  /\ At(p, "rejecting") \/ At(p, "completing")
        /\ \/ \E now \in Readings(p) : ~FenceValid(p, a, now)
           \/ reservations[a] # "active"
        /\ Report(p, "indeterminate")
        /\ StoreUnchanged

(* VerifyReplay with a bug: a replayed item is taken for a success. *)
VerifyReplayOptimistic(p) ==
    /\ At(p, "reserving") /\ service[p].todo = <<>>
    /\ Report(p, IF service[p].replay = NoAttempt THEN "blocked" ELSE "success")
    /\ StoreUnchanged

(* No item is left.  Without a replayed one the cycle is blocked, or no    *)
(* trade.  A replayed one must have a committed success, and that of the   *)
(* same request and evidence: verify_committed_paper_success raises        *)
(* otherwise.  Requests are not told apart here, so either may happen.     *)
VerifyReplay(p) ==
    LET a == service[p].replay
    IN  /\ At(p, "reserving") /\ service[p].todo = <<>>
        /\ \/ a = NoAttempt /\ Report(p, "blocked")
           \/ a # NoAttempt /\ Report(p, "indeterminate")
           \/ /\ a # NoAttempt /\ terminals[a].outcome = "success"
              /\ Report(p, "success")
        /\ StoreUnchanged

-----------------------------------------------------------------------------
(* _commit: the terminal record of the cycle ends the call. *)
CommitCycle(p) ==
    /\ At(p, "reporting")
    /\ \E now \in Readings(p) :
          CommitCycleTerminal(p, service[p].cycle, now, service[p].report,
                              service[p].evidence)
    /\ EndCall(p)
    /\ UNCHANGED verticals

(* The fence is no longer valid, other evidence is bound to the cycle, or  *)
(* it already has a record: an exact replay returns, a different one       *)
(* raises.                                                                 *)
CommitCycleRefused(p) ==
    /\ At(p, "reporting")
    /\ \/ Resolved(service[p].cycle)
       \/ EvidenceConflict(service[p].cycle, service[p].evidence)
       \/ \E now \in Readings(p) : ~FenceValid(p, service[p].cycle, now)
    /\ EndCall(p)
    /\ StoreUnchanged

(* The process dies, or the supervisor cancels the call at a wait. *)
ServiceStops(p) ==
    /\ ~At(p, "idle")
    /\ service' = [service EXCEPT ![p] = NotRunning]
    /\ stopped' = stopped \cup {c \in Cycle : OnCycle(p, c)}
    /\ StoreUnchanged

PaperReboot ==
    /\ Reboot
    /\ service' = [p \in Process |-> NotRunning]
    /\ stopped' = stopped \cup {c \in Cycle : \E p \in Process : OnCycle(p, c)}
    /\ UNCHANGED <<authorityVars, verticals>>

Waiting(p) ==
    \/ At(p, "idle")
    \/ service[p].pc \in {"sourcing", "vertical"} /\ ~BeyondDeadline(p)

PaperTick ==
    /\ Prompt => \A p \in Process : Waiting(p)
    /\ TickStore
    /\ UNCHANGED <<authorityVars, paperVars>>

(* What run_once does by itself, and what its environment answers. *)
RunOnce(p) ==
    \/ ReadSequence(p)
    \/ BeginCycle(p) \/ BeginCycleConflict(p)
    \/ SourceTimesOut(p)
    \/ Bind(p) \/ BindRefused(p)
    \/ Reserve(p) \/ ReserveRefused(p)
    \/ ReleaseLease(p) \/ Release(p) \/ ReleaseRefused(p)
    \/ BeginAttempt(p)
    \/ VerticalTimesOut(p)
    \/ Reject(p) \/ CommitSuccess(p) \/ AttemptCommitRefused(p)
    \/ VerifyReplay(p)
    \/ CommitCycle(p) \/ CommitCycleRefused(p)

Environment(p) ==
    \/ CheckRecovery(p)
    \/ SourceReturns(p) \/ SourceFails(p)
    \/ PrepareFails(p)
    \/ VerticalRejects(p) \/ VerticalReturns(p)
    \/ ServiceStops(p)

PaperNext ==
    \/ \E p \in Process : RunOnce(p) \/ Environment(p)
    \/ PaperTick
    \/ PaperReboot

PaperSpec == PaperInit /\ [][PaperNext]_paperAllVars

(* The event loop runs a call that can go on, and the clock advances,      *)
(* however many calls start and end in the meantime.  Sources and          *)
(* verticals need not ever answer: asyncio.wait_for ends the wait.         *)
FairPaperSpec ==
    /\ PaperSpec
    /\ \A p \in Process : WF_paperAllVars(RunOnce(p))
    /\ SF_paperAllVars(PaperTick)
-----------------------------------------------------------------------------
(* The vertical (provider work and simulation) of an attempt runs once, in *)
(* whatever cycle, process or plan it comes again: an intent that is       *)
(* already there "is not permission to repeat effects".                    *)
OneVerticalPerAttempt == \A a \in Attempt : verticals[a] <= 1

(* A cycle or attempt never gets a second outcome, also when two processes *)
(* run the same cycle and come to different reports, or when a late answer *)
(* follows a timeout.                                                      *)
TerminalsAreFinal ==
    [][\A i \in Work : Resolved(i) => terminals'[i] = terminals[i]]_paperAllVars

(* The attempt row, both copies of its reservation and its terminal record *)
(* tell one story, although the reservation is also released by another    *)
(* path that knows nothing of intents.                                     *)
AttemptsAgreeWithTerminals ==
    \A a \in Attempt :
        /\ ~Exists(a) => ~Recorded(a)
        /\ Exists(a) =>
              /\ attempts[a].terminal <=> Resolved(a)
              /\ attempts[a].state = "rejected" <=> terminals[a].outcome = "blocked"
              /\ Resolved(a) => /\ attempts[a].reservation = terminals[a].reservation
                                /\ reservations[a] = terminals[a].reservation

(* A cycle is recorded as a paper success only if the verified terminal    *)
(* success of an attempt is committed ("fabricated success" of the docs):  *)
(* not for a handoff, a replay or a lost answer.                           *)
SuccessIsVerified ==
    (\E c \in Cycle : terminals[c].outcome = "success") =>
        \E a \in Attempt : terminals[a].outcome = "success"

(* While the machine keeps up with its timers, a cycle without a record is *)
(* in the hands of a call that can still record it, unless one of its      *)
(* calls was stopped: calls refused because another has bound its evidence *)
(* leave the cycle to that one.  Otherwise the open cycle would block the  *)
(* service for good (docs/mega_pr_a3_installed_durable_paper_service.md,   *)
(* "Each service cycle is recorded", "A global cycle deadline is           *)
(* enforced").                                                             *)
EndedCyclesAreRecorded ==
    \A c \in Cycle : Unresolved(c) /\ c \notin stopped =>
        \E p \in Process :
            OnCycle(p, c) /\ ~EvidenceConflict(c, service[p].evidence)

(* An attempt whose outcome is unknown keeps its capital reserved          *)
(* (docs/roadmap-pr02-unified-lifecycle-authority.md, "indeterminate       *)
(* attempts keep capital frozen rather than auto-releasing it").           *)
OpenAttemptsKeepCapital ==
    [][\A a \in Attempt :
          Unresolved(a) /\ reservations[a] = "active" /\ reservations'[a] # "active"
              => terminals'[a] # NoTerminal]_paperAllVars

(* Every call of run_once ends, whatever sources and verticals do. *)
CallsEnd == \A p \in Process : ~At(p, "idle") ~> At(p, "idle")
=============================================================================
