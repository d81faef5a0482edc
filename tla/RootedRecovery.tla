---------------------------- MODULE RootedRecovery ----------------------------
(***************************************************************************)
(* Provider delivery and rooted recovery (src/providers/helius).  The    *)
(* delivery plane writes each webhook delivery into the inbox in one     *)
(* transaction and moves the webhook's cursor over contiguous slots; a   *)
(* jump opens a gap.  Workers claim the inbox rows one at a time under a *)
(* fenced lease, have an open gap recovered from rooted RPC data, have the *)
(* event verified and hand it over to the A3 admission sink, which writes  *)
(* in the same transaction.                                              *)
(*                                                                       *)
(* A call of run_once reads the clock once, before its first transaction,  *)
(* and uses that reading in all of them.  Between two of its transactions  *)
(* other calls run, deliveries arrive, and its process may die.          *)
(*                                                                       *)
(* Events are their inbox dedup keys.  Every rejection of a backfill or of *)
(* provider evidence, expiry included, is one outcome: a refusal.  A failed*)
(* transaction is preserved, as by default.  Deliveries repeated whole   *)
(* only leave an audit row, which is no step.                            *)
(***************************************************************************)
EXTENDS Integers, FiniteSets, Sequences

CONSTANTS
    Webhook,        \* webhook ids
    Event,          \* inbox dedup keys
    WebhookOf,      \* WebhookOf[e]: the webhook that delivers e
    SlotOf,         \* SlotOf[e]: the slot of e, or NoSlot
    TransactionOf,  \* TransactionOf[e]: InboxClaim.event_identity of e
    Delivery,       \* the deliveries the provider may send: sequences of events
    Caller,         \* threads or processes that call run_once
    Worker,         \* worker ids they call it with
    MaxSlotGap,     \* max_slot_gap
    LeaseDuration,  \* lease_duration_ns, in ticks
    RetryDelay,     \* retry_delay_ns, in ticks
    MaxAttempts,    \* max_attempts
    MaxSlot,        \* bound: slots
    MaxTick,        \* bound: readings of the monotonic clock in a boot
    MaxBoot,        \* bound: boots
    MaxFence,       \* bound: claims of a row
    NoSlot, NoWorker, NoEvent

Slot == 0..MaxSlot

ASSUME RecoveryAssumption ==
    /\ WebhookOf \in [Event -> Webhook]
    /\ SlotOf \in [Event -> Slot \cup {NoSlot}]
    /\ TransactionOf \in [Event -> Event]
    /\ Delivery \subseteq Seq(Event) \ {<<>>}
    /\ NoSlot \notin Slot /\ NoWorker \notin Worker /\ NoEvent \notin Event
    /\ {MaxSlotGap, LeaseDuration, RetryDelay, MaxAttempts, MaxBoot} \subseteq Nat \ {0}
    /\ {MaxSlot, MaxTick, MaxFence} \subseteq Nat

(* _parse_events orders a delivery by slot, events without one last.     *)
ASSUME CanonicalOrder == \A d \in Delivery : \A i, j \in DOMAIN d : i < j =>
    /\ d[i] # d[j] /\ WebhookOf[d[i]] = WebhookOf[d[j]]
    /\ \/ SlotOf[d[j]] = NoSlot
       \/ SlotOf[d[i]] # NoSlot /\ SlotOf[d[i]] <= SlotOf[d[j]]

VARIABLES
    now,        \* the monotonic clock
    boot,       \* boots so far
    received,   \* helius_delivery: the deliveries that have a row
    inbox,      \* helius_event_inbox, by dedup key
    gaps,       \* helius_gap_state: the cursor and the open gap of each webhook
    work,       \* helius_inbox_work; a row not there yet is Pending, as _seed_work has it
    handoffs,   \* helius_a3_handoff
    admitted,   \* pr02_intents of kind provider_handoff: their transactions
    dead,       \* helius_dead_letter: the events of its rows
    calls,      \* the run_once of each caller: its claim and where it stands
    found       \* found[c]: the gap that call read

recoveryVars == <<now, boot, received, inbox, gaps, work, handoffs, admitted, dead, calls, found>>

-----------------------------------------------------------------------------
NoGap == [from |-> NoSlot, to |-> NoSlot]

Gap == {g \in [from : Slot, to : Slot] : g.from <= g.to} \cup {NoGap}

Pending == [status |-> "pending", owner |-> NoWorker, fence |-> 0,
            expires |-> 0, attempts |-> 0, next |-> 0]

Work == [status : {"pending", "processing", "retry", "gap_blocked", "dead_letter", "admitted"},
         owner : Worker \cup {NoWorker}, fence : 0..MaxFence,
         expires : Nat, attempts : Nat, next : Nat]

Call == [pc : {"idle", "claim", "gap", "recover", "close", "verify"},
         worker : Worker \cup {NoWorker}, now : 0..MaxTick,
         event : Event \cup {NoEvent}, fence : 0..MaxFence, attempt : Nat]

Idle == [pc |-> "idle", worker |-> NoWorker, now |-> 0, event |-> NoEvent,
         fence |-> 0, attempt |-> 0]

(* unchecked: the row's slot was not compared with the cursor, since a gap *)
(* was open when it arrived.                                             *)
InboxRow == [id : Nat \ {0}, index : Nat \ {0}, unchecked : BOOLEAN]

Known == DOMAIN inbox

(* Every variable has its type. *)
RecoveryTypeOK ==
    /\ now \in 0..MaxTick /\ boot \in 1..MaxBoot
    /\ received \subseteq Delivery
    /\ Known \subseteq Event /\ inbox \in [Known -> InboxRow]
    /\ gaps \in [Webhook -> [last : Slot \cup {NoSlot}, gap : Gap]]
    /\ work \in [Event -> Work]
    /\ handoffs \subseteq [transaction : Event, event : Known]
    /\ admitted \subseteq Event
    /\ dead \subseteq Known
    /\ calls \in [Caller -> Call]
    /\ found \in [Caller -> Gap]

RecoveryInit ==
    /\ now = 0 /\ boot = 1
    /\ received = {} /\ inbox = [e \in {} |-> Pending]
    /\ work = [e \in Event |-> Pending]
    /\ gaps = [w \in Webhook |-> [last |-> NoSlot, gap |-> NoGap]]
    /\ handoffs = {} /\ admitted = {} /\ dead = {}
    /\ calls = [c \in Caller |-> Idle]
    /\ found = [c \in Caller |-> NoGap]

-----------------------------------------------------------------------------
(* enqueue's comparison with a bug: a slot just within reach is beyond.  *)
BeyondOrAt(s, last) == s >= last + MaxSlotGap

(* Whether a slot jumps over too many. *)
Beyond(s, last) == s > last + MaxSlotGap

(* contiguous_slot of enqueue after the first k events of a delivery, as   *)
(* long as none of them jumps: they come in the order of their slots.    *)
CursorAfter(d, k) ==
    LET last == gaps[WebhookOf[d[1]]].last
    IN IF k = 0 \/ (last # NoSlot /\ last >= SlotOf[d[k]]) THEN last ELSE SlotOf[d[k]]

Jumps(d, k) ==
    LET cursor == CursorAfter(d, k - 1)
    IN cursor # NoSlot /\ Beyond(SlotOf[d[k]], cursor)

(* Whether n events move the cursor: the next one has no slot, as have all *)
(* after it, or jumps.                                                   *)
Contiguous(d, n) ==
    /\ \A k \in 1..n : SlotOf[d[k]] # NoSlot /\ ~Jumps(d, k)
    /\ n < Len(d) /\ SlotOf[d[n + 1]] # NoSlot => Jumps(d, n + 1)

Opens(d, n) == n < Len(d) /\ SlotOf[d[n + 1]] # NoSlot

(* One delivery: its events that are not in the inbox yet get rows.  They  *)
(* move the webhook's cursor up to the first that jumps, which opens a gap;*)
(* an open gap hides them from the cursor.                               *)
Deliver(d) ==
    LET w == WebhookOf[d[1]]
        hidden == gaps[w].gap # NoGap
        fresh == {k \in DOMAIN d : d[k] \notin Known}
    IN
    /\ d \notin received
    /\ received' = received \cup {d}
    /\ \E n \in 0..Len(d) :
          LET row(k) == [id |-> Cardinality(Known) + Cardinality({j \in fresh : j <= k}),
                         index |-> k,
                         unchecked |-> hidden \/ (Opens(d, n) /\ k > n + 1)]
          IN
          /\ Contiguous(d, n)
          /\ inbox' = [e \in Known \cup {d[k] : k \in fresh} |->
                         IF e \in Known THEN inbox[e] ELSE row(CHOOSE k \in fresh : d[k] = e)]
          /\ gaps' = IF hidden THEN gaps
                     ELSE [gaps EXCEPT ![w] =
                         [last |-> CursorAfter(d, n),
                          gap |-> IF Opens(d, n)
                                  THEN [from |-> CursorAfter(d, n) + 1, to |-> SlotOf[d[n + 1]] - 1]
                                  ELSE NoGap]]
    /\ UNCHANGED <<now, boot, work, handoffs, admitted, dead, calls, found>>

-----------------------------------------------------------------------------
(* run_once reads the clock before it waits for the database.            *)
RunOnce(c) ==
    /\ calls[c].pc = "idle"
    /\ \E w \in Worker :
          calls' = [calls EXCEPT ![c] = [Idle EXCEPT !.pc = "claim", !.worker = w, !.now = now]]
    /\ UNCHANGED <<now, boot, received, inbox, gaps, work, handoffs, admitted, dead, found>>

(* The rows claim_next selects at time t ... *)
Due(t) == {e \in Known :
    \/ work[e].status \in {"pending", "retry", "gap_blocked"} /\ work[e].next <= t
    \/ work[e].status = "processing" /\ work[e].expires <= t}

SlotBefore(e, f) ==
    SlotOf[e] # NoSlot /\ (SlotOf[f] = NoSlot \/ SlotOf[e] < SlotOf[f])

(* ... and its order: by slot, then position in the delivery, then id.   *)
Before(e, f) ==
    \/ SlotBefore(e, f)
    \/ /\ ~SlotBefore(f, e)
       /\ \/ inbox[e].index < inbox[f].index
          \/ inbox[e].index = inbox[f].index /\ inbox[e].id < inbox[f].id

(* claim_next's UPDATE with a bug: a claim by the row's last owner renews it. *)
RenewedWork(e, worker, t) ==
    [work[e] EXCEPT !.status = "processing", !.owner = worker,
                    !.fence = IF work[e].owner = worker THEN @ ELSE @ + 1,
                    !.expires = t + LeaseDuration, !.attempts = @ + 1]

ClaimedWork(e, worker, t) ==
    [work[e] EXCEPT !.status = "processing", !.owner = worker, !.fence = @ + 1,
                    !.expires = t + LeaseDuration, !.attempts = @ + 1]

(* claim_next: the first due row, if there is one. *)
ClaimNext(c) ==
    LET due == Due(calls[c].now) IN
    /\ calls[c].pc = "claim"
    /\ \/ /\ due = {}
          /\ calls' = [calls EXCEPT ![c] = Idle]
          /\ UNCHANGED work
       \/ \E e \in due :
             /\ \A f \in due \ {e} : Before(e, f)
             /\ work[e].fence < MaxFence
             /\ work' = [work EXCEPT ![e] = ClaimedWork(e, calls[c].worker, calls[c].now)]
             /\ calls' = [calls EXCEPT ![c] =
                    [@ EXCEPT !.pc = "gap", !.event = e, !.fence = work'[e].fence,
                              !.attempt = work'[e].attempts]]
    /\ UNCHANGED <<now, boot, received, inbox, gaps, handoffs, admitted, dead, found>>

(* gap(): whether the webhook of the claimed event has an open gap.      *)
ReadGap(c) ==
    LET g == gaps[WebhookOf[calls[c].event]].gap IN
    /\ calls[c].pc = "gap"
    /\ calls' = [calls EXCEPT ![c].pc = IF g = NoGap THEN "verify" ELSE "recover"]
    /\ found' = [found EXCEPT ![c] = g]
    /\ UNCHANGED <<now, boot, received, inbox, gaps, work, handoffs, admitted, dead>>

(* The backfill port accepts the range; close_gap reads the gap again,   *)
(* outside the transaction that will close it: it goes on at once if there *)
(* is none any more, and refuses (Defer) if it is another one.           *)
Recover(c) ==
    LET g == gaps[WebhookOf[calls[c].event]].gap IN
    /\ calls[c].pc = "recover"
    /\ g \in {NoGap, found[c]}
    /\ calls' = [calls EXCEPT ![c].pc = IF g = NoGap THEN "verify" ELSE "close"]
    /\ UNCHANGED <<now, boot, received, inbox, gaps, work, handoffs, admitted, dead, found>>

(* _assert_fence with a bug: nothing is checked. *)
HoldsAnyFence(c) == calls[c].event \in Known

(* _assert_fence *)
HoldsFence(c) ==
    LET r == work[calls[c].event] IN
    r.owner = calls[c].worker /\ r.fence = calls[c].fence /\ r.status = "processing"

(* close_gap's WHERE with a bug: any open gap is closed. *)
SomeGap(c, g) == g.gap # NoGap

(* Whether the UPDATE of close_gap finds the gap the call recovered.     *)
SameGap(c, g) == g.gap = found[c]

(* close_gap's transaction.  The result covers the gap and may reach     *)
(* further; a gap that is no longer the one recovered stays as it is, and  *)
(* the call goes on.                                                     *)
CloseGap(c) ==
    LET w == WebhookOf[calls[c].event] IN
    /\ calls[c].pc = "close" /\ HoldsFence(c)
    /\ \E rooted \in found[c].to..MaxSlot :
          gaps' = IF SameGap(c, gaps[w])
                  THEN [gaps EXCEPT ![w] =
                           [last |-> IF @.last = NoSlot \/ @.last < rooted THEN rooted ELSE @.last,
                            gap |-> NoGap]]
                  ELSE gaps
    /\ calls' = [calls EXCEPT ![c].pc = "verify"]
    /\ UNCHANGED <<now, boot, received, inbox, work, handoffs, admitted, dead, found>>

AdmittedWork(e) == [work[e] EXCEPT !.status = "admitted", !.owner = NoWorker, !.expires = 0]

(* commit_handoff with a bug: the sink commits, and only then is the fence        *)
(* checked for the handoff.                                              *)
HandoffAfterSink(c) ==
    LET e == calls[c].event
        t == TransactionOf[e]
    IN
    /\ calls[c].pc = "verify"
    /\ admitted' = admitted \cup {t}
    /\ IF HoldsFence(c)
       THEN /\ handoffs' = handoffs \cup {[transaction |-> t, event |-> e]}
            /\ work' = [work EXCEPT ![e] = AdmittedWork(e)]
       ELSE UNCHANGED <<handoffs, work>>
    /\ calls' = [calls EXCEPT ![c] = Idle]
    /\ UNCHANGED <<now, boot, received, inbox, gaps, dead, found>>

(* commit_handoff with evidence the verifier gave: one transaction with  *)
(* the admission sink.  A transaction that was handed over already only  *)
(* settles the row.                                                      *)
Handoff(c) ==
    LET e == calls[c].event
        t == TransactionOf[e]
    IN
    /\ calls[c].pc = "verify" /\ HoldsFence(c)
    /\ IF \E h \in handoffs : h.transaction = t
       THEN UNCHANGED <<handoffs, admitted>>
       ELSE /\ handoffs' = handoffs \cup {[transaction |-> t, event |-> e]}
            /\ admitted' = admitted \cup {t}
    /\ work' = [work EXCEPT ![e] = AdmittedWork(e)]
    /\ calls' = [calls EXCEPT ![c] = Idle]
    /\ UNCHANGED <<now, boot, received, inbox, gaps, dead, found>>

(* defer: the backfill was refused, the evidence was, or the sink raised.  *)
(* The last attempt goes to the dead letters.                            *)
Defer(c) ==
    LET e == calls[c].event
        last == calls[c].attempt >= MaxAttempts
        blocked == IF calls[c].pc = "verify" THEN "retry" ELSE "gap_blocked"
    IN
    /\ calls[c].pc \in {"recover", "close", "verify"} /\ HoldsFence(c)
    /\ work' = [work EXCEPT ![e] =
           [@ EXCEPT !.status = IF last THEN "dead_letter" ELSE blocked, !.owner = NoWorker,
                     !.expires = 0, !.next = calls[c].now + RetryDelay]]
    /\ dead' = IF last THEN dead \cup {e} ELSE dead
    /\ calls' = [calls EXCEPT ![c] = Idle]
    /\ UNCHANGED <<now, boot, received, inbox, gaps, handoffs, admitted, found>>

(* B3_WORKER_FENCE_LOST: close_gap and commit_handoff raise it, run_once *)
(* defers, and defer raises it again.                                    *)
FenceLost(c) ==
    /\ calls[c].pc \in {"recover", "close", "verify"} /\ ~HoldsFence(c)
    /\ calls' = [calls EXCEPT ![c] = Idle]
    /\ UNCHANGED <<now, boot, received, inbox, gaps, work, handoffs, admitted, dead, found>>

(* A call ends where it stands: its process dies, or a port raises an    *)
(* exception run_once does not catch.                                    *)
Crash(c) ==
    /\ calls[c].pc # "idle"
    /\ calls' = [calls EXCEPT ![c] = Idle]
    /\ UNCHANGED <<now, boot, received, inbox, gaps, work, handoffs, admitted, dead, found>>

ClockTick ==
    /\ now < MaxTick
    /\ now' = now + 1
    /\ UNCHANGED <<boot, received, inbox, gaps, work, handoffs, admitted, dead, calls, found>>

(* A reboot ends every call and restarts the monotonic clock; the deadlines*)
(* in the database stay.                                                 *)
MachineReboot ==
    /\ boot < MaxBoot
    /\ boot' = boot + 1 /\ now' = 0
    /\ calls' = [c \in Caller |-> Idle]
    /\ UNCHANGED <<received, inbox, gaps, work, handoffs, admitted, dead, found>>

RecoveryNext ==
    \/ \E d \in Delivery : Deliver(d)
    \/ \E c \in Caller : \/ RunOnce(c) \/ ClaimNext(c) \/ ReadGap(c) \/ Recover(c)
                         \/ CloseGap(c) \/ Handoff(c) \/ Defer(c) \/ FenceLost(c) \/ Crash(c)
    \/ ClockTick
    \/ MachineReboot

RecoverySpec == RecoveryInit /\ [][RecoveryNext]_recoveryVars

-----------------------------------------------------------------------------
(* Whether a slot lies no further past the webhook's cursor than a       *)
(* contiguous one may.                                                   *)
WithinReach(e) ==
    LET last == gaps[WebhookOf[e]].last
    IN SlotOf[e] # NoSlot => last # NoSlot /\ ~Beyond(SlotOf[e], last)

(* "unresolved gaps cannot advance the cursor or reach A3"               *)
(* (docs/mega_pr_b3_active_providers_rooted_recovery.md:58): every event *)
(* commit_handoff hands over lies within reach of the cursor.  It fails  *)
(* for events that arrived while a gap was open.                         *)
HandoffsFollowTheCursor == \A h \in handoffs : WithinReach(h.event)

(* Events whose slot enqueue did compare with the cursor are handed over *)
(* only within its reach, whichever call closes their gap and whatever   *)
(* other gap opens meanwhile (close_gap, commit_handoff).                *)
CheckedHandoffsFollowTheCursor ==
    \A h \in handoffs : ~inbox[h.event].unchecked => WithinReach(h.event)

(* A row ends once: it is handed over, or settled by the handoff of its  *)
(* transaction, or a dead letter, and never two of these, though calls   *)
(* that lost their lease still run (claim_next, commit_handoff, defer).  *)
OneOutcomePerRow ==
    /\ \A h \in handoffs : work[h.event].status = "admitted"
    /\ \A e \in dead : work[e].status = "dead_letter"
    /\ \A e \in Known : work[e].status = "admitted" =>
          \E h \in handoffs : h.transaction = TransactionOf[e]

(* The sink and the inbox agree: each admission has exactly one handoff, *)
(* and the other way round (commit_handoff, UnifiedA3AdmissionSink).     *)
AdmissionsMatchHandoffs ==
    /\ admitted = {h.transaction : h \in handoffs}
    /\ \A h, k \in handoffs : h.transaction = k.transaction => h = k

Claimed(c) == calls[c].pc \notin {"idle", "claim"}

(* Two calls never both pass _assert_fence for a row, even under one     *)
(* worker id (claim_next, _assert_fence).                                *)
ClaimsAreExclusive ==
    \A c, d \in Caller :
        c # d /\ Claimed(c) /\ Claimed(d) /\ calls[c].event = calls[d].event
        => ~(HoldsFence(c) /\ HoldsFence(d))
=============================================================================
