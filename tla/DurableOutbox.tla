---------------------------- MODULE DurableOutbox ----------------------------
(***************************************************************************)
(* The transactional outbox of the durable store (durability/lifecycle.py, *)
(* claim_outbox and complete_outbox as overridden in                       *)
(* durability/trusted_time_store.py).  A committed journal event adds one  *)
(* row; publishers claim rows under the lease of the row's topic, publish  *)
(* them, and mark them completed; retention purges completed rows.         *)
(*                                                                         *)
(* claim_outbox is three steps, each its own transaction or clock read:    *)
(* the call reads the clock, acquire_lease commits, and the rows are       *)
(* claimed later against the first clock reading.  A publisher keeps the   *)
(* items it was given, so it may publish or complete one late, or twice.   *)
(***************************************************************************)
EXTENDS Leases, FiniteSets

CONSTANTS
    Publisher,    \* owner ids that run claim_outbox
    Topic,        \* outbox topics; the lease of topic t is resource t
    TopicsOf,     \* TopicsOf[p]: the topics publisher p serves
    EventId,      \* journal events (each has a unique event_id)
    Limit,        \* claim_outbox(limit=)
    MaxRow        \* bound: outbox_id

ASSUME OutboxAssumption ==
    /\ Publisher \subseteq Owner
    /\ Topic \subseteq Resource /\ Topic # {}
    /\ TopicsOf \in [Publisher -> SUBSET Topic]
    /\ Limit \in Nat \ {0} /\ MaxRow \in Nat \ {0}

VARIABLES
    outbox,       \* durable_outbox rows, each with its claim
    calls,        \* calls[p]: p's claim_outbox call in progress
    handles,      \* handles[p]: the OutboxItems p was given
    ledger,       \* retention_ledger: outbox ids recorded as purged
    emitted,      \* ghost: events committed with an outbox row
    published     \* ghost: events some publisher delivered outside

outboxVars == <<outbox, calls, handles, ledger, emitted, published>>
outboxAllVars == <<leaseVars, outboxVars>>

-----------------------------------------------------------------------------
RowId == 1..MaxRow

Row == [id : RowId, event : EventId, topic : Topic,
        status : {"pending", "completed"},
        owner : Publisher \cup {NoOwner}, fence : 0..MaxFence,
        boot : 0..MaxBoot, until : Nat]

Item == [id : RowId, event : EventId, fence : 0..MaxFence]

Call == [pc : {"idle", "leasing", "claiming"}, topic : Topic,
         now : 0..MaxTick, fence : 0..MaxFence]

Idle(c) == c.pc = "idle"

OutboxTypeOK ==
    /\ LeaseTypeOK
    /\ outbox \subseteq Row
    /\ calls \in [Publisher -> Call]
    /\ handles \in [Publisher -> SUBSET Item]
    /\ ledger \subseteq RowId
    /\ emitted \subseteq EventId
    /\ published \subseteq EventId

NoCall == [pc |-> "idle", topic |-> CHOOSE t \in Topic : TRUE,
           now |-> 0, fence |-> 0]

OutboxInit ==
    /\ LeaseInit
    /\ outbox = {}
    /\ calls = [p \in Publisher |-> NoCall]
    /\ handles = [p \in Publisher |-> {}]
    /\ ledger = {}
    /\ emitted = {} /\ published = {}

-----------------------------------------------------------------------------
(* outbox_id is INTEGER PRIMARY KEY without AUTOINCREMENT: SQLite gives a  *)
(* new row the largest id in the table plus one, so the id of a purged     *)
(* last row is given out again.                                            *)
IsNextId(n) ==
    /\ \A r \in outbox : r.id < n
    /\ n = 1 \/ \E r \in outbox : r.id = n - 1

NewRow(n, e, t) == [id |-> n, event |-> e, topic |-> t, status |-> "pending",
                    owner |-> NoOwner, fence |-> 0, boot |-> 0, until |-> 0]

(* _event: the row is inserted in the transaction that commits event e. *)
Enqueue(e, t) ==
    /\ e \notin emitted
    /\ emitted' = emitted \cup {e}
    /\ \E n \in RowId : IsNextId(n) /\ outbox' = outbox \cup {NewRow(n, e, t)}
    /\ UNCHANGED <<calls, handles, ledger, published>>

-----------------------------------------------------------------------------
(* claim_outbox, first step: the call reads the clock. *)
ClaimStart(p, t) ==
    /\ Idle(calls[p])
    /\ t \in TopicsOf[p]
    /\ calls' = [calls EXCEPT ![p] = [pc |-> "leasing", topic |-> t,
                                      now |-> clock.tick, fence |-> 0]]
    /\ UNCHANGED <<leaseVars, outbox, handles, ledger, emitted, published>>

(* Second step: acquire_lease on the topic commits, or refuses. *)
ClaimLease(p) ==
    /\ calls[p].pc = "leasing"
    /\ AcquireLease(p, calls[p].topic)
    /\ calls' = [calls EXCEPT ![p] =
           [@ EXCEPT !.pc = "claiming", !.fence = leases[calls[p].topic].fence + 1]]
    /\ UNCHANGED <<outbox, handles, ledger, emitted, published>>

ClaimRefused(p) ==
    /\ calls[p].pc = "leasing"
    /\ ~Free(p, calls[p].topic)
    /\ calls' = [calls EXCEPT ![p] = NoCall]
    /\ UNCHANGED <<leaseVars, outbox, handles, ledger, emitted, published>>

(* Claimable with a bug: the claim a row already has is ignored. *)
ClaimableAnyway(r, c) == TRUE

(* The claim rows are judged by the reading of the first step; a claim of  *)
(* an earlier boot, or none (boot 0), counts as expired.                   *)
Claimable(r, c) == r.boot = clock.boot => r.until <= c.now

FirstById(n, rows) ==
    {r \in rows : Cardinality({q \in rows : q.id < r.id}) < n}

(* ORDER BY outbox_id LIMIT 4*limit pending rows of the topic, of which    *)
(* the first limit that are not claimed by someone live.  available_at_ns  *)
(* (UTC) is left out: every row the code may claim is claimable here.      *)
ClaimSet(c) ==
    LET pending == {r \in outbox : r.topic = c.topic /\ r.status = "pending"}
    IN  FirstById(Limit, {r \in FirstById(4 * Limit, pending) : Claimable(r, c)})

(* ClaimedRow with a bug: the deadline is set before the claim. *)
ClaimedRowBackwards(r, p, c) == [r EXCEPT !.owner = p, !.fence = c.fence,
                                          !.boot = clock.boot, !.until = c.now - TTL]

ClaimedRow(r, p, c) == [r EXCEPT !.owner = p, !.fence = c.fence,
                                 !.boot = clock.boot, !.until = c.now + TTL]

(* Third step: claim and return the items.  The topic lease is not         *)
(* verified again.                                                         *)
ClaimRows(p) ==
    LET c == calls[p]
        S == ClaimSet(c)
    IN  /\ c.pc = "claiming"
        /\ outbox' = (outbox \ S) \cup {ClaimedRow(r, p, c) : r \in S}
        /\ handles' = [handles EXCEPT ![p] = @ \cup
               {[id |-> r.id, event |-> r.event, fence |-> c.fence] : r \in S}]
        /\ calls' = [calls EXCEPT ![p] = NoCall]
        /\ UNCHANGED <<leaseVars, ledger, emitted, published>>

(* The publisher delivers the item outside; it may do so again. *)
Publish(p, h) ==
    /\ h \in handles[p]
    /\ published' = published \cup {h.event}
    /\ UNCHANGED <<leaseVars, outbox, calls, handles, ledger, emitted>>

(* Completable with a bug: the item's fence is not compared. *)
CompletableUnfenced(r, p, h, now) ==
    /\ r.id = h.id
    /\ r.status = "pending"
    /\ r.owner = p
    /\ r.boot = clock.boot /\ r.until > now

(* complete_outbox finds the row by outbox_id, owner and fence of the      *)
(* item, with a claim of this boot that had not expired at the reading now *)
(* the call took before it waited for its transaction.                     *)
Completable(r, p, h, now) ==
    /\ r.id = h.id
    /\ r.status = "pending"
    /\ r.owner = p
    /\ r.fence = h.fence
    /\ r.boot = clock.boot /\ r.until > now

(* A publisher completes an item only after delivering it; it may repeat   *)
(* the call, for instance when it did not see the first answer.            *)
Complete(p, h) ==
    /\ h \in handles[p]
    /\ h.event \in published
    /\ \E r \in outbox, now \in 0..clock.tick :
          /\ Completable(r, p, h, now)
          /\ outbox' = (outbox \ {r}) \cup {[r EXCEPT !.status = "completed"]}
    /\ UNCHANGED <<leaseVars, calls, handles, ledger, emitted, published>>

(* purge_completed_outbox deletes the completed rows older than a cutoff   *)
(* and records each id once (INSERT OR IGNORE).  completed_at_ns is UTC    *)
(* and UTC may step, so any set of completed rows may be the older ones.   *)
Completed == {r \in outbox : r.status = "completed"}

PurgeCompleted(S) ==
    /\ S \subseteq Completed
    /\ S # {}
    /\ outbox' = outbox \ S
    /\ ledger' = ledger \cup {r.id : r \in S}
    /\ UNCHANGED <<leaseVars, calls, handles, emitted, published>>

-----------------------------------------------------------------------------
(* A publisher dies: it forgets its tokens, items and call in progress. *)
PublisherCrash(p) ==
    /\ ForgetTokens(p)
    /\ calls' = [calls EXCEPT ![p] = NoCall]
    /\ handles' = [handles EXCEPT ![p] = {}]
    /\ UNCHANGED <<outbox, ledger, emitted, published>>

OutboxReboot ==
    /\ RebootClock
    /\ calls' = [p \in Publisher |-> NoCall]
    /\ handles' = [p \in Publisher |-> {}]
    /\ UNCHANGED <<outbox, ledger, emitted, published>>

(* Everything the outbox does by itself, whoever commits the events. *)
PublisherStep(p) ==
    \/ \E t \in Topic : ClaimStart(p, t)
    \/ ClaimLease(p)
    \/ ClaimRefused(p)
    \/ ClaimRows(p)
    \/ \E h \in handles[p] : Publish(p, h) \/ Complete(p, h)
    \/ PublisherCrash(p)

OutboxStep ==
    \/ \E p \in Publisher : PublisherStep(p)
    \/ \E S \in SUBSET Completed : PurgeCompleted(S)

(* The rest of the store as the outbox sees it: events are committed,      *)
(* leases taken by anyone for any other resource, tokens forgotten.        *)
OutboxEnvironment ==
    \/ \E e \in EventId, t \in Topic : Enqueue(e, t) /\ UNCHANGED leaseVars
    \/ \E o \in Owner, r \in Resource \ Topic :
          AcquireLease(o, r) /\ UNCHANGED outboxVars
    \/ \E o \in Owner : ForgetTokens(o) /\ UNCHANGED outboxVars
    \/ Tick /\ UNCHANGED outboxVars
    \/ OutboxReboot

OutboxNext == OutboxStep \/ OutboxEnvironment

OutboxSpec == OutboxInit /\ [][OutboxNext]_outboxAllVars
-----------------------------------------------------------------------------
(* At-least-once delivery: an event whose outbox row was committed is      *)
(* either delivered by some publisher or still pending.  Crashes, late     *)
(* and repeated complete_outbox calls, purges and the reuse of outbox ids  *)
(* never lose an undelivered event.                                        *)
EventsSurviveUntilPublished ==
    \A e \in emitted :
        e \in published \/ \E r \in outbox : r.event = e /\ r.status = "pending"

(* The events that wait for delivery: those with a pending row. *)
Pending == {r.event : r \in {x \in outbox : x.status = "pending"}}

(* The outbox implements its abstract specification: rows, claims, fences  *)
(* and reused ids never let an event go that no publisher delivered, bring *)
(* a settled one back, or deliver what was not committed.                  *)
Abstract == INSTANCE Delivery
    WITH committed <- emitted, delivered <- published, waiting <- Pending

ImplementsDelivery == Abstract!DeliverySpec

(* claim_outbox takes a row over only when its claim has expired by the    *)
(* clock at that moment, although it judges the claim by an older reading  *)
(* and does not verify its topic lease again.                              *)
LiveClaimsAreKept ==
    [][\A r \in outbox, s \in outbox' :
          /\ r.event = s.event
          /\ <<r.owner, r.fence>> # <<s.owner, s.fence>>
          => ~Live(r.boot, r.until)]_outboxAllVars

(* The condition under which delivery is at least once: an owner id serves *)
(* one topic, so that the fences of its claims come from one lease.        *)
OneTopicEach ==
    \A p \in Publisher : \A t, u \in TopicsOf[p] : t = u
=============================================================================
