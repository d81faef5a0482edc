------------------------- MODULE DurableOutboxProofs -------------------------
(***************************************************************************)
(* Theorems about the outbox for every number of publishers, topics and    *)
(* events and every bound: types, the safety of live claims, and delivery  *)
(* at least once when an owner id serves one topic.                        *)
(***************************************************************************)
EXTENDS DurableOutbox, TLAPS

(* A lease acquisition keeps the types of the lease state. *)
LEMMA AcquireKeepsTypes ==
    ASSUME LeaseTypeOK, NEW o \in Owner, NEW r \in Resource, AcquireLease(o, r)
    PROVE  /\ LeaseTypeOK'
           /\ leases[r].fence + 1 \in 1..MaxFence
<1> USE LeaseAssumption
<1>1. leases[r] \in LeaseRow
  BY DEF LeaseTypeOK
<1>2. leases[r].fence + 1 \in 1..MaxFence
  BY <1>1 DEF LeaseRow, AcquireLease
<1>3. clock.tick + TTL \in Nat /\ clock.boot \in 0..MaxBoot
  BY DEF LeaseTypeOK, Instant
<1>4. Granted(o, r) \in LeaseRow
  BY <1>2, <1>3 DEF Granted, LeaseRow
<1>5. leases' \in [Resource -> LeaseRow]
  BY <1>4 DEF AcquireLease, LeaseTypeOK
<1>6. held' \in [Owner -> [Resource -> 0..MaxFence]]
  BY <1>2 DEF AcquireLease, LeaseTypeOK
<1> QED BY <1>2, <1>5, <1>6 DEF AcquireLease, LeaseTypeOK

(* So do the steps of the clock and the loss of tokens. *)
LEMMA ClockKeepsTypes ==
    ASSUME LeaseTypeOK
    PROVE  /\ Tick => LeaseTypeOK'
           /\ \A o \in Owner : ForgetTokens(o) => LeaseTypeOK'
           /\ RebootClock => LeaseTypeOK'
<1> USE LeaseAssumption
<1>1. ASSUME Tick PROVE LeaseTypeOK'
  <2>1. clock' \in Instant
    BY <1>1 DEF Tick, LeaseTypeOK, Instant
  <2> QED BY <1>1, <2>1 DEF Tick, LeaseTypeOK
<1>2. ASSUME NEW o \in Owner, ForgetTokens(o) PROVE LeaseTypeOK'
  <2>1. held' \in [Owner -> [Resource -> 0..MaxFence]]
    BY <1>2 DEF ForgetTokens, LeaseTypeOK
  <2> QED BY <1>2, <2>1 DEF ForgetTokens, LeaseTypeOK
<1>3. ASSUME RebootClock PROVE LeaseTypeOK'
  <2>1. clock' \in Instant
    BY <1>3 DEF RebootClock, LeaseTypeOK, Instant
  <2>2. held' \in [Owner -> [Resource -> 0..MaxFence]]
    BY <1>3 DEF RebootClock
  <2> QED BY <1>3, <2>1, <2>2 DEF RebootClock, LeaseTypeOK
<1> QED BY <1>1, <1>2, <1>3

(* A claimed row and a new row are rows. *)
LEMMA ClaimedRowIsRow ==
    ASSUME OutboxTypeOK, NEW p \in Publisher, NEW r \in outbox
    PROVE  ClaimedRow(r, p, calls[p]) \in Row
<1> USE LeaseAssumption, OutboxAssumption
<1>1. calls[p] \in Call /\ r \in Row
  BY DEF OutboxTypeOK
<1>2. clock.boot \in 0..MaxBoot /\ calls[p].now + TTL \in Nat
  BY <1>1 DEF OutboxTypeOK, LeaseTypeOK, Instant, Call
<1> QED BY <1>1, <1>2 DEF ClaimedRow, Row, Call

(* Claiming looks only at rows of the call's topic, all of them pending. *)
LEMMA ClaimSetIsPending ==
    ASSUME NEW c, NEW r \in ClaimSet(c)
    PROVE  r \in outbox /\ r.status = "pending" /\ Claimable(r, c)
BY DEF ClaimSet, FirstById

(* Initially the types hold. *)
LEMMA InitTypes == OutboxInit => OutboxTypeOK
<1> USE LeaseAssumption, OutboxAssumption
<1> SUFFICES ASSUME OutboxInit PROVE OutboxTypeOK
  OBVIOUS
<1>1. LeaseTypeOK
  BY DEF OutboxInit, LeaseInit, LeaseTypeOK, Instant, LeaseRow, NoLease
<1>2. NoCall \in Call
  BY DEF NoCall, Call
<1> QED BY <1>1, <1>2 DEF OutboxInit, OutboxTypeOK

(* Every kind of step of OutboxNext keeps the types; used again for the    *)
(* lifecycle store, whose steps are outbox steps too.                      *)
LEMMA OutboxStepKeepsTypes ==
    ASSUME OutboxTypeOK, [OutboxNext]_outboxAllVars
    PROVE  OutboxTypeOK'
<1> USE LeaseAssumption, OutboxAssumption
<1>0. LeaseTypeOK
  BY DEF OutboxTypeOK
<1>1. ASSUME NEW p \in Publisher, NEW t \in Topic, ClaimStart(p, t)
      PROVE  OutboxTypeOK'
  <2>1. [pc |-> "leasing", topic |-> t, now |-> clock.tick, fence |-> 0] \in Call
    BY DEF Call, OutboxTypeOK, LeaseTypeOK, Instant
  <2> QED BY <1>1, <2>1 DEF ClaimStart, OutboxTypeOK, LeaseTypeOK, leaseVars
<1>2. ASSUME NEW p \in Publisher, ClaimLease(p)
      PROVE  OutboxTypeOK'
  <2>1. calls[p] \in Call /\ calls[p].topic \in Resource /\ p \in Owner
    BY DEF Call, OutboxTypeOK
  <2>2. LeaseTypeOK' /\ leases[calls[p].topic].fence + 1 \in 1..MaxFence
    BY <1>0, <1>2, <2>1, AcquireKeepsTypes DEF ClaimLease
  <2>3. [calls[p] EXCEPT !.pc = "claiming",
                         !.fence = leases[calls[p].topic].fence + 1] \in Call
    <3> DEFINE n == leases[calls[p].topic].fence + 1
    <3>1. n \in 0..MaxFence
      BY <2>2
    <3> HIDE DEF n
    <3>2. [calls[p] EXCEPT !.pc = "claiming", !.fence = n] \in Call
      BY <2>1, <3>1 DEF Call
    <3> QED BY <3>2 DEF n
  <2>4. calls' \in [Publisher -> Call]
    BY <1>2, <2>3 DEF ClaimLease, OutboxTypeOK
  <2> QED BY <1>2, <2>2, <2>4 DEF ClaimLease, OutboxTypeOK
<1>3. ASSUME NEW p \in Publisher, ClaimRefused(p)
      PROVE  OutboxTypeOK'
  <2>1. NoCall \in Call
    BY DEF NoCall, Call
  <2> QED BY <1>3, <2>1 DEF ClaimRefused, OutboxTypeOK, LeaseTypeOK, leaseVars
<1>4. ASSUME NEW p \in Publisher, ClaimRows(p)
      PROVE  OutboxTypeOK'
  <2> DEFINE c == calls[p]
             items == {[id |-> r.id, event |-> r.event, fence |-> c.fence] :
                           r \in ClaimSet(c)}
  <2>1. c \in Call /\ NoCall \in Call
    BY DEF OutboxTypeOK, NoCall, Call
  <2>2. \A r \in ClaimSet(c) : r \in outbox
    BY ClaimSetIsPending
  <2>3. outbox' \subseteq Row
    BY <1>4, <2>2, ClaimedRowIsRow DEF ClaimRows, OutboxTypeOK
  <2>4. items \subseteq Item
    BY <2>1, <2>2 DEF OutboxTypeOK, Row, Item, Call
  <2>5. handles' \in [Publisher -> SUBSET Item]
    BY <1>4, <2>4 DEF ClaimRows, OutboxTypeOK
  <2>6. calls' \in [Publisher -> Call]
    BY <1>4, <2>1 DEF ClaimRows, OutboxTypeOK
  <2> QED BY <1>4, <2>3, <2>5, <2>6
          DEF ClaimRows, OutboxTypeOK, LeaseTypeOK, leaseVars
<1>5. ASSUME NEW p \in Publisher, NEW h \in handles[p], Publish(p, h)
      PROVE  OutboxTypeOK'
  <2>1. h.event \in EventId
    BY DEF OutboxTypeOK, Item
  <2> QED BY <1>5, <2>1 DEF Publish, OutboxTypeOK, LeaseTypeOK, leaseVars
<1>6. ASSUME NEW p \in Publisher, NEW h \in handles[p], Complete(p, h)
      PROVE  OutboxTypeOK'
  <2>1. PICK r \in outbox :
           outbox' = (outbox \ {r}) \cup {[r EXCEPT !.status = "completed"]}
    BY <1>6 DEF Complete
  <2>2. [r EXCEPT !.status = "completed"] \in Row
    BY DEF OutboxTypeOK, Row
  <2>3. outbox' \subseteq Row
    BY <2>1, <2>2 DEF OutboxTypeOK
  <2> QED BY <1>6, <2>3 DEF Complete, OutboxTypeOK, LeaseTypeOK, leaseVars
<1>7. ASSUME NEW p \in Publisher, PublisherCrash(p)
      PROVE  OutboxTypeOK'
  <2>1. NoCall \in Call
    BY DEF NoCall, Call
  <2>2. LeaseTypeOK'
    BY <1>0, <1>7, ClockKeepsTypes DEF PublisherCrash
  <2> QED BY <1>7, <2>1, <2>2 DEF PublisherCrash, OutboxTypeOK
<1>8. ASSUME NEW S \in SUBSET Completed, PurgeCompleted(S)
      PROVE  OutboxTypeOK'
  <2>1. \A r \in S : r.id \in RowId /\ r.event \in EventId
    BY DEF Completed, OutboxTypeOK, Row
  <2> QED BY <1>8, <2>1 DEF PurgeCompleted, OutboxTypeOK, LeaseTypeOK, leaseVars
<1>9. ASSUME NEW e \in EventId, NEW t \in Topic, Enqueue(e, t), UNCHANGED leaseVars
      PROVE  OutboxTypeOK'
  <2>1. PICK n \in RowId : outbox' = outbox \cup {NewRow(n, e, t)}
    BY <1>9 DEF Enqueue
  <2>2. NewRow(n, e, t) \in Row
    BY DEF NewRow, Row
  <2> QED BY <1>9, <2>1, <2>2 DEF Enqueue, OutboxTypeOK, LeaseTypeOK, leaseVars
<1>10. ASSUME UNCHANGED outboxVars, LeaseTypeOK'
       PROVE  OutboxTypeOK'
  BY <1>10 DEF outboxVars, OutboxTypeOK
<1>11. ASSUME NEW o \in Owner, NEW r \in Resource \ Topic,
              AcquireLease(o, r), UNCHANGED outboxVars
       PROVE  OutboxTypeOK'
  BY <1>0, <1>10, <1>11, AcquireKeepsTypes
<1>12. ASSUME UNCHANGED outboxVars, Tick \/ \E o \in Owner : ForgetTokens(o)
       PROVE  OutboxTypeOK'
  BY <1>0, <1>10, <1>12, ClockKeepsTypes
<1>13. ASSUME OutboxReboot
       PROVE  OutboxTypeOK'
  <2>1. NoCall \in Call
    BY DEF NoCall, Call
  <2>2. LeaseTypeOK'
    BY <1>0, <1>13, ClockKeepsTypes DEF OutboxReboot
  <2> QED BY <1>13, <2>1, <2>2 DEF OutboxReboot, OutboxTypeOK
<1>14. ASSUME UNCHANGED outboxAllVars
       PROVE  OutboxTypeOK'
  BY <1>14 DEF outboxAllVars, outboxVars, leaseVars, OutboxTypeOK, LeaseTypeOK
<1>15. CASE OutboxStep
  BY <1>15, <1>1, <1>2, <1>3, <1>4, <1>5, <1>6, <1>7, <1>8
  DEF OutboxStep, PublisherStep
<1>16. CASE OutboxEnvironment
  BY <1>16, <1>9, <1>11, <1>12, <1>13 DEF OutboxEnvironment
<1> QED BY <1>14, <1>15, <1>16 DEF OutboxNext

(* The outbox, its leases and its publishers' calls keep their types for   *)
(* every number of publishers, topics and events.                          *)
THEOREM OutboxTypeCorrect == OutboxSpec => []OutboxTypeOK
<1>1. OutboxInit => OutboxTypeOK
  BY InitTypes
<1>2. OutboxTypeOK /\ [OutboxNext]_outboxAllVars => OutboxTypeOK'
  BY OutboxStepKeepsTypes
<1> QED BY <1>1, <1>2, PTL DEF OutboxSpec

(* A lease row changes only by an acquisition, which enlarges its fence.   *)
LEMMA LeaseRowSteps ==
    ASSUME OutboxTypeOK, [OutboxNext]_outboxAllVars, NEW r \in Resource
    PROVE  leases'[r] = leases[r] \/ leases'[r].fence = leases[r].fence + 1
<1> USE LeaseAssumption, OutboxAssumption
<1>1. ASSUME NEW o \in Owner, NEW q \in Resource, AcquireLease(o, q)
      PROVE  leases'[r] = leases[r] \/ leases'[r].fence = leases[r].fence + 1
  <2>1. Granted(o, q).fence = leases[q].fence + 1
    BY DEF Granted
  <2> QED BY <1>1, <2>1 DEF AcquireLease, OutboxTypeOK, LeaseTypeOK
<1>2. ASSUME NEW p \in Publisher, ClaimLease(p)
      PROVE  leases'[r] = leases[r] \/ leases'[r].fence = leases[r].fence + 1
  <2>1. p \in Owner /\ calls[p].topic \in Resource
    BY DEF OutboxTypeOK, Call
  <2> QED BY <1>1, <1>2, <2>1 DEF ClaimLease
<1>3. CASE OutboxStep
  BY <1>2, <1>3
  DEF OutboxStep, PublisherStep, ClaimStart, ClaimRefused, ClaimRows, Publish,
      Complete, PublisherCrash, ForgetTokens, PurgeCompleted, leaseVars
<1>4. CASE OutboxEnvironment
  BY <1>1, <1>4
  DEF OutboxEnvironment, leaseVars, ForgetTokens, Tick, OutboxReboot, RebootClock
<1> QED BY <1>3, <1>4 DEF OutboxNext, outboxAllVars, leaseVars

(* acquire_lease only ever raises the fence of a resource. *)
LEMMA FencesGrow ==
    ASSUME OutboxTypeOK, [OutboxNext]_outboxAllVars, NEW r \in Resource
    PROVE  leases[r].fence <= leases'[r].fence
<1>1. leases[r].fence \in Nat
  BY LeaseAssumption DEF OutboxTypeOK, LeaseTypeOK, LeaseRow
<1> QED BY <1>1, LeaseRowSteps

-----------------------------------------------------------------------------
(* What LiveClaimsAreKept rests on: an event has one row, every row's      *)
(* event was committed, and a call's clock reading is never in the future. *)
OneRowPerEvent ==
    /\ \A r, s \in outbox : r.event = s.event => r = s
    /\ \A r \in outbox : r.event \in emitted

ReadingsArePast == \A p \in Publisher : calls[p].now <= clock.tick

ClaimInv == OutboxTypeOK /\ OneRowPerEvent /\ ReadingsArePast

(* Every step keeps one outbox row per event. *)
LEMMA OneRowPerEventStep ==
    ASSUME OutboxTypeOK, OneRowPerEvent, [OutboxNext]_outboxAllVars
    PROVE  OneRowPerEvent'
<1>1. ASSUME NEW p \in Publisher, ClaimRows(p)
      PROVE  OneRowPerEvent'
  <2>1. \A r \in ClaimSet(calls[p]) :
           r \in outbox /\ ClaimedRow(r, p, calls[p]).event = r.event
    BY ClaimSetIsPending DEF ClaimedRow, OutboxTypeOK, Row
  <2>2. \A s \in outbox' : \E r \in outbox :
           /\ s.event = r.event
           /\ \/ s = r /\ r \notin ClaimSet(calls[p])
              \/ s = ClaimedRow(r, p, calls[p]) /\ r \in ClaimSet(calls[p])
    BY <1>1, <2>1 DEF ClaimRows
  <2> QED BY <1>1, <2>2 DEF ClaimRows, OneRowPerEvent
<1>2. ASSUME NEW p \in Publisher, NEW h \in handles[p], Complete(p, h)
      PROVE  OneRowPerEvent'
  <2>1. PICK r \in outbox :
           outbox' = (outbox \ {r}) \cup {[r EXCEPT !.status = "completed"]}
    BY <1>2 DEF Complete
  <2>2. [r EXCEPT !.status = "completed"].event = r.event
    BY DEF OutboxTypeOK, Row
  <2> QED BY <1>2, <2>1, <2>2 DEF Complete, OneRowPerEvent
<1>3. ASSUME NEW e \in EventId, NEW t \in Topic, Enqueue(e, t)
      PROVE  OneRowPerEvent'
  <2>1. PICK n \in RowId : outbox' = outbox \cup {NewRow(n, e, t)}
    BY <1>3 DEF Enqueue
  <2>2. NewRow(n, e, t).event = e
    BY DEF NewRow
  <2> QED BY <1>3, <2>1, <2>2 DEF Enqueue, OneRowPerEvent
<1>4. ASSUME NEW S \in SUBSET Completed, PurgeCompleted(S)
      PROVE  OneRowPerEvent'
  BY <1>4 DEF PurgeCompleted, OneRowPerEvent
<1>5. ASSUME UNCHANGED <<outbox, emitted>>
      PROVE  OneRowPerEvent'
  BY <1>5 DEF OneRowPerEvent
<1>6. CASE OutboxStep
  BY <1>1, <1>2, <1>4, <1>5, <1>6
  DEF OutboxStep, PublisherStep, ClaimStart, ClaimLease, ClaimRefused, Publish,
      PublisherCrash
<1>7. CASE OutboxEnvironment
  BY <1>3, <1>5, <1>7 DEF OutboxEnvironment, OutboxReboot, outboxVars
<1> QED BY <1>5, <1>6, <1>7 DEF OutboxNext, outboxAllVars, outboxVars

(* The clock reading of a claim_outbox in progress stays in the past. *)
LEMMA ReadingsArePastStep ==
    ASSUME OutboxTypeOK, ReadingsArePast, [OutboxNext]_outboxAllVars
    PROVE  ReadingsArePast'
<1> USE LeaseAssumption, OutboxAssumption
<1>0. /\ clock.tick \in Nat
      /\ \A p \in Publisher : calls[p] \in Call /\ calls[p].now \in Nat
      /\ NoCall.now = 0
  BY DEF OutboxTypeOK, LeaseTypeOK, Instant, Call, NoCall
<1>1. ASSUME UNCHANGED clock,
             NEW p \in Publisher, NEW c, c.now <= clock.tick,
             calls' = [calls EXCEPT ![p] = c]
      PROVE  ReadingsArePast'
  BY <1>1 DEF ReadingsArePast, OutboxTypeOK
<1>2. ASSUME UNCHANGED calls, clock.tick <= clock'.tick, clock'.tick \in Nat
      PROVE  ReadingsArePast'
  BY <1>0, <1>2 DEF ReadingsArePast
<1>3. ASSUME NEW p \in Publisher, PublisherStep(p)
      PROVE  ReadingsArePast'
  <2>1. ASSUME NEW t \in Topic, ClaimStart(p, t) PROVE ReadingsArePast'
    <3> DEFINE d == [pc |-> "leasing", topic |-> t, now |-> clock.tick, fence |-> 0]
    <3>1. d.now <= clock.tick
      BY <1>0
    <3>2. calls' = [calls EXCEPT ![p] = d] /\ UNCHANGED clock
      BY <2>1 DEF ClaimStart, leaseVars
    <3> QED BY <1>1, <3>1, <3>2
  <2>2. CASE ClaimLease(p)
    <3> DEFINE d == [calls[p] EXCEPT !.pc = "claiming",
                          !.fence = leases[calls[p].topic].fence + 1]
    <3>1. d.now = calls[p].now
      BY <1>0 DEF Call
    <3>2. d.now <= clock.tick
      BY <3>1 DEF ReadingsArePast
    <3>3. calls' = [calls EXCEPT ![p] = d] /\ UNCHANGED clock
      BY <2>2 DEF ClaimLease, AcquireLease
    <3> HIDE DEF d
    <3> QED BY <1>1, <3>2, <3>3
  <2>3. CASE ClaimRefused(p) \/ ClaimRows(p)
    <3>1. calls' = [calls EXCEPT ![p] = NoCall] /\ UNCHANGED clock
      BY <2>3 DEF ClaimRefused, ClaimRows, leaseVars
    <3>2. NoCall.now <= clock.tick
      BY <1>0
    <3> QED BY <1>1, <3>1, <3>2
  <2>4. CASE PublisherCrash(p)
    <3>1. calls' = [calls EXCEPT ![p] = NoCall] /\ UNCHANGED clock
      BY <2>4 DEF PublisherCrash, ForgetTokens
    <3>2. NoCall.now <= clock.tick
      BY <1>0
    <3> QED BY <1>1, <3>1, <3>2
  <2>5. ASSUME NEW h \in handles[p], Publish(p, h) \/ Complete(p, h)
        PROVE  ReadingsArePast'
    BY <1>0, <1>2, <2>5 DEF Publish, Complete, leaseVars
  <2> QED BY <1>3, <2>1, <2>2, <2>3, <2>4, <2>5 DEF PublisherStep
<1>4. ASSUME NEW S \in SUBSET Completed, PurgeCompleted(S)
      PROVE  ReadingsArePast'
  BY <1>0, <1>2, <1>4 DEF PurgeCompleted, leaseVars
<1>5. CASE OutboxEnvironment
  <2>1. CASE OutboxReboot
    <3>1. clock'.tick = 0
      BY <2>1 DEF OutboxReboot, RebootClock
    <3> QED BY <1>0, <2>1, <3>1 DEF OutboxReboot, ReadingsArePast
  <2>2. CASE Tick /\ UNCHANGED outboxVars
    <3>1. clock'.tick = clock.tick + 1
      BY <2>2 DEF Tick, OutboxTypeOK, LeaseTypeOK, Instant
    <3> QED BY <1>0, <1>2, <2>2, <3>1 DEF outboxVars
  <2>3. ASSUME UNCHANGED <<calls, clock>> PROVE ReadingsArePast'
    BY <1>0, <1>2, <2>3
  <2> QED BY <1>5, <2>1, <2>2, <2>3
          DEF OutboxEnvironment, Enqueue, AcquireLease, ForgetTokens, outboxVars,
              leaseVars
<1>6. CASE UNCHANGED outboxAllVars
  BY <1>6 DEF outboxAllVars, outboxVars, leaseVars, ReadingsArePast
<1> QED BY <1>3, <1>4, <1>5, <1>6 DEF OutboxNext, OutboxStep

(* A row of one event carries another claim after a step only when the     *)
(* claim it carried is not live.                                           *)
LEMMA LiveClaimsStep ==
    ASSUME ClaimInv, [OutboxNext]_outboxAllVars,
           NEW r \in outbox, NEW s \in outbox', r.event = s.event,
           <<r.owner, r.fence>> # <<s.owner, s.fence>>
    PROVE  ~Live(r.boot, r.until)
<1> USE DEF ClaimInv
<1>0. r \in Row
  BY DEF OutboxTypeOK
<1>1. ASSUME NEW p \in Publisher, ClaimRows(p)
      PROVE  ~Live(r.boot, r.until)
  <2>1. PICK q \in ClaimSet(calls[p]) : s = ClaimedRow(q, p, calls[p])
    BY <1>1 DEF ClaimRows, OneRowPerEvent
  <2>2. q \in outbox /\ Claimable(q, calls[p])
    BY ClaimSetIsPending
  <2>3. s.event = q.event
    BY <2>1, <2>2 DEF ClaimedRow, OutboxTypeOK, Row
  <2>4. q = r
    BY <2>2, <2>3 DEF OneRowPerEvent
  <2>5. /\ calls[p].now <= clock.tick
        /\ calls[p].now \in Nat /\ clock.tick \in Nat /\ r.until \in Nat
    BY <1>0, LeaseAssumption
    DEF ReadingsArePast, OutboxTypeOK, LeaseTypeOK, Instant, Call, Row
  <2> QED BY <2>2, <2>4, <2>5 DEF Claimable, Live
<1>2. ASSUME NEW p \in Publisher, NEW h \in handles[p], Complete(p, h)
      PROVE  FALSE
  <2>1. PICK q \in outbox :
           outbox' = (outbox \ {q}) \cup {[q EXCEPT !.status = "completed"]}
    BY <1>2 DEF Complete
  <2>2. LET d == [q EXCEPT !.status = "completed"]
        IN  d.event = q.event /\ d.owner = q.owner /\ d.fence = q.fence
    BY DEF OutboxTypeOK, Row
  <2> QED BY <2>1, <2>2 DEF OneRowPerEvent
<1>3. ASSUME NEW e \in EventId, NEW t \in Topic, Enqueue(e, t)
      PROVE  FALSE
  <2>1. PICK n \in RowId : outbox' = outbox \cup {NewRow(n, e, t)}
    BY <1>3 DEF Enqueue
  <2>2. NewRow(n, e, t).event = e
    BY DEF NewRow
  <2> QED BY <1>3, <2>1, <2>2 DEF Enqueue, OneRowPerEvent
<1>4. ASSUME outbox' \subseteq outbox
      PROVE  FALSE
  BY <1>4 DEF OneRowPerEvent
<1>5. CASE OutboxStep
  BY <1>1, <1>2, <1>4, <1>5
  DEF OutboxStep, PublisherStep, ClaimStart, ClaimLease, ClaimRefused, Publish,
      PublisherCrash, PurgeCompleted
<1>6. CASE OutboxEnvironment
  BY <1>3, <1>4, <1>6 DEF OutboxEnvironment, OutboxReboot, outboxVars
<1> QED BY <1>4, <1>5, <1>6 DEF OutboxNext, outboxAllVars, outboxVars

(* The claim invariant is inductive. *)
LEMMA ClaimInvariant == OutboxSpec => []ClaimInv
<1>1. OutboxInit => ClaimInv
  <2> SUFFICES ASSUME OutboxInit PROVE ClaimInv
    OBVIOUS
  <2>1. OutboxTypeOK
    BY InitTypes
  <2>2. OneRowPerEvent
    BY DEF OutboxInit, OneRowPerEvent
  <2>3. ReadingsArePast
    BY DEF OutboxInit, LeaseInit, NoCall, ReadingsArePast
  <2> QED BY <2>1, <2>2, <2>3 DEF ClaimInv
<1>2. ClaimInv /\ [OutboxNext]_outboxAllVars => ClaimInv'
  BY OutboxStepKeepsTypes, OneRowPerEventStep, ReadingsArePastStep DEF ClaimInv
<1> QED BY <1>1, <1>2, PTL DEF OutboxSpec

(* claim_outbox never takes a live claim away, although it judges claims   *)
(* by a clock reading older than its transaction.                          *)
THEOREM LiveClaimsKept == OutboxSpec => LiveClaimsAreKept
<1>1. ClaimInv /\ [OutboxNext]_outboxAllVars =>
         [\A r \in outbox, s \in outbox' :
             /\ r.event = s.event
             /\ <<r.owner, r.fence>> # <<s.owner, s.fence>>
             => ~Live(r.boot, r.until)]_outboxAllVars
  BY LiveClaimsStep
<1> QED BY <1>1, ClaimInvariant, PTL DEF OutboxSpec, LiveClaimsAreKept
=============================================================================
