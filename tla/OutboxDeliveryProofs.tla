------------------------ MODULE OutboxDeliveryProofs ------------------------
(***************************************************************************)
(* Delivery at least once, under the condition that an owner id serves one *)
(* topic.  Without it the fences of two leases are compared with each      *)
(* other, and TLC finds an event lost.                                     *)
(*                                                                         *)
(* complete_outbox recognises a row by outbox_id, owner and fence.  Outbox *)
(* ids are given out again, so the argument is about the fence: all the    *)
(* claims of one owner carry fences of one lease, each acquisition's       *)
(* larger than every fence that owner still holds an item of.              *)
(***************************************************************************)
EXTENDS DurableOutboxProofs

(* An outbox id names one row. *)
OneRowPerId == \A r, s \in outbox : r.id = s.id => r = s

(* A call works on a topic its publisher serves, under a fence of the      *)
(* topic's lease, and the publisher's items are older than the claims it   *)
(* is about to make.                                                       *)
CallsAreFenced ==
    \A p \in Publisher :
        /\ calls[p].pc # "idle" => calls[p].topic \in TopicsOf[p]
        /\ calls[p].pc = "claiming" =>
              /\ calls[p].fence <= leases[calls[p].topic].fence
              /\ \A h \in handles[p] : h.fence < calls[p].fence

ItemsAreFenced ==
    \A p \in Publisher : \A h \in handles[p], t \in TopicsOf[p] :
        h.fence <= leases[t].fence

(* An item that matches a claimed row in id, owner and fence is an item of *)
(* that row's event.                                                       *)
ItemsMatchRows ==
    \A p \in Publisher : \A h \in handles[p], r \in outbox :
        r.id = h.id /\ r.owner = p /\ r.fence = h.fence => r.event = h.event

DeliveryInv ==
    /\ OutboxTypeOK /\ OneRowPerEvent
    /\ OneRowPerId
    /\ CallsAreFenced
    /\ ItemsAreFenced
    /\ ItemsMatchRows
    /\ EventsSurviveUntilPublished

-----------------------------------------------------------------------------
(* What a step of a publisher does to the rows: each row that remains      *)
(* keeps its id and event, and its claim unless it is claimed.             *)
LEMMA ClaimRowsRows ==
    ASSUME OutboxTypeOK, NEW p \in Publisher, ClaimRows(p)
    PROVE  /\ \A s \in outbox' : \E r \in outbox :
                 /\ s.id = r.id /\ s.event = r.event /\ s.status = r.status
                 /\ \/ s = r /\ r \notin ClaimSet(calls[p])
                    \/ /\ r \in ClaimSet(calls[p])
                       /\ s = ClaimedRow(r, p, calls[p])
                       /\ s.owner = p /\ s.fence = calls[p].fence
           /\ \A r \in outbox : \E s \in outbox' :
                 s.id = r.id /\ s.event = r.event /\ s.status = r.status
<1> DEFINE c == calls[p]
<1>1. \A r \in ClaimSet(c) :
         LET s == ClaimedRow(r, p, c)
         IN  /\ r \in outbox
             /\ s.id = r.id /\ s.event = r.event /\ s.status = r.status
             /\ s.owner = p /\ s.fence = c.fence
  BY ClaimSetIsPending DEF ClaimedRow, OutboxTypeOK, Row
<1>2. outbox' = (outbox \ ClaimSet(c)) \cup {ClaimedRow(r, p, c) : r \in ClaimSet(c)}
  BY DEF ClaimRows
<1> HIDE DEF c
<1>3. \A s \in outbox' : \E r \in outbox :
         /\ s.id = r.id /\ s.event = r.event /\ s.status = r.status
         /\ \/ s = r /\ r \notin ClaimSet(c)
            \/ r \in ClaimSet(c) /\ s = ClaimedRow(r, p, c) /\ s.owner = p /\ s.fence = c.fence
  BY <1>1, <1>2
<1>4. \A r \in outbox : \E s \in outbox' :
         s.id = r.id /\ s.event = r.event /\ s.status = r.status
  BY <1>1, <1>2
<1> QED BY <1>3, <1>4 DEF c

(* complete_outbox replaces the row of the item by a completed one. *)
LEMMA CompleteRows ==
    ASSUME OutboxTypeOK, NEW p \in Publisher, NEW h \in handles[p], Complete(p, h)
    PROVE  \E q \in outbox : \E d :
              /\ q.id = h.id /\ q.owner = p /\ q.fence = h.fence
              /\ outbox' = (outbox \ {q}) \cup {d}
              /\ q.status = "pending" /\ d.status = "completed"
              /\ d.id = q.id /\ d.event = q.event
              /\ d.owner = q.owner /\ d.fence = q.fence
<1>1. PICK q \in outbox, now \in 0..clock.tick :
         /\ Completable(q, p, h, now)
         /\ outbox' = (outbox \ {q}) \cup {[q EXCEPT !.status = "completed"]}
  BY DEF Complete
<1> DEFINE d == [q EXCEPT !.status = "completed"]
<1>2. /\ d.status = "completed"
      /\ d.id = q.id /\ d.event = q.event
      /\ d.owner = q.owner /\ d.fence = q.fence
  BY DEF OutboxTypeOK, Row
<1> HIDE DEF d
<1>3. outbox' = (outbox \ {q}) \cup {d}
  BY <1>1 DEF d
<1> QED BY <1>1, <1>2, <1>3 DEF Completable

-----------------------------------------------------------------------------
(* Every step keeps outbox ids unique, those given out again included. *)
LEMMA OneRowPerIdStep ==
    ASSUME OutboxTypeOK, OneRowPerId, [OutboxNext]_outboxAllVars
    PROVE  OneRowPerId'
<1>1. ASSUME NEW p \in Publisher, ClaimRows(p)
      PROVE  OneRowPerId'
  BY <1>1, ClaimRowsRows DEF OneRowPerId
<1>2. ASSUME NEW p \in Publisher, NEW h \in handles[p], Complete(p, h)
      PROVE  OneRowPerId'
  BY <1>2, CompleteRows DEF OneRowPerId
<1>3. ASSUME NEW e \in EventId, NEW t \in Topic, Enqueue(e, t)
      PROVE  OneRowPerId'
  <2>1. PICK n \in RowId : IsNextId(n) /\ outbox' = outbox \cup {NewRow(n, e, t)}
    BY <1>3 DEF Enqueue
  <2>2. NewRow(n, e, t).id = n
    BY DEF NewRow
  <2>3. \A r \in outbox : r.id # n
    BY <2>1 DEF IsNextId, OutboxTypeOK, Row, RowId
  <2> QED BY <2>1, <2>2, <2>3 DEF OneRowPerId
<1>4. ASSUME outbox' \subseteq outbox
      PROVE  OneRowPerId'
  BY <1>4 DEF OneRowPerId
<1>5. CASE OutboxStep
  BY <1>1, <1>2, <1>4, <1>5
  DEF OutboxStep, PublisherStep, ClaimStart, ClaimLease, ClaimRefused, Publish,
      PublisherCrash, PurgeCompleted
<1>6. CASE OutboxEnvironment
  BY <1>3, <1>4, <1>6 DEF OutboxEnvironment, OutboxReboot, outboxVars
<1> QED BY <1>4, <1>5, <1>6 DEF OutboxNext, outboxAllVars, outboxVars

(* Every step keeps calls fenced by their topic lease. *)
LEMMA CallsAreFencedStep ==
    ASSUME OutboxTypeOK, CallsAreFenced, ItemsAreFenced,
           [OutboxNext]_outboxAllVars
    PROVE  CallsAreFenced'
<1> USE LeaseAssumption, OutboxAssumption
<1>0. /\ \A p \in Publisher : calls[p] \in Call /\ calls[p].topic \in Resource
      /\ \A r \in Resource : leases[r].fence \in Nat /\ leases'[r].fence \in Nat
                              /\ leases[r].fence <= leases'[r].fence
      /\ NoCall.pc = "idle"
  BY OutboxStepKeepsTypes, FencesGrow
  DEF OutboxTypeOK, LeaseTypeOK, LeaseRow, Call, NoCall
<1> DEFINE Fenced(p) ==
             /\ calls[p].pc # "idle" => calls[p].topic \in TopicsOf[p]
             /\ calls[p].pc = "claiming" =>
                   /\ calls[p].fence <= leases[calls[p].topic].fence
                   /\ \A h \in handles[p] : h.fence < calls[p].fence
<1>1. ASSUME NEW p \in Publisher, calls'[p] = calls[p], handles'[p] \subseteq handles[p]
      PROVE  Fenced(p)'
  BY <1>0, <1>1 DEF CallsAreFenced, Call
<1>2. ASSUME NEW p \in Publisher, calls'[p].pc = "idle"
      PROVE  Fenced(p)'
  BY <1>2
<1>3. ASSUME NEW p \in Publisher, NEW t \in Topic, ClaimStart(p, t)
      PROVE  CallsAreFenced'
  <2>1. /\ calls'[p].pc = "leasing" /\ calls'[p].topic = t /\ t \in TopicsOf[p]
        /\ handles' = handles
        /\ \A q \in Publisher \ {p} : calls'[q] = calls[q]
    BY <1>3 DEF ClaimStart, OutboxTypeOK
  <2>2. Fenced(p)'
    BY <2>1
  <2>3. \A q \in Publisher \ {p} : Fenced(q)'
    BY <1>1, <2>1
  <2> QED BY <2>2, <2>3 DEF CallsAreFenced
<1>4. ASSUME NEW p \in Publisher, ClaimLease(p)
      PROVE  CallsAreFenced'
  <2> DEFINE t == calls[p].topic
  <2>1. /\ calls'[p].pc = "claiming" /\ calls'[p].topic = t
        /\ calls'[p].fence = leases[t].fence + 1
        /\ handles' = handles
        /\ \A q \in Publisher \ {p} : calls'[q] = calls[q]
    BY <1>0, <1>4 DEF ClaimLease, OutboxTypeOK, Call
  <2>2. leases'[t].fence = leases[t].fence + 1
    BY <1>0, <1>4 DEF ClaimLease, AcquireLease, Granted, OutboxTypeOK, LeaseTypeOK
  <2>3. t \in TopicsOf[p]
    BY <1>4 DEF ClaimLease, CallsAreFenced
  <2>4. \A h \in handles[p] : h.fence \in Nat /\ h.fence <= leases[t].fence
    BY <2>3 DEF ItemsAreFenced, OutboxTypeOK, Item
  <2>5. Fenced(p)'
    BY <1>0, <2>1, <2>2, <2>3, <2>4
  <2>6. \A q \in Publisher \ {p} : Fenced(q)'
    BY <1>1, <2>1
  <2> QED BY <2>5, <2>6 DEF CallsAreFenced
<1>5. ASSUME NEW p \in Publisher,
             ClaimRefused(p) \/ ClaimRows(p) \/ PublisherCrash(p)
      PROVE  CallsAreFenced'
  <2>1. /\ calls'[p].pc = "idle"
        /\ \A q \in Publisher \ {p} :
              calls'[q] = calls[q] /\ handles'[q] \subseteq handles[q]
    BY <1>0, <1>5 DEF ClaimRefused, ClaimRows, PublisherCrash, OutboxTypeOK
  <2> QED BY <1>1, <1>2, <2>1 DEF CallsAreFenced
<1>6. ASSUME UNCHANGED <<calls, handles>>
      PROVE  CallsAreFenced'
  BY <1>1, <1>6 DEF CallsAreFenced
<1>7. CASE OutboxReboot
  BY <1>0, <1>2, <1>7 DEF OutboxReboot, CallsAreFenced
<1>8. CASE OutboxStep
  BY <1>3, <1>4, <1>5, <1>6, <1>8
  DEF OutboxStep, PublisherStep, Publish, Complete, PurgeCompleted
<1>9. CASE OutboxEnvironment
  BY <1>6, <1>7, <1>9 DEF OutboxEnvironment, Enqueue, outboxVars
<1> QED BY <1>6, <1>8, <1>9 DEF OutboxNext, outboxAllVars, outboxVars

(* Every step keeps items no newer than the lease of their topic. *)
LEMMA ItemsAreFencedStep ==
    ASSUME OneTopicEach, OutboxTypeOK, CallsAreFenced, ItemsAreFenced,
           [OutboxNext]_outboxAllVars
    PROVE  ItemsAreFenced'
<1> USE LeaseAssumption, OutboxAssumption
<1>0. /\ \A r \in Resource : leases[r].fence \in Nat /\ leases'[r].fence \in Nat
                              /\ leases[r].fence <= leases'[r].fence
      /\ \A p \in Publisher : \A h \in handles[p] : h.fence \in Nat
      /\ \A p \in Publisher : \A t \in TopicsOf[p] : t \in Resource
  BY OutboxStepKeepsTypes, FencesGrow
  DEF OutboxTypeOK, LeaseTypeOK, LeaseRow, Item
<1>1. ASSUME \A p \in Publisher : handles'[p] \subseteq handles[p]
      PROVE  ItemsAreFenced'
  BY <1>0, <1>1 DEF ItemsAreFenced
<1>2. ASSUME NEW p \in Publisher, ClaimRows(p)
      PROVE  ItemsAreFenced'
  <2>1. /\ UNCHANGED leases
        /\ \A q \in Publisher \ {p} : handles'[q] = handles[q]
    BY <1>2 DEF ClaimRows, OutboxTypeOK, leaseVars
  <2>2. \A h \in handles'[p] : h \in handles[p] \/ h.fence = calls[p].fence
    BY <1>2 DEF ClaimRows, OutboxTypeOK
  <2>3. \A t \in TopicsOf[p] : calls[p].fence <= leases[t].fence
    BY <1>2 DEF ClaimRows, CallsAreFenced, OneTopicEach
  <2> QED BY <2>1, <2>2, <2>3 DEF ItemsAreFenced
<1>3. CASE OutboxStep
  BY <1>1, <1>2, <1>3
  DEF OutboxStep, PublisherStep, ClaimStart, ClaimLease, ClaimRefused, Publish,
      Complete, PublisherCrash, PurgeCompleted, OutboxTypeOK
<1>4. CASE OutboxEnvironment
  BY <1>1, <1>4 DEF OutboxEnvironment, Enqueue, OutboxReboot, outboxVars
<1> QED BY <1>1, <1>3, <1>4 DEF OutboxNext, outboxAllVars, outboxVars

(* Every step keeps items and the rows they can complete together. *)
LEMMA ItemsMatchRowsStep ==
    ASSUME OutboxTypeOK, OneRowPerId, CallsAreFenced, ItemsMatchRows,
           [OutboxNext]_outboxAllVars
    PROVE  ItemsMatchRows'
<1> USE LeaseAssumption, OutboxAssumption
<1>1. ASSUME \A p \in Publisher : handles'[p] \subseteq handles[p],
             outbox' \subseteq outbox
      PROVE  ItemsMatchRows'
  BY <1>1 DEF ItemsMatchRows
<1>2. ASSUME NEW p \in Publisher, ClaimRows(p)
      PROVE  ItemsMatchRows'
  <2> DEFINE c == calls[p]
  <2>1. /\ \A q \in Publisher \ {p} : handles'[q] = handles[q]
        /\ \A h \in handles[p] : h.fence \in Nat /\ h.fence < c.fence
        /\ c.fence \in Nat
    BY <1>2 DEF ClaimRows, CallsAreFenced, OutboxTypeOK, Item, Call
  <2>2. \A h \in handles'[p] :
           \/ h \in handles[p]
           \/ \E r \in ClaimSet(c) :
                 r \in outbox /\ h.id = r.id /\ h.event = r.event
    BY <1>2, ClaimSetIsPending DEF ClaimRows, OutboxTypeOK
  <2>3. \A s \in outbox' : \E r \in outbox :
           /\ s.id = r.id /\ s.event = r.event
           /\ s = r \/ (s.owner = p /\ s.fence = c.fence)
    BY <1>2, ClaimRowsRows
  <2>4. ASSUME NEW q \in Publisher, NEW h \in handles'[q], NEW s \in outbox',
               s.id = h.id, s.owner = q, s.fence = h.fence
        PROVE  s.event = h.event
    <3>1. PICK r \in outbox :
             /\ s.id = r.id /\ s.event = r.event
             /\ s = r \/ (s.owner = p /\ s.fence = c.fence)
      BY <2>3
    <3>2. CASE h \in handles[q]
      <4>1. s = r
        BY <2>1, <2>4, <3>1, <3>2
      <4> QED BY <2>4, <3>2, <4>1 DEF ItemsMatchRows
    <3>3. CASE h \notin handles[q]
      <4>1. PICK x \in outbox : h.id = x.id /\ h.event = x.event
        BY <2>1, <2>2, <3>3
      <4> QED BY <2>4, <3>1, <4>1 DEF OneRowPerId
    <3> QED BY <3>2, <3>3
  <2> QED BY <2>4 DEF ItemsMatchRows
<1>3. ASSUME NEW p \in Publisher, NEW h \in handles[p], Complete(p, h)
      PROVE  ItemsMatchRows'
  <2>1. handles' = handles
    BY <1>3 DEF Complete
  <2> QED BY <1>3, <2>1, CompleteRows DEF ItemsMatchRows
<1>4. ASSUME NEW e \in EventId, NEW t \in Topic, Enqueue(e, t)
      PROVE  ItemsMatchRows'
  <2>1. PICK n \in RowId : outbox' = outbox \cup {NewRow(n, e, t)}
    BY <1>4 DEF Enqueue
  <2>2. \A p \in Publisher : NewRow(n, e, t).owner # p
    BY DEF NewRow
  <2> QED BY <1>4, <2>1, <2>2 DEF Enqueue, ItemsMatchRows
<1>5. CASE OutboxStep
  BY <1>1, <1>2, <1>3, <1>5
  DEF OutboxStep, PublisherStep, ClaimStart, ClaimLease, ClaimRefused, Publish,
      PublisherCrash, PurgeCompleted, OutboxTypeOK
<1>6. CASE OutboxEnvironment
  BY <1>1, <1>4, <1>6 DEF OutboxEnvironment, OutboxReboot, outboxVars
<1> QED BY <1>1, <1>5, <1>6 DEF OutboxNext, outboxAllVars, outboxVars

(* Publishers only ever hold items of committed events. *)
ItemsAreCommitted == \A p \in Publisher : \A h \in handles[p] : h.event \in emitted

(* Every step keeps that. *)
LEMMA ItemsAreCommittedStep ==
    ASSUME OutboxTypeOK, OneRowPerEvent, ItemsAreCommitted,
           [OutboxNext]_outboxAllVars
    PROVE  ItemsAreCommitted'
<1> USE LeaseAssumption, OutboxAssumption
<1>1. ASSUME \A p \in Publisher : handles'[p] \subseteq handles[p],
             emitted \subseteq emitted'
      PROVE  ItemsAreCommitted'
  BY <1>1 DEF ItemsAreCommitted
<1>2. ASSUME NEW p \in Publisher, ClaimRows(p)
      PROVE  ItemsAreCommitted'
  <2>1. /\ \A q \in Publisher \ {p} : handles'[q] = handles[q]
        /\ emitted' = emitted
    BY <1>2 DEF ClaimRows, OutboxTypeOK
  <2>2. \A h \in handles'[p] : h \in handles[p] \/ \E r \in outbox : h.event = r.event
    BY <1>2, ClaimSetIsPending DEF ClaimRows, OutboxTypeOK
  <2> QED BY <2>1, <2>2 DEF ItemsAreCommitted, OneRowPerEvent
<1>3. CASE OutboxStep
  BY <1>1, <1>2, <1>3
  DEF OutboxStep, PublisherStep, ClaimStart, ClaimLease, ClaimRefused, Publish,
      Complete, PublisherCrash, PurgeCompleted, OutboxTypeOK
<1>4. CASE OutboxEnvironment
  BY <1>1, <1>4 DEF OutboxEnvironment, Enqueue, OutboxReboot, outboxVars
<1> QED BY <1>1, <1>3, <1>4 DEF OutboxNext, outboxAllVars, outboxVars

(* No step loses an event that was not delivered. *)
LEMMA EventsSurviveStep ==
    ASSUME OutboxTypeOK, ItemsMatchRows, EventsSurviveUntilPublished,
           [OutboxNext]_outboxAllVars
    PROVE  EventsSurviveUntilPublished'
<1>1. ASSUME UNCHANGED <<emitted, outbox>>, published \subseteq published'
      PROVE  EventsSurviveUntilPublished'
  BY <1>1 DEF EventsSurviveUntilPublished
<1>2. ASSUME NEW p \in Publisher, ClaimRows(p)
      PROVE  EventsSurviveUntilPublished'
  <2>1. UNCHANGED <<emitted, published>>
    BY <1>2 DEF ClaimRows
  <2> QED BY <1>2, <2>1, ClaimRowsRows DEF EventsSurviveUntilPublished
<1>3. ASSUME NEW p \in Publisher, NEW h \in handles[p], Complete(p, h)
      PROVE  EventsSurviveUntilPublished'
  <2>1. PICK q \in outbox : \E d :
           /\ q.id = h.id /\ q.owner = p /\ q.fence = h.fence
           /\ outbox' = (outbox \ {q}) \cup {d}
    BY <1>3, CompleteRows
  <2>2. q.event \in published
    BY <1>3, <2>1 DEF Complete, ItemsMatchRows
  <2>3. UNCHANGED <<emitted, published>>
    BY <1>3 DEF Complete
  <2> QED BY <2>1, <2>2, <2>3 DEF EventsSurviveUntilPublished
<1>4. ASSUME NEW e \in EventId, NEW t \in Topic, Enqueue(e, t)
      PROVE  EventsSurviveUntilPublished'
  <2>1. PICK n \in RowId : outbox' = outbox \cup {NewRow(n, e, t)}
    BY <1>4 DEF Enqueue
  <2>2. NewRow(n, e, t).event = e /\ NewRow(n, e, t).status = "pending"
    BY DEF NewRow
  <2> QED BY <1>4, <2>1, <2>2 DEF Enqueue, EventsSurviveUntilPublished
<1>5. ASSUME NEW S \in SUBSET Completed, PurgeCompleted(S)
      PROVE  EventsSurviveUntilPublished'
  BY <1>5 DEF PurgeCompleted, Completed, EventsSurviveUntilPublished
<1>6. CASE OutboxStep
  BY <1>1, <1>2, <1>3, <1>5, <1>6
  DEF OutboxStep, PublisherStep, ClaimStart, ClaimLease, ClaimRefused, Publish,
      PublisherCrash
<1>7. CASE OutboxEnvironment
  BY <1>1, <1>4, <1>7 DEF OutboxEnvironment, OutboxReboot, outboxVars
<1> QED BY <1>1, <1>6, <1>7 DEF OutboxNext, outboxAllVars, outboxVars

-----------------------------------------------------------------------------
(* The empty outbox satisfies the delivery invariant. *)
LEMMA InitDelivery == OutboxInit => DeliveryInv
<1> SUFFICES ASSUME OutboxInit PROVE DeliveryInv
  OBVIOUS
<1>1. OutboxTypeOK
  BY InitTypes
<1>2. OneRowPerEvent /\ OneRowPerId /\ EventsSurviveUntilPublished
  BY DEF OutboxInit, OneRowPerEvent, OneRowPerId, EventsSurviveUntilPublished
<1>3. CallsAreFenced /\ ItemsAreFenced /\ ItemsMatchRows
  BY DEF OutboxInit, CallsAreFenced, ItemsAreFenced, ItemsMatchRows, NoCall
<1> QED BY <1>1, <1>2, <1>3 DEF DeliveryInv

(* Every step of the outbox keeps the delivery invariant. *)
LEMMA DeliveryStep ==
    ASSUME OneTopicEach, DeliveryInv, [OutboxNext]_outboxAllVars
    PROVE  DeliveryInv'
BY OutboxStepKeepsTypes, OneRowPerEventStep, OneRowPerIdStep, CallsAreFencedStep,
   ItemsAreFencedStep, ItemsMatchRowsStep, EventsSurviveStep DEF DeliveryInv

(* When every owner id serves one topic, no committed event is ever lost:  *)
(* it was delivered outside or its row still waits, through crashes,       *)
(* reboots, late and repeated completions, purges and reused outbox ids.   *)
THEOREM AtLeastOnce ==
    ASSUME OneTopicEach
    PROVE  OutboxSpec => []EventsSurviveUntilPublished
<1>1. OutboxInit => DeliveryInv
  BY InitDelivery
<1>2. DeliveryInv /\ [OutboxNext]_outboxAllVars => DeliveryInv'
  BY DeliveryStep
<1>3. DeliveryInv => EventsSurviveUntilPublished
  BY DEF DeliveryInv
<1> QED BY <1>1, <1>2, <1>3, PTL DEF OutboxSpec
-----------------------------------------------------------------------------
RefinementInv == DeliveryInv /\ ItemsAreCommitted

(* A step of the outbox is a step of the abstract specification, or none   *)
(* that its users can see.                                                 *)
LEMMA DeliveryRefinementStep ==
    ASSUME RefinementInv, [OutboxNext]_outboxAllVars
    PROVE  [Abstract!DeliveryNext]_Abstract!deliveryVars
<1> DEFINE Seen == <<emitted, published, Pending>>
           Same == Seen' = Seen
           Allowed == Same \/ Abstract!DeliveryNext
<1> SUFFICES Allowed
  BY DEF Abstract!deliveryVars
<1>0. OutboxTypeOK /\ OneRowPerEvent /\ ItemsMatchRows /\ ItemsAreCommitted
  BY DEF RefinementInv, DeliveryInv
<1>1. ASSUME UNCHANGED <<emitted, published, outbox>>
      PROVE  Same
  BY <1>1 DEF Pending
<1>2. ASSUME NEW p \in Publisher, ClaimRows(p)
      PROVE  Same
  <2>1. Pending' = Pending
    BY <1>0, <1>2, ClaimRowsRows DEF Pending
  <2> QED BY <1>2, <2>1 DEF ClaimRows
<1>3. ASSUME NEW p \in Publisher, NEW h \in handles[p], Publish(p, h)
      PROVE  Abstract!DeliveryNext
  <2>1. h.event \in emitted /\ h.event \in EventId
    BY <1>0, <1>3 DEF ItemsAreCommitted, OutboxTypeOK
  <2>2. Pending' = Pending
    BY <1>3 DEF Publish, Pending
  <2>3. Abstract!Deliver(h.event)
    BY <1>3, <2>1, <2>2 DEF Publish, Abstract!Deliver
  <2> QED BY <2>1, <2>3 DEF Abstract!DeliveryNext
<1>4. ASSUME NEW p \in Publisher, NEW h \in handles[p], Complete(p, h)
      PROVE  Abstract!DeliveryNext
  <2>1. PICK q \in outbox : \E d :
           /\ q.id = h.id /\ q.owner = p /\ q.fence = h.fence
           /\ outbox' = (outbox \ {q}) \cup {d}
           /\ q.status = "pending" /\ d.status = "completed"
           /\ d.event = q.event
    BY <1>0, <1>4, CompleteRows
  <2>2. q.event = h.event
    BY <1>0, <2>1 DEF ItemsMatchRows
  <2>3. h.event \in EventId /\ h.event \in published /\ UNCHANGED <<emitted, published>>
    BY <1>0, <1>4, <2>1, <2>2 DEF Complete, OutboxTypeOK, Row
  <2>4. h.event \in Pending
    BY <2>1, <2>2 DEF Pending
  <2>5. Pending' = Pending \ {h.event}
    BY <1>0, <2>1, <2>2 DEF Pending, OneRowPerEvent
  <2>6. Abstract!Settle(h.event)
    BY <2>3, <2>4, <2>5 DEF Abstract!Settle
  <2> QED BY <2>3, <2>6 DEF Abstract!DeliveryNext
<1>5. ASSUME NEW e \in EventId, NEW t \in Topic, Enqueue(e, t)
      PROVE  Abstract!DeliveryNext
  <2>1. PICK n \in RowId : outbox' = outbox \cup {NewRow(n, e, t)}
    BY <1>5 DEF Enqueue
  <2>2. NewRow(n, e, t).event = e /\ NewRow(n, e, t).status = "pending"
    BY DEF NewRow
  <2>3. Pending' = Pending \cup {e}
    BY <2>1, <2>2 DEF Pending
  <2>4. Abstract!Commit(e)
    BY <1>5, <2>3 DEF Enqueue, Abstract!Commit
  <2> QED BY <2>4 DEF Abstract!DeliveryNext
<1>6. ASSUME NEW S \in SUBSET Completed, PurgeCompleted(S)
      PROVE  Same
  <2>1. Pending' = Pending
    BY <1>6 DEF PurgeCompleted, Completed, Pending
  <2> QED BY <1>6, <2>1 DEF PurgeCompleted
<1>7. CASE OutboxStep
  BY <1>1, <1>2, <1>3, <1>4, <1>6, <1>7
  DEF OutboxStep, PublisherStep, ClaimStart, ClaimLease, ClaimRefused, PublisherCrash
<1>8. CASE OutboxEnvironment
  BY <1>1, <1>5, <1>8 DEF OutboxEnvironment, OutboxReboot, outboxVars
<1> QED BY <1>1, <1>7, <1>8 DEF OutboxNext, outboxAllVars, outboxVars

(* When every owner id serves one topic, the outbox with its rows, leases, *)
(* fences, crashes and reused ids implements delivery at least once.       *)
THEOREM DeliveryImplemented ==
    ASSUME OneTopicEach
    PROVE  OutboxSpec => ImplementsDelivery
<1>1. OutboxInit => RefinementInv
  BY InitDelivery DEF RefinementInv, OutboxInit, ItemsAreCommitted
<1>2. OutboxInit => Abstract!DeliveryInit
  BY DEF OutboxInit, Abstract!DeliveryInit, Pending
<1>3. RefinementInv /\ [OutboxNext]_outboxAllVars => RefinementInv'
  BY DeliveryStep, ItemsAreCommittedStep DEF RefinementInv, DeliveryInv
<1>4. RefinementInv /\ [OutboxNext]_outboxAllVars
         => [Abstract!DeliveryNext]_Abstract!deliveryVars
  BY DeliveryRefinementStep
<1> QED BY <1>1, <1>2, <1>3, <1>4, PTL
        DEF OutboxSpec, ImplementsDelivery, Abstract!DeliverySpec
=============================================================================
