-------------------------- MODULE RootedCursorProofs --------------------------
(***************************************************************************)
(* No call hands over an event its webhook's cursor has not come near,     *)
(* save those that arrived behind an open gap: for every set of webhooks,  *)
(* deliveries and callers, and whatever the backfill port recovers.        *)
(*                                                                         *)
(* The argument: a cursor only grows, and an open gap goes away only when  *)
(* the cursor has reached its end (GapsMove).  An event compared with the  *)
(* cursor is within reach of it, or is the one that opened the gap; that   *)
(* one comes within reach when its gap is closed, which is what a call has *)
(* to see before it goes on to verify the event.                           *)
(***************************************************************************)
EXTENDS RootedRecoveryProofs, FiniteSetTheorems

Cursors == [Webhook -> [last : Slot \cup {NoSlot}, gap : Gap]]

(* The types of the tables and variables the other argument leaves out. *)
Tables ==
    /\ boot \in 1..MaxBoot /\ received \subseteq Delivery
    /\ inbox \in [Known -> InboxRow] /\ IsFiniteSet(Known)
    /\ gaps \in Cursors
    /\ admitted \subseteq Event /\ dead \subseteq Known
    /\ found \in [Caller -> Gap]

Checked(e) == e \in Known /\ ~inbox[e].unchecked

OpenGap(e) == gaps[WebhookOf[e]].gap

(* The gap of the webhook ends where the event is: it opened that gap. *)
Opened(e) ==
    SlotOf[e] # NoSlot /\ OpenGap(e) # NoGap /\ OpenGap(e).to = SlotOf[e] - 1

(* What a call knows of the gap of its event. *)
CallKnows(c) ==
    LET e == calls[c].event IN
    /\ calls[c].pc \in {"recover", "close"} => found[c] # NoGap
    /\ calls[c].pc = "close" /\ Checked(e) => WithinReach(e) \/ OpenGap(e) = found[c]
    /\ calls[c].pc = "verify" /\ Checked(e) => WithinReach(e)

(* The inductive invariant, on top of RecoveryInv. *)
CursorInv ==
    /\ \A e \in Known : Checked(e) => WithinReach(e) \/ Opened(e)
    /\ \A c \in Caller : CallKnows(c)
    /\ \A h \in handoffs : Checked(h.event) => WithinReach(h.event)

(* What a step may do to the cursors and the gaps. *)
GapsMove ==
    \A w \in Webhook :
        /\ gaps[w].last # NoSlot =>
              gaps'[w].last # NoSlot /\ gaps'[w].last >= gaps[w].last
        /\ gaps[w].gap # NoGap =>
              \/ gaps'[w].gap = gaps[w].gap
              \/ gaps'[w].last # NoSlot /\ gaps'[w].last >= gaps[w].gap.to

-----------------------------------------------------------------------------
(* What the constants are, for one event. *)
LEMMA EventShape ==
    ASSUME NEW e \in Event
    PROVE  /\ WebhookOf[e] \in Webhook /\ SlotOf[e] \in Slot \cup {NoSlot}
           /\ SlotOf[e] # NoSlot => SlotOf[e] \in Nat /\ SlotOf[e] <= MaxSlot
BY RecoveryAssumption DEF RecoveryAssumption, Slot

(* A gap that is open has two slots in order. *)
LEMMA GapShape ==
    /\ NoGap \in Gap
    /\ \A g \in Gap \ {NoGap} :
          /\ g.from \in Nat /\ g.to \in Nat /\ g.from <= g.to /\ g.to <= MaxSlot
BY Bounds DEF Gap, NoGap, Slot

(* A delivery is a sequence of events of one webhook in the order of their *)
(* slots.                                                                  *)
LEMMA DeliveryShape ==
    ASSUME NEW d \in Delivery
    PROVE  /\ Len(d) \in Nat /\ Len(d) > 0 /\ DOMAIN d = 1..Len(d)
           /\ \A k \in 1..Len(d) : d[k] \in Event /\ WebhookOf[d[k]] = WebhookOf[d[1]]
           /\ \A j, k \in 1..Len(d) : j < k =>
                 \/ SlotOf[d[k]] = NoSlot
                 \/ SlotOf[d[j]] # NoSlot /\ SlotOf[d[j]] <= SlotOf[d[k]]
<1>1. d \in Seq(Event) /\ d # <<>>
    BY RecoveryAssumption DEF RecoveryAssumption
<1>2. Len(d) \in Nat /\ Len(d) > 0 /\ DOMAIN d = 1..Len(d)
    BY <1>1
<1>3. \A k \in 1..Len(d) : d[k] \in Event
    BY <1>1
<1>4. \A j, k \in 1..Len(d) : j < k =>
          /\ WebhookOf[d[j]] = WebhookOf[d[k]]
          /\ \/ SlotOf[d[k]] = NoSlot
             \/ SlotOf[d[j]] # NoSlot /\ SlotOf[d[j]] <= SlotOf[d[k]]
    BY <1>2, CanonicalOrder DEF CanonicalOrder
<1>5. \A k \in 1..Len(d) : WebhookOf[d[k]] = WebhookOf[d[1]]
  <2>1. ASSUME NEW k \in 1..Len(d), k # 1
        PROVE  WebhookOf[d[k]] = WebhookOf[d[1]]
    <3>1. 1 \in 1..Len(d) /\ 1 < k
        BY <1>2, <2>1
    <3>2. QED
        BY <1>4, <3>1
  <2>2. QED
    BY <2>1
<1>6. QED
    BY <1>2, <1>3, <1>4, <1>5

(* The cursor after the contiguous events of a delivery: it has passed     *)
(* them all, and the next one, if it jumps, is beyond its reach.           *)
LEMMA ContiguousEvents ==
    ASSUME Tables, NEW d \in Delivery, NEW n \in 0..Len(d), Contiguous(d, n),
           NEW last, last = gaps[WebhookOf[d[1]]].last,
           NEW cursor, cursor = CursorAfter(d, n)
    PROVE  /\ cursor \in Slot \cup {NoSlot}
           /\ last # NoSlot => cursor # NoSlot /\ cursor >= last
           /\ \A k \in 1..n : cursor # NoSlot /\ SlotOf[d[k]] <= cursor
           /\ Opens(d, n) => /\ n + 1 \in 1..Len(d)
                             /\ cursor # NoSlot /\ SlotOf[d[n + 1]] > cursor + MaxSlotGap
           /\ ~Opens(d, n) => \A k \in (n + 1)..Len(d) : SlotOf[d[k]] = NoSlot
<1> USE Bounds, DeliveryShape
<1>1. last \in Slot \cup {NoSlot}
  <2>1. WebhookOf[d[1]] \in Webhook
    BY EventShape
  <2>2. QED
    BY <2>1 DEF Tables, Cursors
<1>2. \A k \in 1..Len(d) : SlotOf[d[k]] # NoSlot => SlotOf[d[k]] \in Nat /\ SlotOf[d[k]] <= MaxSlot
    BY EventShape
<1>3. \A s \in Slot : s \in Nat /\ s <= MaxSlot
    BY DEF Slot
<1>4. NoSlot \notin Slot
    BY RecoveryAssumption DEF RecoveryAssumption
<1>5. \A k \in 1..n : SlotOf[d[k]] # NoSlot /\ k \in 1..Len(d)
    BY DEF Contiguous
<1> DEFINE Passed == /\ cursor \in Slot \cup {NoSlot}
                     /\ last # NoSlot => cursor # NoSlot /\ cursor >= last
                     /\ \A k \in 1..n : cursor # NoSlot /\ SlotOf[d[k]] <= cursor
<1>6. ASSUME n = 0 PROVE Passed
  <2>1. cursor = last /\ 1..n = {}
    BY <1>6 DEF CursorAfter
  <2>2. last \in Slot => last >= last
    BY <1>3
  <2>3. QED
    BY <1>1, <2>1, <2>2
<1>7. ASSUME n > 0 PROVE Passed
  <2>1. n \in 1..n /\ n \in 1..Len(d)
    BY <1>7
  <2>2. PICK s \in Slot : s = SlotOf[d[n]]
    BY <1>2, <1>5, <2>1 DEF Slot
  <2>3. cursor = IF last # NoSlot /\ last >= s THEN last ELSE s
    BY <1>7, <2>2 DEF CursorAfter
  <2>4. \A k \in 1..n : SlotOf[d[k]] <= s
    BY <1>2, <1>5, <2>1, <2>2
  <2>5. s \in Nat /\ s # NoSlot
    BY <1>3, <1>4
  <2>6. CASE last = NoSlot
    BY <2>2, <2>3, <2>4, <2>5, <2>6
  <2>7. CASE last # NoSlot
    <3>1. last \in Nat /\ last \in Slot
        BY <1>1, <1>3, <2>7
    <3>2. cursor \in Slot /\ cursor \in Nat /\ cursor >= last /\ cursor >= s
        BY <2>3, <2>5, <2>7, <3>1
    <3>3. \A k \in 1..n : SlotOf[d[k]] \in Nat /\ SlotOf[d[k]] <= s
        BY <1>2, <1>5, <2>4
    <3>4. QED
        BY <1>4, <2>5, <3>2, <3>3
  <2>8. QED
    BY <2>6, <2>7
<1>8. Passed
  <2>1. n = 0 \/ n > 0
    OBVIOUS
  <2>2. QED
    BY <1>6, <1>7, <2>1
<1>9. ASSUME Opens(d, n)
      PROVE  n + 1 \in 1..Len(d) /\ cursor # NoSlot /\ SlotOf[d[n + 1]] > cursor + MaxSlotGap
  <2>1. n + 1 \in 1..Len(d) /\ (n + 1) - 1 = n
    BY <1>9 DEF Opens
  <2>2. Jumps(d, n + 1)
    BY <1>9 DEF Opens, Contiguous
  <2>3. QED
    BY <2>1, <2>2 DEF Jumps, Beyond
<1>10. ASSUME ~Opens(d, n), NEW k \in (n + 1)..Len(d)
       PROVE  SlotOf[d[k]] = NoSlot
  <2>1. n < Len(d) /\ SlotOf[d[n + 1]] = NoSlot /\ n + 1 \in 1..Len(d) /\ k \in 1..Len(d)
    BY <1>10 DEF Opens
  <2>2. QED
    BY <2>1
<1>11. QED
    BY <1>8, <1>9, <1>10

(* The gap that a jump opens. *)
LEMMA NewGap ==
    ASSUME Tables, NEW d \in Delivery, NEW n \in 0..Len(d), Contiguous(d, n), Opens(d, n),
           NEW g, g = [from |-> CursorAfter(d, n) + 1, to |-> SlotOf[d[n + 1]] - 1]
    PROVE  g \in Gap \ {NoGap} /\ g.to = SlotOf[d[n + 1]] - 1
<1>1. PICK cursor : cursor = CursorAfter(d, n)
    OBVIOUS
<1>2. PICK s : s = SlotOf[d[n + 1]]
    OBVIOUS
<1>3. /\ cursor \in Slot \cup {NoSlot} /\ cursor # NoSlot
      /\ n + 1 \in 1..Len(d) /\ s # NoSlot /\ s > cursor + MaxSlotGap
    BY <1>1, <1>2, ContiguousEvents DEF Opens
<1>4. s \in Nat /\ s <= MaxSlot
    BY <1>2, <1>3, EventShape, DeliveryShape
<1>5. cursor + 1 \in Slot /\ s - 1 \in Slot /\ cursor + 1 <= s - 1
    BY <1>3, <1>4, Bounds DEF Slot
<1>6. NoSlot \notin Slot
    BY RecoveryAssumption DEF RecoveryAssumption
<1>7. g.from = cursor + 1 /\ g.to = s - 1 /\ g \in [from : Slot, to : Slot]
    BY <1>1, <1>2, <1>5
<1>8. g \in Gap
    BY <1>5, <1>7 DEF Gap
<1>9. g # NoGap
    BY <1>5, <1>6, <1>7 DEF NoGap
<1>10. QED
    BY <1>2, <1>7, <1>8, <1>9

(* What a delivery does to the cursor and the gap of its webhook. *)
LEMMA DeliverGaps ==
    ASSUME Tables, NEW d \in Delivery, Deliver(d)
    PROVE  gaps' \in Cursors /\ GapsMove
<1>1. PICK w \in Webhook : w = WebhookOf[d[1]]
    BY DeliveryShape, EventShape
<1>2. PICK n \in 0..Len(d) :
        /\ Contiguous(d, n)
        /\ \/ UNCHANGED gaps
           \/ /\ gaps[w].gap = NoGap
              /\ gaps' = [gaps EXCEPT ![w] = [last |-> CursorAfter(d, n),
                     gap |-> IF Opens(d, n)
                             THEN [from |-> CursorAfter(d, n) + 1, to |-> SlotOf[d[n + 1]] - 1]
                             ELSE NoGap]]
    BY <1>1 DEF Deliver
<1>3. CASE UNCHANGED gaps
  <2>1. ASSUME NEW v \in Webhook, gaps[v].last # NoSlot
        PROVE  gaps[v].last >= gaps[v].last
    BY <2>1, Bounds DEF Tables, Cursors, Slot
  <2>2. QED
    BY <1>3, <2>1 DEF Tables, Cursors, GapsMove
<1>4. CASE ~UNCHANGED gaps
  <2>1. PICK cursor : cursor = CursorAfter(d, n)
    OBVIOUS
  <2>2. PICK g \in Gap : g = IF Opens(d, n)
                           THEN [from |-> cursor + 1, to |-> SlotOf[d[n + 1]] - 1]
                           ELSE NoGap
    BY <1>2, <2>1, NewGap, GapShape
  <2>3. /\ gaps[w].gap = NoGap
        /\ gaps' = [gaps EXCEPT ![w] = [last |-> cursor, gap |-> g]]
    BY <1>2, <1>4, <2>1, <2>2
  <2>4. /\ cursor \in Slot \cup {NoSlot}
        /\ gaps[w].last # NoSlot => cursor # NoSlot /\ cursor >= gaps[w].last
    BY <1>1, <1>2, <2>1, ContiguousEvents
  <2>5. /\ gaps'[w].last = cursor
        /\ \A v \in Webhook \ {w} : gaps'[v] = gaps[v]
    BY <2>3 DEF Tables, Cursors
  <2>6. gaps' \in Cursors
    BY <2>2, <2>3, <2>4 DEF Tables, Cursors
  <2>7. \A v \in Webhook : gaps[v].last # NoSlot => gaps[v].last >= gaps[v].last
    BY Bounds DEF Tables, Cursors, Slot
  <2>8. QED
    BY <2>3, <2>4, <2>5, <2>6, <2>7 DEF GapsMove
<1>5. QED
    BY <1>3, <1>4

(* The rows a delivery adds, and that it leaves the others alone.          *)
LEMMA DeliverRows ==
    ASSUME Tables, NEW d \in Delivery, Deliver(d)
    PROVE  /\ \A e \in Known : e \in Known' /\ inbox'[e] = inbox[e]
           /\ IsFiniteSet(Known') /\ inbox' \in [Known' -> InboxRow]
           /\ \A e \in Known' \ Known : ~inbox'[e].unchecked => WithinReach(e)' \/ Opened(e)'
<1> DEFINE fresh == {k \in DOMAIN d : d[k] \notin Known}
           id(k) == Cardinality(Known) + Cardinality({j \in fresh : j <= k})
           w == WebhookOf[d[1]]
           hidden == gaps[w].gap # NoGap
           row(k, n) == [id |-> id(k), index |-> k,
                         unchecked |-> hidden \/ (Opens(d, n) /\ k > n + 1)]
<1>1. PICK n \in 0..Len(d) :
        /\ Contiguous(d, n)
        /\ inbox' = [e \in Known \cup {d[k] : k \in fresh} |->
               IF e \in Known THEN inbox[e] ELSE row(CHOOSE k \in fresh : d[k] = e, n)]
        /\ gaps' = IF hidden THEN gaps
                   ELSE [gaps EXCEPT ![w] = [last |-> CursorAfter(d, n),
                     gap |-> IF Opens(d, n)
                             THEN [from |-> CursorAfter(d, n) + 1, to |-> SlotOf[d[n + 1]] - 1]
                             ELSE NoGap]]
    BY DEF Deliver
<1>2. Known' = Known \cup {d[k] : k \in fresh}
    BY <1>1 DEF Known
<1>3. \A e \in Known : e \in Known' /\ inbox'[e] = inbox[e]
    BY <1>1, <1>2
<1>4. fresh \subseteq 1..Len(d) /\ IsFiniteSet(fresh)
  <2>1. Len(d) \in Nat /\ fresh \subseteq 1..Len(d)
    BY DeliveryShape
  <2>2. IsFiniteSet(1..Len(d))
    BY <2>1, FS_Interval
  <2>3. QED
    BY <2>1, <2>2, FS_Subset
<1>5. IsFiniteSet(Known')
  <2> DEFINE new == {d[k] : k \in fresh}
             name == [k \in fresh |-> d[k]]
  <2>1. name \in Surjection(fresh, new)
    BY DEF Surjection
  <2>2. IsFiniteSet(new)
    BY <1>4, <2>1, FS_Surjection
  <2>3. QED
    BY <1>2, <2>2, FS_Union DEF Tables, Cursors
<1>6. ASSUME NEW e \in Known' \ Known
      PROVE  \E k \in fresh : d[k] = e /\ inbox'[e] = row(k, n)
  <2>1. \E k \in fresh : d[k] = e
    BY <1>2, <1>6
  <2>2. PICK k \in fresh : k = (CHOOSE j \in fresh : d[j] = e) /\ d[k] = e
    BY <2>1
  <2>3. QED
    BY <1>1, <1>2, <1>6, <2>2
<1>7. inbox' \in [Known' -> InboxRow]
  <2>1. ASSUME NEW k \in fresh
        PROVE  id(k) \in Nat \ {0} /\ k \in Nat \ {0}
    <3>1. {j \in fresh : j <= k} \subseteq fresh /\ k \in {j \in fresh : j <= k} /\ k \in Nat \ {0}
        BY <1>4
    <3>2. IsFiniteSet({j \in fresh : j <= k})
        BY <1>4, <3>1, FS_Subset
    <3>3. Cardinality({j \in fresh : j <= k}) \in Nat \ {0}
        BY <3>1, <3>2, FS_CardinalityType, FS_EmptySet
    <3>4. Cardinality(Known) \in Nat
        BY FS_CardinalityType DEF Tables, Cursors
    <3>5. QED
        BY <3>1, <3>3, <3>4
  <2>2. \A k \in fresh : row(k, n) \in InboxRow
    BY <2>1 DEF InboxRow
  <2> HIDE DEF row
  <2>3. \A e \in Known' : inbox'[e] \in InboxRow
    BY <1>3, <1>6, <2>2 DEF Tables, Cursors
  <2>4. DOMAIN inbox' = Known' /\ inbox' = [e \in Known' |-> inbox'[e]]
    BY <1>1, <1>2
  <2>5. QED
    BY <2>3, <2>4
<1>8. ASSUME NEW e \in Known' \ Known, ~inbox'[e].unchecked
      PROVE  WithinReach(e)' \/ Opened(e)'
  <2>1. PICK k \in fresh : d[k] = e /\ ~hidden /\ ~(Opens(d, n) /\ k > n + 1)
    <3>1. PICK k \in fresh : d[k] = e /\ inbox'[e] = row(k, n)
        BY <1>6, <1>8
    <3>2. row(k, n).unchecked = (hidden \/ (Opens(d, n) /\ k > n + 1))
        OBVIOUS
    <3>3. ~(hidden \/ (Opens(d, n) /\ k > n + 1))
        BY <1>8, <3>1, <3>2
    <3>4. QED
        BY <3>1, <3>3
  <2>2. /\ w \in Webhook /\ WebhookOf[e] = w /\ k \in 1..Len(d)
        /\ SlotOf[e] # NoSlot => SlotOf[e] \in Nat /\ SlotOf[e] <= MaxSlot
    BY <1>4, <2>1, DeliveryShape, EventShape
  <2>3. PICK cursor : cursor = CursorAfter(d, n)
    OBVIOUS
  <2>4. PICK g : g = IF Opens(d, n)
                     THEN [from |-> cursor + 1, to |-> SlotOf[d[n + 1]] - 1]
                     ELSE NoGap
    OBVIOUS
  <2>5. gaps'[w].last = cursor /\ gaps'[w].gap = g
    BY <1>1, <2>1, <2>2, <2>3, <2>4 DEF Tables, Cursors
  <2>6. CASE k <= n
    <3>1. k \in 1..n
        BY <2>2, <2>6
    <3>2. cursor \in Slot \cup {NoSlot} /\ cursor # NoSlot /\ SlotOf[e] <= cursor
        BY <1>1, <2>1, <2>3, <3>1, ContiguousEvents
    <3>3. SlotOf[e] # NoSlot => ~(SlotOf[e] > cursor + MaxSlotGap)
        BY <2>2, <3>2, Bounds DEF Slot
    <3>4. QED
        BY <2>2, <2>5, <3>2, <3>3 DEF WithinReach, Beyond
  <2>7. CASE k > n /\ Opens(d, n)
    <3>1. k = n + 1
        BY <2>1, <2>2, <2>7
    <3>2. g \in Gap \ {NoGap} /\ g.to = SlotOf[e] - 1 /\ SlotOf[e] # NoSlot
        BY <1>1, <2>1, <2>3, <2>4, <2>7, <3>1, NewGap DEF Opens
    <3>3. QED
        BY <2>2, <2>5, <3>2 DEF Opened, OpenGap
  <2>8. CASE k > n /\ ~Opens(d, n)
    <3>1. k \in (n + 1)..Len(d)
        BY <2>2, <2>8
    <3>2. SlotOf[e] = NoSlot
        BY <1>1, <2>1, <2>8, <3>1, ContiguousEvents
    <3>3. QED
        BY <3>2 DEF WithinReach
  <2>9. QED
    BY <2>2, <2>6, <2>7, <2>8
<1>9. QED
    BY <1>3, <1>5, <1>7, <1>8

(* What close_gap does to them: the cursor reaches the end of the gap it   *)
(* closes.                                                                 *)
LEMMA CloseGaps ==
    ASSUME RecoveryInv, Tables, CursorInv, NEW c \in Caller, CloseGap(c),
           NEW w, w = WebhookOf[calls[c].event]
    PROVE  /\ gaps' \in Cursors /\ GapsMove
           /\ gaps[w].gap = found[c] =>
                 gaps'[w].last # NoSlot /\ gaps'[w].last >= found[c].to
<1>1. w \in Webhook
  <2>1. Claimed(c)
    BY DEF CloseGap, Claimed
  <2>2. calls[c].event \in Event
    BY <2>1 DEF RecoveryInv, Typed, ClaimsAreNumbered
  <2>3. QED
    BY <2>2, EventShape
<1>2. PICK f \in Gap : f = found[c] /\ f.to \in Nat /\ f.to <= MaxSlot
  <2>1. found[c] \in Gap \ {NoGap}
    BY DEF Tables, Cursors, CursorInv, CallKnows, CloseGap
  <2>2. QED
    BY <2>1, GapShape
<1>3. \A v \in Webhook : gaps[v].last # NoSlot => gaps[v].last \in Nat /\ gaps[v].last >= gaps[v].last
    BY Bounds DEF Tables, Cursors, Slot
<1>4. CASE UNCHANGED gaps /\ gaps[w].gap # found[c]
    BY <1>3, <1>4 DEF Tables, Cursors, GapsMove
<1>5. CASE gaps[w].gap = found[c]
  <2>1. PICK rooted \in f.to..MaxSlot :
           gaps' = [gaps EXCEPT ![w] =
               [last |-> IF gaps[w].last = NoSlot \/ gaps[w].last < rooted
                         THEN rooted ELSE gaps[w].last,
                gap |-> NoGap]]
    <3>1. SameGap(c, gaps[w])
        BY <1>5 DEF SameGap
    <3>2. PICK rooted \in f.to..MaxSlot :
             gaps' = [gaps EXCEPT ![w] =
                 [last |-> IF @.last = NoSlot \/ @.last < rooted THEN rooted ELSE @.last,
                  gap |-> NoGap]]
        BY <1>2, <3>1 DEF CloseGap
    <3>3. QED
        BY <1>1, <3>2 DEF Tables, Cursors
  <2>2. rooted \in Nat /\ rooted \in Slot /\ rooted >= f.to /\ rooted # NoSlot
    <3>1. NoSlot \notin Slot
        BY RecoveryAssumption DEF RecoveryAssumption
    <3>2. QED
        BY <1>2, <3>1, Bounds DEF Slot
  <2>3. PICK last \in Slot : /\ last \in Nat /\ last # NoSlot /\ last >= rooted
                             /\ gaps[w].last # NoSlot => last >= gaps[w].last
                             /\ gaps' = [gaps EXCEPT ![w] = [last |-> last, gap |-> NoGap]]
    <3>1. PICK last : /\ last = IF gaps[w].last = NoSlot \/ gaps[w].last < rooted
                                THEN rooted ELSE gaps[w].last
                      /\ gaps' = [gaps EXCEPT ![w] = [last |-> last, gap |-> NoGap]]
        BY <2>1
    <3>2. gaps[w].last # NoSlot => gaps[w].last \in Slot /\ gaps[w].last \in Nat
        BY <1>1, <1>3 DEF Tables, Cursors
    <3>3. CASE gaps[w].last = NoSlot \/ gaps[w].last < rooted
      <4>1. last = rooted
        BY <3>1, <3>3
      <4>2. gaps[w].last # NoSlot => last >= gaps[w].last
        BY <2>2, <3>2, <3>3, <4>1
      <4>3. last >= rooted
        BY <2>2, <4>1
      <4>4. QED
        BY <2>2, <3>1, <4>1, <4>2, <4>3
    <3>4. CASE ~(gaps[w].last = NoSlot \/ gaps[w].last < rooted)
      <4>1. last = gaps[w].last
        BY <3>1, <3>4
      <4>2. last \in Slot /\ last \in Nat /\ last # NoSlot /\ last >= rooted /\ last >= last
        BY <2>2, <3>2, <3>4, <4>1
      <4>3. QED
        BY <3>1, <4>1, <4>2
    <3>5. QED
        BY <3>3, <3>4
  <2>4. gaps' \in Cursors
    BY <2>3, GapShape DEF Tables, Cursors
  <2>5. gaps'[w].last = last /\ \A v \in Webhook \ {w} : gaps'[v] = gaps[v]
    BY <1>1, <2>3 DEF Tables, Cursors
  <2>6. last >= f.to
    BY <1>2, <2>2, <2>3
  <2>7. GapsMove
    BY <1>2, <1>3, <1>5, <2>3, <2>5, <2>6 DEF GapsMove
  <2>8. QED
    BY <1>2, <2>3, <2>4, <2>5, <2>6, <2>7, <1>1
<1>6. QED
    BY <1>4, <1>5 DEF CloseGap, SameGap

(* An event within reach of its cursor stays there, and the one that opened*)
(* a gap comes there when the gap goes away.                               *)
LEMMA Reached ==
    ASSUME Tables, GapsMove, gaps' \in Cursors, NEW e \in Event
    PROVE  /\ WithinReach(e) => WithinReach(e)'
           /\ Opened(e) => \/ gaps'[WebhookOf[e]].gap = gaps[WebhookOf[e]].gap
                           \/ WithinReach(e)'
<1>1. PICK w \in Webhook : w = WebhookOf[e]
    BY EventShape
<1>2. CASE SlotOf[e] = NoSlot
    BY <1>2 DEF WithinReach, Opened
<1>3. CASE SlotOf[e] # NoSlot
  <2>1. PICK s \in Nat : s = SlotOf[e]
    BY <1>3, EventShape
  <2>2. \A v \in Slot : v \in Nat
    BY DEF Slot
  <2>3. gaps[w].last # NoSlot => gaps[w].last \in Nat
    BY <2>2 DEF Tables, Cursors
  <2>4. gaps'[w].last # NoSlot => gaps'[w].last \in Nat
    BY <2>2 DEF Cursors
  <2>5. ASSUME WithinReach(e) PROVE WithinReach(e)'
    <3>1. gaps[w].last # NoSlot /\ ~(s > gaps[w].last + MaxSlotGap)
        BY <1>1, <1>3, <2>1, <2>5 DEF WithinReach, Beyond
    <3>2. gaps'[w].last # NoSlot /\ gaps'[w].last >= gaps[w].last
        BY <3>1 DEF GapsMove
    <3>3. ~(s > gaps'[w].last + MaxSlotGap)
        BY <2>1, <2>3, <2>4, <3>1, <3>2, Bounds
    <3>4. QED
        BY <1>1, <2>1, <3>2, <3>3 DEF WithinReach, Beyond
  <2>6. ASSUME Opened(e), gaps'[w].gap # gaps[w].gap
        PROVE  WithinReach(e)'
    <3>1. gaps[w].gap # NoGap /\ gaps[w].gap.to = s - 1
        BY <1>1, <2>1, <2>6 DEF Opened, OpenGap
    <3>2. gaps'[w].last # NoSlot /\ gaps'[w].last >= s - 1
        BY <2>6, <3>1 DEF GapsMove
    <3>3. ~(s > gaps'[w].last + MaxSlotGap)
        BY <2>1, <2>4, <3>2, Bounds
    <3>4. QED
        BY <1>1, <2>1, <3>2, <3>3 DEF WithinReach, Beyond
  <2>7. QED
    BY <1>1, <2>5, <2>6
<1>4. QED
    BY <1>2, <1>3

-----------------------------------------------------------------------------
(* A step and the deliveries it takes in. *)
Delivered == \E d \in Delivery : Deliver(d)

(* Every step moves the gaps in this way, and keeps the rows there are.    *)
LEMMA StepGaps ==
    ASSUME RecoveryInv, Tables, CursorInv, [RecoveryNext]_recoveryVars
    PROVE  /\ gaps' \in Cursors /\ GapsMove
           /\ Delivered \/ UNCHANGED inbox
<1>1. CASE Delivered
    BY <1>1, DeliverGaps DEF Delivered
<1>2. CASE \E c \in Caller : CloseGap(c)
    BY <1>2, CloseGaps DEF CloseGap
<1>3. CASE UNCHANGED <<gaps, inbox>>
  <2>1. \A v \in Webhook : gaps[v].last # NoSlot => gaps[v].last >= gaps[v].last
    BY Bounds DEF Tables, Cursors, Slot
  <2>2. QED
    BY <1>3, <2>1 DEF Tables, GapsMove
<1>4. ASSUME NEW c \in Caller,
             \/ RunOnce(c) \/ ClaimNext(c) \/ ReadGap(c) \/ Recover(c)
             \/ Handoff(c) \/ Defer(c) \/ FenceLost(c) \/ Crash(c)
      PROVE  UNCHANGED <<gaps, inbox>>
    BY <1>4 DEF RunOnce, ClaimNext, ReadGap, Recover, Handoff, Defer, FenceLost, Crash
<1>5. ClockTick \/ MachineReboot \/ UNCHANGED recoveryVars => UNCHANGED <<gaps, inbox>>
    BY DEF ClockTick, MachineReboot, recoveryVars
<1>6. QED
    BY <1>1, <1>2, <1>3, <1>4, <1>5 DEF RecoveryNext, Delivered

(* The rows stay, and those that are new are near the cursor, or opened a  *)
(* gap, or are marked.                                                     *)
LEMMA StepRows ==
    ASSUME RecoveryInv, Tables, CursorInv, [RecoveryNext]_recoveryVars
    PROVE  /\ \A e \in Known : e \in Known' /\ inbox'[e] = inbox[e]
           /\ IsFiniteSet(Known') /\ inbox' \in [Known' -> InboxRow]
           /\ \A e \in Known' : Checked(e)' => WithinReach(e)' \/ Opened(e)'
<1>1. ASSUME NEW e \in Known, inbox'[e] = inbox[e], Checked(e)'
      PROVE  WithinReach(e)' \/ Opened(e)'
  <2>1. e \in Event /\ (WithinReach(e) \/ Opened(e))
    BY <1>1 DEF Checked, CursorInv, RecoveryInv, Typed
  <2>2. CASE gaps'[WebhookOf[e]].gap = gaps[WebhookOf[e]].gap
    BY <2>1, <2>2, StepGaps, Reached DEF Opened, OpenGap
  <2>3. CASE gaps'[WebhookOf[e]].gap # gaps[WebhookOf[e]].gap
    BY <2>1, <2>3, StepGaps, Reached
  <2>4. QED
    BY <2>2, <2>3
<1>2. CASE Delivered
  <2>1. /\ \A e \in Known : e \in Known' /\ inbox'[e] = inbox[e]
        /\ IsFiniteSet(Known') /\ inbox' \in [Known' -> InboxRow]
        /\ \A e \in Known' \ Known : ~inbox'[e].unchecked => WithinReach(e)' \/ Opened(e)'
    BY <1>2, DeliverRows DEF Delivered
  <2>2. QED
    BY <1>1, <2>1 DEF Checked
<1>3. CASE UNCHANGED inbox
  <2>1. Known' = Known
    BY <1>3 DEF Known
  <2>2. QED
    BY <1>1, <1>3, <2>1 DEF Tables
<1>4. QED
    BY <1>2, <1>3, StepGaps

(* What a call knew it still knows, while it stands where it stood.        *)
LEMMA CallStands ==
    ASSUME RecoveryInv, Tables, CursorInv, [RecoveryNext]_recoveryVars, RecoveryInv',
           NEW c \in Caller, calls'[c] = calls[c], found'[c] = found[c]
    PROVE  CallKnows(c)'
<1>1. PICK e : e = calls[c].event
    OBVIOUS
<1>2. CallKnows(c)
    BY DEF CursorInv
<1>3. ASSUME calls[c].pc \in {"close", "verify"}, Checked(e)'
      PROVE  e \in Event /\ e \in Known /\ Checked(e) /\ (WithinReach(e) \/ Opened(e))
  <2>1. e \in Known
    BY <1>1, <1>3 DEF RecoveryInv, ClaimsAreNumbered, Claimed
  <2>2. Checked(e)
    BY <1>3, <2>1, StepRows DEF Checked
  <2>3. QED
    BY <2>1, <2>2 DEF CursorInv, RecoveryInv, Typed
<1>4. ASSUME calls[c].pc = "close", Checked(e)'
      PROVE  WithinReach(e)' \/ OpenGap(e)' = found[c]
  <2>1. CASE WithinReach(e)
    BY <1>3, <1>4, <2>1, StepGaps, Reached
  <2>2. CASE ~WithinReach(e)
    <3>1. OpenGap(e) = found[c] /\ Opened(e)
        BY <1>1, <1>2, <1>3, <1>4, <2>2 DEF CallKnows
    <3>2. gaps'[WebhookOf[e]].gap = gaps[WebhookOf[e]].gap \/ WithinReach(e)'
        BY <1>3, <1>4, <3>1, StepGaps, Reached
    <3>3. QED
        BY <3>1, <3>2 DEF OpenGap
  <2>3. QED
    BY <2>1, <2>2
<1>5. ASSUME calls[c].pc = "verify", Checked(e)'
      PROVE  WithinReach(e)'
  <2>1. WithinReach(e)
    BY <1>1, <1>2, <1>3, <1>5 DEF CallKnows
  <2>2. QED
    BY <1>3, <1>5, <2>1, StepGaps, Reached
<1>6. QED
    BY <1>1, <1>2, <1>4, <1>5 DEF CallKnows

(* A call that goes on to verify has seen no gap, or closed the one it found*)
LEMMA CallMoves ==
    ASSUME RecoveryInv, Tables, CursorInv, [RecoveryNext]_recoveryVars, RecoveryInv',
           NEW c \in Caller, ReadGap(c) \/ Recover(c) \/ CloseGap(c)
    PROVE  CallKnows(c)'
<1>1. PICK e \in Known : e = calls[c].event /\ e \in Event /\ calls'[c].event = e
  <2>1. Claimed(c)
    BY DEF ReadGap, Recover, CloseGap, Claimed
  <2>2. calls[c].event \in Known /\ calls[c].event \in Event
    BY <2>1 DEF RecoveryInv, Typed, ClaimsAreNumbered
  <2>3. \E p : calls' = [calls EXCEPT ![c].pc = p]
    BY DEF ReadGap, Recover, CloseGap
  <2>4. PICK q \in Call : q = calls[c]
    BY DEF RecoveryInv, Typed
  <2>5. calls'[c].event = calls[c].event
    BY <2>3, <2>4 DEF RecoveryInv, Typed, Call
  <2>6. QED
    BY <2>2, <2>5
<1> DEFINE w == WebhookOf[e]
<1>2. w \in Webhook
    BY <1>1, EventShape
<1>3. \A p : calls' = [calls EXCEPT ![c].pc = p] => calls'[c].pc = p
  <2>1. calls \in [Caller -> Call]
    BY DEF RecoveryInv, Typed
  <2>2. QED
    BY <2>1 DEF Call
<1>4. Checked(e)' => Checked(e)
    BY <1>1, StepRows DEF Checked
<1>5. Checked(e) => WithinReach(e) \/ Opened(e)
    BY <1>1 DEF CursorInv
<1>6. CASE gaps[w].gap = NoGap /\ calls'[c].pc = "verify"
  <2>1. Checked(e)' => WithinReach(e)'
    BY <1>1, <1>4, <1>5, <1>6, StepGaps, Reached DEF Opened, OpenGap
  <2>2. QED
    BY <1>1, <1>6, <2>1 DEF CallKnows
<1>7. CASE ReadGap(c)
  <2>1. /\ calls'[c].pc = IF gaps[w].gap = NoGap THEN "verify" ELSE "recover"
        /\ found'[c] = gaps[w].gap
    BY <1>1, <1>3, <1>7 DEF ReadGap, Tables
  <2>2. QED
    BY <1>1, <1>6, <2>1 DEF CallKnows
<1>8. CASE Recover(c)
  <2>1. /\ calls'[c].pc = IF gaps[w].gap = NoGap THEN "verify" ELSE "close"
        /\ gaps[w].gap \in {NoGap, found[c]} /\ UNCHANGED <<found, gaps>>
    BY <1>1, <1>3, <1>8 DEF Recover
  <2>2. found[c] # NoGap
    BY <1>8 DEF Recover, CursorInv, CallKnows
  <2>3. CASE gaps[w].gap # NoGap
    BY <1>1, <2>1, <2>2, <2>3 DEF CallKnows, OpenGap
  <2>4. QED
    BY <1>6, <2>1, <2>3
<1>9. CASE CloseGap(c)
  <2>1. calls'[c].pc = "verify" /\ calls[c].pc = "close"
    BY <1>3, <1>9 DEF CloseGap
  <2>2. ASSUME Checked(e)' PROVE WithinReach(e)'
    <3>1. Checked(e)
        BY <1>4, <2>2
    <3>2. CASE WithinReach(e)
        BY <1>1, <3>2, StepGaps, Reached
    <3>3. CASE ~WithinReach(e)
      <4>1. Opened(e) /\ gaps[w].gap = found[c]
        BY <1>1, <1>5, <2>1, <3>1, <3>3 DEF CursorInv, CallKnows, OpenGap
      <4>2. gaps'[w].last # NoSlot /\ gaps'[w].last >= found[c].to
        BY <1>1, <1>9, <4>1, CloseGaps
      <4>3. SlotOf[e] # NoSlot /\ found[c].to = SlotOf[e] - 1 /\ SlotOf[e] \in Nat
        BY <1>1, <4>1, EventShape DEF Opened, OpenGap
      <4>4. gaps'[w].last \in Nat
        BY <1>2, <4>2, StepGaps DEF Cursors, Slot
      <4>5. ~(SlotOf[e] > gaps'[w].last + MaxSlotGap)
        BY <4>2, <4>3, <4>4, Bounds
      <4>6. QED
        BY <4>2, <4>5 DEF WithinReach, Beyond
    <3>4. QED
        BY <3>2, <3>3
  <2>3. QED
    BY <1>1, <2>1, <2>2 DEF CallKnows
<1>10. QED
    BY <1>7, <1>8, <1>9

-----------------------------------------------------------------------------
(* The types of the tables are kept. *)
LEMMA TablesStep ==
    ASSUME RecoveryInv, Tables, CursorInv, [RecoveryNext]_recoveryVars, RecoveryInv'
    PROVE  Tables'
<1>1. boot' \in 1..MaxBoot
  <2>1. boot' = boot \/ (boot < MaxBoot /\ boot' = boot + 1)
    BY DEF RecoveryNext, recoveryVars, Deliver, RunOnce, ClaimNext, ReadGap, Recover, CloseGap,
           Handoff, Defer, FenceLost, Crash, ClockTick, MachineReboot
  <2>2. QED
    BY <2>1, Bounds DEF Tables
<1>2. received' \subseteq Delivery
  <2>1. received' = received \/ \E d \in Delivery : received' = received \cup {d}
    BY DEF RecoveryNext, recoveryVars, Deliver, RunOnce, ClaimNext, ReadGap, Recover, CloseGap,
           Handoff, Defer, FenceLost, Crash, ClockTick, MachineReboot
  <2>2. QED
    BY <2>1 DEF Tables
<1>3. \A c \in Caller : Claimed(c) => calls[c].event \in Known /\ calls[c].event \in Event
    BY DEF RecoveryInv, Typed, ClaimsAreNumbered
<1>4. admitted' \subseteq Event
  <2>1. \/ admitted' = admitted
        \/ \E c \in Caller : admitted' = admitted \cup {TransactionOf[calls[c].event]}
                             /\ Claimed(c)
    BY DEF RecoveryNext, recoveryVars, Deliver, RunOnce, ClaimNext, ReadGap, Recover, CloseGap,
           Handoff, Defer, FenceLost, Crash, ClockTick, MachineReboot, Claimed
  <2>2. QED
    BY <1>3, <2>1, RecoveryAssumption DEF Tables, RecoveryAssumption
<1>5. dead' \subseteq Known'
  <2>1. \/ dead' = dead
        \/ \E c \in Caller : dead' = dead \cup {calls[c].event} /\ Claimed(c)
    BY DEF RecoveryNext, recoveryVars, Deliver, RunOnce, ClaimNext, ReadGap, Recover, CloseGap,
           Handoff, Defer, FenceLost, Crash, ClockTick, MachineReboot, Claimed
  <2>2. Known \subseteq Known'
    BY StepRows
  <2>3. QED
    BY <1>3, <2>1, <2>2 DEF Tables
<1>6. found' \in [Caller -> Gap]
  <2>1. \/ found' = found
        \/ \E c \in Caller :
              found' = [found EXCEPT ![c] = gaps[WebhookOf[calls[c].event]].gap] /\ Claimed(c)
    BY DEF RecoveryNext, recoveryVars, Deliver, RunOnce, ClaimNext, ReadGap, Recover, CloseGap,
           Handoff, Defer, FenceLost, Crash, ClockTick, MachineReboot, Claimed
  <2>2. \A c \in Caller : Claimed(c) => gaps[WebhookOf[calls[c].event]].gap \in Gap
    BY <1>3, EventShape DEF Tables, Cursors
  <2>3. QED
    BY <2>1, <2>2 DEF Tables
<1>7. QED
    BY <1>1, <1>2, <1>4, <1>5, <1>6, StepGaps, StepRows DEF Tables

(* What each call knows is kept. *)
LEMMA CallsStep ==
    ASSUME RecoveryInv, Tables, CursorInv, [RecoveryNext]_recoveryVars, RecoveryInv',
           NEW c \in Caller
    PROVE  CallKnows(c)'
<1>1. ASSUME calls'[c].pc \in {"idle", "claim", "gap"}
      PROVE  CallKnows(c)'
    BY <1>1 DEF CallKnows
<1>2. calls \in [Caller -> Call] /\ found \in [Caller -> Gap] /\ Idle.pc = "idle"
    BY DEF RecoveryInv, Typed, Tables, Idle
<1>3. CASE Delivered \/ ClockTick \/ UNCHANGED recoveryVars
  <2>1. UNCHANGED <<calls, found>>
    BY <1>3 DEF Delivered, Deliver, ClockTick, recoveryVars
  <2>2. QED
    BY <2>1, CallStands
<1>4. CASE MachineReboot
  <2>1. calls'[c] = Idle
    BY <1>4 DEF MachineReboot
  <2>2. QED
    BY <1>1, <1>2, <2>1
<1>5. ASSUME NEW b \in Caller, ReadGap(b) \/ Recover(b) \/ CloseGap(b)
      PROVE  CallKnows(c)'
  <2>1. CASE b = c
    BY <1>5, <2>1, CallMoves
  <2>2. CASE b # c
    <3>1. calls'[c] = calls[c] /\ found'[c] = found[c]
        BY <1>2, <1>5, <2>2 DEF ReadGap, Recover, CloseGap
    <3>2. QED
        BY <3>1, CallStands
  <2>3. QED
    BY <2>1, <2>2
<1>6. ASSUME NEW b \in Caller,
             RunOnce(b) \/ ClaimNext(b) \/ Handoff(b) \/ Defer(b) \/ FenceLost(b) \/ Crash(b)
      PROVE  CallKnows(c)'
  <2>1. \E q : /\ calls' = [calls EXCEPT ![b] = q]
               /\ q.pc \in {"idle", "claim", "gap"} /\ UNCHANGED found
    <3>1. CASE RunOnce(b)
      <4>1. PICK w \in Worker : calls' = [calls EXCEPT ![b] =
                [Idle EXCEPT !.pc = "claim", !.worker = w, !.now = now]]
        BY <3>1 DEF RunOnce
      <4>2. [Idle EXCEPT !.pc = "claim", !.worker = w, !.now = now].pc = "claim"
        BY DEF Idle
      <4>3. QED
        BY <3>1, <4>1, <4>2 DEF RunOnce
    <3>2. CASE ClaimNext(b)
      <4>1. CASE calls' = [calls EXCEPT ![b] = Idle]
        BY <1>2, <3>2, <4>1 DEF ClaimNext
      <4>2. CASE calls' # [calls EXCEPT ![b] = Idle]
        <5>1. PICK e \in Due(calls[b].now) : calls' = [calls EXCEPT ![b] =
                 [@ EXCEPT !.pc = "gap", !.event = e, !.fence = work'[e].fence,
                           !.attempt = work'[e].attempts]]
            BY <3>2, <4>2 DEF ClaimNext
        <5>2. PICK q \in Call : q = calls[b]
            BY <1>2
        <5>3. [q EXCEPT !.pc = "gap", !.event = e, !.fence = work'[e].fence,
                        !.attempt = work'[e].attempts].pc = "gap"
            BY DEF Call
        <5>4. QED
            BY <1>2, <3>2, <5>1, <5>2, <5>3 DEF ClaimNext
      <4>3. QED
        BY <4>1, <4>2
    <3>3. CASE Handoff(b) \/ Defer(b) \/ FenceLost(b) \/ Crash(b)
        BY <1>2, <3>3 DEF Handoff, Defer, FenceLost, Crash
    <3>4. QED
        BY <1>6, <3>1, <3>2, <3>3
  <2>2. CASE b = c
    <3>1. calls'[c].pc \in {"idle", "claim", "gap"}
        BY <1>2, <2>1, <2>2
    <3>2. QED
        BY <1>1, <3>1
  <2>3. CASE b # c
    <3>1. calls'[c] = calls[c] /\ found'[c] = found[c]
        BY <1>2, <2>1, <2>3
    <3>2. QED
        BY <3>1, CallStands
  <2>4. QED
    BY <2>2, <2>3
<1>7. QED
    BY <1>3, <1>4, <1>5, <1>6 DEF RecoveryNext, Delivered

(* Only a call that knows its event to be near hands it over. *)
LEMMA HandoffsStep ==
    ASSUME RecoveryInv, Tables, CursorInv, [RecoveryNext]_recoveryVars, RecoveryInv',
           NEW h \in handoffs', Checked(h.event)'
    PROVE  WithinReach(h.event)'
<1>1. CASE h \in handoffs
  <2>1. h.event \in Known /\ h.event \in Event
    BY <1>1 DEF RecoveryInv, Typed
  <2>2. Checked(h.event)
    BY <2>1, StepRows DEF Checked
  <2>3. WithinReach(h.event)
    BY <1>1, <2>2 DEF CursorInv
  <2>4. QED
    BY <2>1, <2>3, StepGaps, Reached
<1>2. CASE h \notin handoffs
  <2>1. PICK c \in Caller : calls[c].pc = "verify" /\ h.event = calls[c].event
    <3>1. handoffs' = handoffs \/ \E c \in Caller : Handoff(c)
        BY DEF RecoveryNext, recoveryVars, Deliver, RunOnce, ClaimNext, ReadGap, Recover,
               CloseGap, Defer, FenceLost, Crash, ClockTick, MachineReboot
    <3>2. PICK c \in Caller : Handoff(c)
        BY <1>2, <3>1
    <3>3. h = [transaction |-> TransactionOf[calls[c].event], event |-> calls[c].event]
        BY <1>2, <3>2 DEF Handoff
    <3>4. QED
        BY <3>2, <3>3 DEF Handoff
  <2>2. h.event \in Known /\ h.event \in Event
    BY <2>1 DEF RecoveryInv, Typed, ClaimsAreNumbered, Claimed
  <2>3. Checked(h.event)
    BY <2>2, StepRows DEF Checked
  <2>4. WithinReach(h.event)
    BY <2>1, <2>3 DEF CursorInv, CallKnows
  <2>5. QED
    BY <2>2, <2>4, StepGaps, Reached
<1>3. QED
    BY <1>1, <1>2

-----------------------------------------------------------------------------
(* The invariant holds throughout. *)
THEOREM CursorCorrect == RecoverySpec => [](RecoveryInv /\ Tables /\ CursorInv)
<1>1. RecoveryInit => RecoveryInv /\ Tables /\ CursorInv
  <2> SUFFICES ASSUME RecoveryInit PROVE RecoveryInv /\ Tables /\ CursorInv
    OBVIOUS
  <2>1. Known = {} /\ IsFiniteSet(Known)
    BY FS_EmptySet DEF RecoveryInit, Known
  <2>2. Tables
    <3>1. inbox \in [Known -> InboxRow]
        BY <2>1 DEF RecoveryInit
    <3>2. gaps \in Cursors /\ found \in [Caller -> Gap]
        BY GapShape DEF RecoveryInit, Cursors
    <3>3. boot \in 1..MaxBoot
        BY Bounds DEF RecoveryInit
    <3>4. QED
        BY <2>1, <3>1, <3>2, <3>3 DEF Tables, RecoveryInit
  <2>3. \A c \in Caller : calls[c].pc = "idle"
    BY DEF RecoveryInit, Idle
  <2>4. handoffs = {}
    BY DEF RecoveryInit
  <2>5. CursorInv
    BY <2>1, <2>3, <2>4 DEF CursorInv, CallKnows
  <2>6. QED
    BY <2>2, <2>5, InitRecoveryInv
<1>2. RecoveryInv /\ Tables /\ CursorInv /\ [RecoveryNext]_recoveryVars /\ RecoveryInv'
      => Tables' /\ CursorInv'
  <2> SUFFICES ASSUME RecoveryInv, Tables, CursorInv, [RecoveryNext]_recoveryVars, RecoveryInv'
               PROVE  Tables' /\ CursorInv'
    OBVIOUS
  <2>1. Tables'
    BY TablesStep
  <2>2. CursorInv'
    BY StepRows, CallsStep, HandoffsStep DEF CursorInv
  <2>3. QED
    BY <2>1, <2>2
<1>3. QED
    BY <1>1, <1>2, RecoveryCorrect, PTL DEF RecoverySpec

(* Every variable of rooted recovery keeps its type: in particular the     *)
(* gaps that deliveries open are ranges of slots, and the slots a backfill *)
(* reaches are slots (enqueue, close_gap).                                 *)
THEOREM RecoveryTypes == RecoverySpec => []RecoveryTypeOK
<1>1. RecoveryInv /\ Tables => RecoveryTypeOK
  <2> SUFFICES ASSUME RecoveryInv, Tables PROVE RecoveryTypeOK
    OBVIOUS
  <2>1. handoffs \subseteq [transaction : Event, event : Known]
    BY DEF RecoveryInv, Typed
  <2>2. QED
    BY <2>1 DEF RecoveryInv, Typed, Tables, Cursors, RecoveryTypeOK
<1>2. QED
    BY <1>1, CursorCorrect, PTL

(* An event that was compared with the cursor is handed over only within   *)
(* reach of it, whichever call closes its gap, whatever the backfill       *)
(* reaches, and whatever gap opens next (enqueue, close_gap,               *)
(* commit_handoff).                                                        *)
THEOREM CheckedHandoffs == RecoverySpec => []CheckedHandoffsFollowTheCursor
<1>1. RecoveryInv /\ CursorInv => CheckedHandoffsFollowTheCursor
    BY DEF RecoveryInv, CursorInv, CheckedHandoffsFollowTheCursor, Checked
<1>2. QED
    BY <1>1, CursorCorrect, PTL
=============================================================================
