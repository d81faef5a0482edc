------------------------ MODULE RootedRecoveryProofs ------------------------
(***************************************************************************)
(* Rooted recovery hands each transaction over once, ends each inbox row   *)
(* once, and keeps two calls from acting under claims of one row, for      *)
(* every set of events, deliveries, callers and worker ids, and whatever   *)
(* the clock does.                                                         *)
(*                                                                         *)
(* What the cursor and the gaps hold plays no part in this; it is the      *)
(* subject of RootedCursorProofs.                                          *)
(***************************************************************************)
EXTENDS RootedRecovery, TLAPS

(* The types of the variables the argument is about. *)
Typed ==
    /\ now \in 0..MaxTick
    /\ Known \subseteq Event
    /\ work \in [Event -> Work]
    /\ handoffs \subseteq [transaction : Event, event : Event]
    /\ dead \subseteq Event
    /\ calls \in [Caller -> Call]

(* A claim is no newer than its row, and two calls never have the same.    *)
ClaimsAreNumbered ==
    /\ \A c \in Caller : Claimed(c) =>
          /\ calls[c].event \in Known
          /\ calls[c].fence <= work[calls[c].event].fence
    /\ \A c, d \in Caller :
          c # d /\ Claimed(c) /\ Claimed(d) /\ calls[c].event = calls[d].event
          => calls[c].fence # calls[d].fence

(* The inductive invariant: OneOutcomePerRow, said of every event. *)
RecoveryInv ==
    /\ Typed
    /\ ClaimsAreNumbered
    /\ AdmissionsMatchHandoffs
    /\ \A h \in handoffs : h.event \in Known /\ work[h.event].status = "admitted"
    /\ \A e \in dead : work[e].status = "dead_letter"
    /\ \A e \in Event : work[e].status = "admitted" =>
          \E h \in handoffs : h.transaction = TransactionOf[e]

-----------------------------------------------------------------------------
(* What the constants are, one by one. *)
LEMMA Bounds ==
    /\ MaxSlot \in Nat /\ MaxTick \in Nat /\ MaxBoot \in Nat /\ MaxBoot > 0 /\ MaxFence \in Nat
    /\ MaxSlotGap \in Nat /\ MaxSlotGap > 0 /\ LeaseDuration \in Nat /\ RetryDelay \in Nat
BY RecoveryAssumption DEF RecoveryAssumption

(* It holds at the start. *)
LEMMA InitRecoveryInv == RecoveryInit => RecoveryInv
<1> SUFFICES ASSUME RecoveryInit PROVE RecoveryInv
    OBVIOUS
<1> USE Bounds DEF RecoveryInit
<1>1. Known = {}
    BY DEF Known
<1>2. Pending \in Work /\ Idle \in Call
    BY DEF Pending, Work, Idle, Call
<1>3. Typed
    BY <1>1, <1>2 DEF Typed
<1>4. \A c \in Caller : ~Claimed(c)
    BY DEF Claimed, Idle
<1>5. QED
    BY <1>1, <1>3, <1>4 DEF RecoveryInv, ClaimsAreNumbered, AdmissionsMatchHandoffs, Pending

-----------------------------------------------------------------------------
(* A delivery only adds rows. *)
LEMMA DeliverInv ==
    ASSUME RecoveryInv, NEW d \in Delivery, Deliver(d)
    PROVE  RecoveryInv'
<1>1. /\ UNCHANGED <<now, work, handoffs, admitted, dead, calls>>
      /\ Known' = Known \cup {d[k] : k \in {j \in DOMAIN d : d[j] \notin Known}}
    BY DEF Deliver, Known
<1>2. \A k \in DOMAIN d : d[k] \in Event
    BY RecoveryAssumption DEF RecoveryAssumption
<1>3. Known' \subseteq Event /\ Known \subseteq Known'
    BY <1>1, <1>2 DEF RecoveryInv, Typed
<1>4. QED
    BY <1>1, <1>3 DEF RecoveryInv, Typed, ClaimsAreNumbered, AdmissionsMatchHandoffs, Claimed

(* Steps that leave the tables but the gaps alone, and give no call a      *)
(* claim it did not have.                                                  *)
LEMMA CallsOnly ==
    ASSUME RecoveryInv, UNCHANGED <<inbox, work, handoffs, admitted, dead>>,
           now' \in 0..MaxTick, calls' \in [Caller -> Call],
           \A c \in Caller : Claimed(c)' =>
               /\ Claimed(c)
               /\ calls'[c].event = calls[c].event /\ calls'[c].fence = calls[c].fence
    PROVE  RecoveryInv'
<1>1. Known' = Known
    BY DEF Known
<1>2. Typed'
    BY <1>1 DEF RecoveryInv, Typed
<1>3. ClaimsAreNumbered'
    BY <1>1 DEF RecoveryInv, ClaimsAreNumbered
<1>4. QED
    BY <1>1, <1>2, <1>3 DEF RecoveryInv, AdmissionsMatchHandoffs

(* run_once starts or ends without a claim, or a call goes on with its own.*)
LEMMA CallStepInv ==
    ASSUME RecoveryInv, NEW c \in Caller,
           RunOnce(c) \/ ReadGap(c) \/ Recover(c) \/ CloseGap(c) \/ FenceLost(c) \/ Crash(c)
    PROVE  RecoveryInv'
<1> USE Bounds
<1>1. Idle \in Call
    BY DEF RecoveryInv, Typed, Idle, Call
<1>2. PICK r \in Call : /\ calls' = [calls EXCEPT ![c] = r]
                        /\ r.pc \in {"idle", "claim"} \/
                           (Claimed(c) /\ r.event = calls[c].event /\ r.fence = calls[c].fence)
  <2>1. CASE RunOnce(c)
    <3>1. PICK w \in Worker : calls' = [calls EXCEPT ![c] =
              [Idle EXCEPT !.pc = "claim", !.worker = w, !.now = now]]
        BY <2>1 DEF RunOnce
    <3>2. [Idle EXCEPT !.pc = "claim", !.worker = w, !.now = now] \in Call
        BY <1>1 DEF RecoveryInv, Typed, Call, Idle
    <3>3. [Idle EXCEPT !.pc = "claim", !.worker = w, !.now = now].pc = "claim"
        BY DEF Idle
    <3>4. QED
        BY <3>1, <3>2, <3>3
  <2>2. ASSUME NEW p \in {"verify", "recover", "close"}, Claimed(c),
               calls' = [calls EXCEPT ![c].pc = p]
        PROVE  \E r \in Call : /\ calls' = [calls EXCEPT ![c] = r]
                               /\ Claimed(c) /\ r.event = calls[c].event /\ r.fence = calls[c].fence
    <3>1. PICK q \in Call : q = calls[c]
        BY DEF RecoveryInv, Typed
    <3>2. [q EXCEPT !.pc = p] \in Call
        BY DEF Call
    <3>3. QED
        BY <2>2, <3>1, <3>2 DEF Call
  <2>3. CASE ReadGap(c)
    <3>1. \E p \in {"verify", "recover"} : calls' = [calls EXCEPT ![c].pc = p]
        BY <2>3 DEF ReadGap
    <3>2. QED
        BY <2>2, <2>3, <3>1 DEF ReadGap, Claimed
  <2>4. CASE Recover(c)
    <3>1. \E p \in {"verify", "close"} : calls' = [calls EXCEPT ![c].pc = p]
        BY <2>4 DEF Recover
    <3>2. QED
        BY <2>2, <2>4, <3>1 DEF Recover, Claimed
  <2>5. CASE CloseGap(c)
    BY <2>2, <2>5 DEF CloseGap, Claimed
  <2>6. CASE FenceLost(c) \/ Crash(c)
    BY <1>1, <2>6 DEF FenceLost, Crash, Idle
  <2>7. QED
    BY <2>1, <2>3, <2>4, <2>5, <2>6
<1>3. UNCHANGED <<now, inbox, work, handoffs, admitted, dead>>
    BY DEF RunOnce, ReadGap, Recover, CloseGap, FenceLost, Crash
<1>4. calls' \in [Caller -> Call] /\ now' \in 0..MaxTick
    BY <1>2, <1>3 DEF RecoveryInv, Typed
<1>5. \A d \in Caller : Claimed(d)' => /\ Claimed(d)
                                     /\ calls'[d].event = calls[d].event
                                     /\ calls'[d].fence = calls[d].fence
    BY <1>2 DEF RecoveryInv, Typed, Claimed
<1>6. QED
    BY <1>3, <1>4, <1>5, CallsOnly

(* The clock moves, and a reboot ends every call. *)
LEMMA ClockInv ==
    ASSUME RecoveryInv, ClockTick \/ MachineReboot
    PROVE  RecoveryInv'
<1> USE Bounds
<1>1. CASE ClockTick
  <2>1. now' \in 0..MaxTick
    BY <1>1 DEF ClockTick, RecoveryInv, Typed
  <2>2. QED
    BY <1>1, <2>1, CallsOnly DEF ClockTick, RecoveryInv, Typed, Claimed
<1>2. CASE MachineReboot
  <2>1. Idle \in Call
    BY DEF Idle, Call
  <2>2. calls' \in [Caller -> Call] /\ now' \in 0..MaxTick
    BY <1>2, <2>1 DEF MachineReboot
  <2>3. \A c \in Caller : ~Claimed(c)'
    BY <1>2 DEF MachineReboot, Claimed, Idle
  <2>4. QED
    BY <1>2, <2>2, <2>3, CallsOnly DEF MachineReboot
<1>3. QED
    BY <1>1, <1>2

-----------------------------------------------------------------------------
(* A claim raises the fence of a row that has no outcome yet. *)
LEMMA ClaimNextInv ==
    ASSUME RecoveryInv, NEW c \in Caller, ClaimNext(c)
    PROVE  RecoveryInv'
<1> USE Bounds
<1>1. UNCHANGED <<now, inbox, handoffs, admitted, dead>> /\ Known' = Known
    BY DEF ClaimNext, Known
<1>2. CASE calls' = [calls EXCEPT ![c] = Idle] /\ UNCHANGED work
  <2>1. Idle \in Call
    BY DEF Idle, Call
  <2>2. QED
    BY <1>1, <1>2, <2>1, CallsOnly DEF RecoveryInv, Typed, Claimed, Idle
<1>3. CASE ~(calls' = [calls EXCEPT ![c] = Idle] /\ UNCHANGED work)
  <2>1. PICK e \in Due(calls[c].now) :
          /\ work[e].fence < MaxFence
          /\ work' = [work EXCEPT ![e] = ClaimedWork(e, calls[c].worker, calls[c].now)]
          /\ calls' = [calls EXCEPT ![c] =
                [@ EXCEPT !.pc = "gap", !.event = e, !.fence = work'[e].fence,
                          !.attempt = work'[e].attempts]]
    BY <1>3 DEF ClaimNext
  <2>2. e \in Known /\ e \in Event /\ work[e].status \notin {"admitted", "dead_letter"}
    BY DEF Due, RecoveryInv, Typed
  <2>3. PICK r \in Work : r = work[e]
    BY <2>2 DEF RecoveryInv, Typed
  <2>4. PICK q \in Call : q = calls[c]
    BY DEF RecoveryInv, Typed
  <2>5. PICK n \in Work : /\ n = ClaimedWork(e, q.worker, q.now)
                         /\ n.status = "processing" /\ n.fence = r.fence + 1
    <3>1. q.worker \in Worker \cup {NoWorker} /\ q.now + LeaseDuration \in Nat
      <4>1. q.now \in Nat /\ q.worker \in Worker \cup {NoWorker}
        BY DEF Call
      <4>2. q.now + LeaseDuration \in Nat
        BY <4>1
      <4>3. QED
        BY <4>1, <4>2
    <3>2. r.fence + 1 \in 0..MaxFence /\ r.attempts + 1 \in Nat
      <4>1. r.fence \in Nat /\ r.attempts \in Nat
        BY DEF Work
      <4>2. r.fence + 1 \in 0..MaxFence
        BY <2>1, <2>3, <4>1
      <4>3. r.attempts + 1 \in Nat
        BY <4>1
      <4>4. QED
        BY <4>2, <4>3
    <3> DEFINE n == [r EXCEPT !.status = "processing", !.owner = q.worker, !.fence = @ + 1,
                              !.expires = q.now + LeaseDuration, !.attempts = @ + 1]
    <3>3. n \in Work
        BY <3>1, <3>2 DEF Work
    <3>4. n.status = "processing" /\ n.fence = r.fence + 1
        BY DEF Work
    <3>5. QED
        BY <2>3, <3>3, <3>4 DEF ClaimedWork
  <2>6. work' = [work EXCEPT ![e] = n] /\ work'[e] = n
    BY <2>1, <2>2, <2>4, <2>5 DEF RecoveryInv, Typed
  <2>7. PICK k \in Call : /\ calls' = [calls EXCEPT ![c] = k]
                         /\ k.event = e /\ k.fence = n.fence
    <3> DEFINE k == [q EXCEPT !.pc = "gap", !.event = e, !.fence = n.fence,
                              !.attempt = n.attempts]
    <3>1. k \in Call
        BY <2>2 DEF Call, Work
    <3>2. k.event = e /\ k.fence = n.fence
        BY DEF Call
    <3>3. calls' = [calls EXCEPT ![c] = k]
        BY <2>1, <2>4, <2>6
    <3>4. QED
        BY <3>1, <3>2, <3>3
  <2>8. Typed'
    BY <1>1, <2>5, <2>6, <2>7 DEF RecoveryInv, Typed
  <2>9. \A d \in Caller \ {c} : calls'[d] = calls[d]
    BY <2>7 DEF RecoveryInv, Typed
  <2>10. calls'[c] = k
    BY <2>7 DEF RecoveryInv, Typed
  <2>11. /\ \A f \in Event \ {e} : work'[f] = work[f]
         /\ work'[e].fence > work[e].fence /\ work[e].fence \in Nat /\ work'[e].fence \in Nat
    BY <2>2, <2>3, <2>5, <2>6 DEF RecoveryInv, Typed, Work
  <2>12. ClaimsAreNumbered'
    <3>1. ASSUME NEW d \in Caller, Claimed(d)'
          PROVE  calls'[d].event \in Known' /\ calls'[d].fence <= work'[calls'[d].event].fence
      <4>1. CASE d = c
        BY <1>1, <2>2, <2>6, <2>7, <2>10, <2>11, <4>1
      <4>2. CASE d # c
        <5>1. /\ calls'[d] = calls[d] /\ Claimed(d) /\ calls[d].event \in Known
              /\ calls[d].fence <= work[calls[d].event].fence /\ calls[d].event \in Event
            BY <2>9, <3>1, <4>2 DEF Claimed, RecoveryInv, ClaimsAreNumbered, Typed
        <5>2. calls[d].fence \in Nat
            BY DEF RecoveryInv, Typed, Call
        <5>3. QED
            BY <1>1, <2>11, <5>1, <5>2
      <4>3. QED
        BY <4>1, <4>2
    <3>2. ASSUME NEW d \in Caller \ {c}, Claimed(d)', calls'[d].event = e
          PROVE  calls'[d].fence # calls'[c].fence
      <4>1. /\ calls'[d] = calls[d] /\ calls[d].fence <= work[e].fence
            BY <2>9, <3>2 DEF Claimed, RecoveryInv, ClaimsAreNumbered
      <4>2. calls[d].fence \in Nat
            BY DEF RecoveryInv, Typed, Call
      <4>3. QED
            BY <2>6, <2>7, <2>10, <2>11, <4>1, <4>2
    <3>3. ASSUME NEW d1 \in Caller \ {c}, NEW d2 \in Caller \ {c}, d1 # d2,
                 Claimed(d1)', Claimed(d2)', calls'[d1].event = calls'[d2].event
          PROVE  calls'[d1].fence # calls'[d2].fence
        BY <2>9, <3>3 DEF Claimed, RecoveryInv, ClaimsAreNumbered
    <3>4. QED
        BY <2>7, <2>10, <3>1, <3>2, <3>3 DEF ClaimsAreNumbered
  <2>13. work'[e].status = "processing"
    BY <2>5, <2>6
  <2>14. QED
    BY <1>1, <2>2, <2>8, <2>11, <2>12, <2>13 DEF RecoveryInv, AdmissionsMatchHandoffs, Typed
<1>4. QED
    BY <1>2, <1>3

-----------------------------------------------------------------------------
(* A call whose claim ends the attempt at its row: whatever the new row    *)
(* is, the numbering of the claims stays.                                  *)
LEMMA SettleInv ==
    ASSUME RecoveryInv, NEW c \in Caller, Claimed(c), UNCHANGED <<now, inbox>>,
           NEW n \in Work, n.fence = work[calls[c].event].fence,
           work' = [work EXCEPT ![calls[c].event] = n], calls' = [calls EXCEPT ![c] = Idle]
    PROVE  /\ Known' = Known /\ calls' \in [Caller -> Call] /\ work' \in [Event -> Work]
           /\ ClaimsAreNumbered'
<1>1. Known' = Known /\ calls[c].event \in Event
    BY DEF Known, RecoveryInv, Typed, ClaimsAreNumbered
<1>2. Idle \in Call
    BY RecoveryAssumption DEF Idle, Call, RecoveryAssumption
<1>3. calls' \in [Caller -> Call] /\ work' \in [Event -> Work]
    BY <1>2 DEF RecoveryInv, Typed
<1>4. \A e \in Event : work'[e].fence = work[e].fence
    BY <1>1 DEF RecoveryInv, Typed
<1>5. ~Claimed(c)' /\ \A d \in Caller \ {c} : calls'[d] = calls[d]
    BY DEF RecoveryInv, Typed, Claimed, Idle
<1>6. \A d \in Caller : Claimed(d)' => Claimed(d) /\ calls'[d] = calls[d] /\ calls[d].event \in Event
    BY <1>5 DEF Claimed, RecoveryInv, Typed, ClaimsAreNumbered
<1>7. ClaimsAreNumbered'
    BY <1>1, <1>4, <1>6 DEF RecoveryInv, ClaimsAreNumbered
<1>8. QED
    BY <1>1, <1>3, <1>7

(* A handoff gives its row and its transaction their one outcome. *)
LEMMA HandoffInv ==
    ASSUME RecoveryInv, NEW c \in Caller, Handoff(c)
    PROVE  RecoveryInv'
<1>1. PICK e \in Known : /\ e = calls[c].event /\ e \in Event
                         /\ work[e].status = "processing" /\ Claimed(c)
    BY DEF Handoff, HoldsFence, Claimed, RecoveryInv, Typed, ClaimsAreNumbered
<1>2. PICK n \in Work : n = AdmittedWork(e) /\ n.status = "admitted" /\ n.fence = work[e].fence
  <2>1. PICK r \in Work : r = work[e]
    BY <1>1 DEF RecoveryInv, Typed
  <2> DEFINE n == [r EXCEPT !.status = "admitted", !.owner = NoWorker, !.expires = 0]
  <2>2. n \in Work /\ n.status = "admitted" /\ n.fence = r.fence
    BY DEF Work
  <2>3. QED
    BY <2>1, <2>2 DEF AdmittedWork
<1>3. /\ work' = [work EXCEPT ![e] = n] /\ calls' = [calls EXCEPT ![c] = Idle]
      /\ UNCHANGED <<now, inbox, dead>>
    BY <1>1, <1>2 DEF Handoff
<1>4. /\ Known' = Known /\ calls' \in [Caller -> Call] /\ work' \in [Event -> Work]
      /\ ClaimsAreNumbered'
    BY <1>1, <1>2, <1>3, SettleInv
<1>5. work'[e] = n /\ \A f \in Event \ {e} : work'[f] = work[f]
    BY <1>1, <1>3 DEF RecoveryInv, Typed
<1>6. PICK t \in Event : t = TransactionOf[e]
    BY <1>1, RecoveryAssumption DEF RecoveryAssumption
<1>7. PICK g \in [transaction : Event, event : Event] : g.transaction = t /\ g.event = e
    BY <1>1, [transaction |-> t, event |-> e] \in [transaction : Event, event : Event]
<1>8. \/ /\ \E h \in handoffs : h.transaction = t
         /\ UNCHANGED <<handoffs, admitted>>
      \/ /\ ~\E h \in handoffs : h.transaction = t
         /\ handoffs' = handoffs \cup {g} /\ admitted' = admitted \cup {t}
  <2>1. g = [transaction |-> t, event |-> e]
    BY <1>7
  <2>2. QED
    BY <1>1, <1>6, <2>1 DEF Handoff
<1>9. Typed'
    BY <1>1, <1>3, <1>4, <1>7, <1>8 DEF RecoveryInv, Typed
<1>10. AdmissionsMatchHandoffs'
  <2>1. AdmissionsMatchHandoffs
    BY DEF RecoveryInv
  <2>2. CASE UNCHANGED <<handoffs, admitted>>
    BY <2>1, <2>2 DEF AdmissionsMatchHandoffs
  <2>3. CASE /\ ~\E h \in handoffs : h.transaction = t
             /\ handoffs' = handoffs \cup {g} /\ admitted' = admitted \cup {t}
    BY <1>7, <2>1, <2>3 DEF AdmissionsMatchHandoffs
  <2>4. QED
    BY <1>8, <2>2, <2>3
<1>11. \A h \in handoffs' : h.event \in Known /\ work'[h.event].status = "admitted"
    BY <1>1, <1>2, <1>5, <1>7, <1>8 DEF RecoveryInv, Typed
<1>12. \A f \in dead' : work'[f].status = "dead_letter"
    BY <1>1, <1>3, <1>5 DEF RecoveryInv, Typed
<1>13. \A f \in Event : work'[f].status = "admitted" =>
            \E h \in handoffs' : h.transaction = TransactionOf[f]
  <2>1. \E h \in handoffs' : h.transaction = t
    BY <1>7, <1>8
  <2>2. handoffs \subseteq handoffs'
    BY <1>7, <1>8
  <2>3. QED
    BY <1>5, <1>6, <2>1, <2>2 DEF RecoveryInv
<1>14. QED
    BY <1>4, <1>9, <1>10, <1>11, <1>12, <1>13 DEF RecoveryInv

(* A deferred row waits again, or is a dead letter. *)
LEMMA DeferInv ==
    ASSUME RecoveryInv, NEW c \in Caller, Defer(c)
    PROVE  RecoveryInv'
<1> USE Bounds
<1>1. PICK e \in Known : /\ e = calls[c].event /\ e \in Event
                         /\ work[e].status = "processing" /\ Claimed(c)
    BY DEF Defer, HoldsFence, Claimed, RecoveryInv, Typed, ClaimsAreNumbered
<1>2. PICK n \in Work, last \in BOOLEAN :
        /\ work' = [work EXCEPT ![e] = n] /\ n.fence = work[e].fence
        /\ n.status \in {"dead_letter", "retry", "gap_blocked"}
        /\ last <=> n.status = "dead_letter"
        /\ dead' = IF last THEN dead \cup {e} ELSE dead
  <2>1. PICK r \in Work : r = work[e]
    BY <1>1 DEF RecoveryInv, Typed
  <2>2. calls[c].now + RetryDelay \in Nat
    <3>1. RetryDelay \in Nat /\ calls[c].now \in Nat
        BY DEF RecoveryInv, Typed, Call
    <3>2. QED
        BY <3>1
  <2> DEFINE last == calls[c].attempt >= MaxAttempts
             status == IF last THEN "dead_letter"
                       ELSE IF calls[c].pc = "verify" THEN "retry" ELSE "gap_blocked"
             n == [r EXCEPT !.status = status, !.owner = NoWorker,
                            !.expires = 0, !.next = calls[c].now + RetryDelay]
  <2>3. last \in BOOLEAN
    OBVIOUS
  <2>4. /\ status \in {"dead_letter", "retry", "gap_blocked"}
        /\ last <=> status = "dead_letter"
    OBVIOUS
  <2>5. work' = [work EXCEPT ![e] = n] /\ dead' = IF last THEN dead \cup {e} ELSE dead
    BY <1>1, <2>1 DEF Defer
  <2> HIDE DEF last, status
  <2>6. n \in Work /\ n.fence = r.fence /\ n.status = status
    BY <2>2, <2>4 DEF Work
  <2>7. QED
    BY <2>1, <2>3, <2>4, <2>5, <2>6
<1>3. calls' = [calls EXCEPT ![c] = Idle] /\ UNCHANGED <<now, inbox, handoffs, admitted>>
    BY DEF Defer
<1>4. /\ Known' = Known /\ calls' \in [Caller -> Call] /\ work' \in [Event -> Work]
      /\ ClaimsAreNumbered'
    BY <1>1, <1>2, <1>3, SettleInv
<1>5. work'[e] = n /\ \A f \in Event \ {e} : work'[f] = work[f]
    BY <1>1, <1>2 DEF RecoveryInv, Typed
<1>6. Typed'
    BY <1>1, <1>2, <1>3, <1>4 DEF RecoveryInv, Typed
<1>7. \A f \in dead' : work'[f].status = "dead_letter"
    BY <1>1, <1>2, <1>5 DEF RecoveryInv, Typed
<1>8. \A h \in handoffs : h.event \in Known /\ work'[h.event].status = "admitted"
    BY <1>1, <1>5 DEF RecoveryInv, Typed
<1>9. QED
    BY <1>2, <1>3, <1>4, <1>5, <1>6, <1>7, <1>8 DEF RecoveryInv, AdmissionsMatchHandoffs

-----------------------------------------------------------------------------
(* The inductive invariant holds throughout. *)
THEOREM RecoveryCorrect == RecoverySpec => []RecoveryInv
<1>1. RecoveryInv /\ [RecoveryNext]_recoveryVars => RecoveryInv'
  <2> SUFFICES ASSUME RecoveryInv, [RecoveryNext]_recoveryVars PROVE RecoveryInv'
    OBVIOUS
  <2>1. CASE \E d \in Delivery : Deliver(d)
    BY <2>1, DeliverInv
  <2>2. CASE \E c \in Caller : \/ RunOnce(c) \/ ReadGap(c) \/ Recover(c) \/ CloseGap(c)
                             \/ FenceLost(c) \/ Crash(c)
    BY <2>2, CallStepInv
  <2>3. CASE \E c \in Caller : ClaimNext(c) \/ Handoff(c) \/ Defer(c)
    BY <2>3, ClaimNextInv, HandoffInv, DeferInv
  <2>4. CASE ClockTick \/ MachineReboot
    BY <2>4, ClockInv
  <2>5. CASE UNCHANGED recoveryVars
    <3>1. now' \in 0..MaxTick /\ calls' \in [Caller -> Call]
        BY <2>5 DEF recoveryVars, RecoveryInv, Typed
    <3>2. QED
        BY <2>5, <3>1, CallsOnly DEF recoveryVars, Claimed
  <2>6. QED
    BY <2>1, <2>2, <2>3, <2>4, <2>5 DEF RecoveryNext
<1>2. QED
    BY <1>1, InitRecoveryInv, PTL DEF RecoverySpec

(* Every inbox row has at most one outcome (claim_next, commit_handoff,    *)
(* defer).                                                                 *)
THEOREM RowsEndOnce == RecoverySpec => []OneOutcomePerRow
<1>1. RecoveryInv => OneOutcomePerRow
    BY DEF RecoveryInv, Typed, OneOutcomePerRow
<1>2. QED
    BY <1>1, RecoveryCorrect, PTL

(* The admissions of the sink are the handoffs, one per transaction        *)
(* (commit_handoff).                                                       *)
THEOREM AdmittedOnce == RecoverySpec => []AdmissionsMatchHandoffs
<1>1. RecoveryInv => AdmissionsMatchHandoffs
    BY DEF RecoveryInv
<1>2. QED
    BY <1>1, RecoveryCorrect, PTL

(* No two calls pass _assert_fence for one row. *)
THEOREM FencesSeparateCalls == RecoverySpec => []ClaimsAreExclusive
<1>1. RecoveryInv => ClaimsAreExclusive
    BY DEF RecoveryInv, ClaimsAreNumbered, ClaimsAreExclusive, HoldsFence
<1>2. QED
    BY <1>1, RecoveryCorrect, PTL
=============================================================================
