---------------------- MODULE CapitalReservationsProofs ----------------------
(***************************************************************************)
(* Theorems about the capital coordinator for every number of attempts,    *)
(* processes, balances and slots: its type invariant; that an outcome row  *)
(* is never found beside an unsettled reservation although the three       *)
(* statements of its commit are three transactions; and that what is       *)
(* reserved never exceeds the balance it was granted against, of which the *)
(* capital a later settlement consumed still is a part.                    *)
(***************************************************************************)
EXTENDS CapitalReservations, DurableLifecycleProofs, FiniteSetTheorems

USE LeaseAssumption, OutboxAssumption, LifecycleAssumption, NoAttemptIsNoRow,
    CapitalAssumption

(* A commit in progress: its attempt exists, and what it has written is    *)
(* still there.                                                            *)
CommitOK(c) ==
    c.pc # "idle" =>
        /\ c.attempt \in Attempt /\ Exists(c.attempt)
        /\ c.pc \in {"attempt", "row"} => reservations[c.attempt] = c.to
        /\ c.pc = "row" => attempts[c.attempt].reservation = c.to

CommitsOK == \A p \in Process : CommitOK(committing[p])

(* Only attempts have reservations. *)
ReservationsHaveAttempts ==
    \A a \in Attempt : ~Exists(a) => reservations[a] = "none"

CapitalInv ==
    /\ CapitalTypeOK /\ CommitsOK /\ ReservationsHaveAttempts
    /\ OutcomesAreSettled

(* What a step leaves of the attempts and reservations that a commit or an *)
(* outcome row relies on: an attempt stays, and a reservation that has     *)
(* ended keeps its row, from which the copy may only be corrected.         *)
SettledStay ==
    \A a \in Attempt :
        /\ Exists(a) => attempts'[a] # NoAttempt
        /\ attempts'[a] = NoAttempt => reservations'[a] = "none"
        /\ Exists(a) /\ reservations[a] # "active" =>
              /\ reservations'[a] = reservations[a]
              /\ attempts'[a].reservation
                     \in {attempts[a].reservation, reservations[a]}

(* Reserving, releasing, leases, crashes and the clock are steps of the    *)
(* store.                                                                  *)
StoreMoves == [Next]_vars /\ SettledStay

-----------------------------------------------------------------------------
(* A step that leaves the tables alone. *)
LEMMA NothingMoves ==
    ASSUME CapitalInv, [Next]_vars, UNCHANGED lifecycleVars
    PROVE  StoreMoves
BY DEF StoreMoves, SettledStay, lifecycleVars, CapitalInv, ReservationsHaveAttempts, Exists

(* A new attempt comes with its reservation. *)
LEMMA ReserveMoves ==
    ASSUME CapitalInv, NEW p \in Process, NEW a \in Attempt, ReserveCapital(p, a)
    PROVE  StoreMoves
<1>1. PICK k \in KeysFor(a, 0) : CreateAttempt(a, k, "planned", TRUE)
  BY DEF ReserveCapital
<1>2. Next
  BY <1>1 DEF Next
<1>3. /\ ~Exists(a)
      /\ attempts' = [attempts EXCEPT ![a] =
             [state |-> "planned", revision |-> 0, message |-> NoMessage,
              reservation |-> "active", terminal |-> FALSE]]
      /\ reservations' = [reservations EXCEPT ![a] = "active"]
  BY <1>1 DEF CreateAttempt
<1>4. TypeOK /\ ReservationsHaveAttempts
  BY DEF CapitalInv, CapitalTypeOK
<1>5. \A b \in Attempt \ {a} :
         attempts'[b] = attempts[b] /\ reservations'[b] = reservations[b]
  BY <1>3, <1>4 DEF TypeOK
<1>6. attempts'[a] # NoAttempt
  <2>1. PICK x : Creates(a, k, "planned", x)
    BY <1>1, CreateCreates
  <2> QED BY <1>4, <2>1, CreatedRow DEF Exists
<1> QED BY <1>2, <1>3, <1>4, <1>5, <1>6
        DEF StoreMoves, SettledStay, ReservationsHaveAttempts, Exists

(* A release finds the reservation active. *)
LEMMA ReleaseMoves ==
    ASSUME CapitalInv, NEW w \in Worker, NEW a \in Attempt, ReleaseStep(w, a)
    PROVE  StoreMoves
<1>1. CASE AcquireAttemptLease(w, a)
  BY <1>1, NothingMoves DEF Next, AcquireAttemptLease
<1>2. ASSUME NEW k \in KeysFor(a, attempts[a].revision + 1),
             ReleaseAbandonedReservation(w, a, k)
      PROVE  StoreMoves
  <2>1. TypeOK /\ ReservationsHaveAttempts
    BY DEF CapitalInv, CapitalTypeOK
  <2>2. /\ Exists(a) /\ reservations[a] = "active"
        /\ attempts[a].revision + 1 \in Revision
    BY <1>2 DEF ReleaseAbandonedReservation, WriteUnderLease
  <2>3. Next
    BY <1>2, <2>2 DEF Next, Write
  <2>4. PICK row \in AttemptRow : row = attempts[a]
    BY <2>1, <2>2 DEF TypeOK, Exists
  <2>5. PICK new \in AttemptRow : attempts' = [attempts EXCEPT ![a] = new]
    <3> DEFINE new == [row EXCEPT !.revision = row.revision + 1,
                                  !.reservation = "released"]
    <3>1. new \in AttemptRow
      BY <2>2, <2>4 DEF AttemptRow, ReservationState
    <3>2. attempts' = [attempts EXCEPT ![a] = new]
      BY <1>2, <2>4 DEF ReleaseAbandonedReservation
    <3> QED BY <3>1, <3>2
  <2>6. reservations' = [reservations EXCEPT ![a] = "released"]
    BY <1>2 DEF ReleaseAbandonedReservation
  <2>7. attempts'[a] # NoAttempt
    BY <2>1, <2>5 DEF TypeOK
  <2>8. \A b \in Attempt \ {a} :
           attempts'[b] = attempts[b] /\ reservations'[b] = reservations[b]
    BY <2>1, <2>5, <2>6 DEF TypeOK
  <2> QED BY <2>1, <2>2, <2>3, <2>7, <2>8
          DEF StoreMoves, SettledStay, ReservationsHaveAttempts, Exists
<1> QED BY <1>1, <1>2 DEF ReleaseStep

-----------------------------------------------------------------------------
(* What such a step leaves of commits and outcomes. *)
LEMMA SettledKept ==
    ASSUME CapitalInv, SettledStay
    PROVE  /\ \A c \in OutcomeCall : CommitOK(c) => CommitOK(c)'
           /\ ReservationsHaveAttempts'
           /\ outcomes' = outcomes => OutcomesAreSettled'
<1>1. ASSUME NEW c \in OutcomeCall, CommitOK(c)
      PROVE  CommitOK(c)'
  <2>1. c.pc \in {"idle", "reservation", "attempt", "row"}
        /\ c.to \in {"released", "consumed"}
    BY DEF OutcomeCall
  <2> QED BY <1>1, <2>1 DEF CommitOK, SettledStay, Exists
<1>2. ReservationsHaveAttempts'
  BY DEF SettledStay, ReservationsHaveAttempts, Exists
<1>3. ASSUME outcomes' = outcomes, NEW a \in outcomes
      PROVE  /\ reservations'[a] \in {"released", "consumed"}
             /\ attempts'[a].reservation = reservations'[a]
  <2>1. a \in Attempt
    BY DEF CapitalInv, CapitalTypeOK
  <2>2. /\ reservations[a] \in {"released", "consumed"}
        /\ attempts[a].reservation = reservations[a]
    BY DEF CapitalInv, OutcomesAreSettled
  <2>3. Exists(a)
    BY <2>1, <2>2 DEF CapitalInv, ReservationsHaveAttempts
  <2> QED BY <2>1, <2>2, <2>3 DEF SettledStay
<1> QED BY <1>1, <1>2, <1>3 DEF OutcomesAreSettled

(* The commits of a step: as they were, or one of them moved. *)
CommitsMove ==
    \/ UNCHANGED committing
    \/ \E p \in Process : \E c \in OutcomeCall :
          /\ committing' = [committing EXCEPT ![p] = c]
          /\ CommitOK(c)'

(* Commits keep what they rely on. *)
LEMMA CommitsKept ==
    ASSUME CapitalInv, SettledStay, CommitsMove
    PROVE  /\ committing' \in [Process -> OutcomeCall]
           /\ CommitsOK'
<1>0. committing \in [Process -> OutcomeCall]
  BY DEF CapitalInv, CapitalTypeOK
<1>1. ASSUME NEW q \in Process
      PROVE  CommitOK(committing[q])'
             \/ committing'[q] # committing[q]
  <2>1. PICK d \in OutcomeCall : d = committing[q] /\ CommitOK(d)
    BY <1>0 DEF CapitalInv, CommitsOK
  <2>2. CommitOK(d)'
    BY <2>1, SettledKept
  <2> QED BY <2>1, <2>2 DEF CommitOK
<1>2. CASE UNCHANGED committing
  BY <1>0, <1>1, <1>2 DEF CommitsOK
<1>3. ASSUME NEW p \in Process, NEW c \in OutcomeCall, CommitOK(c)',
             committing' = [committing EXCEPT ![p] = c]
      PROVE  /\ committing' \in [Process -> OutcomeCall]
             /\ CommitsOK'
  <2>1. \A q \in Process \ {p} : committing'[q] = committing[q]
    BY <1>0, <1>3
  <2>2. CommitOK(committing[p])'
    <3>1. committing'[p] = c
      BY <1>0, <1>3
    <3> QED BY <1>3, <3>1 DEF CommitOK
  <2> QED BY <1>0, <1>1, <1>3, <2>1, <2>2 DEF CommitsOK
<1> QED BY <1>2, <1>3 DEF CommitsMove

(* No commit. *)
LEMMA IdleCommit == NoOutcome \in OutcomeCall /\ CommitOK(NoOutcome)'
BY DEF NoOutcome, OutcomeCall, CommitOK

(* What a step of the coordinator does to the store and to commits. *)
CommitStep ==
    /\ TypeOK' /\ SettledStay /\ CommitsMove
    /\ settled' \in [Attempt -> 0..MaxTick]

(* The store's own steps, with the commits of others in progress. *)
LEMMA StoreCommit ==
    ASSUME CapitalInv, StoreMoves, UNCHANGED <<committing, settled>>
    PROVE  CommitStep
BY LifecycleTypesStep DEF CommitStep, StoreMoves, CapitalInv, CapitalTypeOK, CommitsMove

(* The commit looks for an active reservation. *)
LEMMA StartStep ==
    ASSUME CapitalInv, NEW p \in Process, NEW a \in Attempt,
           NEW to \in {"released", "consumed"}, OutcomeStart(p, a, to)
    PROVE  CommitStep
<1>1. UNCHANGED <<vars, settled>> /\ reservations[a] = "active"
      /\ committing' = [committing EXCEPT ![p] =
            [pc |-> "reservation", attempt |-> a, to |-> to, now |-> clock.tick]]
  BY DEF OutcomeStart, OutcomeGoto
<1>2. clock.tick \in 0..MaxTick
  BY DEF CapitalInv, CapitalTypeOK, TypeOK, OutboxTypeOK, LeaseTypeOK, Instant
<1>3. PICK c \in OutcomeCall :
         /\ c = [pc |-> "reservation", attempt |-> a, to |-> to, now |-> clock.tick]
         /\ c.pc = "reservation" /\ c.attempt = a
  <2> DEFINE c == [pc |-> "reservation", attempt |-> a, to |-> to, now |-> clock.tick]
  <2>1. c \in OutcomeCall
    BY <1>2 DEF OutcomeCall
  <2> QED BY <2>1
<1>4. Exists(a) /\ UNCHANGED <<attempts, reservations>>
  BY <1>1 DEF CapitalInv, ReservationsHaveAttempts, vars, lifecycleVars
<1>5. CommitOK(c)'
  BY <1>3, <1>4 DEF CommitOK, Exists
<1>6. StoreMoves
  BY <1>1, NothingMoves DEF vars
<1>7. TypeOK'
  BY <1>6, LifecycleTypesStep DEF StoreMoves, CapitalInv, CapitalTypeOK
<1> QED BY <1>1, <1>3, <1>5, <1>6, <1>7
        DEF CommitStep, StoreMoves, CommitsMove, CapitalInv, CapitalTypeOK

(* The first statement ends an active reservation, or the commit raises. *)
LEMMA ReservationStep ==
    ASSUME CapitalInv, NEW p \in Process, OutcomeReservation(p)
    PROVE  CommitStep
<1>1. PICK c \in OutcomeCall : c = committing[p] /\ CommitOK(c) /\ c.pc = "reservation"
  BY DEF CapitalInv, CapitalTypeOK, CommitsOK, OutcomeReservation, OutcomeAt
<1>2. /\ c.attempt \in Attempt /\ Exists(c.attempt)
      /\ c.to \in {"released", "consumed"} /\ c.now \in 0..MaxTick
  BY <1>1 DEF CommitOK, OutcomeCall
<1>3. TypeOK /\ ReservationsHaveAttempts /\ settled \in [Attempt -> 0..MaxTick]
  BY DEF CapitalInv, CapitalTypeOK
<1>4. UNCHANGED <<leaseVars, outboxVars, attempts, journal, writer>>
  BY DEF OutcomeReservation
<1>5. CASE reservations[c.attempt] = "active"
  <2>1. /\ reservations' = [reservations EXCEPT ![c.attempt] = c.to]
        /\ settled' = [settled EXCEPT ![c.attempt] = c.now]
        /\ committing' = [committing EXCEPT ![p] = [c EXCEPT !.pc = "attempt", !.now = 0]]
    BY <1>1, <1>5 DEF OutcomeReservation, OutcomeGoto
  <2>2. reservations' \in [Attempt -> ReservationState]
        /\ reservations'[c.attempt] = c.to
        /\ \A b \in Attempt \ {c.attempt} : reservations'[b] = reservations[b]
    BY <1>2, <1>3, <2>1 DEF TypeOK, ReservationState
  <2>3. TypeOK'
    BY <1>3, <1>4, <2>2
    DEF TypeOK, OutboxTypeOK, LeaseTypeOK, leaseVars, outboxVars
  <2>4. SettledStay
    BY <1>2, <1>3, <1>4, <1>5, <2>2 DEF SettledStay, ReservationsHaveAttempts, Exists
  <2>5. PICK d \in OutcomeCall :
           /\ committing' = [committing EXCEPT ![p] = d]
           /\ d.pc = "attempt" /\ d.attempt = c.attempt /\ d.to = c.to
    <3> DEFINE d == [c EXCEPT !.pc = "attempt", !.now = 0]
    <3>1. 0 \in 0..MaxTick
      BY <1>2
    <3>2. d \in OutcomeCall /\ d.pc = "attempt" /\ d.attempt = c.attempt /\ d.to = c.to
      BY <3>1 DEF OutcomeCall
    <3> QED BY <2>1, <3>2
  <2>6. CommitOK(d)'
    BY <1>2, <1>4, <2>2, <2>5 DEF CommitOK, Exists
  <2> QED BY <1>2, <1>3, <2>1, <2>3, <2>4, <2>5, <2>6 DEF CommitStep, CommitsMove
<1>6. CASE reservations[c.attempt] # "active"
  <2>1. /\ UNCHANGED <<reservations, settled>>
        /\ committing' = [committing EXCEPT ![p] = NoOutcome]
    BY <1>1, <1>6 DEF OutcomeReservation, OutcomeGoto
  <2>2. StoreMoves
    BY <1>4, <2>1, NothingMoves DEF vars, lifecycleVars
  <2>3. TypeOK'
    BY <2>2, LifecycleTypesStep DEF StoreMoves, CapitalInv, CapitalTypeOK
  <2> QED BY <1>3, <2>1, <2>2, <2>3, IdleCommit DEF CommitStep, StoreMoves, CommitsMove
<1> QED BY <1>5, <1>6

(* The second statement corrects the copy. *)
LEMMA AttemptStep ==
    ASSUME CapitalInv, NEW p \in Process, OutcomeAttempt(p)
    PROVE  CommitStep
<1>1. PICK c \in OutcomeCall : c = committing[p] /\ CommitOK(c) /\ c.pc = "attempt"
  BY DEF CapitalInv, CapitalTypeOK, CommitsOK, OutcomeAttempt, OutcomeAt
<1>2. /\ c.attempt \in Attempt /\ Exists(c.attempt)
      /\ c.to \in {"released", "consumed"} /\ reservations[c.attempt] = c.to
  BY <1>1 DEF CommitOK, OutcomeCall
<1>3. TypeOK /\ ReservationsHaveAttempts /\ settled \in [Attempt -> 0..MaxTick]
  BY DEF CapitalInv, CapitalTypeOK
<1>4. /\ UNCHANGED <<leaseVars, outboxVars, reservations, journal, writer, settled>>
      /\ attempts' = [attempts EXCEPT ![c.attempt].reservation = c.to]
      /\ committing' = [committing EXCEPT ![p] = [c EXCEPT !.pc = "row"]]
  BY <1>1 DEF OutcomeAttempt, OutcomeGoto
<1>5. PICK row \in AttemptRow :
         row.reservation = c.to /\ attempts' = [attempts EXCEPT ![c.attempt] = row]
  <2>1. PICK old \in AttemptRow : old = attempts[c.attempt]
    BY <1>2, <1>3 DEF TypeOK, Exists
  <2> DEFINE row == [old EXCEPT !.reservation = c.to]
  <2>2. row \in AttemptRow /\ row.reservation = c.to
    BY <1>2 DEF AttemptRow, ReservationState
  <2>3. attempts' = [attempts EXCEPT ![c.attempt] = row]
    BY <1>4, <2>1
  <2> QED BY <2>2, <2>3
<1>6. /\ attempts' \in [Attempt -> AttemptRow \cup {NoAttempt}]
      /\ attempts'[c.attempt] = row
      /\ \A b \in Attempt \ {c.attempt} : attempts'[b] = attempts[b]
  BY <1>2, <1>3, <1>5 DEF TypeOK
<1>7. TypeOK'
  BY <1>3, <1>4, <1>6 DEF TypeOK, OutboxTypeOK, LeaseTypeOK, leaseVars, outboxVars
<1>8. SettledStay
  BY <1>2, <1>3, <1>4, <1>5, <1>6 DEF SettledStay, ReservationsHaveAttempts, Exists
<1>9. PICK d \in OutcomeCall :
         /\ committing' = [committing EXCEPT ![p] = d]
         /\ d.pc = "row" /\ d.attempt = c.attempt /\ d.to = c.to
  <2> DEFINE d == [c EXCEPT !.pc = "row"]
  <2>1. d \in OutcomeCall /\ d.pc = "row" /\ d.attempt = c.attempt /\ d.to = c.to
    BY DEF OutcomeCall
  <2> QED BY <1>4, <2>1
<1>10. CommitOK(d)'
  BY <1>2, <1>4, <1>5, <1>6, <1>9 DEF CommitOK, Exists
<1> QED BY <1>3, <1>4, <1>7, <1>8, <1>9, <1>10 DEF CommitStep, CommitsMove

-----------------------------------------------------------------------------
(* Every step of the coordinator. *)
LEMMA CapitalStep ==
    ASSUME CapitalInv, [CapitalNext]_capitalAllVars
    PROVE  CommitStep
<1>1. ASSUME UNCHANGED vars, CommitsMove, UNCHANGED settled
      PROVE  CommitStep
  <2>1. StoreMoves
    BY <1>1, NothingMoves DEF vars
  <2> QED BY <1>1, <2>1, LifecycleTypesStep
          DEF CommitStep, StoreMoves, CapitalInv, CapitalTypeOK
<1>2. ASSUME NEW p \in Process, NEW a \in Attempt, ReserveCapital(p, a)
      PROVE  CommitStep
  BY <1>2, ReserveMoves, StoreCommit DEF ReserveCapital
<1>3. ASSUME NEW w \in Worker, NEW a \in Attempt, ReleaseStep(w, a)
      PROVE  CommitStep
  BY <1>3, ReleaseMoves, StoreCommit DEF ReleaseStep, capitalVars
<1>4. ASSUME NEW p \in Process, CoordinatorCrash(p)
      PROVE  CommitStep
  <2>1. CommitsMove /\ UNCHANGED settled
    BY <1>4, IdleCommit DEF CoordinatorCrash, OutcomeGoto, CommitsMove
  <2>2. CASE UNCHANGED vars
    BY <1>1, <2>1, <2>2
  <2>3. ASSUME NEW w \in Worker, WorkerCrash(w)
        PROVE  CommitStep
    <3>1. StoreMoves
      BY <2>3, NothingMoves DEF WorkerCrash, Next
    <3> QED BY <2>1, <3>1, LifecycleTypesStep
            DEF CommitStep, StoreMoves, CapitalInv, CapitalTypeOK
  <2> QED BY <1>4, <2>2, <2>3 DEF CoordinatorCrash
<1>5. ASSUME TickStore, UNCHANGED capitalVars
      PROVE  CommitStep
  <2>1. StoreMoves
    BY <1>5, NothingMoves DEF TickStore, Next
  <2> QED BY <1>5, <2>1, StoreCommit DEF capitalVars
<1>6. ASSUME NEW p \in Process, OutcomeRow(p)
      PROVE  CommitStep
  BY <1>1, <1>6, IdleCommit DEF OutcomeRow, OutcomeGoto, CommitsMove
<1>7. ASSUME NEW p \in Process, CaptureSnapshot(p) \/ ReserveRefused(p)
      PROVE  CommitStep
  BY <1>1, <1>7 DEF CaptureSnapshot, ReserveRefused, CommitsMove
<1>8. ASSUME WalletMoves \/ UNCHANGED capitalAllVars
      PROVE  CommitStep
  BY <1>1, <1>8 DEF WalletMoves, capitalAllVars, capitalVars, CommitsMove
<1> QED BY <1>2, <1>3, <1>4, <1>5, <1>6, <1>7, <1>8, StartStep, ReservationStep,
           AttemptStep DEF CapitalNext

(* The wallet and what was observed of it. *)
LEMMA WalletTypesStep ==
    ASSUME CapitalTypeOK, [CapitalNext]_capitalAllVars
    PROVE  /\ wallet' \in Seq(Balance) /\ Len(wallet') \in 1..MaxSlot
           /\ snapshots' \in [Process -> Snapshot \cup {NoSnapshot}]
           /\ basis' \in [Attempt -> Snapshot \cup {NoSnapshot}]
           /\ latest' \in Snapshot \cup {NoSnapshot}
<1>0. /\ wallet \in Seq(Balance) /\ Len(wallet) \in 1..MaxSlot
      /\ snapshots \in [Process -> Snapshot \cup {NoSnapshot}]
      /\ basis \in [Attempt -> Snapshot \cup {NoSnapshot}]
      /\ latest \in Snapshot \cup {NoSnapshot}
  BY DEF CapitalTypeOK
<1>1. CASE UNCHANGED <<wallet, snapshots, basis, latest>>
  BY <1>0, <1>1
<1>2. ASSUME NEW p \in Process, snapshots' = [snapshots EXCEPT ![p] = NoSnapshot],
             UNCHANGED <<wallet, basis, latest>>
      PROVE  /\ wallet' \in Seq(Balance) /\ Len(wallet') \in 1..MaxSlot
             /\ snapshots' \in [Process -> Snapshot \cup {NoSnapshot}]
             /\ basis' \in [Attempt -> Snapshot \cup {NoSnapshot}]
             /\ latest' \in Snapshot \cup {NoSnapshot}
  BY <1>0, <1>2
<1>3. ASSUME NEW p \in Process, CaptureSnapshot(p)
      PROVE  snapshots' \in [Process -> Snapshot \cup {NoSnapshot}]
  <2>1. clock.tick \in 0..MaxTick
    BY DEF CapitalTypeOK, TypeOK, OutboxTypeOK, LeaseTypeOK, Instant
  <2>2. PICK s \in 1..Len(wallet) : snapshots' = [snapshots EXCEPT ![p] =
           [slot |-> s, balance |-> wallet[s], captured |-> clock.tick]]
    BY <1>3 DEF CaptureSnapshot
  <2>3. wallet[s] \in Balance /\ s \in 1..MaxSlot
    BY <1>0
  <2>4. [slot |-> s, balance |-> wallet[s], captured |-> clock.tick] \in Snapshot
    BY <2>1, <2>3 DEF Snapshot
  <2> QED BY <1>0, <2>2, <2>4
<1>4. ASSUME NEW p \in Process, NEW a \in Attempt, ReserveCapital(p, a)
      PROVE  /\ snapshots' \in [Process -> Snapshot \cup {NoSnapshot}]
             /\ basis' \in [Attempt -> Snapshot \cup {NoSnapshot}]
             /\ latest' \in Snapshot \cup {NoSnapshot}
  BY <1>0, <1>4 DEF ReserveCapital
<1>5. ASSUME WalletMoves
      PROVE  wallet' \in Seq(Balance) /\ Len(wallet') \in 1..MaxSlot
  <2>1. PICK b \in Balance : wallet' = Append(wallet, b)
    BY <1>5 DEF WalletMoves
  <2>2. wallet' \in Seq(Balance) /\ Len(wallet') = Len(wallet) + 1
    BY <1>0, <2>1
  <2> QED BY <1>0, <1>5, <2>2 DEF WalletMoves
<1>6. ASSUME NEW p \in Process, NEW a \in Attempt, NEW to \in {"released", "consumed"},
             OutcomeStart(p, a, to)
      PROVE  UNCHANGED <<wallet, snapshots, basis, latest>>
  BY <1>6 DEF OutcomeStart
<1>7. ASSUME NEW p \in Process,
             OutcomeReservation(p) \/ OutcomeAttempt(p) \/ OutcomeRow(p)
      PROVE  UNCHANGED <<wallet, snapshots, basis, latest>>
  BY <1>7 DEF OutcomeReservation, OutcomeAttempt, OutcomeRow
<1>8. ASSUME NEW w \in Worker, NEW a \in Attempt, ReleaseStep(w, a)
      PROVE  UNCHANGED <<wallet, snapshots, basis, latest>>
  BY <1>8 DEF ReleaseStep, capitalVars
<1>9. ASSUME NEW p \in Process, ReserveRefused(p) \/ CoordinatorCrash(p)
      PROVE  /\ snapshots' = [snapshots EXCEPT ![p] = NoSnapshot]
             /\ UNCHANGED <<wallet, basis, latest>>
  BY <1>9 DEF ReserveRefused, CoordinatorCrash
<1>10. CASE UNCHANGED capitalVars
  BY <1>1, <1>10 DEF capitalVars
<1>11. CASE UNCHANGED capitalAllVars
  BY <1>10, <1>11 DEF capitalAllVars
<1>12. CASE WalletMoves
  BY <1>0, <1>5, <1>12 DEF WalletMoves
<1>13. ASSUME NEW p \in Process, CaptureSnapshot(p)
       PROVE  UNCHANGED <<wallet, basis, latest>>
  BY <1>13 DEF CaptureSnapshot
<1>14. ASSUME NEW p \in Process, NEW a \in Attempt, ReserveCapital(p, a)
       PROVE  UNCHANGED wallet
  BY <1>14 DEF ReserveCapital
<1> QED BY <1>0, <1>1, <1>2, <1>3, <1>4, <1>6, <1>7, <1>8, <1>9, <1>10, <1>11,
           <1>12, <1>13, <1>14 DEF CapitalNext

(* An outcome row is inserted when both copies say the same. *)
LEMMA OutcomesStep ==
    ASSUME CapitalInv, [CapitalNext]_capitalAllVars
    PROVE  OutcomesAreSettled' /\ outcomes' \subseteq Attempt
<1>0. SettledStay /\ outcomes \subseteq Attempt
  BY CapitalStep DEF CommitStep, CapitalInv, CapitalTypeOK
<1>1. CASE UNCHANGED outcomes
  BY <1>0, <1>1, SettledKept
<1>2. ASSUME NEW p \in Process, OutcomeRow(p)
      PROVE  OutcomesAreSettled' /\ outcomes' \subseteq Attempt
  <2>1. PICK c \in OutcomeCall : c = committing[p] /\ CommitOK(c) /\ c.pc = "row"
    BY <1>2 DEF CapitalInv, CapitalTypeOK, CommitsOK, OutcomeRow, OutcomeAt
  <2>2. /\ c.attempt \in Attempt /\ c.to \in {"released", "consumed"}
        /\ reservations[c.attempt] = c.to /\ attempts[c.attempt].reservation = c.to
    BY <2>1 DEF CommitOK, OutcomeCall
  <2>3. outcomes' = outcomes \cup {c.attempt} /\ UNCHANGED <<attempts, reservations>>
    BY <1>2, <2>1 DEF OutcomeRow, vars, lifecycleVars
  <2> QED BY <1>0, <2>2, <2>3 DEF CapitalInv, OutcomesAreSettled
<1>3. ASSUME NEW p \in Process,
             \/ CaptureSnapshot(p) \/ ReserveRefused(p) \/ CoordinatorCrash(p)
             \/ OutcomeReservation(p) \/ OutcomeAttempt(p)
             \/ \E a \in Attempt :
                   \/ ReserveCapital(p, a)
                   \/ \E to \in {"released", "consumed"} : OutcomeStart(p, a, to)
      PROVE  UNCHANGED outcomes
  BY <1>3 DEF CaptureSnapshot, ReserveRefused, CoordinatorCrash, OutcomeReservation,
              OutcomeAttempt, ReserveCapital, OutcomeStart
<1>4. ASSUME \/ UNCHANGED capitalAllVars \/ WalletMoves
             \/ TickStore /\ UNCHANGED capitalVars
             \/ \E w \in Worker, a \in Attempt : ReleaseStep(w, a)
      PROVE  UNCHANGED outcomes
  BY <1>4 DEF capitalAllVars, capitalVars, WalletMoves, ReleaseStep
<1> QED BY <1>1, <1>2, <1>3, <1>4 DEF CapitalNext

(* Initially nothing is reserved and no commit runs. *)
LEMMA CapitalInitially == CapitalInit => CapitalInv
<1> SUFFICES ASSUME CapitalInit PROVE CapitalInv
  OBVIOUS
<1>1. TypeOK
  BY InitLifecycleTypes DEF CapitalInit
<1>2. 0 \in 0..MaxTick /\ NoOutcome \in OutcomeCall
  <2>1. 0 \in 0..MaxTick
    OBVIOUS
  <2> QED BY <2>1 DEF NoOutcome, OutcomeCall
<1>3. wallet \in Seq(Balance) /\ Len(wallet) \in 1..MaxSlot
  BY DEF CapitalInit
<1>4. CapitalTypeOK
  BY <1>1, <1>2, <1>3 DEF CapitalInit, CapitalTypeOK
<1>5. CommitsOK
  BY DEF CapitalInit, CommitsOK, CommitOK, NoOutcome
<1> QED BY <1>4, <1>5
        DEF CapitalInit, Init, CapitalInv, ReservationsHaveAttempts, OutcomesAreSettled

(* Every step keeps the invariant. *)
LEMMA CapitalInvStep == CapitalInv /\ [CapitalNext]_capitalAllVars => CapitalInv'
<1> SUFFICES ASSUME CapitalInv, [CapitalNext]_capitalAllVars
             PROVE  CapitalInv'
  OBVIOUS
<1>1. CommitStep
  BY CapitalStep
<1>2. CommitsOK' /\ committing' \in [Process -> OutcomeCall]
  BY <1>1, CommitsKept DEF CommitStep
<1>3. ReservationsHaveAttempts'
  BY <1>1, SettledKept DEF CommitStep
<1>4. OutcomesAreSettled' /\ outcomes' \subseteq Attempt
  BY OutcomesStep
<1>5. CapitalTypeOK'
  BY <1>1, <1>2, <1>4, WalletTypesStep DEF CommitStep, CapitalInv, CapitalTypeOK
<1> QED BY <1>2, <1>3, <1>4, <1>5 DEF CapitalInv

(* Wallet, snapshots, commits and the store under them are well typed. *)
THEOREM CapitalTypeCorrect == CapitalSpec => []CapitalTypeOK
<1>1. CapitalInv => CapitalTypeOK
  BY DEF CapitalInv
<1> QED BY <1>1, CapitalInitially, CapitalInvStep, PTL DEF CapitalSpec

(* Wherever the three statements of an outcome commit are cut off or met   *)
(* by other processes, a row in paper_outcomes_pr187 means that both       *)
(* copies of its reservation ended alike.                                  *)
THEOREM OutcomesSettled == CapitalSpec => []OutcomesAreSettled
<1>1. CapitalInv => OutcomesAreSettled
  BY DEF CapitalInv
<1> QED BY <1>1, CapitalInitially, CapitalInvStep, PTL DEF CapitalSpec

-----------------------------------------------------------------------------
(* The coordinator's writes beside the store, the three statements of an   *)
(* outcome commit among them, leave leases and outbox alone or change them *)
(* as an environment of the outbox may: what is proved of the outbox holds *)
(* where the coordinator runs on its database.                             *)
THEOREM CoordinatorImplementsOutbox == CapitalSpec => OutboxSpec
<1>1. CapitalInit => OutboxInit
  BY DEF CapitalInit, Init
<1>2. CapitalInv /\ [CapitalNext]_capitalAllVars => [OutboxNext]_outboxAllVars
  <2> SUFFICES ASSUME CapitalInv, [CapitalNext]_capitalAllVars
               PROVE  [OutboxNext]_outboxAllVars
    OBVIOUS
  <2>1. TypeOK
    BY DEF CapitalInv, CapitalTypeOK
  <2>2. [Next]_vars => [OutboxNext]_outboxAllVars
    BY <2>1, StepShape
  <2>3. UNCHANGED <<leaseVars, outboxVars>> => [OutboxNext]_outboxAllVars
    BY DEF outboxAllVars
  <2>4. ASSUME NEW p \in Process, NEW a \in Attempt, ReserveCapital(p, a)
        PROVE  [OutboxNext]_outboxAllVars
    BY <2>2, <2>4, ReserveMoves DEF StoreMoves
  <2>5. ASSUME NEW w \in Worker, NEW a \in Attempt, ReleaseStep(w, a)
        PROVE  [OutboxNext]_outboxAllVars
    BY <2>2, <2>5, ReleaseMoves DEF StoreMoves
  <2>6. ASSUME NEW p \in Process, CoordinatorCrash(p)
        PROVE  [OutboxNext]_outboxAllVars
    BY <2>2, <2>6 DEF CoordinatorCrash, Next
  <2>7. CASE TickStore
    BY <2>2, <2>7 DEF Next
  <2>8. ASSUME NEW p \in Process,
               OutcomeReservation(p) \/ OutcomeAttempt(p) \/ OutcomeRow(p)
        PROVE  [OutboxNext]_outboxAllVars
    BY <2>3, <2>8 DEF OutcomeReservation, OutcomeAttempt, OutcomeRow, vars
  <2>9. ASSUME NEW p \in Process, NEW a \in Attempt,
               \E to \in {"released", "consumed"} : OutcomeStart(p, a, to)
        PROVE  [OutboxNext]_outboxAllVars
    BY <2>3, <2>9 DEF OutcomeStart, vars
  <2>10. ASSUME NEW p \in Process, CaptureSnapshot(p) \/ ReserveRefused(p)
         PROVE  [OutboxNext]_outboxAllVars
    BY <2>3, <2>10 DEF CaptureSnapshot, ReserveRefused, vars
  <2>11. CASE WalletMoves \/ UNCHANGED capitalAllVars
    BY <2>3, <2>11 DEF WalletMoves, capitalAllVars, vars
  <2> QED BY <2>4, <2>5, <2>6, <2>7, <2>8, <2>9, <2>10, <2>11 DEF CapitalNext
<1>3. CapitalSpec => []CapitalInv
  BY CapitalInitially, CapitalInvStep, PTL DEF CapitalSpec
<1> QED BY <1>1, <1>2, <1>3, PTL DEF CapitalSpec, OutboxSpec

-----------------------------------------------------------------------------
(* A finite set of attempts needs finitely many lamports. *)
LEMMA LamportsAreFinite ==
    ASSUME NEW S \in SUBSET Attempt, IsFiniteSet(S)
    PROVE  IsFiniteSet(Lamports(S)) /\ NeedOf(S) \in Nat
<1> DEFINE own == [a \in S |-> {a} \X (1..Need[a])]
           all == {{a} \X (1..Need[a]) : a \in S}
<1>1. IsFiniteSet(all)
  <2>1. own \in Surjection(S, all)
    BY DEF Surjection
  <2> QED BY <2>1, FS_Surjection
<1>2. ASSUME NEW a \in S
      PROVE  IsFiniteSet({a} \X (1..Need[a]))
  <2>1. Need[a] \in Int
    OBVIOUS
  <2>2. IsFiniteSet(1..Need[a])
    BY <2>1, FS_Interval
  <2> QED BY <2>2, FS_Singleton, FS_Product
<1>3. \A T \in all : IsFiniteSet(T)
  BY <1>2
<1>4. Lamports(S) = UNION all
  BY DEF Lamports
<1> HIDE DEF all
<1>5. IsFiniteSet(UNION all)
  BY <1>1, <1>3, FS_UNION
<1> QED BY <1>4, <1>5, FS_CardinalityType DEF NeedOf

(* The need of a larger set is larger. *)
LEMMA NeedGrows ==
    ASSUME NEW T \in SUBSET Attempt, IsFiniteSet(T), NEW S \in SUBSET T
    PROVE  NeedOf(S) <= NeedOf(T)
<1>1. IsFiniteSet(Lamports(T))
  BY LamportsAreFinite
<1>2. Lamports(S) \in SUBSET Lamports(T)
  BY DEF Lamports
<1> QED BY <1>1, <1>2, FS_Subset DEF NeedOf

(* One more attempt adds its own need. *)
LEMMA NeedAdds ==
    ASSUME NEW S \in SUBSET Attempt, IsFiniteSet(S), NEW a \in Attempt \ S
    PROVE  NeedOf(S \cup {a}) = NeedOf(S) + Need[a]
<1> DEFINE own == {a} \X (1..Need[a])
<1>1. Need[a] \in Nat
  OBVIOUS
<1>2. IsFiniteSet(own) /\ Cardinality(own) = Need[a]
  <2>1. IsFiniteSet(1..Need[a]) /\ Cardinality(1..Need[a]) = Need[a]
    BY <1>1, FS_Interval
  <2>2. IsFiniteSet({a}) /\ Cardinality({a}) = 1
    BY FS_Singleton
  <2>3. IsFiniteSet(own) /\ Cardinality(own) = Cardinality({a}) * Cardinality(1..Need[a])
    BY <2>1, <2>2, FS_Product
  <2> QED BY <1>1, <2>1, <2>2, <2>3
<1>3. IsFiniteSet(Lamports(S)) /\ Cardinality(Lamports(S)) \in Nat
  BY LamportsAreFinite DEF NeedOf
<1>4. Lamports(S \cup {a}) = Lamports(S) \cup own
  BY DEF Lamports
<1>5. Lamports(S) \cap own = {}
  BY DEF Lamports
<1>6. Cardinality(Lamports(S) \cap own) = 0
  BY <1>5, FS_EmptySet
<1> HIDE DEF own
<1>7. Cardinality(Lamports(S) \cup own)
        = Cardinality(Lamports(S)) + Cardinality(own) - Cardinality(Lamports(S) \cap own)
  BY <1>2, <1>3, FS_Union
<1>8. Cardinality(Lamports(S) \cup own) = Cardinality(Lamports(S)) + Need[a]
  BY <1>1, <1>2, <1>3, <1>6, <1>7
<1>9. Cardinality(Lamports(S \cup {a})) = Cardinality(Lamports(S)) + Need[a]
  BY <1>4, <1>8
<1> QED BY <1>9 DEF NeedOf

-----------------------------------------------------------------------------
Created == {a \in Attempt : Exists(a)}

(* The capital that counts against the latest snapshot: what is reserved,  *)
(* and what was consumed after it was taken.                               *)
Counted ==
    Reserved \cup {a \in Attempt : /\ reservations[a] = "consumed"
                                   /\ settled[a] >= latest.captured}

(* The inductive invariant, on top of CapitalInv: the latest snapshot is   *)
(* the newest, and covers what counts against it.                          *)
LatestInv ==
    /\ IsFiniteSet(Created)
    /\ \A a \in Created :
          /\ basis[a] # NoSnapshot /\ latest # NoSnapshot
          /\ basis[a].slot <= latest.slot
          /\ basis[a].slot = latest.slot => basis[a].balance = latest.balance
    /\ latest # NoSnapshot =>
          /\ \E a \in Created : basis[a] = latest
          /\ NeedOf(Counted) <= latest.balance

(* A step that reserves nothing: no attempt begins, and what is consumed   *)
(* was reserved, or had been consumed before.                              *)
ReservesNothing ==
    /\ UNCHANGED <<basis, latest>>
    /\ \A a \in Attempt :
          /\ attempts'[a] # NoAttempt <=> Exists(a)
          /\ reservations'[a] = "active" => reservations[a] = "active"
          /\ reservations'[a] = "consumed" =>
                \/ reservations[a] = "active"
                \/ reservations[a] = "consumed" /\ settled'[a] = settled[a]

(* Only attempts that exist count. *)
LEMMA CountedExist ==
    ASSUME CapitalInv, LatestInv
    PROVE  /\ Counted \subseteq Created /\ Reserved \subseteq Counted
           /\ IsFiniteSet(Counted) /\ IsFiniteSet(Reserved)
           /\ Counted \in SUBSET Attempt /\ Reserved \in SUBSET Attempt
<1>1. Counted \subseteq Created /\ Reserved \subseteq Counted
  BY DEF Counted, Reserved, Created, CapitalInv, ReservationsHaveAttempts
<1>2. IsFiniteSet(Counted) /\ IsFiniteSet(Reserved)
  BY <1>1, FS_Subset DEF LatestInv
<1> QED BY <1>1, <1>2 DEF Created

(* Such a step keeps the invariant: what counts can only become less.      *)
LEMMA NothingReserved ==
    ASSUME CapitalInv, LatestInv, ReservesNothing
    PROVE  LatestInv'
<1>1. Created' = Created
  BY DEF Created, ReservesNothing, Exists
<1>2. Counted' \subseteq Counted
  BY DEF Counted, Reserved, ReservesNothing
<1>3. ASSUME latest # NoSnapshot
      PROVE  NeedOf(Counted') <= latest.balance
  <2>1. NeedOf(Counted') <= NeedOf(Counted)
    BY <1>2, CountedExist, NeedGrows
  <2>2. NeedOf(Counted) \in Nat
    BY CountedExist, LamportsAreFinite
  <2>3. IsFiniteSet(Counted') /\ Counted' \in SUBSET Attempt
    BY <1>2, CountedExist, FS_Subset
  <2>4. NeedOf(Counted') \in Nat
    BY <2>3, LamportsAreFinite
  <2>5. NeedOf(Counted) <= latest.balance
    BY <1>3 DEF LatestInv
  <2>6. latest.balance \in Nat
    BY <1>3 DEF CapitalInv, CapitalTypeOK, Snapshot
  <2> QED BY <2>1, <2>2, <2>4, <2>5, <2>6
<1>4. NeedOf(Counted)' = NeedOf(Counted')
  BY DEF NeedOf, Lamports
<1>5. UNCHANGED <<basis, latest>>
  BY DEF ReservesNothing
<1> QED BY <1>1, <1>3, <1>4, <1>5 DEF LatestInv

(* A reservation is granted against a snapshot that becomes the latest:    *)
(* nothing that was consumed counts against it any more.                   *)
LEMMA ReservationGranted ==
    ASSUME CapitalInv, LatestInv, CapitalInv', NEW p \in Process, NEW a \in Attempt,
           ReserveCapital(p, a)
    PROVE  LatestInv'
<1>1. PICK n \in Snapshot :
         /\ n = snapshots[p] /\ n # NoSnapshot /\ AdmissibleSnapshot(n)
         /\ NeedOf(Reserved) + Need[a] <= n.balance
         /\ basis' = [basis EXCEPT ![a] = n] /\ latest' = n /\ UNCHANGED settled
  BY DEF ReserveCapital, CapitalInv, CapitalTypeOK
<1>2. PICK k \in KeysFor(a, 0) : CreateAttempt(a, k, "planned", TRUE)
  BY DEF ReserveCapital
<1>3. /\ ~Exists(a) /\ reservations' = [reservations EXCEPT ![a] = "active"]
      /\ \A b \in Attempt \ {a} : attempts'[b] = attempts[b]
  BY <1>2 DEF CreateAttempt, CapitalInv, CapitalTypeOK, TypeOK
<1>4. /\ reservations'[a] = "active"
      /\ \A b \in Attempt \ {a} : reservations'[b] = reservations[b]
      /\ reservations[a] = "none"
  BY <1>3 DEF CapitalInv, CapitalTypeOK, TypeOK, ReservationsHaveAttempts
<1>5. a \in Created'
  BY <1>4 DEF Created, CapitalInv, ReservationsHaveAttempts
<1>6. Created' = Created \cup {a} /\ a \notin Created
  BY <1>3, <1>5 DEF Created, Exists
<1>7. IsFiniteSet(Created')
  BY <1>6, FS_AddElement DEF LatestInv
<1>8. basis'[a] = n /\ \A b \in Created : basis'[b] = basis[b]
  BY <1>1, <1>6 DEF CapitalInv, CapitalTypeOK, Created
<1>9. \A b \in Created : /\ basis[b].slot <= n.slot
                         /\ basis[b].slot = n.slot => basis[b].balance = n.balance
                         /\ reservations[b] = "consumed" => settled[b] < n.captured
  BY <1>1 DEF AdmissibleSnapshot, Created
<1>10. n.slot \in Nat /\ n.captured \in Nat /\ n.balance \in Nat
  <2>1. n.slot \in 1..MaxSlot /\ n.captured \in 0..MaxTick /\ n.balance \in Balance
    BY DEF Snapshot
  <2>2. n.balance \in Nat
    BY <2>1
  <2> QED BY <2>1, <2>2
<1>11. ASSUME NEW b \in Created'
       PROVE  /\ basis'[b] # NoSnapshot /\ latest' # NoSnapshot
              /\ basis'[b].slot <= latest'.slot
              /\ basis'[b].slot = latest'.slot => basis'[b].balance = latest'.balance
  <2>1. CASE b = a
    BY <1>1, <1>8, <1>10, <2>1
  <2>2. CASE b # a
    BY <1>1, <1>6, <1>8, <1>9, <2>2 DEF LatestInv
  <2> QED BY <2>1, <2>2
<1>12. Counted' = Reserved \cup {a}
  <2>1. ASSUME NEW b \in Attempt, reservations'[b] = "consumed"
        PROVE  ~(settled'[b] >= latest'.captured)
    <3>1. b # a /\ reservations[b] = "consumed"
      BY <1>4, <2>1
    <3>2. b \in Created
      BY <3>1 DEF Created, CapitalInv, ReservationsHaveAttempts
    <3>3. settled[b] < n.captured /\ settled[b] \in Nat
      BY <1>9, <3>1, <3>2 DEF CapitalInv, CapitalTypeOK
    <3> QED BY <1>1, <1>10, <3>3
  <2>2. Counted' = Reserved'
    BY <2>1 DEF Counted
  <2>3. Reserved' = Reserved \cup {a}
    BY <1>4 DEF Reserved
  <2> QED BY <2>2, <2>3
<1>13. NeedOf(Counted)' = NeedOf(Reserved) + Need[a]
  <2>1. a \in Attempt \ Reserved
    BY <1>4 DEF Reserved
  <2>2. NeedOf(Reserved \cup {a}) = NeedOf(Reserved) + Need[a]
    BY <2>1, CountedExist, NeedAdds
  <2>3. NeedOf(Counted)' = NeedOf(Counted')
    BY DEF NeedOf, Lamports
  <2> QED BY <1>12, <2>2, <2>3
<1> QED BY <1>1, <1>5, <1>7, <1>8, <1>11, <1>13 DEF LatestInv

(* The three statements of an outcome reserve nothing. *)
LEMMA OutcomeReservesNothing ==
    ASSUME CapitalInv, NEW p \in Process, OutcomeReservation(p) \/ OutcomeAttempt(p)
    PROVE  ReservesNothing
<1>1. PICK c \in OutcomeCall : c = committing[p] /\ CommitOK(c)
  BY DEF CapitalInv, CapitalTypeOK, CommitsOK
<1>2. c.pc # "idle" /\ c.attempt \in Attempt /\ Exists(c.attempt) /\ c.to # "active"
  BY <1>1 DEF OutcomeReservation, OutcomeAttempt, OutcomeAt, CommitOK, OutcomeCall
<1>3. /\ attempts \in [Attempt -> AttemptRow \cup {NoAttempt}]
      /\ reservations \in [Attempt -> ReservationState] /\ settled \in [Attempt -> 0..MaxTick]
  BY DEF CapitalInv, CapitalTypeOK, TypeOK
<1>4. CASE OutcomeReservation(p)
  <2>1. UNCHANGED <<basis, latest, attempts>>
    BY <1>4 DEF OutcomeReservation
  <2>2. CASE reservations[c.attempt] = "active"
    <3>1. /\ reservations' = [reservations EXCEPT ![c.attempt] = c.to]
          /\ settled' = [settled EXCEPT ![c.attempt] = c.now]
      BY <1>1, <1>4, <2>2 DEF OutcomeReservation
    <3> QED BY <1>2, <1>3, <2>1, <2>2, <3>1 DEF ReservesNothing, Exists
  <2>3. CASE reservations[c.attempt] # "active"
    <3>1. UNCHANGED <<reservations, settled>>
      BY <1>1, <1>4, <2>3 DEF OutcomeReservation
    <3> QED BY <2>1, <3>1 DEF ReservesNothing, Exists
  <2> QED BY <2>2, <2>3
<1>5. CASE OutcomeAttempt(p)
  <2>1. /\ UNCHANGED <<basis, latest, reservations, settled>>
        /\ attempts' = [attempts EXCEPT ![c.attempt].reservation = c.to]
    BY <1>1, <1>5 DEF OutcomeAttempt
  <2>2. /\ \A b \in Attempt \ {c.attempt} : attempts'[b] = attempts[b]
        /\ attempts'[c.attempt] # NoAttempt
    <3>1. SettledStay
      BY <1>5, AttemptStep DEF CommitStep
    <3> QED BY <1>2, <1>3, <2>1, <3>1 DEF SettledStay
  <2> QED BY <1>2, <2>1, <2>2 DEF ReservesNothing, Exists
<1> QED BY <1>4, <1>5

(* Neither does a release. *)
LEMMA ReleaseReservesNothing ==
    ASSUME CapitalInv, NEW w \in Worker, NEW a \in Attempt, ReleaseStep(w, a)
    PROVE  ReservesNothing
<1>1. CASE AcquireAttemptLease(w, a)
  BY <1>1 DEF ReleaseStep, capitalVars, AcquireAttemptLease, lifecycleVars,
              ReservesNothing, Exists
<1>2. CASE ~AcquireAttemptLease(w, a)
  <2>1. PICK k \in KeysFor(a, attempts[a].revision + 1) : ReleaseAbandonedReservation(w, a, k)
    BY <1>2 DEF ReleaseStep
  <2>2. /\ Exists(a) /\ UNCHANGED <<basis, latest, settled>>
        /\ reservations' = [reservations EXCEPT ![a] = "released"]
    BY <2>1 DEF ReleaseStep, capitalVars, ReleaseAbandonedReservation
  <2>3. \E row : attempts' = [attempts EXCEPT ![a] = row]
    BY <2>1 DEF ReleaseAbandonedReservation
  <2>4. /\ attempts \in [Attempt -> AttemptRow \cup {NoAttempt}]
        /\ reservations \in [Attempt -> ReservationState]
    BY DEF CapitalInv, CapitalTypeOK, TypeOK
  <2>5. attempts'[a] # NoAttempt
    BY <2>2, ReleaseMoves DEF StoreMoves, SettledStay
  <2>6. \A b \in Attempt \ {a} : attempts'[b] = attempts[b] /\ reservations'[b] = reservations[b]
    BY <2>2, <2>3, <2>4
  <2>7. reservations'[a] = "released"
    BY <2>2, <2>4
  <2> QED BY <2>2, <2>5, <2>6, <2>7 DEF ReservesNothing, Exists
<1> QED BY <1>1, <1>2

(* Every step keeps the invariant of the latest snapshot. *)
LEMMA LatestInvStep ==
    CapitalInv /\ CapitalInv' /\ LatestInv /\ [CapitalNext]_capitalAllVars => LatestInv'
<1> SUFFICES ASSUME CapitalInv, CapitalInv', LatestInv, [CapitalNext]_capitalAllVars
             PROVE  LatestInv'
  OBVIOUS
<1>1. ASSUME UNCHANGED <<attempts, reservations, settled, basis, latest>>
      PROVE  LatestInv'
  BY <1>1, NothingReserved DEF ReservesNothing, Exists
<1>2. ASSUME NEW p \in Process, NEW a \in Attempt, ReserveCapital(p, a)
      PROVE  LatestInv'
  BY <1>2, ReservationGranted
<1>3. ASSUME NEW p \in Process, OutcomeReservation(p) \/ OutcomeAttempt(p)
      PROVE  LatestInv'
  BY <1>3, OutcomeReservesNothing, NothingReserved
<1>4. ASSUME NEW w \in Worker, NEW a \in Attempt, ReleaseStep(w, a)
      PROVE  LatestInv'
  BY <1>4, ReleaseReservesNothing, NothingReserved
<1>5. ASSUME NEW p \in Process,
             \/ CaptureSnapshot(p) \/ ReserveRefused(p) \/ OutcomeRow(p)
             \/ \E a \in Attempt, to \in {"released", "consumed"} : OutcomeStart(p, a, to)
      PROVE  LatestInv'
  BY <1>1, <1>5
  DEF CaptureSnapshot, ReserveRefused, OutcomeRow, OutcomeStart, vars, lifecycleVars
<1>6. ASSUME NEW p \in Process, CoordinatorCrash(p)
      PROVE  LatestInv'
  <2>1. UNCHANGED <<settled, basis, latest>>
    BY <1>6 DEF CoordinatorCrash
  <2>2. UNCHANGED <<attempts, reservations>>
    BY <1>6 DEF CoordinatorCrash, WorkerCrash, vars, lifecycleVars
  <2> QED BY <1>1, <2>1, <2>2
<1>7. ASSUME WalletMoves \/ UNCHANGED capitalAllVars \/ (TickStore /\ UNCHANGED capitalVars)
      PROVE  LatestInv'
  <2>1. UNCHANGED <<attempts, reservations, settled, basis, latest>>
    BY <1>7 DEF WalletMoves, TickStore, capitalAllVars, capitalVars, vars, lifecycleVars
  <2> QED BY <1>1, <2>1
<1> QED BY <1>2, <1>3, <1>4, <1>5, <1>6, <1>7 DEF CapitalNext

(* The latest snapshot is the newest and covers what counts, throughout.   *)
THEOREM LatestCovers == CapitalSpec => [](CapitalInv /\ LatestInv)
<1>1. CapitalInit => LatestInv
  <2> SUFFICES ASSUME CapitalInit PROVE LatestInv
    OBVIOUS
  <2>1. Created = {}
    BY DEF CapitalInit, Init, Created, Exists
  <2> QED BY <2>1, FS_EmptySet DEF CapitalInit, LatestInv
<1> QED BY <1>1, CapitalInitially, CapitalInvStep, LatestInvStep, PTL DEF CapitalSpec

(* What is reserved never exceeds the newest balance any reservation was   *)
(* granted against, whatever older snapshots other processes still hold    *)
(* (reserve, _validate_snapshot).                                          *)
THEOREM WalletCovers == CapitalSpec => []WalletCoversReservations
<1>1. CapitalInv /\ LatestInv => WalletCoversReservations
  <2> SUFFICES ASSUME CapitalInv, LatestInv, NEW a \in Attempt, Exists(a),
                      \A b \in Attempt : Exists(b) => basis[b].slot <= basis[a].slot
               PROVE  NeedOf(Reserved) <= basis[a].balance
    BY DEF WalletCoversReservations
  <2>1. a \in Created /\ latest # NoSnapshot
    BY DEF Created, LatestInv
  <2>2. PICK b \in Created : basis[b] = latest
    BY <2>1 DEF LatestInv
  <2>3. latest.slot <= basis[a].slot /\ basis[a].slot <= latest.slot
    BY <2>1, <2>2 DEF Created, LatestInv
  <2>4. /\ basis[a] \in Snapshot /\ latest \in Snapshot
    BY <2>1 DEF CapitalInv, CapitalTypeOK, LatestInv
  <2>5. latest.slot = basis[a].slot
    <3>1. latest.slot \in 1..MaxSlot /\ basis[a].slot \in 1..MaxSlot
      BY <2>4 DEF Snapshot
    <3> QED BY <2>3, <3>1
  <2>6. basis[a].balance = latest.balance
    BY <2>1, <2>5 DEF LatestInv
  <2>7. NeedOf(Reserved) <= NeedOf(Counted)
    BY CountedExist, NeedGrows
  <2>8. NeedOf(Counted) <= latest.balance
    BY <2>1 DEF LatestInv
  <2>9. NeedOf(Reserved) \in Nat /\ NeedOf(Counted) \in Nat
    BY CountedExist, LamportsAreFinite
  <2>10. latest.balance \in Nat
    BY <2>4 DEF Snapshot
  <2> QED BY <2>6, <2>7, <2>8, <2>9, <2>10
<1> QED BY <1>1, LatestCovers, PTL

(* Capital consumed after the latest snapshot was taken counts against it  *)
(* as if it were reserved still (_validate_snapshot).                      *)
THEOREM SettledCapitalCounts == CapitalSpec => []SettledCapitalIsNotReused
<1>1. LatestInv => SettledCapitalIsNotReused
  BY DEF LatestInv, SettledCapitalIsNotReused, Counted
<1> QED BY <1>1, LatestCovers, PTL
=============================================================================
