------------------------- MODULE CapitalReservations -------------------------
(***************************************************************************)
(* The durable capital coordinator (economics/durable_reservations.py) for *)
(* one wallet: processes observe the wallet's balance outside the store,   *)
(* and reserve the capital of an attempt against that snapshot later, in   *)
(* one transaction with the attempt.  A reservation ends by a fenced       *)
(* release or by the outcome of a paper attempt                            *)
(* (paper_shadow/paper_outcome_pr187.py), which consumes it.               *)
(*                                                                         *)
(* Every process runs the coordinator under one owner id                   *)
(* (CORE_V1_OWNER_ID in runtime/core_v1_composition.py), so the lease of a *)
(* release is shared between them and the last to acquire it has it.       *)
(*                                                                         *)
(* The times of snapshots and settlements are UTC readings; here they are  *)
(* readings of one clock that does not step, within one boot.  Attempts    *)
(* only come from the coordinator, so each has its wallet snapshot in its  *)
(* creation event.                                                         *)
(***************************************************************************)
EXTENDS DurableLifecycle, Sequences

CONSTANTS
    Process,      \* processes that run a coordinator
    Need,         \* Need[a]: required_native_lamports of attempt a's candidate
    Balance,      \* balances the wallet may have
    Opening,      \* the balance at the first slot
    MaxSlot,      \* bound: slots of the chain
    MaxAge,       \* max_snapshot_age_ns, in ticks
    NoSnapshot    \* no observation of the wallet

ASSUME CapitalAssumption ==
    /\ Need \in [Attempt -> Nat]
    /\ Balance \subseteq Nat /\ Opening \in Balance
    /\ MaxSlot \in Nat \ {0} /\ MaxAge \in Nat
    /\ "planned" \in InitialStates

VARIABLES
    wallet,       \* the wallet's balance at each slot so far
    snapshots,    \* snapshots[p]: the WalletBalanceSnapshot of p's request
    basis,        \* basis[a]: the snapshot in the creation event of a
    settled,      \* settled[a]: updated_at_ns of a reservation that ended by outcome
    committing,   \* committing[p]: the outcome process p is committing
    outcomes,     \* paper_outcomes_pr187: the attempts with a row
    latest        \* ghost: the snapshot of the latest reservation

capitalVars == <<wallet, snapshots, basis, settled, committing, outcomes, latest>>
capitalAllVars == <<vars, capitalVars>>

-----------------------------------------------------------------------------
Snapshot == [slot : 1..MaxSlot, balance : Balance, captured : 0..MaxTick]

OutcomeCall == [pc : {"idle", "reservation", "attempt", "row"},
                attempt : Attempt \cup {NoAttempt},
                to : {"released", "consumed"}, now : 0..MaxTick]

NoOutcome == [pc |-> "idle", attempt |-> NoAttempt, to |-> "released", now |-> 0]

CapitalTypeOK ==
    /\ TypeOK
    /\ wallet \in Seq(Balance) /\ Len(wallet) \in 1..MaxSlot
    /\ snapshots \in [Process -> Snapshot \cup {NoSnapshot}]
    /\ basis \in [Attempt -> Snapshot \cup {NoSnapshot}]
    /\ settled \in [Attempt -> 0..MaxTick]
    /\ committing \in [Process -> OutcomeCall]
    /\ outcomes \subseteq Attempt
    /\ latest \in Snapshot \cup {NoSnapshot}

CapitalInit ==
    /\ Init
    /\ wallet = <<Opening>>
    /\ snapshots = [p \in Process |-> NoSnapshot]
    /\ basis = [a \in Attempt |-> NoSnapshot]
    /\ settled = [a \in Attempt |-> 0]
    /\ committing = [p \in Process |-> NoOutcome]
    /\ outcomes = {}
    /\ latest = NoSnapshot

-----------------------------------------------------------------------------
Reserved == {a \in Attempt : reservations[a] = "active"}

(* The sum of what the attempts in S need: their lamports, counted.        *)
Lamports(S) == UNION {{a} \X (1..Need[a]) : a \in S}

NeedOf(S) == Cardinality(Lamports(S))

(* getBalance: a node answers with the balance at some slot it has seen,   *)
(* not always the newest.  A request to the coordinator carries one        *)
(* snapshot of its own, and is made while there is an attempt to reserve.  *)
CaptureSnapshot(p) ==
    /\ snapshots[p] = NoSnapshot
    /\ \E a \in Attempt : ~Exists(a)
    /\ \E s \in 1..Len(wallet) :
          snapshots' = [snapshots EXCEPT ![p] =
              [slot |-> s, balance |-> wallet[s], captured |-> clock.tick]]
    /\ UNCHANGED <<vars, wallet, basis, settled, committing, outcomes, latest>>

(* Someone else moves funds of the wallet. *)
WalletMoves ==
    /\ Len(wallet) < MaxSlot
    /\ \E b \in Balance : wallet' = Append(wallet, b)
    /\ UNCHANGED <<vars, snapshots, basis, settled, committing, outcomes, latest>>

(* AdmissibleSnapshot with a bug: only its age is looked at. *)
RecentSnapshot(n) == clock.tick - n.captured <= MaxAge

(* And with another: settled reservations are not looked at. *)
SnapshotOfLatestGeneration(n) ==
    /\ clock.tick - n.captured <= MaxAge
    /\ \A a \in Attempt : Exists(a) => basis[a].slot <= n.slot

(* _validate_snapshot: recent enough, not of an older slot than any        *)
(* earlier reservation's, and taken after every settlement.                *)
AdmissibleSnapshot(n) ==
    /\ clock.tick - n.captured <= MaxAge
    /\ \A a \in Attempt : Exists(a) =>
          /\ basis[a].slot <= n.slot
          /\ basis[a].slot = n.slot => basis[a].balance = n.balance
          /\ reservations[a] = "consumed" =>
                /\ basis[a].slot < n.slot
                /\ settled[a] < n.captured

(* _active_attempts raises DURABLE_RESERVATION_INCONSISTENT otherwise.     *)
CopiesConsistent ==
    \A a \in Attempt : Exists(a) =>
        reservations[a] = "active" <=> attempts[a].reservation = "active"

(* reserve: judge the snapshot, subtract what is reserved, and create the  *)
(* attempt, under the writer lock.  The exact replay changes nothing.      *)
ReserveCapital(p, a) ==
    LET n == snapshots[p]
    IN  /\ n # NoSnapshot
        /\ AdmissibleSnapshot(n)
        /\ CopiesConsistent
        /\ NeedOf(Reserved) + Need[a] <= n.balance
        /\ \E k \in KeysFor(a, 0) : CreateAttempt(a, k, "planned", TRUE)
        /\ basis' = [basis EXCEPT ![a] = n]
        /\ latest' = n
        /\ snapshots' = [snapshots EXCEPT ![p] = NoSnapshot]
        /\ UNCHANGED <<wallet, settled, committing, outcomes>>

(* The coordinator refuses: nothing is written. *)
ReserveRefused(p) ==
    /\ snapshots[p] # NoSnapshot
    /\ snapshots' = [snapshots EXCEPT ![p] = NoSnapshot]
    /\ UNCHANGED <<vars, wallet, basis, settled, committing, outcomes, latest>>

(* release_pre_submission_reservation: the lease of the attempt, then the  *)
(* release under it, each in its own transaction.                          *)
ReleaseStep(w, a) ==
    /\ Exists(a)
    /\ \/ AcquireAttemptLease(w, a)
       \/ \E k \in KeysFor(a, attempts[a].revision + 1) :
             ReleaseAbandonedReservation(w, a, k)
    /\ UNCHANGED capitalVars

-----------------------------------------------------------------------------
OutcomeGoto(p, call) == committing' = [committing EXCEPT ![p] = call]

OutcomeAt(p, pc) == committing[p].pc = pc

(* CanonicalPaperOutcomeStore.commit: it checks that the reservation is    *)
(* active and reads the clock, outside any transaction.                    *)
OutcomeStart(p, a, to) ==
    /\ OutcomeAt(p, "idle")
    /\ reservations[a] = "active" /\ a \notin outcomes
    /\ OutcomeGoto(p, [pc |-> "reservation", attempt |-> a, to |-> to, now |-> clock.tick])
    /\ UNCHANGED <<vars, wallet, snapshots, basis, settled, outcomes, latest>>

(* OutcomeReservation with a bug: whether the reservation still is active  *)
(* is not asked again.                                                     *)
OutcomeReservationAnyway(p) ==
    LET c == committing[p]
    IN  /\ OutcomeAt(p, "reservation")
        /\ reservations' = [reservations EXCEPT ![c.attempt] = c.to]
        /\ settled' = [settled EXCEPT ![c.attempt] = c.now]
        /\ OutcomeGoto(p, [c EXCEPT !.pc = "attempt", !.now = 0])
        /\ UNCHANGED <<leaseVars, outboxVars, attempts, journal, writer>>
        /\ UNCHANGED <<wallet, snapshots, basis, outcomes, latest>>

(* Then three statements.  The connection is in autocommit mode            *)
(* (isolation_level=None), so "with self.db" opens no transaction: each is *)
(* committed by itself.  First the reservation, which must still be active *)
(* (the commit raises otherwise) ...                                       *)
OutcomeReservation(p) ==
    LET c == committing[p]
    IN  /\ OutcomeAt(p, "reservation")
        /\ IF reservations[c.attempt] = "active"
           THEN /\ reservations' = [reservations EXCEPT ![c.attempt] = c.to]
                /\ settled' = [settled EXCEPT ![c.attempt] = c.now]
                /\ OutcomeGoto(p, [c EXCEPT !.pc = "attempt", !.now = 0])
           ELSE OutcomeGoto(p, NoOutcome) /\ UNCHANGED <<reservations, settled>>
        /\ UNCHANGED <<leaseVars, outboxVars, attempts, journal, writer>>
        /\ UNCHANGED <<wallet, snapshots, basis, outcomes, latest>>

(* ... then its copy in the attempt ... *)
OutcomeAttempt(p) ==
    LET c == committing[p]
    IN  /\ OutcomeAt(p, "attempt")
        /\ attempts' = [attempts EXCEPT ![c.attempt].reservation = c.to]
        /\ OutcomeGoto(p, [c EXCEPT !.pc = "row"])
        /\ UNCHANGED <<leaseVars, outboxVars, reservations, journal, writer>>
        /\ UNCHANGED <<wallet, snapshots, basis, settled, outcomes, latest>>

(* ... and the outcome row. *)
OutcomeRow(p) ==
    LET c == committing[p]
    IN  /\ OutcomeAt(p, "row")
        /\ outcomes' = outcomes \cup {c.attempt}
        /\ OutcomeGoto(p, NoOutcome)
        /\ UNCHANGED <<vars, wallet, snapshots, basis, settled, latest>>

(* A process dies, with the token if it is the last that acquired it. *)
CoordinatorCrash(p) ==
    /\ UNCHANGED vars \/ \E w \in Worker : WorkerCrash(w)
    /\ snapshots' = [snapshots EXCEPT ![p] = NoSnapshot]
    /\ OutcomeGoto(p, NoOutcome)
    /\ UNCHANGED <<wallet, basis, settled, outcomes, latest>>

CapitalNext ==
    \/ \E p \in Process :
          \/ CaptureSnapshot(p) \/ ReserveRefused(p)
          \/ \E a \in Attempt :
                \/ ReserveCapital(p, a)
                \/ \E to \in {"released", "consumed"} : OutcomeStart(p, a, to)
          \/ OutcomeReservation(p) \/ OutcomeAttempt(p) \/ OutcomeRow(p)
          \/ CoordinatorCrash(p)
    \/ \E w \in Worker, a \in Attempt : ReleaseStep(w, a)
    \/ WalletMoves
    \/ TickStore /\ UNCHANGED capitalVars

CapitalSpec == CapitalInit /\ [][CapitalNext]_capitalAllVars
-----------------------------------------------------------------------------
(* What is reserved never exceeds the newest balance any reservation was   *)
(* granted against: a late process with an older, richer snapshot gets     *)
(* nothing, whatever was released, settled or half settled meanwhile.      *)
WalletCoversReservations ==
    \A a \in Attempt :
        /\ Exists(a)
        /\ \A b \in Attempt : Exists(b) => basis[b].slot <= basis[a].slot
        => NeedOf(Reserved) <= basis[a].balance

(* Capital that was consumed after the latest snapshot was taken still     *)
(* counts against it: the snapshot cannot have seen it go                  *)
(* (WALLET_SNAPSHOT_PREDATES_SETTLEMENT).                                  *)
SettledCapitalIsNotReused ==
    LET unseen == {a \in Attempt : /\ reservations[a] = "consumed"
                                   /\ settled[a] >= latest.captured}
    IN  latest # NoSnapshot => NeedOf(Reserved \cup unseen) <= latest.balance

(* An outcome row means that its attempt's reservation ended, in both      *)
(* copies, and by this outcome: no release and no second outcome came in   *)
(* between the statements of the commit.                                   *)
OutcomesAreSettled ==
    \A a \in outcomes :
        /\ reservations[a] \in {"released", "consumed"}
        /\ attempts[a].reservation = reservations[a]
=============================================================================
