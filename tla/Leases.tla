------------------------------- MODULE Leases -------------------------------
(***************************************************************************)
(* Ownership leases of the durable store: the durable_leases table with    *)
(* its boot-bound time domain (durability/trusted_time_store.py, which     *)
(* overrides acquire_lease and _verify_lease of durability/lifecycle.py),  *)
(* the trusted monotonic clock they are judged by, and the token each      *)
(* process last received.                                                  *)
(*                                                                         *)
(* Every process of one boot reads the same monotonic clock                *)
(* (time_authority.py), which restarts with the machine; the store never   *)
(* sets another process_generation than 1.  An anomaly the clock reports   *)
(* makes the operation raise, which is no step.  A stale snapshot          *)
(* in acquire_lease only refuses more and expires sooner, so the model     *)
(* reads the clock in the transaction.                                     *)
(***************************************************************************)
EXTENDS Integers

CONSTANTS
    Owner,      \* owner_id of every process that takes leases
    Resource,   \* resource_key: one per attempt and one per outbox topic
    NoOwner,    \* owner of a lease row that does not exist yet
    TTL,        \* ttl_ns, in ticks
    MaxTick,    \* bound: ticks of one boot
    MaxBoot,    \* bound: boots
    MaxFence    \* bound: acquisitions of one resource

ASSUME LeaseAssumption ==
    /\ NoOwner \notin Owner
    /\ TTL \in Nat \ {0}
    /\ MaxTick \in Nat /\ MaxBoot \in Nat \ {0} /\ MaxFence \in Nat \ {0}

VARIABLES
    clock,      \* the trusted clock: current boot and its monotonic time
    leases,     \* durable_leases joined with durable_lease_time_domains
    held        \* held[o][r]: fence of the LeaseToken o keeps in memory, or 0

leaseVars == <<clock, leases, held>>

-----------------------------------------------------------------------------
Instant == [boot : 1..MaxBoot, tick : 0..MaxTick]

LeaseRow == [owner : Owner \cup {NoOwner}, fence : 0..MaxFence,
             boot : 0..MaxBoot, expires : Nat]

NoLease == [owner |-> NoOwner, fence |-> 0, boot |-> 0, expires |-> 0]

LeaseTypeOK ==
    /\ clock \in Instant
    /\ leases \in [Resource -> LeaseRow]
    /\ held \in [Owner -> [Resource -> 0..MaxFence]]

LeaseInit ==
    /\ clock = [boot |-> 1, tick |-> 0]
    /\ leases = [r \in Resource |-> NoLease]
    /\ held = [o \in Owner |-> [r \in Resource |-> 0]]

-----------------------------------------------------------------------------
(* A deadline counts only within the boot that issued it. *)
Live(boot, until) == boot = clock.boot /\ until > clock.tick

(* The lease o holds after acquiring r now: the fence grows on every       *)
(* acquisition, a re-acquisition by the same owner included.               *)
Granted(o, r) == [owner   |-> o,
                  fence   |-> leases[r].fence + 1,
                  boot    |-> clock.boot,
                  expires |-> clock.tick + TTL]

(* acquire_lease raises LeaseLostError when another owner is live. *)
Free(o, r) == Live(leases[r].boot, leases[r].expires) => leases[r].owner = o

AcquireLease(o, r) ==
    /\ leases[r].fence < MaxFence
    /\ Free(o, r)
    /\ leases' = [leases EXCEPT ![r] = Granted(o, r)]
    /\ held' = [held EXCEPT ![o][r] = leases[r].fence + 1]
    /\ UNCHANGED clock

(* VerifyLease with a bug: any token passes while the lease is live. *)
VerifyLeaseDeadlineOnly(o, r) ==
    /\ held[o][r] > 0
    /\ Live(leases[r].boot, leases[r].expires)

(* _verify_lease, inside the writer's transaction: owner, exact fence and  *)
(* a deadline of this boot that has not passed.                            *)
VerifyLease(o, r) ==
    /\ leases[r].owner = o
    /\ leases[r].fence = held[o][r]
    /\ Live(leases[r].boot, leases[r].expires)

-----------------------------------------------------------------------------
Tick ==
    /\ clock.tick < MaxTick
    /\ clock' = [clock EXCEPT !.tick = @ + 1]
    /\ UNCHANGED <<leases, held>>

(* A process dies: its tokens are gone, the table stays. *)
ForgetTokens(o) ==
    /\ held' = [held EXCEPT ![o] = [r \in Resource |-> 0]]
    /\ UNCHANGED <<clock, leases>>

(* The machine restarts: a new time domain, every process's memory lost. *)
RebootClock ==
    /\ clock.boot < MaxBoot
    /\ clock' = [boot |-> clock.boot + 1, tick |-> 0]
    /\ held' = [o \in Owner |-> [r \in Resource |-> 0]]
    /\ UNCHANGED leases
=============================================================================
