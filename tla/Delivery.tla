------------------------------- MODULE Delivery -------------------------------
(***************************************************************************)
(* What the transactional outbox promises its users, without outbox rows,  *)
(* leases or fences: an event that was committed is delivered at least     *)
(* once and is given up only after that.                                   *)
(***************************************************************************)
CONSTANT EventId

VARIABLES
    committed,    \* events whose transaction committed
    delivered,    \* events that were delivered, once or more often
    waiting       \* events that will still be offered for delivery

deliveryVars == <<committed, delivered, waiting>>

DeliveryInit ==
    /\ committed = {} /\ delivered = {} /\ waiting = {}

Commit(e) ==
    /\ e \notin committed
    /\ committed' = committed \cup {e}
    /\ waiting' = waiting \cup {e}
    /\ UNCHANGED delivered

(* An event may be delivered again, also after it was settled. *)
Deliver(e) ==
    /\ e \in committed
    /\ delivered' = delivered \cup {e}
    /\ UNCHANGED <<committed, waiting>>

(* The event is not offered again. *)
Settle(e) ==
    /\ e \in waiting \cap delivered
    /\ waiting' = waiting \ {e}
    /\ UNCHANGED <<committed, delivered>>

DeliveryNext == \E e \in EventId : Commit(e) \/ Deliver(e) \/ Settle(e)

DeliverySpec == DeliveryInit /\ [][DeliveryNext]_deliveryVars
=============================================================================
