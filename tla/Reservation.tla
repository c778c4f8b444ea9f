---------------------------- MODULE Reservation ----------------------------
(***************************************************************************)
(* What the Inventory Service promises, with the transactions, the locks   *)
(* and the redeliveries taken away: every order is settled in one step,    *)
(* at most once, against the stock of that moment.  Inventory.tla is shown *)
(* to implement this module.                                               *)
(***************************************************************************)
EXTENDS Naturals, Sequences

CONSTANTS Orders,        \* the orders announced on order-events
          Skus,          \* every SKU an order line may name
          Catalog,       \* the SKUs that have a row in table inventory
          InitialStock,  \* available_quantity of those rows at the start
          Qty            \* Qty[o][s]: units of s that order o asks for

VARIABLES available,     \* inventory.available_quantity
          reserved,      \* inventory.reserved_quantity
          reservations,  \* units recorded for an order in table reservations
          outbox         \* the outcomes, in the order they were recorded

vars == <<available, reserved, reservations, outbox>>

Outcome(o, e) == [order |-> o, event |-> e]

Settled == {outbox[i].order : i \in DOMAIN outbox}

Ordered(o) == {s \in Skus : Qty[o][s] > 0}

InStock(o) == \A s \in Ordered(o) : available[s] >= Qty[o][s]

Init == /\ available = InitialStock
        /\ reserved = [s \in Catalog |-> 0]
        /\ reservations = [o \in Orders |-> [s \in Catalog |-> 0]]
        /\ outbox = << >>

(* The order gets every unit it asked for, no more and no less.            *)
Reserve(o) ==
  /\ o \notin Settled
  /\ Ordered(o) \subseteq Catalog
  /\ InStock(o)
  /\ available' = [s \in Catalog |-> available[s] - Qty[o][s]]
  /\ reserved' = [s \in Catalog |-> reserved[s] + Qty[o][s]]
  /\ reservations' = [reservations EXCEPT ![o] = [s \in Catalog |-> Qty[o][s]]]
  /\ outbox' = Append(outbox, Outcome(o, "InventoryReserved"))

(* The order is refused, which is allowed only when stock is really short. *)
Refuse(o) ==
  /\ o \notin Settled
  /\ Ordered(o) \subseteq Catalog
  /\ ~InStock(o)
  /\ outbox' = Append(outbox, Outcome(o, "InventoryReservationFailed"))
  /\ UNCHANGED <<available, reserved, reservations>>

Next == \E o \in Orders : Reserve(o) \/ Refuse(o)

Spec == Init /\ [][Next]_vars
=============================================================================
