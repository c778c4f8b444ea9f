------------------------------ MODULE OnceOnly ------------------------------
(***************************************************************************)
(* What the Payment and the Fulfillment Services promise of the events     *)
(* they consume, with transactions, replicas and redeliveries taken away:  *)
(* an order that was asked for is settled in one step, at most once, and   *)
(* that step records the order's events.  Payment.tla and Fulfillment.tla  *)
(* are shown to implement this module.                                     *)
(***************************************************************************)
EXTENDS Sequences

CONSTANTS Orders,
          Events     \* Events[o]: the outbox rows that settling o inserts

VARIABLES requested,  \* orders whose event is in the topic, or will have been
          settled,
          outbox

Init == settled = {} /\ outbox = << >>

Settle(o) ==
  /\ o \in requested \ settled
  /\ settled' = settled \cup {o}
  /\ outbox' = outbox \o Events[o]

Next == \E o \in Orders : Settle(o)

Spec == Init /\ [][Next]_<<settled, outbox>>
=============================================================================
