----------------------------- MODULE OrderLife -----------------------------
(***************************************************************************)
(* The life of an order, as GET /orders/:id/status documents it            *)
(* (docs/api.md:66-68): stock, then payment, then fulfillment, one step at *)
(* a time, or FAILED where stock or payment is refused.                    *)
(***************************************************************************)
CONSTANT Orders

VARIABLE stage

Init == stage = [o \in Orders |-> "PENDING"]

Advance(o, from, to) ==
  stage[o] = from /\ stage' = [stage EXCEPT ![o] = to]

Next == \E o \in Orders :
  \/ Advance(o, "PENDING", "INVENTORY_RESERVED")
  \/ Advance(o, "PENDING", "FAILED")
  \/ Advance(o, "INVENTORY_RESERVED", "PAYMENT_AUTHORIZED")
  \/ Advance(o, "INVENTORY_RESERVED", "FAILED")
  \/ Advance(o, "PAYMENT_AUTHORIZED", "FULFILLED")

Spec == Init /\ [][Next]_stage
=============================================================================
