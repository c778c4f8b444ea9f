------------------------------ MODULE MCOutbox ------------------------------
(***************************************************************************)
(* Instances of Outbox for TLC.  The transaction of order a records two    *)
(* events, as the Fulfillment Service's does, and that of order b takes    *)
(* its row id between theirs.                                              *)
(***************************************************************************)
EXTENDS Outbox, TLC

CONSTANTS a, b, w1, w2

ThreeRows == {1, 2, 3}
TwoOrders == 1 :> a @@ 2 :> b @@ 3 :> a
=============================================================================
