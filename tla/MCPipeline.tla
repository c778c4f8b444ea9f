----------------------------- MODULE MCPipeline -----------------------------
(***************************************************************************)
(* Instances of Pipeline for TLC: two orders for the last unit of a SKU;   *)
(* the payment of o1 would be authorized and that of o2 declined.          *)
(***************************************************************************)
EXTENDS Pipeline

CONSTANTS o1, o2, p1, p2, f1, f2
=============================================================================
