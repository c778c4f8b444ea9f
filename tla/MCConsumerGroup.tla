-------------------------- MODULE MCConsumerGroup --------------------------
(***************************************************************************)
(* An instance of ConsumerGroup for TLC: two replicas, and four messages   *)
(* of which the second is not for this service.                            *)
(***************************************************************************)
EXTENDS ConsumerGroup

CONSTANTS c1, c2

SecondMessage == {1}
=============================================================================
