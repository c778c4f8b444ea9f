---------------------------- MODULE MCInventory ----------------------------
(***************************************************************************)
(* Instances of Inventory for TLC.  SKU 3 is not in the catalog.           *)
(***************************************************************************)
EXTENDS Inventory, TLC

CONSTANTS o1, o2, o3, c1, c2, c3

MCSkus == {1, 2, 3}
MCCatalog == {1, 2}

PerSku(a, b, c) == 1 :> a @@ 2 :> b @@ 3 :> c

(* One line per SKU: o1 and o2 race for the last unit of SKU 1 and share   *)
(* SKU 2; o3 wants all of SKU 2.                                           *)
RaceStock == 1 :> 1 @@ 2 :> 2
RaceLines == o1 :> PerSku(1, 1, 0) @@ o2 :> PerSku(1, 1, 0)
               @@ o3 :> PerSku(0, 1, 0)
RaceQty == o1 :> PerSku(1, 1, 0) @@ o2 :> PerSku(1, 1, 0)
               @@ o3 :> PerSku(0, 2, 0)

(* o1 names SKU 2 on two lines of one unit each, and both decrements fit   *)
(* only if it comes before o3; o2 names the unknown SKU after SKU 1.       *)
OddStock == 1 :> 1 @@ 2 :> 4
OddLines == o1 :> PerSku(1, 2, 0) @@ o2 :> PerSku(1, 0, 1)
              @@ o3 :> PerSku(0, 1, 0)
OddQty == o1 :> PerSku(1, 2, 0) @@ o2 :> PerSku(1, 0, 1)
            @@ o3 :> PerSku(0, 2, 0)

ReplicaSymmetry == Permutations(Consumers)
=============================================================================
