--------------------------- MODULE MCCreateOrder ---------------------------
(***************************************************************************)
(* Instances of CreateOrder for TLC: one key that several requests use.    *)
(***************************************************************************)
EXTENDS CreateOrder, TLC

CONSTANTS r1, r2, r3, r4, key, body, other, bad

(* r1 and r2 are the same POST, r3 reuses the key with another body, and   *)
(* r4 has no key.                                                          *)
SomeKeys == r1 :> key @@ r2 :> key @@ r3 :> key @@ r4 :> NoKey
AllValid == r1 :> body @@ r2 :> body @@ r3 :> other @@ r4 :> body
OneBad == [AllValid EXCEPT ![r4] = bad]
=============================================================================
