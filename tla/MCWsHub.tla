------------------------------- MODULE MCWsHub -------------------------------
(***************************************************************************)
(* An instance of WsHub for TLC: two clients watch order a, which has a    *)
(* message in one topic and two in the other; a third client watches b, of *)
(* which nothing comes.                                                    *)
(***************************************************************************)
EXTENDS WsHub, TLC

CONSTANTS c1, c2, c3, a, b, inv, pay

Watched == c1 :> a @@ c2 :> a @@ c3 :> b
TwoTopics == inv :> <<a>> @@ pay :> <<a, a>>
=============================================================================
