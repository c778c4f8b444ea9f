--------------------------- MODULE MCRateLimiter ---------------------------
(***************************************************************************)
(* An instance of RateLimiter for TLC: two requests of one customer and    *)
(* one of another, one allowed per window, and a window of two ticks.      *)
(***************************************************************************)
EXTENDS RateLimiter

CONSTANTS r1, r2, r3, alice, bob

Senders == [r \in Requests |-> IF r = r3 THEN bob ELSE alice]
=============================================================================
