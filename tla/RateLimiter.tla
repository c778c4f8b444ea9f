---------------------------- MODULE RateLimiter ----------------------------
(***************************************************************************)
(* The rate limiter of the Order Service: a counter per customer and       *)
(* minute in Redis, raised by INCR, with a time to live that the request   *)
(* which made the counter sets by a second call.                           *)
(*                                                                         *)
(* A request takes the number of its window from the clock before it calls *)
(* Redis, and the call may arrive up to Delay later.                       *)
(***************************************************************************)
EXTENDS Naturals, FiniteSets

CONSTANTS Requests,
          CustomerOf,  \* CustomerOf[r]: X-Customer-ID, or the remote address
          Limit,       \* RateLimiter.limit
          Window,      \* RateLimiter.window, in ticks
          Delay,       \* how long after its start a request is still served
          LastStart,   \* no request comes later than this
          End          \* the clock stops here

ASSUME TimesAssumption == /\ {Limit, Window, Delay, LastStart, End} \subseteq Nat
                          /\ Window > 0
                          /\ LastStart + Delay + Window <= End

ASSUME RequestsAssumption == IsFiniteSet(Requests)

VARIABLES now,
          counter,  \* Redis: the value of a window's counter, 0 if there is none
          expiry,   \* when the counter goes away, or Never
          pc,       \* where a request is in Allow
          start,    \* when it computed its windowKey
          counted,  \* history: when its INCR was done
          kept      \* history: counters that were left without an expiry

vars == <<now, counter, expiry, pc, start, counted, kept>>

Customers == {CustomerOf[r] : r \in Requests}
Windows == 0..(End \div Window)
Keys == Customers \X Windows

Never == End + 1

windowKey(r) == <<CustomerOf[r], start[r] \div Window>>

Init == /\ now = 0
        /\ counter = [k \in Keys |-> 0]
        /\ expiry = [k \in Keys |-> Never]
        /\ pc = [r \in Requests |-> "none"]
        /\ start = [r \in Requests |-> 0]
        /\ counted = [r \in Requests |-> Never]
        /\ kept = {}

Pending(r) == pc[r] \in {"incr", "expire"}

Goto(r, step) == pc' = [pc EXCEPT ![r] = step]

Decision(count) == IF count <= Limit THEN "allowed" ELSE "denied"

(* Slips of a programmer, which no specification here uses: README.md says *)
(* which definition each would replace and which property then fails.      *)
ShortTtl(r) ==
  /\ pc[r] = "expire"
  /\ expiry' = [expiry EXCEPT ![windowKey(r)] = now + 1]
  /\ Goto(r, Decision(1))
  /\ UNCHANGED <<now, counter, start, counted, kept>>

DeadlineAsTtl(r) ==
  /\ pc[r] = "expire"
  /\ expiry' = [expiry EXCEPT ![windowKey(r)] = Never + start[r] + Window]
  /\ Goto(r, Decision(1))
  /\ UNCHANGED <<now, counter, start, counted, kept>>

NoExpire(r) ==
  /\ pc[r] = "expire"
  /\ Goto(r, Decision(1))
  /\ UNCHANGED <<now, counter, expiry, start, counted, kept>>

-----------------------------------------------------------------------------
(* Allow begins and reads the clock.                                       *)
Enter(r) ==
  /\ pc[r] = "none"
  /\ now <= LastStart
  /\ start' = [start EXCEPT ![r] = now]
  /\ Goto(r, "incr")
  /\ UNCHANGED <<now, counter, expiry, counted, kept>>

(* INCR; the request that finds no counter makes it.                       *)
Incr(r) ==
  LET k == windowKey(r) IN
  /\ pc[r] = "incr"
  /\ counter' = [counter EXCEPT ![k] = @ + 1]
  /\ counted' = [counted EXCEPT ![r] = now]
  /\ Goto(r, IF counter[k] = 0 THEN "expire" ELSE Decision(counter[k] + 1))
  /\ UNCHANGED <<now, expiry, start, kept>>

Expire(r) ==
  /\ pc[r] = "expire"
  /\ expiry' = [expiry EXCEPT ![windowKey(r)] = now + Window]
  /\ Goto(r, Decision(1))
  /\ UNCHANGED <<now, counter, start, counted, kept>>

(* The error of EXPIRE is not looked at.                                   *)
ExpireFails(r) ==
  /\ pc[r] = "expire"
  /\ kept' = kept \cup {windowKey(r)}
  /\ Goto(r, Decision(1))
  /\ UNCHANGED <<now, counter, expiry, start, counted>>

(* INCR returns an error, done or not, and the request is let through.     *)
FailOpen(r) ==
  LET k == windowKey(r) IN
  /\ pc[r] = "incr"
  /\ \/ UNCHANGED <<counter, kept>>
     \/ /\ counter' = [counter EXCEPT ![k] = @ + 1]
        /\ kept' = IF counter[k] = 0 THEN kept \cup {k} ELSE kept
  /\ Goto(r, "open")
  /\ UNCHANGED <<now, expiry, start, counted>>

(* The process dies between its two calls, or before the first.            *)
Crash(r) ==
  /\ Pending(r)
  /\ kept' = IF pc[r] = "expire" THEN kept \cup {windowKey(r)} ELSE kept
  /\ Goto(r, "dead")
  /\ UNCHANGED <<now, counter, expiry, start, counted>>

(* Time passes, but not beyond the end of a request; Redis removes the     *)
(* counters whose time has come.                                           *)
Tick ==
  /\ now < End
  /\ \A r \in Requests : Pending(r) => now < start[r] + Delay
  /\ now' = now + 1
  /\ counter' = [k \in Keys |-> IF expiry[k] <= now' THEN 0 ELSE counter[k]]
  /\ expiry' = [k \in Keys |-> IF expiry[k] <= now' THEN Never ELSE expiry[k]]
  /\ UNCHANGED <<pc, start, counted, kept>>

Allow(r) == Incr(r) \/ Expire(r)

Next == \/ \E r \in Requests : \/ Enter(r)
                               \/ Allow(r)
                               \/ ExpireFails(r)
                               \/ FailOpen(r)
                               \/ Crash(r)
        \/ Tick

Spec == Init /\ [][Next]_vars

(* The clock runs, and so do the requests.                                 *)
FairSpec == Spec /\ WF_vars(Tick) /\ \A r \in Requests : WF_vars(Allow(r))

-----------------------------------------------------------------------------
(* The types of the clock, of the counters and of the requests' state.     *)
TypeOK ==
  /\ now \in 0..End
  /\ counter \in [Keys -> 0..Cardinality(Requests)]
  /\ expiry \in [Keys -> 0..Never]
  /\ pc \in [Requests ->
               {"none", "incr", "expire", "allowed", "denied", "open", "dead"}]
  /\ start \in [Requests -> 0..LastStart]
  /\ counted \in [Requests -> 0..Never]
  /\ kept \subseteq Keys

(* Within a window no customer gets more than the limit through by         *)
(* counting, since no counter goes away before its window is over; and     *)
(* nobody is refused for what others sent, for what came in other minutes, *)
(* or for a counter that should have gone.  (A request counted after the   *)
(* end of its window may be one too many.)                                 *)
DecisionsFollowLimit ==
  /\ \A k \in Keys :
       Cardinality({r \in Requests : /\ pc[r] = "allowed"
                                     /\ windowKey(r) = k
                                     /\ counted[r] \div Window = k[2]}) <= Limit
  /\ \A r \in Requests : pc[r] = "denied" =>
       Cardinality({q \in Requests \ {r} :
                      /\ pc[q] \notin {"none", "incr"}
                      /\ CustomerOf[q] = CustomerOf[r]
                      /\ start[q] \div Window = start[r] \div Window}) >= Limit

(* Every counter leaves Redis again, unless the process died or a call     *)
(* failed between making it and giving it a time to live.                  *)
CountersGo == \A k \in Keys : counter[k] > 0 ~> counter[k] = 0 \/ k \in kept
=============================================================================
