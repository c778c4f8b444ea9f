------------------------- MODULE RateLimiterProofs -------------------------
(***************************************************************************)
(* No window lets more than the limit through by counting, and nobody is   *)
(* refused for others' requests: for any number of requests and customers, *)
(* any limit and window, and however late a call arrives.                  *)
(*                                                                         *)
(* The counter of a window is at least the number of requests that it has  *)
(* let through while the window lasts, because no counter goes away before *)
(* its window is over; and it never exceeds the requests that were sent.   *)
(***************************************************************************)
EXTENDS RateLimiter, Integers, FiniteSetTheorems, TLAPS

-----------------------------------------------------------------------------
(* The windows of the clock.                                               *)

LEMMA WindowOf ==
  ASSUME NEW n \in Nat
  PROVE  /\ n \div Window \in Nat
         /\ (n \div Window) * Window <= n
         /\ n < (n \div Window + 1) * Window
         /\ (n \div Window + 1) * Window = (n \div Window) * Window + Window
BY TimesAssumption

LEMMA WindowsGrow ==
  ASSUME NEW m \in Nat, NEW n \in Nat, m <= n
  PROVE  m \div Window <= n \div Window
BY TimesAssumption

(* A time that belongs to window w or to an earlier one comes before its   *)
(* end.                                                                    *)
LEMMA BeforeItsEnd ==
  ASSUME NEW n \in Nat, NEW w \in Nat, n \div Window <= w
  PROVE  n < (w + 1) * Window
<1>1. n < (n \div Window + 1) * Window
  BY WindowOf
<1>2. (n \div Window + 1) * Window <= (w + 1) * Window
  <2> DEFINE x == n \div Window + 1
  <2>1. x \in Nat /\ x <= w + 1
    BY WindowOf
  <2> HIDE DEF x
  <2>2. x * Window <= (w + 1) * Window
    BY <2>1, TimesAssumption
  <2> QED BY <2>2 DEF x
<1>3. /\ (n \div Window + 1) * Window \in Int
      /\ (w + 1) * Window \in Int
  <2>1. n \div Window + 1 \in Int /\ w + 1 \in Int /\ Window \in Int
    BY WindowOf, TimesAssumption
  <2> QED BY <2>1
<1> QED BY <1>1, <1>2, <1>3

-----------------------------------------------------------------------------
(* The inductive invariant.                                                *)

Counts(r) == pc[r] = "allowed" \/ (pc[r] = "expire" /\ Limit > 0)

(* Those that were counted in the window they belong to, and let through.  *)
LetThrough(k) == {r \in Requests : /\ Counts(r)
                                   /\ windowKey(r) = k
                                   /\ counted[r] \div Window = k[2]}

(* Those that have gone beyond their first call to Redis.                  *)
Sent(k) == {r \in Requests : /\ pc[r] \notin {"none", "incr"}
                             /\ windowKey(r) = k}

Typed ==
  /\ now \in 0..End
  /\ counter \in [Keys -> Nat]
  /\ expiry \in [Keys -> 0..Never]
  /\ pc \in [Requests ->
               {"none", "incr", "expire", "allowed", "denied", "open", "dead"}]
  /\ start \in [Requests -> 0..LastStart]
  /\ counted \in [Requests -> 0..Never]
  /\ kept \subseteq Keys

(* A request is served for no longer than Delay after it read the clock.   *)
InTime == \A r \in Requests : Pending(r) => start[r] <= now /\ now <= start[r] + Delay

(* No counter goes away before its window is over.                         *)
Outlives == \A k \in Keys : (k[2] + 1) * Window <= expiry[k] \/ expiry[k] = Never

Bounded ==
  \A k \in Keys :
    /\ Cardinality(LetThrough(k)) <= Limit
    /\ now \div Window <= k[2] => Cardinality(LetThrough(k)) <= counter[k]
    /\ counter[k] <= Cardinality(Sent(k))

RefusedForGood ==
  \A r \in Requests :
    pc[r] = "denied" => Limit <= Cardinality(Sent(windowKey(r)) \ {r})

RInv == Typed /\ InTime /\ Outlives /\ Bounded /\ RefusedForGood

LEMMA Times ==
  /\ Limit \in Nat /\ Window \in Nat \ {0} /\ Delay \in Nat
  /\ LastStart \in Nat /\ End \in Nat /\ Never \in Nat /\ End < Never
  /\ LastStart + Delay + Window <= End
BY TimesAssumption DEF Never

LEMMA KeyOf ==
  ASSUME Typed, NEW r \in Requests
  PROVE  /\ windowKey(r) \in Keys
         /\ windowKey(r)[2] = start[r] \div Window
<1>1. start[r] \in Nat /\ start[r] <= End
  BY Times DEF Typed
<1>2. start[r] \div Window \in 0..(End \div Window)
  BY <1>1, Times, WindowOf, WindowsGrow
<1> QED BY <1>2 DEF windowKey, Keys, Customers, Windows

LEMMA KeyTyped ==
  ASSUME NEW k \in Keys
  PROVE  k[2] \in Nat /\ k[2] <= End \div Window
<1>1. End \div Window \in Nat
  BY Times, WindowOf
<1> QED BY <1>1 DEF Keys, Windows

LEMMA Sizes ==
  ASSUME NEW S \in SUBSET Requests
  PROVE  /\ IsFiniteSet(S)
         /\ Cardinality(S) \in Nat
         /\ Cardinality(S) <= Cardinality(Requests)
         /\ \A T \in SUBSET S : Cardinality(T) <= Cardinality(S)
         /\ \A r \in Requests \ S : Cardinality(S \cup {r}) = Cardinality(S) + 1
<1>1. IsFiniteSet(S)
  BY RequestsAssumption, FS_Subset
<1> QED BY <1>1, RequestsAssumption, FS_Subset, FS_AddElement, FS_CardinalityType

(* What a step may do to the two sets of a key.                            *)
LEMMA SetSizes ==
  ASSUME NEW k
  PROVE  /\ LetThrough(k) \in SUBSET Requests /\ Sent(k) \in SUBSET Requests
         /\ Cardinality(LetThrough(k)) \in Nat /\ Cardinality(Sent(k)) \in Nat
<1>1. LetThrough(k) \in SUBSET Requests /\ Sent(k) \in SUBSET Requests
  BY DEF LetThrough, Sent
<1> QED BY <1>1, Sizes

LEMMA AtStart == Init => RInv
<1> SUFFICES ASSUME Init PROVE RInv
  OBVIOUS
<1>1. Typed
  BY Times DEF Typed, Init
<1>2. InTime
  BY DEF InTime, Pending, Init
<1>3. Outlives
  BY DEF Outlives, Init
<1>4. Bounded
  <2> SUFFICES ASSUME NEW k \in Keys
               PROVE  /\ Cardinality(LetThrough(k)) <= Limit
                      /\ Cardinality(LetThrough(k)) <= counter[k]
                      /\ counter[k] <= Cardinality(Sent(k))
    BY DEF Bounded
  <2>1. LetThrough(k) = {}
    BY DEF LetThrough, Counts, Init
  <2>2. Cardinality(LetThrough(k)) = 0
    BY <2>1, FS_EmptySet
  <2> QED BY <2>2, SetSizes, Times DEF Init
<1>5. RefusedForGood
  BY DEF RefusedForGood, Init
<1> QED BY <1>1, <1>2, <1>3, <1>4, <1>5 DEF RInv

-----------------------------------------------------------------------------
(* What the steps of one request have in common.  Its key is fixed once it *)
(* has read the clock; whatever it has been counted or refused for stays.  *)

LEMMA Moves ==
  ASSUME Typed, NEW r \in Requests, start' = start,
         counted' \in {counted, [counted EXCEPT ![r] = now]},
         NEW step \in {"expire", "allowed", "denied", "open", "dead"},
         pc[r] \in {"incr", "expire"}, pc' = [pc EXCEPT ![r] = step]
  PROVE  /\ pc' \in [Requests ->
                       {"none", "incr", "expire", "allowed", "denied", "open", "dead"}]
         /\ \A q \in Requests : windowKey(q)' = windowKey(q)
         /\ pc'[r] = step
         /\ \A q \in Requests \ {r} : pc'[q] = pc[q] /\ counted'[q] = counted[q]
         /\ \A k : /\ Sent(k)' = IF windowKey(r) = k THEN Sent(k) \cup {r} ELSE Sent(k)
                   /\ pc[r] = "incr" => r \notin Sent(k) /\ r \notin LetThrough(k)
                   /\ LetThrough(k)' \subseteq LetThrough(k) \cup {r}
                   /\ windowKey(r) # k => LetThrough(k)' = LetThrough(k)
<1>1. /\ pc' \in [Requests ->
                   {"none", "incr", "expire", "allowed", "denied", "open", "dead"}]
      /\ \A q \in Requests : windowKey(q)' = windowKey(q)
      /\ pc'[r] = step
      /\ \A q \in Requests \ {r} : pc'[q] = pc[q] /\ counted'[q] = counted[q]
  BY DEF Typed, windowKey
<1>2. ASSUME NEW k
      PROVE  Sent(k)' = IF windowKey(r) = k THEN Sent(k) \cup {r} ELSE Sent(k)
  <2>1. ASSUME NEW q \in Requests \ {r}
        PROVE  q \in Sent(k)' <=> q \in Sent(k)
    BY <1>1 DEF Sent
  <2>2. r \in Sent(k)' <=> windowKey(r) = k
    BY <1>1 DEF Sent
  <2>3. r \in Sent(k) => windowKey(r) = k
    BY DEF Sent
  <2> QED BY <2>1, <2>2, <2>3 DEF Sent
<1>3. ASSUME NEW k
      PROVE  /\ LetThrough(k)' \subseteq LetThrough(k) \cup {r}
             /\ windowKey(r) # k => LetThrough(k)' = LetThrough(k)
  <2>1. ASSUME NEW q \in Requests \ {r}
        PROVE  q \in LetThrough(k)' <=> q \in LetThrough(k)
    BY <1>1 DEF LetThrough, Counts
  <2>2. r \in LetThrough(k)' \/ r \in LetThrough(k) => windowKey(r) = k
    BY <1>1 DEF LetThrough
  <2> QED BY <2>1, <2>2 DEF LetThrough
<1>4. ASSUME NEW k, pc[r] = "incr"
      PROVE  r \notin Sent(k) /\ r \notin LetThrough(k)
  BY <1>4 DEF Sent, LetThrough, Counts
<1> QED BY <1>1, <1>2, <1>3, <1>4

(* Who was refused stays so with reason, as long as no request is unsent.  *)
LEMMA RefusedStays ==
  ASSUME RInv, NEW q \in Requests, pc[q] = "denied",
         windowKey(q)' = windowKey(q),
         Sent(windowKey(q)) \subseteq Sent(windowKey(q))',
         Sent(windowKey(q))' \subseteq Requests
  PROVE  Limit <= Cardinality((Sent(windowKey(q)) \ {q})')
<1> DEFINE k == windowKey(q)
           S == Sent(windowKey(q)) \ {q}
<1>1. Limit <= Cardinality(S)
  BY DEF RInv, RefusedForGood
<1>2. S \subseteq S' /\ S' \subseteq Requests
  OBVIOUS
<1>3. /\ Cardinality(S) <= Cardinality(S')
      /\ Cardinality(S) \in Nat
      /\ Cardinality(S') \in Nat
  BY <1>2, Sizes
<1> QED BY <1>1, <1>3, Times

-----------------------------------------------------------------------------
(* One lemma per action.                                                   *)

LEMMA EnterPreserves ==
  ASSUME RInv, NEW r \in Requests, Enter(r)
  PROVE  RInv'
<1> USE DEF RInv
<1>1. /\ pc[r] = "none"
      /\ now <= LastStart
      /\ start' = [start EXCEPT ![r] = now]
      /\ pc' = [pc EXCEPT ![r] = "incr"]
      /\ UNCHANGED <<now, counter, expiry, counted, kept>>
  BY DEF Enter, Goto
<1>2. now \in Nat
  BY Times DEF Typed
<1>3. Typed'
  BY <1>1, <1>2 DEF Typed, Keys, Customers
<1>4. InTime'
  BY <1>1, <1>2, Times DEF InTime, Typed, Pending
<1>5. Outlives'
  BY <1>1 DEF Outlives
<1>6. ASSUME NEW q \in Requests, pc[q] \notin {"none", "incr"}
      PROVE  windowKey(q)' = windowKey(q) /\ pc'[q] = pc[q]
  BY <1>1, <1>6 DEF windowKey, Typed
<1>7. \A q \in Requests : pc'[q] \notin {"none", "incr"} => pc[q] \notin {"none", "incr"}
  BY <1>1 DEF Typed
<1>8. ASSUME NEW k
      PROVE  Sent(k)' = Sent(k) /\ LetThrough(k)' = LetThrough(k)
  BY <1>1, <1>6, <1>7 DEF Sent, LetThrough, Counts
<1>9. Bounded'
  BY <1>1, <1>8 DEF Bounded
<1>10. RefusedForGood'
  <2> SUFFICES ASSUME NEW q \in Requests, pc'[q] = "denied"
               PROVE  Limit <= Cardinality((Sent(windowKey(q)) \ {q})')
    BY DEF RefusedForGood
  <2>1. windowKey(q)' = windowKey(q) /\ pc[q] = "denied"
    BY <1>6, <1>7
  <2> QED BY <2>1, <1>8 DEF RefusedForGood
<1> QED BY <1>3, <1>4, <1>5, <1>9, <1>10

(* It counts a request: it is the first, is still within the limit, or is  *)
(* refused because as many as the limit were sent before it.               *)
LEMMA IncrPreserves ==
  ASSUME RInv, NEW r \in Requests, Incr(r)
  PROVE  RInv'
<1> USE DEF RInv
<1>0. PICK k0 \in Keys : k0 = windowKey(r)
  BY KeyOf
<1> DEFINE step == IF counter[k0] = 0 THEN "expire" ELSE Decision(counter[k0] + 1)
<1>1. /\ pc[r] = "incr"
      /\ counter' = [counter EXCEPT ![k0] = @ + 1]
      /\ counted' = [counted EXCEPT ![r] = now]
      /\ pc' = [pc EXCEPT ![r] = step]
      /\ UNCHANGED <<now, expiry, start, kept>>
  BY <1>0 DEF Incr, Goto
<1>2. /\ k0 \in Keys
      /\ counter[k0] \in Nat
      /\ k0[2] = start[r] \div Window
  BY <1>0, KeyOf DEF Typed
<1>3. /\ step \in {"expire", "allowed", "denied"}
      /\ step = "expire" => counter[k0] = 0
      /\ step = "allowed" => counter[k0] + 1 <= Limit
      /\ step = "denied" => Limit <= counter[k0]
  BY <1>2, Times DEF Decision
<1> HIDE DEF step
<1>4. /\ pc' \in [Requests ->
                    {"none", "incr", "expire", "allowed", "denied", "open", "dead"}]
      /\ \A q \in Requests : windowKey(q)' = windowKey(q)
      /\ pc'[r] = step
      /\ \A q \in Requests \ {r} : pc'[q] = pc[q] /\ counted'[q] = counted[q]
  BY <1>1, <1>3, Moves
<1>5. ASSUME NEW k
      PROVE  /\ Sent(k)' = IF k0 = k THEN Sent(k) \cup {r} ELSE Sent(k)
             /\ r \notin Sent(k) /\ r \notin LetThrough(k)
             /\ LetThrough(k)' \subseteq LetThrough(k) \cup {r}
             /\ k0 # k => LetThrough(k)' = LetThrough(k)
  BY <1>0, <1>1, <1>3, Moves
<1>6. Typed'
  <2>1. counter' \in [Keys -> Nat]
    BY <1>1, <1>2 DEF Typed
  <2>2. counted' \in [Requests -> 0..Never]
    BY <1>1, Times DEF Typed
  <2> QED BY <1>1, <1>4, <2>1, <2>2 DEF Typed, Keys, Customers
<1>7. InTime'
  <2>1. \A q \in Requests : Pending(q)' => Pending(q)
    BY <1>1, <1>4 DEF Pending
  <2> QED BY <1>1, <2>1 DEF InTime
<1>8. Outlives'
  BY <1>1 DEF Outlives
<1>9. Cardinality(Sent(k0)') = Cardinality(Sent(k0)) + 1
  <2>1. Sent(k0)' = Sent(k0) \cup {r} /\ r \notin Sent(k0)
    BY <1>5
  <2> QED BY <2>1, SetSizes, Sizes
<1>10. ASSUME r \in LetThrough(k0)'
       PROVE  /\ now \div Window = k0[2]
              /\ counter[k0] + 1 <= Limit
              /\ Cardinality(LetThrough(k0)') <= Cardinality(LetThrough(k0)) + 1
  <2>1. counted'[r] \div Window = k0[2] /\ counted'[r] = now
    BY <1>1, <1>10 DEF LetThrough, Typed
  <2>2. step = "allowed" \/ (step = "expire" /\ Limit > 0)
    BY <1>4, <1>10 DEF LetThrough, Counts
  <2>3. counter[k0] + 1 <= Limit
    BY <2>2, <1>2, <1>3, Times
  <2>4. LetThrough(k0) \cup {r} \in SUBSET Requests
    BY SetSizes
  <2>5. /\ Cardinality(LetThrough(k0)') <= Cardinality(LetThrough(k0) \cup {r})
        /\ Cardinality(LetThrough(k0) \cup {r}) = Cardinality(LetThrough(k0)) + 1
    BY <2>4, <1>5, SetSizes, Sizes
  <2> QED BY <2>1, <2>3, <2>5
<1>11. r \notin LetThrough(k0)' => LetThrough(k0)' \subseteq LetThrough(k0)
  BY <1>5
<1>12. Bounded'
  <2> SUFFICES ASSUME NEW k \in Keys
               PROVE  /\ Cardinality(LetThrough(k)') <= Limit
                      /\ now \div Window <= k[2]
                           => Cardinality(LetThrough(k)') <= counter'[k]
                      /\ counter'[k] <= Cardinality(Sent(k)')
    BY <1>1 DEF Bounded
  <2>1. /\ Cardinality(LetThrough(k)) <= Limit
        /\ now \div Window <= k[2] => Cardinality(LetThrough(k)) <= counter[k]
        /\ counter[k] <= Cardinality(Sent(k))
        /\ counter[k] \in Nat
    BY DEF Bounded, Typed
  <2>2. CASE k # k0
    <3>1. counter'[k] = counter[k]
      BY <2>2, <1>1 DEF Typed
    <3> QED BY <2>1, <2>2, <3>1, <1>5
  <2>3. CASE k = k0
    <3>1. counter'[k0] = counter[k0] + 1
      BY <1>1, <1>2 DEF Typed
    <3>2. /\ Cardinality(LetThrough(k0)) \in Nat
          /\ Cardinality(LetThrough(k0)') \in Nat
          /\ Cardinality(Sent(k0)) \in Nat
      <4>1. LetThrough(k0)' \in SUBSET Requests
        BY <1>5, SetSizes
      <4> QED BY <4>1, SetSizes, Sizes
    <3>3. CASE r \in LetThrough(k0)'
      <4>1. /\ now \div Window = k0[2]
            /\ counter[k0] + 1 <= Limit
            /\ Cardinality(LetThrough(k0)') <= Cardinality(LetThrough(k0)) + 1
        BY <3>3, <1>10
      <4>2. now \div Window \in Nat
        BY WindowOf, Times DEF Typed
      <4>3. Cardinality(LetThrough(k0)') <= counter[k0] + 1
        BY <4>1, <4>2, <2>1, <2>3, <3>2
      <4> QED BY <4>1, <4>3, <2>1, <2>3, <3>1, <3>2, <1>9, Times
    <3>4. CASE r \notin LetThrough(k0)'
      <4>1. Cardinality(LetThrough(k0)') <= Cardinality(LetThrough(k0))
        BY <3>4, <1>11, SetSizes, Sizes
      <4> QED BY <4>1, <2>1, <2>3, <3>1, <3>2, <1>9, Times
    <3> QED BY <3>3, <3>4
  <2> QED BY <2>2, <2>3
<1>13. RefusedForGood'
  <2> SUFFICES ASSUME NEW q \in Requests, pc'[q] = "denied"
               PROVE  Limit <= Cardinality((Sent(windowKey(q)) \ {q})')
    BY DEF RefusedForGood
  <2>1. CASE q # r
    <3>1. pc[q] = "denied" /\ windowKey(q)' = windowKey(q)
      BY <2>1, <1>4
    <3>2. /\ Sent(windowKey(q)) \subseteq Sent(windowKey(q))'
          /\ Sent(windowKey(q))' \subseteq Requests
      BY <3>1, <1>5, SetSizes
    <3> QED BY <3>1, <3>2, RefusedStays
  <2>2. CASE q = r
    <3>1. Limit <= counter[k0] /\ counter[k0] <= Cardinality(Sent(k0))
      BY <2>2, <1>2, <1>3, <1>4 DEF Bounded
    <3>2. (Sent(windowKey(r)) \ {r})' = Sent(k0)
      BY <1>0, <1>4, <1>5
    <3>3. Limit <= Cardinality(Sent(k0))
      BY <3>1, <1>2, SetSizes, Times
    <3> QED BY <2>2, <3>2, <3>3
  <2> QED BY <2>1, <2>2
<1> QED BY <1>6, <1>7, <1>8, <1>12, <1>13

(* The request that made the counter decides: in either case it has been   *)
(* sent and let through already.                                           *)
LEMMA DecisionPreserves ==
  ASSUME RInv, NEW r \in Requests, pc[r] = "expire", Goto(r, Decision(1)),
         UNCHANGED <<now, counter, start, counted>>
  PROVE  /\ pc' \in [Requests ->
                       {"none", "incr", "expire", "allowed", "denied", "open", "dead"}]
         /\ InTime' /\ Bounded' /\ RefusedForGood'
<1> USE DEF RInv
<1> DEFINE step == Decision(1)
<1>1. /\ step \in {"allowed", "denied"}
      /\ step = "allowed" <=> Limit > 0
      /\ step = "denied" => Limit = 0
  BY Times DEF Decision
<1>2. pc' = [pc EXCEPT ![r] = step]
  BY DEF Goto
<1> HIDE DEF step
<1>3. /\ pc' \in [Requests ->
                    {"none", "incr", "expire", "allowed", "denied", "open", "dead"}]
      /\ \A q \in Requests : windowKey(q)' = windowKey(q)
      /\ pc'[r] = step
      /\ \A q \in Requests \ {r} : pc'[q] = pc[q] /\ counted'[q] = counted[q]
  BY <1>1, <1>2, Moves
<1>4. ASSUME NEW k
      PROVE  Sent(k)' = Sent(k) /\ LetThrough(k)' = LetThrough(k)
  <2>1. \A q \in Requests : Counts(q)' <=> Counts(q)
    BY <1>1, <1>3 DEF Counts
  <2>2. \A q \in Requests : pc'[q] \notin {"none", "incr"} <=> pc[q] \notin {"none", "incr"}
    BY <1>1, <1>3
  <2> QED BY <1>3, <2>1, <2>2 DEF Sent, LetThrough
<1>5. InTime'
  <2>1. \A q \in Requests : Pending(q)' => Pending(q)
    BY <1>1, <1>3 DEF Pending
  <2> QED BY <2>1 DEF InTime
<1>6. Bounded'
  BY <1>4 DEF Bounded
<1>7. RefusedForGood'
  <2> SUFFICES ASSUME NEW q \in Requests, pc'[q] = "denied"
               PROVE  Limit <= Cardinality((Sent(windowKey(q)) \ {q})')
    BY DEF RefusedForGood
  <2>1. CASE q # r
    <3>1. pc[q] = "denied" /\ windowKey(q)' = windowKey(q)
      BY <2>1, <1>3
    <3>2. /\ Sent(windowKey(q)) \subseteq Sent(windowKey(q))'
          /\ Sent(windowKey(q))' \subseteq Requests
      BY <3>1, <1>4, SetSizes
    <3> QED BY <3>1, <3>2, RefusedStays
  <2>2. CASE q = r
    <3>1. Limit = 0
      BY <2>2, <1>1, <1>3
    <3>2. (Sent(windowKey(q)) \ {q})' \in SUBSET Requests
      BY DEF Sent
    <3>3. Cardinality((Sent(windowKey(q)) \ {q})') \in Nat
      BY <3>2, Sizes
    <3> QED BY <3>1, <3>3
  <2> QED BY <2>1, <2>2
<1> QED BY <1>3, <1>5, <1>6, <1>7

LEMMA ExpirePreserves ==
  ASSUME RInv, NEW r \in Requests, Expire(r)
  PROVE  RInv'
<1> USE DEF RInv
<1>0. PICK k0 \in Keys : k0 = windowKey(r)
  BY KeyOf
<1>1. /\ pc[r] = "expire"
      /\ expiry' = [expiry EXCEPT ![k0] = now + Window]
      /\ Goto(r, Decision(1))
      /\ UNCHANGED <<now, counter, start, counted, kept>>
  BY <1>0 DEF Expire
<1>2. /\ pc' \in [Requests ->
                    {"none", "incr", "expire", "allowed", "denied", "open", "dead"}]
      /\ InTime' /\ Bounded' /\ RefusedForGood'
  BY <1>1, DecisionPreserves
<1>3. /\ start[r] \in 0..LastStart
      /\ now \in Nat
      /\ start[r] <= now
      /\ now <= start[r] + Delay
  BY <1>1, Times DEF Typed, InTime, Pending
<1>4. now + Window \in 0..Never
  BY <1>3, Times
<1>5. Typed'
  BY <1>1, <1>2, <1>4 DEF Typed, Keys, Customers
<1>6. (k0[2] + 1) * Window <= now + Window
  <2>1. k0[2] = start[r] \div Window
    BY <1>0, KeyOf
  <2>2. /\ (start[r] \div Window) * Window <= start[r]
        /\ (start[r] \div Window + 1) * Window
             = (start[r] \div Window) * Window + Window
    BY <1>3, Times, WindowOf
  <2>3. (start[r] \div Window) * Window \in Int
    <3>1. start[r] \div Window \in Int /\ Window \in Int
      BY <1>3, Times, WindowOf
    <3> QED BY <3>1
  <2> QED BY <2>1, <2>2, <2>3, <1>3, Times
<1>7. Outlives'
  BY <1>1, <1>6 DEF Outlives, Typed
<1> QED BY <1>2, <1>5, <1>7

LEMMA ExpireFailsPreserves ==
  ASSUME RInv, NEW r \in Requests, ExpireFails(r)
  PROVE  RInv'
<1> USE DEF RInv
<1>1. /\ pc[r] = "expire"
      /\ kept' = kept \cup {windowKey(r)}
      /\ Goto(r, Decision(1))
      /\ UNCHANGED <<now, counter, expiry, start, counted>>
  BY DEF ExpireFails
<1>2. /\ pc' \in [Requests ->
                    {"none", "incr", "expire", "allowed", "denied", "open", "dead"}]
      /\ InTime' /\ Bounded' /\ RefusedForGood'
  BY <1>1, DecisionPreserves
<1>3. Typed'
  BY <1>1, <1>2, KeyOf DEF Typed, Keys, Customers
<1>4. Outlives'
  BY <1>1 DEF Outlives
<1> QED BY <1>2, <1>3, <1>4

(* A request that ends without a decision: its INCR may have been done, so *)
(* it has been sent.                                                       *)
LEMMA EndsPreserves ==
  ASSUME RInv, NEW r \in Requests, FailOpen(r) \/ Crash(r)
  PROVE  RInv'
<1> USE DEF RInv
<1>0. PICK k0 \in Keys : k0 = windowKey(r)
  BY KeyOf
<1>1. PICK step \in {"open", "dead"} : pc' = [pc EXCEPT ![r] = step]
  BY DEF FailOpen, Crash, Goto
<1>2. /\ pc[r] \in {"incr", "expire"}
      /\ kept' \in {kept, kept \cup {k0}}
      /\ UNCHANGED <<now, expiry, start, counted>>
  BY <1>0 DEF FailOpen, Crash, Pending
<1>3. \/ counter' = counter
      \/ pc[r] = "incr" /\ counter' = [counter EXCEPT ![k0] = @ + 1]
  BY <1>0 DEF FailOpen, Crash
<1>4. /\ pc' \in [Requests ->
                    {"none", "incr", "expire", "allowed", "denied", "open", "dead"}]
      /\ \A q \in Requests : windowKey(q)' = windowKey(q)
      /\ pc'[r] = step
      /\ \A q \in Requests \ {r} : pc'[q] = pc[q] /\ counted'[q] = counted[q]
  BY <1>1, <1>2, Moves
<1>5. ASSUME NEW k
      PROVE  /\ Sent(k)' = IF k0 = k THEN Sent(k) \cup {r} ELSE Sent(k)
             /\ pc[r] = "incr" => r \notin Sent(k)
             /\ LetThrough(k)' \subseteq LetThrough(k)
  <2>1. r \notin LetThrough(k)'
    BY <1>4 DEF LetThrough, Counts
  <2> QED BY <2>1, <1>0, <1>1, <1>2, Moves
<1>6. Typed'
  <2>1. counter' \in [Keys -> Nat]
    BY <1>3 DEF Typed
  <2> QED BY <1>2, <1>4, <2>1 DEF Typed, Keys, Customers
<1>7. InTime'
  <2>1. \A q \in Requests : Pending(q)' => Pending(q)
    BY <1>4 DEF Pending
  <2> QED BY <1>2, <2>1 DEF InTime
<1>8. Outlives'
  BY <1>2 DEF Outlives
<1>9. Bounded'
  <2> SUFFICES ASSUME NEW k \in Keys
               PROVE  /\ Cardinality(LetThrough(k)') <= Limit
                      /\ now \div Window <= k[2]
                           => Cardinality(LetThrough(k)') <= counter'[k]
                      /\ counter'[k] <= Cardinality(Sent(k)')
    BY <1>2 DEF Bounded
  <2>1. /\ Cardinality(LetThrough(k)) <= Limit
        /\ now \div Window <= k[2] => Cardinality(LetThrough(k)) <= counter[k]
        /\ counter[k] <= Cardinality(Sent(k))
        /\ counter[k] \in Nat
    BY DEF Bounded, Typed
  <2>2. /\ Cardinality(LetThrough(k)') <= Cardinality(LetThrough(k))
        /\ Cardinality(LetThrough(k)') \in Nat
    <3>1. LetThrough(k)' \in SUBSET LetThrough(k) /\ LetThrough(k) \in SUBSET Requests
      BY <1>5, SetSizes
    <3> QED BY <3>1, Sizes
  <2>3. /\ Cardinality(Sent(k)) <= Cardinality(Sent(k)')
        /\ Cardinality(Sent(k)') \in Nat
    <3>1. Sent(k) \in SUBSET Sent(k)' /\ Sent(k)' \in SUBSET Requests
      BY <1>5, SetSizes
    <3> QED BY <3>1, Sizes
  <2>4. CASE counter'[k] = counter[k]
    BY <2>1, <2>2, <2>3, <2>4, SetSizes, Times
  <2>5. CASE counter'[k] # counter[k]
    <3>1. k = k0 /\ pc[r] = "incr" /\ counter'[k] = counter[k] + 1
      BY <2>5, <1>3 DEF Typed
    <3>2. Sent(k)' = Sent(k) \cup {r} /\ r \notin Sent(k)
      BY <3>1, <1>5
    <3>3. Cardinality(Sent(k)') = Cardinality(Sent(k)) + 1
      BY <3>2, SetSizes, Sizes
    <3> QED BY <2>1, <2>2, <3>1, <3>3, SetSizes, Times
  <2> QED BY <2>4, <2>5
<1>10. RefusedForGood'
  <2> SUFFICES ASSUME NEW q \in Requests, pc'[q] = "denied"
               PROVE  Limit <= Cardinality((Sent(windowKey(q)) \ {q})')
    BY DEF RefusedForGood
  <2>1. pc[q] = "denied" /\ windowKey(q)' = windowKey(q)
    BY <1>4
  <2>2. /\ Sent(windowKey(q)) \subseteq Sent(windowKey(q))'
        /\ Sent(windowKey(q))' \subseteq Requests
    BY <2>1, <1>5, SetSizes
  <2> QED BY <2>1, <2>2, RefusedStays
<1> QED BY <1>6, <1>7, <1>8, <1>9, <1>10

(* Time passes: a counter that goes away is of a window that is over.      *)
LEMMA TickPreserves ==
  ASSUME RInv, Tick
  PROVE  RInv'
<1> USE DEF RInv
<1>1. /\ now < End
      /\ \A r \in Requests : Pending(r) => now < start[r] + Delay
      /\ now' = now + 1
      /\ counter' = [k \in Keys |-> IF expiry[k] <= now' THEN 0 ELSE counter[k]]
      /\ expiry' = [k \in Keys |-> IF expiry[k] <= now' THEN Never ELSE expiry[k]]
      /\ UNCHANGED <<pc, start, counted, kept>>
  BY DEF Tick
<1>2. now \in Nat /\ now' \in 0..End
  BY <1>1, Times DEF Typed
<1>3. Typed'
  <2>1. counter' \in [Keys -> Nat]
    BY <1>1 DEF Typed
  <2>2. expiry' \in [Keys -> 0..Never]
    BY <1>1, Times DEF Typed
  <2> QED BY <1>1, <1>2, <2>1, <2>2 DEF Typed, Keys, Customers
<1>4. InTime'
  BY <1>1, <1>2, Times DEF InTime, Pending, Typed
<1>5. Outlives'
  BY <1>1 DEF Outlives
<1>6. \A k : Sent(k)' = Sent(k) /\ LetThrough(k)' = LetThrough(k)
  BY <1>1 DEF Sent, LetThrough, Counts, windowKey
<1>7. ASSUME NEW k \in Keys, now' \div Window <= k[2]
      PROVE  now \div Window <= k[2] /\ ~(expiry[k] <= now')
  <2>1. k[2] \in Nat
    BY KeyTyped
  <2>2. /\ now \div Window \in Nat /\ now' \div Window \in Nat
        /\ now \div Window <= now' \div Window
    BY <1>1, <1>2, WindowOf, WindowsGrow
  <2>3. now' < (k[2] + 1) * Window
    BY <1>2, <1>7, <2>1, BeforeItsEnd
  <2>4. (k[2] + 1) * Window \in Int
    <3>1. k[2] + 1 \in Int /\ Window \in Int
      BY <2>1, Times
    <3> QED BY <3>1
  <2>5. expiry[k] \in Int /\ now' \in Int /\ now' < Never
    BY <1>2, Times DEF Typed
  <2> QED BY <1>7, <2>1, <2>2, <2>3, <2>4, <2>5 DEF Outlives
<1>8. Bounded'
  <2> SUFFICES ASSUME NEW k \in Keys
               PROVE  /\ Cardinality(LetThrough(k)) <= Limit
                      /\ now' \div Window <= k[2]
                           => Cardinality(LetThrough(k)) <= counter'[k]
                      /\ counter'[k] <= Cardinality(Sent(k))
    BY <1>6 DEF Bounded
  <2>1. /\ counter'[k] = counter[k] \/ counter'[k] = 0
        /\ ~(expiry[k] <= now') => counter'[k] = counter[k]
    BY <1>1
  <2> QED BY <2>1, <1>7, SetSizes DEF Bounded
<1>9. RefusedForGood'
  <2>1. \A q : windowKey(q)' = windowKey(q)
    BY <1>1 DEF windowKey
  <2> QED BY <1>1, <1>6, <2>1 DEF RefusedForGood
<1> QED BY <1>3, <1>4, <1>5, <1>8, <1>9

-----------------------------------------------------------------------------
LEMMA StepPreserves == RInv /\ [Next]_vars => RInv'
<1> SUFFICES ASSUME RInv, [Next]_vars PROVE RInv'
  OBVIOUS
<1>1. ASSUME NEW r \in Requests, Enter(r)
      PROVE  RInv'
  BY <1>1, EnterPreserves
<1>2. ASSUME NEW r \in Requests, Incr(r)
      PROVE  RInv'
  BY <1>2, IncrPreserves
<1>3. ASSUME NEW r \in Requests, Expire(r)
      PROVE  RInv'
  BY <1>3, ExpirePreserves
<1>4. ASSUME NEW r \in Requests, ExpireFails(r)
      PROVE  RInv'
  BY <1>4, ExpireFailsPreserves
<1>5. ASSUME NEW r \in Requests, FailOpen(r) \/ Crash(r)
      PROVE  RInv'
  BY <1>5, EndsPreserves
<1>6. CASE Tick
  BY <1>6, TickPreserves
<1>7. CASE UNCHANGED vars
  <2> USE <1>7 DEF vars, RInv
  <2>1. Typed' /\ InTime' /\ Outlives'
    BY DEF Typed, Keys, Customers, InTime, Pending, Outlives
  <2>2. \A k : Sent(k)' = Sent(k) /\ LetThrough(k)' = LetThrough(k)
    BY DEF Sent, LetThrough, Counts, windowKey
  <2>3. Bounded'
    BY <2>2 DEF Bounded
  <2>4. RefusedForGood'
    BY DEF RefusedForGood, Sent, windowKey
  <2> QED BY <2>1, <2>3, <2>4
<1> QED BY <1>1, <1>2, <1>3, <1>4, <1>5, <1>6, <1>7 DEF Next, Allow

LEMMA Invariance == Spec => []RInv
BY AtStart, StepPreserves, PTL DEF Spec

(* The clock, the counters and the requests have their types; no counter   *)
(* exceeds the number of requests.                                         *)
THEOREM TypeCorrect == Spec => []TypeOK
<1>1. RInv => TypeOK
  <2> SUFFICES ASSUME RInv PROVE TypeOK
    OBVIOUS
  <2>1. ASSUME NEW k \in Keys
        PROVE  counter[k] \in 0..Cardinality(Requests)
    <3>1. /\ counter[k] \in Nat
          /\ counter[k] <= Cardinality(Sent(k))
          /\ Cardinality(Sent(k)) \in Nat
          /\ Cardinality(Sent(k)) <= Cardinality(Requests)
          /\ Cardinality(Requests) \in Nat
      BY SetSizes, Sizes DEF RInv, Typed, Bounded
    <3> QED BY <3>1
  <2>2. counter \in [Keys -> 0..Cardinality(Requests)]
    BY <2>1 DEF RInv, Typed
  <2> QED BY <2>2 DEF TypeOK, RInv, Typed
<1> QED BY <1>1, Invariance, PTL

(* A window lets no more than the limit through by counting, and refuses   *)
(* only when that many others of the customer and the window were sent.    *)
THEOREM LimitKept == Spec => []DecisionsFollowLimit
<1>1. RInv => DecisionsFollowLimit
  <2> SUFFICES ASSUME RInv PROVE DecisionsFollowLimit
    OBVIOUS
  <2>1. ASSUME NEW k \in Keys
        PROVE  Cardinality({r \in Requests : /\ pc[r] = "allowed"
                                             /\ windowKey(r) = k
                                             /\ counted[r] \div Window = k[2]}) <= Limit
    <3> DEFINE S == {r \in Requests : /\ pc[r] = "allowed"
                                      /\ windowKey(r) = k
                                      /\ counted[r] \div Window = k[2]}
    <3>1. S \in SUBSET LetThrough(k)
      BY DEF LetThrough, Counts
    <3> HIDE DEF S
    <3>2. /\ Cardinality(S) <= Cardinality(LetThrough(k))
          /\ Cardinality(S) \in Nat
          /\ Cardinality(LetThrough(k)) \in Nat
          /\ Cardinality(LetThrough(k)) <= Limit
      <4>1. S \in SUBSET Requests
        BY <3>1, SetSizes
      <4> QED BY <3>1, <4>1, SetSizes, Sizes DEF RInv, Bounded
    <3>3. Cardinality(S) <= Limit
      BY <3>2, Times
    <3> QED BY <3>3 DEF S
  <2>2. ASSUME NEW r \in Requests, pc[r] = "denied"
        PROVE  Limit <= Cardinality({q \in Requests \ {r} :
                          /\ pc[q] \notin {"none", "incr"}
                          /\ CustomerOf[q] = CustomerOf[r]
                          /\ start[q] \div Window = start[r] \div Window})
    <3> DEFINE S == {q \in Requests \ {r} :
                       /\ pc[q] \notin {"none", "incr"}
                       /\ CustomerOf[q] = CustomerOf[r]
                       /\ start[q] \div Window = start[r] \div Window}
    <3>1. S = Sent(windowKey(r)) \ {r}
      BY DEF Sent, windowKey
    <3>2. Limit <= Cardinality(Sent(windowKey(r)) \ {r})
      BY <2>2 DEF RInv, RefusedForGood
    <3> QED BY <3>1, <3>2
  <2>3. \A S \in SUBSET Requests : Limit <= Cardinality(S) => Cardinality(S) >= Limit
    BY Sizes, Times
  <2> QED BY <2>1, <2>2, <2>3 DEF DecisionsFollowLimit
<1> QED BY <1>1, Invariance, PTL
=============================================================================
