---------------------------- MODULE WsHubProofs ----------------------------
(***************************************************************************)
(* The hub never keeps a connection that nobody watches, whoever was       *)
(* subscribed and is well gets every frame in order and only those of its  *)
(* order, and a client that is well is dropped only when two topics had a  *)
(* message of one order: for any number of connections, topics and         *)
(* messages.                                                               *)
(***************************************************************************)
EXTENDS WsHub, SequenceTheorems, TLAPS

-----------------------------------------------------------------------------
(* What the operations on slices do to a list that has nobody twice.       *)

LEMMA ElementOf ==
  ASSUME NEW S, NEW s \in Seq(S), NEW x \in ToSet(s)
  PROVE  /\ x \in S
         /\ \E i \in 1..Len(s) : s[i] = x
BY DEF ToSet

LEMMA EmptyList ==
  /\ ToSet(<< >>) = {}
  /\ IsInjective(<< >>)
BY DEF ToSet, IsInjective

LEMMA Appended ==
  ASSUME NEW S, NEW s \in Seq(S), NEW x \in S
  PROVE  /\ Append(s, x) \in Seq(S)
         /\ ToSet(Append(s, x)) = ToSet(s) \cup {x}
         /\ IsInjective(s) /\ x \notin ToSet(s) => IsInjective(Append(s, x))
<1>1. /\ Append(s, x) \in Seq(S)
      /\ DOMAIN Append(s, x) = 1..(Len(s) + 1)
      /\ DOMAIN s = 1..Len(s)
      /\ Len(s) \in Nat
      /\ Append(s, x)[Len(s) + 1] = x
      /\ \A i \in 1..Len(s) : Append(s, x)[i] = s[i]
  OBVIOUS
<1>2. ToSet(Append(s, x)) = ToSet(s) \cup {x}
  <2>1. ASSUME NEW i \in 1..(Len(s) + 1)
        PROVE  i \in 1..Len(s) \/ i = Len(s) + 1
    BY <1>1
  <2>2. 1..Len(s) \subseteq 1..(Len(s) + 1) /\ Len(s) + 1 \in 1..(Len(s) + 1)
    BY <1>1
  <2> QED BY <1>1, <2>1, <2>2, Zenon DEF ToSet
<1>3. IsInjective(s) /\ x \notin ToSet(s) => IsInjective(Append(s, x))
  BY <1>1 DEF IsInjective, ToSet
<1> QED BY <1>1, <1>2, <1>3

LEMMA HeadAndTail ==
  ASSUME NEW S, NEW s \in Seq(S), s # << >>
  PROVE  /\ Head(s) \in S
         /\ Tail(s) \in Seq(S)
         /\ Head(s) \in ToSet(s)
         /\ ToSet(Tail(s)) \subseteq ToSet(s)
         /\ ToSet(s) = ToSet(Tail(s)) \cup {Head(s)}
         /\ IsInjective(s) => IsInjective(Tail(s)) /\ Head(s) \notin ToSet(Tail(s))
<1>1. /\ Tail(s) \in Seq(S)
      /\ Len(s) \in Nat \ {0}
      /\ DOMAIN Tail(s) = 1..(Len(s) - 1)
      /\ DOMAIN s = 1..Len(s)
      /\ Head(s) = s[1]
      /\ \A i \in 1..(Len(s) - 1) : Tail(s)[i] = s[i + 1]
  OBVIOUS
<1>2. Head(s) \in S /\ Head(s) \in ToSet(s)
  BY <1>1 DEF ToSet
<1>3. ToSet(Tail(s)) \subseteq ToSet(s)
  <2> SUFFICES ASSUME NEW i \in 1..(Len(s) - 1)
               PROVE  Tail(s)[i] \in ToSet(s)
    BY <1>1 DEF ToSet
  <2>1. i + 1 \in 1..Len(s) /\ Tail(s)[i] = s[i + 1]
    BY <1>1
  <2> QED BY <2>1, <1>1 DEF ToSet
<1>4. ToSet(s) \subseteq ToSet(Tail(s)) \cup {Head(s)}
  <2> SUFFICES ASSUME NEW i \in 1..Len(s), s[i] # Head(s)
               PROVE  s[i] \in ToSet(Tail(s))
    BY <1>1 DEF ToSet
  <2>1. i - 1 \in 1..(Len(s) - 1)
    BY <1>1
  <2>2. Tail(s)[i - 1] = s[i]
    BY <1>1, <2>1
  <2> QED BY <2>1, <2>2, <1>1, Zenon DEF ToSet
<1>5. ASSUME IsInjective(s)
      PROVE  IsInjective(Tail(s)) /\ Head(s) \notin ToSet(Tail(s))
  <2>1. \A i, j \in 1..Len(s) : s[i] = s[j] => i = j
    BY <1>1, <1>5 DEF IsInjective
  <2>2. \A i \in 1..(Len(s) - 1) : i + 1 \in 1..Len(s) /\ i + 1 # 1
    BY <1>1
  <2>3. 1 \in 1..Len(s)
    BY <1>1
  <2>4. Head(s) \notin ToSet(Tail(s))
    BY <1>1, <2>1, <2>2, <2>3 DEF ToSet
  <2>5. ASSUME NEW i \in 1..(Len(s) - 1), NEW j \in 1..(Len(s) - 1),
               Tail(s)[i] = Tail(s)[j]
        PROVE  i = j
    <3>1. s[i + 1] = s[j + 1]
      BY <1>1, <2>5
    <3>2. i + 1 = j + 1
      BY <2>1, <2>2, <3>1
    <3> QED BY <3>2
  <2> QED BY <1>1, <2>4, <2>5 DEF IsInjective
<1> QED BY <1>1, <1>2, <1>3, <1>4, <1>5

LEMMA RemovedAt ==
  ASSUME NEW S, NEW s \in Seq(S), NEW i \in 1..Len(s)
  PROVE  /\ RemoveAt(s, i) \in Seq(S)
         /\ Len(RemoveAt(s, i)) = Len(s) - 1
         /\ \A j \in 1..(Len(s) - 1) :
              RemoveAt(s, i)[j] = IF j < i THEN s[j] ELSE s[j + 1]
<1> DEFINE a == SubSeq(s, 1, i - 1)
           b == SubSeq(s, i + 1, Len(s))
<1>1. /\ a \in Seq(S)
      /\ Len(a) = i - 1
      /\ \A j \in 1..(i - 1) : a[j] = s[j]
  OBVIOUS
<1>2. /\ b \in Seq(S)
      /\ Len(b) = Len(s) - i
      /\ \A j \in 1..(Len(s) - i) : b[j] = s[i + j]
  OBVIOUS
<1>3. RemoveAt(s, i) = a \o b
  BY DEF RemoveAt
<1> HIDE DEF a, b
<1>4. /\ a \o b \in Seq(S)
      /\ Len(a \o b) = Len(s) - 1
  <2>1. a \o b \in Seq(S)
    BY <1>1, <1>2
  <2>2. Len(a \o b) = Len(a) + Len(b)
    BY <1>1, <1>2, ConcatProperties
  <2>3. (i - 1) + (Len(s) - i) = Len(s) - 1
    OBVIOUS
  <2> QED BY <1>1, <1>2, <2>1, <2>2, <2>3
<1>5. ASSUME NEW j \in 1..(Len(s) - 1)
      PROVE  (a \o b)[j] = IF j < i THEN s[j] ELSE s[j + 1]
  <2>1. CASE j < i
    BY <2>1, <1>1, <1>2
  <2>2. CASE ~(j < i)
    <3>1. (a \o b)[j] = b[j - (i - 1)]
      BY <2>2, <1>1, <1>2
    <3>2. j - (i - 1) \in 1..(Len(s) - i) /\ i + (j - (i - 1)) = j + 1
      BY <2>2
    <3> QED BY <3>1, <3>2, <1>2, <2>2
  <2> QED BY <2>1, <2>2
<1> QED BY <1>3, <1>4, <1>5

LEMMA FirstRemoved ==
  ASSUME NEW S, NEW s \in Seq(S), NEW x, IsInjective(s)
  PROVE  /\ RemoveFirst(s, x) \in Seq(S)
         /\ IsInjective(RemoveFirst(s, x))
         /\ ToSet(RemoveFirst(s, x)) = ToSet(s) \ {x}
<1>0. DOMAIN s = 1..Len(s) /\ Len(s) \in Nat
  OBVIOUS
<1>1. CASE ~\E i \in 1..Len(s) : s[i] = x
  BY <1>1, <1>0 DEF RemoveFirst, ToSet
<1>2. CASE \E i \in 1..Len(s) : s[i] = x
  <2>1. PICK i \in 1..Len(s) : s[i] = x
    BY <1>2
  <2>2. {j \in 1..Len(s) : s[j] = x} = {i}
    BY <2>1, <1>0 DEF IsInjective
  <2>3. Min({i}) = i
    BY DEF Min
  <2>4. SelectInSeq(s, LAMBDA v : v = x) = i
    BY <2>2, <2>3 DEF SelectInSeq
  <2> DEFINE r == RemoveAt(s, i)
  <2>5. RemoveFirst(s, x) = r
    BY <1>2, <2>4 DEF RemoveFirst
  <2>6. /\ r \in Seq(S)
        /\ Len(r) = Len(s) - 1
        /\ \A j \in 1..(Len(s) - 1) : r[j] = IF j < i THEN s[j] ELSE s[j + 1]
    BY RemovedAt
  <2> HIDE DEF r
  <2>7. DOMAIN r = 1..(Len(s) - 1)
    BY <2>6
  <2>8. ASSUME NEW j \in 1..(Len(s) - 1)
        PROVE  /\ r[j] \in ToSet(s)
               /\ r[j] # x
    <3>1. /\ j \in 1..Len(s)
          /\ j + 1 \in 1..Len(s)
          /\ j < i => j # i
          /\ ~(j < i) => j + 1 # i
      BY <1>0, <2>1
    <3>2. \A k \in 1..Len(s) : s[k] = x => k = i
      BY <1>0, <2>1 DEF IsInjective
    <3>3. r[j] = IF j < i THEN s[j] ELSE s[j + 1]
      BY <2>6
    <3> QED BY <1>0, <3>1, <3>2, <3>3 DEF ToSet
  <2>9. ASSUME NEW j \in 1..Len(s), s[j] # x
        PROVE  s[j] \in ToSet(r)
    <3>1. CASE j < i
      BY <3>1, <2>6, <2>7 DEF ToSet
    <3>2. CASE ~(j < i)
      <4>1. j - 1 \in 1..(Len(s) - 1) /\ ~(j - 1 < i) /\ (j - 1) + 1 = j
        BY <3>2, <2>1, <2>9
      <4>2. r[j - 1] = s[j]
        BY <4>1, <2>6
      <4> QED BY <4>1, <4>2, <2>7 DEF ToSet
    <3> QED BY <3>1, <3>2
  <2>10. ToSet(r) = ToSet(s) \ {x}
    <3>1. ToSet(r) \subseteq ToSet(s) \ {x}
      BY <2>7, <2>8 DEF ToSet
    <3>2. ToSet(s) \ {x} \subseteq ToSet(r)
      BY <1>0, <2>9 DEF ToSet
    <3> QED BY <3>1, <3>2
  <2>11. IsInjective(r)
    <3> SUFFICES ASSUME NEW m \in 1..(Len(s) - 1), NEW n \in 1..(Len(s) - 1),
                        r[m] = r[n]
                 PROVE  m = n
      BY <2>7 DEF IsInjective
    <3> DEFINE at(j) == IF j < i THEN j ELSE j + 1
    <3>1. /\ at(m) \in 1..Len(s)
          /\ at(n) \in 1..Len(s)
          /\ at(m) = at(n) => m = n
      BY <1>0
    <3>2. r[m] = s[at(m)] /\ r[n] = s[at(n)]
      BY <2>6
    <3> HIDE DEF at
    <3>3. at(m) = at(n)
      BY <1>0, <3>1, <3>2 DEF IsInjective
    <3> QED BY <3>1, <3>3
  <2> QED BY <2>5, <2>6, <2>10, <2>11
<1> QED BY <1>1, <1>2

-----------------------------------------------------------------------------
(* The inductive invariant.  A connection that the hub has is watched by   *)
(* its goroutine, which only a registered connection has; and a client     *)
(* that a loop has still to write to has not got the loop's message yet.   *)

HubTyped ==
  /\ subscribers \in [Orders -> Seq(Conns)]
  /\ \A o \in Orders : \A c \in ToSet(subscribers[o]) : OrderOf[c] = o
  /\ state \in [Conns -> {"none", "open", "stalled", "broken", "closed"}]
  /\ reading \in [Conns -> BOOLEAN]

LoopsTyped ==
  /\ next \in [Topics -> Nat]
  /\ \A t \in Topics : next[t] <= Len(Feed[t])
  /\ conns \in [Topics -> Seq(Conns)]
  /\ writing \in [Topics -> Conns \cup {NoConn}]
  /\ frames \in [Conns -> Seq([topic : Topics, position : Nat])]
  /\ owed \in [Topics -> SUBSET Conns]

(* Only a connection that has been registered is read from or owed to.     *)
Registered ==
  \A c \in Conns : reading[c] \/ (\E t \in Topics : c \in owed[t])
                     => state[c] # "none"

(* A loop's copy is of a message that it has read, has nobody twice, and   *)
(* the loop writes to the first of it.                                     *)
CopyOK ==
  \A t \in Topics :
    /\ IsInjective(conns[t])
    /\ ToSet(conns[t]) \subseteq owed[t]
    /\ conns[t] # << >> => next[t] > 0
    /\ writing[t] # NoConn => conns[t] # << >> /\ writing[t] = Head(conns[t])

(* Frames are of messages that were read, and who is still in a loop's     *)
(* copy has not got the loop's message yet.                                *)
FramesOK ==
  \A c \in Conns : \A f \in ToSet(frames[c]) :
    /\ f.position \in 1..next[f.topic]
    /\ c \in ToSet(conns[f.topic]) => f.position < next[f.topic]

(* Two parts of FramesFollowFeed.                                          *)
Reached ==
  \A t \in Topics : \A c \in owed[t] :
    state[c] = "open" => c \in ToSet(conns[t]) \/ Frame(t) \in ToSet(frames[c])

InOrder ==
  \A c \in Conns : \A m, n \in DOMAIN frames[c] :
    m < n /\ frames[c][m].topic = frames[c][n].topic
      => frames[c][m].position < frames[c][n].position

HInv == /\ HubTyped
        /\ LoopsTyped
        /\ NobodyLeaked
        /\ Registered
        /\ CopyOK
        /\ FramesOK
        /\ Reached
        /\ InOrder

LEMMA WhoIsSubscribed ==
  \A c : c \in Subscribed <=> \E o \in Orders : c \in ToSet(subscribers[o])
BY DEF Subscribed

(* Only the list of c's own order can have c, so that is the one to clean. *)
LEMMA ListsWithout ==
  ASSUME HubTyped, NobodyLeaked, NEW c \in Conns
  PROVE  /\ Without(c) \in [Orders -> Seq(Conns)]
         /\ \A o \in Orders : /\ IsInjective(Without(c)[o])
                              /\ ToSet(Without(c)[o]) = ToSet(subscribers[o]) \ {c}
<1>1. OrderOf[c] \in Orders
  BY DEF Orders
<1>2. ASSUME NEW o \in Orders
      PROVE  /\ Without(c)[o] \in Seq(Conns)
             /\ IsInjective(Without(c)[o])
             /\ ToSet(Without(c)[o]) = ToSet(subscribers[o]) \ {c}
  <2>1. subscribers[o] \in Seq(Conns) /\ IsInjective(subscribers[o])
    BY DEF HubTyped, NobodyLeaked
  <2>2. CASE o = OrderOf[c]
    <3>1. Without(c)[o] = RemoveFirst(subscribers[o], c)
      BY <2>2 DEF Without, HubTyped
    <3> QED BY <2>1, <3>1, FirstRemoved
  <2>3. CASE o # OrderOf[c]
    <3>1. Without(c)[o] = subscribers[o]
      BY <2>3 DEF Without, HubTyped
    <3>2. c \notin ToSet(subscribers[o])
      BY <2>3 DEF HubTyped
    <3> QED BY <2>1, <3>1, <3>2
  <2> QED BY <2>2, <2>3
<1>3. Without(c) \in [Orders -> Seq(Conns)]
  <2>1. Without(c) = [o \in Orders |-> Without(c)[o]]
    BY DEF Without, HubTyped
  <2> QED BY <1>2, <2>1
<1> QED BY <1>2, <1>3

LEMMA FrameTyped ==
  ASSUME LoopsTyped, NEW c \in Conns, NEW f \in ToSet(frames[c])
  PROVE  f.topic \in Topics /\ f.position \in Nat
<1>1. frames[c] \in Seq([topic : Topics, position : Nat])
  BY DEF LoopsTyped
<1>2. f \in [topic : Topics, position : Nat]
  BY <1>1, ElementOf
<1> QED BY <1>2

LEMMA AtStart == Init => HInv
<1> SUFFICES ASSUME Init PROVE HInv
  OBVIOUS
<1>1. \A o \in Orders : subscribers[o] = << >>
  BY DEF Init
<1>2. \A t \in Topics : Feed[t] \in Seq(ToSet(Feed[t])) /\ Len(Feed[t]) \in Nat
  BY FeedAssumption
<1>3. HubTyped
  BY EmptyList DEF HubTyped, Init
<1>4. LoopsTyped
  BY <1>2 DEF LoopsTyped, Init
<1>5. NobodyLeaked
  BY <1>1, EmptyList, WhoIsSubscribed DEF NobodyLeaked
<1>6. Registered
  BY DEF Registered, Init
<1>7. CopyOK
  BY EmptyList DEF CopyOK, Init
<1>8. FramesOK
  BY EmptyList DEF FramesOK, Init
<1>9. Reached
  BY DEF Reached, Init
<1>10. InOrder
  BY DEF InOrder, Init
<1> QED BY <1>3, <1>4, <1>5, <1>6, <1>7, <1>8, <1>9, <1>10 DEF HInv

-----------------------------------------------------------------------------
(* The steps in which the hub changes and the loops do not.                *)

LEMMA ServePreserves ==
  ASSUME HInv, NEW c \in Conns, ServeWS(c)
  PROVE  HInv'
<1> USE DEF HInv, ServeWS
<1> DEFINE o == OrderOf[c]
<1>1. o \in Orders /\ subscribers[o] \in Seq(Conns)
  BY DEF HubTyped, Orders
<1>2. c \notin Subscribed
  BY DEF NobodyLeaked, Registered
<1>3. c \notin ToSet(subscribers[o])
  BY <1>1, <1>2, WhoIsSubscribed
<1>4. /\ subscribers'[o] = Append(subscribers[o], c)
      /\ subscribers' \in [Orders -> Seq(Conns)]
      /\ \A p \in Orders \ {o} : subscribers'[p] = subscribers[p]
  BY <1>1, Appended DEF HubTyped
<1>5. /\ ToSet(subscribers'[o]) = ToSet(subscribers[o]) \cup {c}
      /\ IsInjective(subscribers'[o])
  BY <1>1, <1>3, <1>4, Appended DEF NobodyLeaked
<1>6. HubTyped'
  <2>1. ASSUME NEW p \in Orders, NEW d \in ToSet(subscribers'[p])
        PROVE  OrderOf[d] = p
    BY <1>4, <1>5 DEF HubTyped
  <2>2. state' \in [Conns -> {"none", "open", "stalled", "broken", "closed"}]
    BY DEF HubTyped
  <2>3. reading' \in [Conns -> BOOLEAN]
    BY DEF HubTyped
  <2> QED BY <1>4, <2>1, <2>2, <2>3 DEF HubTyped, Orders
<1>7. NobodyLeaked'
  <2>1. ASSUME NEW d \in Conns, NEW p \in Orders, d \in ToSet(subscribers'[p])
        PROVE  reading'[d] /\ state'[d] # "closed"
    <3>1. CASE d = c
      BY <3>1 DEF HubTyped
    <3>2. CASE d # c
      <4>1. d \in Subscribed
        BY <2>1, <3>2, <1>4, <1>5, WhoIsSubscribed
      <4> QED BY <4>1, <3>2 DEF NobodyLeaked, HubTyped
    <3> QED BY <3>1, <3>2
  <2>2. \A d \in Subscribed' : /\ d \in Conns
                               /\ \E p \in Orders : d \in ToSet(subscribers'[p])
    <3> SUFFICES ASSUME NEW p \in Orders, NEW d \in ToSet(subscribers'[p])
                 PROVE  d \in Conns
      BY DEF Subscribed, Orders
    <3>1. subscribers'[p] \in Seq(Conns)
      BY <1>4
    <3> QED BY <3>1, ElementOf
  <2>3. \A p \in Orders : IsInjective(subscribers'[p])
    BY <1>4, <1>5 DEF NobodyLeaked
  <2> QED BY <2>1, <2>2, <2>3 DEF NobodyLeaked, Orders
<1>8. Registered'
  BY DEF Registered, HubTyped
<1>9. Reached'
  BY DEF Reached, Registered, Frame, HubTyped, LoopsTyped
<1>10. LoopsTyped' /\ CopyOK' /\ FramesOK' /\ InOrder'
  BY DEF LoopsTyped, CopyOK, FramesOK, InOrder
<1> QED BY <1>6, <1>7, <1>8, <1>9, <1>10

(* The steps that touch nothing but the sockets and the writes: no client  *)
(* gets well, is registered or is closed by them.                          *)
LEMMA SocketsOnly ==
  ASSUME HInv,
         UNCHANGED <<subscribers, reading, next, conns, frames, owed>>,
         state' \in [Conns -> {"none", "open", "stalled", "broken", "closed"}],
         writing' \in [Topics -> Conns \cup {NoConn}],
         \A c \in Conns : /\ state'[c] = "open" => state[c] = "open"
                          /\ state'[c] = "closed" => state[c] = "closed"
                          /\ state'[c] = "none" => state[c] = "none",
         \A t \in Topics : writing'[t] # NoConn
                             => conns[t] # << >> /\ writing'[t] = Head(conns[t])
  PROVE  HInv'
<1> USE DEF HInv
<1>1. HubTyped' /\ LoopsTyped'
  BY DEF HubTyped, LoopsTyped, Orders
<1>2. NobodyLeaked'
  <2>1. Subscribed' = Subscribed /\ \A c \in Subscribed : c \in Conns
    BY WhoIsSubscribed, ElementOf DEF Subscribed, Orders, HubTyped
  <2> QED BY <2>1 DEF NobodyLeaked, Orders
<1>3. Registered'
  BY DEF Registered
<1>4. CopyOK'
  BY DEF CopyOK
<1>5. Reached'
  BY DEF Reached, Frame, LoopsTyped
<1>6. FramesOK' /\ InOrder'
  BY DEF FramesOK, InOrder
<1> QED BY <1>1, <1>2, <1>3, <1>4, <1>5, <1>6

LEMMA SocketsPreserve ==
  ASSUME HInv, NEW c \in Conns, Stall(c) \/ Break(c)
  PROVE  HInv'
<1>1. /\ writing' = writing
      /\ UNCHANGED <<subscribers, reading, next, conns, frames, owed>>
  BY DEF Stall, Break
<1>2. state' \in [Conns -> {"none", "open", "stalled", "broken", "closed"}]
  BY DEF Stall, Break, HInv, HubTyped
<1>3. \A d \in Conns : /\ state'[d] = "open" => state[d] = "open"
                       /\ state'[d] = "closed" => state[d] = "closed"
                       /\ state'[d] = "none" => state[d] = "none"
  BY DEF Stall, Break, HInv, HubTyped
<1> QED BY <1>1, <1>2, <1>3, SocketsOnly DEF HInv, LoopsTyped, CopyOK

LEMMA WritesPreserve ==
  ASSUME HInv, NEW t \in Topics, BeginWrite(t) \/ WriteConcurrently(t)
  PROVE  HInv'
<1> DEFINE c == Head(conns[t])
<1>1. /\ conns[t] # << >>
      /\ writing' = [writing EXCEPT ![t] = c]
      /\ UNCHANGED <<subscribers, reading, next, conns, frames, owed>>
  BY DEF BeginWrite, WriteConcurrently, Collision
<1>2. c \in Conns
  BY <1>1, HeadAndTail DEF HInv, LoopsTyped
<1>3. \/ state' = state
      \/ state[c] \in {"open", "stalled"} /\ state' = [state EXCEPT ![c] = "broken"]
  BY DEF BeginWrite, WriteConcurrently
<1> HIDE DEF c
<1>4. state' \in [Conns -> {"none", "open", "stalled", "broken", "closed"}]
  BY <1>2, <1>3 DEF HInv, HubTyped
<1>5. \A d \in Conns : /\ state'[d] = "open" => state[d] = "open"
                       /\ state'[d] = "closed" => state[d] = "closed"
                       /\ state'[d] = "none" => state[d] = "none"
  BY <1>2, <1>3 DEF HInv, HubTyped
<1>6. writing' \in [Topics -> Conns \cup {NoConn}]
  BY <1>1, <1>2 DEF HInv, LoopsTyped
<1>7. \A u \in Topics : writing'[u] # NoConn
                          => conns[u] # << >> /\ writing'[u] = Head(conns[u])
  BY <1>1 DEF HInv, LoopsTyped, CopyOK, c
<1> QED BY <1>1, <1>4, <1>5, <1>6, <1>7, SocketsOnly

-----------------------------------------------------------------------------
(* The steps that remove a connection: its goroutine may have ended with   *)
(* them, and the others keep theirs.                                       *)

LEMMA RemovePreserves ==
  ASSUME HInv, NEW c \in Conns, remove(c), state[c] # "none",
         reading' \in {reading, [reading EXCEPT ![c] = FALSE]}
  PROVE  /\ HubTyped'
         /\ NobodyLeaked'
         /\ \A d \in Conns : /\ reading'[d] => reading[d]
                             /\ state'[d] = "none" => state[d] = "none"
                             /\ state'[d] = "open" => state[d] = "open" /\ d # c
<1> USE DEF HInv, remove
<1>1. /\ subscribers' \in [Orders -> Seq(Conns)]
      /\ \A o \in Orders : /\ IsInjective(subscribers'[o])
                           /\ ToSet(subscribers'[o]) = ToSet(subscribers[o]) \ {c}
  BY ListsWithout
<1>2. /\ state' = [state EXCEPT ![c] = "closed"]
      /\ state' \in [Conns -> {"none", "open", "stalled", "broken", "closed"}]
      /\ reading' \in [Conns -> BOOLEAN]
  BY DEF HubTyped
<1>3. HubTyped'
  BY <1>1, <1>2 DEF HubTyped, Orders
<1>4. NobodyLeaked'
  <2>1. ASSUME NEW o \in Orders, NEW d \in ToSet(subscribers'[o])
        PROVE  reading'[d] /\ state'[d] # "closed"
    <3>1. d \in Subscribed /\ d # c /\ d \in Conns
      BY <1>1, WhoIsSubscribed, ElementOf
    <3> QED BY <3>1, <1>2 DEF NobodyLeaked, HubTyped
  <2>2. \A d \in Subscribed' : \E o \in Orders : d \in ToSet(subscribers'[o])
    BY DEF Subscribed, Orders
  <2> QED BY <1>1, <2>1, <2>2 DEF NobodyLeaked, Orders
<1>5. \A d \in Conns : /\ reading'[d] => reading[d]
                       /\ state'[d] = "none" => state[d] = "none"
                       /\ state'[d] = "open" => state[d] = "open" /\ d # c
  BY <1>2 DEF HubTyped
<1> QED BY <1>3, <1>4, <1>5

LEMMA ReadFailsPreserves ==
  ASSUME HInv, NEW c \in Conns, ReadFails(c)
  PROVE  HInv'
<1> USE DEF HInv
<1>1. /\ remove(c)
      /\ state[c] # "none"
      /\ reading' = [reading EXCEPT ![c] = FALSE]
      /\ UNCHANGED <<next, conns, writing, frames, owed>>
  BY DEF ReadFails
<1>2. /\ HubTyped'
      /\ NobodyLeaked'
      /\ \A d \in Conns : /\ reading'[d] => reading[d]
                          /\ state'[d] = "none" => state[d] = "none"
                          /\ state'[d] = "open" => state[d] = "open" /\ d # c
  BY <1>1, RemovePreserves
<1>3. Registered'
  BY <1>1, <1>2 DEF Registered
<1>4. Reached'
  BY <1>1, <1>2 DEF Reached, Frame, LoopsTyped
<1>5. LoopsTyped' /\ CopyOK' /\ FramesOK' /\ InOrder'
  BY <1>1 DEF LoopsTyped, CopyOK, FramesOK, InOrder
<1> QED BY <1>2, <1>3, <1>4, <1>5

(* A loop is done with a connection that is not well or not any more.      *)
LEMMA AdvancePreserves ==
  ASSUME HInv, NEW t \in Topics, advance(t), conns[t] # << >>,
         UNCHANGED frames, HubTyped', NobodyLeaked',
         \A d \in Conns : /\ state'[d] = "none" => state[d] = "none"
                          /\ state'[d] = "open" => state[d] = "open"
                                                     /\ d # Head(conns[t])
  PROVE  HInv'
<1> USE DEF HInv
<1> DEFINE c == Head(conns[t])
<1>1. /\ conns[t] # << >>
      /\ conns' = [conns EXCEPT ![t] = Tail(@)]
      /\ writing' = [writing EXCEPT ![t] = NoConn]
      /\ UNCHANGED <<reading, next, frames, owed>>
  BY DEF advance
<1>2. /\ c \in Conns
      /\ Tail(conns[t]) \in Seq(Conns)
      /\ ToSet(Tail(conns[t])) \subseteq ToSet(conns[t])
      /\ ToSet(conns[t]) = ToSet(Tail(conns[t])) \cup {c}
      /\ IsInjective(Tail(conns[t]))
  BY <1>1, HeadAndTail DEF LoopsTyped, CopyOK
<1>3. /\ HubTyped'
      /\ NobodyLeaked'
      /\ \A d \in Conns : /\ state'[d] = "none" => state[d] = "none"
                          /\ state'[d] = "open" => state[d] = "open" /\ d # c
  OBVIOUS
<1> HIDE DEF c
<1>4. /\ conns'[t] = Tail(conns[t])
      /\ writing'[t] = NoConn
      /\ \A u \in Topics \ {t} : conns'[u] = conns[u] /\ writing'[u] = writing[u]
      /\ conns' \in [Topics -> Seq(Conns)]
      /\ writing' \in [Topics -> Conns \cup {NoConn}]
  BY <1>1, <1>2 DEF LoopsTyped
<1>5. \A u \in Topics : ToSet(conns'[u]) \subseteq ToSet(conns[u])
  BY <1>2, <1>4
<1>6. LoopsTyped'
  BY <1>1, <1>4 DEF LoopsTyped
<1>7. Registered'
  BY <1>1, <1>3 DEF Registered
<1>8. CopyOK'
  <2> SUFFICES ASSUME NEW u \in Topics
               PROVE  /\ IsInjective(conns'[u])
                      /\ ToSet(conns'[u]) \subseteq owed[u]
                      /\ conns'[u] # << >> => next[u] > 0
                      /\ writing'[u] # NoConn
                           => conns'[u] # << >> /\ writing'[u] = Head(conns'[u])
    BY <1>1 DEF CopyOK
  <2>1. CASE u = t
    BY <2>1, <1>1, <1>2, <1>4 DEF CopyOK
  <2>2. CASE u # t
    BY <2>2, <1>4 DEF CopyOK
  <2> QED BY <2>1, <2>2
<1>9. FramesOK'
  <2> SUFFICES ASSUME NEW d \in Conns, NEW f \in ToSet(frames[d])
               PROVE  /\ f.position \in 1..next[f.topic]
                      /\ d \in ToSet(conns'[f.topic]) => f.position < next[f.topic]
    BY <1>1 DEF FramesOK
  <2>1. f.topic \in Topics
    BY FrameTyped
  <2> QED BY <2>1, <1>5 DEF FramesOK
<1>10. Reached'
  <2> SUFFICES ASSUME NEW u \in Topics, NEW d \in owed[u], state'[d] = "open"
               PROVE  d \in ToSet(conns'[u]) \/ Frame(u)' \in ToSet(frames[d])
    BY <1>1 DEF Reached
  <2>1. d \in Conns /\ Frame(u)' = Frame(u)
    BY <1>1 DEF LoopsTyped, Frame
  <2>2. d # c /\ (d \in ToSet(conns[u]) \/ Frame(u) \in ToSet(frames[d]))
    BY <2>1, <1>3 DEF Reached
  <2>3. d \in ToSet(conns[u]) => d \in ToSet(conns'[u])
    <3>1. CASE u = t
      BY <2>2, <3>1, <1>2, <1>4
    <3>2. CASE u # t
      BY <3>2, <1>4
    <3> QED BY <3>1, <3>2
  <2> QED BY <2>1, <2>2, <2>3
<1>11. InOrder'
  BY <1>1 DEF InOrder
<1> QED BY <1>3, <1>6, <1>7, <1>8, <1>9, <1>10, <1>11

LEMMA WriteFailsPreserves ==
  ASSUME HInv, NEW t \in Topics, WriteFails(t)
  PROVE  HInv'
<1> DEFINE c == Head(conns[t])
<1>1. /\ conns[t] # << >>
      /\ state[c] # "none"
      /\ remove(c)
      /\ advance(t)
      /\ UNCHANGED <<reading, frames>>
  BY DEF WriteFails, advance
<1>2. c \in Conns
  BY <1>1, HeadAndTail DEF HInv, LoopsTyped
<1> HIDE DEF c
<1>3. /\ HubTyped'
      /\ NobodyLeaked'
      /\ \A d \in Conns : /\ state'[d] = "none" => state[d] = "none"
                          /\ state'[d] = "open" => state[d] = "open" /\ d # c
  BY <1>1, <1>2, RemovePreserves
<1> QED BY <1>1, <1>3, AdvancePreserves DEF c

LEMMA WriteVanishesPreserves ==
  ASSUME HInv, NEW t \in Topics, WriteVanishes(t)
  PROVE  HInv'
<1>1. /\ conns[t] # << >>
      /\ state[Head(conns[t])] = "broken"
      /\ advance(t)
      /\ UNCHANGED <<subscribers, state, reading, frames>>
  BY DEF WriteVanishes, advance, HInv, CopyOK
<1>2. HubTyped' /\ NobodyLeaked'
  BY <1>1 DEF HInv, HubTyped, NobodyLeaked, Subscribed, Orders
<1>3. \A d \in Conns : /\ state'[d] = "none" => state[d] = "none"
                       /\ state'[d] = "open" => state[d] = "open" /\ d # Head(conns[t])
  BY <1>1
<1> QED BY <1>1, <1>2, <1>3, AdvancePreserves

-----------------------------------------------------------------------------
(* The steps of a loop with the feed: it takes a message, and a client     *)
(* receives the frame.                                                     *)

LEMMA BroadcastPreserves ==
  ASSUME HInv, NEW t \in Topics, Broadcast(t)
  PROVE  HInv'
<1> USE DEF HInv
<1>1. /\ conns[t] = << >>
      /\ next[t] < Len(Feed[t])
      /\ next' = [next EXCEPT ![t] = @ + 1]
      /\ owed' = [owed EXCEPT ![t] = ToSet(conns'[t])]
      /\ UNCHANGED <<subscribers, state, reading, writing, frames>>
  BY DEF Broadcast
<1>2. PICK copy \in Seq(Conns) :
        /\ conns' = [conns EXCEPT ![t] = copy]
        /\ copy = << >> \/ \E o \in Orders : copy = subscribers[o]
  <2> DEFINE o == Feed[t][next[t] + 1]
  <2>1. conns' = [conns EXCEPT ![t] = IF o \in Orders THEN subscribers[o] ELSE << >>]
    BY DEF Broadcast
  <2> HIDE DEF o
  <2>2. CASE o \in Orders
    BY <2>1, <2>2 DEF HubTyped
  <2>3. CASE o \notin Orders
    <3>1. << >> \in Seq(Conns)
      OBVIOUS
    <3>2. conns' = [conns EXCEPT ![t] = << >>]
      BY <2>1, <2>3
    <3> QED BY <3>1, <3>2
  <2> QED BY <2>2, <2>3
<1>3. /\ IsInjective(copy)
      /\ ToSet(copy) \subseteq Subscribed
      /\ ToSet(copy) \subseteq Conns
  <2>1. CASE copy = << >>
    BY <2>1, EmptyList
  <2>2. CASE \E o \in Orders : copy = subscribers[o]
    BY <2>2, ElementOf, WhoIsSubscribed DEF NobodyLeaked
  <2> QED BY <1>2, <2>1, <2>2
<1>4. /\ conns' \in [Topics -> Seq(Conns)]
      /\ conns'[t] = copy
      /\ \A u \in Topics \ {t} : conns'[u] = conns[u]
  BY <1>2 DEF LoopsTyped
<1>5. /\ owed' \in [Topics -> SUBSET Conns]
      /\ owed'[t] = ToSet(copy)
      /\ \A u \in Topics \ {t} : owed'[u] = owed[u]
  BY <1>1, <1>3, <1>4 DEF LoopsTyped
<1>6. /\ next' \in [Topics -> Nat]
      /\ next'[t] = next[t] + 1
      /\ \A u \in Topics \ {t} : next'[u] = next[u]
  BY <1>1 DEF LoopsTyped
<1>7. HubTyped' /\ NobodyLeaked'
  BY <1>1 DEF HubTyped, NobodyLeaked, Subscribed, Orders
<1>8. LoopsTyped'
  <2>1. Len(Feed[t]) \in Nat
    BY FeedAssumption
  <2>2. \A u \in Topics : next'[u] <= Len(Feed[u])
    BY <2>1, <1>1, <1>6 DEF LoopsTyped
  <2> QED BY <2>2, <1>1, <1>4, <1>5, <1>6 DEF LoopsTyped
<1>9. Registered'
  <2>1. ASSUME NEW c \in Conns, c \in ToSet(copy)
        PROVE  state[c] # "none"
    BY <2>1, <1>3 DEF NobodyLeaked, Registered
  <2> QED BY <2>1, <1>1, <1>5 DEF Registered
<1>10. CopyOK'
  <2> SUFFICES ASSUME NEW u \in Topics
               PROVE  /\ IsInjective(conns'[u])
                      /\ ToSet(conns'[u]) \subseteq owed'[u]
                      /\ conns'[u] # << >> => next'[u] > 0
                      /\ writing[u] # NoConn
                           => conns'[u] # << >> /\ writing[u] = Head(conns'[u])
    BY <1>1 DEF CopyOK
  <2>1. CASE u = t
    <3>1. next[t] + 1 > 0 /\ writing[t] = NoConn
      BY <1>1 DEF LoopsTyped, CopyOK
    <3> QED BY <3>1, <2>1, <1>3, <1>4, <1>5, <1>6
  <2>2. CASE u # t
    BY <2>2, <1>4, <1>5, <1>6 DEF CopyOK
  <2> QED BY <2>1, <2>2
<1>11. FramesOK'
  <2> SUFFICES ASSUME NEW c \in Conns, NEW f \in ToSet(frames[c])
               PROVE  /\ f.position \in 1..next'[f.topic]
                      /\ c \in ToSet(conns'[f.topic]) => f.position < next'[f.topic]
    BY <1>1 DEF FramesOK
  <2>1. /\ f.topic \in Topics
        /\ f.position \in 1..next[f.topic]
        /\ c \in ToSet(conns[f.topic]) => f.position < next[f.topic]
        /\ next[f.topic] \in Nat
    BY FrameTyped DEF FramesOK, LoopsTyped
  <2>2. CASE f.topic = t
    BY <2>1, <2>2, <1>6
  <2>3. CASE f.topic # t
    BY <2>1, <2>3, <1>4, <1>6
  <2> QED BY <2>2, <2>3
<1>12. Reached'
  <2> SUFFICES ASSUME NEW u \in Topics, NEW c \in owed'[u], state[c] = "open"
               PROVE  c \in ToSet(conns'[u]) \/ Frame(u)' \in ToSet(frames[c])
    BY <1>1 DEF Reached
  <2>1. CASE u = t
    BY <2>1, <1>4, <1>5
  <2>2. CASE u # t
    BY <2>2, <1>4, <1>5, <1>6 DEF Reached, Frame
  <2> QED BY <2>1, <2>2
<1>13. InOrder'
  BY <1>1 DEF InOrder
<1> QED BY <1>7, <1>8, <1>9, <1>10, <1>11, <1>12, <1>13

LEMMA EndWritePreserves ==
  ASSUME HInv, NEW t \in Topics, EndWrite(t)
  PROVE  HInv'
<1> USE DEF HInv
<1> DEFINE c == Head(conns[t])
           new == Frame(t)
<1>1. /\ conns[t] # << >>
      /\ frames' = [frames EXCEPT ![c] = Append(@, new)]
      /\ conns' = [conns EXCEPT ![t] = Tail(@)]
      /\ writing' = [writing EXCEPT ![t] = NoConn]
      /\ UNCHANGED <<subscribers, state, reading, next, owed>>
  BY DEF EndWrite, advance, CopyOK
<1>2. /\ c \in Conns
      /\ Tail(conns[t]) \in Seq(Conns)
      /\ ToSet(Tail(conns[t])) \subseteq ToSet(conns[t])
      /\ ToSet(conns[t]) = ToSet(Tail(conns[t])) \cup {c}
      /\ IsInjective(Tail(conns[t]))
      /\ c \notin ToSet(Tail(conns[t]))
  BY <1>1, HeadAndTail DEF LoopsTyped, CopyOK
<1>3. /\ new.topic = t
      /\ new.position = next[t]
      /\ next[t] \in Nat \ {0}
      /\ new \in [topic : Topics, position : Nat]
  BY <1>1 DEF Frame, LoopsTyped, CopyOK
<1> HIDE DEF c, new
<1>4. /\ conns'[t] = Tail(conns[t])
      /\ writing'[t] = NoConn
      /\ \A u \in Topics \ {t} : conns'[u] = conns[u] /\ writing'[u] = writing[u]
      /\ conns' \in [Topics -> Seq(Conns)]
      /\ writing' \in [Topics -> Conns \cup {NoConn}]
  BY <1>1, <1>2 DEF LoopsTyped
<1>5. \A u \in Topics : ToSet(conns'[u]) \subseteq ToSet(conns[u])
  BY <1>2, <1>4
<1>6. /\ frames[c] \in Seq([topic : Topics, position : Nat])
      /\ frames'[c] = Append(frames[c], new)
      /\ \A d \in Conns \ {c} : frames'[d] = frames[d]
      /\ frames' \in [Conns -> Seq([topic : Topics, position : Nat])]
  BY <1>1, <1>2, <1>3, Appended DEF LoopsTyped
<1>7. /\ ToSet(frames'[c]) = ToSet(frames[c]) \cup {new}
      /\ \A d \in Conns : ToSet(frames[d]) \subseteq ToSet(frames'[d])
  <2>1. ToSet(Append(frames[c], new)) = ToSet(frames[c]) \cup {new}
    <3> DEFINE F == [topic : Topics, position : Nat]
    <3>1. frames[c] \in Seq(F) /\ new \in F
      BY <1>3, <1>6
    <3> HIDE DEF F
    <3> QED BY <3>1, Appended
  <2>2. \A d \in Conns \ {c} : ToSet(frames'[d]) = ToSet(frames[d])
    BY <1>6
  <2>3. ToSet(frames'[c]) = ToSet(frames[c]) \cup {new}
    BY <2>1, <1>6
  <2> QED BY <2>2, <2>3
<1>8. \A f \in ToSet(frames[c]) : f.topic = t => f.position < next[t]
  BY <1>2 DEF FramesOK
<1>9. HubTyped' /\ NobodyLeaked'
  BY <1>1 DEF HubTyped, NobodyLeaked, Subscribed, Orders
<1>10. LoopsTyped'
  BY <1>1, <1>4, <1>6 DEF LoopsTyped
<1>11. Registered'
  BY <1>1 DEF Registered
<1>12. CopyOK'
  <2> SUFFICES ASSUME NEW u \in Topics
               PROVE  /\ IsInjective(conns'[u])
                      /\ ToSet(conns'[u]) \subseteq owed[u]
                      /\ conns'[u] # << >> => next[u] > 0
                      /\ writing'[u] # NoConn
                           => conns'[u] # << >> /\ writing'[u] = Head(conns'[u])
    BY <1>1 DEF CopyOK
  <2>1. CASE u = t
    BY <2>1, <1>1, <1>2, <1>4 DEF CopyOK
  <2>2. CASE u # t
    BY <2>2, <1>4 DEF CopyOK
  <2> QED BY <2>1, <2>2
<1>13. FramesOK'
  <2> SUFFICES ASSUME NEW d \in Conns, NEW f \in ToSet(frames'[d])
               PROVE  /\ f.position \in 1..next[f.topic]
                      /\ d \in ToSet(conns'[f.topic]) => f.position < next[f.topic]
    BY <1>1 DEF FramesOK
  <2>1. CASE f \in ToSet(frames[d])
    <3>1. f.topic \in Topics
      BY <2>1, FrameTyped
    <3> QED BY <2>1, <3>1, <1>5 DEF FramesOK
  <2>2. CASE f \notin ToSet(frames[d])
    <3>1. d = c /\ f = new
      BY <2>2, <1>6, <1>7
    <3> QED BY <3>1, <1>2, <1>3, <1>4
  <2> QED BY <2>1, <2>2
<1>14. Reached'
  <2> SUFFICES ASSUME NEW u \in Topics, NEW d \in owed[u], state[d] = "open"
               PROVE  d \in ToSet(conns'[u]) \/ Frame(u)' \in ToSet(frames'[d])
    BY <1>1 DEF Reached
  <2>1. d \in Conns /\ Frame(u)' = Frame(u)
    BY <1>1 DEF LoopsTyped, Frame
  <2>2. d \in ToSet(conns[u]) \/ Frame(u) \in ToSet(frames[d])
    BY DEF Reached
  <2>3. CASE u = t /\ d = c
    BY <2>1, <2>3, <1>7 DEF new
  <2>4. CASE u = t /\ d # c
    BY <2>1, <2>2, <2>4, <1>2, <1>4, <1>7
  <2>5. CASE u # t
    BY <2>1, <2>2, <2>5, <1>4, <1>7
  <2> QED BY <2>3, <2>4, <2>5
<1>15. InOrder'
  <2> SUFFICES ASSUME NEW d \in Conns,
                      NEW m \in DOMAIN frames'[d], NEW n \in DOMAIN frames'[d], m < n,
                      frames'[d][m].topic = frames'[d][n].topic
               PROVE  frames'[d][m].position < frames'[d][n].position
    BY DEF InOrder
  <2>1. CASE d # c
    BY <2>1, <1>6 DEF InOrder
  <2>2. CASE d = c
    <3>1. /\ Len(frames[c]) \in Nat
          /\ DOMAIN frames[c] = 1..Len(frames[c])
          /\ DOMAIN frames'[c] = 1..(Len(frames[c]) + 1)
          /\ frames'[c][Len(frames[c]) + 1] = new
          /\ \A i \in 1..Len(frames[c]) : frames'[c][i] = frames[c][i]
      BY <1>3, <1>6
    <3>2. m \in 1..Len(frames[c]) /\ frames'[c][m] = frames[c][m]
      BY <2>2, <3>1
    <3>3. CASE n \in 1..Len(frames[c])
      <4>1. frames'[c][n] = frames[c][n]
        BY <3>1, <3>3
      <4> QED BY <2>2, <3>1, <3>2, <3>3, <4>1, <1>2 DEF InOrder
    <3>4. CASE n = Len(frames[c]) + 1
      <4>1. frames[c][m] \in ToSet(frames[c])
        BY <3>1, <3>2 DEF ToSet
      <4>2. frames'[c][n] = new
        BY <3>1, <3>4
      <4> QED BY <2>2, <3>2, <4>1, <4>2, <1>3, <1>8
    <3> QED BY <2>2, <3>1, <3>3, <3>4
  <2> QED BY <2>1, <2>2
<1> QED BY <1>9, <1>10, <1>11, <1>12, <1>13, <1>14, <1>15

-----------------------------------------------------------------------------
(* The restart forgets the subscribers and the copies; nobody is well.     *)

LEMMA PanicPreserves ==
  ASSUME HInv, NEW t \in Topics, Panic(t)
  PROVE  HInv'
<1> USE DEF HInv
<1>1. /\ subscribers' = [o \in Orders |-> << >>]
      /\ state' = [c \in Conns |-> IF state[c] = "none" THEN "none" ELSE "closed"]
      /\ reading' = [c \in Conns |-> FALSE]
      /\ conns' = [u \in Topics |-> << >>]
      /\ writing' = [u \in Topics |-> NoConn]
      /\ UNCHANGED <<next, frames, owed>>
  BY DEF Panic
<1>2. HubTyped'
  BY <1>1, EmptyList DEF HubTyped, Orders
<1>3. LoopsTyped'
  <2>1. \A u \in Topics : conns'[u] \in Seq(Conns)
    BY <1>1
  <2> QED BY <2>1, <1>1 DEF LoopsTyped
<1>4. NobodyLeaked'
  BY <1>1, EmptyList DEF NobodyLeaked, Subscribed, Orders
<1>5. Registered'
  BY <1>1 DEF Registered, HubTyped
<1>6. CopyOK'
  BY <1>1, EmptyList DEF CopyOK
<1>7. FramesOK'
  <2> SUFFICES ASSUME NEW c \in Conns, NEW f \in ToSet(frames[c])
               PROVE  /\ f.position \in 1..next[f.topic]
                      /\ c \in ToSet(conns'[f.topic]) => f.position < next[f.topic]
    BY <1>1 DEF FramesOK
  <2>1. f.topic \in Topics
    BY FrameTyped
  <2> QED BY <2>1, <1>1, EmptyList DEF FramesOK
<1>8. Reached'
  BY <1>1 DEF Reached, LoopsTyped
<1>9. InOrder'
  BY <1>1 DEF InOrder
<1> QED BY <1>2, <1>3, <1>4, <1>5, <1>6, <1>7, <1>8, <1>9

-----------------------------------------------------------------------------
LEMMA StepPreserves == HInv /\ [Next]_vars => HInv'
<1> SUFFICES ASSUME HInv, [Next]_vars PROVE HInv'
  OBVIOUS
<1>1. ASSUME NEW c \in Conns, ServeWS(c)
      PROVE  HInv'
  BY <1>1, ServePreserves
<1>2. ASSUME NEW c \in Conns, Stall(c) \/ Break(c)
      PROVE  HInv'
  BY <1>2, SocketsPreserve
<1>3. ASSUME NEW c \in Conns, ReadFails(c)
      PROVE  HInv'
  BY <1>3, ReadFailsPreserves
<1>4. ASSUME NEW t \in Topics, Broadcast(t)
      PROVE  HInv'
  BY <1>4, BroadcastPreserves
<1>5. ASSUME NEW t \in Topics, BeginWrite(t) \/ WriteConcurrently(t)
      PROVE  HInv'
  BY <1>5, WritesPreserve
<1>6. ASSUME NEW t \in Topics, EndWrite(t)
      PROVE  HInv'
  BY <1>6, EndWritePreserves
<1>7. ASSUME NEW t \in Topics, WriteFails(t)
      PROVE  HInv'
  BY <1>7, WriteFailsPreserves
<1>8. ASSUME NEW t \in Topics, Panic(t)
      PROVE  HInv'
  BY <1>8, PanicPreserves
<1>9. ASSUME NEW t \in Topics, WriteVanishes(t)
      PROVE  HInv'
  BY <1>9, WriteVanishesPreserves
<1>10. CASE UNCHANGED vars
  <2> USE <1>10 DEF vars, HInv
  <2>1. HubTyped' /\ LoopsTyped'
    BY DEF HubTyped, LoopsTyped, Orders
  <2>2. NobodyLeaked'
    <3>1. Subscribed' = Subscribed
      BY DEF Subscribed, Orders
    <3> QED BY <3>1 DEF NobodyLeaked, Orders
  <2>3. Registered' /\ CopyOK' /\ FramesOK'
    BY DEF Registered, CopyOK, FramesOK
  <2>4. Reached' /\ InOrder'
    BY DEF Reached, Frame, InOrder
  <2> QED BY <2>1, <2>2, <2>3, <2>4
<1> QED BY <1>1, <1>2, <1>3, <1>4, <1>5, <1>6, <1>7, <1>8, <1>9, <1>10 DEF Next, loop

LEMMA Invariance == Spec => []HInv
BY AtStart, StepPreserves, PTL DEF Spec

-----------------------------------------------------------------------------
(* Whose message it is.  A loop's copy and a client's frames are of the    *)
(* order that the client asked for; and a loop whose write ran into that   *)
(* of another topic's loop did so because that topic had a message of the  *)
(* same order.                                                             *)

OwnCopies ==
  \A t \in Topics : \A c \in ToSet(conns[t]) : Feed[t][next[t]] = OrderOf[c]

OwnFrames ==
  \A c \in Conns : \A f \in ToSet(frames[c]) :
    Feed[f.topic][f.position] = OrderOf[c]

HadMessageFor(u, c) == \E n \in 1..next[u] : Feed[u][n] = OrderOf[c]

MetAnother ==
  /\ overlap \subseteq Topics
  /\ \A t \in overlap :
       writing[t] # NoConn /\ \E u \in Topics \ {t} : HadMessageFor(u, writing[t])

OwnInv == OwnCopies /\ OwnFrames /\ MetAnother

(* A loop at a connection has a message of the connection's order.         *)
LEMMA AtSubscriber ==
  ASSUME HInv, OwnInv, NEW t \in Topics, conns[t] # << >>
  PROVE  /\ Head(conns[t]) \in Conns
         /\ next[t] \in 1..next[t]
         /\ Feed[t][next[t]] = OrderOf[Head(conns[t])]
<1>1. Head(conns[t]) \in Conns /\ Head(conns[t]) \in ToSet(conns[t])
  BY HeadAndTail DEF HInv, LoopsTyped
<1>2. next[t] \in Nat /\ next[t] > 0
  BY DEF HInv, LoopsTyped, CopyOK
<1> QED BY <1>1, <1>2 DEF OwnInv, OwnCopies

LEMMA OwnAtStart == Init => OwnInv
BY EmptyList DEF Init, OwnInv, OwnCopies, OwnFrames, MetAnother

LEMMA AdvanceKeepsOwn ==
  ASSUME HInv, OwnInv, NEW t \in Topics, conns[t] # << >>, advance(t)
  PROVE  OwnCopies' /\ MetAnother'
<1>1. /\ conns' = [conns EXCEPT ![t] = Tail(@)]
      /\ writing' = [writing EXCEPT ![t] = NoConn]
      /\ overlap' = overlap \ {t}
      /\ UNCHANGED next
  BY DEF advance
<1>2. OwnCopies'
  <2>1. ToSet(Tail(conns[t])) \subseteq ToSet(conns[t])
    BY HeadAndTail DEF HInv, LoopsTyped
  <2>2. \A u \in Topics : ToSet(conns'[u]) \subseteq ToSet(conns[u])
    BY <1>1, <2>1 DEF HInv, LoopsTyped
  <2> QED BY <1>1, <2>2 DEF OwnInv, OwnCopies
<1>3. MetAnother'
  <2>1. \A u \in overlap' : u \in overlap /\ u \in Topics /\ writing'[u] = writing[u]
    BY <1>1 DEF OwnInv, MetAnother, HInv, LoopsTyped
  <2> QED BY <1>1, <2>1 DEF OwnInv, MetAnother, HadMessageFor
<1> QED BY <1>2, <1>3

LEMMA ConcurrentKeepsOwn ==
  ASSUME HInv, OwnInv, NEW t \in Topics, WriteConcurrently(t)
  PROVE  MetAnother'
<1> DEFINE c == Head(conns[t])
<1>1. /\ conns[t] # << >>
      /\ writing[t] = NoConn
      /\ writing' = [writing EXCEPT ![t] = c]
      /\ overlap' = overlap \cup {t} \cup {u \in Topics : writing[u] = c}
      /\ UNCHANGED next
  BY DEF WriteConcurrently, Collision
<1>2. PICK u \in Topics \ {t} : writing[u] = c
  BY DEF WriteConcurrently, Collision, Busy
<1>3. c \in Conns /\ HadMessageFor(t, c)
  BY <1>1, AtSubscriber DEF HadMessageFor
<1>4. c # NoConn
  BY <1>3, ConnsAssumption
<1>5. HadMessageFor(u, c)
  <2>1. conns[u] # << >> /\ Head(conns[u]) = c
    BY <1>2, <1>4 DEF HInv, CopyOK
  <2> QED BY <2>1, AtSubscriber DEF HadMessageFor
<1> HIDE DEF c
<1>6. \A v \in Topics : v # t => writing'[v] = writing[v]
  BY <1>1 DEF HInv, LoopsTyped
<1>7. writing'[t] = c
  BY <1>1 DEF HInv, LoopsTyped
<1>8. ASSUME NEW v \in overlap'
      PROVE  /\ v \in Topics
             /\ writing'[v] # NoConn
             /\ \E w \in Topics \ {v} : HadMessageFor(w, writing'[v])
  <2>1. CASE v = t
    BY <1>2, <1>4, <1>5, <1>7, <2>1
  <2>2. CASE v # t /\ v \in Topics /\ writing[v] = c
    BY <1>3, <1>4, <1>6, <2>2
  <2>3. CASE v # t /\ v \in overlap
    BY <1>6, <2>3 DEF OwnInv, MetAnother
  <2> QED BY <1>1, <1>8, <2>1, <2>2, <2>3
<1> QED BY <1>1, <1>8 DEF MetAnother, HadMessageFor

LEMMA BroadcastKeepsOwn ==
  ASSUME HInv, OwnInv, NEW t \in Topics, Broadcast(t)
  PROVE  OwnCopies' /\ MetAnother'
<1> DEFINE o == Feed[t][next[t] + 1]
           copy == IF o \in Orders THEN subscribers[o] ELSE << >>
<1>1. /\ conns' = [conns EXCEPT ![t] = copy]
      /\ next' = [next EXCEPT ![t] = @ + 1]
      /\ UNCHANGED <<writing, overlap>>
  BY DEF Broadcast
<1>2. \A c \in ToSet(copy) : OrderOf[c] = o
  BY EmptyList DEF HInv, HubTyped
<1> HIDE DEF copy
<1>3. OwnCopies'
  <2> SUFFICES ASSUME NEW u \in Topics, NEW c \in ToSet(conns'[u])
               PROVE  Feed[u][next'[u]] = OrderOf[c]
    BY DEF OwnCopies
  <2>1. CASE u = t
    BY <1>1, <1>2, <2>1 DEF HInv, LoopsTyped
  <2>2. CASE u # t
    BY <1>1, <2>2 DEF HInv, LoopsTyped, OwnInv, OwnCopies
  <2> QED BY <2>1, <2>2
<1>4. MetAnother'
  <2>1. \A u \in Topics : 1..next[u] \subseteq 1..next'[u]
    BY <1>1 DEF HInv, LoopsTyped
  <2> QED BY <1>1, <2>1 DEF OwnInv, MetAnother, HadMessageFor
<1> QED BY <1>3, <1>4

LEMMA EndWriteKeepsFrames ==
  ASSUME HInv, OwnInv, NEW t \in Topics, EndWrite(t)
  PROVE  OwnFrames'
<1> DEFINE c == Head(conns[t])
           new == Frame(t)
<1>1. conns[t] # << >> /\ frames' = [frames EXCEPT ![c] = Append(@, new)]
  BY DEF EndWrite, HInv, CopyOK
<1>2. c \in Conns /\ Feed[new.topic][new.position] = OrderOf[c]
  BY <1>1, AtSubscriber DEF Frame
<1>3. new \in [topic : Topics, position : Nat]
  BY DEF Frame, HInv, LoopsTyped
<1> HIDE DEF c, new
<1>4. \A d \in Conns : ToSet(frames'[d]) \subseteq ToSet(frames[d]) \cup {new}
  <2> DEFINE F == [topic : Topics, position : Nat]
  <2>1. frames[c] \in Seq(F) /\ new \in F
    BY <1>2, <1>3 DEF HInv, LoopsTyped
  <2> HIDE DEF F
  <2>2. ToSet(Append(frames[c], new)) = ToSet(frames[c]) \cup {new}
    BY <2>1, Appended
  <2> QED BY <1>1, <1>2, <2>2 DEF HInv, LoopsTyped
<1>5. \A d \in Conns : d # c => frames'[d] = frames[d]
  BY <1>1 DEF HInv, LoopsTyped
<1> QED BY <1>2, <1>4, <1>5 DEF OwnFrames, OwnInv

LEMMA OwnStep == HInv /\ OwnInv /\ [Next]_vars => OwnInv'
<1> SUFFICES ASSUME HInv, OwnInv, [Next]_vars PROVE OwnInv'
  OBVIOUS
<1>1. ASSUME UNCHANGED <<next, conns, writing, frames, overlap>>
      PROVE  OwnInv'
  BY <1>1 DEF OwnInv, OwnCopies, OwnFrames, MetAnother, HadMessageFor
<1>2. ASSUME NEW c \in Conns, ServeWS(c) \/ Stall(c) \/ Break(c) \/ ReadFails(c)
      PROVE  OwnInv'
  BY <1>1, <1>2 DEF ServeWS, Stall, Break, ReadFails
<1>3. ASSUME UNCHANGED frames PROVE OwnFrames'
  BY <1>3 DEF OwnInv, OwnFrames
<1>4. ASSUME NEW t \in Topics, Broadcast(t) PROVE OwnInv'
  BY <1>3, <1>4, BroadcastKeepsOwn DEF Broadcast, OwnInv
<1>5. ASSUME NEW t \in Topics, BeginWrite(t) PROVE OwnInv'
  <2>1. /\ writing[t] = NoConn
        /\ \A u \in Topics : u # t => writing'[u] = writing[u]
        /\ UNCHANGED <<next, conns, frames, overlap>>
    BY <1>5 DEF BeginWrite, HInv, LoopsTyped
  <2>2. MetAnother'
    BY <2>1 DEF OwnInv, MetAnother, HadMessageFor
  <2>3. OwnCopies'
    BY <2>1 DEF OwnInv, OwnCopies
  <2> QED BY <1>3, <2>1, <2>2, <2>3 DEF OwnInv
<1>6. ASSUME NEW t \in Topics, EndWrite(t) PROVE OwnInv'
  <2>1. conns[t] # << >> /\ advance(t)
    BY <1>6 DEF EndWrite, HInv, CopyOK
  <2> QED BY <1>6, <2>1, AdvanceKeepsOwn, EndWriteKeepsFrames DEF OwnInv
<1>7. ASSUME NEW t \in Topics, WriteVanishes(t) \/ WriteFails(t) PROVE OwnInv'
  <2>1. conns[t] # << >> /\ advance(t) /\ UNCHANGED frames
    BY <1>7 DEF WriteVanishes, WriteFails, HInv, CopyOK
  <2> QED BY <1>3, <2>1, AdvanceKeepsOwn DEF OwnInv
<1>8. ASSUME NEW t \in Topics, WriteConcurrently(t) PROVE OwnInv'
  <2>1. UNCHANGED <<next, conns, frames>>
    BY <1>8 DEF WriteConcurrently
  <2>2. OwnCopies'
    BY <2>1 DEF OwnInv, OwnCopies
  <2> QED BY <1>3, <1>8, <2>1, <2>2, ConcurrentKeepsOwn DEF OwnInv
<1>9. ASSUME NEW t \in Topics, Panic(t) PROVE OwnInv'
  <2>1. conns' = [u \in Topics |-> << >>] /\ overlap' = {} /\ UNCHANGED frames
    BY <1>9 DEF Panic
  <2> QED BY <1>3, <2>1, EmptyList DEF OwnInv, OwnCopies, MetAnother
<1>10. CASE UNCHANGED vars
  BY <1>1, <1>10 DEF vars
<1> QED BY <1>2, <1>4, <1>5, <1>6, <1>7, <1>8, <1>9, <1>10 DEF Next, loop

LEMMA OwnInvariance == Spec => [](HInv /\ OwnInv)
<1>1. Init => HInv /\ OwnInv
  BY AtStart, OwnAtStart
<1>2. (HInv /\ OwnInv) /\ [Next]_vars => (HInv /\ OwnInv)'
  BY StepPreserves, OwnStep
<1> QED BY <1>1, <1>2, PTL DEF Spec

-----------------------------------------------------------------------------
(* The state of the hub, the loops and the clients has its types.          *)
THEOREM TypeCorrect == Spec => []TypeOK
<1>1. HInv /\ OwnInv => TypeOK
  <2> SUFFICES ASSUME HInv, OwnInv PROVE TypeOK
    OBVIOUS
  <2>1. ASSUME NEW o \in Orders, NEW c \in ToSet(subscribers[o])
        PROVE  c \in Conns /\ OrderOf[c] = o
    <3>1. subscribers[o] \in Seq(Conns)
      BY DEF HInv, HubTyped
    <3> QED BY <3>1, ElementOf DEF HInv, HubTyped
  <2>2. \A t \in Topics : next[t] \in 0..Len(Feed[t])
    BY FeedAssumption DEF HInv, LoopsTyped
  <2>3. overlap \subseteq {t \in Topics : writing[t] # NoConn}
    BY DEF OwnInv, MetAnother
  <2> QED BY <2>1, <2>2, <2>3 DEF TypeOK, HInv, HubTyped, CopyOK, FramesOK
<1> QED BY <1>1, OwnInvariance, PTL

(* The hub keeps no connection that is closed or that nobody watches, and  *)
(* none twice, whoever removes it and how often.                           *)
THEOREM NobodyIsLeaked == Spec => []NobodyLeaked
BY Invariance, PTL DEF HInv

(* Who was subscribed and is well has the frame or will be written to, the *)
(* frames are of the client's own order, and those of a topic come in the  *)
(* order of the topic, none twice.                                         *)
THEOREM FramesInOrder == Spec => []FramesFollowFeed
<1>1. HInv /\ OwnInv => FramesFollowFeed
  BY DEF HInv, OwnInv, Reached, OwnFrames, InOrder, FramesFollowFeed
<1> QED BY <1>1, OwnInvariance, PTL

(* A client that is well is dropped only while a loop is at a subscriber   *)
(* of its message's order and another topic has had a message of the same  *)
(* order: the panic of two writes needs two topics with one order.         *)
THEOREM TwoTopicsToDrop == Spec => DroppedOnlyByTwoTopics
<1> DEFINE Two == \E t, u \in Topics :
                    /\ t # u
                    /\ conns[t] # << >>
                    /\ Feed[t][next[t]] = OrderOf[Head(conns[t])]
                    /\ \E n \in 1..next[u] : Feed[u][n] = Feed[t][next[t]]
<1>1. ASSUME HInv, OwnInv, NEW t \in Topics, Panic(t)
      PROVE  Two
  <2>1. ASSUME conns[t] # << >>, NEW u \in Topics \ {t}, HadMessageFor(u, Head(conns[t]))
        PROVE  Two
    <3>1. Feed[t][next[t]] = OrderOf[Head(conns[t])]
      BY <1>1, <2>1, AtSubscriber
    <3>2. PICK n \in 1..next[u] : Feed[u][n] = OrderOf[Head(conns[t])]
      BY <2>1 DEF HadMessageFor
    <3> QED BY <2>1, <3>1, <3>2
  <2>2. CASE Collision(t)
    <3>1. conns[t] # << >> /\ Head(conns[t]) \in Conns
      BY <1>1, <2>2, AtSubscriber DEF Collision
    <3>2. PICK u \in Topics \ {t} : writing[u] = Head(conns[t])
      BY <2>2 DEF Collision, Busy
    <3>3. conns[u] # << >> /\ Head(conns[u]) = Head(conns[t])
      BY <1>1, <3>1, <3>2, ConnsAssumption DEF HInv, CopyOK
    <3>4. HadMessageFor(u, Head(conns[t]))
      BY <1>1, <3>3, AtSubscriber DEF HadMessageFor
    <3> QED BY <2>1, <3>1, <3>4
  <2>3. CASE t \in overlap
    <3>1. writing[t] # NoConn /\ \E u \in Topics \ {t} : HadMessageFor(u, writing[t])
      BY <1>1, <2>3 DEF OwnInv, MetAnother
    <3>2. conns[t] # << >> /\ writing[t] = Head(conns[t])
      BY <1>1, <3>1 DEF HInv, CopyOK
    <3> QED BY <2>1, <3>1, <3>2
  <2> QED BY <1>1, <2>2, <2>3 DEF Panic
<1>2. ASSUME HInv, OwnInv, [Next]_vars,
             NEW c \in Conns, state[c] = "open", state'[c] = "closed"
      PROVE  Two
  <2> USE <1>2
  <2>1. ASSUME NEW d \in Conns, ServeWS(d) \/ Stall(d) \/ Break(d)
        PROVE  FALSE
    BY <2>1 DEF ServeWS, Stall, Break, HInv, HubTyped
  <2>2. ASSUME NEW d \in Conns, ReadFails(d)
        PROVE  FALSE
    BY <2>2 DEF ReadFails, remove, HInv, HubTyped
  <2>3. ASSUME NEW t \in Topics,
               Broadcast(t) \/ BeginWrite(t) \/ EndWrite(t) \/ WriteVanishes(t)
        PROVE  FALSE
    BY <2>3 DEF Broadcast, BeginWrite, EndWrite, WriteVanishes
  <2>4. ASSUME NEW t \in Topics, WriteFails(t)
        PROVE  FALSE
    BY <2>4 DEF WriteFails, remove, HInv, HubTyped
  <2>5. ASSUME NEW t \in Topics, WriteConcurrently(t)
        PROVE  FALSE
    BY <2>5 DEF WriteConcurrently, HInv, HubTyped
  <2>6. CASE UNCHANGED vars
    BY <2>6 DEF vars
  <2> QED BY <1>1, <2>1, <2>2, <2>3, <2>4, <2>5, <2>6 DEF Next, loop
<1>3. HInv /\ OwnInv /\ [Next]_vars
        => (\A c \in Conns : state[c] = "open" /\ state'[c] = "closed" => Two)
  BY <1>2
<1> QED BY <1>3, OwnInvariance, PTL DEF DroppedOnlyByTwoTopics, Spec
=============================================================================
