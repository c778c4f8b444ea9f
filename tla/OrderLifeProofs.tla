-------------------------- MODULE OrderLifeProofs --------------------------
(***************************************************************************)
(* In the whole system, for any orders, stock, replicas, repetitions and   *)
(* failures: an order goes through the life that OrderLife.tla describes,  *)
(* a final status that is shown is the true one, and the whole state keeps *)
(* its types.                                                              *)
(*                                                                         *)
(* An order's records are followed by their positions in Course.           *)
(***************************************************************************)
EXTENDS PipelineProofs

(* Rows of an outbox for an order.                                         *)
Entry(o, e) == [order |-> o, event |-> e]
Has(q, o, e) == \E n \in DOMAIN q : q[n] = Entry(o, e)

Passed(o) == {n \in 1..5 : Recorded(o, Course[n])}

(* Stage as a function of the events that are recorded.                    *)
StageFrom(passed) ==
  LET last == CHOOSE n \in passed : \A m \in passed : m <= n
  IN  IF passed = {} THEN "PENDING" ELSE Show!statusByEventType[Course[last]]

(* The records that an order may have: reserved, refused, paid, declined,  *)
(* fulfilled.                                                              *)
Lives == {{}, {1}, {2}, {1, 3}, {1, 4}, {1, 3, 5}}

InvEvents == {"InventoryReserved", "InventoryReservationFailed"}
PayEvents == {"PaymentAuthorized", "PaymentFailed"}
ShipEvents == {"FulfillmentCreated", "OrderReadyForShipment"}
Rows(events) == [order : Orders, event : events]

LEMMA StageIsFrom == \A o : Stage(o) = StageFrom(Passed(o))
<1>1. DOMAIN Course = 1..5
  BY DEF Course
<1> QED BY <1>1 DEF Stage, StageFrom, Passed

LEMMA GreatestIs ==
  ASSUME NEW S \in SUBSET Nat, NEW k \in S, \A m \in S : m <= k
  PROVE  (CHOOSE n \in S : \A m \in S : m <= n) = k
<1> DEFINE g == CHOOSE n \in S : \A m \in S : m <= n
<1>1. g \in S /\ \A m \in S : m <= g
  OBVIOUS
<1>2. g <= k /\ k <= g /\ g \in Nat /\ k \in Nat
  BY <1>1
<1> HIDE DEF g
<1>3. g = k
  BY <1>2
<1> QED BY <1>3 DEF g

LEMMA StagesOfLives ==
  /\ StageFrom({}) = "PENDING"
  /\ StageFrom({1}) = "INVENTORY_RESERVED"
  /\ StageFrom({2}) = "FAILED"
  /\ StageFrom({1, 3}) = "PAYMENT_AUTHORIZED"
  /\ StageFrom({1, 4}) = "FAILED"
  /\ StageFrom({1, 3, 5}) = "FULFILLED"
<1>1. ASSUME NEW S \in SUBSET Nat, NEW k \in S, \A m \in S : m <= k
      PROVE  StageFrom(S) = Show!statusByEventType[Course[k]]
  BY <1>1, GreatestIs DEF StageFrom
<1>2. StageFrom({}) = "PENDING"
  BY DEF StageFrom
<1>3. StageFrom({1}) = Show!statusByEventType[Course[1]]
  BY <1>1
<1>4. StageFrom({2}) = Show!statusByEventType[Course[2]]
  BY <1>1
<1>5. StageFrom({1, 3}) = Show!statusByEventType[Course[3]]
  BY <1>1
<1>6. StageFrom({1, 4}) = Show!statusByEventType[Course[4]]
  BY <1>1
<1>7. StageFrom({1, 3, 5}) = Show!statusByEventType[Course[5]]
  BY <1>1
<1>8. /\ Show!statusByEventType[Course[1]] = "INVENTORY_RESERVED"
      /\ Show!statusByEventType[Course[2]] = "FAILED"
      /\ Show!statusByEventType[Course[3]] = "PAYMENT_AUTHORIZED"
      /\ Show!statusByEventType[Course[4]] = "FAILED"
      /\ Show!statusByEventType[Course[5]] = "FULFILLED"
  BY DEF Course, Show!statusByEventType
<1> QED BY <1>2, <1>3, <1>4, <1>5, <1>6, <1>7, <1>8

-----------------------------------------------------------------------------
InvTyped == invOutbox \in Seq(Rows(InvEvents))

(* What is in a topic is a row of the outbox.                              *)
Published ==
  /\ sent \in [Topics -> Nat]
  /\ \A t \in Topics :
       /\ sent[t] <= Len(Outbox(t))
       /\ \A n \in DOMAIN topic[t] : \E m \in DOMAIN Outbox(t) :
            topic[t][n] = Outbox(t)[m]

LivesAreLed == \A o \in Orders : Passed(o) \in Lives

(* What a reader has in its hands is in the topic.                         *)
ReadersInTopic ==
  /\ next \in [Topics -> Nat]
  /\ committed \in [Topics -> Nat]
  /\ late \in [Topics -> Nat]
  /\ DOMAIN readerPc = Topics
  /\ \A t \in Topics : /\ readerPc[t] = "update" => next[t] \in DOMAIN topic[t]
                       /\ late[t] # 0 => late[t] \in DOMAIN topic[t]

(* A status that is shown was in a message.                                *)
Told(o) == \E t \in Topics : \E n \in DOMAIN topic[t] :
  /\ topic[t][n].order = o
  /\ status[o] = Show!statusByEventType[topic[t][n].event]

ShownWasTold ==
  /\ DOMAIN status = Orders
  /\ \A o \in Orders : status[o] # "PENDING" => Told(o)

PInv == /\ PayIInv /\ PayHandsRequested
        /\ ShipIInv /\ ShipHandsRequested
        /\ TopicsAreLogs
        /\ InvTyped
        /\ Published
        /\ LivesAreLed
        /\ ReadersInTopic
        /\ ShownWasTold

-----------------------------------------------------------------------------
(* The row or rows that a step adds to an outbox.                          *)
Settles(o) ==
  /\ o \notin Inv!Settled
  /\ \E e \in InvEvents : invOutbox' = Append(invOutbox, Entry(o, e))
  /\ UNCHANGED <<payOutbox, shipOutbox>>

Pays(o) ==
  /\ o \in Reserved \ payProcessed
  /\ \E e \in PayEvents : payOutbox' = payOutbox \o <<Entry(o, e)>>
  /\ UNCHANGED <<invOutbox, shipOutbox>>

Ships(o) ==
  /\ o \in Authorised \ shipProcessed
  /\ shipOutbox' = shipOutbox \o <<Entry(o, "FulfillmentCreated"),
                                   Entry(o, "OrderReadyForShipment")>>
  /\ UNCHANGED <<invOutbox, payOutbox>>

NothingRecorded == UNCHANGED <<invOutbox, payOutbox, shipOutbox>>

LEMMA FourKindsOfStep ==
  ASSUME PInv, [Next]_vars
  PROVE  NothingRecorded \/ \E o \in Orders : Settles(o) \/ Pays(o) \/ Ships(o)
<1>1. CASE UNCHANGED vars
  BY <1>1 DEF vars, inventory, payment, fulfillment, NothingRecorded
<1>2. ASSUME NEW o \in Orders, Settle(o) PROVE Settles(o)
  BY <1>2 DEF Settle, Settles, payment, fulfillment, Inv!Reserve, Inv!Refuse,
     Inv!Outcome, InvEvents, Entry
<1>3. CASE PayStep
  <2>1. UNCHANGED <<invOutbox, shipOutbox>>
    BY <1>3 DEF PayStep, inventory, fulfillment
  <2>2. [Pay!Next]_(Pay!own)
    BY PaymentSteps
  <2>3. [Pay!Once!Next]_<<payProcessed, payOutbox>>
    BY <2>2, PayStepImplements DEF PInv
  <2>4. ASSUME NEW o \in Orders, Pay!Once!Settle(o) PROVE Pays(o)
    <3>1. payOutbox' = payOutbox \o <<Pay!Outcome(o)>>
      BY <2>4 DEF Pay!Once!Settle
    <3>2. \E e \in PayEvents : Pay!Outcome(o) = Entry(o, e)
      BY DEF Pay!Outcome, PayEvents, Entry
    <3> QED BY <2>1, <2>4, <3>1, <3>2 DEF Pays, Pay!Once!Settle, Reserved
  <2> QED BY <2>1, <2>3, <2>4 DEF Pay!Once!Next, NothingRecorded
<1>4. CASE ShipStep
  <2>1. UNCHANGED <<invOutbox, payOutbox>>
    BY <1>4 DEF ShipStep, inventory, payment
  <2>2. [Ship!Next]_(Ship!own)
    BY FulfillmentSteps
  <2>3. [Ship!Once!Next]_<<shipProcessed, shipOutbox>>
    BY <2>2, ShipStepImplements DEF PInv
  <2>4. ASSUME NEW o \in Orders, Ship!Once!Settle(o) PROVE Ships(o)
    BY <2>1, <2>4 DEF Ships, Ship!Once!Settle, Ship!Outcomes, Ship!Outcome,
       Entry, Authorised
  <2> QED BY <2>1, <2>3, <2>4 DEF Ship!Once!Next, NothingRecorded
<1>5. ASSUME NEW t \in Topics, Publish(t) \/ PublishAgain(t) PROVE NothingRecorded
  BY <1>5 DEF Publish, PublishAgain, inventory, payment, fulfillment, NothingRecorded
<1>6. CASE ShowStep
  BY <1>6 DEF ShowStep, inventory, payment, fulfillment, NothingRecorded
<1> QED BY <1>1, <1>2, <1>3, <1>4, <1>5, <1>6 DEF Next

-----------------------------------------------------------------------------
(* What appending rows does to what an outbox has.                         *)
LEMMA HasConcat ==
  ASSUME NEW S, NEW q \in Seq(S), NEW r \in Seq(S), NEW o, NEW e
  PROVE  Has(q \o r, o, e) <=> Has(q, o, e) \/ Has(r, o, e)
<1>1. /\ q \o r \in Seq(S)
      /\ DOMAIN (q \o r) = 1..(Len(q) + Len(r))
      /\ DOMAIN q = 1..Len(q) /\ Len(q) \in Nat
      /\ DOMAIN r = 1..Len(r) /\ Len(r) \in Nat
  OBVIOUS
<1>2. \A n \in DOMAIN q : n \in DOMAIN (q \o r) /\ (q \o r)[n] = q[n]
  BY <1>1
<1>3. \A n \in DOMAIN r : Len(q) + n \in DOMAIN (q \o r) /\ (q \o r)[Len(q) + n] = r[n]
  BY <1>1
<1>4. \A n \in DOMAIN (q \o r) : n \in DOMAIN q \/ n - Len(q) \in DOMAIN r
  BY <1>1
<1>5. \A n \in DOMAIN (q \o r) : n - Len(q) \in DOMAIN r => (q \o r)[n] = r[n - Len(q)]
  BY <1>1
<1> QED BY <1>2, <1>3, <1>4, <1>5 DEF Has

LEMMA HasOneMore ==
  ASSUME NEW E, NEW q \in Seq(Rows(E)), NEW p, NEW f, NEW r \in Seq(Rows(E)),
         r = <<Entry(p, f)>>
  PROVE  \A o, e : Has(q \o r, o, e) <=> Has(q, o, e) \/ (o = p /\ e = f)
<1>1. DOMAIN r = {1} /\ r[1] = Entry(p, f)
  OBVIOUS
<1>2. \A o, e : Has(r, o, e) <=> o = p /\ e = f
  BY <1>1 DEF Has, Entry
<1>3. \A o, e : Has(q \o r, o, e) <=> Has(q, o, e) \/ Has(r, o, e)
  BY HasConcat
<1> QED BY <1>2, <1>3

LEMMA HasTwo ==
  ASSUME NEW p, NEW f, NEW g, NEW o, NEW e
  PROVE  Has(<<Entry(p, f), Entry(p, g)>>, o, e) <=> p = o /\ e \in {f, g}
<1> DEFINE q == <<Entry(p, f), Entry(p, g)>>
<1>1. DOMAIN q = {1, 2} /\ q[1] = Entry(p, f) /\ q[2] = Entry(p, g)
  OBVIOUS
<1> QED BY <1>1 DEF Has, Entry

(* Which of the three outboxes an event can be in.                         *)
InPassed(i, p, s, o) ==
  {n \in 1..5 : Has(i, o, Course[n]) \/ Has(p, o, Course[n]) \/ Has(s, o, Course[n])}

LEMMA PassedIs == /\ \A o : Passed(o) = InPassed(invOutbox, payOutbox, shipOutbox, o)
                  /\ \A o : Passed(o)' = InPassed(invOutbox', payOutbox', shipOutbox', o)
BY DEF Passed, InPassed, Recorded, Has, Entry, Outbox, Topics

LEMMA OwnEvents ==
  ASSUME NEW i \in Seq(Rows(InvEvents)), NEW p \in Seq(Rows(PayEvents)),
         NEW s \in Seq(Rows(ShipEvents)), NEW o
  PROVE  /\ 1 \in InPassed(i, p, s, o) <=> Has(i, o, "InventoryReserved")
         /\ 2 \in InPassed(i, p, s, o) <=> Has(i, o, "InventoryReservationFailed")
         /\ 3 \in InPassed(i, p, s, o) <=> Has(p, o, "PaymentAuthorized")
         /\ 4 \in InPassed(i, p, s, o) <=> Has(p, o, "PaymentFailed")
         /\ 5 \in InPassed(i, p, s, o) <=> Has(s, o, "OrderReadyForShipment")
<1>1. ASSUME NEW E, NEW q \in Seq(Rows(E)), NEW e, Has(q, o, e) PROVE e \in E
  <2>1. PICK n \in DOMAIN q : q[n] = Entry(o, e)
    BY <1>1 DEF Has
  <2>2. q[n] \in Rows(E)
    OBVIOUS
  <2> QED BY <2>1, <2>2 DEF Rows, Entry
<1>2. \A e : /\ Has(i, o, e) => e \in InvEvents
             /\ Has(p, o, e) => e \in PayEvents
             /\ Has(s, o, e) => e \in ShipEvents
  BY <1>1
<1>3. \A n \in 1..5 : n \in InPassed(i, p, s, o) <=>
        Has(i, o, Course[n]) \/ Has(p, o, Course[n]) \/ Has(s, o, Course[n])
  BY DEF InPassed
<1>4. /\ Course[1] = "InventoryReserved"
      /\ Course[2] = "InventoryReservationFailed"
      /\ Course[3] = "PaymentAuthorized"
      /\ Course[4] = "PaymentFailed"
      /\ Course[5] = "OrderReadyForShipment"
  BY DEF Course
<1> QED BY <1>2, <1>3, <1>4 DEF InvEvents, PayEvents, ShipEvents

OutboxesTyped == /\ InvTyped
                 /\ payOutbox \in Seq(Rows(PayEvents))
                 /\ shipOutbox \in Seq(Rows(ShipEvents))

Records(i, p, s, o, passed) ==
  /\ 1 \in passed <=> Has(i, o, "InventoryReserved")
  /\ 2 \in passed <=> Has(i, o, "InventoryReservationFailed")
  /\ 3 \in passed <=> Has(p, o, "PaymentAuthorized")
  /\ 4 \in passed <=> Has(p, o, "PaymentFailed")
  /\ 5 \in passed <=> Has(s, o, "OrderReadyForShipment")

LEMMA RecordsNow ==
  ASSUME OutboxesTyped, NEW o
  PROVE  Records(invOutbox, payOutbox, shipOutbox, o, Passed(o))
BY OwnEvents, PassedIs DEF OutboxesTyped, InvTyped, Records

LEMMA RecordsNext ==
  ASSUME OutboxesTyped', NEW o
  PROVE  Records(invOutbox', payOutbox', shipOutbox', o, Passed(o)')
BY OwnEvents, PassedIs DEF OutboxesTyped, InvTyped, Records

LEMMA Typed == PInv => OutboxesTyped
BY DEF PInv, OutboxesTyped, PayIInv, Pay!TypeOK, ShipIInv, Ship!TypeOK, Rows,
   PayEvents, ShipEvents

(* What a message announces is recorded.                                   *)
LEMMA AnnouncedIsRecorded ==
  ASSUME PInv
  PROVE  /\ \A o \in Reserved : 1 \in Passed(o)
         /\ \A o \in Authorised : 3 \in Passed(o)
<1>1. /\ \A o \in Reserved : Has(invOutbox, o, "InventoryReserved")
      /\ \A o \in Authorised : Has(payOutbox, o, "PaymentAuthorized")
  BY DEF PInv, Published, Reserved, Authorised, Announced, Has, Entry, Outbox, Topics
<1> QED BY <1>1, Typed, OwnEvents, PassedIs DEF OutboxesTyped, InvTyped

(* What is not settled, paid or fulfilled has no record of it.             *)
LEMMA UnsettledIsUnrecorded ==
  ASSUME PInv, NEW o
  PROVE  /\ o \notin Inv!Settled => 1 \notin Passed(o) /\ 2 \notin Passed(o)
         /\ o \notin payProcessed => 3 \notin Passed(o) /\ 4 \notin Passed(o)
         /\ o \notin shipProcessed => 5 \notin Passed(o)
<1>1. ASSUME NEW e
      PROVE  /\ Has(invOutbox, o, e) => o \in Inv!Settled
             /\ Has(payOutbox, o, e) => o \in payProcessed
             /\ Has(shipOutbox, o, e) => o \in shipProcessed
  BY DEF Has, Entry, Inv!Settled, PInv, PayIInv, Pay!ChargedOnce,
     ShipIInv, Ship!FulfilledOnce
<1> QED BY <1>1, Typed, OwnEvents, PassedIs DEF OutboxesTyped, InvTyped
-----------------------------------------------------------------------------
(* A step takes at most one order one step on.                             *)
Moves(o, before, after) ==
  /\ Passed(o) = before
  /\ Passed(o)' = after
  /\ \A p \in Orders \ {o} : Passed(p)' = Passed(p)

LEMMA PassedWithin ==
  \A o : Passed(o) \subseteq 1..5 /\ Passed(o)' \subseteq 1..5
BY DEF Passed

LEMMA SettlesMoves ==
  ASSUME PInv, NEW o \in Orders, Settles(o)
  PROVE  OutboxesTyped' /\ \E k \in {1, 2} : Moves(o, {}, {k})
<1>1. PICK e \in InvEvents : invOutbox' = Append(invOutbox, Entry(o, e))
  BY DEF Settles
<1>2. OutboxesTyped
  BY Typed
<1>3. Entry(o, e) \in Rows(InvEvents)
  BY DEF Entry, Rows
<1>4. invOutbox' = invOutbox \o <<Entry(o, e)>> /\ <<Entry(o, e)>> \in Seq(Rows(InvEvents))
  <2>1. invOutbox \in Seq(Rows(InvEvents))
    BY <1>2 DEF OutboxesTyped, InvTyped
  <2> QED BY ONLY <1>1, <1>3, <2>1, AppendIsConcat
<1>5. OutboxesTyped'
  BY <1>1, <1>2, <1>3 DEF OutboxesTyped, InvTyped, Settles
<1>6. \A p, f : Has(invOutbox', p, f) <=> Has(invOutbox, p, f) \/ (p = o /\ f = e)
  <2>1. invOutbox \in Seq(Rows(InvEvents))
    BY <1>2 DEF OutboxesTyped, InvTyped
  <2> QED BY ONLY <1>4, <2>1, HasOneMore
<1>7. UNCHANGED <<payOutbox, shipOutbox>>
  BY DEF Settles
<1>8. \A p : /\ 1 \in Passed(p)' <=> 1 \in Passed(p) \/ (p = o /\ e = "InventoryReserved")
             /\ 2 \in Passed(p)' <=> 2 \in Passed(p) \/ (p = o /\ e = "InventoryReservationFailed")
             /\ \A n \in 3..5 : n \in Passed(p)' <=> n \in Passed(p)
  BY <1>2, <1>5, <1>6, <1>7, RecordsNow, RecordsNext DEF Records
<1>9. Passed(o) = {}
  <2>1. 1 \notin Passed(o) /\ 2 \notin Passed(o) /\ Passed(o) \in Lives
    BY UnsettledIsUnrecorded DEF Settles, PInv, LivesAreLed
  <2> QED BY <2>1 DEF Lives
<1>10. \A p \in Orders \ {o} : Passed(p)' = Passed(p)
  BY <1>8, PassedWithin
<1>11. Passed(o)' = IF e = "InventoryReserved" THEN {1} ELSE {2}
  BY <1>8, <1>9, PassedWithin DEF InvEvents
<1> QED BY <1>5, <1>9, <1>10, <1>11 DEF Moves

LEMMA PaysMoves ==
  ASSUME PInv, NEW o \in Orders, Pays(o)
  PROVE  OutboxesTyped' /\ \E k \in {3, 4} : Moves(o, {1}, {1, k})
<1>1. PICK e \in PayEvents : payOutbox' = payOutbox \o <<Entry(o, e)>>
  BY DEF Pays
<1>2. OutboxesTyped
  BY Typed
<1>3. <<Entry(o, e)>> \in Seq(Rows(PayEvents))
  BY DEF Entry, Rows
<1>4. OutboxesTyped'
  BY <1>1, <1>2, <1>3 DEF OutboxesTyped, InvTyped, Pays
<1>5. \A p, f : Has(payOutbox', p, f) <=> Has(payOutbox, p, f) \/ (p = o /\ f = e)
  <2>1. payOutbox \in Seq(Rows(PayEvents))
    BY <1>2 DEF OutboxesTyped
  <2> QED BY ONLY <1>1, <1>3, <2>1, HasOneMore
<1>6. UNCHANGED <<invOutbox, shipOutbox>>
  BY DEF Pays
<1>7. \A p : /\ 3 \in Passed(p)' <=> 3 \in Passed(p) \/ (p = o /\ e = "PaymentAuthorized")
             /\ 4 \in Passed(p)' <=> 4 \in Passed(p) \/ (p = o /\ e = "PaymentFailed")
             /\ \A n \in {1, 2, 5} : n \in Passed(p)' <=> n \in Passed(p)
  BY <1>2, <1>4, <1>5, <1>6, RecordsNow, RecordsNext DEF Records
<1>8. Passed(o) = {1}
  <2>1. 1 \in Passed(o) /\ 3 \notin Passed(o) /\ 4 \notin Passed(o) /\ Passed(o) \in Lives
    BY UnsettledIsUnrecorded, AnnouncedIsRecorded DEF Pays, PInv, LivesAreLed
  <2> QED BY <2>1 DEF Lives
<1>9. \A p \in Orders \ {o} : Passed(p)' = Passed(p)
  BY <1>7, PassedWithin
<1>10. Passed(o)' = IF e = "PaymentAuthorized" THEN {1, 3} ELSE {1, 4}
  BY <1>7, <1>8, PassedWithin DEF PayEvents
<1> QED BY <1>4, <1>8, <1>9, <1>10 DEF Moves

LEMMA ShipsMoves ==
  ASSUME PInv, NEW o \in Orders, Ships(o)
  PROVE  OutboxesTyped' /\ Moves(o, {1, 3}, {1, 3, 5})
<1> DEFINE rows == <<Entry(o, "FulfillmentCreated"), Entry(o, "OrderReadyForShipment")>>
<1>1. shipOutbox' = shipOutbox \o rows
  BY DEF Ships
<1>2. OutboxesTyped
  BY Typed
<1>3. rows \in Seq(Rows(ShipEvents))
  BY DEF Entry, Rows, ShipEvents
<1>4. \A p, f : Has(rows, p, f) <=> p = o /\ f \in ShipEvents
  BY HasTwo DEF ShipEvents
<1> HIDE DEF rows
<1>5. OutboxesTyped'
  BY <1>1, <1>2, <1>3 DEF OutboxesTyped, InvTyped, Ships
<1>6. \A p, f : Has(shipOutbox', p, f) <=> Has(shipOutbox, p, f) \/ (p = o /\ f \in ShipEvents)
  BY <1>1, <1>2, <1>3, <1>4, HasConcat DEF OutboxesTyped
<1>7. UNCHANGED <<invOutbox, payOutbox>>
  BY DEF Ships
<1>8. \A p : /\ 5 \in Passed(p)' <=> 5 \in Passed(p) \/ p = o
             /\ \A n \in 1..4 : n \in Passed(p)' <=> n \in Passed(p)
  BY <1>2, <1>5, <1>6, <1>7, RecordsNow, RecordsNext DEF Records, ShipEvents
<1>9. Passed(o) = {1, 3}
  <2>1. 3 \in Passed(o) /\ 5 \notin Passed(o) /\ Passed(o) \in Lives
    BY UnsettledIsUnrecorded, AnnouncedIsRecorded DEF Ships, PInv, LivesAreLed
  <2> QED BY <2>1 DEF Lives
<1>10. \A p \in Orders \ {o} : Passed(p)' = Passed(p)
  BY <1>8, PassedWithin
<1>11. Passed(o)' = {1, 3, 5}
  BY <1>8, <1>9, PassedWithin
<1> QED BY <1>5, <1>9, <1>10, <1>11 DEF Moves

(* The steps that Lives allows.                                            *)
OneStep ==
  \E o \in Orders : \/ \E k \in {1, 2} : Moves(o, {}, {k})
                    \/ \E k \in {3, 4} : Moves(o, {1}, {1, k})
                    \/ Moves(o, {1, 3}, {1, 3, 5})

LEMMA LifeSteps ==
  ASSUME PInv, [Next]_vars
  PROVE  /\ OutboxesTyped'
         /\ OneStep \/ \A o \in Orders : Passed(o)' = Passed(o)
<1>1. CASE NothingRecorded
  <2>1. \A o : InPassed(invOutbox', payOutbox', shipOutbox', o)
                 = InPassed(invOutbox, payOutbox, shipOutbox, o)
    BY <1>1 DEF NothingRecorded
  <2>2. OutboxesTyped'
    BY <1>1, Typed DEF NothingRecorded, OutboxesTyped, InvTyped
  <2> QED BY <2>1, <2>2, PassedIs
<1>2. ASSUME NEW o \in Orders, Settles(o) \/ Pays(o) \/ Ships(o)
      PROVE  OutboxesTyped' /\ OneStep
  BY <1>2, SettlesMoves, PaysMoves, ShipsMoves DEF OneStep
<1> QED BY <1>1, <1>2, FourKindsOfStep
-----------------------------------------------------------------------------
(* Outboxes keep their rows, so what a topic has stays a row of its        *)
(* outbox.                                                                 *)
OutboxesGrow == \A t \in Topics :
  /\ Len(Outbox(t)) \in Nat /\ Len(Outbox(t)') \in Nat
  /\ Len(Outbox(t)) <= Len(Outbox(t)')
  /\ \A n \in DOMAIN Outbox(t) : n \in DOMAIN Outbox(t)' /\ Outbox(t)'[n] = Outbox(t)[n]

LEMMA ConcatGrows ==
  ASSUME NEW S, NEW q \in Seq(S), NEW r \in Seq(S)
  PROVE  /\ Len(q) \in Nat /\ Len(q \o r) \in Nat /\ Len(q) <= Len(q \o r)
         /\ \A n \in DOMAIN q : n \in DOMAIN (q \o r) /\ (q \o r)[n] = q[n]
OBVIOUS

LEMMA EmptyConcat ==
  ASSUME NEW S, NEW q \in Seq(S)
  PROVE  q = q \o << >> /\ << >> \in Seq(S)
OBVIOUS

LEMMA OutboxSteps ==
  ASSUME PInv, [Next]_vars
  PROVE  OutboxesGrow
<1>1. /\ invOutbox \in Seq(Rows(InvEvents))
      /\ payOutbox \in Seq(Rows(PayEvents))
      /\ shipOutbox \in Seq(Rows(ShipEvents))
  BY Typed DEF OutboxesTyped, InvTyped
<1>2. \E r \in Seq(Rows(InvEvents)) : invOutbox' = invOutbox \o r
  <2>1. CASE UNCHANGED invOutbox
    BY ONLY <1>1, <2>1, EmptyConcat
  <2>2. ASSUME NEW o \in Orders, NEW e \in InvEvents,
               invOutbox' = Append(invOutbox, Entry(o, e))
        PROVE  \E r \in Seq(Rows(InvEvents)) : invOutbox' = invOutbox \o r
    <3>1. Entry(o, e) \in Rows(InvEvents)
      BY DEF Entry, Rows
    <3>2. <<Entry(o, e)>> \in Seq(Rows(InvEvents))
      BY <3>1
    <3>3. invOutbox' = invOutbox \o <<Entry(o, e)>>
      BY ONLY <1>1, <2>2, <3>1, AppendIsConcat
    <3> QED BY <3>2, <3>3
  <2> QED BY <2>1, <2>2, FourKindsOfStep DEF NothingRecorded, Settles, Pays, Ships
<1>3. \E r \in Seq(Rows(PayEvents)) : payOutbox' = payOutbox \o r
  <2>1. CASE UNCHANGED payOutbox
    BY ONLY <1>1, <2>1, EmptyConcat
  <2>2. ASSUME NEW o \in Orders, NEW e \in PayEvents
        PROVE  <<Entry(o, e)>> \in Seq(Rows(PayEvents))
    BY DEF Entry, Rows
  <2> QED BY <2>1, <2>2, FourKindsOfStep DEF NothingRecorded, Settles, Pays, Ships
<1>4. \E r \in Seq(Rows(ShipEvents)) : shipOutbox' = shipOutbox \o r
  <2>1. CASE UNCHANGED shipOutbox
    BY ONLY <1>1, <2>1, EmptyConcat
  <2>2. ASSUME NEW o \in Orders
        PROVE  <<Entry(o, "FulfillmentCreated"), Entry(o, "OrderReadyForShipment")>>
                 \in Seq(Rows(ShipEvents))
    BY DEF Entry, Rows, ShipEvents
  <2> QED BY <2>1, <2>2, FourKindsOfStep DEF NothingRecorded, Settles, Pays, Ships
<1>5. ASSUME NEW S, NEW q \in Seq(S), NEW t \in Topics,
             Outbox(t) = q, \E r \in Seq(S) : Outbox(t)' = q \o r
      PROVE  /\ Len(Outbox(t)) \in Nat /\ Len(Outbox(t)') \in Nat
             /\ Len(Outbox(t)) <= Len(Outbox(t)')
             /\ \A n \in DOMAIN Outbox(t) :
                  n \in DOMAIN Outbox(t)' /\ Outbox(t)'[n] = Outbox(t)[n]
  BY ONLY <1>5, ConcatGrows
<1>6. /\ Outbox("inventory-events") = invOutbox /\ Outbox("inventory-events")' = invOutbox'
      /\ Outbox("payment-events") = payOutbox /\ Outbox("payment-events")' = payOutbox'
      /\ Outbox("fulfillment-events") = shipOutbox /\ Outbox("fulfillment-events")' = shipOutbox'
  BY DEF Outbox
<1>7. \A t \in Topics : \E S : /\ Outbox(t) \in Seq(S)
                              /\ \E r \in Seq(S) : Outbox(t)' = Outbox(t) \o r
  BY <1>1, <1>2, <1>3, <1>4, <1>6 DEF Topics
<1> QED BY <1>5, <1>7 DEF OutboxesGrow

(* What a topic gains is a row that its outbox had.                        *)
LEMMA LogGains ==
  ASSUME NEW S, NEW q \in Seq(S), NEW e, NEW n \in DOMAIN Append(q, e)
  PROVE  \/ n \in DOMAIN q /\ Append(q, e)[n] = q[n]
         \/ Append(q, e)[n] = e
<1>1. q \in Seq(S \cup {e}) /\ e \in S \cup {e}
  OBVIOUS
<1> QED BY <1>1

LEMMA PublishedStays ==
  ASSUME PInv, [Next]_vars
  PROVE  Published'
<1>1. CASE UNCHANGED kafka
  BY <1>1, OutboxSteps DEF PInv, Published, OutboxesGrow, kafka
<1>2. ASSUME NEW t \in Topics, NEW m \in DOMAIN Outbox(t), Write(t, Outbox(t)[m]),
             UNCHANGED <<invOutbox, payOutbox, shipOutbox>>
      PROVE  \A u \in Topics : \A n \in DOMAIN topic'[u] : \E k \in DOMAIN Outbox(u)' :
               topic'[u][n] = Outbox(u)'[k]
  <2>1. \A u \in Topics : Outbox(u)' = Outbox(u)
    BY <1>2 DEF Outbox
  <2>2. /\ topic'[t] = Append(topic[t], Outbox(t)[m])
        /\ \A u \in Topics \ {t} : topic'[u] = topic[u]
    BY <1>2 DEF Write, PInv, TopicsAreLogs
  <2>3. PICK S : topic[t] \in Seq(S)
    BY DEF PInv, TopicsAreLogs
  <2>4. \A n \in DOMAIN topic'[t] :
          \/ n \in DOMAIN topic[t] /\ topic'[t][n] = topic[t][n]
          \/ topic'[t][n] = Outbox(t)[m]
    BY ONLY <2>2, <2>3, LogGains
  <2>5. \A u \in Topics : \A n \in DOMAIN topic[u] : \E k \in DOMAIN Outbox(u) :
          topic[u][n] = Outbox(u)[k]
    BY DEF PInv, Published
  <2> QED BY <1>2, <2>1, <2>2, <2>4, <2>5
<1>3. ASSUME NEW t \in Topics, Publish(t) \/ PublishAgain(t)
      PROVE  Published'
  <2>1. UNCHANGED <<invOutbox, payOutbox, shipOutbox>>
    BY <1>3 DEF Publish, PublishAgain, inventory, payment, fulfillment
  <2>2. \A u \in Topics : Outbox(u)' = Outbox(u)
    BY <2>1 DEF Outbox
  <2>3. /\ sent[t] \in Nat /\ Len(Outbox(t)) \in Nat /\ sent[t] <= Len(Outbox(t))
        /\ DOMAIN Outbox(t) = 1..Len(Outbox(t))
    <3>1. \E S : Outbox(t) \in Seq(S)
      BY Typed DEF OutboxesTyped, InvTyped, Outbox, Topics
    <3> QED BY <3>1 DEF PInv, Published
  <2>4. \E m \in DOMAIN Outbox(t) : Write(t, Outbox(t)[m])
    BY <1>3, <2>3 DEF Publish, PublishAgain
  <2>5. /\ sent' \in [Topics -> Nat]
        /\ \A u \in Topics : sent'[u] <= Len(Outbox(u)')
    <3>1. \/ sent' = sent
          \/ sent[t] < Len(Outbox(t)) /\ sent' = [sent EXCEPT ![t] = @ + 1]
      BY <1>3 DEF Publish, PublishAgain
    <3>2. sent \in [Topics -> Nat] /\ \A u \in Topics : sent[u] <= Len(Outbox(u))
      BY DEF PInv, Published
    <3> QED BY ONLY <2>2, <2>3, <3>1, <3>2
  <2>6. \A u \in Topics : \A n \in DOMAIN topic'[u] : \E k \in DOMAIN Outbox(u)' :
               topic'[u][n] = Outbox(u)'[k]
    BY <1>2, <2>1, <2>4
  <2> QED BY <2>5, <2>6 DEF Published
<1> QED BY <1>1, <1>3 DEF Next, vars, kafka, Settle, PayStep, ShipStep, ShowStep
AnEvent == InvEvents \cup PayEvents \cup ShipEvents

(* So every message is a row of one of the three services.                 *)
LEMMA MessagesTyped ==
  ASSUME PInv, NEW t \in Topics, NEW n \in DOMAIN topic[t]
  PROVE  topic[t][n] \in Rows(AnEvent)
<1>1. PICK m \in DOMAIN Outbox(t) : topic[t][n] = Outbox(t)[m]
  BY DEF PInv, Published
<1>2. \E events \in {InvEvents, PayEvents, ShipEvents} : Outbox(t) \in Seq(Rows(events))
  BY Typed DEF OutboxesTyped, InvTyped, Outbox, Topics
<1>3. PICK events \in {InvEvents, PayEvents, ShipEvents} : Outbox(t)[m] \in Rows(events)
  BY <1>2
<1> QED BY <1>1, <1>3 DEF Rows, AnEvent

-----------------------------------------------------------------------------
(* The readers and the status they show.                                   *)
LEMMA ReadersStay ==
  ASSUME PInv, [Next]_vars
  PROVE  ReadersInTopic'
<1>1. LogsGrow
  BY TopicSteps DEF PInv
<1>2. CASE UNCHANGED statusConsumer
  BY <1>1, <1>2 DEF PInv, ReadersInTopic, LogsGrow, statusConsumer
<1>3. ASSUME NEW t \in Topics, UNCHANGED topic,
             \/ Show!consumeLoop(t) \/ Show!UpdateFails(t) \/ Show!CommitFails(t)
             \/ Show!Rebalance(t) \/ Show!LateUpdate(t)
      PROVE  ReadersInTopic'
  <2>1. \A n \in Nat : n < Len(topic[t]) => n + 1 \in DOMAIN topic[t]
    BY DEF PInv, TopicsAreLogs
  <2>2. CASE Show!FetchMessage(t)
    BY <1>3, <2>1, <2>2 DEF PInv, ReadersInTopic, Show!FetchMessage, Show!Goto
  <2>3. CASE Show!UpdateStatus(t) \/ Show!UpdateFails(t)
    BY <1>3, <2>3 DEF PInv, ReadersInTopic, Show!UpdateStatus, Show!UpdateFails, Show!Goto
  <2>4. CASE Show!CommitMessages(t) \/ Show!CommitFails(t)
    BY <1>3, <2>4 DEF PInv, ReadersInTopic, Show!CommitMessages, Show!CommitFails, Show!Goto
  <2>5. CASE Show!Rebalance(t)
    BY <1>3, <2>5 DEF PInv, ReadersInTopic, Show!Rebalance, Show!Goto
  <2>6. CASE Show!LateUpdate(t)
    BY <1>3, <2>6 DEF PInv, ReadersInTopic, Show!LateUpdate
  <2> QED BY <1>3, <2>2, <2>3, <2>4, <2>5, <2>6 DEF Show!consumeLoop
<1>4. CASE ShowStep
  BY <1>3, <1>4 DEF ShowStep, Show!Next, kafka
<1> QED BY <1>2, <1>4 DEF Next, vars, Settle, Publish, PublishAgain, PayStep, ShipStep

LEMMA ApplyTells ==
  ASSUME ShownWasTold, UNCHANGED topic,
         NEW t \in Topics, NEW n \in DOMAIN topic[t], Show!Apply(topic[t][n])
  PROVE  ShownWasTold'
<1>1. /\ DOMAIN status' = Orders
      /\ \A o \in Orders :
           \/ status'[o] = status[o]
           \/ /\ topic[t][n].order = o
              /\ status'[o] = Show!statusByEventType[topic[t][n].event]
  BY DEF Show!Apply, ShownWasTold
<1> QED BY <1>1 DEF ShownWasTold, Told

LEMMA ToldStays ==
  ASSUME PInv, [Next]_vars
  PROVE  ShownWasTold'
<1>1. LogsGrow
  BY TopicSteps DEF PInv
<1>2. CASE UNCHANGED status
  BY <1>1, <1>2 DEF PInv, ShownWasTold, Told, LogsGrow
<1>3. ASSUME NEW t \in Topics, UNCHANGED topic,
             \/ Show!consumeLoop(t) \/ Show!UpdateFails(t) \/ Show!CommitFails(t)
             \/ Show!Rebalance(t) \/ Show!LateUpdate(t)
      PROVE  ShownWasTold'
  <2>1. \/ UNCHANGED status
        \/ readerPc[t] = "update" /\ Show!Apply(topic[t][next[t]])
        \/ late[t] # 0 /\ Show!Apply(topic[t][late[t]])
    BY <1>3 DEF Show!consumeLoop, Show!FetchMessage, Show!UpdateStatus,
       Show!UpdateFails, Show!CommitMessages, Show!CommitFails, Show!Rebalance,
       Show!LateUpdate
  <2>2. \/ UNCHANGED status
        \/ \E n \in DOMAIN topic[t] : Show!Apply(topic[t][n])
    BY <2>1 DEF PInv, ReadersInTopic
  <2> QED BY <1>2, <1>3, <2>2, ApplyTells DEF PInv
<1>4. CASE ShowStep
  BY <1>3, <1>4 DEF ShowStep, Show!Next, kafka
<1> QED BY <1>2, <1>4
        DEF Next, vars, statusConsumer, Settle, Publish, PublishAgain, PayStep, ShipStep

-----------------------------------------------------------------------------
LEMMA InitHolds == Init => PInv
<1> SUFFICES ASSUME Init PROVE PInv
  OBVIOUS
<1>1. Pay!Init /\ Ship!Init
  BY DEF Init
<1>2. PayIInv /\ PayHandsRequested
  BY <1>1, PayInitEstablishes DEF Pay!Init, PayHandsRequested
<1>3. ShipIInv /\ ShipHandsRequested
  BY <1>1, ShipInitEstablishes DEF Ship!Init, ShipHandsRequested
<1>4. /\ invOutbox = << >> /\ payOutbox = << >> /\ shipOutbox = << >>
      /\ topic = [t \in Topics |-> << >>]
      /\ sent = [t \in Topics |-> 0]
  BY DEF Init, Inv!Init, Pay!Init, Ship!Init
<1>5. TopicsAreLogs
  <2>1. \A t \in Topics : topic[t] \in Seq({})
    BY <1>4
  <2> QED BY <1>4, <2>1 DEF TopicsAreLogs
<1>6. InvTyped
  BY <1>4 DEF InvTyped
<1>7. Published
  <2>1. \A t \in Topics : Len(Outbox(t)) = 0 /\ DOMAIN topic[t] = {}
    BY <1>4 DEF Outbox, Topics
  <2> QED BY <1>4, <2>1 DEF Published
<1>8. LivesAreLed
  <2>1. \A o, e : ~Has(<< >>, o, e)
    BY DEF Has
  <2>2. \A o : InPassed(<< >>, << >>, << >>, o) = {}
    BY <2>1 DEF InPassed
  <2> QED BY <1>4, <2>2, PassedIs DEF LivesAreLed, Lives
<1>9. ReadersInTopic /\ ShownWasTold
  BY DEF Init, Show!Init, ReadersInTopic, ShownWasTold
<1> QED BY <1>2, <1>3, <1>5, <1>6, <1>7, <1>8, <1>9 DEF PInv

LEMMA NextKeeps == PInv /\ [Next]_vars => PInv'
<1> SUFFICES ASSUME PInv, [Next]_vars PROVE PInv'
  OBVIOUS
<1>1. TopicsAreLogs' /\ LogsGrow
  BY TopicSteps DEF PInv
<1>2. Reserved \subseteq Reserved' /\ Authorised \subseteq Authorised'
  BY <1>1, AnnouncedGrows DEF Topics, Reserved, Authorised
<1>3. PayIInv' /\ PayHandsRequested'
  <2>1. PayIInv'
    BY PaymentSteps, PayNextPreserves DEF PInv
  <2>2. PayHandsRequested'
    BY <1>2, PaymentSteps, PayHandsStayRequested DEF PInv, PayIInv, Reserved
  <2> QED BY <2>1, <2>2
<1>4. ShipIInv' /\ ShipHandsRequested'
  <2>1. ShipIInv'
    BY FulfillmentSteps, ShipNextPreserves DEF PInv
  <2>2. ShipHandsRequested'
    BY <1>2, FulfillmentSteps, ShipHandsStayRequested DEF PInv, ShipIInv, Authorised
  <2> QED BY <2>1, <2>2
<1>5. InvTyped'
  BY LifeSteps DEF OutboxesTyped
<1>6. LivesAreLed'
  <2>1. CASE OneStep
    BY <2>1 DEF PInv, LivesAreLed, Lives, OneStep, Moves
  <2>2. CASE \A o \in Orders : Passed(o)' = Passed(o)
    BY <2>2 DEF PInv, LivesAreLed
  <2> QED BY <2>1, <2>2, LifeSteps
<1> QED BY <1>1, <1>3, <1>4, <1>5, <1>6, PublishedStays, ReadersStay, ToldStays DEF PInv

THEOREM Invariance == Spec => []PInv
BY InitHolds, NextKeeps, PTL DEF Spec

(* In the whole system no order is said to have failed that has not, and   *)
(* none to be fulfilled that is not.                                       *)
THEOREM TrueFinalStatus == Spec => []FinalStatusIsTrue
<1>1. PInv => FinalStatusIsTrue
  <2> SUFFICES ASSUME PInv, NEW o \in Orders, status[o] \in {"FAILED", "FULFILLED"}
               PROVE  status[o] = Stage(o)
    BY DEF FinalStatusIsTrue
  <2>1. PICK e \in AnEvent :
          /\ Recorded(o, e)
          /\ status[o] = Show!statusByEventType[e]
    <3>1. PICK t \in Topics : \E n \in DOMAIN topic[t] :
            /\ topic[t][n].order = o
            /\ status[o] = Show!statusByEventType[topic[t][n].event]
      BY DEF PInv, ShownWasTold, Told
    <3>2. PICK n \in DOMAIN topic[t] :
            /\ topic[t][n].order = o
            /\ status[o] = Show!statusByEventType[topic[t][n].event]
      BY <3>1
    <3>3. PICK m \in DOMAIN Outbox(t) : topic[t][n] = Outbox(t)[m]
      BY DEF PInv, Published
    <3>4. Outbox(t)[m] \in Rows(AnEvent)
      BY <3>3, MessagesTyped
    <3>5. Outbox(t)[m] = [order |-> o, event |-> topic[t][n].event]
      BY <3>2, <3>3, <3>4 DEF Rows
    <3>6. Recorded(o, topic[t][n].event)
      BY <3>5 DEF Recorded
    <3>7. topic[t][n].event \in AnEvent
      BY <3>3, <3>4 DEF Rows
    <3> QED BY <3>2, <3>6, <3>7
  <2>2. Passed(o) \in Lives /\ Stage(o) = StageFrom(Passed(o))
    BY StageIsFrom DEF PInv, LivesAreLed
  <2>3. \/ status[o] = "FAILED" /\ (2 \in Passed(o) \/ 4 \in Passed(o))
        \/ status[o] = "FULFILLED" /\ 5 \in Passed(o)
    <3>1. \/ status[o] = "FAILED" /\ e \in {Course[2], Course[4]}
          \/ status[o] = "FULFILLED" /\ e = Course[5]
      BY <2>1 DEF Show!statusByEventType, Course, AnEvent, InvEvents, PayEvents,
         ShipEvents
    <3> QED BY <2>1, <3>1 DEF Passed
  <2> QED BY <2>2, <2>3, StagesOfLives DEF Lives
<1> QED BY <1>1, Invariance, PTL

(* In the whole system an order goes from stage to stage as docs/api.md    *)
(* has it.                                                                 *)
THEOREM LifeIsFollowed == Spec => FollowsOrderLife
<1> DEFINE stages == [o \in Orders |-> Stage(o)]
<1>1. Init => Life!Init
  <2> SUFFICES ASSUME Init PROVE stages = [o \in Orders |-> "PENDING"]
    BY DEF Life!Init
  <2>1. invOutbox = << >> /\ payOutbox = << >> /\ shipOutbox = << >>
    BY DEF Init, Inv!Init, Pay!Init, Ship!Init
  <2>2. \A o, e : ~Has(<< >>, o, e)
    BY DEF Has
  <2>3. \A o : Passed(o) = {}
    BY <2>1, <2>2, PassedIs DEF InPassed
  <2> QED BY <2>3, StageIsFrom, StagesOfLives
<1>2. PInv /\ [Next]_vars => [Life!Next]_stages
  <2> SUFFICES ASSUME PInv, [Next]_vars PROVE [Life!Next]_stages
    OBVIOUS
  <2>1. \A o : Stage(o) = StageFrom(Passed(o)) /\ Stage(o)' = StageFrom(Passed(o)')
    <3>1. DOMAIN Course = 1..5
      BY DEF Course
    <3> QED BY <3>1 DEF Stage, StageFrom, Passed
  <2>2. CASE \A o \in Orders : Passed(o)' = Passed(o)
    BY <2>1, <2>2
  <2>3. ASSUME NEW o \in Orders, NEW before, NEW after, Moves(o, before, after)
        PROVE  Life!Advance(o, StageFrom(before), StageFrom(after))
    BY <2>1, <2>3 DEF Moves, Life!Advance
  <2>4. CASE OneStep
    BY <2>3, <2>4, StagesOfLives DEF OneStep, Life!Next
  <2> QED BY <2>2, <2>4, LifeSteps
<1> QED BY <1>1, <1>2, Invariance, PTL DEF Spec, FollowsOrderLife, Life!Spec
-----------------------------------------------------------------------------
(* The types of the whole system.  What the readers hold are positions in  *)
(* the topics, which only grow, and what they apply are typed messages.    *)
Shown == {"PENDING"} \cup
         {Show!statusByEventType[e] : e \in DOMAIN Show!statusByEventType}

InLog(t, n) == n = 0 \/ n \in DOMAIN topic[t]

ConsumerTyped ==
  /\ status \in [Orders -> Shown]
  /\ \A t \in Topics : InLog(t, next[t]) /\ InLog(t, committed[t]) /\ InLog(t, late[t])
  /\ readerPc \in [Topics -> {"fetch", "update", "commit"}]
  /\ missed \subseteq Orders

FaultsTyped == faults \in 0..MaxFaults

LEMMA ApplyTyped ==
  ASSUME ConsumerTyped, NEW message \in Rows(AnEvent), Show!Apply(message)
  PROVE  status' \in [Orders -> Shown]
<1>1. message.event \in DOMAIN Show!statusByEventType
  BY DEF Rows, AnEvent, InvEvents, PayEvents, ShipEvents, Show!statusByEventType
<1>2. Show!statusByEventType[message.event] \in Shown
  BY <1>1 DEF Shown
<1> QED BY <1>2 DEF Show!Apply, ConsumerTyped

LEMMA ConsumerStaysTyped ==
  ASSUME PInv, ConsumerTyped, [Next]_vars
  PROVE  ConsumerTyped'
<1>1. LogsGrow
  BY TopicSteps DEF PInv
<1>2. CASE UNCHANGED statusConsumer
  BY <1>1, <1>2 DEF ConsumerTyped, InLog, LogsGrow, statusConsumer
<1>3. ASSUME NEW t \in Topics, UNCHANGED topic,
             \/ Show!consumeLoop(t) \/ Show!UpdateFails(t) \/ Show!CommitFails(t)
             \/ Show!Rebalance(t) \/ Show!LateUpdate(t)
      PROVE  ConsumerTyped'
  <2> USE DEF ConsumerTyped, InLog
  <2>1. DOMAIN next = Topics /\ DOMAIN committed = Topics /\ DOMAIN late = Topics
    BY DEF PInv, ReadersInTopic
  <2>2. readerPc[t] = "update" => topic[t][next[t]] \in Rows(AnEvent)
    BY MessagesTyped DEF PInv, ReadersInTopic
  <2>3. late[t] # 0 => topic[t][late[t]] \in Rows(AnEvent)
    BY MessagesTyped DEF PInv, ReadersInTopic
  <2>4. CASE Show!FetchMessage(t)
    <3>1. next[t] + 1 \in DOMAIN topic[t]
      BY <2>4 DEF PInv, TopicsAreLogs, ReadersInTopic, Show!FetchMessage
    <3> QED BY <1>3, <2>1, <2>4, <3>1 DEF Show!FetchMessage, Show!Goto
  <2>5. CASE Show!UpdateStatus(t) \/ Show!UpdateFails(t)
    <3>1. status' \in [Orders -> Shown]
      BY <2>2, <2>5, ApplyTyped DEF Show!UpdateStatus, Show!UpdateFails
    <3>2. topic[t][next[t]].order \in Orders
      BY <2>2, <2>5 DEF Show!UpdateStatus, Show!UpdateFails, Rows
    <3> QED BY <1>3, <2>5, <3>1, <3>2 DEF Show!UpdateStatus, Show!UpdateFails, Show!Goto
  <2>6. CASE Show!CommitMessages(t) \/ Show!CommitFails(t)
    BY <1>3, <2>1, <2>6 DEF Show!CommitMessages, Show!CommitFails, Show!Goto
  <2>7. CASE Show!Rebalance(t)
    BY <1>3, <2>1, <2>7 DEF Show!Rebalance, Show!Goto
  <2>8. CASE Show!LateUpdate(t)
    <3>1. status' \in [Orders -> Shown]
      BY <2>3, <2>8, ApplyTyped DEF Show!LateUpdate
    <3> QED BY <1>3, <2>1, <2>8, <3>1 DEF Show!LateUpdate
  <2> QED BY <1>3, <2>4, <2>5, <2>6, <2>7, <2>8 DEF Show!consumeLoop
<1>4. CASE ShowStep
  BY <1>3, <1>4 DEF ShowStep, Show!Next, kafka
<1> QED BY <1>2, <1>4 DEF Next, vars, Settle, Publish, PublishAgain, PayStep, ShipStep

(* Every step either causes no fault or one that the bound still allows.   *)
LEMMA FaultSteps == [Next]_vars => UNCHANGED faults \/ Fault
<1> SUFFICES ASSUME [Next]_vars PROVE UNCHANGED faults \/ Fault
  OBVIOUS
<1>1. CASE UNCHANGED vars \/ (\E o \in Orders : Settle(o))
             \/ \E t \in Topics : Publish(t) \/ PublishAgain(t)
  BY <1>1 DEF vars, Settle, Publish, PublishAgain
<1>2. CASE PayStep
  BY <1>2 DEF PayStep, Pay!Next, Pay!Deliver, Pay!Step, Pay!AlreadyProcessed,
     Pay!NotProcessed, Pay!InsertPayment, Pay!DuplicatePayment, Pay!Commit,
     Pay!HandleFails, Pay!Crash, Pay!Fault, Fault
<1>3. CASE ShipStep
  BY <1>3 DEF ShipStep, Ship!Next, Ship!Deliver, Ship!Step, Ship!AlreadyProcessed,
     Ship!NotProcessed, Ship!InsertFulfillment, Ship!MarkProcessed,
     Ship!DuplicateMark, Ship!Commit, Ship!HandleFails, Ship!Crash, Ship!Fault, Fault
<1>4. CASE ShowStep
  BY <1>4 DEF ShowStep, Show!Next, Show!consumeLoop, Show!FetchMessage,
     Show!UpdateStatus, Show!UpdateFails, Show!CommitMessages, Show!CommitFails,
     Show!Rebalance, Show!LateUpdate, Show!Fault, Fault
<1> QED BY <1>1, <1>2, <1>3, <1>4 DEF Next

(* The tables, the consumers' state, the shown statuses and the offsets of *)
(* the whole system keep their types: a reader never points outside its    *)
(* topic, and a worker never marks more rows than its outbox has.          *)
THEOREM TypeCorrect == Spec => []TypeOK
<1>1. Init => ConsumerTyped /\ FaultsTyped
  BY PipelineAssumption
     DEF Init, Show!Init, ConsumerTyped, InLog, FaultsTyped, Shown
<1>2. PInv /\ ConsumerTyped /\ [Next]_vars => ConsumerTyped'
  BY ConsumerStaysTyped
<1>3. FaultsTyped /\ [Next]_vars => FaultsTyped'
  BY FaultSteps, PipelineAssumption DEF FaultsTyped, Fault
<1>4. PInv /\ ConsumerTyped /\ FaultsTyped => TypeOK
  <2> SUFFICES ASSUME PInv, ConsumerTyped, FaultsTyped PROVE TypeOK
    OBVIOUS
  <2>1. Pay!TypeOK /\ Ship!TypeOK
    BY DEF PInv, PayIInv, ShipIInv
  <2>2. \A t \in Topics : \A n : InLog(t, n) => n \in 0..Len(topic[t])
    BY DEF PInv, TopicsAreLogs, InLog
  <2>3. Show!TypeOK
    BY <2>2 DEF ConsumerTyped, Shown, Show!TypeOK
  <2>4. \A t \in Topics : sent[t] \in 0..Len(Outbox(t))
    <3> SUFFICES ASSUME NEW t \in Topics PROVE sent[t] \in 0..Len(Outbox(t))
      OBVIOUS
    <3>1. \E S : Outbox(t) \in Seq(S)
      BY Typed DEF OutboxesTyped, InvTyped, Outbox, Topics
    <3>2. Len(Outbox(t)) \in Nat
      BY <3>1
    <3> QED BY <3>2 DEF PInv, Published
  <2> QED BY <2>1, <2>3, <2>4 DEF TypeOK, FaultsTyped
<1> QED BY <1>1, <1>2, <1>3, <1>4, Invariance, PTL DEF Spec
=============================================================================
