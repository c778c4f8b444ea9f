--------------------------- MODULE PipelineProofs ---------------------------
(***************************************************************************)
(* First the Payment and the Fulfillment Service by themselves: theorems   *)
(* about Pay!Spec and Ship!Spec, which bind nothing but what the service   *)
(* owns, so that topic and faults may change in any way at any time.  Then *)
(* the whole system, whose steps are steps of these services or leave what *)
(* they own alone, and in which a topic only grows.                        *)
(***************************************************************************)
EXTENDS Pipeline, TLAPS

(* The orders that the two services may be asked for.                      *)
Reserved == Announced("inventory-events", "InventoryReserved")
Authorised == Announced("payment-events", "PaymentAuthorized")

-----------------------------------------------------------------------------
(* A transaction that has inserted its payment is the only one to have     *)
(* done so for its order, and finds nothing of it committed.               *)
PayInsertedAlone ==
  \A c \in PayReplicas : payPc[c] = "commit" =>
    /\ payJob[c] \notin payProcessed
    /\ \A d \in PayReplicas \ {c} : payPc[d] = "commit" => payJob[d] # payJob[c]

PayInHand == \A c \in PayReplicas : payPc[c] # "idle" => payJob[c] \in Orders

PayIInv == Pay!TypeOK /\ PayInHand /\ PayInsertedAlone /\ Pay!ChargedOnce

(* A step that changes no table; if it brings c to its commit, the order's *)
(* key was free.                                                           *)
PayQuiet(c) ==
  /\ Pay!NothingStored
  /\ \A d \in PayReplicas \ {c} : payPc'[d] = payPc[d] /\ payJob'[d] = payJob[d]
  /\ payPc'[c] = "commit" => /\ payJob'[c] = payJob[c]
                          /\ payJob[c] \notin Pay!Paid
                          /\ ~Pay!HeldByOther(c, payJob[c])

(* A transaction that commits, whether its consumer learns of it or not.   *)
PayCommits(c) == payPc[c] = "commit" /\ Pay!Store(payJob[c]) /\ Pay!End(c)

LEMMA PayTyped ==
  ASSUME Pay!TypeOK, PayInHand, NEW c \in PayReplicas,
         \/ \E o \in Orders : Pay!Deliver(c, o)
         \/ Pay!Step(c)
         \/ Pay!HandleFails(c)
         \/ Pay!Crash(c)
  PROVE  /\ payPc' \in [PayReplicas -> {"idle", "check", "insert", "commit"}]
         /\ payJob' \in [PayReplicas -> Orders \cup {NoOrder}]
         /\ payFailed' \subseteq Orders
         /\ PayInHand'
<1> USE DEF Pay!TypeOK, PayInHand, Pay!Goto, Pay!End
<1>1. ASSUME NEW o \in Orders, Pay!Deliver(c, o)
      PROVE  /\ payPc' \in [PayReplicas -> {"idle", "check", "insert", "commit"}]
             /\ payJob' \in [PayReplicas -> Orders \cup {NoOrder}]
             /\ payFailed' \subseteq Orders
             /\ PayInHand'
  BY <1>1 DEF Pay!Deliver
<1>2. CASE Pay!Step(c)
  BY <1>2 DEF Pay!Step, Pay!AlreadyProcessed, Pay!NotProcessed,
     Pay!InsertPayment, Pay!DuplicatePayment, Pay!Commit
<1>3. CASE Pay!HandleFails(c) \/ Pay!Crash(c)
  BY <1>3 DEF Pay!HandleFails, Pay!Crash
<1> QED BY <1>1, <1>2, <1>3

LEMMA PayTwoKindsOfStep ==
  ASSUME Pay!TypeOK, NEW c \in PayReplicas,
         \/ \E o \in Orders : Pay!Deliver(c, o)
         \/ Pay!Step(c)
         \/ Pay!HandleFails(c)
         \/ Pay!Crash(c)
  PROVE  PayQuiet(c) \/ PayCommits(c)
<1> USE DEF Pay!TypeOK, PayQuiet, PayCommits, Pay!Goto, Pay!End
<1>1. ASSUME NEW o \in Orders, Pay!Deliver(c, o) PROVE PayQuiet(c)
  BY <1>1 DEF Pay!Deliver
<1>2. CASE Pay!Step(c)
  BY <1>2 DEF Pay!Step, Pay!AlreadyProcessed, Pay!NotProcessed,
     Pay!InsertPayment, Pay!DuplicatePayment, Pay!Commit
<1>3. CASE Pay!HandleFails(c) \/ Pay!Crash(c)
  BY <1>3 DEF Pay!HandleFails, Pay!Crash
<1> QED BY <1>1, <1>2, <1>3

(* The outbox gains one row.                                               *)
LEMMA OneRowMore ==
  ASSUME NEW S, NEW q \in Seq(S), NEW e \in S, NEW s, s = Append(q, e)
  PROVE  /\ s \in Seq(S)
         /\ DOMAIN s = DOMAIN q \cup {Len(q) + 1}
         /\ Len(q) + 1 \notin DOMAIN q
         /\ s[Len(q) + 1] = e
         /\ \A n \in DOMAIN q : s[n] = q[n]
OBVIOUS

(* Committing the payment of an order that has none keeps the tables in    *)
(* step.                                                                   *)
LEMMA PayStoreKeepsTables ==
  ASSUME Pay!TypeOK, Pay!ChargedOnce, NEW o \in Orders \ payProcessed,
         Pay!Store(o)
  PROVE  /\ payments' \subseteq [order : Orders, authorized : BOOLEAN]
         /\ payProcessed' \subseteq Orders
         /\ payOutbox' \in Seq([order : Orders,
                             event : {"PaymentAuthorized", "PaymentFailed"}])
         /\ Pay!ChargedOnce'
<1> DEFINE Rows == [order : Orders, event : {"PaymentAuthorized", "PaymentFailed"}]
           last == Len(payOutbox) + 1
<1>1. Pay!Row(o) \in [order : Orders, authorized : BOOLEAN] /\ Pay!Row(o).order = o
  BY DEF Pay!Row
<1>2. Pay!Outcome(o) \in Rows /\ Pay!Outcome(o).order = o
  BY DEF Pay!Outcome
<1>3. payOutbox \in Seq(Rows) /\ payOutbox' = Append(payOutbox, Pay!Outcome(o))
  BY DEF Pay!TypeOK, Pay!Store
<1>4. /\ payOutbox' \in Seq(Rows)
      /\ DOMAIN payOutbox' = DOMAIN payOutbox \cup {last}
      /\ last \notin DOMAIN payOutbox
      /\ payOutbox'[last] = Pay!Outcome(o)
      /\ \A n \in DOMAIN payOutbox : payOutbox'[n] = payOutbox[n]
  <2> HIDE DEF Rows
  <2> QED BY ONLY <1>2, <1>3, OneRowMore
<1>5. /\ payments' = payments \cup {Pay!Row(o)}
      /\ payProcessed' = payProcessed \cup {o}
  BY DEF Pay!Store
<1>6. /\ payments' \subseteq [order : Orders, authorized : BOOLEAN]
      /\ payProcessed' \subseteq Orders
  BY <1>1, <1>5 DEF Pay!TypeOK
<1>7. Pay!Paid' = payProcessed' /\ \A p \in payments' : p = Pay!Row(p.order)
  <2>1. Pay!Paid' = Pay!Paid \cup {o}
    BY <1>1, <1>5 DEF Pay!Paid
  <2> QED BY <1>1, <1>5, <2>1 DEF Pay!ChargedOnce
<1>8. \A p \in payProcessed' :
        \E n \in DOMAIN payOutbox' : payOutbox'[n] = Pay!Outcome(p)
  <2> SUFFICES ASSUME NEW p \in payProcessed'
               PROVE  \E n \in DOMAIN payOutbox' : payOutbox'[n] = Pay!Outcome(p)
    OBVIOUS
  <2>1. CASE p = o
    BY <1>4, <2>1
  <2>2. CASE p \in payProcessed
    <3>1. PICK n \in DOMAIN payOutbox : payOutbox[n] = Pay!Outcome(p)
      BY <2>2 DEF Pay!ChargedOnce
    <3> QED BY <1>4, <3>1
  <2> QED BY <1>5, <2>1, <2>2
<1>9. \A n \in DOMAIN payOutbox : /\ payOutbox[n].order \in payProcessed
                               /\ payOutbox[n] = Pay!Outcome(payOutbox[n].order)
  BY DEF Pay!ChargedOnce
<1>10. \A n \in DOMAIN payOutbox' : /\ payOutbox'[n].order \in payProcessed'
                                 /\ payOutbox'[n] = Pay!Outcome(payOutbox'[n].order)
  <2> HIDE DEF last
  <2> QED BY <1>2, <1>4, <1>5, <1>9
<1>11. \A m, n \in DOMAIN payOutbox' : payOutbox'[m].order = payOutbox'[n].order => m = n
  <2>1. \A m, n \in DOMAIN payOutbox : payOutbox[m].order = payOutbox[n].order => m = n
    BY DEF Pay!ChargedOnce
  <2>2. \A n \in DOMAIN payOutbox : payOutbox[n].order # o
    BY <1>9
  <2> HIDE DEF last
  <2> QED BY <1>2, <1>4, <2>1, <2>2
<1>12. Pay!ChargedOnce'
  <2>1. \A p \in payments' : p = Pay!Row(p.order)
    BY <1>7
  <2> QED BY <1>7, <1>8, <1>10, <1>11, <2>1 DEF Pay!ChargedOnce, Pay!Row,
             Pay!Outcome
<1> QED BY <1>4, <1>6, <1>12

-----------------------------------------------------------------------------
LEMMA PayInitEstablishes == Pay!Init => PayIInv
BY DEF Pay!Init, PayIInv, Pay!TypeOK, PayInHand, PayInsertedAlone,
   Pay!ChargedOnce, Pay!Paid

LEMMA PayNextPreserves == PayIInv /\ [Pay!Next]_(Pay!own) => PayIInv'
<1> SUFFICES ASSUME PayIInv, [Pay!Next]_(Pay!own) PROVE PayIInv'
  OBVIOUS
<1>1. CASE UNCHANGED Pay!own
  <2>1. Pay!TypeOK' /\ PayInHand' /\ PayInsertedAlone'
    BY <1>1 DEF PayIInv, Pay!own, Pay!TypeOK, PayInHand, PayInsertedAlone
  <2>2. Pay!ChargedOnce'
    BY <1>1 DEF PayIInv, Pay!own, Pay!ChargedOnce, Pay!Paid
  <2> QED BY <2>1, <2>2 DEF PayIInv
<1>2. ASSUME NEW c \in PayReplicas,
             \/ \E o \in Orders : Pay!Deliver(c, o)
             \/ Pay!Step(c)
             \/ Pay!HandleFails(c)
             \/ Pay!Crash(c)
      PROVE  PayIInv'
  <2>1. /\ payPc' \in [PayReplicas -> {"idle", "check", "insert", "commit"}]
        /\ payJob' \in [PayReplicas -> Orders \cup {NoOrder}]
        /\ payFailed' \subseteq Orders
        /\ PayInHand'
    BY <1>2, PayTyped DEF PayIInv
  <2>2. CASE PayQuiet(c)
    <3>1. Pay!TypeOK'
      BY <2>1, <2>2 DEF PayIInv, Pay!TypeOK, PayQuiet, Pay!NothingStored
    <3>2. Pay!ChargedOnce'
      BY <2>2 DEF PayIInv, Pay!ChargedOnce, Pay!Paid, PayQuiet,
         Pay!NothingStored
    <3>3. PayInsertedAlone'
      BY <2>2 DEF PayIInv, PayInsertedAlone, Pay!ChargedOnce, PayQuiet,
         Pay!NothingStored, Pay!HeldByOther
    <3> QED BY <2>1, <3>1, <3>2, <3>3 DEF PayIInv
  <2>3. CASE PayCommits(c)
    <3>1. payJob[c] \in Orders \ payProcessed
      BY <2>3 DEF PayIInv, PayInHand, PayInsertedAlone, PayCommits
    <3>2. Pay!Store(payJob[c])
      BY <2>3 DEF PayCommits
    <3>3. /\ payments' \subseteq [order : Orders, authorized : BOOLEAN]
          /\ payProcessed' \subseteq Orders
          /\ payOutbox' \in Seq([order : Orders,
                              event : {"PaymentAuthorized", "PaymentFailed"}])
          /\ Pay!ChargedOnce'
      BY <3>1, <3>2, PayStoreKeepsTables DEF PayIInv
    <3>4. Pay!TypeOK'
      BY <2>1, <3>3 DEF Pay!TypeOK
    <3>5. PayInsertedAlone'
      BY <2>3 DEF PayIInv, Pay!TypeOK, PayInsertedAlone, PayCommits,
         Pay!Store, Pay!End, Pay!Goto
    <3> QED BY <2>1, <3>3, <3>4, <3>5 DEF PayIInv
  <2> QED BY <1>2, <2>2, <2>3, PayTwoKindsOfStep DEF PayIInv
<1> QED BY <1>1, <1>2 DEF Pay!Next

THEOREM PayInvariance == Pay!Spec => []PayIInv
BY PayInitEstablishes, PayNextPreserves, PTL DEF Pay!Spec

(* The tables and the consumers' state keep their types.                   *)
THEOREM PayTypeCorrect == Pay!Spec => []Pay!TypeOK
<1>1. PayIInv => Pay!TypeOK
  BY DEF PayIInv
<1> QED BY <1>1, PayInvariance, PTL

(* However often and to however many replicas at once an InventoryReserved *)
(* is delivered, the order has one payment and one outbox row that agrees. *)
THEOREM PayOneCharge == Pay!Spec => []Pay!ChargedOnce
<1>1. PayIInv => Pay!ChargedOnce
  BY DEF PayIInv
<1> QED BY <1>1, PayInvariance, PTL

-----------------------------------------------------------------------------
(* The environment only adds to what is asked for: a topic forgets no      *)
(* a consumer has in its hands.                                            *)
PayTopicGrows == [][Reserved \subseteq Reserved']_Reserved

PayHandsRequested ==
  \A c \in PayReplicas : payPc[c] # "idle" => payJob[c] \in Reserved

LEMMA AppendIsConcat ==
  ASSUME NEW S, NEW q \in Seq(S), NEW e \in S
  PROVE  Append(q, e) = q \o <<e>>
OBVIOUS

LEMMA PayHandsStayRequested ==
  ASSUME Pay!TypeOK, PayHandsRequested, [Pay!Next]_(Pay!own),
         [Reserved \subseteq Reserved']_Reserved
  PROVE  PayHandsRequested'
<1>1. Reserved \subseteq Reserved'
  OBVIOUS
<1>2. CASE UNCHANGED Pay!own
  BY <1>1, <1>2 DEF PayHandsRequested, Pay!own
<1>3. ASSUME NEW c \in PayReplicas, NEW o \in Orders, Pay!Deliver(c, o)
      PROVE  PayHandsRequested'
  BY <1>1, <1>3 DEF Pay!TypeOK, PayHandsRequested, Pay!Deliver, Pay!Goto, Reserved
<1>4. ASSUME NEW c \in PayReplicas, Pay!Step(c) \/ Pay!HandleFails(c) \/ Pay!Crash(c)
      PROVE  PayHandsRequested'
  BY <1>1, <1>4 DEF Pay!TypeOK, PayHandsRequested, Pay!Goto, Pay!End,
     Pay!Step, Pay!AlreadyProcessed,
     Pay!NotProcessed, Pay!InsertPayment, Pay!DuplicatePayment, Pay!Commit,
     Pay!HandleFails, Pay!Crash
<1> QED BY <1>2, <1>3, <1>4 DEF Pay!Next

LEMMA PayStepImplements ==
  ASSUME PayIInv, PayHandsRequested, [Pay!Next]_(Pay!own)
  PROVE  [Pay!Once!Next]_<<payProcessed, payOutbox>>
<1>1. CASE UNCHANGED Pay!own
  BY <1>1 DEF Pay!own
<1>2. ASSUME NEW c \in PayReplicas, PayQuiet(c)
      PROVE  UNCHANGED <<payProcessed, payOutbox>>
  BY <1>2 DEF PayQuiet, Pay!NothingStored
<1>3. ASSUME NEW c \in PayReplicas, PayCommits(c)
      PROVE  Pay!Once!Next
  <2> DEFINE o == payJob[c]
             Rows == [order : Orders, event : {"PaymentAuthorized", "PaymentFailed"}]
  <2>1. o \in Orders /\ o \in Reserved \ payProcessed
    BY <1>3 DEF PayIInv, PayInHand, PayInsertedAlone, PayHandsRequested,
       PayCommits
  <2>2. /\ payProcessed' = payProcessed \cup {o}
        /\ payOutbox' = Append(payOutbox, Pay!Outcome(o))
    BY <1>3 DEF PayCommits, Pay!Store
  <2>3. Pay!Outcome(o) \in Rows /\ payOutbox \in Seq(Rows)
    BY <2>1 DEF Pay!Outcome, PayIInv, Pay!TypeOK
  <2>4. payOutbox' = payOutbox \o <<Pay!Outcome(o)>>
    <3> HIDE DEF o, Rows
    <3> QED BY ONLY <2>2, <2>3, AppendIsConcat
  <2>5. [p \in Orders |-> <<Pay!Outcome(p)>>][o] = <<Pay!Outcome(o)>>
    BY <2>1
  <2>6. Pay!Once!Settle(o)
    BY <2>1, <2>2, <2>4, <2>5 DEF Pay!Once!Settle, Reserved
  <2> QED BY <2>1, <2>6 DEF Pay!Once!Next
<1>4. ASSUME NEW c \in PayReplicas,
             \/ \E o \in Orders : Pay!Deliver(c, o)
             \/ Pay!Step(c)
             \/ Pay!HandleFails(c)
             \/ Pay!Crash(c)
      PROVE  [Pay!Once!Next]_<<payProcessed, payOutbox>>
  BY <1>2, <1>3, <1>4, PayTwoKindsOfStep DEF PayIInv
<1> QED BY <1>1, <1>4 DEF Pay!Next

(* The transactions of all the replicas look like settling each order that *)
(* was asked for in one step, once.                                        *)
THEOREM PayImplementation == Pay!Spec /\ PayTopicGrows => Pay!ImplementsOnceOnly
<1>1. Pay!Init => Pay!Once!Init /\ PayHandsRequested
  BY DEF Pay!Init, Pay!Once!Init, PayHandsRequested
<1>2. PayHandsRequested /\ Pay!TypeOK /\ [Pay!Next]_(Pay!own)
        /\ [Reserved \subseteq Reserved']_Reserved
        => PayHandsRequested'
  BY PayHandsStayRequested
<1>3. PayIInv /\ PayHandsRequested /\ [Pay!Next]_(Pay!own)
        => [Pay!Once!Next]_<<payProcessed, payOutbox>>
  BY PayStepImplements
<1>4. PayIInv => Pay!TypeOK
  BY DEF PayIInv
<1> QED BY <1>1, <1>2, <1>3, <1>4, PayInvariance, PTL
           DEF Pay!Spec, PayTopicGrows, Pay!ImplementsOnceOnly, Pay!Once!Spec

-----------------------------------------------------------------------------
ShipInserted(c) == shipPc[c] \in {"mark", "commit"}

(* Past its INSERT, a transaction either is the only one of its order or   *)
(* has a committed fulfillment before it, and then never gets to commit.   *)
ShipInsertedAlone ==
  \A c \in ShipReplicas :
    /\ shipPc[c] = "commit" => shipJob[c] \notin shipProcessed
    /\ ShipInserted(c) /\ shipJob[c] \notin fulfillments =>
         \A d \in ShipReplicas \ {c} : ShipInserted(d) => shipJob[d] # shipJob[c]

ShipInHand == \A c \in ShipReplicas : shipPc[c] # "idle" => shipJob[c] \in Orders

ShipIInv == Ship!TypeOK /\ ShipInHand /\ ShipInsertedAlone /\ Ship!FulfilledOnce

(* A step that changes no table; if it brings c past its INSERT, nobody    *)
(* held the row, and if it brings c to its commit, no mark was there.      *)
ShipQuiet(c) ==
  /\ Ship!NothingStored
  /\ \A d \in ShipReplicas \ {c} : shipPc'[d] = shipPc[d] /\ shipJob'[d] = shipJob[d]
  /\ shipPc'[c] = "mark" => shipJob'[c] = shipJob[c] /\ ~Ship!HeldByOther(c, shipJob[c])
  /\ shipPc'[c] = "commit" => /\ shipPc[c] = "mark"
                          /\ shipJob'[c] = shipJob[c]
                          /\ shipJob[c] \notin shipProcessed

(* A transaction that commits, whether its consumer learns of it or not.   *)
ShipCommits(c) == shipPc[c] = "commit" /\ Ship!Store(shipJob[c]) /\ Ship!End(c)

ShipRows == [order : Orders, event : {"FulfillmentCreated", "OrderReadyForShipment"}]

LEMMA ShipTyped ==
  ASSUME Ship!TypeOK, ShipInHand, NEW c \in ShipReplicas,
         \/ \E o \in Orders : Ship!Deliver(c, o)
         \/ Ship!Step(c)
         \/ Ship!HandleFails(c)
         \/ Ship!Crash(c)
  PROVE  /\ shipPc' \in [ShipReplicas ->
                          {"idle", "check", "insert", "mark", "commit"}]
         /\ shipJob' \in [ShipReplicas -> Orders \cup {NoOrder}]
         /\ shipFailed' \subseteq Orders
         /\ ShipInHand'
<1> USE DEF Ship!TypeOK, ShipInHand, Ship!Goto, Ship!End
<1>1. ASSUME NEW o \in Orders, Ship!Deliver(c, o)
      PROVE  /\ shipPc' \in [ShipReplicas ->
                          {"idle", "check", "insert", "mark", "commit"}]
             /\ shipJob' \in [ShipReplicas -> Orders \cup {NoOrder}]
             /\ shipFailed' \subseteq Orders
             /\ ShipInHand'
  BY <1>1 DEF Ship!Deliver
<1>2. CASE Ship!Step(c)
  BY <1>2 DEF Ship!Step, Ship!AlreadyProcessed, Ship!NotProcessed,
     Ship!InsertFulfillment, Ship!MarkProcessed,
     Ship!DuplicateMark, Ship!Commit
<1>3. CASE Ship!HandleFails(c) \/ Ship!Crash(c)
  BY <1>3 DEF Ship!HandleFails, Ship!Crash
<1> QED BY <1>1, <1>2, <1>3

LEMMA ShipTwoKindsOfStep ==
  ASSUME Ship!TypeOK, NEW c \in ShipReplicas,
         \/ \E o \in Orders : Ship!Deliver(c, o)
         \/ Ship!Step(c)
         \/ Ship!HandleFails(c)
         \/ Ship!Crash(c)
  PROVE  ShipQuiet(c) \/ ShipCommits(c)
<1> USE DEF Ship!TypeOK, ShipQuiet, ShipCommits, Ship!Goto, Ship!End
<1>1. ASSUME NEW o \in Orders, Ship!Deliver(c, o) PROVE ShipQuiet(c)
  BY <1>1 DEF Ship!Deliver
<1>2. CASE Ship!Step(c)
  BY <1>2 DEF Ship!Step, Ship!AlreadyProcessed, Ship!NotProcessed,
     Ship!InsertFulfillment, Ship!MarkProcessed,
     Ship!DuplicateMark, Ship!Commit
<1>3. CASE Ship!HandleFails(c) \/ Ship!Crash(c)
  BY <1>3 DEF Ship!HandleFails, Ship!Crash
<1> QED BY <1>1, <1>2, <1>3

(* The outbox gains two rows.                                              *)
LEMMA TwoRowsMore ==
  ASSUME NEW S, NEW q \in Seq(S), NEW a \in S, NEW b \in S, NEW s, s = q \o <<a, b>>
  PROVE  /\ s \in Seq(S)
         /\ DOMAIN s = DOMAIN q \cup {Len(q) + 1, Len(q) + 2}
         /\ DOMAIN q = 1..Len(q) /\ Len(q) \in Nat
         /\ s[Len(q) + 1] = a
         /\ s[Len(q) + 2] = b
         /\ \A n \in DOMAIN q : s[n] = q[n]
<1>1. <<a, b>> \in Seq(S) /\ Len(<<a, b>>) = 2
  OBVIOUS
<1>2. s \in Seq(S) /\ Len(s) = Len(q) + 2 /\ Len(q) \in Nat
  BY <1>1
<1>3. DOMAIN s = 1..(Len(q) + 2) /\ DOMAIN q = 1..Len(q)
  BY <1>2
<1>4. DOMAIN s = DOMAIN q \cup {Len(q) + 1, Len(q) + 2}
  BY <1>2, <1>3
<1>5. \A n \in DOMAIN q : s[n] = q[n]
  BY <1>2, <1>3
<1>6. s[Len(q) + 1] = <<a, b>>[1] /\ s[Len(q) + 2] = <<a, b>>[2]
  BY <1>1, <1>2
<1> QED BY <1>2, <1>3, <1>4, <1>5, <1>6

(* Committing the fulfillment of an order that has none keeps the tables   *)
(* in step.                                                                *)
LEMMA ShipStoreKeepsTables ==
  ASSUME Ship!TypeOK, Ship!FulfilledOnce, NEW o \in Orders \ shipProcessed,
         Ship!Store(o)
  PROVE  /\ fulfillments' \subseteq Orders
         /\ shipProcessed' \subseteq Orders
         /\ shipOutbox' \in Seq(ShipRows)
         /\ Ship!FulfilledOnce'
<1> DEFINE a == Ship!Outcome(o, "FulfillmentCreated")
           b == Ship!Outcome(o, "OrderReadyForShipment")
           k == Len(shipOutbox)
<1>1. /\ a \in ShipRows /\ a.order = o /\ a.event = "FulfillmentCreated"
      /\ b \in ShipRows /\ b.order = o /\ b.event = "OrderReadyForShipment"
  BY DEF Ship!Outcome, ShipRows
<1>2. shipOutbox \in Seq(ShipRows) /\ shipOutbox' = shipOutbox \o <<a, b>>
  BY DEF Ship!TypeOK, Ship!Store, Ship!Outcomes, ShipRows
<1>3. /\ shipOutbox' \in Seq(ShipRows)
      /\ DOMAIN shipOutbox' = DOMAIN shipOutbox \cup {k + 1, k + 2}
      /\ DOMAIN shipOutbox = 1..k /\ k \in Nat
      /\ shipOutbox'[k + 1] = a
      /\ shipOutbox'[k + 2] = b
      /\ \A n \in DOMAIN shipOutbox : shipOutbox'[n] = shipOutbox[n]
  <2> HIDE DEF a, b
  <2> QED BY ONLY <1>1, <1>2, TwoRowsMore
<1>4. /\ fulfillments' = fulfillments \cup {o}
      /\ shipProcessed' = shipProcessed \cup {o}
      /\ fulfillments = shipProcessed
  BY DEF Ship!Store, Ship!FulfilledOnce
<1>5. \A n \in DOMAIN shipOutbox :
        /\ shipOutbox[n].order \in shipProcessed
        /\ shipOutbox[n].event = "OrderReadyForShipment"
             => /\ n > 1
                /\ shipOutbox[n - 1] = Ship!Outcome(shipOutbox[n].order, "FulfillmentCreated")
  BY DEF Ship!FulfilledOnce
<1>6. \A m, n \in DOMAIN shipOutbox : shipOutbox[m] = shipOutbox[n] => m = n
  BY DEF Ship!FulfilledOnce
<1>7. \A p \in shipProcessed : \E n \in DOMAIN shipOutbox :
        shipOutbox[n] = Ship!Outcome(p, "OrderReadyForShipment")
  BY DEF Ship!FulfilledOnce
<1>8. \A p \in shipProcessed' : \E n \in DOMAIN shipOutbox' :
        shipOutbox'[n] = Ship!Outcome(p, "OrderReadyForShipment")
  <2> SUFFICES ASSUME NEW p \in shipProcessed'
               PROVE  \E n \in DOMAIN shipOutbox' :
                        shipOutbox'[n] = Ship!Outcome(p, "OrderReadyForShipment")
    OBVIOUS
  <2>1. CASE p = o
    BY <1>3, <2>1
  <2>2. CASE p \in shipProcessed
    <3>1. PICK n \in DOMAIN shipOutbox :
            shipOutbox[n] = Ship!Outcome(p, "OrderReadyForShipment")
      BY <1>7, <2>2
    <3> QED BY <1>3, <3>1
  <2> QED BY <1>4, <2>1, <2>2
<1>9. \A n \in DOMAIN shipOutbox' :
        /\ shipOutbox'[n].order \in shipProcessed'
        /\ shipOutbox'[n].event = "OrderReadyForShipment"
             => /\ n > 1
                /\ shipOutbox'[n - 1] = Ship!Outcome(shipOutbox'[n].order, "FulfillmentCreated")
  <2> SUFFICES ASSUME NEW n \in DOMAIN shipOutbox'
               PROVE  /\ shipOutbox'[n].order \in shipProcessed'
                      /\ shipOutbox'[n].event = "OrderReadyForShipment"
                           => /\ n > 1
                              /\ shipOutbox'[n - 1] = Ship!Outcome(shipOutbox'[n].order, "FulfillmentCreated")
    OBVIOUS
  <2>1. CASE n \in DOMAIN shipOutbox
    <3>1. shipOutbox'[n] = shipOutbox[n] /\ shipOutbox[n].order \in shipProcessed'
      BY <1>3, <1>4, <1>5, <2>1
    <3>2. ASSUME shipOutbox[n].event = "OrderReadyForShipment"
          PROVE  /\ n > 1
                 /\ shipOutbox'[n - 1] = Ship!Outcome(shipOutbox[n].order, "FulfillmentCreated")
      <4>1. /\ n > 1
            /\ shipOutbox[n - 1] = Ship!Outcome(shipOutbox[n].order, "FulfillmentCreated")
        BY <1>5, <2>1, <3>2
      <4>2. n - 1 \in DOMAIN shipOutbox
        BY <1>3, <2>1, <4>1
      <4> QED BY <1>3, <4>1, <4>2
    <3> QED BY <3>1, <3>2
  <2>2. CASE n = k + 1
    <3> HIDE DEF a, b, k
    <3> QED BY <1>1, <1>3, <1>4, <2>2
  <2>3. CASE n = k + 2
    <3>1. n > 1 /\ n - 1 = k + 1
      BY <1>3, <2>3
    <3> QED BY <1>1, <1>3, <1>4, <2>3, <3>1
  <2> QED BY <1>3, <2>1, <2>2, <2>3
<1>10. \A m, n \in DOMAIN shipOutbox' : shipOutbox'[m] = shipOutbox'[n] => m = n
  <2>1. \A n \in DOMAIN shipOutbox : shipOutbox[n].order # o
    BY <1>5
  <2>2. a # b
    BY <1>1
  <2> HIDE DEF a, b, k
  <2> QED BY <1>1, <1>3, <1>6, <2>1, <2>2
<1>11. fulfillments' = shipProcessed' /\ shipProcessed' \subseteq Orders
  BY <1>4 DEF Ship!TypeOK
<1>12. Ship!FulfilledOnce'
  BY <1>8, <1>9, <1>10, <1>11 DEF Ship!FulfilledOnce, Ship!Outcome
<1> QED BY <1>3, <1>11, <1>12

-----------------------------------------------------------------------------
LEMMA ShipInitEstablishes == Ship!Init => ShipIInv
BY DEF Ship!Init, ShipIInv, Ship!TypeOK, ShipInHand, ShipInsertedAlone,
   Ship!FulfilledOnce, ShipInserted

LEMMA ShipNextPreserves == ShipIInv /\ [Ship!Next]_(Ship!own) => ShipIInv'
<1> SUFFICES ASSUME ShipIInv, [Ship!Next]_(Ship!own) PROVE ShipIInv'
  OBVIOUS
<1>1. CASE UNCHANGED Ship!own
  <2>1. Ship!TypeOK' /\ ShipInHand' /\ ShipInsertedAlone'
    BY <1>1 DEF ShipIInv, Ship!own, Ship!TypeOK, ShipInHand,
       ShipInsertedAlone, ShipInserted
  <2>2. Ship!FulfilledOnce'
    BY <1>1 DEF ShipIInv, Ship!own, Ship!FulfilledOnce
  <2> QED BY <2>1, <2>2 DEF ShipIInv
<1>2. ASSUME NEW c \in ShipReplicas,
             \/ \E o \in Orders : Ship!Deliver(c, o)
             \/ Ship!Step(c)
             \/ Ship!HandleFails(c)
             \/ Ship!Crash(c)
      PROVE  ShipIInv'
  <2>1. /\ shipPc' \in [ShipReplicas ->
                          {"idle", "check", "insert", "mark", "commit"}]
        /\ shipJob' \in [ShipReplicas -> Orders \cup {NoOrder}]
        /\ shipFailed' \subseteq Orders
        /\ ShipInHand'
    BY <1>2, ShipTyped DEF ShipIInv
  <2>2. CASE ShipQuiet(c)
    <3>1. Ship!TypeOK'
      BY <2>1, <2>2 DEF ShipIInv, Ship!TypeOK, ShipQuiet, Ship!NothingStored
    <3>2. Ship!FulfilledOnce'
      BY <2>2 DEF ShipIInv, Ship!FulfilledOnce, ShipQuiet, Ship!NothingStored
    <3>3. ShipInsertedAlone'
      BY <2>2 DEF ShipIInv, ShipInsertedAlone, ShipInserted,
         Ship!FulfilledOnce, ShipQuiet, Ship!NothingStored, Ship!HeldByOther
    <3> QED BY <2>1, <3>1, <3>2, <3>3 DEF ShipIInv
  <2>3. CASE ShipCommits(c)
    <3>1. shipJob[c] \in Orders \ shipProcessed
      BY <2>3 DEF ShipIInv, ShipInHand, ShipInsertedAlone, ShipCommits
    <3>2. Ship!Store(shipJob[c])
      BY <2>3 DEF ShipCommits
    <3>3. /\ fulfillments' \subseteq Orders
          /\ shipProcessed' \subseteq Orders
          /\ shipOutbox' \in Seq(ShipRows)
          /\ Ship!FulfilledOnce'
      BY <3>1, <3>2, ShipStoreKeepsTables DEF ShipIInv
    <3>4. Ship!TypeOK'
      BY <2>1, <3>3 DEF Ship!TypeOK, ShipRows
    <3>5. ShipInsertedAlone'
      BY <2>3 DEF ShipIInv, Ship!TypeOK, ShipInsertedAlone, ShipInserted,
         Ship!FulfilledOnce, ShipCommits, Ship!Store, Ship!End, Ship!Goto
    <3> QED BY <2>1, <3>3, <3>4, <3>5 DEF ShipIInv
  <2> QED BY <1>2, <2>2, <2>3, ShipTwoKindsOfStep DEF ShipIInv
<1> QED BY <1>1, <1>2 DEF Ship!Next

THEOREM ShipInvariance == Ship!Spec => []ShipIInv
BY ShipInitEstablishes, ShipNextPreserves, PTL DEF Ship!Spec

(* The tables and the consumers' state keep their types.                   *)
THEOREM ShipTypeCorrect == Ship!Spec => []Ship!TypeOK
<1>1. ShipIInv => Ship!TypeOK
  BY DEF ShipIInv
<1> QED BY <1>1, ShipInvariance, PTL

(* However often and to however many replicas at once a PaymentAuthorized  *)
(* is delivered, the order has one fulfillment and its two events once,    *)
(* in order.                                                               *)
THEOREM ShipOneFulfillment == Ship!Spec => []Ship!FulfilledOnce
<1>1. ShipIInv => Ship!FulfilledOnce
  BY DEF ShipIInv
<1> QED BY <1>1, ShipInvariance, PTL

-----------------------------------------------------------------------------
(* The environment only adds to what is asked for: a topic forgets no      *)
(* a consumer has in its hands.                                            *)
ShipTopicGrows == [][Authorised \subseteq Authorised']_Authorised

ShipHandsRequested ==
  \A c \in ShipReplicas : shipPc[c] # "idle" => shipJob[c] \in Authorised

LEMMA ShipHandsStayRequested ==
  ASSUME Ship!TypeOK, ShipHandsRequested, [Ship!Next]_(Ship!own),
         [Authorised \subseteq Authorised']_Authorised
  PROVE  ShipHandsRequested'
<1>1. Authorised \subseteq Authorised'
  OBVIOUS
<1>2. CASE UNCHANGED Ship!own
  BY <1>1, <1>2 DEF ShipHandsRequested, Ship!own
<1>3. ASSUME NEW c \in ShipReplicas, NEW o \in Orders, Ship!Deliver(c, o)
      PROVE  ShipHandsRequested'
  BY <1>1, <1>3 DEF Ship!TypeOK, ShipHandsRequested, Ship!Deliver, Ship!Goto, Authorised
<1>4. ASSUME NEW c \in ShipReplicas, Ship!Step(c) \/ Ship!HandleFails(c) \/ Ship!Crash(c)
      PROVE  ShipHandsRequested'
  BY <1>1, <1>4 DEF Ship!TypeOK, ShipHandsRequested, Ship!Goto, Ship!End,
     Ship!Step, Ship!AlreadyProcessed,
     Ship!NotProcessed, Ship!InsertFulfillment, Ship!MarkProcessed,
     Ship!DuplicateMark, Ship!Commit, Ship!HandleFails, Ship!Crash
<1> QED BY <1>2, <1>3, <1>4 DEF Ship!Next

LEMMA ShipStepImplements ==
  ASSUME ShipIInv, ShipHandsRequested, [Ship!Next]_(Ship!own)
  PROVE  [Ship!Once!Next]_<<shipProcessed, shipOutbox>>
<1>1. CASE UNCHANGED Ship!own
  BY <1>1 DEF Ship!own
<1>2. ASSUME NEW c \in ShipReplicas, ShipQuiet(c)
      PROVE  UNCHANGED <<shipProcessed, shipOutbox>>
  BY <1>2 DEF ShipQuiet, Ship!NothingStored
<1>3. ASSUME NEW c \in ShipReplicas, ShipCommits(c)
      PROVE  Ship!Once!Next
  <2>1. shipJob[c] \in Orders /\ shipJob[c] \in Authorised \ shipProcessed
    BY <1>3 DEF ShipIInv, ShipInHand, ShipInsertedAlone, ShipHandsRequested,
       ShipCommits
  <2>2. /\ shipProcessed' = shipProcessed \cup {shipJob[c]}
        /\ shipOutbox' = shipOutbox \o Ship!Outcomes(shipJob[c])
    BY <1>3 DEF ShipCommits, Ship!Store
  <2>3. [p \in Orders |-> Ship!Outcomes(p)][shipJob[c]] = Ship!Outcomes(shipJob[c])
    BY <2>1
  <2>4. Ship!Once!Settle(shipJob[c])
    BY <2>1, <2>2, <2>3 DEF Ship!Once!Settle, Authorised
  <2> QED BY <2>1, <2>4 DEF Ship!Once!Next
<1>4. ASSUME NEW c \in ShipReplicas,
             \/ \E o \in Orders : Ship!Deliver(c, o)
             \/ Ship!Step(c)
             \/ Ship!HandleFails(c)
             \/ Ship!Crash(c)
      PROVE  [Ship!Once!Next]_<<shipProcessed, shipOutbox>>
  BY <1>2, <1>3, <1>4, ShipTwoKindsOfStep DEF ShipIInv
<1> QED BY <1>1, <1>4 DEF Ship!Next

(* The transactions of all the replicas look like settling each order that *)
(* was asked for in one step, once.                                        *)
THEOREM ShipImplementation == Ship!Spec /\ ShipTopicGrows => Ship!ImplementsOnceOnly
<1>1. Ship!Init => Ship!Once!Init /\ ShipHandsRequested
  BY DEF Ship!Init, Ship!Once!Init, ShipHandsRequested
<1>2. ShipHandsRequested /\ Ship!TypeOK /\ [Ship!Next]_(Ship!own)
        /\ [Authorised \subseteq Authorised']_Authorised
        => ShipHandsRequested'
  BY ShipHandsStayRequested
<1>3. ShipIInv /\ ShipHandsRequested /\ [Ship!Next]_(Ship!own)
        => [Ship!Once!Next]_<<shipProcessed, shipOutbox>>
  BY ShipStepImplements
<1>4. ShipIInv => Ship!TypeOK
  BY DEF ShipIInv
<1> QED BY <1>1, <1>2, <1>3, <1>4, ShipInvariance, PTL
           DEF Ship!Spec, ShipTopicGrows, Ship!ImplementsOnceOnly,
           Ship!Once!Spec

-----------------------------------------------------------------------------
(* Every step of the system is a step of one service or none of it.        *)
LEMMA PaymentSteps == [Next]_vars => [Pay!Next]_(Pay!own)
<1>1. PayStep => Pay!Next
  BY DEF PayStep
<1> QED BY <1>1 DEF Next, vars, Pay!own, payment, Settle, Publish,
           PublishAgain,
           ShipStep, ShowStep

LEMMA FulfillmentSteps == [Next]_vars => [Ship!Next]_(Ship!own)
<1>1. ShipStep => Ship!Next
  BY DEF ShipStep
<1> QED BY <1>1 DEF Next, vars, Ship!own, fulfillment, Settle, Publish,
           PublishAgain,
           PayStep, ShowStep

LEMMA PaymentSpec == Spec => Pay!Spec
<1>1. Init => Pay!Init
  BY DEF Init
<1> QED BY <1>1, PaymentSteps, PTL DEF Spec, Pay!Spec

LEMMA FulfillmentSpec == Spec => Ship!Spec
<1>1. Init => Ship!Init
  BY DEF Init
<1> QED BY <1>1, FulfillmentSteps, PTL DEF Spec, Ship!Spec

-----------------------------------------------------------------------------
(* In the whole system, with its workers' repetitions, an order has one    *)
(* payment and one outbox row that agrees.                                 *)
THEOREM OneCharge == Spec => []ChargedOnce
BY PaymentSpec, PayOneCharge, PTL DEF ChargedOnce

(* In the whole system an order has one fulfillment and its two events     *)
(* once, in order.                                                         *)
THEOREM OneFulfillment == Spec => []FulfilledOnce
BY FulfillmentSpec, ShipOneFulfillment, PTL DEF FulfilledOnce

-----------------------------------------------------------------------------
(* A topic is a sequence, whatever its messages are.                       *)
TopicsAreLogs == /\ DOMAIN topic = Topics
                 /\ \A t \in Topics : \E S : topic[t] \in Seq(S)

(* Every topic keeps its messages.                                         *)
LogsGrow == \A t \in Topics : /\ DOMAIN topic[t] \subseteq DOMAIN topic[t]'
                              /\ \A n \in DOMAIN topic[t] : topic[t]'[n] = topic[t][n]

LEMMA LogTakesRow ==
  ASSUME NEW S, NEW q \in Seq(S), NEW e
  PROVE  /\ \E T : Append(q, e) \in Seq(T)
         /\ DOMAIN q \subseteq DOMAIN Append(q, e)
         /\ \A n \in DOMAIN q : Append(q, e)[n] = q[n]
<1>1. q \in Seq(S \cup {e}) /\ e \in S \cup {e}
  OBVIOUS
<1>2. Append(q, e) \in Seq(S \cup {e})
  BY <1>1
<1> QED BY <1>1, <1>2

LEMMA TopicSteps ==
  ASSUME TopicsAreLogs, [Next]_vars
  PROVE  TopicsAreLogs' /\ LogsGrow
<1>1. CASE UNCHANGED topic
  BY <1>1 DEF TopicsAreLogs, LogsGrow
<1>2. ASSUME NEW t \in Topics, NEW row, Write(t, row)
      PROVE  TopicsAreLogs' /\ LogsGrow
  <2>1. PICK S : topic[t] \in Seq(S)
    BY DEF TopicsAreLogs
  <2>2. /\ DOMAIN topic' = Topics
        /\ topic'[t] = Append(topic[t], row)
        /\ \A u \in Topics \ {t} : topic'[u] = topic[u]
    BY <1>2 DEF Write, TopicsAreLogs
  <2>3. /\ \E T : topic'[t] \in Seq(T)
        /\ DOMAIN topic[t] \subseteq DOMAIN topic'[t]
        /\ \A n \in DOMAIN topic[t] : topic'[t][n] = topic[t][n]
    <3>1. /\ \E T : Append(topic[t], row) \in Seq(T)
          /\ DOMAIN topic[t] \subseteq DOMAIN Append(topic[t], row)
          /\ \A n \in DOMAIN topic[t] : Append(topic[t], row)[n] = topic[t][n]
      <4> HIDE DEF TopicsAreLogs
      <4> QED BY ONLY <2>1, LogTakesRow
    <3>2. topic'[t] = Append(topic[t], row)
      BY <2>2
    <3> QED BY ONLY <3>1, <3>2, Zenon
  <2>4. TopicsAreLogs'
    BY <2>2, <2>3 DEF TopicsAreLogs
  <2>5. LogsGrow
    BY <2>2, <2>3 DEF LogsGrow
  <2> QED BY <2>4, <2>5
<1>3. ASSUME NEW t \in Topics, Publish(t) \/ PublishAgain(t)
      PROVE  \E row : Write(t, row)
  BY <1>3 DEF Publish, PublishAgain
<1>4. (\E t \in Topics : Publish(t) \/ PublishAgain(t)) \/ UNCHANGED topic
  BY DEF Next, vars, kafka, Settle, PayStep, ShipStep, ShowStep
<1> QED BY <1>1, <1>2, <1>3, <1>4

LEMMA TopicsStayLogs == Spec => []TopicsAreLogs
<1>1. Init => TopicsAreLogs
  <2> SUFFICES ASSUME Init PROVE TopicsAreLogs
    OBVIOUS
  <2>1. \A t \in Topics : topic[t] \in Seq({})
    BY DEF Init
  <2> QED BY <2>1 DEF Init, TopicsAreLogs
<1>2. TopicsAreLogs /\ [Next]_vars => TopicsAreLogs'
  BY TopicSteps
<1> QED BY <1>1, <1>2, PTL DEF Spec

LEMMA AnnouncedGrows ==
  ASSUME LogsGrow, NEW t \in Topics, NEW e
  PROVE  Announced(t, e) \subseteq Announced(t, e)'
BY DEF LogsGrow, Announced

LEMMA TopicGrows == Spec => PayTopicGrows /\ ShipTopicGrows
<1>1. TopicsAreLogs /\ [Next]_vars =>
        /\ [Reserved \subseteq Reserved']_Reserved
        /\ [Authorised \subseteq Authorised']_Authorised
  BY TopicSteps, AnnouncedGrows DEF Topics, Reserved, Authorised
<1> QED BY <1>1, TopicsStayLogs, PTL
        DEF Spec, PayTopicGrows, ShipTopicGrows

(* In the whole system Payment settles each order it was asked for in one  *)
(* step, once, and Fulfillment each order that was paid for.               *)
THEOREM Implementation == Spec => ServicesImplementOnceOnly
BY PaymentSpec, FulfillmentSpec, TopicGrows, PayImplementation,
   ShipImplementation, PTL DEF ServicesImplementOnceOnly
=============================================================================
