------------------------------ MODULE Pipeline ------------------------------
(***************************************************************************)
(* An order's way through the system: the Inventory Service (what          *)
(* Reservation.tla promises of it), the Payment and Fulfillment Services   *)
(* with their transactions, the topics between them, and the Order         *)
(* Service's status consumer, which reads all three topics.                *)
(*                                                                         *)
(* A topic is what the outbox workers of Outbox.tla make of a service's    *)
(* rows on a broker that loses nothing: each row in turn, and any of them  *)
(* again later, since two replicas may fetch the same row and a worker may *)
(* die before it marks one.  The orders' OrderCreated events are in their  *)
(* topic from the start.                                                   *)
(***************************************************************************)
EXTENDS Naturals, Sequences, FiniteSets

CONSTANTS Orders,
          Stock,         \* units of the one SKU that every order asks for
          Authorized,    \* the orders that simulateAuthorization says yes to
          PayReplicas,   \* consumers of the Payment Service
          ShipReplicas,  \* consumers of the Fulfillment Service
          NoOrder,
          MaxFaults      \* bound on failures and repetitions of a behaviour

ASSUME PipelineAssumption == /\ Stock \in Nat
                             /\ Authorized \subseteq Orders
                             /\ NoOrder \notin Orders
                             /\ MaxFaults \in Nat

VARIABLES available, reserved, reservations, invOutbox,
          payments, payProcessed, payOutbox, payPc, payJob, payFailed,
          fulfillments, shipProcessed, shipOutbox, shipPc, shipJob, shipFailed,
          topic,   \* the messages of each topic
          sent,    \* how many outbox rows of each service are published
          status, committed, next, readerPc, late, missed,
          faults

inventory == <<available, reserved, reservations, invOutbox>>
payment == <<payments, payProcessed, payOutbox, payPc, payJob, payFailed>>
fulfillment ==
  <<fulfillments, shipProcessed, shipOutbox, shipPc, shipJob, shipFailed>>
kafka == <<topic, sent>>
statusConsumer == <<status, committed, next, readerPc, late, missed>>

vars == <<inventory, payment, fulfillment, kafka, statusConsumer, faults>>

Topics == {"inventory-events", "payment-events", "fulfillment-events"}

(* Slips of a programmer, which no specification here uses: README.md says *)
(* which definition each would replace and which property then fails.      *)
AnyInventoryEvent(t, e) ==
  {o \in Orders : \E n \in DOMAIN topic[t] : topic[t][n].order = o}

(* The orders with such a message in the topic: what its consumers may be  *)
(* given, at any time and any number of times.                             *)
Announced(t, e) ==
  {o \in Orders : \E n \in DOMAIN topic[t] : topic[t][n] = [order |-> o, event |-> e]}

Inv == INSTANCE Reservation
         WITH Skus <- {"sku"}, Catalog <- {"sku"},
              InitialStock <- [s \in {"sku"} |-> Stock],
              Qty <- [o \in Orders |-> [s \in {"sku"} |-> 1]],
              outbox <- invOutbox

Pay == INSTANCE Payment
         WITH Consumers <- PayReplicas,
              requested <- Announced("inventory-events", "InventoryReserved"),
              processed <- payProcessed, outbox <- payOutbox,
              pc <- payPc, job <- payJob, failed <- payFailed

Ship == INSTANCE Fulfillment
          WITH Consumers <- ShipReplicas,
               requested <- Announced("payment-events", "PaymentAuthorized"),
               processed <- shipProcessed, outbox <- shipOutbox,
               pc <- shipPc, job <- shipJob, failed <- shipFailed

Show == INSTANCE StatusConsumer WITH pc <- readerPc

Outbox(t) == CASE t = "inventory-events"   -> invOutbox
               [] t = "payment-events"     -> payOutbox
               [] t = "fulfillment-events" -> shipOutbox

Init == /\ Inv!Init
        /\ Pay!Init
        /\ Ship!Init
        /\ Show!Init
        /\ topic = [t \in Topics |-> << >>]
        /\ sent = [t \in Topics |-> 0]
        /\ faults = 0

Fault == faults < MaxFaults /\ faults' = faults + 1

Write(t, row) == topic' = [topic EXCEPT ![t] = Append(@, row)]

Settle(o) ==
  /\ Inv!Reserve(o) \/ Inv!Refuse(o)
  /\ UNCHANGED <<payment, fulfillment, kafka, statusConsumer, faults>>

(* Slips of a programmer, which no specification here uses: README.md says *)
(* which definition each would replace and which property then fails.      *)
LastRowOnly(t) ==
  /\ sent[t] < Len(Outbox(t))
  /\ Write(t, Outbox(t)[Len(Outbox(t))])
  /\ sent' = [sent EXCEPT ![t] = Len(Outbox(t))]
  /\ UNCHANGED <<inventory, payment, fulfillment, statusConsumer, faults>>

(* publishBatch comes to the first row that is not published yet.          *)
Publish(t) ==
  /\ sent[t] < Len(Outbox(t))
  /\ Write(t, Outbox(t)[sent[t] + 1])
  /\ sent' = [sent EXCEPT ![t] = @ + 1]
  /\ UNCHANGED <<inventory, payment, fulfillment, statusConsumer, faults>>

(* Another replica fetched the row too, or the mark was not made.          *)
PublishAgain(t) ==
  /\ Fault
  /\ \E n \in 1..sent[t] : Write(t, Outbox(t)[n])
  /\ UNCHANGED <<inventory, payment, fulfillment, statusConsumer, sent>>

(* One step of a service, with what the others own unchanged.              *)
PayStep == Pay!Next /\ UNCHANGED <<inventory, fulfillment, kafka, statusConsumer>>
ShipStep == Ship!Next /\ UNCHANGED <<inventory, payment, kafka, statusConsumer>>
ShowStep == Show!Next /\ UNCHANGED <<inventory, payment, fulfillment, kafka>>

Next == \/ \E o \in Orders : Settle(o)
        \/ \E t \in Topics : Publish(t) \/ PublishAgain(t)
        \/ PayStep
        \/ ShipStep
        \/ ShowStep

Spec == Init /\ [][Next]_vars

-----------------------------------------------------------------------------
(* What the services and workers do when nothing fails; the groups deliver *)
(* what they still owe.                                                    *)
PayDue == \E c \in PayReplicas :
  Pay!Step(c) \/ \E o \in Orders : Pay!Due(o) /\ Pay!Deliver(c, o)

ShipDue == \E c \in ShipReplicas :
  Ship!Step(c) \/ \E o \in Orders : Ship!Due(o) /\ Ship!Deliver(c, o)

Progress ==
  \/ \E o \in Orders : Settle(o)
  \/ \E t \in Topics : Publish(t)
  \/ PayStep /\ PayDue
  \/ ShipStep /\ ShipDue
  \/ ShowStep /\ \E t \in Topics : Show!consumeLoop(t) \/ Show!LateUpdate(t)

(* Somebody who can go on does.  Without new faults everybody's work comes *)
(* to an end, so nobody is left behind for ever.                           *)
Fairness == WF_vars(Progress)

FairSpec == Spec /\ Fairness

-----------------------------------------------------------------------------
Recorded(o, e) ==
  \E t \in Topics : \E n \in DOMAIN Outbox(t) :
    Outbox(t)[n] = [order |-> o, event |-> e]

(* How far the services' own tables say an order has come: the status that *)
(* the latest of its events implies.                                       *)
Course == <<"InventoryReserved", "InventoryReservationFailed", "PaymentAuthorized",
            "PaymentFailed", "OrderReadyForShipment">>

Stage(o) ==
  LET passed == {n \in DOMAIN Course : Recorded(o, Course[n])}
      last == CHOOSE n \in passed : \A m \in passed : m <= n
  IN  IF passed = {} THEN "PENDING" ELSE Show!statusByEventType[Course[last]]

(* The services' and the readers' states keep their types.                 *)
TypeOK == /\ Pay!TypeOK
          /\ Ship!TypeOK
          /\ Show!TypeOK
          /\ faults \in 0..MaxFaults
          /\ \A t \in Topics : sent[t] \in 0..Len(Outbox(t))

ChargedOnce == Pay!ChargedOnce
FulfilledOnce == Ship!FulfilledOnce

(* Both services look like settling each order in one step, once.          *)
ServicesImplementOnceOnly == Pay!ImplementsOnceOnly /\ Ship!ImplementsOnceOnly

(* No replica, repetition or failure takes an order a step it has not      *)
(* earned: nothing is paid before it is reserved or fulfilled before it is *)
(* paid, and no order both fails and goes on.                              *)
Life == INSTANCE OrderLife WITH stage <- [o \in Orders |-> Stage(o)]
FollowsOrderLife == Life!Spec

(* A final status that a client is shown is the true one: no order is said *)
(* to have failed that is still under way or fulfilled, and no order to be *)
(* fulfilled that is not.  (What is shown may still go back afterwards.)   *)
FinalStatusIsTrue ==
  \A o \in Orders : status[o] \in {"FAILED", "FULFILLED"} => status[o] = Stage(o)

(* Every order is fulfilled or fails in the end, unless handling one of    *)
(* its events returned an error.                                           *)
EveryOrderEnds ==
  \A o \in Orders : <>(\/ Stage(o) \in {"FULFILLED", "FAILED"}
                       \/ o \in payFailed \cup shipFailed)

(* A refused reservation, an order's only event, is shown as FAILED for    *)
(* good, unless an update of the order failed.                             *)
RefusalIsShown ==
  \A o \in Orders :
    Recorded(o, "InventoryReservationFailed")
      ~> [](status[o] = "FAILED") \/ o \in missed

(* "GET /orders/:id/status always reflects current state"                  *)
(* (docs/architecture.md:80): once all is quiet, the status shown is where *)
(* the order is.                                                           *)
StatusReflectsState == \A o \in Orders : <>[](status[o] = Stage(o))
=============================================================================
