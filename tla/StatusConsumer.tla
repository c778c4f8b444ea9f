--------------------------- MODULE StatusConsumer ---------------------------
(***************************************************************************)
(* The status consumer of the Order Service: one reading loop per topic of *)
(* the other services, all of one consumer group, each overwriting         *)
(* orders.status with what its event implies.  topic is the environment's. *)
(*                                                                         *)
(* As in ConsumerGroup, a reader starts at the committed offset, and one   *)
(* that lost its partition still finishes the message in its hands.        *)
(***************************************************************************)
EXTENDS Naturals, Sequences

CONSTANTS Orders,
          Topics,      \* inventory-events, payment-events, fulfillment-events
          MaxFaults    \* bound on failures and rebalances of a behaviour

VARIABLES topic,      \* topic[t]: the messages of a topic, in order
          status,     \* orders.status
          committed,  \* how many messages of a topic the group has committed
          next,       \* how many the reader of a topic has fetched
          pc,         \* where its loop is, with the last one
          late,       \* position of a message an earlier reader still holds
          missed,     \* history: orders that an update failed for
          faults

own == <<status, committed, next, pc, late, missed>>

statusByEventType == [
  InventoryReserved          |-> "INVENTORY_RESERVED",
  InventoryReservationFailed |-> "FAILED",
  PaymentAuthorized          |-> "PAYMENT_AUTHORIZED",
  PaymentFailed              |-> "FAILED",
  FulfillmentCreated         |-> "FULFILLMENT_CREATED",
  OrderReadyForShipment      |-> "FULFILLED"]

Init == /\ status = [o \in Orders |-> "PENDING"]
        /\ committed = [t \in Topics |-> 0]
        /\ next = [t \in Topics |-> 0]
        /\ pc = [t \in Topics |-> "fetch"]
        /\ late = [t \in Topics |-> 0]
        /\ missed = {}

Fault == faults < MaxFaults /\ faults' = faults + 1

Goto(t, step) == pc' = [pc EXCEPT ![t] = step]

(* Slips of a programmer, which no specification here uses: README.md says *)
(* which definition each would replace and which property then fails.      *)
WrongOrder(message) ==
  status' = [o \in Orders |-> statusByEventType[message.event]]

EventAsStatus(message) ==
  status' = [status EXCEPT ![message.order] = message.event]

CommitFirst(t) ==
  /\ pc[t] = "fetch"
  /\ next[t] < Len(topic[t])
  /\ next' = [next EXCEPT ![t] = @ + 1]
  /\ committed' = [committed EXCEPT ![t] = next[t] + 1]
  /\ Goto(t, "update")
  /\ UNCHANGED <<status, late, missed, faults>>

(* UpdateStatus: no condition on the status the order had.                 *)
Apply(message) ==
  status' = [status EXCEPT ![message.order] = statusByEventType[message.event]]

-----------------------------------------------------------------------------
FetchMessage(t) ==
  /\ pc[t] = "fetch"
  /\ next[t] < Len(topic[t])
  /\ next' = [next EXCEPT ![t] = @ + 1]
  /\ Goto(t, "update")
  /\ UNCHANGED <<status, committed, late, missed, faults>>

UpdateStatus(t) ==
  /\ pc[t] = "update"
  /\ Apply(topic[t][next[t]])
  /\ Goto(t, "commit")
  /\ UNCHANGED <<committed, next, late, missed, faults>>

(* The loop goes on to the next message without committing; the UPDATE may *)
(* have taken effect.                                                      *)
UpdateFails(t) ==
  /\ pc[t] = "update"
  /\ Fault
  /\ UNCHANGED status \/ Apply(topic[t][next[t]])
  /\ missed' = missed \cup {topic[t][next[t]].order}
  /\ Goto(t, "fetch")
  /\ UNCHANGED <<committed, next, late>>

CommitMessages(t) ==
  /\ pc[t] = "commit"
  /\ committed' = [committed EXCEPT ![t] = next[t]]
  /\ Goto(t, "fetch")
  /\ UNCHANGED <<status, next, late, missed, faults>>

CommitFails(t) ==
  /\ pc[t] = "commit"
  /\ Fault
  /\ Goto(t, "fetch")
  /\ UNCHANGED <<status, committed, next, late, missed>>

(* The process restarts, or the partition moves to the other replica: the  *)
(* new reader starts at the committed offset, and the old one may still    *)
(* have its UPDATE ahead of it.                                            *)
Rebalance(t) ==
  /\ Fault
  /\ next' = [next EXCEPT ![t] = committed[t]]
  /\ Goto(t, "fetch")
  /\ late' \in {late} \cup
               IF pc[t] = "update" THEN {[late EXCEPT ![t] = next[t]]} ELSE {}
  /\ UNCHANGED <<status, committed, missed>>

(* The old reader's UPDATE; its commit is refused.                         *)
LateUpdate(t) ==
  /\ late[t] # 0
  /\ Apply(topic[t][late[t]])
  /\ late' = [late EXCEPT ![t] = 0]
  /\ UNCHANGED <<committed, next, pc, missed, faults>>

consumeLoop(t) == FetchMessage(t) \/ UpdateStatus(t) \/ CommitMessages(t)

Next == \E t \in Topics : \/ consumeLoop(t)
                          \/ UpdateFails(t)
                          \/ CommitFails(t)
                          \/ Rebalance(t)
                          \/ LateUpdate(t)

-----------------------------------------------------------------------------
(* The types of the status column and of the readers' state.               *)
TypeOK ==
  /\ status \in [Orders ->
       {"PENDING"} \cup {statusByEventType[e] : e \in DOMAIN statusByEventType}]
  /\ \A t \in Topics : /\ next[t] \in 0..Len(topic[t])
                       /\ committed[t] \in 0..Len(topic[t])
                       /\ late[t] \in 0..Len(topic[t])
  /\ pc \in [Topics -> {"fetch", "update", "commit"}]
  /\ missed \subseteq Orders
=============================================================================
