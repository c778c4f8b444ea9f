----------------------------- MODULE EventFeed -----------------------------
(***************************************************************************)
(* What a service's outbox promises to the consumers of its topic: every   *)
(* recorded event appears in the feed, at least once, unless the broker    *)
(* dropped it; and the events of one order appear in order, with none left *)
(* out, unless two workers raced for that order.                           *)
(***************************************************************************)
EXTENDS Naturals, Sequences

CONSTANTS Rows,   \* outbox_events.id of the events, in the order of insertion
          Key     \* Key[i]: the order id, which is the Kafka message key

VARIABLES recorded,  \* the events whose transaction has committed
          log,       \* the topic, seen key by key
          raced,     \* the orders whose events two workers had in hand at once
          dropped    \* the events a failing broker took without storing them

vars == <<recorded, log, raced, dropped>>

InFeed == {log[n] : n \in DOMAIN log}

Init == /\ recorded = {}
        /\ log = << >>
        /\ raced = {}
        /\ dropped = {}

(* A transaction records some events together.                             *)
Record == \E S \in SUBSET (Rows \ recorded) :
            /\ S # {}
            /\ recorded' = recorded \cup S
            /\ UNCHANGED <<log, raced, dropped>>

(* Two workers race for the order of an event.                             *)
Race(i) ==
  /\ i \in recorded
  /\ raced' = raced \cup {Key[i]}
  /\ UNCHANGED <<recorded, log, dropped>>

(* The earlier events of its order appeared or were dropped, and no later  *)
(* one has appeared.                                                       *)
InTurn(i) ==
  /\ \A j \in recorded : j < i /\ Key[j] = Key[i] => j \in InFeed \cup dropped
  /\ \A j \in InFeed : Key[j] = Key[i] => j <= i

(* An event appears, perhaps again.                                        *)
Publish(i) ==
  /\ i \in recorded
  /\ Key[i] \in raced \/ InTurn(i)
  /\ log' = Append(log, i)
  /\ UNCHANGED <<recorded, raced, dropped>>

(* The broker fails with an event it has not stored.                       *)
Drop(i) ==
  /\ i \in recorded
  /\ Key[i] \in raced \/ InTurn(i)
  /\ dropped' = dropped \cup {i}
  /\ UNCHANGED <<recorded, log, raced>>

Next == Record \/ \E i \in Rows : Race(i) \/ Publish(i) \/ Drop(i)

Spec == Init /\ [][Next]_vars

FairSpec ==
  /\ Spec
  /\ \A i \in Rows : i \in recorded ~> i \in InFeed \cup dropped
=============================================================================
