--------------------------- MODULE ConsumerGroup ---------------------------
(***************************************************************************)
(* The consumers of the Inventory, Payment and Fulfillment Services: the   *)
(* replicas of a service read one partition as one consumer group.  Each   *)
(* reader fetches a message, handles it and commits its offset.            *)
(*                                                                         *)
(* Kafka hands the partition to one reader at a time, which starts at the  *)
(* committed offset.  A rebalance may come at any moment, and the reader   *)
(* that loses the partition still finishes the message in its hands.       *)
(* What handling does to the service's tables is the matter of other       *)
(* modules; here a message is handled or not.                              *)
(***************************************************************************)
EXTENDS Integers

CONSTANTS Length,     \* the partition has the offsets 0 .. Length - 1
          Skipped,    \* malformed messages and those of another event type
          Readers,    \* one per replica
          NoReader,   \* the partition is not assigned
          MaxFaults   \* bound on rebalances and failures of a behaviour

ASSUME PartitionAssumption == /\ Length \in Nat
                              /\ Skipped \subseteq 0..(Length - 1)

ASSUME ReadersAssumption == /\ NoReader \notin Readers
                            /\ MaxFaults \in Nat

VARIABLES committed,  \* the group's committed offset: the next one to read
          owner,      \* the reader the partition is assigned to
          next,       \* the offset a reader fetches next
          current,    \* the offset of the message it fetched last
          pc,         \* where it is in Run
          handled,    \* messages whose handler took effect
          failed,     \* history: messages whose handler returned an error
          faults      \* rebalances and failures so far

vars == <<committed, owner, next, current, pc, handled, failed, faults>>

Offsets == 0..(Length - 1)

Init == /\ committed = 0
        /\ owner = NoReader
        /\ next = [r \in Readers |-> 0]
        /\ current = [r \in Readers |-> 0]
        /\ pc = [r \in Readers |-> "fetch"]
        /\ handled = {}
        /\ failed = {}
        /\ faults = 0

Goto(r, step) == pc' = [pc EXCEPT ![r] = step]

Fault == faults < MaxFaults /\ faults' = faults + 1

-----------------------------------------------------------------------------
(* Slips of a programmer, which no specification here uses: README.md says *)
(* which definition each would replace and which property then fails.      *)
FromLatest(r) ==
  /\ IF owner = NoReader THEN UNCHANGED faults ELSE Fault
  /\ owner' = r
  /\ next' = [next EXCEPT ![r] = Length]
  /\ UNCHANGED <<committed, current, pc, handled, failed>>

FromOldReader(r) ==
  /\ IF owner = NoReader THEN UNCHANGED faults ELSE Fault
  /\ owner' = r
  /\ next' = [next EXCEPT ![r] = IF owner = NoReader THEN committed ELSE next[owner]]
  /\ UNCHANGED <<committed, current, pc, handled, failed>>

ReadMessage(r) ==
  /\ owner = r
  /\ pc[r] = "fetch"
  /\ next[r] \in Offsets
  /\ current' = [current EXCEPT ![r] = next[r]]
  /\ next' = [next EXCEPT ![r] = @ + 1]
  /\ committed' = next[r] + 1
  /\ Goto(r, IF next[r] \in Skipped THEN "commit" ELSE "handle")
  /\ UNCHANGED <<owner, handled, failed, faults>>

CommitAnyway(r) ==
  /\ pc[r] = "handle"
  /\ failed' = failed \cup {current[r]}
  /\ Goto(r, "commit")
  /\ Fault
  /\ UNCHANGED <<committed, owner, next, current, handled>>

OffByOne(r) ==
  /\ pc[r] = "commit"
  /\ committed' = current[r] + 2
  /\ Goto(r, "fetch")
  /\ UNCHANGED <<owner, next, current, handled, failed, faults>>

-----------------------------------------------------------------------------
(* The coordinator gives the partition to r, perhaps again: a generation   *)
(* starts and r reads from the committed offset.                           *)
Rebalance(r) ==
  /\ IF owner = NoReader THEN UNCHANGED faults ELSE Fault
  /\ owner' = r
  /\ next' = [next EXCEPT ![r] = committed]
  /\ UNCHANGED <<committed, current, pc, handled, failed>>

(* FetchMessage; a message without work to do is committed at once.        *)
FetchMessage(r) ==
  /\ owner = r
  /\ pc[r] = "fetch"
  /\ next[r] \in Offsets
  /\ current' = [current EXCEPT ![r] = next[r]]
  /\ next' = [next EXCEPT ![r] = @ + 1]
  /\ Goto(r, IF next[r] \in Skipped THEN "commit" ELSE "handle")
  /\ UNCHANGED <<committed, owner, handled, failed, faults>>

Handle(r) ==
  /\ pc[r] = "handle"
  /\ handled' = handled \cup {current[r]}
  /\ Goto(r, "commit")
  /\ UNCHANGED <<committed, owner, next, current, failed, faults>>

(* handle returned an error (its transaction rolled back, or committed and *)
(* the answer was lost): Run does not commit, and goes on to the next one. *)
HandleFails(r) ==
  /\ pc[r] = "handle"
  /\ handled' \in {handled, handled \cup {current[r]}}
  /\ failed' = failed \cup {current[r]}
  /\ Goto(r, "fetch")
  /\ Fault
  /\ UNCHANGED <<committed, owner, next, current>>

(* CommitMessages.  When the partition is another reader's by now, Kafka   *)
(* may reject the commit, and may also let it set the offset back.         *)
CommitMessages(r) ==
  /\ pc[r] = "commit"
  /\ \/ committed' = current[r] + 1
     \/ owner # r /\ UNCHANGED committed
  /\ Goto(r, "fetch")
  /\ UNCHANGED <<owner, next, current, handled, failed, faults>>

(* The error is logged; the offset may have been stored all the same.      *)
CommitFails(r) ==
  /\ pc[r] = "commit"
  /\ committed' \in {committed, current[r] + 1}
  /\ Goto(r, "fetch")
  /\ Fault
  /\ UNCHANGED <<owner, next, current, handled, failed>>

(* The process dies and starts again; the partition is given away.         *)
Crash(r) ==
  /\ owner = r \/ pc[r] # "fetch"
  /\ owner' = IF owner = r THEN NoReader ELSE owner
  /\ Goto(r, "fetch")
  /\ Fault
  /\ UNCHANGED <<committed, next, current, handled, failed>>

Run(r) == FetchMessage(r) \/ Handle(r) \/ CommitMessages(r)

Next == \E r \in Readers : \/ Rebalance(r)
                           \/ Run(r)
                           \/ HandleFails(r)
                           \/ CommitFails(r)
                           \/ Crash(r)

Spec == Init /\ [][Next]_vars

(* The coordinator does not leave the partition unassigned, and a reader   *)
(* that can go on does.                                                    *)
Fairness ==
  /\ WF_vars(owner = NoReader /\ \E r \in Readers : Rebalance(r))
  /\ \A r \in Readers : WF_vars(Run(r))

FairSpec == Spec /\ Fairness

-----------------------------------------------------------------------------
(* The types of the group's offset and of the readers' state.              *)
TypeOK ==
  /\ committed \in 0..Length
  /\ owner \in Readers \cup {NoReader}
  /\ next \in [Readers -> 0..Length]
  /\ current \in [Readers -> 0..Length]
  /\ pc \in [Readers -> {"fetch", "handle", "commit"}]
  /\ handled \subseteq Offsets \ Skipped
  /\ failed \subseteq Offsets \ Skipped
  /\ faults \in 0..MaxFaults

TriedBelow(n) == \A i \in Offsets : i < n => i \in handled \cup failed \cup Skipped

(* Kafka never considers a message consumed that nobody tried to handle,   *)
(* whoever died or lost the partition: everything below the committed      *)
(* offset was handled, or its handler returned an error.                   *)
OnlyFailuresSkipped == TriedBelow(committed)

(* However the partition changes hands, and although two readers may work  *)
(* on it at once, no message takes effect before an earlier one was tried. *)
TriedInOrder == \A i \in handled \cup failed : TriedBelow(i)

(* Every message is handled in the end, unless handling it failed.         *)
EveryMessageTried == \A i \in Offsets \ Skipped : <>(i \in handled \cup failed)

(* A failure is never acknowledged as such: a message whose handler only   *)
(* ever failed is passed over by the commit of a later message or not at   *)
(* all (inventory-service/internal/consumer/consumer.go:53-67).            *)
PassedOnlyBySuccessor ==
  [][\A i \in failed \ handled :
       committed <= i /\ committed' > i => committed' > i + 1]_vars
=============================================================================
