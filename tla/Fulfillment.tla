---------------------------- MODULE Fulfillment ----------------------------
(***************************************************************************)
(* CreateForOrder of the Fulfillment Service: one transaction per delivery *)
(* of a PaymentAuthorized, in the consumers of all the replicas.           *)
(*                                                                         *)
(* Unlike a payment, the fulfillment is inserted with ON CONFLICT DO       *)
(* NOTHING: a second transaction waits for the first, then goes on, and    *)
(* only the primary key of processed_events stops it.  requested is the    *)
(* environment's: the orders whose PaymentAuthorized is in the topic.      *)
(***************************************************************************)
EXTENDS Naturals, Sequences

CONSTANTS Orders,
          Consumers,   \* one per replica
          NoOrder,     \* the consumer has nothing in its hands
          MaxFaults    \* bound on failures and redeliveries of a behaviour

VARIABLES requested,
          fulfillments,  \* rows of fulfillments, by order
          processed,     \* rows of processed_events
          outbox,        \* rows of outbox_events, in the order of their commits
          pc,            \* where a consumer's transaction is
          job,           \* the order it is about
          failed,        \* history: orders whose handler returned an error
          faults

own == <<fulfillments, processed, outbox, pc, job, failed>>

Init == /\ fulfillments = {}
        /\ processed = {}
        /\ outbox = << >>
        /\ pc = [c \in Consumers |-> "idle"]
        /\ job = [c \in Consumers |-> NoOrder]
        /\ failed = {}

Outcome(o, e) == [order |-> o, event |-> e]

Outcomes(o) ==
  <<Outcome(o, "FulfillmentCreated"), Outcome(o, "OrderReadyForShipment")>>

Fault == faults < MaxFaults /\ faults' = faults + 1

Working(o) == \E c \in Consumers : pc[c] # "idle" /\ job[c] = o

(* Another transaction has inserted the row and not committed yet.         *)
HeldByOther(c, o) ==
  \E d \in Consumers \ {c} :
    pc[d] \in {"mark", "commit"} /\ job[d] = o /\ o \notin fulfillments

Goto(c, step) == pc' = [pc EXCEPT ![c] = step]

End(c) == Goto(c, "idle") /\ job' = [job EXCEPT ![c] = NoOrder]

Store(o) ==
  /\ fulfillments' = fulfillments \cup {o}
  /\ processed' = processed \cup {o}
  /\ outbox' = outbox \o Outcomes(o)

NothingStored == UNCHANGED <<fulfillments, processed, outbox>>

Due(o) == o \in requested \ (processed \cup failed) /\ ~Working(o)

(* Slips of a programmer, which no specification here uses: README.md says *)
(* which definition each would replace and which property then fails.      *)
MarkOnConflictDoNothing(c) ==
  /\ pc[c] = "mark"
  /\ Goto(c, "commit")
  /\ UNCHANGED <<job, failed, faults>>
  /\ NothingStored

TwoTransactions(c) ==
  /\ pc[c] = "mark"
  /\ job[c] \notin processed
  /\ fulfillments' = fulfillments \cup {job[c]}
  /\ outbox' = outbox \o Outcomes(job[c])
  /\ Goto(c, "commit")
  /\ UNCHANGED <<processed, job, failed, faults>>

-----------------------------------------------------------------------------
(* FetchMessage returned the order's PaymentAuthorized, and the            *)
(* transaction begins; a repetition counts as a fault.                     *)
Deliver(c, o) ==
  /\ pc[c] = "idle"
  /\ o \in requested
  /\ Goto(c, "check")
  /\ job' = [job EXCEPT ![c] = o]
  /\ IF Due(o) THEN UNCHANGED faults ELSE Fault
  /\ UNCHANGED failed
  /\ NothingStored

AlreadyProcessed(c) ==
  /\ pc[c] = "check"
  /\ job[c] \in processed
  /\ End(c)
  /\ UNCHANGED <<failed, faults>>
  /\ NothingStored

NotProcessed(c) ==
  /\ pc[c] = "check"
  /\ job[c] \notin processed
  /\ Goto(c, "insert")
  /\ UNCHANGED <<job, failed, faults>>
  /\ NothingStored

(* INSERT ... ON CONFLICT DO NOTHING, then the two outbox rows.            *)
InsertFulfillment(c) ==
  /\ pc[c] = "insert"
  /\ ~HeldByOther(c, job[c])
  /\ Goto(c, "mark")
  /\ UNCHANGED <<job, failed, faults>>
  /\ NothingStored

(* INSERT INTO processed_events.                                           *)
MarkProcessed(c) ==
  /\ pc[c] = "mark"
  /\ job[c] \notin processed
  /\ Goto(c, "commit")
  /\ UNCHANGED <<job, failed, faults>>
  /\ NothingStored

DuplicateMark(c) ==
  /\ pc[c] = "mark"
  /\ job[c] \in processed
  /\ failed' = failed \cup {job[c]}
  /\ End(c)
  /\ UNCHANGED faults
  /\ NothingStored

Commit(c) ==
  /\ pc[c] = "commit"
  /\ Store(job[c])
  /\ End(c)
  /\ UNCHANGED <<failed, faults>>

(* A call fails, and the consumer goes on to its next message; a COMMIT    *)
(* whose answer is lost may have taken effect.                             *)
HandleFails(c) ==
  /\ pc[c] # "idle"
  /\ Fault
  /\ NothingStored \/ (pc[c] = "commit" /\ Store(job[c]))
  /\ failed' = failed \cup {job[c]}
  /\ End(c)

(* The process dies; what it had not committed is delivered again.         *)
Crash(c) ==
  /\ pc[c] # "idle"
  /\ Fault
  /\ NothingStored
  /\ End(c)
  /\ UNCHANGED failed

Step(c) == \/ AlreadyProcessed(c)
           \/ NotProcessed(c)
           \/ InsertFulfillment(c)
           \/ MarkProcessed(c)
           \/ DuplicateMark(c)
           \/ Commit(c)

Next == \E c \in Consumers : \/ \E o \in Orders : Deliver(c, o)
                             \/ Step(c)
                             \/ HandleFails(c)
                             \/ Crash(c)

Spec == Init /\ [][Next]_own

-----------------------------------------------------------------------------
(* The types of the tables and of the consumers' state.                    *)
TypeOK ==
  /\ fulfillments \subseteq Orders
  /\ processed \subseteq Orders
  /\ outbox \in Seq([order : Orders,
                     event : {"FulfillmentCreated", "OrderReadyForShipment"}])
  /\ pc \in [Consumers -> {"idle", "check", "insert", "mark", "commit"}]
  /\ job \in [Consumers -> Orders \cup {NoOrder}]
  /\ failed \subseteq Orders

(* Whatever is redelivered, an order is fulfilled once: its row, its mark  *)
(* and its two events come together, the second event right after the      *)
(* first (fulfillments.go:25-32).                                          *)
FulfilledOnce ==
  /\ fulfillments = processed
  /\ \A o \in processed : \E n \in DOMAIN outbox :
       outbox[n] = Outcome(o, "OrderReadyForShipment")
  /\ \A n \in DOMAIN outbox :
       /\ outbox[n].order \in processed
       /\ outbox[n].event = "OrderReadyForShipment"
            => n > 1 /\ outbox[n - 1] = Outcome(outbox[n].order, "FulfillmentCreated")
  /\ \A m, n \in DOMAIN outbox : outbox[m] = outbox[n] => m = n

(* The transactions of all the replicas look like settling each order in   *)
(* one step, once.                                                         *)
Once == INSTANCE OnceOnly WITH settled <- processed,
                               Events <- [o \in Orders |-> Outcomes(o)]
ImplementsOnceOnly == Once!Spec
=============================================================================
