------------------------------ MODULE Payment ------------------------------
(***************************************************************************)
(* AuthorizeForOrder of the Payment Service: one transaction per delivery  *)
(* of an InventoryReserved, in the consumers of all the replicas.          *)
(*                                                                         *)
(* Every statement of a transaction sees what is committed when it starts. *)
(* The rows a transaction inserts appear when it commits; until then, an   *)
(* INSERT of the same primary key by another one waits.  requested is the  *)
(* environment's: the orders whose InventoryReserved is in the topic.      *)
(***************************************************************************)
EXTENDS Naturals, Sequences

CONSTANTS Orders,
          Authorized,  \* the orders that simulateAuthorization says yes to
          Consumers,   \* one per replica
          NoOrder,     \* the consumer has nothing in its hands
          MaxFaults    \* bound on failures and redeliveries of a behaviour

VARIABLES requested,
          payments,    \* rows of payments
          processed,   \* rows of processed_events
          outbox,      \* rows of outbox_events, in the order of their commits
          pc,          \* where a consumer's transaction is
          job,         \* the order it is about
          failed,      \* history: orders whose handler returned an error
          faults

(* What only the steps of this service change.                             *)
own == <<payments, processed, outbox, pc, job, failed>>

Init == /\ payments = {}
        /\ processed = {}
        /\ outbox = << >>
        /\ pc = [c \in Consumers |-> "idle"]
        /\ job = [c \in Consumers |-> NoOrder]
        /\ failed = {}

Paid == {p.order : p \in payments}

Row(o) == [order |-> o, authorized |-> o \in Authorized]

Outcome(o) ==
  [order |-> o,
   event |-> IF o \in Authorized THEN "PaymentAuthorized" ELSE "PaymentFailed"]

Fault == faults < MaxFaults /\ faults' = faults + 1

Working(o) == \E c \in Consumers : pc[c] # "idle" /\ job[c] = o

(* Another transaction has inserted the payment and not committed yet.     *)
HeldByOther(c, o) ==
  \E d \in Consumers \ {c} : pc[d] = "commit" /\ job[d] = o

Goto(c, step) == pc' = [pc EXCEPT ![c] = step]

(* The transaction and the delivery end.                                   *)
End(c) == Goto(c, "idle") /\ job' = [job EXCEPT ![c] = NoOrder]

Store(o) ==
  /\ payments' = payments \cup {Row(o)}
  /\ processed' = processed \cup {o}
  /\ outbox' = Append(outbox, Outcome(o))

NothingStored == UNCHANGED <<payments, processed, outbox>>

(* The group owes somebody the event: nobody has handled it, failed on it  *)
(* or has it in hands.                                                     *)
Due(o) == o \in requested \ (processed \cup failed) /\ ~Working(o)

(* Slips of a programmer, which no specification here uses: README.md says *)
(* which definition each would replace and which property then fails.      *)
NoPrimaryKey(c) ==
  /\ pc[c] = "insert"
  /\ Goto(c, "commit")
  /\ UNCHANGED <<job, failed, faults>>
  /\ NothingStored

MarkedOutsideTx(c) ==
  /\ pc[c] = "check"
  /\ job[c] \notin processed
  /\ Goto(c, "insert")
  /\ processed' = processed \cup {job[c]}
  /\ UNCHANGED <<payments, outbox, job, failed, faults>>

-----------------------------------------------------------------------------
(* FetchMessage returned the order's InventoryReserved, and the            *)
(* transaction begins.  A repetition (rebalance, restart, a row published  *)
(* twice) counts as a fault.                                               *)
Deliver(c, o) ==
  /\ pc[c] = "idle"
  /\ o \in requested
  /\ Goto(c, "check")
  /\ job' = [job EXCEPT ![c] = o]
  /\ IF Due(o) THEN UNCHANGED faults ELSE Fault
  /\ UNCHANGED failed
  /\ NothingStored

(* SELECT EXISTS: a redelivery of what is already settled.                 *)
AlreadyProcessed(c) ==
  /\ pc[c] = "check"
  /\ job[c] \in processed
  /\ End(c)
  /\ UNCHANGED <<failed, faults>>
  /\ NothingStored

NotProcessed(c) ==
  /\ pc[c] = "check"
  /\ job[c] \notin processed
  /\ Goto(c, "insert")
  /\ UNCHANGED <<job, failed, faults>>
  /\ NothingStored

(* The three INSERTs; the first waits for a concurrent one of this order.  *)
InsertPayment(c) ==
  /\ pc[c] = "insert"
  /\ job[c] \notin Paid
  /\ ~HeldByOther(c, job[c])
  /\ Goto(c, "commit")
  /\ UNCHANGED <<job, failed, faults>>
  /\ NothingStored

(* The primary key of payments refuses the row: roll back with an error.   *)
DuplicatePayment(c) ==
  /\ pc[c] = "insert"
  /\ job[c] \in Paid
  /\ failed' = failed \cup {job[c]}
  /\ End(c)
  /\ UNCHANGED faults
  /\ NothingStored

Commit(c) ==
  /\ pc[c] = "commit"
  /\ Store(job[c])
  /\ End(c)
  /\ UNCHANGED <<failed, faults>>

(* A call fails, and the consumer goes on to its next message; a COMMIT    *)
(* whose answer is lost may have taken effect.                             *)
HandleFails(c) ==
  /\ pc[c] # "idle"
  /\ Fault
  /\ NothingStored \/ (pc[c] = "commit" /\ Store(job[c]))
  /\ failed' = failed \cup {job[c]}
  /\ End(c)

(* The process dies; what it had not committed is delivered again.         *)
Crash(c) ==
  /\ pc[c] # "idle"
  /\ Fault
  /\ NothingStored
  /\ End(c)
  /\ UNCHANGED failed

Step(c) == \/ AlreadyProcessed(c)
           \/ NotProcessed(c)
           \/ InsertPayment(c)
           \/ DuplicatePayment(c)
           \/ Commit(c)

Next == \E c \in Consumers : \/ \E o \in Orders : Deliver(c, o)
                             \/ Step(c)
                             \/ HandleFails(c)
                             \/ Crash(c)

Spec == Init /\ [][Next]_own

-----------------------------------------------------------------------------
(* The types of the tables and of the consumers' state.                    *)
TypeOK ==
  /\ payments \subseteq [order : Orders, authorized : BOOLEAN]
  /\ processed \subseteq Orders
  /\ outbox \in Seq([order : Orders, event : {"PaymentAuthorized", "PaymentFailed"}])
  /\ pc \in [Consumers -> {"idle", "check", "insert", "commit"}]
  /\ job \in [Consumers -> Orders \cup {NoOrder}]
  /\ failed \subseteq Orders

(* Whatever is redelivered, to however many replicas at once, an order is  *)
(* charged or declined once: its payment, its processed mark and its one   *)
(* outbox row come together and agree (payments.go:26-30, 46-51).          *)
ChargedOnce ==
  /\ Paid = processed
  /\ \A p \in payments : p = Row(p.order)
  /\ \A o \in processed : \E n \in DOMAIN outbox : outbox[n] = Outcome(o)
  /\ \A n \in DOMAIN outbox : /\ outbox[n].order \in processed
                              /\ outbox[n] = Outcome(outbox[n].order)
  /\ \A m, n \in DOMAIN outbox : outbox[m].order = outbox[n].order => m = n

(* The transactions of all the replicas look like settling each order in   *)
(* one step, once.                                                         *)
Once == INSTANCE OnceOnly WITH settled <- processed,
                               Events <- [o \in Orders |-> <<Outcome(o)>>]
ImplementsOnceOnly == Once!Spec
=============================================================================
