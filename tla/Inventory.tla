----------------------------- MODULE Inventory -----------------------------
(***************************************************************************)
(* The Inventory Service: consumers (one reader per replica) take          *)
(* OrderCreated messages off order-events, in any order and any number of  *)
(* times, and run ReserveForOrder, one READ COMMITTED transaction per      *)
(* delivery, against one PostgreSQL database.                              *)
(*                                                                         *)
(* A step is one SQL statement whose effect another transaction can see or *)
(* wait for.  What a transaction writes is invisible until Commit, so the  *)
(* statements after the last row lock are one step and take effect there.  *)
(* The offsets of the consumer group are not in this module: a message may *)
(* be delivered at any moment, also while another replica still handles    *)
(* it (a rebalance), and again after it was handled.                       *)
(***************************************************************************)
EXTENDS Integers, Sequences, FiniteSetsExt

CONSTANTS Orders,        \* the orders announced on order-events
          Skus,          \* every SKU an order line may name; < is sort.Strings
          Catalog,       \* the SKUs that have a row in table inventory
          InitialStock,  \* available_quantity of those rows at the start
          Lines,         \* Lines[o][s]: item lines of order o that name s
          Qty,           \* Qty[o][s]: qtyBySKU, the sum over those lines
          Consumers,     \* the readers of the group inventory-service
          NoOrder,       \* the job of a reader that waits for a message
          Faults         \* whether statements fail and processes crash

ASSUME SkusAssumption == Skus \subseteq Nat /\ IsFiniteSet(Skus)

ASSUME CatalogAssumption == /\ Catalog \subseteq Skus
                            /\ InitialStock \in [Catalog -> Nat]

(* Every line has a quantity of at least one (order_items_quantity_check   *)
(* of the Order Service), and an order has at least one line.              *)
ASSUME OrdersAssumption ==
  /\ Lines \in [Orders -> [Skus -> Nat]]
  /\ Qty \in [Orders -> [Skus -> Nat]]
  /\ \A o \in Orders : \A s \in Skus : Qty[o][s] >= Lines[o][s]
  /\ \A o \in Orders : \A s \in Skus : Lines[o][s] = 0 => Qty[o][s] = 0
  /\ \A o \in Orders : \E s \in Skus : Lines[o][s] > 0
  /\ NoOrder \notin Orders

ASSUME FaultsAssumption == Faults \in BOOLEAN

(* What the tables hold can be added up.                                   *)
ASSUME FiniteAssumption == IsFiniteSet(Orders)

VARIABLES available,     \* inventory.available_quantity, committed
          reserved,      \* inventory.reserved_quantity, committed
          reservations,  \* units in the rows of table reservations, by order
          processed,     \* order ids in processed_events
          outbox,        \* outbox_events, in the order of commit
          pc,            \* where a consumer is in ReserveForOrder
          job,           \* the order of the message it handles
          held,          \* the inventory rows its transaction has locked
          seen           \* its map "available", filled row by row

dbVars == <<available, reserved, reservations, processed, outbox>>
txVars == <<pc, job, held, seen>>
vars == <<available, reserved, reservations, processed, outbox,
          pc, job, held, seen>>

Outcome(o, e) == [order |-> o, event |-> e]

Events == {"InventoryReserved", "InventoryReservationFailed"}

-----------------------------------------------------------------------------
(* The SKUs the transaction must lock: repeated lines name one row.        *)
Needed(o) == {s \in Skus : Lines[o][s] > 0}

(* Slips of a programmer, which no specification here uses: README.md says *)
(* which definition each would replace and which property then fails.      *)
WithoutWhere(o, s) == MapThenSumSet(LAMBDA t : Lines[o][t] * Qty[o][t], Skus)

Unsorted(c, s) == s \in Needed(job[c]) \ held[c]

NotForUpdate(c, s) == FALSE

StrictlyEnough(c) == \A s \in Needed(job[c]) : seen[c][s] > Qty[job[c]][s]

(* What the update loop takes from a row: it runs once per line, and each  *)
(* time subtracts the quantity summed over all the lines of that SKU.      *)
Taken(o, s) == Lines[o][s] * Qty[o][s]

(* The row the locking loop of c stands at, in sorted order.               *)
AtRow(c, s) == /\ s \in Needed(job[c]) \ held[c]
               /\ \A t \in Needed(job[c]) \ held[c] : s <= t

LockedByOther(c, s) == \E d \in Consumers \ {c} : s \in held[d]

(* len(failedSKUs) = 0, judged on the quantities read under the locks.     *)
Enough(c) == \A s \in Needed(job[c]) : seen[c][s] >= Qty[job[c]][s]

(* CHECK (available_quantity >= 0) holds after every update of the loop.   *)
StockCheckHolds(o) == \A s \in Needed(o) : available[s] >= Taken(o, s)

Init ==
  /\ available = InitialStock
  /\ reserved = [s \in Catalog |-> 0]
  /\ reservations = [o \in Orders |-> [s \in Catalog |-> 0]]
  /\ processed = {}
  /\ outbox = << >>
  /\ pc = [c \in Consumers |-> "idle"]
  /\ job = [c \in Consumers |-> NoOrder]
  /\ held = [c \in Consumers |-> {}]
  /\ seen = [c \in Consumers |-> [s \in Catalog |-> 0]]

(* The transaction of c ends, its locks are released, and c goes back to   *)
(* FetchMessage.                                                           *)
EndTx(c) ==
  /\ pc' = [pc EXCEPT ![c] = "idle"]
  /\ job' = [job EXCEPT ![c] = NoOrder]
  /\ held' = [held EXCEPT ![c] = {}]
  /\ seen' = [seen EXCEPT ![c] = [s \in Catalog |-> 0]]

Rollback(c) == EndTx(c) /\ UNCHANGED dbVars

(* Slips of a programmer, which no specification here uses: README.md says *)
(* which definition each would replace and which property then fails.      *)
ConflictIgnored(c) ==
  /\ pc[c] = "locking"
  /\ Needed(job[c]) \subseteq held[c]
  /\ Enough(c) => StockCheckHolds(job[c])
  /\ pc' = [pc EXCEPT ![c] = "committing"]
  /\ UNCHANGED <<available, reserved, reservations, processed, outbox,
                 job, held, seen>>

OneReservationPerSku(c) ==
  LET o == job[c] IN
  /\ pc[c] = "committing"
  /\ Enough(c)
  /\ available' = [s \in Catalog |-> available[s] - Taken(o, s)]
  /\ reserved' = [s \in Catalog |-> reserved[s] + Taken(o, s)]
  /\ reservations' = [reservations EXCEPT ![o] = [s \in Catalog |-> Qty[o][s]]]
  /\ outbox' = Append(outbox, Outcome(o, "InventoryReserved"))
  /\ processed' = processed \cup {o}
  /\ EndTx(c)

FailureForgotten(c) == pc[c] = "committing" /\ ~Enough(c) /\ Rollback(c)

NoTransaction(c) ==
  LET o == job[c] IN
  /\ Faults
  /\ pc[c] = "committing"
  /\ Enough(c)
  /\ available' = [s \in Catalog |-> available[s] - Taken(o, s)]
  /\ reserved' = [s \in Catalog |-> reserved[s] + Taken(o, s)]
  /\ reservations' = [reservations EXCEPT
       ![o] = [s \in Catalog |-> reservations[o][s] + Taken(o, s)]]
  /\ EndTx(c)
  /\ UNCHANGED <<processed, outbox>>

-----------------------------------------------------------------------------
(* FetchMessage returned the OrderCreated of o, and the transaction began. *)
Deliver(c, o) ==
  /\ pc[c] = "idle"
  /\ pc' = [pc EXCEPT ![c] = "checking"]
  /\ job' = [job EXCEPT ![c] = o]
  /\ UNCHANGED <<available, reserved, reservations, processed, outbox, held, seen>>

(* SELECT EXISTS finds the order in processed_events: nothing to do.       *)
AlreadyProcessed(c) ==
  /\ pc[c] = "checking"
  /\ job[c] \in processed
  /\ Rollback(c)

NotProcessed(c) ==
  /\ pc[c] = "checking"
  /\ job[c] \notin processed
  /\ pc' = [pc EXCEPT ![c] = "locking"]
  /\ UNCHANGED <<available, reserved, reservations, processed, outbox,
                 job, held, seen>>

(* SELECT available_quantity ... FOR UPDATE: waits while another           *)
(* transaction has the row, then reads the committed quantity.             *)
LockRow(c) ==
  /\ pc[c] = "locking"
  /\ \E s \in Catalog :
       /\ AtRow(c, s)
       /\ ~LockedByOther(c, s)
       /\ held' = [held EXCEPT ![c] = @ \cup {s}]
       /\ seen' = [seen EXCEPT ![c][s] = available[s]]
  /\ UNCHANGED <<available, reserved, reservations, processed, outbox, pc, job>>

(* The row does not exist: ErrNoRows, and the handler returns an error.    *)
UnknownSku(c) ==
  /\ pc[c] = "locking"
  /\ \E s \in Skus \ Catalog : AtRow(c, s)
  /\ Rollback(c)

AllLocked(c) == pc[c] = "locking" /\ Needed(job[c]) \subseteq held[c]

(* An update of the loop would make available_quantity negative.           *)
StockCheckFails(c) ==
  /\ AllLocked(c)
  /\ Enough(c)
  /\ ~StockCheckHolds(job[c])
  /\ Rollback(c)

(* INSERT INTO processed_events hits the primary key: another delivery of  *)
(* the same order committed after this one had looked.                     *)
DuplicateKey(c) ==
  /\ AllLocked(c)
  /\ Enough(c) => StockCheckHolds(job[c])
  /\ job[c] \in processed
  /\ Rollback(c)

(* All the writes of either path succeed.  The insert of the key waits for *)
(* a transaction that has inserted the same key and not yet ended.         *)
Write(c) ==
  /\ AllLocked(c)
  /\ Enough(c) => StockCheckHolds(job[c])
  /\ job[c] \notin processed
  /\ \A d \in Consumers : ~(pc[d] = "committing" /\ job[d] = job[c])
  /\ pc' = [pc EXCEPT ![c] = "committing"]
  /\ UNCHANGED <<available, reserved, reservations, processed, outbox,
                 job, held, seen>>

CommitReserved(c) ==
  LET o == job[c] IN
  /\ pc[c] = "committing"
  /\ Enough(c)
  /\ available' = [s \in Catalog |-> available[s] - Taken(o, s)]
  /\ reserved' = [s \in Catalog |-> reserved[s] + Taken(o, s)]
  /\ reservations' = [reservations EXCEPT
       ![o] = [s \in Catalog |-> reservations[o][s] + Taken(o, s)]]
  /\ outbox' = Append(outbox, Outcome(o, "InventoryReserved"))
  /\ processed' = processed \cup {o}
  /\ EndTx(c)

CommitFailed(c) ==
  LET o == job[c] IN
  /\ pc[c] = "committing"
  /\ ~Enough(c)
  /\ outbox' = Append(outbox, Outcome(o, "InventoryReservationFailed"))
  /\ processed' = processed \cup {o}
  /\ EndTx(c)
  /\ UNCHANGED <<available, reserved, reservations>>

(* Any statement of an open transaction may fail (database outage, the     *)
(* context cancelled on shutdown), or the process may die.                 *)
Fault(c) ==
  /\ Faults
  /\ pc[c] # "idle"
  /\ Rollback(c)

Next ==
  \E c \in Consumers :
    \/ \E o \in Orders : Deliver(c, o)
    \/ AlreadyProcessed(c)
    \/ NotProcessed(c)
    \/ LockRow(c)
    \/ UnknownSku(c)
    \/ StockCheckFails(c)
    \/ DuplicateKey(c)
    \/ Write(c)
    \/ CommitReserved(c)
    \/ CommitFailed(c)
    \/ Fault(c)

Spec == Init /\ [][Next]_vars

(* A statement that can run does; a row lock that keeps being free is      *)
(* granted in turn; and a message whose order is not settled is fetched    *)
(* (again) some time.                                                      *)
StepFairness(c) ==
  /\ WF_vars(AlreadyProcessed(c) \/ NotProcessed(c))
  /\ SF_vars(LockRow(c))
  /\ WF_vars(UnknownSku(c) \/ StockCheckFails(c) \/ DuplicateKey(c))
  /\ WF_vars(Write(c))
  /\ WF_vars(CommitReserved(c) \/ CommitFailed(c))

Fairness == /\ \A c \in Consumers : StepFairness(c)
            /\ \A o \in Orders :
                 SF_vars(o \notin processed /\ \E c \in Consumers : Deliver(c, o))

FairSpec == Spec /\ Fairness

-----------------------------------------------------------------------------
(* The types of the tables and of the consumers' local state.              *)
TypeOK ==
  /\ available \in [Catalog -> Nat]
  /\ reserved \in [Catalog -> Nat]
  /\ reservations \in [Orders -> [Catalog -> Nat]]
  /\ processed \subseteq Orders
  /\ outbox \in Seq([order : Orders, event : Events])
  /\ pc \in [Consumers -> {"idle", "checking", "locking", "committing"}]
  /\ job \in [Consumers -> Orders \cup {NoOrder}]
  /\ held \in [Consumers -> SUBSET Catalog]
  /\ seen \in [Consumers -> [Catalog -> Nat]]

(* Check-then-act is safe: the quantity a transaction read under a row     *)
(* lock is the committed quantity until that transaction ends, whatever    *)
(* the other replicas commit meanwhile.                                    *)
SnapshotStable ==
  \A c \in Consumers : \A s \in held[c] : seen[c][s] = available[s]

(* However often OrderCreated is delivered, and to however many replicas   *)
(* at once, an order gets one outbox row, together with its processed mark.*)
OneOutcomePerOrder ==
  /\ \A i, j \in DOMAIN outbox :
       outbox[i].order = outbox[j].order => i = j
  /\ processed = {outbox[i].order : i \in DOMAIN outbox}

(* No unit appears or disappears, whatever aborts half-way: the rows of    *)
(* reservations add up to the reserved quantity, and that is what the      *)
(* available quantity has lost.                                            *)
StockConserved ==
  \A s \in Catalog :
    /\ available[s] + reserved[s] = InitialStock[s]
    /\ reserved[s] = MapThenSumSet(LAMBDA o : reservations[o][s], Orders)

(* A transaction that fails leaves nothing behind, and an outcome tells    *)
(* the truth: an order holds stock if and only if its outbox row says      *)
(* InventoryReserved (inventory-service/migrations/0001_init.sql:24-29).   *)
OutcomeMatchesStock ==
  \A o \in Orders :
    (\E s \in Catalog : reservations[o][s] > 0)
      <=> (\E i \in DOMAIN outbox : outbox[i] = Outcome(o, "InventoryReserved"))

(* c waits for a row that d has locked.                                    *)
WaitsFor(c, d) == /\ pc[c] = "locking"
                  /\ c # d
                  /\ \E s \in held[d] : AtRow(c, s)

(* "sorted, no deadlocks": no set of transactions waits only for itself.   *)
NoWaitCycle ==
  \A S \in (SUBSET Consumers) \ {{}} :
    \E c \in S : \A d \in S : ~WaitsFor(c, d)

(* A reserved order holds exactly the quantities it asked for.             *)
ReservesWhatWasOrdered ==
  \A o \in Orders :
    Outcome(o, "InventoryReserved") \in {outbox[i] : i \in DOMAIN outbox}
      => reservations[o] = [s \in Catalog |-> Qty[o][s]]

(* The service settles every order in one step against the stock of that   *)
(* step: in particular InventoryReservationFailed is recorded only while   *)
(* stock is short, and InventoryReserved only while it is not.             *)
Atomic == INSTANCE Reservation
ImplementsReservation == Atomic!Spec

(* Every order is settled: reserved when there is stock, else refused.     *)
EveryOrderGetsOutcome == \A o \in Orders : <>(o \in processed)
=============================================================================
