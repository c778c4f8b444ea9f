-------------------------- MODULE InventoryProofs --------------------------
(***************************************************************************)
(* Proofs about Inventory, for every set of orders, SKUs and replicas.     *)
(***************************************************************************)
EXTENDS Inventory, TLAPS, FiniteSetTheorems, WellFoundedInduction

Assumptions == /\ SkusAssumption
               /\ CatalogAssumption
               /\ OrdersAssumption
               /\ FaultsAssumption

LEMMA ConstantsOK == Assumptions
BY SkusAssumption, CatalogAssumption, OrdersAssumption, FaultsAssumption
   DEF Assumptions

-----------------------------------------------------------------------------
(* What the update loop takes from a row is a number, and it is positive   *)
(* exactly for the SKUs the order names.                                   *)
LEMMA TakenIsNat ==
  ASSUME NEW o \in Orders, NEW s \in Skus
  PROVE  /\ Taken(o, s) \in Nat
         /\ Lines[o][s] > 0 => Taken(o, s) > 0
         /\ Lines[o][s] = 0 => Taken(o, s) = 0
         /\ Lines[o][s] = 1 => Taken(o, s) = Qty[o][s]
<1> DEFINE n == Lines[o][s]
           q == Qty[o][s]
<1>1. n \in Nat /\ q \in Nat /\ q >= n
  BY OrdersAssumption
<1>2. n * q \in Nat /\ (n = 0 => n * q = 0) /\ (n = 1 => n * q = q)
  BY <1>1, SMT
<1>3. n > 0 => n * q > 0
  <2>1. ASSUME n > 0 PROVE n * q > 0
    <3> HIDE DEF n, q
    <3>1. PICK m \in Nat : n = m + 1
      <4>1. n - 1 \in Nat /\ n = (n - 1) + 1
        BY <1>1, <2>1
      <4> QED BY <4>1
    <3>2. m * q \in Nat
      BY <1>1, <3>1
    <3>3. n * q = m * q + q
      BY <1>1, <3>1
    <3> QED BY <1>1, <2>1, <3>2, <3>3
  <2> QED BY <2>1
<1> QED BY <1>2, <1>3 DEF Taken


LocalOK ==
  \A c \in Consumers :
    /\ pc[c] = "idle" <=> job[c] = NoOrder
    /\ pc[c] \in {"idle", "checking"} => held[c] = {}

LocksExclusive ==
  \A c, d \in Consumers : c # d => held[c] \cap held[d] = {}

(* Locks are taken in ascending order: a transaction that still has a row  *)
(* to lock has no lock above it.                                           *)
LocksAscend ==
  \A c \in Consumers :
    pc[c] = "locking" =>
      \A s \in held[c] : \A t \in Needed(job[c]) \ held[c] : s < t

CommitReady ==
  \A c \in Consumers :
    pc[c] = "committing" =>
      /\ Needed(job[c]) \subseteq held[c]
      /\ job[c] \notin processed
      /\ Enough(c) => StockCheckHolds(job[c])

(* An order that is not yet settled holds nothing.                         *)
Untouched ==
  \A o \in Orders \ processed : reservations[o] = [s \in Catalog |-> 0]

IInv == /\ TypeOK
        /\ LocalOK
        /\ LocksExclusive
        /\ LocksAscend
        /\ SnapshotStable
        /\ CommitReady
        /\ OneOutcomePerOrder
        /\ Untouched
        /\ OutcomeMatchesStock

-----------------------------------------------------------------------------
LEMMA InitEstablishes == Init => IInv
<1> SUFFICES ASSUME Init PROVE IInv
  OBVIOUS
<1> USE DEF Init
<1>1. TypeOK
  BY CatalogAssumption DEF TypeOK
<1>2. LocalOK /\ LocksExclusive /\ LocksAscend /\ SnapshotStable /\ CommitReady
  BY OrdersAssumption
     DEF LocalOK, LocksExclusive, LocksAscend, SnapshotStable, CommitReady
<1>3. OneOutcomePerOrder /\ Untouched /\ OutcomeMatchesStock
  BY DEF OneOutcomePerOrder, Untouched, OutcomeMatchesStock
<1> QED BY <1>1, <1>2, <1>3 DEF IInv

(* The conjuncts about the tables alone survive a step that does not write.*)
LEMMA TablesUnchanged ==
  ASSUME IInv, UNCHANGED dbVars
  PROVE  OneOutcomePerOrder' /\ Untouched' /\ OutcomeMatchesStock'
BY DEF IInv, dbVars, OneOutcomePerOrder, Untouched, OutcomeMatchesStock

(* A transaction that rolls back disturbs no other one.                    *)
LEMMA RollbackPreserves ==
  ASSUME IInv, NEW c \in Consumers, Rollback(c)
  PROVE  IInv'
<1> USE DEF IInv, Rollback, EndTx, dbVars, TypeOK
<1>1. TypeOK'
  OBVIOUS
<1>2. LocalOK'
  BY OrdersAssumption DEF LocalOK
<1>3. LocksExclusive' /\ SnapshotStable'
  BY DEF LocksExclusive, SnapshotStable
<1>4. LocksAscend'
  BY DEF LocksAscend, Needed
<1>5. CommitReady'
  BY DEF CommitReady, Needed, Enough, StockCheckHolds, Taken
<1> QED BY <1>1, <1>2, <1>3, <1>4, <1>5, TablesUnchanged

LEMMA BeginPreserves ==
  ASSUME IInv, NEW c \in Consumers,
         (\E o \in Orders : Deliver(c, o)) \/ NotProcessed(c)
  PROVE  IInv'
<1> USE DEF IInv, TypeOK
<1>1. UNCHANGED dbVars /\ UNCHANGED <<held, seen>>
  BY DEF Deliver, NotProcessed, dbVars
<1>2. \E o \in Orders, x \in {"checking", "locking"} :
        /\ pc' = [pc EXCEPT ![c] = x]
        /\ job' = [job EXCEPT ![c] = o]
        /\ pc[c] \in {"idle", "checking"}
  <2>1. CASE \E o \in Orders : Deliver(c, o)
    BY <2>1 DEF Deliver
  <2>2. CASE NotProcessed(c)
    <3>1. job[c] \in Orders
      BY <2>2 DEF NotProcessed, LocalOK
    <3> QED BY <2>2, <3>1 DEF NotProcessed
  <2> QED BY <2>1, <2>2
<1>3. PICK o \in Orders, x \in {"checking", "locking"} :
        /\ pc' = [pc EXCEPT ![c] = x]
        /\ job' = [job EXCEPT ![c] = o]
        /\ pc[c] \in {"idle", "checking"}
  BY <1>2
<1>4. held[c] = {}
  BY <1>3 DEF LocalOK
<1>5. TypeOK' /\ LocalOK'
  BY <1>1, <1>3, <1>4, OrdersAssumption DEF LocalOK, dbVars
<1>6. LocksExclusive' /\ SnapshotStable'
  BY <1>1 DEF LocksExclusive, SnapshotStable, dbVars
<1>7. LocksAscend'
  BY <1>1, <1>3, <1>4 DEF LocksAscend, Needed
<1>8. CommitReady'
  <2> SUFFICES ASSUME NEW d \in Consumers, pc'[d] = "committing"
               PROVE  /\ d # c /\ pc[d] = "committing" /\ job'[d] = job[d]
    BY <1>1 DEF CommitReady, Needed, Enough, StockCheckHolds, Taken, dbVars
  <2> QED BY <1>3
<1> QED BY <1>1, <1>5, <1>6, <1>7, <1>8, TablesUnchanged

LEMMA LockRowPreserves ==
  ASSUME IInv, NEW c \in Consumers, LockRow(c)
  PROVE  IInv'
<1> USE DEF IInv, TypeOK
<1>1. PICK s \in Catalog : /\ AtRow(c, s)
                           /\ ~LockedByOther(c, s)
                           /\ held' = [held EXCEPT ![c] = @ \cup {s}]
                           /\ seen' = [seen EXCEPT ![c][s] = available[s]]
  BY DEF LockRow
<1>2. pc[c] = "locking" /\ UNCHANGED <<dbVars, pc, job>>
  BY DEF LockRow, dbVars
<1>3. TypeOK' /\ LocalOK'
  BY <1>1, <1>2 DEF LocalOK, dbVars
<1>4. LocksExclusive'
  BY <1>1 DEF LocksExclusive, LockedByOther
<1>5. SnapshotStable'
  BY <1>1, <1>2 DEF SnapshotStable, dbVars
<1>6. LocksAscend'
  <2> SUFFICES ASSUME NEW d \in Consumers, pc[d] = "locking",
                      NEW u \in held'[d], NEW t \in Needed(job[d]) \ held'[d]
               PROVE  u < t
    BY <1>2 DEF LocksAscend, Needed
  <2>1. CASE d = c
    <3>1. t \in Needed(job[c]) \ held[c] /\ s <= t /\ s # t
      BY <1>1, <2>1 DEF AtRow
    <3>2. CASE u = s
      <4>1. s \in Nat /\ t \in Nat
        BY <3>1, SkusAssumption, CatalogAssumption DEF Needed
      <4> QED BY <4>1, <3>1, <3>2
    <3>3. CASE u \in held[c]
      BY <3>1, <3>3, <2>1 DEF LocksAscend
    <3> QED BY <1>1, <2>1, <3>2, <3>3
  <2>2. CASE d # c
    BY <1>1, <2>2 DEF LocksAscend
  <2> QED BY <2>1, <2>2
<1>7. CommitReady'
  BY <1>1, <1>2 DEF CommitReady, Needed, Enough, StockCheckHolds, Taken, dbVars
<1> QED BY <1>2, <1>3, <1>4, <1>5, <1>6, <1>7, TablesUnchanged

LEMMA WritePreserves ==
  ASSUME IInv, NEW c \in Consumers, Write(c)
  PROVE  IInv'
<1> USE DEF IInv, TypeOK
<1>1. UNCHANGED <<dbVars, job, held, seen>>
  BY DEF Write, dbVars
<1>2. pc' = [pc EXCEPT ![c] = "committing"] /\ pc[c] = "locking"
  BY DEF Write, AllLocked
<1>3. TypeOK' /\ LocalOK'
  BY <1>1, <1>2 DEF LocalOK, dbVars
<1>4. LocksExclusive' /\ SnapshotStable' /\ LocksAscend'
  BY <1>1, <1>2 DEF LocksExclusive, SnapshotStable, LocksAscend, Needed, dbVars
<1>5. CommitReady'
  BY <1>1, <1>2 DEF CommitReady, Needed, Enough, StockCheckHolds, Taken,
                    Write, AllLocked, dbVars
<1> QED BY <1>1, <1>3, <1>4, <1>5, TablesUnchanged

-----------------------------------------------------------------------------
(* What a row appended to the outbox changes.                              *)
LEMMA AppendRow ==
  ASSUME NEW S, NEW q \in Seq(S), NEW e \in S, NEW r, r = Append(q, e)
  PROVE  /\ r \in Seq(S)
         /\ \E n : /\ DOMAIN r = DOMAIN q \cup {n}
                   /\ n \notin DOMAIN q
                   /\ r[n] = e
         /\ \A i \in DOMAIN q : r[i] = q[i]
<1>1. /\ r \in Seq(S)
      /\ DOMAIN r = DOMAIN q \cup {Len(q) + 1}
      /\ Len(q) + 1 \notin DOMAIN q
      /\ r[Len(q) + 1] = e
      /\ \A i \in DOMAIN q : r[i] = q[i]
  OBVIOUS
<1> QED BY <1>1, Zenon

(* The rows a committing transaction writes are locked by no other one,    *)
(* and no other transaction is about to settle the same order.             *)
LEMMA CommitAlone ==
  ASSUME IInv, NEW c \in Consumers, pc[c] = "committing"
  PROVE  /\ job[c] \in Orders
         /\ job[c] \notin processed
         /\ Needed(job[c]) \subseteq Catalog
         /\ \A s \in Catalog : s \notin Needed(job[c]) => Taken(job[c], s) = 0
         /\ \A d \in Consumers \ {c} :
              /\ held[d] \cap Needed(job[c]) = {}
              /\ pc[d] = "committing" => job[d] # job[c]
<1> USE DEF IInv, TypeOK
<1>1. job[c] \in Orders
  BY DEF LocalOK
<1>2. job[c] \notin processed /\ Needed(job[c]) \subseteq held[c]
  BY DEF CommitReady
<1>3. Needed(job[c]) \subseteq Catalog
  BY <1>2
<1>4. ASSUME NEW s \in Catalog, s \notin Needed(job[c])
      PROVE  Taken(job[c], s) = 0
  <2>1. s \in Skus
    BY CatalogAssumption
  <2>2. Lines[job[c]][s] = 0
    BY <1>1, <1>4, <2>1, OrdersAssumption DEF Needed
  <2> QED BY <1>1, <2>1, <2>2, TakenIsNat
<1>5. ASSUME NEW d \in Consumers \ {c}
      PROVE  /\ held[d] \cap Needed(job[c]) = {}
             /\ pc[d] = "committing" => job[d] # job[c]
  <2>1. held[d] \cap Needed(job[c]) = {}
    BY <1>2 DEF LocksExclusive
  <2>2. Needed(job[c]) # {}
    BY <1>1, OrdersAssumption DEF Needed
  <2>3. pc[d] = "committing" => Needed(job[d]) \subseteq held[d]
    BY DEF CommitReady
  <2> QED BY <2>1, <2>2, <2>3
<1> QED BY <1>1, <1>2, <1>3, <1>4, <1>5

(* What both commits do to the consumers' local state.                     *)
LEMMA CommitLocal ==
  ASSUME IInv, NEW c \in Consumers, EndTx(c),
         available' \in [Catalog -> Nat],
         processed' = processed \cup {job[c]},
         \A d \in Consumers \ {c} :
           /\ pc[d] = "committing" => job[d] # job[c]
           /\ \A s \in held[d] : available'[s] = available[s]
  PROVE  /\ LocalOK'
         /\ LocksExclusive'
         /\ LocksAscend'
         /\ SnapshotStable'
         /\ CommitReady'
<1> USE DEF IInv, TypeOK, EndTx
<1>1. LocalOK'
  BY OrdersAssumption DEF LocalOK
<1>2. LocksExclusive' /\ SnapshotStable'
  BY DEF LocksExclusive, SnapshotStable
<1>3. LocksAscend'
  BY DEF LocksAscend, Needed
<1>4. CommitReady'
  <2> SUFFICES ASSUME NEW d \in Consumers, pc'[d] = "committing"
               PROVE  /\ Needed(job'[d]) \subseteq held'[d]
                      /\ job'[d] \notin processed'
                      /\ Enough(d)' => StockCheckHolds(job[d])'
    BY DEF CommitReady, Needed, StockCheckHolds, Taken
  <2>1. /\ d # c
        /\ pc[d] = "committing"
        /\ job'[d] = job[d] /\ held'[d] = held[d] /\ seen'[d] = seen[d]
    OBVIOUS
  <2>2. /\ Needed(job[d]) \subseteq held[d]
        /\ job[d] \notin processed
        /\ Enough(d) => StockCheckHolds(job[d])
    BY <2>1 DEF CommitReady
  <2>3. Enough(d)' = Enough(d)
    BY <2>1 DEF Enough, Needed
  <2>4. StockCheckHolds(job[d])' = StockCheckHolds(job[d])
    BY <2>1, <2>2 DEF StockCheckHolds, Taken, Needed
  <2> QED BY <2>1, <2>2, <2>3, <2>4
<1> QED BY <1>1, <1>2, <1>3, <1>4

(* The outbox gains one row, of an order that had none.                    *)
LEMMA CommitTables ==
  ASSUME IInv, NEW o \in Orders, o \notin processed, NEW e \in Events,
         processed' = processed \cup {o},
         outbox' = Append(outbox, Outcome(o, e)),
         reservations' \in [Orders -> [Catalog -> Nat]],
         \A p \in Orders \ {o} : reservations'[p] = reservations[p],
         (\E s \in Catalog : reservations'[o][s] > 0) <=> e = "InventoryReserved"
  PROVE  /\ outbox' \in Seq([order : Orders, event : Events])
         /\ OneOutcomePerOrder'
         /\ Untouched'
         /\ OutcomeMatchesStock'
<1> USE DEF IInv, TypeOK
<1>1. outbox' \in Seq([order : Orders, event : Events])
  BY AppendRow DEF Outcome
<1>2. PICK n : /\ DOMAIN outbox' = DOMAIN outbox \cup {n}
               /\ n \notin DOMAIN outbox
               /\ \A i \in DOMAIN outbox : outbox'[i] = outbox[i]
               /\ outbox'[n] = Outcome(o, e)
  <2> DEFINE S == [order : Orders, event : Events]
  <2>1. outbox \in Seq(S) /\ Outcome(o, e) \in S
    BY DEF Outcome
  <2> HIDE DEF S
  <2>2. /\ \E n : /\ DOMAIN outbox' = DOMAIN outbox \cup {n}
                  /\ n \notin DOMAIN outbox
                  /\ outbox'[n] = Outcome(o, e)
        /\ \A i \in DOMAIN outbox : outbox'[i] = outbox[i]
    <3>1. outbox' = Append(outbox, Outcome(o, e))
      OBVIOUS
    <3> HIDE DEF IInv, TypeOK
    <3> QED BY ONLY <2>1, <3>1, AppendRow
  <2> QED BY ONLY <2>2, Zenon
<1>3. /\ outbox'[n].order = o
      /\ outbox'[n].event = e
  BY <1>2 DEF Outcome
<1>4. \A i \in DOMAIN outbox : outbox[i].order \in processed
  BY DEF OneOutcomePerOrder
<1>5. OneOutcomePerOrder'
  <2>1. ASSUME NEW i \in DOMAIN outbox', NEW j \in DOMAIN outbox',
               outbox'[i].order = outbox'[j].order
        PROVE  i = j
    BY <1>2, <1>3, <1>4, <2>1 DEF OneOutcomePerOrder
  <2>2. processed' = {outbox'[i].order : i \in DOMAIN outbox'}
    BY <1>2, <1>3 DEF OneOutcomePerOrder
  <2> QED BY <2>1, <2>2 DEF OneOutcomePerOrder
<1>6. Untouched'
  BY DEF Untouched
<1>7. OutcomeMatchesStock'
  <2> SUFFICES ASSUME NEW p \in Orders
      PROVE  (\E s \in Catalog : reservations'[p][s] > 0)
               <=> (\E i \in DOMAIN outbox' :
                      outbox'[i] = Outcome(p, "InventoryReserved"))
    BY DEF OutcomeMatchesStock, Outcome
  <2>1. CASE p = o
    <3>1. ASSUME NEW i \in DOMAIN outbox',
                 outbox'[i] = Outcome(o, "InventoryReserved")
          PROVE  e = "InventoryReserved"
      <4>1. outbox'[i].order = o
        BY <3>1 DEF Outcome
      <4>2. i = n
        BY <1>2, <1>4, <4>1
      <4> QED BY <1>2, <3>1, <4>2 DEF Outcome
    <3> QED BY <1>2, <2>1, <3>1
  <2>2. CASE p # o
    <3>1. outbox'[n] # Outcome(p, "InventoryReserved")
      BY <1>2, <2>2 DEF Outcome
    <3>2. reservations'[p] = reservations[p]
      BY <2>2
    <3>3. (\E i \in DOMAIN outbox' : outbox'[i] = Outcome(p, "InventoryReserved"))
            <=> (\E i \in DOMAIN outbox : outbox[i] = Outcome(p, "InventoryReserved"))
      BY <1>2, <3>1
    <3> QED BY <3>2, <3>3 DEF OutcomeMatchesStock
  <2> QED BY <2>1, <2>2
<1> QED BY <1>1, <1>5, <1>6, <1>7

LEMMA CommitReservedPreserves ==
  ASSUME IInv, NEW c \in Consumers, CommitReserved(c)
  PROVE  IInv'
<1> DEFINE o == job[c]
<1>1. /\ pc[c] = "committing"
      /\ Enough(c)
      /\ available' = [s \in Catalog |-> available[s] - Taken(o, s)]
      /\ reserved' = [s \in Catalog |-> reserved[s] + Taken(o, s)]
      /\ reservations' = [reservations EXCEPT
           ![o] = [s \in Catalog |-> reservations[o][s] + Taken(o, s)]]
      /\ outbox' = Append(outbox, Outcome(o, "InventoryReserved"))
      /\ processed' = processed \cup {o}
      /\ EndTx(c)
  BY DEF CommitReserved
<1>2. /\ o \in Orders
      /\ o \notin processed
      /\ Needed(o) \subseteq Catalog
      /\ \A s \in Catalog : s \notin Needed(o) => Taken(o, s) = 0
      /\ \A d \in Consumers \ {c} :
           /\ held[d] \cap Needed(o) = {}
           /\ pc[d] = "committing" => job[d] # o
  BY <1>1, CommitAlone
<1> HIDE DEF o
<1>3. \A s \in Catalog : Taken(o, s) \in Nat
  BY <1>2, TakenIsNat, CatalogAssumption
<1>4. \A s \in Catalog : available[s] >= Taken(o, s)
  <2>1. StockCheckHolds(o)
    BY <1>1 DEF IInv, CommitReady, o
  <2> QED BY <2>1, <1>2 DEF StockCheckHolds, IInv, TypeOK
<1>5. /\ available' \in [Catalog -> Nat]
      /\ reserved' \in [Catalog -> Nat]
      /\ reservations' \in [Orders -> [Catalog -> Nat]]
  BY <1>1, <1>2, <1>3, <1>4 DEF IInv, TypeOK
<1>6. /\ LocalOK'
      /\ LocksExclusive'
      /\ LocksAscend'
      /\ SnapshotStable'
      /\ CommitReady'
  <2>1. \A d \in Consumers \ {c} : \A s \in held[d] : available'[s] = available[s]
    BY <1>1, <1>2 DEF IInv, TypeOK
  <2> QED BY <1>1, <1>2, <1>5, <2>1, CommitLocal DEF o
<1>7. \E s \in Catalog : reservations'[o][s] > 0
  <2>1. PICK s \in Catalog : Lines[o][s] > 0
    BY <1>2, OrdersAssumption DEF Needed
  <2>2. Taken(o, s) \in Nat /\ Taken(o, s) > 0
    BY <1>2, <2>1, TakenIsNat, CatalogAssumption
  <2>3. reservations'[o][s] = reservations[o][s] + Taken(o, s)
    BY <1>1, <1>2 DEF IInv, TypeOK
  <2> QED BY <1>2, <2>2, <2>3 DEF IInv, TypeOK
<1>8. /\ outbox' \in Seq([order : Orders, event : Events])
      /\ OneOutcomePerOrder'
      /\ Untouched'
      /\ OutcomeMatchesStock'
  <2>1. \A p \in Orders \ {o} : reservations'[p] = reservations[p]
    BY <1>1 DEF IInv, TypeOK
  <2>2. "InventoryReserved" \in Events
    BY DEF Events
  <2> QED BY <1>1, <1>2, <1>5, <1>7, <2>1, <2>2, CommitTables
<1>9. TypeOK'
  BY <1>1, <1>2, <1>5, <1>8 DEF IInv, TypeOK, EndTx
<1> QED BY <1>6, <1>8, <1>9 DEF IInv

LEMMA CommitFailedPreserves ==
  ASSUME IInv, NEW c \in Consumers, CommitFailed(c)
  PROVE  IInv'
<1> DEFINE o == job[c]
<1>1. /\ pc[c] = "committing"
      /\ outbox' = Append(outbox, Outcome(o, "InventoryReservationFailed"))
      /\ processed' = processed \cup {o}
      /\ EndTx(c)
      /\ UNCHANGED <<available, reserved, reservations>>
  BY DEF CommitFailed
<1>2. /\ o \in Orders
      /\ o \notin processed
      /\ \A d \in Consumers \ {c} : pc[d] = "committing" => job[d] # o
  BY <1>1, CommitAlone
<1>3. /\ LocalOK'
      /\ LocksExclusive'
      /\ LocksAscend'
      /\ SnapshotStable'
      /\ CommitReady'
  BY <1>1, <1>2, CommitLocal DEF IInv, TypeOK
<1> HIDE DEF o
<1>4. /\ outbox' \in Seq([order : Orders, event : Events])
      /\ OneOutcomePerOrder'
      /\ Untouched'
      /\ OutcomeMatchesStock'
  <2>1. ~ \E s \in Catalog : reservations'[o][s] > 0
    BY <1>1, <1>2 DEF IInv, Untouched
  <2>2. "InventoryReservationFailed" \in Events
    BY DEF Events
  <2> QED BY <1>1, <1>2, <2>1, <2>2, CommitTables DEF IInv, TypeOK
<1>5. TypeOK'
  BY <1>1, <1>2, <1>4 DEF IInv, TypeOK, EndTx
<1> QED BY <1>3, <1>4, <1>5 DEF IInv

LEMMA NextPreserves == IInv /\ [Next]_vars => IInv'
<1> SUFFICES ASSUME IInv, [Next]_vars PROVE IInv'
  OBVIOUS
<1>1. CASE UNCHANGED vars
  <2> USE <1>1 DEF vars, IInv
  <2>1. TypeOK' /\ LocalOK' /\ LocksExclusive' /\ SnapshotStable'
    BY DEF TypeOK, LocalOK, LocksExclusive, SnapshotStable
  <2>2. LocksAscend'
    BY DEF LocksAscend, Needed
  <2>3. CommitReady'
    BY DEF CommitReady, Needed, Enough, StockCheckHolds, Taken
  <2> QED BY <2>1, <2>2, <2>3, TablesUnchanged DEF dbVars
<1>2. ASSUME NEW c \in Consumers,
             AlreadyProcessed(c) \/ UnknownSku(c) \/ StockCheckFails(c)
               \/ DuplicateKey(c) \/ Fault(c)
      PROVE  IInv'
  <2>1. Rollback(c)
    BY <1>2 DEF AlreadyProcessed, UnknownSku, StockCheckFails, DuplicateKey, Fault
  <2> QED BY <2>1, RollbackPreserves
<1>3. ASSUME NEW c \in Consumers,
             (\E o \in Orders : Deliver(c, o)) \/ NotProcessed(c)
      PROVE  IInv'
  BY <1>3, BeginPreserves
<1> QED
  BY <1>1, <1>2, <1>3, LockRowPreserves, WritePreserves,
     CommitReservedPreserves, CommitFailedPreserves DEF Next

THEOREM Invariance == Spec => []IInv
BY InitEstablishes, NextPreserves, PTL DEF Spec

(* The tables and the consumers' state keep their types: in particular the *)
(* quantities never go negative, because a transaction that passed the     *)
(* CHECK still passes it when it commits.                                  *)
THEOREM TypeCorrect == Spec => []TypeOK
<1>1. IInv => TypeOK
  BY DEF IInv
<1> QED BY <1>1, Invariance, PTL

(* What was read under a row lock stays true until the transaction ends.   *)
THEOREM SnapshotIsStable == Spec => []SnapshotStable
<1>1. IInv => SnapshotStable
  BY DEF IInv
<1> QED BY <1>1, Invariance, PTL

(* Redelivery never settles an order twice, and no mark is without its row.*)
THEOREM OneOutcome == Spec => []OneOutcomePerOrder
<1>1. IInv => OneOutcomePerOrder
  BY DEF IInv
<1> QED BY <1>1, Invariance, PTL

(* An order holds stock exactly when InventoryReserved was recorded for it.*)
THEOREM OutcomeTellsTruth == Spec => []OutcomeMatchesStock
<1>1. IInv => OutcomeMatchesStock
  BY DEF IInv
<1> QED BY <1>1, Invariance, PTL

-----------------------------------------------------------------------------
(* Induction over the subsets of a finite set: a collection of them that   *)
(* is not empty has a member none of whose proper subsets is in it.        *)
LEMMA SmallestSubset ==
  ASSUME NEW S, IsFiniteSet(S), NEW Bad \in SUBSET (SUBSET S), Bad # {}
  PROVE  \E T \in Bad : \A U \in SUBSET T : U # T => U \notin Bad
<1>1. IsWellFoundedOn(StrictSubsetOrdering(S), SUBSET S)
  BY FS_StrictSubsetOrderingWellFounded, FS_FiniteSubsetsOfFinite
<1>2. PICK T \in Bad : \A U \in Bad : ~ (<<U, T>> \in StrictSubsetOrdering(S))
  BY <1>1, WFMin
<1>3. ASSUME NEW U \in SUBSET T, U # T
      PROVE  U \notin Bad
  <2>1. <<U, T>> \in StrictSubsetOrdering(S)
    BY <1>3 DEF StrictSubsetOrdering
  <2> QED BY <1>2, <2>1
<1> QED BY <1>3

(* How MapThenSumSet computes: the sum over T adds the value at some       *)
(* element of T to the sum over the others.                                *)
Pick(T) == CHOOSE x \in T : TRUE

SumStep(f, g, T) == IF T = {} THEN 0 ELSE f[Pick(T)] + g[T \ {Pick(T)}]

IsSum(g, f, S) == g = [T \in SUBSET S |-> SumStep(f, g, T)]

SumFcn(f, S) == CHOOSE g : IsSum(g, f, S)

LEMMA PickIn == ASSUME NEW T, T # {} PROVE Pick(T) \in T
BY DEF Pick

(* Two functions that compute so agree wherever both are defined.          *)
LEMMA SumsAgree ==
  ASSUME NEW S, IsFiniteSet(S), NEW f,
         NEW A \in SUBSET S, NEW g, IsSum(g, f, A),
         NEW B \in SUBSET S, NEW h, IsSum(h, f, B)
  PROVE  \A T \in SUBSET (A \cap B) : g[T] = h[T]
<1> DEFINE Bad == {T \in SUBSET (A \cap B) : g[T] # h[T]}
<1> SUFFICES ASSUME Bad # {} PROVE FALSE
  OBVIOUS
<1>1. PICK T \in Bad : \A U \in SUBSET T : U # T => U \notin Bad
  <2>1. Bad \in SUBSET (SUBSET S)
    OBVIOUS
  <2> HIDE DEF Bad
  <2> QED BY <2>1, SmallestSubset
<1>2. /\ T \in SUBSET A /\ T \in SUBSET B
      /\ g[T] = SumStep(f, g, T)
      /\ h[T] = SumStep(f, h, T)
  BY DEF IsSum
<1>3. T # {}
  BY <1>2 DEF SumStep
<1>4. Pick(T) \in T
  BY <1>3, PickIn
<1>5. g[T \ {Pick(T)}] = h[T \ {Pick(T)}]
  BY <1>1, <1>4
<1> QED BY <1>2, <1>3, <1>5 DEF SumStep

(* Such a function exists: on the subsets of a smallest set without one it *)
(* could be put together from those on its proper subsets.                 *)
LEMMA SumExists ==
  ASSUME NEW S, IsFiniteSet(S), NEW f
  PROVE  IsSum(SumFcn(f, S), f, S)
<1> DEFINE Has(T) == \E g : IsSum(g, f, T)
           Bad == {T \in SUBSET S : ~ Has(T)}
<1>1. ASSUME Bad # {} PROVE FALSE
  <2>1. PICK T \in Bad : \A U \in SUBSET T : U # T => U \notin Bad
    <3>1. Bad \in SUBSET (SUBSET S)
      OBVIOUS
    <3> HIDE DEF Bad
    <3> QED BY <1>1, <3>1, SmallestSubset
  <2>2. ASSUME NEW U \in SUBSET T, U # T
        PROVE  IsSum(SumFcn(f, U), f, U)
    <3>1. Has(U)
      BY <2>1, <2>2
    <3> QED BY <3>1 DEF SumFcn
  <2> DEFINE Part(U) == SumFcn(f, U)[U]
             Rest(U) == U \ {Pick(U)}
             g == [U \in SUBSET T |-> IF U = {} THEN 0 ELSE f[Pick(U)] + Part(Rest(U))]
  <2>3. ASSUME NEW U \in SUBSET T
        PROVE  g[U] = SumStep(f, g, U)
    <3>1. CASE U = {}
      BY <3>1 DEF SumStep
    <3>2. CASE U # {}
      <4> DEFINE V == Rest(U)
      <4>1. V \in SUBSET T /\ V # T /\ V # U
        BY <3>2, PickIn
      <4>2. g[V] = Part(V)
        <5>1. IsSum(SumFcn(f, V), f, V)
          BY <4>1, <2>2
        <5>2. Part(V) = SumStep(f, SumFcn(f, V), V)
          BY <5>1 DEF IsSum
        <5>3. CASE V = {}
          BY <5>2, <5>3, <4>1 DEF SumStep
        <5>4. CASE V # {}
          <6> DEFINE W == Rest(V)
          <6>1. W \in SUBSET V /\ W \in SUBSET T /\ W # T
            BY <4>1, PickIn, <5>4
          <6>2. IsSum(SumFcn(f, W), f, W)
            BY <6>1, <2>2
          <6>3. SumFcn(f, V)[W] = SumFcn(f, W)[W]
            <7> HIDE DEF V, W
            <7> QED BY <4>1, <5>1, <6>1, <6>2, SumsAgree, T \in SUBSET S
          <6>4. Part(V) = f[Pick(V)] + Part(W)
            BY <5>2, <5>4, <6>3 DEF SumStep
          <6>5. g[V] = f[Pick(V)] + Part(W)
            BY <4>1, <5>4
          <6> QED BY <6>4, <6>5
        <5> QED BY <5>3, <5>4
      <4>3. g[U] = f[Pick(U)] + Part(V)
        BY <3>2
      <4>4. SumStep(f, g, U) = f[Pick(U)] + g[V]
        BY <3>2 DEF SumStep
      <4> HIDE DEF V, g, Part
      <4> QED BY <4>2, <4>3, <4>4
    <3> QED BY <3>1, <3>2
  <2>4. IsSum(g, f, T)
    <3>1. g = [U \in SUBSET T |-> g[U]]
      OBVIOUS
    <3> HIDE DEF g
    <3> QED BY <2>3, <3>1 DEF IsSum
  <2> QED BY <2>1, <2>4
<1>2. Has(S)
  BY <1>1
<1> QED BY <1>2 DEF SumFcn

(* The sum over no elements, and over some.                                *)
LEMMA SumUnfolds ==
  ASSUME NEW S, IsFiniteSet(S), NEW f, NEW T \in SUBSET S
  PROVE  /\ T = {} => SumFcn(f, S)[T] = 0
         /\ T # {} => /\ Pick(T) \in T
                      /\ SumFcn(f, S)[T] = f[Pick(T)] + SumFcn(f, S)[T \ {Pick(T)}]
<1> DEFINE g == SumFcn(f, S)
<1>1. IsSum(g, f, S)
  BY SumExists
<1> HIDE DEF g
<1>2. g[T] = SumStep(f, g, T)
  BY <1>1 DEF IsSum
<1> QED BY <1>2, PickIn DEF SumStep, g

(* Zeros add up to zero.                                                   *)
LEMMA SumOfZeros ==
  ASSUME NEW S, IsFiniteSet(S), NEW f, \A x \in S : f[x] = 0
  PROVE  SumFcn(f, S)[S] = 0
<1> DEFINE Bad == {T \in SUBSET S : SumFcn(f, S)[T] # 0}
<1> SUFFICES ASSUME Bad # {} PROVE FALSE
  OBVIOUS
<1>1. PICK T \in Bad : \A U \in SUBSET T : U # T => U \notin Bad
  <2>1. Bad \in SUBSET (SUBSET S)
    OBVIOUS
  <2> HIDE DEF Bad
  <2> QED BY <2>1, SmallestSubset
<1>2. /\ T # {}
      /\ Pick(T) \in T
      /\ SumFcn(f, S)[T] = f[Pick(T)] + SumFcn(f, S)[T \ {Pick(T)}]
  <2>1. T \in SUBSET S /\ SumFcn(f, S)[T] # 0
    OBVIOUS
  <2> HIDE DEF Bad
  <2>2. T # {}
    BY <2>1, SumUnfolds
  <2> QED BY <2>1, <2>2, SumUnfolds
<1>3. SumFcn(f, S)[T \ {Pick(T)}] = 0
  BY <1>1, <1>2
<1> QED BY <1>2, <1>3

(* Numbers add up to a number, and a sum grows by what one of them grows.  *)
LEMMA SumOfNats ==
  ASSUME NEW S, IsFiniteSet(S), NEW f \in [S -> Nat]
  PROVE  \A T \in SUBSET S : SumFcn(f, S)[T] \in Nat
<1> DEFINE Bad == {T \in SUBSET S : SumFcn(f, S)[T] \notin Nat}
<1> SUFFICES ASSUME Bad # {} PROVE FALSE
  OBVIOUS
<1>1. PICK T \in Bad : \A U \in SUBSET T : U # T => U \notin Bad
  <2>1. Bad \in SUBSET (SUBSET S)
    OBVIOUS
  <2> HIDE DEF Bad
  <2> QED BY <2>1, SmallestSubset
<1>2. T = {} => SumFcn(f, S)[T] = 0
  BY SumUnfolds
<1>3. T # {} => /\ Pick(T) \in T
                /\ SumFcn(f, S)[T] = f[Pick(T)] + SumFcn(f, S)[T \ {Pick(T)}]
  <2>1. T \in SUBSET S
    OBVIOUS
  <2> HIDE DEF Bad
  <2> QED BY <2>1, SumUnfolds
<1>4. T # {} => SumFcn(f, S)[T \ {Pick(T)}] \in Nat
  BY <1>1, <1>3
<1> QED BY <1>2, <1>3, <1>4

LEMMA SumGrows ==
  ASSUME NEW S, IsFiniteSet(S), NEW f \in [S -> Nat], NEW o \in S, NEW d \in Nat,
         NEW h \in [S -> Nat], h[o] = f[o] + d, \A x \in S \ {o} : h[x] = f[x]
  PROVE  SumFcn(h, S)[S] = SumFcn(f, S)[S] + d
<1> DEFINE Extra(T) == IF o \in T THEN d ELSE 0
           Bad == {T \in SUBSET S : SumFcn(h, S)[T] # SumFcn(f, S)[T] + Extra(T)}
<1>1. ASSUME Bad # {} PROVE FALSE
  <2>1. PICK T \in Bad : \A U \in SUBSET T : U # T => U \notin Bad
    <3>1. Bad \in SUBSET (SUBSET S)
      OBVIOUS
    <3> HIDE DEF Bad
    <3> QED BY <1>1, <3>1, SmallestSubset
  <2>2. T # {}
    <3>1. T = {} => SumFcn(f, S)[T] = 0 /\ SumFcn(h, S)[T] = 0
      BY SumUnfolds
    <3> QED BY <3>1
  <2> DEFINE p == Pick(T)
             U == T \ {p}
  <2>3. /\ p \in T
        /\ SumFcn(f, S)[T] = f[p] + SumFcn(f, S)[U]
        /\ SumFcn(h, S)[T] = h[p] + SumFcn(h, S)[U]
    <3>1. T \in SUBSET S
      OBVIOUS
    <3> HIDE DEF Bad
    <3>2. SumFcn(f, S)[T] = f[p] + SumFcn(f, S)[U]
      BY <2>2, <3>1, SumUnfolds
    <3>3. SumFcn(h, S)[T] = h[p] + SumFcn(h, S)[U]
      BY <2>2, <3>1, SumUnfolds
    <3> QED BY <2>2, <3>2, <3>3, PickIn
  <2>5. SumFcn(h, S)[U] = SumFcn(f, S)[U] + Extra(U)
    BY <2>1, <2>3
  <2>6. SumFcn(f, S)[U] \in Nat
    BY SumOfNats
  <2>7. f[p] \in Nat /\ h[p] = IF p = o THEN f[p] + d ELSE f[p]
    BY <2>3
  <2>8. SumFcn(h, S)[T] # SumFcn(f, S)[T] + Extra(T)
    OBVIOUS
  <2>9. Extra(T) = IF p = o THEN d ELSE Extra(U)
    BY <2>3
  <2>10. p = o => Extra(U) = 0
    OBVIOUS
  <2>11. Extra(U) \in Nat
    OBVIOUS
  <2> HIDE DEF Extra, p, U
  <2> QED BY <2>3, <2>5, <2>6, <2>7, <2>8, <2>9, <2>10, <2>11
<1>2. SumFcn(h, S)[S] = SumFcn(f, S)[S] + Extra(S)
  BY <1>1
<1> QED BY <1>2

-----------------------------------------------------------------------------
(* The units that reservations hold of s, order by order.                  *)
Units(rows, s) == [o \in Orders |-> rows[o][s]]

LEMMA StockConservedAsSum ==
  StockConserved <=>
    \A s \in Catalog :
      /\ available[s] + reserved[s] = InitialStock[s]
      /\ reserved[s] = SumFcn(Units(reservations, s), Orders)[Orders]
<1>1. ASSUME NEW s \in Catalog
      PROVE  MapThenSumSet(LAMBDA o : reservations[o][s], Orders)
               = SumFcn(Units(reservations, s), Orders)[Orders]
  BY DEF MapThenSumSet, MapThenFoldSet, SumFcn, IsSum, SumStep, Pick, Units
<1> QED BY <1>1 DEF StockConserved

LEMMA StockConservedAsSumNext ==
  StockConserved' <=>
    \A s \in Catalog :
      /\ available'[s] + reserved'[s] = InitialStock[s]
      /\ reserved'[s] = SumFcn(Units(reservations', s), Orders)[Orders]
<1>1. ASSUME NEW s \in Catalog
      PROVE  MapThenSumSet(LAMBDA o : reservations[o][s], Orders)'
               = SumFcn(Units(reservations', s), Orders)[Orders]
  BY DEF MapThenSumSet, MapThenFoldSet, SumFcn, IsSum, SumStep, Pick, Units
<1> QED BY <1>1 DEF StockConserved

(* The three updates of a commit move the same units: what a row loses its *)
(* reserved_quantity gains, and so does the one order's reservation.       *)
LEMMA CommitConserves ==
  ASSUME IInv, StockConserved, NEW c \in Consumers, CommitReserved(c)
  PROVE  StockConserved'
<1> DEFINE o == job[c]
<1>1. /\ pc[c] = "committing"
      /\ available' = [s \in Catalog |-> available[s] - Taken(o, s)]
      /\ reserved' = [s \in Catalog |-> reserved[s] + Taken(o, s)]
      /\ reservations' = [reservations EXCEPT
           ![o] = [s \in Catalog |-> reservations[o][s] + Taken(o, s)]]
  BY DEF CommitReserved
<1>2. o \in Orders
  BY <1>1, CommitAlone
<1> HIDE DEF o
<1> SUFFICES ASSUME NEW s \in Catalog
             PROVE  /\ available'[s] + reserved'[s] = InitialStock[s]
                    /\ reserved'[s] = SumFcn(Units(reservations', s), Orders)[Orders]
  BY StockConservedAsSumNext
<1>3. /\ available[s] + reserved[s] = InitialStock[s]
      /\ reserved[s] = SumFcn(Units(reservations, s), Orders)[Orders]
  BY StockConservedAsSum
<1>4. /\ Taken(o, s) \in Nat
      /\ available[s] \in Nat
      /\ reserved[s] \in Nat
  BY <1>2, TakenIsNat, CatalogAssumption DEF IInv, TypeOK
<1>5. available'[s] + reserved'[s] = InitialStock[s]
  BY <1>1, <1>3, <1>4
<1>6. /\ Units(reservations, s) \in [Orders -> Nat]
      /\ Units(reservations', s) \in [Orders -> Nat]
      /\ Units(reservations', s)[o] = Units(reservations, s)[o] + Taken(o, s)
      /\ \A p \in Orders \ {o} :
           Units(reservations', s)[p] = Units(reservations, s)[p]
  BY <1>1, <1>2, <1>4 DEF Units, IInv, TypeOK
<1>7. SumFcn(Units(reservations', s), Orders)[Orders]
        = SumFcn(Units(reservations, s), Orders)[Orders] + Taken(o, s)
  BY <1>2, <1>4, <1>6, SumGrows, FiniteAssumption
<1> QED BY <1>1, <1>3, <1>5, <1>7

(* No unit of stock appears or disappears, whatever aborts half-way and    *)
(* however often a message comes: available plus reserved is the initial   *)
(* stock, and reserved is the sum of the rows of reservations.             *)
THEOREM StockIsConserved == Spec => []StockConserved
<1>1. Init => StockConserved
  <2> SUFFICES ASSUME Init, NEW s \in Catalog
               PROVE  /\ available[s] + reserved[s] = InitialStock[s]
                      /\ reserved[s] = SumFcn(Units(reservations, s), Orders)[Orders]
    BY StockConservedAsSum
  <2>1. SumFcn(Units(reservations, s), Orders)[Orders] = 0
    <3>1. \A o \in Orders : Units(reservations, s)[o] = 0
      BY DEF Init, Units
    <3> QED BY <3>1, SumOfZeros, FiniteAssumption
  <2> QED BY <2>1, CatalogAssumption DEF Init
<1>2. IInv /\ StockConserved /\ [Next]_vars => StockConserved'
  <2> SUFFICES ASSUME IInv, StockConserved, [Next]_vars PROVE StockConserved'
    OBVIOUS
  <2>1. CASE \E c \in Consumers : CommitReserved(c)
    BY <2>1, CommitConserves
  <2>2. CASE ~ \E c \in Consumers : CommitReserved(c)
    <3>1. UNCHANGED <<available, reserved, reservations>>
      BY <2>2 DEF Next, vars, dbVars, Deliver, AlreadyProcessed, NotProcessed,
         LockRow, UnknownSku, StockCheckFails, DuplicateKey, Write,
         CommitFailed, Fault, Rollback
    <3> QED BY <3>1, StockConservedAsSum, StockConservedAsSumNext
  <2> QED BY <2>1, <2>2
<1> QED BY <1>1, <1>2, Invariance, PTL DEF Spec

-----------------------------------------------------------------------------
(* A set of SKUs has a last one in sort order.                             *)
LEMMA LastSku ==
  ASSUME NEW A \in SUBSET Skus, A # {}
  PROVE  \E m \in A : \A x \in A : x <= m
<1> DEFINE Above(x) == {y \in Skus : x < y}
           T == {Above(x) : x \in A}
<1>1. IsWellFoundedOn(StrictSubsetOrdering(Skus), SUBSET Skus)
  <2>1. IsFiniteSet(Skus)
    BY SkusAssumption
  <2> QED BY <2>1, FS_StrictSubsetOrderingWellFounded, FS_FiniteSubsetsOfFinite
<1>2. T \subseteq SUBSET Skus /\ T # {}
  OBVIOUS
<1>3. \E U \in T : \A V \in T : ~ (<<V, U>> \in StrictSubsetOrdering(Skus))
  <2> HIDE DEF T
  <2> QED BY <1>1, <1>2, WFMin
<1>4. PICK m \in A : \A V \in T : ~ (<<V, Above(m)>> \in StrictSubsetOrdering(Skus))
  BY <1>3
<1>5. ASSUME NEW x \in A, ~ (x <= m)
      PROVE  FALSE
  <2>1. x \in Nat /\ m \in Nat /\ m < x
    BY <1>5, SkusAssumption
  <2>2. Above(x) \subseteq Above(m) /\ x \in Above(m) /\ x \notin Above(x)
    <3>1. \A y \in Skus : y \in Nat
      BY SkusAssumption
    <3>2. \A y \in Skus : x < y => m < y
      BY <2>1, <3>1
    <3>3. Above(x) \subseteq Above(m)
      BY <3>2
    <3>4. x \in Skus /\ x \in Above(m) /\ ~ (x < x)
      BY <2>1
    <3> QED BY <3>3, <3>4
  <2>3. <<Above(x), Above(m)>> \in StrictSubsetOrdering(Skus)
    BY <2>2 DEF StrictSubsetOrdering
  <2> QED BY <1>4, <2>3
<1> QED BY <1>5

(* Replicas never deadlock on row locks: a waiting transaction waits for a *)
(* row above every row it holds, so a cycle of waits would be an endless   *)
(* ascent in a finite set.                                                 *)
THEOREM NoDeadlockOnRows == Spec => []NoWaitCycle
<1>1. IInv => NoWaitCycle
  <2> SUFFICES ASSUME IInv,
                      NEW S \in (SUBSET Consumers) \ {{}},
                      \A c \in S : \E d \in S : WaitsFor(c, d)
               PROVE  FALSE
    BY DEF NoWaitCycle
  <2> DEFINE Awaited == {s \in Catalog : \E c \in S : pc[c] = "locking" /\ AtRow(c, s)}
  <2>1. ASSUME NEW c \in S
        PROVE  /\ pc[c] = "locking"
               /\ \E d \in S, s \in Catalog : s \in held[d] /\ AtRow(c, s)
    BY <2>1 DEF WaitsFor, IInv, TypeOK
  <2>2. Awaited # {}
    BY <2>1
  <2>3. ASSUME NEW s \in Awaited
        PROVE  \E t \in Awaited : s < t
    <3>1. PICK c \in S : AtRow(c, s)
      OBVIOUS
    <3>2. PICK d \in S, r \in Catalog : r \in held[d] /\ AtRow(c, r)
      BY <2>1
    <3>3. r = s
      <4>1. r \in Nat /\ s \in Nat
        BY SkusAssumption, CatalogAssumption
      <4>2. r <= s /\ s <= r
        BY <3>1, <3>2 DEF AtRow
      <4> QED BY <4>1, <4>2
    <3>4. PICK t \in Catalog : AtRow(d, t)
      BY <2>1
    <3>5. pc[d] = "locking" /\ t \in Awaited
      BY <2>1, <3>4
    <3>6. s < t
      BY <3>2, <3>3, <3>4, <3>5 DEF IInv, LocksAscend, AtRow
    <3> QED BY <3>5, <3>6
  <2>4. PICK m \in Awaited : \A x \in Awaited : x <= m
    <3>1. Awaited \in SUBSET Skus
      BY CatalogAssumption
    <3> HIDE DEF Awaited
    <3> QED BY <2>2, <3>1, LastSku
  <2>5. PICK t \in Awaited : m < t
    BY <2>3
  <2>6. t \in Nat /\ m \in Nat /\ t <= m
    BY <2>4, SkusAssumption, CatalogAssumption
  <2> QED BY <2>5, <2>6
<1> QED BY <1>1, Invariance, PTL

-----------------------------------------------------------------------------
(* As long as no order names a SKU on two lines, the service implements    *)
(* the atomic specification: a commit is its Reserve or Refuse, and every  *)
(* other step is invisible.                                                *)
OneLinePerSku == \A o \in Orders : \A s \in Skus : Lines[o][s] <= 1

LEMMA AtomicOrdered ==
  ASSUME NEW o \in Orders
  PROVE  Atomic!Ordered(o) = Needed(o)
<1> SUFFICES ASSUME NEW s \in Skus PROVE Qty[o][s] > 0 <=> Lines[o][s] > 0
  BY DEF Atomic!Ordered, Needed
<1> QED BY OrdersAssumption

LEMMA CommitIsAtomic ==
  ASSUME OneLinePerSku, IInv, NEW c \in Consumers
  PROVE  /\ CommitReserved(c) => Atomic!Reserve(job[c])
         /\ CommitFailed(c) => Atomic!Refuse(job[c])
<1> SUFFICES ASSUME pc[c] = "committing"
             PROVE  /\ CommitReserved(c) => Atomic!Reserve(job[c])
                    /\ CommitFailed(c) => Atomic!Refuse(job[c])
  BY DEF CommitReserved, CommitFailed
<1> DEFINE o == job[c]
<1>1. /\ o \in Orders
      /\ o \notin processed
      /\ Needed(o) \subseteq Catalog
      /\ Needed(o) \subseteq held[c]
  BY CommitAlone DEF IInv, CommitReady
<1>2. o \notin Atomic!Settled
  BY <1>1 DEF IInv, OneOutcomePerOrder, Atomic!Settled
<1>3. Atomic!Ordered(o) = Needed(o)
  BY <1>1, AtomicOrdered
<1>4. Enough(c) <=> Atomic!InStock(o)
  BY <1>1, <1>3 DEF Enough, Atomic!InStock, IInv, SnapshotStable
<1>5. \A s \in Catalog : Taken(o, s) = Qty[o][s]
  <2> SUFFICES ASSUME NEW s \in Catalog PROVE Taken(o, s) = Qty[o][s]
    OBVIOUS
  <2>1. s \in Skus /\ Lines[o][s] \in Nat /\ Lines[o][s] <= 1
    BY <1>1, CatalogAssumption, OrdersAssumption DEF OneLinePerSku
  <2>2. Lines[o][s] = 0 \/ Lines[o][s] = 1
    BY <2>1
  <2>3. Lines[o][s] = 0 => Qty[o][s] = 0
    BY <1>1, <2>1, OrdersAssumption
  <2> QED BY <1>1, <2>1, <2>2, <2>3, TakenIsNat
<1>6. reservations[o] = [s \in Catalog |-> 0]
  BY <1>1 DEF IInv, Untouched
<1>7. ASSUME CommitReserved(c) PROVE Atomic!Reserve(o)
  <2> USE <1>7 DEF CommitReserved
  <2>1. available' = [s \in Catalog |-> available[s] - Qty[o][s]]
    BY <1>5
  <2>2. reserved' = [s \in Catalog |-> reserved[s] + Qty[o][s]]
    BY <1>5
  <2>3. reservations' = [reservations EXCEPT ![o] = [s \in Catalog |-> Qty[o][s]]]
    <3>1. \A s \in Catalog : reservations[o][s] + Taken(o, s) = Qty[o][s]
      BY <1>1, <1>5, <1>6, CatalogAssumption, OrdersAssumption
    <3> QED BY <3>1
  <2>4. outbox' = Append(outbox, Atomic!Outcome(o, "InventoryReserved"))
    BY DEF Outcome, Atomic!Outcome
  <2> QED BY <1>1, <1>2, <1>3, <1>4, <2>1, <2>2, <2>3, <2>4 DEF Atomic!Reserve
<1>8. ASSUME CommitFailed(c) PROVE Atomic!Refuse(o)
  <2> USE <1>8 DEF CommitFailed
  <2>1. outbox' = Append(outbox, Atomic!Outcome(o, "InventoryReservationFailed"))
    BY DEF Outcome, Atomic!Outcome
  <2> QED BY <1>1, <1>2, <1>3, <1>4, <2>1 DEF Atomic!Refuse
<1> QED BY <1>7, <1>8

THEOREM Implementation == OneLinePerSku /\ Spec => ImplementsReservation
<1> SUFFICES ASSUME OneLinePerSku PROVE Spec => ImplementsReservation
  OBVIOUS
<1>1. Init => Atomic!Init
  BY DEF Init, Atomic!Init
<1>2. IInv /\ [Next]_vars => [Atomic!Next]_(Atomic!vars)
  <2> SUFFICES ASSUME IInv, [Next]_vars PROVE [Atomic!Next]_(Atomic!vars)
    OBVIOUS
  <2>1. CASE \E c \in Consumers : CommitReserved(c) \/ CommitFailed(c)
    <3>1. PICK c \in Consumers : CommitReserved(c) \/ CommitFailed(c)
      BY <2>1
    <3>2. job[c] \in Orders
      BY <3>1, CommitAlone DEF CommitReserved, CommitFailed
    <3>3. Atomic!Reserve(job[c]) \/ Atomic!Refuse(job[c])
      BY <3>1, CommitIsAtomic
    <3> QED BY <3>2, <3>3 DEF Atomic!Next
  <2>2. CASE ~ \E c \in Consumers : CommitReserved(c) \/ CommitFailed(c)
    <3>1. UNCHANGED dbVars
      BY <2>2 DEF Next, vars, dbVars, Deliver, AlreadyProcessed, NotProcessed,
         LockRow, UnknownSku, StockCheckFails, DuplicateKey, Write, Fault, Rollback
    <3> QED BY <3>1 DEF Atomic!vars, dbVars
  <2> QED BY <2>1, <2>2
<1> QED BY <1>1, <1>2, Invariance, PTL DEF Spec, ImplementsReservation, Atomic!Spec
=============================================================================
