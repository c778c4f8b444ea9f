------------------------------- MODULE Outbox -------------------------------
(***************************************************************************)
(* The outbox worker, the same code in all four services: each replica     *)
(* polls outbox_events for unpublished rows, writes them to Kafka one by   *)
(* one, and marks each row after its write.                                *)
(*                                                                         *)
(* The SELECT is sent outside a transaction, so the locks of its           *)
(* FOR UPDATE SKIP LOCKED end with the statement.  The statement is not    *)
(* one step: it locks row after row, and another replica's SELECT may run  *)
(* between two of them.                                                    *)
(***************************************************************************)
EXTENDS Naturals, Sequences, FiniteSets

CONSTANTS Rows,         \* outbox_events.id, given out by BIGSERIAL
          TxOf,         \* TxOf[i]: the business transaction that inserts row i
          Key,          \* Key[i]: aggregate_id, the Kafka message key
          Workers,      \* one per replica of the service
          Batch,        \* LIMIT of the SELECT
          MaxFaults     \* bound on the failures of a behaviour

ASSUME RowsAssumption ==
  /\ Rows \subseteq Nat
  /\ IsFiniteSet(Rows)
  /\ Batch \in Nat \ {0}
  /\ MaxFaults \in Nat

(* A service handles an order once, in one transaction (processed_events), *)
(* so all the rows of one order are committed together.                    *)
ASSUME KeyAssumption ==
  \A i, j \in Rows : Key[i] = Key[j] => TxOf[i] = TxOf[j]

VARIABLES status,   \* a row is not committed yet, unpublished or published
          log,      \* the messages Kafka has stored, key by key in this order
          mode,     \* where a worker is in publishBatch
          todo,     \* rows of its SELECT's snapshot not looked at yet
          batch,    \* toPublish
          faults,   \* failures so far
          raced,    \* history: the orders two workers had in hand at once
          dropped   \* history: the rows a failing broker took and lost

vars == <<status, log, mode, todo, batch, faults, raced, dropped>>
history == <<raced, dropped>>

TxIds == {TxOf[i] : i \in Rows}

Unpublished == {i \in Rows : status[i] = "unpublished"}

InLog == {log[n] : n \in DOMAIN log}

(* Slips of a programmer, which no specification here uses: README.md says *)
(* which definition each would replace and which property then fails.      *)
NewestFirst(S) == CHOOSE i \in S : \A j \in S : j <= i

(* toPublish is in id order: the next row is the smallest one.             *)
First(S) == CHOOSE i \in S : \A j \in S : i <= j

(* A SELECT that still runs holds the locks of the rows it has returned.   *)
LockedByOther(w, i) ==
  \E v \in Workers \ {w} : mode[v] = "select" /\ i \in batch[v]

(* Another worker has a row of the same order in hand.                     *)
OrderHeldByOther(w, i) ==
  \E v \in Workers \ {w} : \E j \in batch[v] : Key[j] = Key[i]

Init == /\ status = [i \in Rows |-> "uncommitted"]
        /\ log = << >>
        /\ mode = [w \in Workers |-> "idle"]
        /\ todo = [w \in Workers |-> {}]
        /\ batch = [w \in Workers |-> {}]
        /\ faults = 0
        /\ raced = {}
        /\ dropped = {}

(* Slips of a programmer, which no specification here uses: README.md says *)
(* which definition each would replace and which property then fails.      *)
FullBatchOnly(w) ==
  /\ mode[w] = "idle"
  /\ Cardinality(Unpublished) >= Batch
  /\ mode' = [mode EXCEPT ![w] = "select"]
  /\ todo' = [todo EXCEPT ![w] = Unpublished]
  /\ UNCHANGED <<status, log, batch, faults, history>>

KeyAsPayload(w) ==
  /\ mode[w] = "publish"
  /\ log' = Append(log, Key[First(batch[w])])
  /\ mode' = [mode EXCEPT ![w] = "mark"]
  /\ UNCHANGED <<status, todo, batch, faults, history>>

ErrorIgnored(w) ==
  /\ faults < MaxFaults
  /\ mode[w] = "publish"
  /\ mode' = [mode EXCEPT ![w] = "mark"]
  /\ faults' = faults + 1
  /\ UNCHANGED <<status, log, todo, batch, history>>

NextRowAfterError(w) ==
  LET i == First(batch[w]) IN
  /\ faults < MaxFaults
  /\ mode[w] = "publish"
  /\ batch' = [batch EXCEPT ![w] = @ \ {i}]
  /\ mode' = [mode EXCEPT ![w] = IF batch[w] = {i} THEN "idle" ELSE "publish"]
  /\ faults' = faults + 1
  /\ UNCHANGED <<status, log, todo, history>>

(* A business transaction commits: its rows become visible together.       *)
CommitTx(t) ==
  /\ \E i \in Rows : TxOf[i] = t /\ status[i] = "uncommitted"
  /\ status' = [i \in Rows |-> IF TxOf[i] = t THEN "unpublished" ELSE status[i]]
  /\ UNCHANGED <<log, mode, todo, batch, faults, history>>

(* The ticker fires and the SELECT takes its snapshot.                     *)
Tick(w) ==
  /\ mode[w] = "idle"
  /\ Unpublished # {}
  /\ mode' = [mode EXCEPT ![w] = "select"]
  /\ todo' = [todo EXCEPT ![w] = Unpublished]
  /\ UNCHANGED <<status, log, batch, faults, history>>

(* The SELECT comes to its next row: it skips one that is locked or that   *)
(* was marked since the snapshot, else it locks and returns it.            *)
SelectRow(w) ==
  LET i == First(todo[w]) IN
  /\ mode[w] = "select"
  /\ todo[w] # {}
  /\ Cardinality(batch[w]) < Batch
  /\ todo' = [todo EXCEPT ![w] = @ \ {i}]
  /\ IF status[i] = "unpublished" /\ ~LockedByOther(w, i)
       THEN batch' = [batch EXCEPT ![w] = @ \cup {i}]
       ELSE UNCHANGED batch
  /\ raced' = raced \cup {k \in {Key[i]} : status[i] = "unpublished"
                                           /\ OrderHeldByOther(w, i)}
  /\ UNCHANGED <<status, log, mode, faults, dropped>>

(* The statement, and with it every row lock, ends.                        *)
EndSelect(w) ==
  /\ mode[w] = "select"
  /\ todo[w] = {} \/ Cardinality(batch[w]) = Batch
  /\ mode' = [mode EXCEPT ![w] = IF batch[w] = {} THEN "idle" ELSE "publish"]
  /\ todo' = [todo EXCEPT ![w] = {}]
  /\ UNCHANGED <<status, log, batch, faults, history>>

(* WriteMessages returned nil.  The writer asks for no acknowledgement     *)
(* (RequiredAcks is left at its zero value), so a broker that fails then   *)
(* may have stored nothing.                                                *)
WriteMessage(w) ==
  /\ mode[w] = "publish"
  /\ log' = Append(log, First(batch[w]))
  /\ mode' = [mode EXCEPT ![w] = "mark"]
  /\ UNCHANGED <<status, todo, batch, faults, history>>

BrokerDrops(w) ==
  /\ faults < MaxFaults
  /\ mode[w] = "publish"
  /\ mode' = [mode EXCEPT ![w] = "mark"]
  /\ dropped' = dropped \cup {First(batch[w])}
  /\ faults' = faults + 1
  /\ UNCHANGED <<status, log, todo, batch, raced>>

(* UPDATE ... SET published = TRUE: waits for a SELECT that locks the row. *)
MarkPublished(w) ==
  LET i == First(batch[w]) IN
  /\ mode[w] = "mark"
  /\ ~LockedByOther(w, i)
  /\ status' = [status EXCEPT ![i] = "published"]
  /\ batch' = [batch EXCEPT ![w] = @ \ {i}]
  /\ mode' = [mode EXCEPT ![w] = IF batch[w] = {i} THEN "idle" ELSE "publish"]
  /\ UNCHANGED <<log, todo, faults, history>>

-----------------------------------------------------------------------------
(* publishBatch returns, or the process dies and starts again: what was    *)
(* fetched is forgotten.                                                   *)
GiveUp(w) ==
  /\ faults < MaxFaults
  /\ faults' = faults + 1
  /\ mode' = [mode EXCEPT ![w] = "idle"]
  /\ todo' = [todo EXCEPT ![w] = {}]
  /\ batch' = [batch EXCEPT ![w] = {}]
  /\ UNCHANGED history

(* The connection breaks while the rows are read.  rows.Err is not asked,  *)
(* so the rows read so far are published as if they were all.              *)
SelectBreaks(w) ==
  /\ faults < MaxFaults
  /\ faults' = faults + 1
  /\ mode[w] = "select"
  /\ batch[w] # {}
  /\ mode' = [mode EXCEPT ![w] = "publish"]
  /\ todo' = [todo EXCEPT ![w] = {}]
  /\ UNCHANGED <<status, log, batch, history>>

(* WriteMessages failed; the broker may have stored the message or not.    *)
WriteFails(w) ==
  /\ mode[w] = "publish"
  /\ log' \in {log, Append(log, First(batch[w]))}
  /\ GiveUp(w)
  /\ UNCHANGED status

(* The UPDATE failed; the database may have applied it or not.             *)
MarkFails(w) ==
  /\ mode[w] = "mark"
  /\ \/ UNCHANGED status
     \/ /\ ~LockedByOther(w, First(batch[w]))
        /\ status' = [status EXCEPT ![First(batch[w])] = "published"]
  /\ GiveUp(w)
  /\ UNCHANGED log

Crash(w) ==
  /\ mode[w] # "idle"
  /\ GiveUp(w)
  /\ UNCHANGED <<status, log>>

Work(w) == \/ Tick(w)
           \/ SelectRow(w)
           \/ EndSelect(w)
           \/ WriteMessage(w)
           \/ MarkPublished(w)

Fail(w) == \/ BrokerDrops(w)
           \/ SelectBreaks(w)
           \/ WriteFails(w)
           \/ MarkFails(w)
           \/ Crash(w)

Next == \/ \E t \in TxIds : CommitTx(t)
        \/ \E w \in Workers : Work(w) \/ Fail(w)

Spec == Init /\ [][Next]_vars

(* The ticker of a worker always fires again, and failures end some time.  *)
FairSpec == Spec /\ \A w \in Workers : WF_vars(Work(w))

-----------------------------------------------------------------------------
(* The types of the table, of the topic and of the workers' state.         *)
TypeOK ==
  /\ status \in [Rows -> {"uncommitted", "unpublished", "published"}]
  /\ log \in Seq(Rows)
  /\ mode \in [Workers -> {"idle", "select", "publish", "mark"}]
  /\ todo \in [Workers -> SUBSET Rows]
  /\ batch \in [Workers -> SUBSET Rows]
  /\ faults \in 0..MaxFaults
  /\ raced \subseteq {Key[i] : i \in Rows}
  /\ dropped \subseteq Rows

(* A row is marked published only when Kafka has its event: "It can NEVER  *)
(* cause a lost event" (outbox/worker.go:23).  The one exception is the    *)
(* event that a failing broker took without being asked to acknowledge it  *)
(* (worker.go:36-40).                                                      *)
NoLostEvent ==
  \A i \in Rows : status[i] = "published" => i \in InLog \cup dropped

(* "partition by key (order id) so per-order ordering is preserved"        *)
(* (outbox/worker.go:39): no event is in the topic before an earlier event *)
(* of its order, repetitions left aside.  With two replicas this is false: *)
(* they share out the rows of one order and publish at the same time.      *)
OrderedPerKey ==
  \A n \in DOMAIN log, i \in Rows :
    Key[i] = Key[log[n]] /\ i < log[n] => \E m \in 1..n : log[m] = i

(* What holds of any number of workers, whatever fails: the topic shows    *)
(* the events of an order in the order they were recorded, repetitions     *)
(* included (worker.go:128-129), unless some SELECT came to an unpublished *)
(* row of the order while another worker had rows of it in hand.           *)
OrderedUnlessRaced ==
  \A m, n \in DOMAIN log :
    /\ m < n
    /\ Key[log[m]] = Key[log[n]]
    /\ Key[log[m]] \notin raced
    => log[m] <= log[n]

(* Every recorded event is written and marked in the end, whatever crashed *)
(* before and however the workers get in each other's way.                 *)
BacklogDrains ==
  \A i \in Rows : status[i] = "unpublished" ~> status[i] = "published"

(* Any number of workers provide the feed of EventFeed.                    *)
Feed == INSTANCE EventFeed
          WITH recorded <- {i \in Rows : status[i] # "uncommitted"}
ImplementsFeed == Feed!FairSpec
=============================================================================
