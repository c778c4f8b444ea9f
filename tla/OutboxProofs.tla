---------------------------- MODULE OutboxProofs ----------------------------
(***************************************************************************)
(* Proofs about Outbox, for every table of events, number of workers and   *)
(* number of failures: no event is lost that the broker did not drop, the  *)
(* events of an order keep their order unless two workers raced for it,    *)
(* and the topic is the feed of EventFeed.                                 *)
(***************************************************************************)
EXTENDS Outbox, TLAPS, WellFoundedInduction

(* The next row of a batch is one of its rows, and none comes before it.   *)
LEMMA FirstIsSmallest ==
  ASSUME NEW S \in SUBSET Rows, S # {}
  PROVE  First(S) \in S /\ \A j \in S : First(S) <= j
<1>1. S \subseteq Nat
  BY RowsAssumption
<1>2. PICK i \in S : \A j \in S : ~ (<<j, i>> \in OpToRel(<, Nat))
  BY <1>1, WFMin, NatLessThanWellFounded
<1>3. \A j \in S : i <= j
  <2> SUFFICES ASSUME NEW j \in S, ~ (i <= j) PROVE FALSE
    OBVIOUS
  <2>1. i \in Nat /\ j \in Nat /\ j < i
    BY <1>1
  <2>2. <<j, i>> \in OpToRel(<, Nat)
    BY <2>1 DEF OpToRel
  <2> QED BY <1>2, <2>2
<1> QED BY <1>3 DEF First

(* The log gains one message.                                              *)
LEMMA AppendMessage ==
  ASSUME NEW q \in Seq(Rows), NEW i \in Rows, NEW r, r = Append(q, i)
  PROVE  /\ r \in Seq(Rows)
         /\ {r[n] : n \in DOMAIN r} = {q[n] : n \in DOMAIN q} \cup {i}
<1>1. /\ r \in Seq(Rows)
      /\ DOMAIN r = DOMAIN q \cup {Len(q) + 1}
      /\ r[Len(q) + 1] = i
      /\ \A n \in DOMAIN q : r[n] = q[n]
  OBVIOUS
<1> QED BY <1>1

-----------------------------------------------------------------------------
(* A worker that is not selecting has forgotten its snapshot, one that     *)
(* publishes or marks has something in hand.                               *)
BatchOK ==
  \A w \in Workers :
    /\ mode[w] # "select" => todo[w] = {}
    /\ mode[w] = "idle" => batch[w] = {}
    /\ mode[w] \in {"publish", "mark"} => batch[w] # {}

(* A row about to be marked was written, or dropped by the broker.         *)
WrittenBeforeMark ==
  \A w \in Workers : mode[w] = "mark" => First(batch[w]) \in InLog \cup dropped

SafeInv == TypeOK /\ BatchOK /\ WrittenBeforeMark /\ NoLostEvent

LEMMA SafeInit == Init => SafeInv
<1> SUFFICES ASSUME Init PROVE SafeInv
  OBVIOUS
<1>1. log \in Seq(Rows)
  BY DEF Init
<1> QED BY <1>1, RowsAssumption
        DEF Init, SafeInv, TypeOK, BatchOK, WrittenBeforeMark, NoLostEvent

LEMMA SafeStep == SafeInv /\ [Next]_vars => SafeInv'
<1> SUFFICES ASSUME SafeInv, [Next]_vars PROVE SafeInv'
  OBVIOUS
<1> USE RowsAssumption DEF SafeInv, TypeOK
<1>1. CASE UNCHANGED vars
  BY <1>1 DEF vars, history, BatchOK, WrittenBeforeMark, NoLostEvent, InLog
<1>2. ASSUME NEW t \in TxIds, CommitTx(t) PROVE SafeInv'
  BY <1>2 DEF CommitTx, history, BatchOK, WrittenBeforeMark, NoLostEvent, InLog
<1>3. ASSUME NEW w \in Workers, Tick(w) \/ SelectRow(w) \/ EndSelect(w)
                                \/ SelectBreaks(w)
      PROVE  SafeInv'
  <2>1. UNCHANGED <<status, log, dropped>> /\ faults' \in 0..MaxFaults
    BY <1>3 DEF Tick, SelectRow, EndSelect, SelectBreaks, history
  <2>2. TypeOK'
    <3>1. todo' \in [Workers -> SUBSET Rows]
      BY <1>3 DEF Tick, SelectRow, EndSelect, SelectBreaks, Unpublished
    <3>2. batch' \in [Workers -> SUBSET Rows]
      <4>1. mode[w] = "select" /\ todo[w] # {} => First(todo[w]) \in Rows
        BY FirstIsSmallest
      <4> QED BY <1>3, <4>1 DEF Tick, SelectRow, EndSelect, SelectBreaks
    <3>3. mode' \in [Workers -> {"idle", "select", "publish", "mark"}]
      BY <1>3 DEF Tick, SelectRow, EndSelect, SelectBreaks
    <3>4. raced' \subseteq {Key[i] : i \in Rows}
      <4>1. mode[w] = "select" /\ todo[w] # {} => First(todo[w]) \in Rows
        BY FirstIsSmallest
      <4> QED BY <1>3, <4>1 DEF Tick, SelectRow, EndSelect, SelectBreaks, history
    <3> QED BY <2>1, <3>1, <3>2, <3>3, <3>4
  <2>3. BatchOK'
    BY <1>3 DEF Tick, SelectRow, EndSelect, SelectBreaks, BatchOK
  <2>4. ASSUME NEW v \in Workers, mode'[v] = "mark"
        PROVE  mode[v] = "mark" /\ batch'[v] = batch[v]
    BY <1>3, <2>4 DEF Tick, SelectRow, EndSelect, SelectBreaks
  <2>5. WrittenBeforeMark' /\ NoLostEvent'
    BY <2>1, <2>4 DEF WrittenBeforeMark, NoLostEvent, InLog
  <2> QED BY <2>2, <2>3, <2>5
<1>4. ASSUME NEW w \in Workers, WriteMessage(w) PROVE SafeInv'
  <2>1. First(batch[w]) \in Rows
    BY <1>4, FirstIsSmallest DEF WriteMessage, BatchOK
  <2>2. log' \in Seq(Rows) /\ InLog' = InLog \cup {First(batch[w])}
    <3>1. log' = Append(log, First(batch[w]))
      BY <1>4 DEF WriteMessage
    <3>2. log \in Seq(Rows)
      OBVIOUS
    <3> QED BY ONLY <2>1, <3>1, <3>2, AppendMessage DEF InLog
  <2> QED BY <1>4, <2>2 DEF WriteMessage, history, BatchOK, WrittenBeforeMark, NoLostEvent
<1>5. ASSUME NEW w \in Workers, BrokerDrops(w) PROVE SafeInv'
  <2>1. First(batch[w]) \in Rows
    BY <1>5, FirstIsSmallest DEF BrokerDrops, BatchOK
  <2>2. TypeOK' /\ BatchOK'
    <3>1. mode' = [mode EXCEPT ![w] = "mark"] /\ faults' \in 0..MaxFaults
      BY <1>5 DEF BrokerDrops
    <3>2. UNCHANGED <<status, log, todo, batch, raced>> /\ dropped' \subseteq Rows
      BY <1>5, <2>1 DEF BrokerDrops
    <3>3. TypeOK'
      BY <3>1, <3>2
    <3>4. BatchOK'
      BY <1>5, <3>1, <3>2 DEF BrokerDrops, BatchOK
    <3> QED BY <3>3, <3>4
  <2>3. /\ UNCHANGED <<status, batch>>
        /\ InLog' = InLog
        /\ dropped' = dropped \cup {First(batch[w])}
        /\ \A v \in Workers : v # w => mode'[v] = mode[v]
    BY <1>5 DEF BrokerDrops, InLog
  <2>4. WrittenBeforeMark'
    <3> SUFFICES ASSUME NEW v \in Workers, mode'[v] = "mark"
                 PROVE  First(batch'[v]) \in InLog' \cup dropped'
      BY DEF WrittenBeforeMark
    <3> QED BY <2>3 DEF WrittenBeforeMark
  <2>5. NoLostEvent'
    BY <2>3 DEF NoLostEvent
  <2> QED BY <2>2, <2>4, <2>5
<1>6. ASSUME NEW w \in Workers, MarkPublished(w) PROVE SafeInv'
  <2>1. First(batch[w]) \in Rows
    BY <1>6, FirstIsSmallest DEF MarkPublished, BatchOK
  <2>2. TypeOK' /\ BatchOK'
    BY <1>6, <2>1 DEF MarkPublished, history, BatchOK
  <2>3. WrittenBeforeMark' /\ NoLostEvent'
    BY <1>6, <2>1 DEF MarkPublished, history, WrittenBeforeMark, NoLostEvent, InLog
  <2> QED BY <2>2, <2>3
<1>7. ASSUME NEW w \in Workers, WriteFails(w) \/ MarkFails(w) \/ Crash(w)
      PROVE  SafeInv'
  <2>1. mode[w] \in {"publish", "mark"} => First(batch[w]) \in Rows
    BY FirstIsSmallest DEF BatchOK
  <2>2. log' \in Seq(Rows) /\ InLog \subseteq InLog'
    <3>1. CASE log' = log
      BY <3>1 DEF InLog
    <3>2. CASE log' = Append(log, First(batch[w])) /\ mode[w] = "publish"
      <4>1. log' = Append(log, First(batch[w])) /\ First(batch[w]) \in Rows
        BY <2>1, <3>2
      <4>2. log \in Seq(Rows)
        OBVIOUS
      <4> QED BY ONLY <4>1, <4>2, AppendMessage DEF InLog
    <3> QED BY <1>7, <3>1, <3>2 DEF WriteFails, MarkFails, Crash
  <2>3. GiveUp(w)
    BY <1>7 DEF WriteFails, MarkFails, Crash
  <2>4. \/ status' = status
        \/ mode[w] = "mark" /\ status' = [status EXCEPT ![First(batch[w])] = "published"]
    BY <1>7 DEF WriteFails, MarkFails, Crash
  <2>5. TypeOK' /\ BatchOK'
    BY <2>1, <2>2, <2>3, <2>4 DEF GiveUp, history, BatchOK
  <2>6. WrittenBeforeMark' /\ NoLostEvent'
    BY <2>1, <2>2, <2>3, <2>4 DEF GiveUp, history, WrittenBeforeMark, NoLostEvent
  <2> QED BY <2>5, <2>6
<1> QED BY <1>1, <1>2, <1>3, <1>4, <1>5, <1>6, <1>7 DEF Next, Work, Fail

THEOREM SafeInvariance == Spec => []SafeInv
BY SafeInit, SafeStep, PTL DEF Spec

(* The table, the topic and the workers keep their types.                  *)
THEOREM TypeCorrect == Spec => []TypeOK
<1>1. SafeInv => TypeOK
  BY DEF SafeInv
<1> QED BY <1>1, SafeInvariance, PTL

(* Any number of workers, crashing and failing at any point, never mark an *)
(* event that Kafka does not have, but for one a failing broker dropped.   *)
THEOREM NothingLost == Spec => []NoLostEvent
<1>1. SafeInv => NoLostEvent
  BY DEF SafeInv
<1> QED BY <1>1, SafeInvariance, PTL

-----------------------------------------------------------------------------
(* The order of the topic.  As long as no two workers raced for an order,  *)
(* only one of them has rows of it in hand; these are unpublished, no      *)
(* earlier row of the order is left behind, and a row is written only when *)
(* the earlier ones are marked.                                            *)
InHand(w) == batch[w] \cup todo[w]

TxTogether ==
  \A i, j \in Rows :
    TxOf[i] = TxOf[j] => (status[i] = "uncommitted" <=> status[j] = "uncommitted")

Alone ==
  \A v, w \in Workers : \A i \in batch[v], j \in batch[w] :
    v # w /\ Key[i] = Key[j] => Key[i] \in raced

HandOK ==
  \A w \in Workers :
    /\ \A j \in InHand(w) : status[j] # "uncommitted"
    /\ \A j \in batch[w] : Key[j] \notin raced => status[j] = "unpublished"
    /\ \A j \in InHand(w), i \in Unpublished :
         Key[i] = Key[j] /\ i < j /\ Key[j] \notin raced => i \in InHand(w)
    /\ \A j \in batch[w], i \in todo[w] : j < i

EarlierMarked ==
  \A j \in InLog, i \in Rows :
    Key[i] = Key[j] /\ i < j /\ Key[j] \notin raced => status[i] = "published"

OrderInv ==
  SafeInv /\ TxTogether /\ Alone /\ HandOK /\ EarlierMarked /\ OrderedUnlessRaced

LEMMA OrderInit == Init => OrderInv
<1> SUFFICES ASSUME Init PROVE OrderInv
  OBVIOUS
<1>1. SafeInv
  BY SafeInit
<1>2. InLog = {} /\ DOMAIN log = {}
  BY DEF Init, InLog
<1> QED BY <1>1, <1>2
        DEF Init, OrderInv, TxTogether, Alone, HandOK, InHand, Unpublished,
            EarlierMarked, OrderedUnlessRaced

(* What a worker is about to write: a committed row and, if nobody raced   *)
(* for its order, the one that fits after everything Kafka has.            *)
LEMMA WriteInOrder ==
  ASSUME OrderInv, NEW w \in Workers, mode[w] = "publish"
  PROVE  /\ First(batch[w]) \in Rows
         /\ status[First(batch[w])] # "uncommitted"
         /\ Key[First(batch[w])] \notin raced =>
              /\ \A i \in Rows : Key[i] = Key[First(batch[w])] /\ i < First(batch[w])
                                   => status[i] = "published"
              /\ \A j \in InLog : Key[j] = Key[First(batch[w])]
                                   => j <= First(batch[w])
<1> USE RowsAssumption DEF OrderInv, SafeInv, TypeOK
<1> DEFINE f == First(batch[w])
<1>1. f \in batch[w] /\ \A j \in batch[w] : f <= j
  BY FirstIsSmallest DEF BatchOK
<1> HIDE DEF f
<1>2. todo[w] = {} /\ f \in Rows /\ status[f] # "uncommitted"
  BY <1>1 DEF BatchOK, HandOK, InHand
<1>3. Key[f] \notin raced => status[f] = "unpublished"
  BY <1>1 DEF HandOK
<1>4. ASSUME Key[f] \notin raced, NEW i \in Rows, Key[i] = Key[f], i < f
      PROVE  status[i] = "published"
  <2>1. status[i] # "uncommitted"
    BY <1>2, <1>4, KeyAssumption DEF TxTogether
  <2>2. status[i] # "unpublished"
    <3> SUFFICES ASSUME status[i] = "unpublished" PROVE FALSE
      OBVIOUS
    <3>1. i \in batch[w]
      BY <1>1, <1>2, <1>4 DEF HandOK, InHand, Unpublished
    <3>2. f <= i /\ i \in Nat /\ f \in Nat
      BY <1>1, <1>2, <3>1
    <3> QED BY <1>4, <3>2
  <2> QED BY <2>1, <2>2
<1>5. ASSUME Key[f] \notin raced, NEW j \in InLog, Key[j] = Key[f], ~ (j <= f)
      PROVE  FALSE
  <2>1. j \in Rows
    BY DEF InLog
  <2>2. f \in Nat /\ j \in Nat
    BY ONLY <1>2, <2>1, RowsAssumption
  <2>3. f < j
    BY ONLY <1>5, <2>2
  <2>4. status[f] = "published"
    BY <1>2, <1>5, <2>3 DEF EarlierMarked
  <2> QED BY <1>3, <1>5, <2>4
<1> QED BY <1>2, <1>4, <1>5 DEF f

(* Writing it keeps the topic in order.                                    *)
LEMMA AppendInOrder ==
  ASSUME OrderInv, NEW w \in Workers, mode[w] = "publish",
         UNCHANGED <<status, raced>>, log' = Append(log, First(batch[w]))
  PROVE  EarlierMarked' /\ OrderedUnlessRaced'
<1> DEFINE f == First(batch[w])
<1>1. /\ f \in Rows
      /\ Key[f] \notin raced =>
           /\ \A i \in Rows : Key[i] = Key[f] /\ i < f => status[i] = "published"
           /\ \A j \in InLog : Key[j] = Key[f] => j <= f
  BY WriteInOrder
<1> HIDE DEF f
<1>2. log \in Seq(Rows) /\ log' = Append(log, f)
  BY DEF OrderInv, SafeInv, TypeOK, f
<1>3. InLog' = InLog \cup {f}
  BY ONLY <1>1, <1>2, AppendMessage DEF InLog
<1>4. EarlierMarked'
  BY <1>1, <1>3 DEF EarlierMarked, OrderInv
<1>5. OrderedUnlessRaced'
  <2>1. /\ DOMAIN log' = DOMAIN log \cup {Len(log) + 1}
        /\ log'[Len(log) + 1] = f
        /\ \A n \in DOMAIN log : log'[n] = log[n] /\ n < Len(log) + 1
    BY <1>1, <1>2
  <2>2. \A n \in DOMAIN log : log[n] \in InLog
    BY DEF InLog
  <2>3. f <= f
    BY <1>1, RowsAssumption
  <2> SUFFICES ASSUME NEW m \in DOMAIN log', NEW n \in DOMAIN log', m < n,
                      Key[log'[m]] = Key[log'[n]], Key[log'[m]] \notin raced
               PROVE  log'[m] <= log'[n]
    BY DEF OrderedUnlessRaced
  <2>4. CASE n \in DOMAIN log
    <3>1. m \in DOMAIN log
      BY <1>2, <2>1, <2>4
    <3> QED BY <2>1, <2>4, <3>1 DEF OrderInv, OrderedUnlessRaced
  <2>5. CASE n = Len(log) + 1
    <3>1. m \in DOMAIN log
      BY <1>2, <2>1, <2>5
    <3> QED BY <1>1, <2>1, <2>2, <2>5, <3>1
  <2> QED BY <2>1, <2>4, <2>5
<1> QED BY <1>4, <1>5

(* The topic stays in order when nothing is written: rows are only marked, *)
(* orders only join those raced for.                                       *)
LEMMA QuietStep ==
  ASSUME OrderInv, log' = log, raced \subseteq raced',
         \A i \in Rows : status[i] = "published" => status'[i] = "published"
  PROVE  EarlierMarked' /\ OrderedUnlessRaced'
<1>1. InLog' = InLog
  BY DEF InLog
<1>2. EarlierMarked'
  BY <1>1 DEF OrderInv, EarlierMarked
<1>3. OrderedUnlessRaced'
  BY DEF OrderInv, OrderedUnlessRaced
<1> QED BY <1>2, <1>3

(* A worker marks the row it has written, and has it in hand no more.      *)
LEMMA MarkStep ==
  ASSUME OrderInv, NEW w \in Workers, mode[w] = "mark",
         status' = [status EXCEPT ![First(batch[w])] = "published"],
         batch' \in [Workers -> SUBSET Rows],
         \A v \in Workers : v # w => batch'[v] = batch[v] /\ todo'[v] = todo[v],
         batch'[w] = batch[w] \ {First(batch[w])} \/ batch'[w] = {},
         todo'[w] = {}, UNCHANGED <<log, raced>>
  PROVE  TxTogether' /\ Alone' /\ HandOK' /\ EarlierMarked' /\ OrderedUnlessRaced'
<1> USE RowsAssumption DEF OrderInv, SafeInv, TypeOK
<1> DEFINE f == First(batch[w])
<1>1. f \in batch[w] /\ f \in Rows /\ status[f] # "uncommitted"
  BY FirstIsSmallest DEF BatchOK, HandOK, InHand
<1>2. todo[w] = {}
  BY DEF BatchOK
<1> HIDE DEF f
<1>3. /\ \A i \in Rows : i # f => status'[i] = status[i]
      /\ status'[f] = "published"
      /\ \A i \in Rows : status'[i] = "uncommitted" <=> status[i] = "uncommitted"
      /\ \A i \in Unpublished' : i \in Unpublished /\ i # f
  BY <1>1 DEF Unpublished, f
<1>4. /\ \A v \in Workers : batch'[v] \subseteq batch[v] /\ todo'[v] = todo[v]
      /\ f \notin batch'[w]
  BY <1>2 DEF f
<1>5. TxTogether'
  BY <1>3 DEF TxTogether
<1>6. Alone'
  BY <1>4 DEF Alone
<1>7. HandOK'
  <2> SUFFICES ASSUME NEW v \in Workers
               PROVE  /\ \A j \in InHand(v)' : status'[j] # "uncommitted"
                      /\ \A j \in batch'[v] : Key[j] \notin raced => status'[j] = "unpublished"
                      /\ \A j \in InHand(v)', i \in Unpublished' :
                           Key[i] = Key[j] /\ i < j /\ Key[j] \notin raced
                             => i \in InHand(v)'
                      /\ \A j \in batch'[v], i \in todo'[v] : j < i
    BY DEF HandOK
  <2>1. InHand(v)' \subseteq InHand(v) /\ InHand(v) \subseteq Rows
    BY <1>4 DEF InHand
  <2>2. \A j \in InHand(v)' : status'[j] # "uncommitted"
    BY <1>3, <2>1 DEF HandOK
  <2>3. ASSUME NEW j \in batch'[v], Key[j] \notin raced PROVE status'[j] = "unpublished"
    <3>1. j \in batch[v] /\ j \in Rows /\ status[j] = "unpublished"
      BY <1>4, <2>3 DEF HandOK
    <3>2. j # f
      BY <1>1, <1>4, <2>3, <3>1 DEF Alone
    <3> QED BY <1>3, <3>1, <3>2
  <2>4. ASSUME NEW j \in InHand(v)', NEW i \in Unpublished',
               Key[i] = Key[j], i < j, Key[j] \notin raced
        PROVE  i \in InHand(v)'
    <3>1. i \in InHand(v) /\ i # f
      BY <1>3, <2>1, <2>4 DEF HandOK
    <3>2. CASE v # w
      BY <3>1, <3>2 DEF InHand
    <3>3. CASE v = w
      BY <1>2, <2>4, <3>1, <3>3 DEF InHand, f
    <3> QED BY <3>2, <3>3
  <2>5. \A j \in batch'[v], i \in todo'[v] : j < i
    BY <1>4 DEF HandOK
  <2> QED BY <2>2, <2>3, <2>4, <2>5
<1>8. EarlierMarked' /\ OrderedUnlessRaced'
  <2>1. \A i \in Rows : status[i] = "published" => status'[i] = "published"
    BY <1>3
  <2> QED BY <2>1, QuietStep
<1> QED BY <1>5, <1>6, <1>7, <1>8

(* A SELECT comes to a row: if it takes one of an order nobody raced for,  *)
(* no other worker has any; if it skips an unpublished one, it raced.      *)
LEMMA SelectStep ==
  ASSUME OrderInv, NEW w \in Workers, SelectRow(w)
  PROVE  TxTogether' /\ Alone' /\ HandOK' /\ EarlierMarked' /\ OrderedUnlessRaced'
<1> USE RowsAssumption DEF OrderInv, SafeInv, TypeOK
<1> DEFINE f == First(todo[w])
<1>1. f \in todo[w] /\ f \in Rows /\ \A j \in todo[w] : f <= j
  BY FirstIsSmallest DEF SelectRow
<1>2. /\ todo' = [todo EXCEPT ![w] = @ \ {f}]
      /\ raced \subseteq raced'
      /\ status[f] = "unpublished" /\ OrderHeldByOther(w, f) => Key[f] \in raced'
      /\ \/ status[f] = "unpublished" /\ batch' = [batch EXCEPT ![w] = @ \cup {f}]
         \/ status[f] # "unpublished" /\ batch' = batch
         \/ LockedByOther(w, f) /\ batch' = batch
      /\ UNCHANGED <<status, log, dropped>>
  BY DEF SelectRow
<1> HIDE DEF f
<1>3. Unpublished' = Unpublished
  BY <1>2 DEF Unpublished
<1>4. TxTogether'
  BY <1>2 DEF TxTogether
<1>5. EarlierMarked' /\ OrderedUnlessRaced'
  <2>1. \A i \in Rows : status[i] = "published" => status'[i] = "published"
    BY <1>2
  <2> QED BY <1>2, <2>1, QuietStep
<1>6. /\ \A v \in Workers : v # w => batch'[v] = batch[v] /\ todo'[v] = todo[v]
      /\ todo'[w] = todo[w] \ {f}
      /\ batch'[w] = batch[w] \/ (status[f] = "unpublished" /\ batch'[w] = batch[w] \cup {f})
  BY <1>2
<1>7. Alone'
  <2> SUFFICES ASSUME NEW v \in Workers, NEW u \in Workers,
                      NEW i \in batch'[v], NEW j \in batch'[u],
                      v # u, Key[i] = Key[j]
               PROVE  Key[i] \in raced'
    BY DEF Alone
  <2>1. CASE i \in batch[v] /\ j \in batch[u]
    BY <1>2, <2>1 DEF Alone
  <2>2. CASE i \notin batch[v]
    <3>1. v = w /\ i = f /\ status[f] = "unpublished" /\ j \in batch[u]
      BY <1>6, <2>2
    <3> QED BY <1>2, <3>1 DEF OrderHeldByOther
  <2>3. CASE j \notin batch[u]
    <3>1. u = w /\ j = f /\ status[f] = "unpublished" /\ i \in batch[v]
      BY <1>6, <2>3
    <3> QED BY <1>2, <3>1 DEF OrderHeldByOther
  <2> QED BY <2>1, <2>2, <2>3
<1>8. HandOK'
  <2> SUFFICES ASSUME NEW v \in Workers
               PROVE  /\ \A j \in InHand(v)' : status[j] # "uncommitted"
                      /\ \A j \in batch'[v] : Key[j] \notin raced' => status[j] = "unpublished"
                      /\ \A j \in InHand(v)', i \in Unpublished :
                           Key[i] = Key[j] /\ i < j /\ Key[j] \notin raced'
                             => i \in InHand(v)'
                      /\ \A j \in batch'[v], i \in todo'[v] : j < i
    BY <1>2, <1>3 DEF HandOK
  <2>1. InHand(v)' \subseteq InHand(v)
    BY <1>1, <1>6 DEF InHand
  <2>2. \A j \in InHand(v)' : status[j] # "uncommitted"
    BY <2>1 DEF HandOK
  <2>3. \A j \in batch'[v] : Key[j] \notin raced' => status[j] = "unpublished"
    BY <1>2, <1>6 DEF HandOK
  <2>4. ASSUME NEW j \in InHand(v)', NEW i \in Unpublished,
               Key[i] = Key[j], i < j, Key[j] \notin raced'
        PROVE  i \in InHand(v)'
    <3>1. i \in InHand(v)
      BY <1>2, <2>1, <2>4 DEF HandOK
    <3>2. CASE v # w \/ i # f
      BY <1>6, <3>1, <3>2 DEF InHand
    <3>3. CASE v = w /\ i = f
      <4>1. status[f] = "unpublished" /\ Key[f] \notin raced'
        BY <2>4, <3>3 DEF Unpublished
      <4>2. ~ LockedByOther(w, f)
        BY <1>2, <4>1 DEF LockedByOther, OrderHeldByOther
      <4>3. batch'[w] = batch[w] \cup {f}
        BY <1>2, <4>1, <4>2
      <4> QED BY <3>3, <4>3 DEF InHand
    <3> QED BY <3>2, <3>3
  <2>5. ASSUME NEW j \in batch'[v], NEW i \in todo'[v] PROVE j < i
    <3>1. CASE j \in batch[v]
      BY <1>6, <2>5, <3>1 DEF HandOK
    <3>2. CASE j \notin batch[v]
      <4>1. v = w /\ j = f /\ i \in todo[w] /\ i # f
        BY <1>6, <2>5, <3>2
      <4>2. f <= i /\ i \in Nat /\ f \in Nat
        BY <1>1, <4>1
      <4> QED BY <4>1, <4>2
    <3> QED BY <3>1, <3>2
  <2> QED BY <2>2, <2>3, <2>4, <2>5
<1> QED BY <1>4, <1>5, <1>7, <1>8

(* Rows that leave a worker's hands without any change of the table do no  *)
(* harm, if those of the snapshot go before those of the batch.            *)
LEMMA LetGo ==
  ASSUME OrderInv, NEW w \in Workers, UNCHANGED <<status, raced>>,
         batch' \in [Workers -> SUBSET Rows],
         \A v \in Workers : v # w => batch'[v] = batch[v] /\ todo'[v] = todo[v],
         batch'[w] = batch[w] \/ batch'[w] = {}, todo'[w] = {}
  PROVE  TxTogether' /\ Alone' /\ HandOK'
<1> USE RowsAssumption DEF OrderInv, SafeInv, TypeOK
<1>1. TxTogether'
  BY DEF TxTogether
<1>2. Alone'
  BY DEF Alone
<1>3. Unpublished' = Unpublished
  BY DEF Unpublished
<1>4. HandOK'
  <2> SUFFICES ASSUME NEW v \in Workers
               PROVE  /\ \A j \in InHand(v)' : status[j] # "uncommitted"
                      /\ \A j \in batch'[v] : Key[j] \notin raced => status[j] = "unpublished"
                      /\ \A j \in InHand(v)', i \in Unpublished :
                           Key[i] = Key[j] /\ i < j /\ Key[j] \notin raced
                             => i \in InHand(v)'
                      /\ \A j \in batch'[v], i \in todo'[v] : j < i
    BY <1>3 DEF HandOK
  <2>1. CASE v # w
    BY <2>1 DEF HandOK, InHand
  <2>2. CASE v = w /\ batch'[w] = {}
    BY <2>2 DEF HandOK, InHand
  <2>3. CASE v = w /\ batch'[w] = batch[w]
    <3>1. InHand(v)' = batch[w] /\ batch[w] \subseteq InHand(w)
      BY <2>3 DEF InHand
    <3>2. ASSUME NEW j \in batch[w], NEW i \in Unpublished,
                 Key[i] = Key[j], i < j, Key[j] \notin raced
          PROVE  i \in batch[w]
      <4>1. i \in InHand(w)
        BY <3>1, <3>2 DEF HandOK
      <4>2. i \in todo[w] => j < i
        BY DEF HandOK
      <4>3. i \in Nat /\ j \in Nat
        BY DEF Unpublished
      <4>4. i \notin todo[w]
        BY <3>2, <4>2, <4>3
      <4> QED BY <4>1, <4>4 DEF InHand
    <3>3. \A j \in batch[w] : j \in InHand(w)
      BY <3>1
    <3>4. \A j \in InHand(v)' : j \in batch[w] /\ status[j] # "uncommitted"
      BY <3>1, <3>3 DEF HandOK
    <3>5. \A j \in batch'[v] : Key[j] \notin raced => status[j] = "unpublished"
      BY <2>3 DEF HandOK
    <3>6. \A i \in batch[w] : i \in InHand(v)'
      BY <3>1
    <3>7. todo'[v] = {}
      BY <2>3
    <3> QED BY <3>2, <3>4, <3>5, <3>6, <3>7
  <2> QED BY <2>1, <2>2, <2>3
<1> QED BY <1>1, <1>2, <1>4

LEMMA OrderStep == OrderInv /\ [Next]_vars => OrderInv'
<1> SUFFICES ASSUME OrderInv, [Next]_vars PROVE OrderInv'
  OBVIOUS
<1>1. SafeInv /\ SafeInv'
  BY SafeStep DEF OrderInv
<1> DEFINE Rest == TxTogether /\ Alone /\ HandOK /\ EarlierMarked /\ OrderedUnlessRaced
<1> SUFFICES Rest'
  BY <1>1 DEF OrderInv
<1> USE RowsAssumption DEF OrderInv, SafeInv, TypeOK
<1>2. CASE UNCHANGED vars
  <2>1. EarlierMarked' /\ OrderedUnlessRaced'
    BY <1>2, QuietStep DEF vars, history
  <2> QED BY <1>2, <2>1
          DEF vars, history, TxTogether, Alone, HandOK, InHand, Unpublished
<1>3. ASSUME NEW t \in TxIds, CommitTx(t) PROVE Rest'
  <2>1. /\ UNCHANGED <<log, batch, todo, raced>>
        /\ \A i \in Rows : TxOf[i] = t => status[i] = "uncommitted"
        /\ status' = [i \in Rows |-> IF TxOf[i] = t THEN "unpublished" ELSE status[i]]
    BY <1>3 DEF CommitTx, TxTogether, history
  <2>2. TxTogether' /\ Alone'
    BY <2>1 DEF TxTogether, Alone
  <2>3. \A i \in Rows : status[i] # "uncommitted" => status'[i] = status[i]
    BY <2>1
  <2>4. EarlierMarked' /\ OrderedUnlessRaced'
    BY <2>1, <2>3, QuietStep
  <2>5. HandOK'
    <3>1. ASSUME NEW w \in Workers PROVE InHand(w)' = InHand(w) /\ InHand(w) \subseteq Rows
      BY <2>1 DEF InHand
    <3>2. ASSUME NEW w \in Workers, NEW j \in InHand(w), NEW i \in Unpublished',
                 Key[i] = Key[j], i < j, Key[j] \notin raced
          PROVE  i \in InHand(w)
      <4>1. j \in Rows /\ i \in Rows /\ status[j] # "uncommitted" /\ TxOf[i] = TxOf[j]
        BY <3>1, <3>2, KeyAssumption DEF HandOK, Unpublished
      <4>2. i \in Unpublished
        BY <2>1, <3>2, <4>1 DEF Unpublished
      <4> QED BY <3>2, <4>2 DEF HandOK
    <3>3. ASSUME NEW w \in Workers, NEW j \in InHand(w) PROVE status'[j] = status[j]
      BY <2>3, <3>1, <3>3 DEF HandOK
    <3> QED BY <2>1, <3>1, <3>2, <3>3 DEF HandOK, InHand
  <2> QED BY <2>2, <2>4, <2>5
<1>4. ASSUME NEW w \in Workers, Tick(w) PROVE Rest'
  <2>1. /\ UNCHANGED <<status, log, batch, raced>>
        /\ todo' = [todo EXCEPT ![w] = Unpublished]
        /\ batch[w] = {}
    BY <1>4 DEF Tick, BatchOK, history
  <2>2. EarlierMarked' /\ OrderedUnlessRaced'
    BY <2>1, QuietStep
  <2>3. HandOK'
    <3>1. Unpublished' = Unpublished /\ InHand(w)' = Unpublished
      BY <2>1 DEF Unpublished, InHand
    <3>2. \A v \in Workers : v # w => InHand(v)' = InHand(v) /\ todo'[v] = todo[v]
      BY <2>1 DEF InHand
    <3>3. \A j \in Unpublished : status[j] # "uncommitted"
      BY DEF Unpublished
    <3> SUFFICES ASSUME NEW v \in Workers
                 PROVE  /\ \A j \in InHand(v)' : status[j] # "uncommitted"
                        /\ \A j \in batch[v] : Key[j] \notin raced => status[j] = "unpublished"
                        /\ \A j \in InHand(v)', i \in Unpublished :
                             Key[i] = Key[j] /\ i < j /\ Key[j] \notin raced
                               => i \in InHand(v)'
                        /\ \A j \in batch[v], i \in todo'[v] : j < i
      BY <2>1, <3>1 DEF HandOK
    <3>4. CASE v = w
      BY <2>1, <3>1, <3>3, <3>4
    <3>5. CASE v # w
      BY <3>2, <3>5 DEF HandOK
    <3> QED BY <3>4, <3>5
  <2> QED BY <2>1, <2>2, <2>3 DEF TxTogether, Alone
<1>5. ASSUME NEW w \in Workers, SelectRow(w) PROVE Rest'
  BY <1>5, SelectStep
<1>6. ASSUME NEW w \in Workers,
             \/ EndSelect(w) \/ SelectBreaks(w) \/ Crash(w)
             \/ WriteMessage(w) \/ BrokerDrops(w) \/ WriteFails(w)
             \/ MarkFails(w) /\ UNCHANGED status
      PROVE  Rest'
  <2>1. /\ UNCHANGED <<status, raced>>
        /\ \A v \in Workers : v # w => batch'[v] = batch[v] /\ todo'[v] = todo[v]
        /\ batch'[w] = batch[w] \/ batch'[w] = {}
        /\ todo'[w] = {}
    BY <1>6 DEF EndSelect, SelectBreaks, Crash, WriteMessage, BrokerDrops, WriteFails,
                MarkFails, GiveUp, history, BatchOK
  <2>2. batch' \in [Workers -> SUBSET Rows]
    BY <1>1
  <2>3. TxTogether' /\ Alone' /\ HandOK'
    BY <2>1, <2>2, LetGo
  <2>4. CASE mode[w] = "publish" /\ log' = Append(log, First(batch[w]))
    BY <2>1, <2>3, <2>4, AppendInOrder
  <2>5. CASE log' = log
    BY <2>1, <2>3, <2>5, QuietStep
  <2> QED BY <1>6, <2>4, <2>5 DEF EndSelect, SelectBreaks, Crash, WriteMessage,
                                  BrokerDrops, WriteFails, MarkFails
<1>7. ASSUME NEW w \in Workers, MarkPublished(w) \/ (MarkFails(w) /\ status' # status)
      PROVE  Rest'
  <2>1. /\ mode[w] = "mark"
        /\ status' = [status EXCEPT ![First(batch[w])] = "published"]
        /\ \A v \in Workers : v # w => batch'[v] = batch[v] /\ todo'[v] = todo[v]
        /\ batch'[w] = batch[w] \ {First(batch[w])} \/ batch'[w] = {}
        /\ todo'[w] = {}
        /\ UNCHANGED <<log, raced>>
    BY <1>7 DEF MarkPublished, MarkFails, GiveUp, history, BatchOK
  <2>2. batch' \in [Workers -> SUBSET Rows]
    BY <1>1
  <2> QED BY <2>1, <2>2, MarkStep
<1> QED BY <1>2, <1>3, <1>4, <1>5, <1>6, <1>7 DEF Next, Work, Fail

THEOREM OrderInvariance == Spec => []OrderInv
BY OrderInit, OrderStep, PTL DEF Spec

(* Any number of workers keep the events of an order in order, whatever    *)
(* fails, unless a SELECT came to a row of the order while another worker  *)
(* had rows of it in hand.                                                 *)
THEOREM OrderKeptUnlessRaced == Spec => []OrderedUnlessRaced
<1>1. OrderInv => OrderedUnlessRaced
  BY DEF OrderInv
<1> QED BY <1>1, OrderInvariance, PTL

-----------------------------------------------------------------------------
(* Every step of the workers is a step of the feed or invisible to it.     *)
Recorded == {i \in Rows : status[i] # "uncommitted"}

(* The row a worker is about to write is one the feed may show or lose.    *)
LEMMA NextIsInTurn ==
  ASSUME OrderInv, NEW w \in Workers, mode[w] = "publish"
  PROVE  /\ First(batch[w]) \in Recorded
         /\ Key[First(batch[w])] \in raced \/ Feed!InTurn(First(batch[w]))
<1> DEFINE f == First(batch[w])
<1>1. /\ f \in Rows
      /\ status[f] # "uncommitted"
      /\ Key[f] \notin raced =>
           /\ \A i \in Rows : Key[i] = Key[f] /\ i < f => status[i] = "published"
           /\ \A j \in InLog : Key[j] = Key[f] => j <= f
  BY WriteInOrder
<1> HIDE DEF f
<1>2. Feed!InFeed = InLog
  BY DEF Feed!InFeed, InLog
<1>3. \A i \in Rows : status[i] = "published" => i \in InLog \cup dropped
  BY DEF OrderInv, SafeInv, NoLostEvent
<1>4. Key[f] \notin raced => Feed!InTurn(f)
  BY <1>1, <1>2, <1>3 DEF Feed!InTurn
<1> QED BY <1>1, <1>4 DEF Recorded, f

LEMMA StepIsFeedStep == OrderInv /\ [Next]_vars => [Feed!Next]_(Feed!vars)
<1> SUFFICES ASSUME OrderInv, [Next]_vars PROVE [Feed!Next]_(Feed!vars)
  OBVIOUS
<1>1. ASSUME UNCHANGED <<log, raced, dropped>>, Recorded' = Recorded
      PROVE  UNCHANGED Feed!vars
  BY <1>1 DEF Feed!vars, Recorded
<1>2. ASSUME UNCHANGED status PROVE Recorded' = Recorded
  BY <1>2 DEF Recorded
<1>3. ASSUME NEW t \in TxIds, CommitTx(t) PROVE Feed!Next
  <2> DEFINE S == {i \in Rows : TxOf[i] = t /\ status[i] = "uncommitted"}
  <2>1. S # {} /\ S \subseteq Rows \ Recorded
    BY <1>3 DEF CommitTx, Recorded
  <2>2. Recorded' = Recorded \cup S /\ UNCHANGED <<log, raced, dropped>>
    BY <1>3 DEF CommitTx, Recorded, OrderInv, SafeInv, TypeOK, history
  <2> HIDE DEF S
  <2>3. Feed!Record
    BY <2>1, <2>2 DEF Feed!Record, Recorded
  <2> QED BY <2>3 DEF Feed!Next
<1>4. ASSUME NEW w \in Workers, mode[w] = "publish", UNCHANGED <<status, raced, dropped>>,
             log' = Append(log, First(batch[w]))
      PROVE  Feed!Next
  <2>1. First(batch[w]) \in Rows
    BY <1>4, WriteInOrder
  <2>2. Feed!Publish(First(batch[w]))
    BY <1>2, <1>4, NextIsInTurn DEF Feed!Publish, Recorded
  <2> QED BY <2>1, <2>2 DEF Feed!Next
<1>5. ASSUME NEW w \in Workers, BrokerDrops(w) PROVE Feed!Next
  <2>1. /\ mode[w] = "publish"
        /\ dropped' = dropped \cup {First(batch[w])}
        /\ UNCHANGED <<status, log, raced>>
    BY <1>5 DEF BrokerDrops
  <2>2. First(batch[w]) \in Rows
    BY <2>1, WriteInOrder
  <2>3. Feed!Drop(First(batch[w]))
    BY <1>2, <2>1, NextIsInTurn DEF Feed!Drop, Recorded
  <2> QED BY <2>2, <2>3 DEF Feed!Next
<1>6. ASSUME NEW w \in Workers, SelectRow(w) PROVE [Feed!Next]_(Feed!vars)
  <2> DEFINE f == First(todo[w])
  <2>1. f \in Rows
    BY <1>6, FirstIsSmallest DEF SelectRow, OrderInv, SafeInv, TypeOK
  <2>2. UNCHANGED <<status, log, dropped>>
    BY <1>6 DEF SelectRow
  <2>3. CASE raced' = raced
    BY <1>1, <1>2, <2>2, <2>3
  <2>4. CASE status[f] = "unpublished" /\ raced' = raced \cup {Key[f]}
    <3>1. f \in Recorded
      BY <2>1, <2>4 DEF Recorded
    <3> HIDE DEF f
    <3>2. Feed!Race(f)
      BY <1>2, <2>2, <2>4, <3>1 DEF Feed!Race, Recorded
    <3> QED BY <2>1, <3>2 DEF Feed!Next
  <2> QED BY <1>6, <2>3, <2>4 DEF SelectRow
<1>7. ASSUME NEW w \in Workers, mode[w] = "mark", UNCHANGED <<log, raced, dropped>>,
             status' = [status EXCEPT ![First(batch[w])] = "published"]
      PROVE  UNCHANGED Feed!vars
  <2>1. First(batch[w]) \in Rows /\ status[First(batch[w])] # "uncommitted"
    BY <1>7, FirstIsSmallest DEF OrderInv, SafeInv, TypeOK, BatchOK, HandOK, InHand
  <2>2. Recorded' = Recorded
    BY <1>7, <2>1 DEF Recorded, OrderInv, SafeInv, TypeOK
  <2> QED BY <1>1, <1>7, <2>2
<1>8. ASSUME NEW w \in Workers, Work(w) \/ Fail(w) PROVE [Feed!Next]_(Feed!vars)
  <2>1. \/ UNCHANGED <<status, log, raced, dropped>>
        \/ SelectRow(w)
        \/ BrokerDrops(w)
        \/ /\ mode[w] = "publish"
           /\ UNCHANGED <<status, raced, dropped>>
           /\ log' = Append(log, First(batch[w]))
        \/ /\ mode[w] = "mark"
           /\ status' = [status EXCEPT ![First(batch[w])] = "published"]
           /\ UNCHANGED <<log, raced, dropped>>
    BY <1>8 DEF Work, Fail, Tick, EndSelect, WriteMessage, MarkPublished, SelectBreaks,
                WriteFails, MarkFails, Crash, GiveUp, history
  <2> QED BY <1>1, <1>2, <1>4, <1>5, <1>6, <1>7, <2>1
<1>9. CASE UNCHANGED vars
  BY <1>1, <1>2, <1>9 DEF vars, history
<1> QED BY <1>3, <1>8, <1>9 DEF Next

(* With any number of workers, and whatever fails, the topic is the feed   *)
(* of EventFeed: what it says of raced orders and of dropped events is all *)
(* that replicas and a broker without acknowledgements take from it.       *)
THEOREM WorkersImplementFeed == Spec => Feed!Spec
<1>1. Init => Feed!Init
  BY DEF Init, Feed!Init
<1>2. OrderInv /\ [Next]_vars => [Feed!Next]_(Feed!vars)
  BY StepIsFeedStep
<1> QED BY <1>1, <1>2, OrderInvariance, PTL DEF Spec, Feed!Spec
=============================================================================
