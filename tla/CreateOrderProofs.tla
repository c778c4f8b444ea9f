------------------------- MODULE CreateOrderProofs -------------------------
(***************************************************************************)
(* Proofs about CreateOrder, for any number of requests, retries, keys and *)
(* failures.                                                               *)
(***************************************************************************)
EXTENDS CreateOrder, TLAPS

(* Only a request with a key looks up, locks, saves or releases.           *)
OnlyKeyed ==
  \A r \in Requests : pc[r] \in {"lookup", "lock", "save", "release"} => Keyed(r)

SaveAfterCreate == \A r \in Requests : pc[r] = "save" => r \in orders

(* Redis still has the lock of every handler between SETNX and DEL.        *)
LockHeld == \A r \in Requests : InSection(r) => lock[KeyOf[r]] = r

IInv == /\ TypeOK
        /\ OnlyKeyed
        /\ SaveAfterCreate
        /\ RecordTellsTruth
        /\ AnswerIsOwnOrder
        /\ ~flushed => LockHeld

LEMMA InitEstablishes == Init => IInv
<1> SUFFICES ASSUME Init PROVE IInv
  OBVIOUS
<1>1. TypeOK
  BY RequestsAssumption DEF Init, TypeOK, Steps, NoRecord, NoAnswer
<1>2. LockHeld /\ OnlyKeyed /\ SaveAfterCreate
  BY DEF Init, LockHeld, InSection, OnlyKeyed, SaveAfterCreate
<1>3. RecordTellsTruth /\ AnswerIsOwnOrder
  BY DEF Init, RecordTellsTruth, AnswerIsOwnOrder, NoAnswer
<1> QED BY <1>1, <1>2, <1>3 DEF IInv

-----------------------------------------------------------------------------
(* A step of r moves only r, and it takes r into the section only through  *)
(* AcquireLock, or without a key.                                          *)
LEMMA PcStep ==
  ASSUME IInv, NEW r \in Requests, Handle(r) \/ Fail(r)
  PROVE  /\ pc' \in [Requests -> Steps]
         /\ \A q \in Requests \ {r} : pc'[q] = pc[q]
         /\ OnlyKeyed'
<1> USE DEF IInv, TypeOK, Steps, OnlyKeyed, Goto, Keyed
<1>1. CASE Handle(r)
  BY <1>1 DEF Handle, Receive, Reject, LookupMiss, LookupHit, AcquireLock, NotLocked,
              CreateOrderWithOutbox, SaveIdempotentResponse, ReleaseLock
<1>2. CASE Fail(r)
  BY <1>2 DEF Fail, LookupFails, LockFails, CreateFails, SaveFails, ReleaseFails, Crash
<1> QED BY <1>1, <1>2

(* Orders are never deleted, and an order is made only by its own request. *)
LEMMA OrdersStep ==
  ASSUME IInv, NEW r \in Requests, Handle(r) \/ Fail(r)
  PROVE  /\ orders \subseteq orders'
         /\ orders' \subseteq Requests
         /\ SaveAfterCreate'
<1> USE DEF IInv, TypeOK, Steps, Goto, SaveAfterCreate
<1>1. CASE Handle(r)
  BY <1>1 DEF Handle, Receive, Reject, LookupMiss, LookupHit, AcquireLock, NotLocked,
              CreateOrderWithOutbox, SaveIdempotentResponse, ReleaseLock
<1>2. CASE Fail(r)
  BY <1>2 DEF Fail, LookupFails, LockFails, CreateFails, SaveFails, ReleaseFails, Crash
<1> QED BY <1>1, <1>2

(* What a step does to the stored responses.                               *)
LEMMA RecordStep ==
  ASSUME IInv, NEW r \in Requests, Handle(r) \/ Fail(r)
  PROVE  /\ record' \in [Keys -> [hash : Bodies, order : Requests] \cup {NoRecord}]
         /\ RecordTellsTruth'
<1>1. orders \subseteq orders'
  BY OrdersStep
<1> USE RequestsAssumption DEF IInv, TypeOK
<1>2. CASE record' = record
  BY <1>1, <1>2 DEF RecordTellsTruth
<1>3. CASE SaveIdempotentResponse(r)
  <2>1. KeyOf[r] \in Keys /\ r \in orders
    BY <1>3 DEF SaveIdempotentResponse, OnlyKeyed, SaveAfterCreate, Keyed
  <2>2. Record(r) \in [hash : Bodies, order : Requests]
    BY DEF Record, Bodies
  <2>3. record' = [record EXCEPT ![KeyOf[r]] =
                     IF record[KeyOf[r]] = NoRecord THEN Record(r) ELSE record[KeyOf[r]]]
    BY <1>3 DEF SaveIdempotentResponse
  <2>4. record' \in [Keys -> [hash : Bodies, order : Requests] \cup {NoRecord}]
    BY <2>1, <2>2, <2>3
  <2>5. RecordTellsTruth'
    <3> SUFFICES ASSUME NEW k \in Keys, record'[k] # NoRecord
                 PROVE  /\ record'[k].order \in orders'
                        /\ KeyOf[record'[k].order] = k
                        /\ record'[k].hash = BodyOf[record'[k].order]
      BY DEF RecordTellsTruth
    <3>1. CASE record'[k] = record[k]
      BY <1>1, <3>1 DEF RecordTellsTruth
    <3>2. CASE k = KeyOf[r] /\ record'[k] = Record(r)
      BY <1>1, <2>1, <3>2 DEF Record
    <3> QED BY <2>1, <2>3, <3>1, <3>2
  <2> QED BY <2>4, <2>5
<1>4. CASE Handle(r) /\ ~SaveIdempotentResponse(r)
  <2>1. record' = record
    BY <1>4 DEF Handle, Receive, Reject, LookupMiss, LookupHit, AcquireLock, NotLocked,
                CreateOrderWithOutbox, ReleaseLock
  <2> QED BY <1>2, <2>1
<1>5. CASE Fail(r)
  <2>1. record' = record
    BY <1>5 DEF Fail, LookupFails, LockFails, CreateFails, SaveFails, ReleaseFails, Crash
  <2> QED BY <1>2, <2>1
<1> QED BY <1>3, <1>4, <1>5

(* What a handler writes to its client.                                    *)
Answers == [status : {0, 201, 400, 409, 500},
            order : Requests \cup {NoOrder}]

LEMMA AnswerStep ==
  ASSUME IInv, NEW r \in Requests, Handle(r) \/ Fail(r)
  PROVE  answer' \in [Requests -> Answers] /\ AnswerIsOwnOrder'
<1>1. orders \subseteq orders'
  BY OrdersStep
<1> USE RequestsAssumption DEF IInv, TypeOK, Answers
<1>2. ASSUME NEW a \in Answers, Respond(r, a),
             a.status = 201 => /\ a.order \in orders'
                               /\ BodyOf[a.order] = BodyOf[r]
                               /\ KeyOf[a.order] = KeyOf[r]
      PROVE  answer' \in [Requests -> Answers] /\ AnswerIsOwnOrder'
  BY <1>1, <1>2 DEF Respond, AnswerIsOwnOrder
<1>3. CASE answer' = answer
  BY <1>1, <1>3 DEF AnswerIsOwnOrder
<1>4. CASE \E code \in {400, 409, 500} : Respond(r, Refusal(code))
  <2>1. PICK code \in {400, 409, 500} : Respond(r, Refusal(code))
    BY <1>4
  <2>2. Refusal(code) \in Answers /\ Refusal(code).status # 201
    BY DEF Refusal
  <2> QED BY <1>2, <2>1, <2>2
<1>5. CASE Respond(r, NoAnswer)
  <2>1. NoAnswer \in Answers /\ NoAnswer.status # 201
    BY DEF NoAnswer
  <2> QED BY <1>2, <1>5, <2>1
<1>6. CASE Respond(r, Created(r)) /\ r \in orders'
  <2>1. Created(r) \in Answers /\ Created(r).order = r
    BY DEF Created
  <2> QED BY <1>2, <1>6, <2>1
<1>7. CASE LookupHit(r)
  <2> DEFINE rec == record[KeyOf[r]]
  <2>1. KeyOf[r] \in Keys
    BY <1>7 DEF LookupHit, OnlyKeyed, Keyed
  <2>2. /\ rec # NoRecord
        /\ \/ rec.hash = BodyOf[r] /\ Respond(r, Created(rec.order))
           \/ Respond(r, Refusal(409))
    BY <1>7 DEF LookupHit
  <2>3. /\ rec.order \in orders
        /\ KeyOf[rec.order] = KeyOf[r]
        /\ rec.hash = BodyOf[rec.order]
    BY <2>1, <2>2 DEF RecordTellsTruth
  <2>4. CASE rec.hash = BodyOf[r] /\ Respond(r, Created(rec.order))
    <3> DEFINE a == Created(rec.order)
    <3>1. a \in Answers /\ a.order = rec.order
      BY <2>3 DEF Created
    <3>2. Respond(r, a)
      BY <2>4
    <3>3. BodyOf[rec.order] = BodyOf[r]
      BY <2>3, <2>4
    <3> HIDE DEF a, rec
    <3> QED BY <1>1, <1>2, <2>3, <3>1, <3>2, <3>3
  <2> QED BY <1>4, <2>2, <2>4
<1>8. CASE Handle(r) /\ ~LookupHit(r)
  <2>1. \/ answer' = answer
        \/ \E code \in {400, 409, 500} : Respond(r, Refusal(code))
        \/ Respond(r, Created(r)) /\ r \in orders'
    BY <1>8 DEF Handle, Receive, Reject, LookupMiss, AcquireLock, NotLocked,
                CreateOrderWithOutbox, SaveIdempotentResponse, ReleaseLock,
                SaveAfterCreate
  <2> QED BY <1>3, <1>4, <1>6, <2>1
<1>9. CASE Fail(r)
  <2>1. \/ answer' = answer
        \/ \E code \in {400, 409, 500} : Respond(r, Refusal(code))
        \/ Respond(r, NoAnswer)
        \/ Respond(r, Created(r)) /\ r \in orders'
    BY <1>9 DEF Fail, LookupFails, LockFails, CreateFails, SaveFails, ReleaseFails,
                Crash, SaveAfterCreate
  <2> QED BY <1>3, <1>4, <1>5, <1>6, <2>1
<1> QED BY <1>7, <1>8, <1>9

LEMMA LockTyped ==
  ASSUME IInv, NEW r \in Requests, Handle(r) \/ Fail(r)
  PROVE  lock' \in [Keys -> Requests \cup {NoOrder}]
<1> USE RequestsAssumption DEF IInv, TypeOK, OnlyKeyed, Keyed
<1>1. CASE Handle(r)
  BY <1>1 DEF Handle, Receive, Reject, LookupMiss, LookupHit, AcquireLock, NotLocked,
              CreateOrderWithOutbox, SaveIdempotentResponse, ReleaseLock
<1>2. CASE Fail(r)
  BY <1>2 DEF Fail, LookupFails, LockFails, CreateFails, SaveFails, ReleaseFails, Crash
<1> QED BY <1>1, <1>2

(* SETNX gives the lock only when nobody has it, so nobody with that key   *)
(* is in the section; and DEL removes one's own lock.                      *)
LEMMA LockHeldStep ==
  ASSUME IInv, LockHeld, NEW r \in Requests, Handle(r) \/ Fail(r)
  PROVE  LockHeld'
<1> USE RequestsAssumption DEF IInv, TypeOK, OnlyKeyed, Keyed
<1>1. \A q \in Requests \ {r} : pc'[q] = pc[q]
  BY PcStep
<1>2. KeyOf[r] \in Keys \/ KeyOf[r] = NoKey
  OBVIOUS
<1>3. CASE lock' = lock /\ (InSection(r)' => InSection(r))
  BY <1>1, <1>3 DEF LockHeld, InSection
<1>4. CASE /\ KeyOf[r] \in Keys
           /\ lock[KeyOf[r]] = NoOrder
           /\ lock' = [lock EXCEPT ![KeyOf[r]] = r]
  <2> SUFFICES ASSUME NEW q \in Requests, InSection(q)' PROVE lock'[KeyOf[q]] = q
    BY DEF LockHeld
  <2>1. CASE q = r
    BY <1>4, <2>1
  <2>2. CASE q # r
    <3>1. InSection(q)
      BY <1>1, <2>2 DEF InSection
    <3>2. lock[KeyOf[q]] = q
      BY <3>1 DEF LockHeld
    <3>3. KeyOf[q] # KeyOf[r]
      BY <1>4, <3>2
    <3> QED BY <1>4, <3>2, <3>3
  <2> QED BY <2>1, <2>2
<1>5. CASE ReleaseLock(r)
  <2>1. InSection(r) /\ lock[KeyOf[r]] = r /\ ~InSection(r)' /\ KeyOf[r] \in Keys
    BY <1>5 DEF ReleaseLock, InSection, LockHeld, Goto
  <2>2. lock' = [lock EXCEPT ![KeyOf[r]] = NoOrder]
    BY <1>5 DEF ReleaseLock
  <2> SUFFICES ASSUME NEW q \in Requests, InSection(q)' PROVE lock'[KeyOf[q]] = q
    BY DEF LockHeld
  <2>3. q # r
    BY <2>1
  <2>4. lock[KeyOf[q]] = q
    BY <1>1, <2>3 DEF LockHeld, InSection
  <2>5. KeyOf[q] # KeyOf[r]
    BY <2>1, <2>3, <2>4
  <2> QED BY <2>2, <2>4, <2>5
<1>6. CASE Handle(r) /\ ~ReleaseLock(r) /\ ~AcquireLock(r)
  <2>1. lock' = lock
    BY <1>6 DEF Handle, Receive, Reject, LookupMiss, LookupHit, NotLocked,
                CreateOrderWithOutbox, SaveIdempotentResponse
  <2>2. InSection(r)' => InSection(r)
    BY <1>6 DEF Handle, Receive, Reject, LookupMiss, LookupHit, NotLocked,
                CreateOrderWithOutbox, SaveIdempotentResponse, InSection, Goto
  <2> QED BY <1>3, <2>1, <2>2
<1>7. CASE AcquireLock(r)
  BY <1>2, <1>4, <1>7 DEF AcquireLock
<1>8. CASE Fail(r)
  <2>1. InSection(r)' => InSection(r)
    BY <1>8 DEF Fail, LookupFails, LockFails, CreateFails, SaveFails, ReleaseFails,
                Crash, InSection, Goto
  <2>2. \/ lock' = lock
        \/ /\ KeyOf[r] \in Keys
           /\ lock[KeyOf[r]] = NoOrder
           /\ lock' = [lock EXCEPT ![KeyOf[r]] = r]
    BY <1>8 DEF Fail, LookupFails, LockFails, CreateFails, SaveFails, ReleaseFails, Crash
  <2> QED BY <1>3, <1>4, <2>1, <2>2
<1> QED BY <1>5, <1>6, <1>7, <1>8

-----------------------------------------------------------------------------
LEMMA NextPreserves == IInv /\ [Next]_vars => IInv'
<1> SUFFICES ASSUME IInv, [Next]_vars PROVE IInv'
  OBVIOUS
<1>1. ASSUME NEW r \in Requests, Handle(r) \/ Fail(r) PROVE IInv'
  <2>1. flushed' = flushed
    BY <1>1 DEF Handle, Fail
  <2>2. ~flushed' => LockHeld'
    BY <1>1, <2>1, LockHeldStep DEF IInv
  <2>3. TypeOK'
    BY <1>1, <2>1, PcStep, OrdersStep, RecordStep, AnswerStep, LockTyped
       DEF IInv, TypeOK, Answers
  <2> QED BY <1>1, <2>2, <2>3, PcStep, OrdersStep, RecordStep, AnswerStep DEF IInv
<1>2. ASSUME UNCHANGED <<orders, record, pc, answer>>,
             lock' \in [Keys -> Requests \cup {NoOrder}],
             flushed' \in BOOLEAN,
             ~flushed' => ~flushed /\ (LockHeld => LockHeld')
      PROVE  IInv'
  <2>1. ~flushed' => LockHeld'
    BY <1>2 DEF IInv
  <2>2. TypeOK'
    BY <1>2 DEF IInv, TypeOK
  <2>3. (OnlyKeyed /\ SaveAfterCreate /\ RecordTellsTruth /\ AnswerIsOwnOrder)'
    BY <1>2 DEF IInv, OnlyKeyed, SaveAfterCreate, RecordTellsTruth, AnswerIsOwnOrder
  <2> QED BY <2>1, <2>2, <2>3 DEF IInv
<1>3. ASSUME NEW k \in Keys, Expire(k) PROVE IInv'
  <2>1. UNCHANGED <<orders, record, pc, answer, flushed>>
    BY <1>3 DEF Expire
  <2>2. lock' \in [Keys -> Requests \cup {NoOrder}]
    BY <1>3 DEF Expire, IInv, TypeOK
  <2>3. LockHeld => LockHeld'
    <3> SUFFICES ASSUME LockHeld, NEW q \in Requests, InSection(q)'
                 PROVE  lock'[KeyOf[q]] = q
      BY DEF LockHeld
    <3>1. InSection(q) /\ lock[KeyOf[q]] = q
      BY <2>1 DEF InSection, LockHeld
    <3>2. KeyOf[q] # k
      BY <1>3, <3>1 DEF Expire
    <3> QED BY <1>3, <3>1, <3>2, RequestsAssumption DEF Expire, IInv, TypeOK, InSection, Keyed
  <2> QED BY <1>2, <2>1, <2>2, <2>3 DEF IInv, TypeOK
<1>4. ASSUME RedisFlush PROVE IInv'
  BY <1>2, <1>4 DEF RedisFlush
<1>5. CASE UNCHANGED vars
  <2>1. LockHeld => LockHeld'
    BY <1>5 DEF vars, LockHeld, InSection
  <2> QED BY <1>2, <1>5, <2>1 DEF vars, IInv, TypeOK
<1> QED BY <1>1, <1>3, <1>4, <1>5 DEF Next

THEOREM Invariance == Spec => []IInv
BY InitEstablishes, NextPreserves, PTL DEF Spec

(* The tables, the locks and the handlers' state keep their types.         *)
THEOREM TypeCorrect == Spec => []TypeOK
<1>1. IInv => TypeOK
  BY DEF IInv
<1> QED BY <1>1, Invariance, PTL

(* A stored response always belongs to a real order of its key and body.   *)
THEOREM RecordsAreTrue == Spec => []RecordTellsTruth
<1>1. IInv => RecordTellsTruth
  BY DEF IInv
<1> QED BY <1>1, Invariance, PTL

(* No client is ever answered with an order made from another body or key. *)
THEOREM AnswersAreOwn == Spec => []AnswerIsOwnOrder
<1>1. IInv => AnswerIsOwnOrder
  BY DEF IInv
<1> QED BY <1>1, Invariance, PTL

(* As long as Redis keeps its data, the lock excludes: crashes, lost       *)
(* replies, failed releases and expiring locks do not break it.            *)
THEOREM LockExcludes == Spec => []KeyExclusive
<1>1. IInv => KeyExclusive
  BY DEF IInv, LockHeld, KeyExclusive
<1> QED BY <1>1, Invariance, PTL
-----------------------------------------------------------------------------
(* A request that is still to be looked up has created nothing.            *)
LateCreate == \A r \in Requests : pc[r] \in {"unsent", "lookup", "lock"} => r \notin orders

(* What becomes of a request whose key has a stored response: it is looked *)
(* up and ends.                                                            *)
Settled(r) ==
  /\ r \notin orders
  /\ \/ pc[r] \in {"unsent", "lookup"} /\ Keyed(r) /\ record[KeyOf[r]] # NoRecord
     \/ Ended(r)

LEMMA LateCreateStays ==
  ASSUME IInv, LateCreate, [Next]_vars
  PROVE  LateCreate'
<1> USE DEF IInv, TypeOK, LateCreate, Goto
<1>1. CASE UNCHANGED <<orders, pc>>
  BY <1>1
<1>2. ASSUME NEW r \in Requests, Handle(r)
      PROVE  LateCreate'
  BY <1>2 DEF Handle, Receive, Reject, LookupMiss, LookupHit, AcquireLock, NotLocked,
              CreateOrderWithOutbox, SaveIdempotentResponse, ReleaseLock
<1>3. ASSUME NEW r \in Requests, Fail(r)
      PROVE  LateCreate'
  BY <1>3 DEF Fail, LookupFails, LockFails, CreateFails, SaveFails, ReleaseFails, Crash
<1> QED BY <1>1, <1>2, <1>3 DEF Next, Expire, RedisFlush, vars

(* A stored response stays stored.                                         *)
LEMMA RecordStays ==
  ASSUME IInv, [Next]_vars, NEW k \in Keys, record[k] # NoRecord
  PROVE  record'[k] # NoRecord
<1>1. ASSUME NEW r \in Requests, Handle(r) \/ Fail(r)
      PROVE  record'[k] # NoRecord
  BY <1>1 DEF IInv, TypeOK, Handle, Receive, Reject, LookupMiss, LookupHit, AcquireLock,
     NotLocked, CreateOrderWithOutbox, SaveIdempotentResponse, ReleaseLock,
     Fail, LookupFails, LockFails, CreateFails, SaveFails, ReleaseFails, Crash
<1> QED BY <1>1 DEF Next, Expire, RedisFlush, vars

LEMMA SettledStays ==
  ASSUME IInv, [Next]_vars, NEW r \in Requests, Settled(r)
  PROVE  Settled(r)'
<1>1. Keyed(r) => KeyOf[r] \in Keys
  BY RequestsAssumption DEF Keyed
<1>2. Keyed(r) /\ record[KeyOf[r]] # NoRecord => record'[KeyOf[r]] # NoRecord
  BY <1>1, RecordStays
<1> USE DEF IInv, TypeOK, Settled, Ended, Keyed, Goto
<1>3. CASE UNCHANGED <<orders, pc>>
  BY <1>2, <1>3
<1>4. ASSUME NEW q \in Requests, Handle(q)
      PROVE  Settled(r)'
  BY <1>2, <1>4 DEF Handle, Receive, Reject, LookupMiss, LookupHit, AcquireLock,
     NotLocked, CreateOrderWithOutbox, SaveIdempotentResponse, ReleaseLock
<1>5. ASSUME NEW q \in Requests, Fail(q)
      PROVE  Settled(r)'
  BY <1>2, <1>5 DEF Fail, LookupFails, LockFails, CreateFails, SaveFails, ReleaseFails, Crash
<1> QED BY <1>3, <1>4, <1>5 DEF Next, Expire, RedisFlush, vars

(* A request that has not been looked up when a response is stored for its *)
(* key never creates an order, whatever fails and whatever Redis loses.    *)
THEOREM StoredIsFinal == Spec => StoredAnswerIsFinal
<1> SUFFICES ASSUME NEW r \in Requests
             PROVE  Spec => [](pc[r] \in {"unsent", "lookup"} /\ Keyed(r)
                                 /\ record[KeyOf[r]] # NoRecord
                               => [](r \notin orders))
  BY DEF StoredAnswerIsFinal
<1>1. Init => LateCreate
  BY DEF Init, LateCreate
<1>2. IInv /\ LateCreate /\ [Next]_vars => LateCreate'
  BY LateCreateStays
<1>3. LateCreate => (pc[r] \in {"unsent", "lookup"} /\ Keyed(r)
                       /\ record[KeyOf[r]] # NoRecord => Settled(r))
  BY DEF LateCreate, Settled
<1>4. IInv /\ Settled(r) /\ [Next]_vars => Settled(r)'
  BY SettledStays
<1>5. Settled(r) => r \notin orders
  BY DEF Settled
<1> QED BY <1>1, <1>2, <1>3, <1>4, <1>5, Invariance, PTL DEF Spec
=============================================================================
