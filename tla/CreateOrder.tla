---------------------------- MODULE CreateOrder ----------------------------
(***************************************************************************)
(* POST /orders of the Order Service: handlers (one per request, spread    *)
(* over the replicas) that share a Redis lock per Idempotency-Key and the  *)
(* PostgreSQL tables orders and idempotency_keys.                          *)
(*                                                                         *)
(* A step is one call to Redis or PostgreSQL and the code up to the next.  *)
(* CreateOrderWithOutbox is one transaction that only inserts rows nobody  *)
(* else can name yet, so it is one step; the order, its items and its      *)
(* OrderCreated row appear together.  A request creates at most one order, *)
(* so an order is named after the request that created it.                 *)
(***************************************************************************)
EXTENDS Naturals, FiniteSets

CONSTANTS Requests,   \* the POST /orders requests, retries included
          Keys,       \* Idempotency-Key values
          NoKey,      \* the request has no such header
          KeyOf,      \* KeyOf[r]: header of r
          BodyOf,     \* BodyOf[r]: body of r (two bodies are equal or not)
          Rejected,   \* bodies that fail parsing or validation
          NoOrder,    \* no order, no lock holder, no stored response
          Faults,     \* whether calls fail and processes die
          Flushes     \* whether Redis may lose its data

ASSUME RequestsAssumption ==
  /\ KeyOf \in [Requests -> Keys \cup {NoKey}]
  /\ NoKey \notin Keys
  /\ NoOrder \notin Requests

ASSUME SwitchesAssumption == Faults \in BOOLEAN /\ Flushes \in BOOLEAN

VARIABLES orders,   \* rows of orders (with order_items and outbox_events)
          record,   \* idempotency_keys: the stored response of a key
          lock,     \* Redis: the request whose SETNX set the key's lock
          pc,       \* where the handler of a request is
          answer,   \* what it wrote to the ResponseWriter
          flushed   \* history: Redis has lost its data

vars == <<orders, record, lock, pc, answer, flushed>>

Bodies == {BodyOf[r] : r \in Requests}

Steps == {"unsent", "lookup", "lock", "create", "save", "release", "done", "dead"}

(* Slips of a programmer, which no specification here uses: README.md says *)
(* which definition each would replace and which property then fails.      *)
HashNotStored(r) == [hash |-> NoOrder, order |-> r]

NoRecord == [hash |-> NoOrder, order |-> NoOrder]
Record(r) == [hash |-> BodyOf[r], order |-> r]

NoAnswer == [status |-> 0, order |-> NoOrder]
Refusal(code) == [status |-> code, order |-> NoOrder]
Created(o) == [status |-> 201, order |-> o]

Keyed(r) == KeyOf[r] # NoKey

(* Between SETNX and the deferred DEL.                                     *)
InSection(r) == Keyed(r) /\ pc[r] \in {"create", "save", "release"}

Ended(r) == pc[r] \in {"done", "dead"}

Init == /\ orders = {}
        /\ record = [k \in Keys |-> NoRecord]
        /\ lock = [k \in Keys |-> NoOrder]
        /\ pc = [r \in Requests |-> "unsent"]
        /\ answer = [r \in Requests |-> NoAnswer]
        /\ flushed = FALSE

Goto(r, step) == pc' = [pc EXCEPT ![r] = step]
Respond(r, a) == answer' = [answer EXCEPT ![r] = a]

(* Slips of a programmer, which no specification here uses: README.md says *)
(* which definition each would replace and which property then fails.      *)
LookupSkipped(r) ==
  /\ pc[r] = "lookup"
  /\ Goto(r, "lock")
  /\ UNCHANGED <<orders, record, lock, answer>>

HashNotCompared(r) ==
  /\ pc[r] = "lookup"
  /\ record[KeyOf[r]] # NoRecord
  /\ Respond(r, Created(record[KeyOf[r]].order))
  /\ Goto(r, "done")
  /\ UNCHANGED <<orders, record, lock>>

DoUpdateBody(r) ==
  LET k == KeyOf[r] IN
  /\ pc[r] = "save"
  /\ record' = [record EXCEPT
       ![k] = IF @ = NoRecord THEN Record(r) ELSE [@ EXCEPT !.order = r]]
  /\ Respond(r, Created(r))
  /\ Goto(r, "release")
  /\ UNCHANGED <<orders, lock>>

ShortTtl(k) ==
  /\ lock[k] # NoOrder
  /\ lock' = [lock EXCEPT ![k] = NoOrder]
  /\ UNCHANGED <<orders, record, pc, answer, flushed>>

NoTtl(k) == FALSE /\ UNCHANGED vars

-----------------------------------------------------------------------------
(* The body is read, parsed and validated.                                 *)
Receive(r) ==
  /\ pc[r] = "unsent"
  /\ BodyOf[r] \notin Rejected
  /\ Goto(r, IF Keyed(r) THEN "lookup" ELSE "create")
  /\ UNCHANGED <<orders, record, lock, answer>>

Reject(r) ==
  /\ pc[r] = "unsent"
  /\ BodyOf[r] \in Rejected
  /\ Goto(r, "done")
  /\ Respond(r, Refusal(400))
  /\ UNCHANGED <<orders, record, lock>>

(* GetIdempotentResponse: nothing stored, go on to the lock.               *)
LookupMiss(r) ==
  /\ pc[r] = "lookup"
  /\ record[KeyOf[r]] = NoRecord
  /\ Goto(r, "lock")
  /\ UNCHANGED <<orders, record, lock, answer>>

LookupHit(r) ==
  LET rec == record[KeyOf[r]] IN
  /\ pc[r] = "lookup"
  /\ rec # NoRecord
  /\ Respond(r, IF rec.hash = BodyOf[r] THEN Created(rec.order) ELSE Refusal(409))
  /\ Goto(r, "done")
  /\ UNCHANGED <<orders, record, lock>>

LookupFails(r) ==
  /\ Faults
  /\ pc[r] = "lookup"
  /\ Respond(r, Refusal(500))
  /\ Goto(r, "done")
  /\ UNCHANGED <<orders, record, lock>>

(* AcquireLock: SETNX with a TTL of ten minutes.                           *)
AcquireLock(r) ==
  /\ pc[r] = "lock"
  /\ lock[KeyOf[r]] = NoOrder
  /\ lock' = [lock EXCEPT ![KeyOf[r]] = r]
  /\ Goto(r, "create")
  /\ UNCHANGED <<orders, record, answer>>

NotLocked(r) ==
  /\ pc[r] = "lock"
  /\ lock[KeyOf[r]] # NoOrder
  /\ Respond(r, Refusal(409))
  /\ Goto(r, "done")
  /\ UNCHANGED <<orders, record, lock>>

(* Redis is down, or it set the lock and its reply was lost: no release.   *)
LockFails(r) ==
  /\ Faults
  /\ pc[r] = "lock"
  /\ \/ UNCHANGED lock
     \/ /\ lock[KeyOf[r]] = NoOrder
        /\ lock' = [lock EXCEPT ![KeyOf[r]] = r]
  /\ Respond(r, Refusal(500))
  /\ Goto(r, "done")
  /\ UNCHANGED <<orders, record>>

CreateOrderWithOutbox(r) ==
  /\ pc[r] = "create"
  /\ orders' = orders \cup {r}
  /\ IF Keyed(r)
       THEN Goto(r, "save") /\ UNCHANGED answer
       ELSE Goto(r, "done") /\ Respond(r, Created(r))
  /\ UNCHANGED <<record, lock>>

(* The transaction rolled back (a line that the database rejects is one    *)
(* more reason), or it committed and the answer was lost.                  *)
CreateFails(r) ==
  /\ Faults
  /\ pc[r] = "create"
  /\ orders' \in {orders, orders \cup {r}}
  /\ Respond(r, Refusal(500))
  /\ Goto(r, IF Keyed(r) THEN "release" ELSE "done")
  /\ UNCHANGED <<record, lock>>

(* SaveIdempotentResponse (ON CONFLICT DO NOTHING), then the 201.          *)
SaveIdempotentResponse(r) ==
  LET k == KeyOf[r] IN
  /\ pc[r] = "save"
  /\ record' = [record EXCEPT ![k] = IF @ = NoRecord THEN Record(r) ELSE @]
  /\ Respond(r, Created(r))
  /\ Goto(r, "release")
  /\ UNCHANGED <<orders, lock>>

(* The record is not stored, and the error is ignored.                     *)
SaveFails(r) ==
  /\ Faults
  /\ pc[r] = "save"
  /\ Respond(r, Created(r))
  /\ Goto(r, "release")
  /\ UNCHANGED <<orders, record, lock>>

(* The deferred ReleaseLock: DEL, whoever set the lock.                    *)
ReleaseLock(r) ==
  /\ pc[r] = "release"
  /\ lock' = [lock EXCEPT ![KeyOf[r]] = NoOrder]
  /\ Goto(r, "done")
  /\ UNCHANGED <<orders, record, answer>>

(* Redis is down, or the request's context is already cancelled.           *)
ReleaseFails(r) ==
  /\ Faults
  /\ pc[r] = "release"
  /\ Goto(r, "done")
  /\ UNCHANGED <<orders, record, lock, answer>>

(* The process dies; the client never sees what the handler had written.   *)
Crash(r) ==
  /\ Faults
  /\ pc[r] \notin {"unsent", "done", "dead"}
  /\ Goto(r, "dead")
  /\ Respond(r, NoAnswer)
  /\ UNCHANGED <<orders, record, lock>>

(* The TTL runs out.  A handler ends within the ten seconds of             *)
(* middleware.Timeout, so by then the one that took the lock is gone.      *)
Expire(k) ==
  /\ lock[k] # NoOrder
  /\ ~InSection(lock[k])
  /\ lock' = [lock EXCEPT ![k] = NoOrder]
  /\ UNCHANGED <<orders, record, pc, answer, flushed>>

RedisFlush ==
  /\ Flushes
  /\ lock' = [k \in Keys |-> NoOrder]
  /\ flushed' = TRUE
  /\ UNCHANGED <<orders, record, pc, answer>>

Handle(r) ==
  /\ \/ Receive(r)
     \/ Reject(r)
     \/ LookupMiss(r)
     \/ LookupHit(r)
     \/ AcquireLock(r)
     \/ NotLocked(r)
     \/ CreateOrderWithOutbox(r)
     \/ SaveIdempotentResponse(r)
     \/ ReleaseLock(r)
  /\ UNCHANGED flushed

Fail(r) ==
  /\ \/ LookupFails(r)
     \/ LockFails(r)
     \/ CreateFails(r)
     \/ SaveFails(r)
     \/ ReleaseFails(r)
     \/ Crash(r)
  /\ UNCHANGED flushed

Next ==
  \/ \E r \in Requests : Handle(r) \/ Fail(r)
  \/ \E k \in Keys : Expire(k)
  \/ RedisFlush

Spec == Init /\ [][Next]_vars

(* The Timeout middleware cancels the context of a handler that does not   *)
(* get on, so it always takes its next step; a TTL always runs out.        *)
Fairness == /\ \A r \in Requests : WF_vars(pc[r] # "unsent" /\ Handle(r))
            /\ \A k \in Keys : WF_vars(Expire(k))

FairSpec == Spec /\ Fairness

-----------------------------------------------------------------------------
(* The types of the tables, of Redis and of the handlers' state.           *)
TypeOK ==
  /\ orders \subseteq Requests
  /\ record \in [Keys -> [hash : Bodies, order : Requests] \cup {NoRecord}]
  /\ lock \in [Keys -> Requests \cup {NoOrder}]
  /\ pc \in [Requests -> Steps]
  /\ answer \in [Requests -> [status : {0, 201, 400, 409, 500},
                              order : Requests \cup {NoOrder}]]
  /\ flushed \in BOOLEAN

(* The lock does its job as long as Redis keeps it: two requests with one  *)
(* key are never both between SETNX and DEL, although DEL does not look    *)
(* whose lock it removes and a lock may outlive its handler.               *)
KeyExclusive ==
  ~flushed => \A r, q \in Requests :
                InSection(r) /\ InSection(q) /\ KeyOf[r] = KeyOf[q] => r = q

(* A stored response is the one of an order that exists, created with that *)
(* key and that body.                                                      *)
RecordTellsTruth ==
  \A k \in Keys : record[k] # NoRecord =>
    /\ record[k].order \in orders
    /\ KeyOf[record[k].order] = k
    /\ record[k].hash = BodyOf[record[k].order]

(* A client that is answered 201 gets an existing order made from its own  *)
(* body and, on a replay, under its own key.                               *)
AnswerIsOwnOrder ==
  \A r \in Requests : answer[r].status = 201 =>
    /\ answer[r].order \in orders
    /\ BodyOf[answer[r].order] = BodyOf[r]
    /\ KeyOf[answer[r].order] = KeyOf[r]

(* Once a response is stored for a key, a request that has not looked it   *)
(* up yet never creates an order (docs/api.md:33).                         *)
StoredAnswerIsFinal ==
  \A r \in Requests :
    [](pc[r] \in {"unsent", "lookup"} /\ Keyed(r) /\ record[KeyOf[r]] # NoRecord
         => [](r \notin orders))

(* What the client is promised: with one key and one body, one order.      *)
AtMostOneOrderPerKey ==
  \A r, q \in orders :
    Keyed(r) /\ KeyOf[r] = KeyOf[q] => r = q

(* No lock outlives its handler for ever, so a key is never unusable.      *)
KeyIsFreedAgain == \A k \in Keys : []<>(lock[k] = NoOrder)
=============================================================================
