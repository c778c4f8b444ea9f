# FulfillX in TLA+

This directory is a TLA+ model of FulfillX, the order pipeline in `../src`:
what each service does to its tables, to Redis and to Kafka, one step per
call that another process can see. TLC checks the models on small instances;
TLAPS proves the properties that matter most for every size.

    tlc -config MCInventory_safety.cfg MCInventory.tla      # any run below
    tlapm InventoryProofs.tla                               # any *Proofs.tla

Paths below are relative to the repository's root.

## The system

A client posts an order. The order travels through four services, each with
a PostgreSQL database of its own, which only exchange Kafka messages:

    POST /orders -> Order Service --order-events--> Inventory --inventory-events-->
      Payment --payment-events--> Fulfillment --fulfillment-events--> (status)

Every service writes its tables and a row of `outbox_events` in one
transaction; its outbox worker sends the rows to Kafka; the next service's
consumer runs a transaction per message, guarded by `processed_events`. All
services run as two replicas (`k8s/`), so each loop exists at least twice.

| Component | State | Operations | What is hard | What makes it correct |
|---|---|---|---|---|
| `POST /orders` (`order-service/internal/handlers`, `idempotency`, `db`) | `orders`, `idempotency_keys`, Redis locks | look the key up, lock, create, store the response, unlock | four stores that change one after the other; concurrent and retried requests; lost locks, failed calls, crashes | one order per key; an answer is about the caller's own order; locks go away |
| Outbox worker (`*/internal/outbox`, one code in four services) | `outbox_events.published`, the topic | select a batch, write, mark | replicas that fetch the same rows, failures between write and mark, no acknowledgement | nothing lost but what a failing broker drops; order per key unless two replicas race for an order; the backlog drains |
| Consumer loops (`*/internal/consumer`) | group offset, message in hand | fetch, handle, commit | rebalances while a message is in hand, crashes, errors of the handler | nothing skipped, messages tried in order |
| Inventory (`inventory-service/internal/db/inventory.go`) | `inventory`, `reservations`, `processed_events`, outbox | `ReserveForOrder` | check-then-act over several rows, redelivery to two replicas at once, row locks, aborts | no oversell, no lost unit, one truthful outcome per order, no deadlock |
| Payment (`payment-service/internal/db`) | `payments`, `processed_events`, outbox | `AuthorizeForOrder` | redelivery to two replicas at once without row locks; a decline after stock was reserved | charged or declined once; the payment, the mark and the event agree |
| Fulfillment (`fulfillment-service/internal/db`) | `fulfillments`, `processed_events`, outbox | `CreateForOrder` | `ON CONFLICT DO NOTHING` lets a second transaction go on | only paid orders, once, two events in order |
| Status consumer (`order-service/internal/statusconsumer`) | `orders.status` | overwrite the status per event | three topics read concurrently, replays, updates of a reader that lost its partition | a final status is true; a refusal is shown |
| Rate limiter (`order-service/internal/idempotency/ratelimit.go`) | counters in Redis | INCR, EXPIRE | the two calls are not atomic; the clock moves between them | at most 100 per window; nobody refused for others; counters expire |
| WebSocket hub (`api-gateway/internal/wsstream`) | subscribers per order | subscribe, remove, broadcast | three reading loops and the connections' goroutines share it; writes block | nobody leaked or skipped, frames in order, nobody dropped without cause; only a client that stops reading for good in the middle of a write holds a loop up |
| Gateway proxy, `GET` handlers, wiring, tracing, deployment | none of their own | | | not modelled |

The full list of what is hard to test, line by line, is under `hazards` in
`PROJECT.json`, with the properties that look at it.

## The modules

| Module | What it is |
|---|---|
| `Inventory` | `ReserveForOrder`, statement by statement |
| `Reservation` | what it promises: orders settled in one step. `Inventory` implements it |
| `CreateOrder` | the handler of `POST /orders` with Redis and its two tables |
| `Outbox` | the outbox worker |
| `EventFeed` | what it promises: an ordered at-least-once feed, but for raced orders and dropped events. `Outbox` implements it with any number of workers |
| `ConsumerGroup` | the consumer loops and the offset of their group |
| `Payment`, `Fulfillment` | `AuthorizeForOrder` and `CreateForOrder` in all the replicas |
| `OnceOnly` | what these two promise: an order asked for is settled in one step, once. Both implement it |
| `StatusConsumer` | the three loops that overwrite `orders.status` |
| `Pipeline` | composes `Reservation`, `Payment`, `Fulfillment` and `StatusConsumer` over their topics |
| `OrderLife` | an order's life as docs/api.md tells it. `Pipeline` implements it |
| `RateLimiter` | the counters in Redis, with a clock |
| `WsHub` | the WebSocket hub of one gateway |
| `MC...` | instances for TLC |
| `...Proofs` | invariants, lemmas, theorems |

Each module with code behind it also holds a few definitions headed "Slips of
a programmer". They are wrong on purpose and used by no specification:
putting one in place of the definition it imitates (pairs under `mutants` in
`PROJECT.json`) must make the named property fail.

### Inventory

State: the committed tables (`available`, `reserved`, `reservations`,
`processed`, `outbox`) and for each consumer its position in the transaction,
its order, the rows it has locked and its map of quantities read. The steps:
`Deliver` (the message is fetched and the transaction begins),
`AlreadyProcessed` and `NotProcessed` (the EXISTS query), `LockRow` once per
SKU in sorted order (it waits for other holders; PostgreSQL then returns the
committed quantity), `UnknownSku` (ErrNoRows), `Write` (all the writes of the
chosen path), then `CommitReserved` or `CommitFailed`. `StockCheckFails` is
the CHECK on `available_quantity`, `DuplicateKey` the primary key of
`processed_events`, `Fault` any failing statement or dying process. What a
transaction writes is invisible until it commits, so the writes take effect
at the commit; what other transactions can wait for (row locks, and the
inserted key of `processed_events`: the guard of `Write`) is visible before.

The item lines and quantities are separate constants, because the code treats
them apart: the update loop runs once per line and each time subtracts the
sum over all lines of that SKU. `Taken` is what it therefore takes.

Kafka is reduced to "any message, any time, to any replica, any number of
times", which includes every behaviour of `ConsumerGroup` and of `Outbox`.

### CreateOrder

A request's handler moves through `lookup`, `lock`, `create`, `save`,
`release`. `record[k]` is the row of `idempotency_keys`, `lock[k]` remembers
which request set the Redis lock (the code stores "1": nothing depends on the
owner, and `ReleaseLock` deletes whatever is there). Each call may fail, and
a failed write may have been applied all the same (`LockFails`,
`CreateFails`). `Crash` ends the process; `Expire` is the TTL of the lock;
`RedisFlush` loses all locks. The handlers' timeout (10 s) is far below the
TTL (10 min), so a lock expires only after its handler has ended: the guard
of `Expire`, and the only timing assumption.

An order is named after its request, since a request creates at most one.
`flushed` remembers that Redis has lost its data: `KeyExclusive` speaks of the
time before.

### Outbox

A worker's `SELECT ... FOR UPDATE SKIP LOCKED` is not sent in a transaction:
its row locks last as long as the statement. Therefore it takes several steps
(`Tick` takes the snapshot, `SelectRow` visits a row, `EndSelect`), during
which another replica's statement skips its rows and a `MarkPublished` waits;
afterwards nothing protects them. `BrokerDrops` is a message that a failing
broker loses: `kafka.Writer` is built without `RequiredAcks`, which means it
does not wait for any acknowledgement. `dropped` remembers such rows, and
`raced` the orders of which a `SELECT` came to an unpublished row while another
worker had rows of the same order in hand; both are history variables, and no
guard reads them. `SelectBreaks` is a connection that
breaks while rows are read (`rows.Err` is not asked). `WriteFails`,
`MarkFails` and `Crash` abandon the batch, and the failed call may have taken
effect. The log keeps messages in the order in which Kafka stored them; only
the relative order of one key is ever used, as keys map to partitions.

### ConsumerGroup

One partition and the readers of a group. `Rebalance` hands the partition to
a reader, which starts at the committed offset; the reader that lost it still
finishes what it has in hand, and its commit may be rejected or may set the
offset back. `HandleFails` is an error of the handler: `Run` neither commits
nor retries, it goes on. `Skipped` are malformed messages (handled without
effect) and, for Payment and Fulfillment, messages of the other event type.
`failed` is a history variable.

### Payment and Fulfillment

A consumer's transaction moves through `check` (the EXISTS query), `insert`,
in Fulfillment also `mark`, and `commit`. A statement sees what is committed;
what a transaction inserts appears at its commit, but another INSERT of the
same primary key waits for it (`HeldByOther`). What happens after the wait is
where the two services differ: Payment's plain INSERT fails
(`DuplicatePayment`), Fulfillment's `ON CONFLICT DO NOTHING` goes on, writes
its outbox rows, and is only stopped by the key of `processed_events`
(`DuplicateMark`). `HandleFails` is any failing call, a COMMIT whose answer is
lost included; `Crash` loses what was not committed. `requested`, the orders
whose event is in the topic, belongs to the environment, so that each module
can be proved about alone and used in `Pipeline`.

### StatusConsumer

One loop per topic, `FetchMessage`, `UpdateStatus`, `CommitMessages`. A failed
update is skipped, as in `ConsumerGroup`. `Rebalance` takes the reader back to
the committed offset, and `late` is the message the earlier reader had in its
hands: its UPDATE may come at any later time (`LateUpdate`).

### Pipeline

`Inv` is `Reservation`, which `Inventory` implements for orders without
repeated SKUs; every order asks for one unit of the one SKU. `Pay`, `Ship` and
`Show` are instances of the modules above on the composed state, and
`requested` is defined from the topics with the consumers' filter on the event
type (`Announced`). `Publish` and `PublishAgain` are the outbox workers: each
row in turn, and any of them again (a second replica, a mark that was not
made). The offsets of the Payment and Fulfillment groups are left out: any
message may be delivered any number of times, to any replica; what
`ConsumerGroup` proves of the offsets is used in `Due`, which says what must
still be delivered. `Stage(o)` reads from the services' outboxes how far an
order is.

### RateLimiter

A request computes its window (`Enter`), calls INCR, and if it made the
counter, EXPIRE. The clock may tick in between, up to `Delay`: the handler's
timeout. `FailOpen` is an INCR that returns an error, applied or not;
`ExpireFails` an EXPIRE whose error nobody looks at (ratelimit.go:34); `Crash`
the death of the process. `kept` remembers the counters that these left
without a time to live.

### WsHub

`subscribers` is the map under the mutex; a connection has a socket `state`
and a goroutine (`reading`). A loop takes a message and the copy of the list
in one critical section (`Broadcast`), then writes to one connection after the
other; a write has a begin and an end, because it blocks while the client does
not read. There is no write deadline, so a client that stops reading for good
(`Stall`) blocks a write until it leaves or its network fails (`Break`), which
need not happen. `WriteFails` and `ReadFails` both call `remove`; a write to a
connection that has just broken may also succeed (`WriteVanishes`).

Two loops may write to one connection at a time, whatever has become of its
socket. gorilla/websocket panics if it notices, which it may do when the second
write begins or when a write that ran into another one ends (`overlap` holds
the loops in such a write): in `Panic` the process dies and starts again without
subscribers, since nothing recovers in the loops' goroutines. If it does not
notice, the frames go out whole or mixed (`WriteConcurrently`).

## The runs

| Run | Instance | What it shows |
|---|---|---|
| `reserve_safety` | 3 replicas (symmetric), 3 orders, failures | types; `SnapshotStable`, `OneOutcomePerOrder`, `NoWaitCycle`, `StockConserved`, `OutcomeMatchesStock` |
| `reserve_promise` | 2 replicas, 3 orders that race for one SKU and share another, no failures, fairness | `ImplementsReservation`, `EveryOrderGetsOutcome` |
| `reserve_repeated` | as the first, 2 replicas | fails: two lines of one SKU take twice the quantity |
| `post_mixed` | 3 requests of one key (two bodies), 1 malformed without key, failures, Redis may lose its data, fairness | types; `RecordTellsTruth`, `AnswerIsOwnOrder`, `KeyExclusive`, `StoredAnswerIsFinal`, `KeyIsFreedAgain` |
| `post_race` | the requests of `post_mixed` with valid bodies, no failures | fails: two orders under one key |
| `outbox_two` | 2 workers, 3 rows of 2 orders, batch of 2, 2 failures, fairness | types; `NoLostEvent`, `OrderedUnlessRaced`, `ImplementsFeed`, `BacklogDrains` |
| `outbox_order` | the same workers and rows, no failures | fails: two replicas publish an order's second event before its first |
| `group_offsets` | 2 readers, 4 messages of which one is skipped, 3 faults, fairness | types; `OnlyFailuresSkipped`, `TriedInOrder`, `PassedOnlyBySuccessor`, `EveryMessageTried` |
| `pipeline` | 2 orders, 1 unit, one order that would be authorized and one that would be declined, 2 replicas of Payment and of Fulfillment, 1 fault, fairness | types; `ChargedOnce`, `FulfilledOnce`, `FinalStatusIsTrue`, `ServicesImplementOnceOnly`, `FollowsOrderLife`, `EveryOrderEnds`, `RefusalIsShown` |
| `pipeline_status` | the same orders, 1 replica of each, no faults, fairness | fails: the status shown stays behind the order for ever |
| `ws_hub` | 3 connections, 2 of one order, topics of 1 and 2 messages, fairness | types; `NobodyLeaked`, `FramesFollowFeed`, `DroppedOnlyByTwoTopics`, `HubGoesOn` |
| `rate_limit` | 3 requests of 2 customers, limit 1, windows of 2 ticks, delays of 1, fairness | types; `DecisionsFollowLimit`, `CountersGo` |

Why these sizes are enough to be interesting. Three replicas allow a cycle of
waiting transactions that is not a pair, and a third delivery beside two that
race; three orders make one that wins the last unit, one that loses and one
that only shares a row. In `reserve_safety` one order repeats a SKU (it fits
or fails the CHECK depending on who came first) and one names an unknown SKU
after a known one, so that a transaction fails with a row locked. Two equal
requests, one with another body and one without a key produce every pair of
paths through the handler. A batch smaller than the backlog and two rows of
one order, with another order's row between them, make batches end in the
middle of that order, and with two workers and two failures they are also
fetched twice, shared out between the workers, dropped and published again. Three faults let a reader crash, the partition move and a handler
fail in one behaviour. In `pipeline` either order may get the unit, so all
ends of an order occur; a single fault is a second delivery to the other
replica, a repeated message, a failed call, a crash or a rebalance (two faults
were checked for the invariants, 726,837 states, and take too long with the
liveness properties). Two connections of one order and two topics with
messages of it let two loops meet at a connection while a third one is
removed. A window of two ticks and a delay of one put an INCR on either side
of a window's edge and of an expiry.

Bounds: `MaxFaults` limits failures (and rebalances, repetitions) in `Outbox`,
`ConsumerGroup` and `Pipeline`; `LastStart` and `End` bound the clock of
`RateLimiter`; in the other modules failures are unlimited, and the state
space is finite because orders and requests are. Deadlock is checked in
`Inventory`, where a consumer can always fetch. The other systems stop when
all requests were answered, all rows published, all messages read or the clock
has come to its end, so their
configurations switch that check off.

### Fairness

- `Inventory!Fairness`: a statement that can run does. A row lock is granted
  under strong fairness: PostgreSQL queues those who wait for a row. A message
  whose order is not settled is fetched again some time; this is more than the
  consumer loop guarantees after an error (see below), and in
  `reserve_promise`, where no statement fails, a first delivery is enough.
- `CreateOrder!Fairness`: a handler takes its next step, as the Timeout
  middleware cancels any call that hangs; TTLs run out.
- `Outbox!FairSpec`: a worker's ticker fires again and its calls end.
- `ConsumerGroup!Fairness`: the coordinator does not leave the partition
  unassigned; a reader that can go on does.
- `Pipeline!Fairness` and `WsHub!Fairness` are one weak fairness condition on
  all the work that is not a fault: the services, the workers and the readers
  take their steps as long as there is one to take. All of that work is
  finite, so nothing can be put off for ever. In `Pipeline` it includes the
  delivery of a message nobody has handled, failed on or holds (`Due`). In
  `WsHub` it is the loops' steps and the goroutines' failed reads, and nothing
  a client or the network does: a write to a stalled client is not among the
  steps that can be taken, so its loop may hang for good, and `HubGoesOn`
  excepts a loop in that situation.
- `RateLimiter!FairSpec`: the clock runs, and each request's next call is made.

No fairness is assumed of failures, or of clients.

### Where the code departs from its documentation

- `reserve_repeated`: `skus` has one entry per line, `qtyBySKU` the sum over
  lines (inventory.go:64-69), and the loop at 106 uses both. With less stock
  the CHECK fails instead and the order is never settled.
- `post_race`: the key is not looked up again once the lock is held
  (orders.go:81-96), against docs/api.md:40-41.
- `pipeline_status`: `UpdateStatus` sets whatever status the event at hand
  implies (statusconsumer.go:97), and the readers of the three topics are not
  ordered among each other, against docs/architecture.md:80 and
  statusconsumer.go:35-37. An order may be fulfilled and shown as
  INVENTORY_RESERVED for ever. What does hold is `FinalStatusIsTrue`: FAILED
  and FULFILLED are never shown falsely.

- `outbox_order`: the locks of worker.go:71 end with the statement, and the two
  replicas then publish at their own pace. One `SELECT` skips the rows that
  the other still locks, or its LIMIT ends between an order's events, so that
  one replica has the first event in hand and the other the second; whoever
  is faster writes first, against worker.go:39 and
  docs/architecture.md:126-133. No failure is needed. What does hold for any
  number of replicas is `OrderedUnlessRaced`.

More that the models contain and no run is devoted to:

- Lost events. worker.go:36-40 builds the `kafka.Writer` without
  `RequiredAcks`, so a message the broker loses is marked published, against
  the comment at worker.go:23. `NoLostEvent` therefore excepts `dropped`, which
  is nothing but these messages; without the exception it fails in
  `MCOutbox_two.cfg`.
- Failed messages. consumer.go:53-67 goes on after an error, and the commit of
  the next message passes the failed one over, against its comment at 54-57
  and README.md:213. `PassedOnlyBySuccessor` says exactly when.
- Retries. With `Faults` and valid bodies, `AtMostOneOrderPerKey` fails also
  for a client that sends its requests one after the other: the response is
  stored in a transaction of its own, its error is ignored (orders.go:113-119),
  and a commit whose answer was lost releases the lock.
- Unknown SKUs. An order with a SKU that has no inventory row is rolled back
  at each delivery (inventory.go:78-80): its status never becomes FAILED,
  against docs/api.md:66-68.
- Replays. A replayed response is what PostgreSQL prints for a JSONB column,
  not the bytes sent first (docs/api.md:33).
- Declined orders keep their stock: no consumer of PaymentFailed gives the
  units back.
- Concurrent writers. wsstream.go:88 writes from three loops; gorilla allows
  one writer per connection and panics when it notices a second. The panic is
  in a goroutine without `recover` and ends the gateway, and every client's
  connection with it. `DroppedOnlyByTwoTopics` says what this takes: a loop at a
  subscriber of an order that another topic has had a message of as well.
- Stalled clients. wsstream.go:88 writes without a deadline, and TCP does not
  give up a peer that answers but takes no data: one client that stops reading
  can keep a topic's events from all clients of the gateway. `HubGoesOn` says
  that nothing else holds a loop up.
- Gateways share messages. main.go:47 of the gateway gives all replicas the
  group `api-gateway-ws`, so each message reaches the clients of one replica
  only, against wsstream.go:94-98. `WsHub` is a single process.
- Late requests. A request that is slow to call INCR after its window's
  counter expired makes it anew and is let through (`DecisionsFollowLimit`
  counts those that were counted within their window); a counter whose EXPIRE
  was not done stays in Redis for ever (`CountersGo` excepts it).

## The proofs

All theorems are of the specification without fairness and hold for every
value of the constants that meets the modules' named assumptions.

**`InventoryProofs`**. `Invariance` proves the inductive invariant `IInv`,
from which `TypeCorrect`, `SnapshotIsStable`, `OneOutcome`,
`OutcomeTellsTruth` and `NoDeadlockOnRows` follow. The stated properties are
not inductive: one must know that a row has one holder, that a consumer which
is past a row in sorted order holds it, that two consumers never commit the
same order, and that a committing transaction passed its CHECK on quantities
that are still the committed ones. `NoDeadlockOnRows` picks, in any set of
consumers, one that waits for a largest row: whoever holds that row waits
only for larger ones, and there are none. `Implementation` shows that under
`OneLinePerSku` each step is a step of `Reservation` or leaves it unchanged;
the assumption is needed, `reserve_repeated` is the counterexample.

`StockIsConserved` needs what `MapThenSumSet` computes for every finite set:
that a sum exists and does not depend on the element it starts with
(`SumExists`, `SumUnfolds`), and that it grows by what one of its terms grows
by (`SumGrows`). These are inductions over the subsets of `Orders`. The
library's induction theorems take the claim as an operator, which the provers
cannot instantiate; `SmallestSubset` therefore puts them by counterexample:
the set of subsets for which the claim fails, if it is not empty, has a
member whose proper subsets all satisfy it. `CommitConserves` then compares
the three updates of a commit; no other step touches the three tables.

**`CreateOrderProofs`**. `IInv` ties the stored record and the answer to the
order of the handler that wrote them, and, where Redis keeps its data, the
section to the lock (`LockHeld`): whoever is between SETNX and DEL is the one
the lock remembers, until Redis loses its data. `TypeCorrect`,
`RecordsAreTrue`, `AnswersAreOwn` and `StoredIsFinal` hold whatever Redis
loses. For the last one, `Settled` says what becomes of a request whose key
has a stored response when it arrives: it is looked up and ends, because
stored responses are never deleted.

**`OutboxProofs`**. All of it is about any number of workers and any failures.
`NothingLost`: a worker in `mark` has its first row in the log or dropped.
`OrderKeptUnlessRaced` and `WorkersImplementFeed` need to know what race-free
means for the workers' hands: of an order that was never raced one worker at
most has rows in hand (`Alone`), what it has is downward closed among the
order's unpublished rows (`HandOK`), and no row is in the log before the
earlier ones of its order are marked (`EarlierMarked`). `SelectRow` is the step
at which a second worker would break the first, and there it sets `raced`. The
argument rests on `KeyAssumption`, that an order's rows are committed together:
otherwise a later commit could slip a smaller id under a row in hand.

**`ConsumerGroupProofs`**. `ReaderInv` says what a reader may rely on: below
the message in hand everything was tried, and its next offset is either the
one after or a committed one. `NoMessageLost` and `InOrder` follow.

`PassedBySuccessor` is an action property: between a reader that has handled
its message and the offset before it there is nothing untried.

**`PipelineProofs`** begins with each of the two services by itself: theorems
about `Pay!Spec` and `Ship!Spec` (names that begin with `Pay` and `Ship`),
whose environment may change topic and faults in any way. A step either
changes no table or is a commit (`PayTwoKindsOfStep`, `ShipTwoKindsOfStep`).
`ChargedOnce` alone is not inductive: that a commit meets no committed row
needs `PayInsertedAlone`, that among the transactions past their INSERT one
at most is of a given order, unless that order is settled already, in which
case (Fulfillment) none of them gets past its mark. `PayImplementation` and
`ShipImplementation` add that a consumer's order stays requested, from the
assumption that the environment takes no message away (`PayTopicGrows`,
`ShipTopicGrows`).

In the composed system a step is a step of the service or leaves its tables
alone, which gives `OneCharge` and `OneFulfillment`. `TopicsStayLogs` and
`AnnouncedGrows` show that topics only grow, so `Implementation` has no
assumption on the environment left.

**`OrderLifeProofs`**. An order's records, as positions in `Course`, are always
one of `Lives` (nothing; reserved; refused; reserved and paid; reserved and
declined; reserved, paid and fulfilled). `PInv` adds to the services' own
invariants that what is in a topic is a row of its outbox (`Published`), which
ties a service's requests to its predecessor's records, and that a status was
in a message (`ShownWasTold`), also when an earlier reader applies it late.
`FourKindsOfStep` names the steps that add a row; each takes one order from
one of `Lives` to the next (`LifeSteps`), which is a step of `OrderLife`.
`TypeCorrect` is here because the types of the status consumer rest on
`PInv`: what it shows and has in hand are events of messages in the topics.

**`WsHubProofs`**. `HInv` holds `NobodyLeaked` together with `Registered`
(only a connection that was registered is watched or owed a frame), which is
why a new connection cannot be in a list already. `FramesFollowFeed` needs
`CopyOK` (a loop's copy has nobody twice, and the loop writes to its head) and
`FramesOK`: who is still in a loop's copy has not got the loop's message, so
the frame that ends a write comes after all others of its topic, also across
the restart that `Panic` is. The lemmas on `RemoveFirst`, `Append` and `Tail`
say what these do to a list that has nobody twice. `OwnInv` adds where things
come from: who is in a loop's copy watches the order of the loop's message,
frames are of the client's own order, and whoever is in a write that ran into
another one (`overlap`) is at a connection whose order another topic has had a
message of, also if the other write is over by now (`MetAnother`).
`TwoTopicsToDrop` follows: other steps close broken connections only, and a
`Panic` is at such a connection.

**`RateLimiterProofs`**. For `LimitKept` a counter is compared with two sets:
it is at least the requests let through in their own window for as long as
the window lasts (`LetThrough`), and at most the requests sent (`Sent`). The
first holds because a counter with an expiry outlives its window
(`Outlives`): EXPIRE comes no earlier than the request's own clock reading,
and lasts for a whole window; before EXPIRE there is no expiry at all. The
second gives that who is refused was preceded by as many as the limit. The
window length is a constant, so `WindowOf` and `BeforeItsEnd` say what
division by it does.

**Only model-checked.** Liveness (`EveryOrderGetsOutcome`, `KeyIsFreedAgain`,
`BacklogDrains`, `EveryMessageTried`, `EveryOrderEnds`, `RefusalIsShown`,
`HubGoesOn`, `CountersGo`, and the liveness half of `ImplementsFeed`) is out
of the prover's reach. Every invariant and every action property of the
passing runs is a theorem.

**Assumptions.** Those the theorems rest on, besides the ranges of the
constants: orders, SKUs and requests are finite sets (`FiniteAssumption`,
`SkusAssumption`, `RequestsAssumption`: a run of the program gets finitely
many), a feed is a sequence of order ids (`FeedAssumption`), no model value
that stands for "none" is a real one (`ConnsAssumption` and the like), an
order's outbox rows are committed together (`KeyAssumption`), and a request of
the rate limiter ends, with its window, before the clock of the model does
(`TimesAssumption`).

## What is not modelled

`GET` handlers and the proxy (they change nothing), process wiring and health
endpoints, tracing, and the deployment files. Message contents other than the
order, its lines and the event type are left out, as are prices. Hashes of
bodies are taken to be equal only for equal bodies. The hub's map keeps an
empty list for every order ever watched; the model has no bound to show that.

The Redis client sends a command again when its answer was lost. The models
send each once: a DEL sent again could remove a lock that another handler has
taken meanwhile (`KeyExclusive` would then fail), and an INCR sent again counts
one request twice, so that a customer is refused early.

`Pipeline` has topics that repeat but lose and reorder nothing, where `Outbox`
also drops messages and reorders those of a raced order: the status consumer's
divergence needs neither.
