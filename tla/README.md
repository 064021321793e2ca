# Verification of fastapi-websockets

This directory holds TLA+ models of fastapi-websockets, a library of *channel
layers* (per-channel inboxes and groups of channels over five backends) and of
WebSocket *consumers* built on them. TLC checks the models on small instances;
TLAPS proves the most important statements about them for every value of the
constants.

    tlc -config MCInMemory.cfg MCInMemory.tla       # one run; the list is below
    tlapm InMemory_proof.tla                        # one module of proofs

## 1. The system

| Component | State | Operations |
|---|---|---|
| Channel layer interface (`backends/base.py`) | none | `send`, `receive`, `new_channel`, `group_add`, `group_discard`, `group_send`, `close` |
| In-memory backend (`backends/inmemory.py`) | one `asyncio.Queue` per channel, a set of channels per group, `_closed` | all of the interface, in one event loop |
| Redis backend (`backends/redis.py`) | a Redis list and a set per name, with times to live; Pub/Sub; a lazy client | requests to Redis, several per operation |
| NATS backend (`backends/nats.py`) | a JetStream subject per channel, a key of a key-value bucket per group; cached subscriptions, a lazy client | publish and fetch; read-change-write with retries for groups |
| PostgreSQL backend (`backends/postgresql.py`) | rows for messages and members, `LISTEN/NOTIFY`, pruning of old rows, a lazy pool | SQL statements |
| RabbitMQ backend (`backends/rabbitmq.py`) | a queue per channel, an exchange per group; caches of what was declared; a lazy connection | AMQP requests |
| Consumer (`consumers.py`) | `_accepted`, `_closed`, `_joined_groups`, two pump tasks, an events queue | `__call__` with its loop, drain and finally block; the calls a user's hooks make |
| Configuration, serialization, messages (`config.py`, `serialization.py`, `messages.py`) | none | pure functions |

**How they interact.** A server calls a consumer for each websocket. The
consumer asks its layer for a channel name, starts two tasks (the *pumps*), one
reading frames from the websocket and one reading messages from the layer, and
dispatches what they put into one events queue to the user's hooks, one event at
a time. Hooks call the layer (`group_add`, `group_discard`, `send`,
`group_send`); another consumer's `group_send` ends up in this one's `receive`.
Consumers share a layer within a process, and processes share the backend.
Nothing is persisted by the library itself.

**What is hard.** Everything is interleaved at `await`s. In detail:

- In-memory: the protocol between a getter that was woken and has not run, a
  barging second getter, a timeout and a cancellation; a close that must end
  tasks blocked on queues that may be full.
- Consumer: three tasks and the user's code; a finally block of four parts, each
  of which may fail or be cancelled, and each of which must know the ones before
  it are over; group calls that take effect and then fail; a channel pump that
  fills the queue being drained.
- Redis: every operation is several commands, and a key's life, a notification
  and a blocking pop come in between them.
- NATS: read-change-write on a shared key under conflicts, lost answers and
  failing reads; a fan-out over a snapshot; messages that are handed out again
  when their acknowledgement fails or is late.
- PostgreSQL: two receivers that select one row, a notification that comes before
  the `LISTEN`, one lock that several tasks queue for and may be cancelled under,
  a pool whose connections are all held by listeners.
- NATS, PostgreSQL and RabbitMQ: check-then-await in the lazily made clients and
  in everything that is cached behind them, which two tasks may make at once, or
  one while `close()` runs.
- RabbitMQ: a cache of queues the broker may delete, an exchange that is set an
  await after the channel it belongs to, messages got and not yet acknowledged
  when a task, a channel or a connection ends, and acknowledgements that nothing
  answers and that may be cut off on their way.

**What makes each component correct.** A layer loses, duplicates and reorders
nothing within a channel (NATS and RabbitMQ may hand a message out again whose
acknowledgement did not arrive), never lets a task sleep beside a message, and ends its
waiters when closed. What a layer has made at its broker is gone when `close()` has
returned. Group calls of several processes do not undo one another,
and a fan-out reaches every channel that was a member throughout. A consumer
dispatches every event once and in order, only after the handshake; when it is
over its pumps are over, its groups are left, `disconnect()` has run once, and
the layer, if its own, is closed; and it does come to its end. `PROJECT.json`
lists the hazards line by line, each with the property that covers it or why none does.

## 2. The modules

| Module | What it is |
|---|---|
| `ChannelLayer` | abstract: what any layer promises. Inboxes are FIFO, groups are sets, a receive that waits beside a message returns |
| `InMemory`, `MCInMemory`, `InMemory_proof` | the in-memory layer on asyncio's queue protocol; implements `ChannelLayer` |
| `Consumer`, `MCConsumer`, `Consumer_proof` | one consumer from `__call__` to its end, with its client, its hooks and its layer |
| `GroupContract` | abstract: what the membership calls of one group promise to several processes |
| `NatsGroups`, `MCNatsGroups`, `NatsGroups_proof` | one NATS group; implements `GroupContract` |
| `NatsLayer`, `MCNatsLayer`, `NatsLayer_proof` | the channels and the client of a NATS layer, composed with `NatsGroups` |
| `AtMostOnce` | abstract: what becomes of each message in a backend that deletes it before it returns it |
| `RedisQueue`, `MCRedisQueue`, `RedisQueue_proof` | one Redis inbox and one group, with expiry, Pub/Sub and blocking pops; implements `AtMostOnce` |
| `Postgres`, `MCPostgres`, `Postgres_proof` | one PostgreSQL layer: rows, members, notifications, pruning and the pool; implements `AtMostOnce` |
| `RabbitMQ`, `MCRabbitMQ`, `RabbitMQ_proof` | one RabbitMQ layer: connection, AMQP channels, exchanges, queues, acknowledgements |

In the modules, an operator that precedes another of the same parameters and is
used nowhere (`GroupAddNoQueue`, `SkipAwait`, `AcceptsAny`, ...) is a *seeded
fault*: putting it in the other's place must break the property `PROJECT.json`
names with it. They are the evidence that the properties depend on the code.

### InMemory

`channels`, `groups`, `capacity` and `closed` are the object's fields. A queue is
split into `queue` (messages), `sentinel` (whether `_CLOSE_SENTINEL` is at its
end), `getters` (tasks asleep in `queue.get()`) and `ready` (tasks that were woken
and have not run). No operation suspends while it holds `_lock`, so each is one
action; `receive` alone is `Receive` (up to the await), `Resume` (the woken task
runs) and `Abandon` (timeout or cancellation, which hands its wake-up on). A
receive that takes the sentinel does not put it back. The protocol is the one of
asyncio since Python 3.12, where `wait_for` runs the getter in the caller's own
task. `log` and `got` are history: what a queue accepted and what `receive` returned. `Shared` names the
channels on which more than one task may wait, so that statements can tell the
consumer's use (one reader per channel) from the general one.

### Consumer

`pc` is the place of `__call__` in the code; `wsPump` and `chPump` are the states
of its tasks; `events` is the queue; `joined` is `_joined_groups`. A group call of
the layer is two steps, `CallApplies` and then `CallReturns` or `CallRaises`, and an
error or a cancellation may come before or after the first. `members` is the
truth at the layer, `joined` what the consumer believes; `torn` collects the
groups for which a call that failed left the two apart, so that the properties can
say "but for these". The hooks are the user's code: at each of their places they may
accept, close, join, leave, raise, find the client gone, or return, in any order
and number. Assumed of them: they end, they do not swallow a cancellation, they start
no tasks of their own, and `disconnect()` joins no group. Errors are of two
kinds, those `_is_expected_shutdown_error` knows and the others, and constants
say which parts may raise which, so that a run can be about one of them.
`closed` is set by `close()` in one step: what the websocket does meanwhile changes
nothing the consumer reads. `received`, `dispatched` and `drained` are history: `drained`
is set when the drain finds the queue empty, so that `DrainLeavesNothing` can say of every
later state what held there. `Accounting` counts positions of the queue and
compares the events at them instead of filtering the queue: that form can be proved.

### NatsGroups

One group (groups share no state). `revision` and `members` are the key in the
bucket; each caller walks through `get`, `write`, `answer` for the loop of
`_mutate_group_channels`, or `get`, `fan` for `group_send`. A request may fail:
a read that fails looks like a missing key (`blind` remembers it), a write may
fail before or after it was applied. The bucket accepts a write if its revision is
the one read. The fallbacks for a bucket without `create`, `update` or `delete` are
left out, since the NATS client has them. A caller of its own layer may `Close` it at
any moment. `stable` and `reached` are history, for the fan-out.

### NatsLayer

Tasks of one layer use its client, its JetStream context, its stream and its
subscriptions, which the first operation that needs them makes: `Connect`,
`AddStream` and `Subscribe` end the awaits in `_get_client`, `_ensure_stream` and
`_ensure_subscription`, and between them other tasks find what is there so far. A
failing `add_stream` is remembered as a success, as in the code. `box` is what may
be fetched, `limbo` what was fetched for nobody and is handed out again after
`ack_wait`, `done` what is acknowledged. The client does not wait for the server's
answer to an acknowledgement, so one that is lost on its way is noticed by nobody: `receive`
returns the message, and the server hands it out again (`AckLost`). `close` is a loop over
the dict of subscriptions with an await in it, so that an entry added meanwhile makes it
raise, `_closed` being set already. The callers of `NatsGroups` are tasks of other processes: their
`Publish` puts a message into the channel's subject, which is how the two modules meet. `mix` says which calls a
behaviour makes, so that one run is not the product of everything.

### RedisQueue

One inbox and one group, which the inbox's channel and others may be members
of. `send` is `Push`, `SendExpire` and `Publish`; `receive` is `Lpop`, a
subscription for one `get_message`, then `Blpop`, with an `EXPIRE` after each
successful pop; `group_add` is `SAdd` and `GroupExpire`; `group_send` is
`SMembers`, a send to each member found, and `GroupExpire`. Each is one
request; the others' requests, the keys' expiry, a failure, a lost answer and a
cancellation come in between. All settings of `use_pubsub`, `channel_expiry` and
`group_expiry` are initial states. What is external is how Redis and its
client behave: an empty list or set is no key; `get_message` returns None once it has
read the confirmation of its subscription.

### Postgres

One layer, its pool and its database. `pc` is each task's place: `connect`
(`create_pool`), `schema`, `lock` and the two deletes of a prune, then the
operation's own statements. A statement that waits for a connection is enabled only
while the pool has one (`using` counts those held). An `INSERT` is two steps,
because another's row with a later id may be committed first. `receive` is one statement that finds
the oldest row and deletes it; it is two steps, `Select` and `Delete`, since another's
statement may delete the row in between. Without a row follow `Listen` and the wait on the event, as in
`_wait_for_notification`, and the statement again. `stored` are the rows,
`stale` those older than `channel_expiry`, `lapsed` the members that expired. One clock is kept, the
prune interval: `due` says that it has passed. `Backlog` is what other processes
have left in the table. The end of a `poll_interval` before Python 3.11, where
`asyncio.TimeoutError` is not `TimeoutError`, makes `receive` raise (`PollRaises`).

Whether the tables exist at first (`tables`) is independent of whether the layer is to make
them (`makesTables`: a pool of its own, and `ensure_schema`). `_schema_ready` begins as true
for a supplied pool whatever `ensure_schema` says (line 51), so that on a fresh database
the statements of such a layer find no tables and raise (`NoTable`); `TablesBeforeUse` is
about layers that make the tables, and the others are exempt by name. All other properties are
checked and proved with and without tables; `WaitsForMessage` counts missing tables among the
reasons for which a receive ends. `_ensure_schema` is one step,
although its five statements take a connection each: nothing the layer does depends on the state in
between, and a failure of any of them is one of the step. A `prune_interval` of zero, which
turns pruning off, is not modelled.

### RabbitMQ

One layer and its broker. `conn`, `channel`, `exchange`, `queueOf` and `fanout` are the fields of the
object and its caches, each holding the number of the connection or AMQP channel it
was made on; `via` is what a task's request is under way on, which need not be the layer's
any more. `FromStart`, `WithChannel`, `WithQueue` and `Last` are the chain of `_get_channel`,
`_ensure_queue`, `_ensure_group_exchange` and the operation's own request, each of which
is skipped when the cache knows its result. A message got is in `mine` until it is
acknowledged; one whose task has failed meanwhile is in `stranded` until its
AMQP channel ends, and then back in the queue. `message.ack()` has no answer: `Ack` writes the
acknowledgement (`acks`) and returns the message, and `AckArrives` is its arrival at the broker. When the
AMQP channel is cut off in between (`ConnectionLost`, `NotFound`) the message is back in
its queue although it was returned, and `doubted` records it. A close that is answered has let
arrive what was written before it (`Settle`). Queues and messages may expire; a `get` or a `bind` of a queue that is
not there (404) ends the whole AMQP channel, with the requests and the unacknowledged messages of
all tasks on it (`NotFound`); a robust channel is opened again, which is left open. The
connection may be lost and is made again (`connect_robust`).

## 3. The runs

| Run | What it checks | Instance |
|---|---|---|
| `inmemory` | `TypeOK`, `NoLostWakeup`, `Accounting`, `CloseWakes`, `CloseUnblocks`, implements `ChannelLayer` with its liveness | 2 channels, 1 group, 2 receivers, 2 messages, capacities 0, 1, 2 |
| `consumer` | `TypeOK`, `Tracked`, `LeavesEveryGroup`, `Shutdown`, `AcceptedFirst`, `Accounting`, `DrainLeavesNothing`, `Ends` | 2 groups, 2 outside events, every hook may raise, the layer's calls fail in both ways |
| `nats` | of the groups `TypeOK`, `RoundsAccountedFor`, `StableMembersReached`, implements `GroupContract`; of the layer `LayerTypeOK`, `AtLeastOnce`, `LayerLeavesNothing` | three mixes: 3 callers on a group; 2 tasks that make their layer and use its channels, with nothing, a client or a JetStream context supplied; both. 2 channels, 3 calls, 2 rounds, 1 failing request; symmetric; 242,064 states |
| `redis` | `TypeOK`, `ExactlyOnePlace`, `NoImmortalKey`, `Delivered` | 2 senders, 2 receivers, 2 channels, 1 failure or expiry; four groups of mixes: inbox with all settings, group, both, close; 183,496 states |
| `postgres` | `TypeOK`, `ExactlyOnePlace`, `SendersInOrder`, `OnePruneAnInterval`, `TablesBeforeUse`, `PoolsEndWithLayer`, `FanOutReaches`, `WaitsForMessage`, `CallsEnd` | 2 tasks, 2 channels, a backlog of 2 rows, a pool of 1 connection, 2 calls, 1 failure, expiry or interval, with and without tables; 216,181 states |
| `rabbitmq` | `TypeOK`, `AtLeastOnce`, `ExchangeKnown`, `CachedIsBound`, `LayerLeavesNothing`, `CallsEnd` | 2 tasks, 1 channel, 3 calls, 1 failure, loss or expiry; 382,308 states |
| six runs that find a violation | one property each, see section 4 | the smallest that shows it |

**Bounds.** `MaxPuts`, `MaxEvents`, `MaxCalls`, `MaxFaults`, `MaxSends` and a mix's
`limit` bound what comes from outside; nothing inside the code is bounded. The in-memory bounds
allow a full queue with a sender refused, a woken task overtaken by
another, and a sentinel refused; two receivers on one channel are what a barging
needs. For the consumer, an outside event is a frame, a delivered message or a
cancellation; two of them let a message arrive during the drain of a leaving client, or
a cancellation fall into the finally block after another; two
groups let one discard of the cleanup fail and the next go on. With three callers two
writers meet in one round while a third reads, and with two rounds a call can give
up; eight rounds add nothing but repetitions, and the proofs hold for any
number. On Redis two receivers and two senders are enough for each command of one to
fall between any two of another. On PostgreSQL a pool of one connection is the
hardest case: a listener holds all of it; the backlog lets two receivers select
one row with another behind it at the first call. There `SendersInOrder` sees only rows of the backlog:
with two calls nobody sends twice and is received, and rows that are committed in another order than that of their ids
are left to its proof. On RabbitMQ and NATS two tasks are
enough to make everything twice, and a third call uses what they have left. The proofs remove the
bounds for the safety properties they are about (section 5).

**Deadlock** is not checked (`CHECK_DEADLOCK FALSE`) because each system may really
stop: a closed layer with nobody waiting, a consumer that has returned, callers
that have returned, a receive without timeout on a silent channel.

**Fairness.** `InMemory`: weak for a woken task, since the event loop runs every
ready callback. `Consumer`: weak for `__call__`'s own steps, the pumps and the
layer's answers (the loop runs ready tasks, the layer answers), and strong for the
return of a hook: a hook may make any number of calls, and while one of them is in
flight it cannot return, so only strong fairness says that the user's code
comes to an end. No fairness for what the client, the server's cancellation or
failures do. `RedisQueue`: weak for each task's next command, since Redis answers and the
loop runs the task. `Postgres`: strong for each task's steps, since whoever waits for a connection or for
the prune lock waits in a queue that asyncpg and asyncio serve in order, while the
step itself is enabled only when the connection or the lock is free; strong too for the end of a
timed receive, whose deadline passes while it goes round its loop; weak for `close`. `RabbitMQ`: weak for each
task's next request and for `close`, since the broker answers; none for the arrival of an acknowledgement. `NatsGroups` and `NatsLayer` have no fairness: nothing there is a liveness
property, as a call may lose every round to the others.

## 4. What the checks found

Each of these is a run that must end in a violation, and an entry under `findings`.

| Run | Property | What happens |
|---|---|---|
| `inmemory_close` | `CloseUnblocksEveryone` | `close` puts one sentinel into each queue: of two tasks that wait on one channel the second sleeps for ever |
| `inmemory_fanout` | `FansOutToAll` | `group_send` stops at the first full member and leaves the rest out |
| `consumer_cleanup` | `CleansUpAlways` | an unexpected error of a pump is raised in the finally block before the groups are left and `disconnect()` is called |
| `consumer_closecode` | `ReportsClientCode` | during the drain a send to the departed client overwrites the client's close code |
| `consumer_deaf` | `Hears` | a channel pump that died of a connection error is noticed by nobody; the consumer stays connected and deaf |
| `nats_discard` | `DiscardTakesEffect` | a failed read looks like an empty group: `group_discard` returns normally, the channel is still a member |

The passing properties state what holds beside these: for instance
`CloseWakes` and `CloseUnblocks` are about channels with one reader, which is how
the consumer uses them, and `Ends` excludes a websocket pump that died of an error.
What each of these promises does come to is proved:

| Promise | What holds of the code | Theorem |
|---|---|---|
| `CloseUnblocksEveryone` | who waits alone on a channel is woken and finds an item | `ClosedFindsCorrect` |
| `FansOutToAll` | a member is missed only if some missed member was full; none is where queues have no limit | `FansOutUnlessFullCorrect`, `FansOutWithoutLimit` |
| `CleansUpAlways` | groups stay joined only behind an error of a pump or of the clean-up itself; without such errors all are left | `CleansUpOtherwiseCorrect`, `CleansUpWithoutErrors` |
| `ReportsClientCode` | the close code is the client's, 1006 or none; none, once the client has left, only while its code is still on the wire or in the queue | `ReportsSomeCodeCorrect` |
| `Hears` | in the loop the channel pump runs unless the layer's `receive` raised, and the websocket pump unless it raised or its disconnect is in the queue | `HearsUnlessBrokenCorrect` |
| `DiscardTakesEffect` | a discard that returns and whose read was answered has removed the channel | `DiscardsIfReadCorrect` |

Other behaviour of the code that the models contain and the passing properties
name as exceptions; it has no run of its own:

- Two first operations each make a pool, a client, an AMQP channel or a
  subscription, and `close()` ends only the last of each (`raced` in `PoolsEndWithLayer` and in both
  `LayerLeavesNothing`; `postgresql.py` 177-190, `nats.py` 141-151 and 188-197, `rabbitmq.py` 139-157). An operation
  that awaits its client while `close()` runs connects all the same.
- `close()` that fails half-way leaves the rest open, and a second `close()`
  returns at once (`rabbitmq.py` 130-137, `nats.py` 120-139); on NATS a `receive` that adds
  a subscription meanwhile is enough.
- On RabbitMQ a first use that fails between the AMQP channel and the exchange
  leaves the layer without an exchange for ever (`broken` in `ExchangeKnown`), a
  late answer to `get` makes `receive` raise `ChannelLayerClosed` on an open layer, and
  an expired queue stays in the cache (`expired` in `CachedIsBound`).
- On RabbitMQ a message whose acknowledgement is cut off on its way is received again
  (`doubted` in `AtLeastOnce`; `rabbitmq.py` 95), and on NATS likewise (`nats.py` 91-93).
- On PostgreSQL a supplied pool on a fresh database finds no tables, also with the default
  `ensure_schema=True` (`makesTables` in `TablesBeforeUse`; `postgresql.py` 51).
- On NATS a failed `add_stream` is remembered as a success.
- On PostgreSQL before Python 3.11 the end of a `poll_interval` makes `receive` raise
  (`pc[t] = "wait"` in `WaitsForMessage`; the package admits Python 3.9).

## 5. The proofs

All proofs are checked to the last leaf by TLAPS, for arbitrary constants under
the assumptions named in the modules: naturals for bounds, integers
for capacities, close codes other than 0 (which stands for a frame, and which no websocket
may use; `NoCode` is no close code), a finite set of
receivers, a finite set of channel names (for `NatsLayer`, whose `close` counts subscriptions), at
least one round. Leaves use Z3 and Zenon, temporal steps LS4.

- `InMemory_proof`: `TypeCorrect`; `NothingLost` (`Accounting`, which is
  inductive together with the types; the work is in lemmas about `Append`, `Tail` and
  concatenation); `NoLostWakeupCorrect` and `CloseWakesCorrect`, from the inductive
  `WakeInv`: while somebody sleeps there are as many woken tasks as items. A
  task that gives up takes one of the woken away without an item and must therefore pass the wake-up on; a
  task that barges in takes an item and leaves its wake-up: both keep the
  inequality. `Refines`: each step is a step of `ChannelLayer` or none. From the same
  invariant: `BoundedCorrect` (no queue exceeds its capacity, the sentinel included) and
  `ClosedFindsCorrect`; and per step, `FansOutUnlessFullCorrect`.
- `Consumer_proof`: `TypeCorrect`; `TrackedCorrect` and `LeavesEveryGroupCorrect`,
  from `BooksInv`. The two are not inductive: that every group is left needs that
  what remains of the cleanup's tuple covers what is still joined, and that only
  discards are in flight from there on. `ShutdownCorrect`, from `ControlInv`: each place
  behind an `await task` knows that pump to be over. `AcceptedFirstCorrect`, from
  `AcceptInv`: the loop is entered accepted or closed. `AccountingCorrect`: the steps are
  classified by what they move between the wire, the inbox, the queue and what was dispatched
  (`StepMoves`), and each move keeps the order of the messages and the count of the
  frames, both stated element by element; the counts are cardinalities of sets of positions, and
  lemmas say what `Tail` and `Append` do to them. `DrainLeavesNothingCorrect`, from `DrainInv`: from
  the drain on the websocket pump, if it lives, is being cancelled and puts nothing more, and
  when the queue was found empty both pumps are over before anybody looks again.
  `EndInv` adds which pumps live at which place and what an exception was raised by, and
  `CodeInv` where the client's code is; from them `NeverStuckCorrect`, the safety part of
  `Ends` (at each place of `__call__` what it awaits is there or under way), and the theorems of section 4.
- `NatsGroups_proof`: `TypeCorrect` (never a ninth round); `RoundsCorrect`, from
  `RoundsInv`: a caller whose write would be refused already has one
  write or failure more on its account than it has rounds behind it;
  `StableMembersCorrect` and `ContractImplemented`, from `ViewInv`: what a caller has
  seen is the key as it is, or the revision it will ask for is no longer
  current. The refinement mapping `Phase` gives each caller the phase of its call;
  a blind discard is mapped to one that raised, the weakest reading of it;
  `DiscardsIfReadCorrect` says what the others have done.
- `RedisQueue_proof`: `TypeCorrect`; `NoImmortalKeyCorrect`, whose half about the
  group needs a stronger statement: only the `EXPIRE` of a `group_add` accounts for a
  set without a life, as that of a `group_send` may fail unnoticed; `OnePlaceCorrect`,
  from `Scattered` (every message in one place) and `Order` (what is queued is newer than
  all that was popped). The steps are first classified by what they move (`StepMoves`: a
  push, a pop and its return, messages lost in four ways, nothing), and the invariant is
  then proved per move. `ComesNearerCorrect`: `Distance` counts the steps from a receive to its
  return; beside a message each of its steps makes it smaller and nobody's makes it greater.
- `Postgres_proof`: the inductive `IInv` has a part for each concern, and places and
  connections (`PlaceTypes`, `HeldTypes`) are under all of them.
  `RowInv` gives `OnePlaceCorrect` and `SendersInOrderCorrect`: its `InOrder` says that what a
  receiver has found or returned is older than any unexpired row still stored of that
  sender and channel, which holds because a sender inserts again only when its last row
  is committed or lost, and because a receiver selects the oldest. `LockTypes` (only the holder
  prunes, and only while a prune is due) gives `OnePruneCorrect`; `TablesInv` gives
  `TablesCorrect`; `CloseInv` (unless two tasks raced there is one pool at most, made
  before the layer is closed) gives `PoolsEndCorrect`; `FanInv` (a member that stayed was
  reached, is being reached or is still to do) gives `FanOutCorrect`. `WaitsCorrect` is
  proved of every step from the same invariant. `CallsGoOnCorrect`: who holds a connection
  waits for nothing, who holds the lock only for a connection, so there is no circle.
- `RabbitMQ_proof`: again one `IInv` of parts, each kept by the moves a step may make.
  `ExchangeKnownCorrect` rests on `KeyInv`: an AMQP channel that others may find has its
  exchange, or somebody is declaring it and is answered first, or that failed, or the
  AMQP channel has ended. `CachedIsBoundCorrect` needs that a queue about to be bound
  is there (`TopologyInv`), since a queue in use does not expire. `AtLeastOnceCorrect` is `Scattered`, one message
  at a time: in the queue, in a hand, with nobody or under acknowledgement, in one of these only, and returned
  or lost besides only if its acknowledgement is under way or was cut off. `SettledForGoodCorrect`, of every step from the
  same: a message comes back only from a hand, from nobody or from an acknowledgement under way. `HeldAlive` says that what is in a hand or with nobody was got on an AMQP
  channel that is alive, so that the end of one requeues exactly what was got on it. From the same
  and `Lone` (unless two tasks raced there is one connection and one AMQP channel at
  most, opened before the layer is closed) follows `LeavesNothingCorrect`. `CallsGoOnCorrect` adds that
  an AMQP channel's exchange is declared by one task (`OneDeclares`), for whom nobody else is answered first.
- `NatsLayer_proof`: a step of the composition is one of `NatsGroups` or touches its
  bounds at most (`LayerGroups`), so that `RoundsInv` and `ViewInv` are kept and
  `LayerGroupsCorrect` and `LayerImplementsContract` follow for the whole. For the layer itself
  `LayerInv` adds what each place of a task implies (`PlaceTypes`, `MadeTypes`).
  `AtLeastOnceCorrect` is `Scattered`, one message at a time: it is in the box, in limbo, in a
  hand or acknowledged, in one of these only while nobody doubted it, and acknowledged
  only if it was returned or is in doubt; each of the ways a step may move it keeps that.
  `LayerLeavesNothingCorrect` is from `CloseInv`: unless two tasks raced there is one
  client at most, and each subscription is in the dict until close() has ended it, whose size
  is then the one the loop began with.

`AtMostOnce` is the contract Redis and PostgreSQL have in common, and
`ImplementsAtMostOnceCorrect` in their proof modules shows it: a step of the layer accepts
messages, returns one that is outstanding, loses some that are, or does none of these.
`ExactlyOnePlace` says of each state where every message is; the contract says of the
steps that no message comes back, also none that was lost. The mapping takes
what each model records as returned and lost; a message that was popped or selected
and is not yet returned is still outstanding. The moves that
the invariants were proved by (`StepMoves`, `StepRows`) map
to one action each. NATS and RabbitMQ do not implement it: they return a message again when its
acknowledgement is in doubt, which `AtLeastOnce` bounds for both; on RabbitMQ `SettledForGoodCorrect`
adds that what the broker has deleted never comes back.

**Only model-checked**: liveness (`CloseUnblocks`, `Ends`, `Delivered`, both
`CallsEnd`, the fairness of `ChannelLayer`), which is beyond the prover. What each of them needs of the code
beside fairness is proved: that whoever has something to wait for finds it, or waits for one who
can go on, and that no step leads back (`ClosedFindsCorrect`, `NeverStuckCorrect`,
`ComesNearerCorrect`, both `CallsGoOnCorrect`; that their `GoesOn` implies an enabled step was
checked with TLC). Every other property of a passing run is a theorem.
`ImplementsAtMostOnce` and `SettledForGood` are no properties of a run; TLC found them to hold on the runs' instances before they were proved.

## 6. Not modelled

- `AsyncJsonWebSocketConsumer`: decodes a frame before its own hook, no state.
- `config.py`: parsing of settings into one constructor call: sequential, pure but for
  reading the environment, and about wording and formats, which a model would only
  transcribe. It is the largest part of the source the models leave out.
- `serialization.py`, `messages.py`: pure functions on contents; payloads are
  numbers or model values here.
- Name validation and optional-dependency errors: raised before any state
  changes.
- The subject and durable names NATS derives from channel names (two names that
  differ in a dot and an underscore share an inbox): names are model values.
- Fallbacks for clients without a method the supported ones have: a NATS bucket
  without `create` or `update`, a PostgreSQL pool without `acquire` or
  connections without listeners.
- An unexpected error of a layer's `receive` in the moment its pump is cancelled: a cancelled pump ends as
  cancelled.
- A `prune_interval` of zero or less (PostgreSQL).
- The handle on the NATS bucket, which two tasks may open twice to the same effect, and the Redis client,
  which is made without an await.
- Clocks: a timeout may occur at any moment of a wait, and how long a wait takes
  is not measured. So that `receive` on Redis may wait twice its timeout is listed as a
  hazard and has no property.
- Memory: queues that are created for every name ever used, and the consumer's
  unbounded events queue.

## 7. Plan

Done: the abstract layer and the abstract group, all five backends, the consumer,
and the proofs above. What is left:

1. A composition of consumers with the abstract layer: two consumers and a group,
   where a message sent to the group by one is dispatched by the other, using only
   what `ChannelLayer` promises.
2. `AtMostOnce` extended by groups and by the order a backend keeps (PostgreSQL each sender's, Redis that of the
   list), as far as `ChannelLayer` goes for the in-memory layer, and an abstract counterpart for NATS and RabbitMQ, which may
   deliver again.
