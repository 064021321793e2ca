------------------------------ MODULE RabbitMQ ------------------------------
(***************************************************************************)
(* RabbitMQChannelLayer (backends/rabbitmq.py): a queue per channel, bound *)
(* to one direct exchange, and a fanout exchange per group.  Connection,   *)
(* AMQP channel, exchanges and queues are made by the first operation that *)
(* needs them and kept for ever; every await in between is a place where   *)
(* other tasks of the layer run.  Groups share nothing, so there is one.   *)
(*                                                                         *)
(* RabbitMQ and aio_pika are external.  An AMQP channel answers requests   *)
(* in the order in which they were made.  A message that was got is in     *)
(* nobody else's reach until its acknowledgement is at the broker, or its  *)
(* AMQP channel ends: then it is back at its place in the queue.  An       *)
(* acknowledgement has no answer.  A request that names a queue that is    *)
(* not there (404) ends the whole AMQP channel.  A queue that is not used  *)
(* for queue_expiry is deleted with its bindings; to publish is not to use *)
(* it.  A message that no queue is bound for is dropped, and publish       *)
(* returns.                                                                *)
(*                                                                         *)
(* (An operator that stands before one of the same parameters and is used  *)
(* nowhere is a seeded fault.)                                             *)
(***************************************************************************)
EXTENDS Integers, Sequences, FiniteSets

CONSTANTS
    Tasks,      \* tasks that call the layer
    Channels,   \* channel names
    Uses,       \* Uses[t]: the calls task t makes, pairs of an operation and a channel
    Timed,      \* tasks whose receives have a timeout
    MaxCalls,   \* bound on the number of calls
    MaxEvents   \* bound on failures, cancellations, losses and expiries

ASSUME ChannelsAssumption == Channels # {}
ASSUME UsesAssumption ==
    Uses \in [Tasks -> SUBSET ({"send", "receive", "add", "discard", "fan"} \X Channels)]
ASSUME TimedAssumption == Timed \subseteq Tasks
ASSUME BoundsAssumption == MaxCalls \in Nat /\ MaxEvents \in Nat

VARIABLES
    owns,       \* self._owns_connection
    conn,       \* self._connection: numbered as they are made, 0 is None
    channel,    \* self._channel: likewise
    exchange,   \* self._exchange: the AMQP channel it was declared on, 0 is None
    queueOf,    \* self._declared_queues: likewise, for each channel
    fanout,     \* self._group_exchanges: likewise, for the group
    closed,     \* self._closed
    closer,     \* where close() is
    conns,      \* number of connections made
    amqp,       \* amqp[n]: the connection of AMQP channel n
    endedConns, endedChans,
    queues,     \* the queues there are
    bound,      \* those bound to the direct exchange
    joined,     \* those bound to the group's exchange
    box,        \* box[c]: the messages in the queue, numbered as they are published
    published,  \* number of messages published
    stranded,   \* unacknowledged messages nobody will acknowledge
    acks,       \* acknowledgements that are written and not yet at the broker
    pc, op, chan, \* each task's place, its operation and the channel it is at
    via,        \* the connection or AMQP channel the task's request was made on
    mine,       \* the message the task has got and not acknowledged, 0 for none
    calls, events,
    arrived,    \* history: arrived[c], the messages that came into c's queue
    got,        \* history: got[t], the messages receive returned to t
    lost,       \* history: messages acknowledged in vain or expired
    doubted,    \* history: messages whose acknowledgement did not reach the broker
    expired,    \* history: channels whose queue was deleted
    raced,      \* history: two tasks opened an AMQP channel at once, or one while closing
    broken      \* history: a first use failed between the AMQP channel and the exchange

cacheVars == <<conn, channel, exchange, queueOf, fanout>>
madeVars == <<conns, amqp>>
closeVars == <<closed, closer, endedConns, endedChans>>
topologyVars == <<queues, bound, joined>>
messageVars == <<box, published, stranded, acks, arrived, lost, doubted>>
ackVars == <<acks, doubted>>
taskVars == <<pc, op, chan, via, mine>>
raceVars == <<raced, broken>>
vars == <<owns, cacheVars, madeVars, closeVars, topologyVars, messageVars, taskVars,
          calls, events, got, expired, raceVars>>

Operations == {"none", "send", "receive", "add", "discard", "fan"}
Places == {"idle", "connect", "open", "exchange", "declare", "bind", "fanout",
           "publish", "get", "ack", "join", "leave", "publishGroup"}

Init ==
    /\ \/ owns = FALSE /\ conn = 1 /\ conns = 1     \* a connection was supplied
       \/ owns = TRUE /\ conn = 0 /\ conns = 0
    /\ channel = 0 /\ exchange = 0 /\ fanout = 0 /\ queueOf = [c \in Channels |-> 0]
    /\ amqp = <<>>
    /\ closed = FALSE /\ closer = "open" /\ endedConns = {} /\ endedChans = {}
    /\ queues = {} /\ bound = {} /\ joined = {}
    /\ box = [c \in Channels |-> {}] /\ arrived = [c \in Channels |-> {}]
    /\ published = 0 /\ stranded = {} /\ lost = {} /\ expired = {}
    /\ acks = {} /\ doubted = {}
    /\ pc = [t \in Tasks |-> "idle"] /\ op = [t \in Tasks |-> "none"]
    /\ chan = [t \in Tasks |-> CHOOSE c \in Channels : TRUE]
    /\ via = [t \in Tasks |-> 0] /\ mine = [t \in Tasks |-> 0]
    /\ got = [t \in Tasks |-> {}]
    /\ calls = 0 /\ events = 0 /\ raced = FALSE /\ broken = FALSE

-----------------------------------------------------------------------------
(* The last request of an operation, behind what it has to ensure.         *)
Last(o) == CASE o = "send" -> "publish"
             [] o = "receive" -> "get"
             [] o = "add" -> "join"
             [] o = "discard" -> "leave"
             [] o = "fan" -> "publishGroup"

(* _ensure_group_exchange and _ensure_queue: ask the cache, then declare.  *)
WithQueue(o) ==
    IF o \in {"add", "discard", "fan"} /\ fanout = 0 THEN "fanout" ELSE Last(o)
WithChannel(o, c) ==
    IF o # "fan" /\ queueOf[c] = 0 THEN "declare" ELSE WithQueue(o)
(* _get_channel and _get_connection.                                       *)
FromStart(o, c) ==
    IF channel # 0 THEN WithChannel(o, c) ELSE IF conn # 0 THEN "open" ELSE "connect"

Goes(t, place) == pc' = [pc EXCEPT ![t] = place]
At(t, place, next) == pc[t] = place /\ Goes(t, next)
On(t, n) == via' = [via EXCEPT ![t] = n]

(* What the request a task makes next is made on: the layer's connection   *)
(* or AMQP channel, or that of the cached exchange or queue.               *)
Target(t) ==
    CASE pc[t] = "open" -> conn
      [] pc[t] \in {"declare", "fanout"} -> channel
      [] pc[t] = "publish" -> exchange
      [] pc[t] = "publishGroup" -> fanout
      [] pc[t] \in {"get", "join", "leave"} -> queueOf[chan[t]]
      [] OTHER -> 0
Requests(t) == On(t, Target(t)')

(* The call is over, with or without an exception.                         *)
Held(t) == mine
LetGo(t) == [mine EXCEPT ![t] = 0]
Returns(t) ==
    /\ Goes(t, "idle")
    /\ op' = [op EXCEPT ![t] = "none"]
    /\ On(t, 0)
    /\ mine' = LetGo(t)
    /\ UNCHANGED chan

(* AMQP channel n is open.                                                 *)
Alive(n) == n \in DOMAIN amqp /\ n \notin endedChans /\ amqp[n] \notin endedConns

(* A request is answered behind the declaration of the exchange, which is  *)
(* the first request of every AMQP channel.                                *)
Answered(t) ==
    /\ Alive(via[t])
    /\ \A u \in Tasks \ {t} : ~(pc[u] = "exchange" /\ via[u] = via[t])

(***************************************************************************)
(* Calls.  A call on a closed layer raises and changes nothing.            *)
(***************************************************************************)
Opening == \E u \in Tasks : pc[u] \in {"connect", "open"}
Begin(t, o, c) ==
    /\ pc[t] = "idle" /\ ~closed
    /\ calls < MaxCalls /\ calls' = calls + 1
    /\ op' = [op EXCEPT ![t] = o]
    /\ chan' = [chan EXCEPT ![t] = c]
    /\ Goes(t, FromStart(o, c))
    /\ raced' = (raced \/ (channel = 0 /\ Opening))
    /\ UNCHANGED <<owns, cacheVars, madeVars, closeVars, topologyVars, messageVars, mine,
                   events, got, expired, broken>>
    /\ Requests(t)
Call(t) == \E use \in Uses[t] : Begin(t, use[1], use[2])

Connect(t) ==
    /\ At(t, "connect", "open")
    /\ conns' = conns + 1 /\ conn' = conns + 1
    /\ On(t, conns + 1)
    /\ UNCHANGED <<owns, channel, exchange, queueOf, fanout, amqp, closeVars, topologyVars,
                   messageVars, op, chan, mine, calls, events, got, expired, raceVars>>

(* connection.channel() has returned; the exchange is declared next.       *)
OpenChannel(t) ==
    /\ via[t] \notin endedConns
    /\ At(t, "open", "exchange")
    /\ amqp' = Append(amqp, via[t])
    /\ channel' = Len(amqp) + 1
    /\ On(t, Len(amqp) + 1)
    /\ UNCHANGED <<owns, conn, exchange, queueOf, fanout, conns, closeVars, topologyVars,
                   messageVars, op, chan, mine, calls, events, got, expired, raceVars>>

NotKept(t) == exchange
Declared(t) == via[t]
DeclareExchange(t) ==
    /\ Answered(t)
    /\ At(t, "exchange", WithChannel(op[t], chan[t]))
    /\ exchange' = Declared(t)
    /\ UNCHANGED <<owns, conn, channel, queueOf, fanout, madeVars, closeVars, topologyVars,
                   messageVars, op, chan, mine, calls, events, got, expired, raceVars>>
    /\ Requests(t)

(* The queue is remembered when it is bound, and not before.               *)
Unbound(t) == [queueOf EXCEPT ![chan[t]] = via[t]]
NotYet(t) == queueOf
DeclareQueue(t) ==
    /\ Answered(t)
    /\ At(t, "declare", "bind")
    /\ queues' = queues \cup {chan[t]}
    /\ queueOf' = NotYet(t)
    /\ UNCHANGED <<owns, conn, channel, exchange, fanout, madeVars, closeVars, bound, joined,
                   messageVars, op, chan, via, mine, calls, events, got, expired, raceVars>>

Bind(t) ==
    /\ exchange # 0 /\ Answered(t)
    /\ At(t, "bind", WithQueue(op[t]))
    /\ bound' = bound \cup {chan[t]}
    /\ queueOf' = [queueOf EXCEPT ![chan[t]] = via[t]]
    /\ UNCHANGED <<owns, conn, channel, exchange, fanout, madeVars, closeVars, queues, joined,
                   messageVars, op, chan, mine, calls, events, got, expired, raceVars>>
    /\ Requests(t)

DeclareFanout(t) ==
    /\ Answered(t)
    /\ At(t, "fanout", Last(op[t]))
    /\ fanout' = via[t]
    /\ UNCHANGED <<owns, conn, channel, exchange, queueOf, madeVars, closeVars, topologyVars,
                   messageVars, op, chan, mine, calls, events, got, expired, raceVars>>
    /\ Requests(t)

(***************************************************************************)
(* send and group_send: the broker puts the message into the queues that   *)
(* are bound, all at once.                                                 *)
(***************************************************************************)
Deliver(cs) ==
    /\ published' = published + 1
    /\ box' = [c \in Channels |-> box[c] \cup IF c \in cs THEN {published + 1} ELSE {}]
    /\ arrived' =
          [c \in Channels |-> arrived[c] \cup IF c \in cs THEN {published + 1} ELSE {}]

Publish(t) ==
    /\ pc[t] = "publish" /\ Answered(t)
    /\ Deliver(bound \cap {chan[t]})
    /\ Returns(t)
    /\ UNCHANGED <<owns, cacheVars, madeVars, closeVars, topologyVars, stranded, ackVars, lost,
                   calls, events, got, expired, raceVars>>

PublishGroup(t) ==
    /\ pc[t] = "publishGroup" /\ Answered(t)
    /\ Deliver(joined)
    /\ Returns(t)
    /\ UNCHANGED <<owns, cacheVars, madeVars, closeVars, topologyVars, stranded, ackVars, lost,
                   calls, events, got, expired, raceVars>>

(***************************************************************************)
(* receive: get every poll_interval until there is a message, acknowledge  *)
(* it, return it.  A get that finds none and is repeated changes nothing.  *)
(***************************************************************************)
First(c) == CHOOSE i \in box[c] : \A j \in box[c] : i <= j
Copied(c) == box
Taken(c) == [box EXCEPT ![c] = @ \ {First(c)}]
Get(t) ==
    /\ box[chan[t]] # {} /\ Answered(t)
    /\ At(t, "get", "ack")
    /\ box' = Taken(chan[t])
    /\ mine' = [mine EXCEPT ![t] = First(chan[t])]
    /\ UNCHANGED <<owns, cacheVars, madeVars, closeVars, topologyVars, published, stranded,
                   ackVars, arrived, lost, op, chan, via, calls, events, got, expired, raceVars>>

(* message.ack() returns when the acknowledgement is written; so does      *)
(* receive.                                                                *)
Mine(t) == [chan |-> chan[t], id |-> mine[t], on |-> via[t]]
NeverAcknowledges(t) == stranded' = stranded \cup {Mine(t)} /\ acks' = acks
Acknowledges(t) == acks' = acks \cup {Mine(t)} /\ stranded' = stranded
Ack(t) ==
    /\ pc[t] = "ack" /\ mine[t] # 0 /\ Alive(via[t])
    /\ got' = [got EXCEPT ![t] = @ \cup {<<chan[t], mine[t]>>}]
    /\ Acknowledges(t)
    /\ Returns(t)
    /\ UNCHANGED <<owns, cacheVars, madeVars, closeVars, topologyVars, box, published, arrived,
                   lost, doubted, calls, events, expired, raceVars>>

(* The acknowledgement is at the broker, which deletes the message.        *)
AckArrives(m) ==
    /\ acks' = acks \ {m}
    /\ UNCHANGED <<owns, cacheVars, madeVars, closeVars, topologyVars, box, published,
                   stranded, arrived, lost, doubted, taskVars, calls, events, got, expired,
                   raceVars>>

(* TimeoutError: the deadline is past, whether messages wait or not.       *)
NeverLate(t) == FALSE
Late(t) == t \in Timed
GivesUp(t) ==
    /\ pc[t] = "get" /\ Late(t)
    /\ Returns(t)
    /\ UNCHANGED <<owns, cacheVars, madeVars, closeVars, topologyVars, messageVars, calls,
                   events, got, expired, raceVars>>

(***************************************************************************)
(* group_add and group_discard                                             *)
(***************************************************************************)
Join(t) ==
    /\ pc[t] = "join" /\ chan[t] \in queues /\ Answered(t)
    /\ joined' = joined \cup {chan[t]}
    /\ Returns(t)
    /\ UNCHANGED <<owns, cacheVars, madeVars, closeVars, queues, bound, messageVars, calls,
                   events, got, expired, raceVars>>

Leave(t) ==
    /\ pc[t] = "leave" /\ Answered(t)
    /\ joined' = joined \ {chan[t]}
    /\ Returns(t)
    /\ UNCHANGED <<owns, cacheVars, madeVars, closeVars, queues, bound, messageVars, calls,
                   events, got, expired, raceVars>>

(***************************************************************************)
(* close: first the AMQP channel, then a connection of the layer's own.    *)
(***************************************************************************)
(* Of what was got on the AMQP channels ns, that which is not acknowledged *)
(* is back in its queue, and so are the messages whose acknowledgements    *)
(* are void.                                                               *)
Holding(ns) == {t \in Tasks : pc[t] = "ack" /\ mine[t] # 0 /\ via[t] \in ns}
Requeue(ns, void) ==
    /\ box' = [c \in Channels |->
                  box[c] \cup {mine[t] : t \in {u \in Holding(ns) : chan[u] = c}}
                         \cup {m.id : m \in {n \in stranded : n.chan = c /\ n.on \in ns}}
                         \cup {m.id : m \in {n \in void : n.chan = c}}]
    /\ mine' = [t \in Tasks |-> IF t \in Holding(ns) THEN 0 ELSE mine[t]]
    /\ stranded' = {m \in stranded : m.on \notin ns}
    /\ doubted' = doubted \cup {<<m.chan, m.id>> : m \in void}

(* What was written on an AMQP channel before it is closed is at the       *)
(* broker when the close is answered.                                      *)
Settle(ns) == acks' = {m \in acks : m.on \notin ns}

ClosesNoConnection == "done"
NextToClose == IF conn # 0 /\ owns THEN "connection" ELSE "done"
Shuts == {channel} \ {0}
Close ==
    /\ ~closed /\ closed' = TRUE
    /\ closer' = IF channel # 0 THEN "channel" ELSE NextToClose
    /\ endedChans' = endedChans \cup Shuts
    /\ Requeue(Shuts, {})
    /\ raced' = (raced \/ Opening)
    /\ UNCHANGED <<owns, cacheVars, madeVars, endedConns, topologyVars, published, acks, arrived,
                   lost, pc, op, chan, via, calls, events, got, expired, broken>>

ChannelClosed ==
    /\ closer = "channel" /\ closer' = NextToClose
    /\ Settle(Shuts)
    /\ UNCHANGED <<owns, cacheVars, madeVars, closed, endedConns, endedChans, topologyVars,
                   box, published, stranded, arrived, lost, doubted, taskVars, calls, events,
                   got, expired, raceVars>>

ConnectionClosed ==
    LET ns == {n \in DOMAIN amqp : amqp[n] = conn} IN
    /\ closer = "connection" /\ closer' = "done"
    /\ endedConns' = endedConns \cup {conn}
    /\ Requeue(ns, {}) /\ Settle(ns)
    /\ UNCHANGED <<owns, cacheVars, madeVars, closed, endedChans, topologyVars, published,
                   arrived, lost, pc, op, chan, via, calls, events, got, expired,
                   raceVars>>

(***************************************************************************)
(* Failures                                                                *)
(***************************************************************************)
(* The call raises: its AMQP channel, its request or its message is gone,  *)
(* or it binds to an exchange that is None.                                *)
Refused(t) ==
    /\ \/ pc[t] = "open" /\ via[t] \in endedConns
       \/ pc[t] \notin {"idle", "connect", "open"} /\ ~Alive(via[t])
       \/ pc[t] = "bind" /\ exchange = 0
       \/ pc[t] = "ack" /\ mine[t] = 0
    /\ Returns(t)
    /\ UNCHANGED <<owns, cacheVars, madeVars, closeVars, topologyVars, messageVars, calls,
                   events, got, expired, raceVars>>

(* The AMQP channels ns are cut off: what is not acknowledged at the       *)
(* broker is back in its queue, and the requests under way fail: they are  *)
(* made on nothing any more.  A get that is between two polls goes on.     *)
(* The first AMQP channel is kept without its exchange.                    *)
CutOff(ns, cut) ==
    LET void == {m \in acks : m.on \in ns} IN
    /\ Requeue(ns, void) /\ Settle(ns)
    /\ via' = [u \in Tasks |-> IF u \in cut THEN 0 ELSE via[u]]
    /\ broken' = (broken \/ (exchange = 0 /\ \E u \in cut : pc[u] = "exchange"))
Asking(ns) == {u \in Tasks : pc[u] \notin {"idle", "connect", "open"} /\ via[u] \in ns}
Polling == {u \in Tasks : pc[u] = "get"}

(* The queue of a get or a bind is not there (404): RabbitMQ ends the AMQP *)
(* channel.  A robust one is opened again, another stays closed.           *)
NotFound(t) ==
    /\ pc[t] \in {"get", "join"} /\ chan[t] \notin queues /\ Answered(t)
    /\ \E on \in SUBSET (Polling \ {t}) : CutOff({via[t]}, Asking({via[t]}) \ on)
    /\ endedChans' \in {endedChans, endedChans \cup {via[t]}}
    /\ UNCHANGED <<owns, cacheVars, madeVars, closed, closer, endedConns, topologyVars,
                   published, arrived, lost, pc, op, chan, calls, events, got, expired, raced>>

Event == events < MaxEvents /\ events' = events + 1

(* The request fails, or the task is cancelled.  What it has got and not   *)
(* acknowledged stays with the AMQP channel; the first AMQP channel is     *)
(* kept without its exchange.                                              *)
Strand(t) ==
    stranded' = stranded \cup IF mine[t] = 0 THEN {} ELSE {Mine(t)}
Fails(t) ==
    /\ Event /\ pc[t] # "idle"
    /\ Strand(t)
    /\ broken' = (broken \/ (pc[t] = "exchange" /\ exchange = 0))
    /\ Returns(t)
    /\ UNCHANGED <<owns, cacheVars, madeVars, closeVars, topologyVars, box, published, ackVars,
                   arrived, lost, calls, got, expired, raced>>

(* A get is answered after its timeout of wait_for, or to a task that was  *)
(* cancelled.  (A TimeoutError of get is an OSError for                    *)
(* _is_expected_receive_shutdown_error: receive raises ChannelLayerClosed.)*)
GetUnanswered(t) ==
    /\ Event /\ pc[t] = "get" /\ box[chan[t]] # {} /\ Answered(t)
    /\ box' = Taken(chan[t])
    /\ stranded' = stranded \cup
          {[chan |-> chan[t], id |-> First(chan[t]), on |-> via[t]]}
    /\ Returns(t)
    /\ UNCHANGED <<owns, cacheVars, madeVars, closeVars, topologyVars, published, ackVars,
                   arrived, lost, calls, got, expired, raceVars>>

(* The acknowledgement is written, and receive raises: the task is         *)
(* cancelled, or the message cannot be decoded.                            *)
AckInVain(t) ==
    /\ Event /\ pc[t] = "ack" /\ mine[t] # 0 /\ Alive(via[t])
    /\ lost' = lost \cup {<<chan[t], mine[t]>>}
    /\ Acknowledges(t)
    /\ Returns(t)
    /\ UNCHANGED <<owns, cacheVars, madeVars, closeVars, topologyVars, box, published,
                   arrived, doubted, calls, got, expired, raceVars>>

(* close() raises or is cancelled: a second close() returns at once.       *)
CloseFails ==
    /\ Event /\ closer \in {"channel", "connection"} /\ closer' = "failed"
    /\ UNCHANGED <<owns, cacheVars, madeVars, closed, endedConns, endedChans, topologyVars,
                   messageVars, taskVars, calls, got, expired, raceVars>>

(* The connection is lost; connect_robust makes it again.                  *)
ConnectionLost ==
    /\ Event
    /\ \E on \in SUBSET Polling : CutOff(DOMAIN amqp, Asking(DOMAIN amqp) \ on)
    /\ UNCHANGED <<owns, cacheVars, madeVars, closeVars, topologyVars, published, arrived,
                   lost, pc, op, chan, calls, got, expired, raced>>

(* message_ttl                                                             *)
MessageExpires(c) ==
    /\ Event /\ box[c] # {}
    /\ box' = Taken(c) /\ lost' = lost \cup {<<c, First(c)>>}
    /\ UNCHANGED <<owns, cacheVars, madeVars, closeVars, topologyVars, published, stranded,
                   ackVars, arrived, taskVars, calls, got, expired, raceVars>>

(* queue_expiry: nobody has got from the queue, bound or declared it.      *)
Used(c) == \/ \E t \in Tasks : chan[t] = c /\ \/ op[t] \in {"receive", "add", "discard"}
                                              \/ pc[t] = "bind"
           \/ \E m \in stranded \cup acks : m.chan = c
QueueExpires(c) ==
    /\ Event /\ c \in queues /\ ~Used(c)
    /\ queues' = queues \ {c} /\ bound' = bound \ {c} /\ joined' = joined \ {c}
    /\ box' = [box EXCEPT ![c] = {}] /\ lost' = lost \cup ({c} \X box[c])
    /\ expired' = expired \cup {c}
    /\ UNCHANGED <<owns, cacheVars, madeVars, closeVars, published, stranded, ackVars,
                   arrived, taskVars, calls, got, raceVars>>

Step(t) ==
    \/ Connect(t) \/ OpenChannel(t) \/ DeclareExchange(t)
    \/ DeclareQueue(t) \/ Bind(t) \/ DeclareFanout(t)
    \/ Publish(t) \/ PublishGroup(t) \/ Get(t) \/ Ack(t) \/ GivesUp(t) \/ Join(t) \/ Leave(t)
    \/ Refused(t)
Closing == ChannelClosed \/ ConnectionClosed

Next ==
    \/ \E t \in Tasks : Call(t) \/ Step(t) \/ Fails(t) \/ GetUnanswered(t) \/ AckInVain(t)
    \/ \E t \in Tasks : NotFound(t)
    \/ \E m \in acks : AckArrives(m)
    \/ Close \/ Closing \/ CloseFails \/ ConnectionLost
    \/ \E c \in Channels : MessageExpires(c) \/ QueueExpires(c)

(* RabbitMQ answers, the event loop runs every task, and a deadline passes.*)
Fairness == WF_vars(Closing) /\ \A t \in Tasks : WF_vars(Step(t)) /\ WF_vars(NotFound(t))

Spec == Init /\ [][Next]_vars /\ Fairness

-----------------------------------------------------------------------------
(***************************************************************************)
(* Properties                                                              *)
(***************************************************************************)

(* Type invariant: every variable has its type; what is cached was made    *)
(* here, and a message is in hand only until its acknowledgement.          *)
Made == 0 .. Len(amqp)
TypeOK ==
    /\ owns \in BOOLEAN /\ conn \in 0 .. conns /\ conns \in Nat
    /\ amqp \in Seq(1 .. conns)
    /\ channel \in Made /\ exchange \in Made /\ fanout \in Made
    /\ queueOf \in [Channels -> Made]
    /\ closed \in BOOLEAN /\ closer \in {"open", "channel", "connection", "done", "failed"}
    /\ endedConns \subseteq Nat /\ endedChans \subseteq Nat
    /\ queues \subseteq Channels /\ bound \subseteq queues /\ joined \subseteq queues
    /\ box \in [Channels -> SUBSET Nat] /\ arrived \in [Channels -> SUBSET (1 .. published)]
    /\ published \in Nat /\ lost \subseteq Channels \X Nat /\ doubted \subseteq Channels \X Nat
    /\ stranded \subseteq [chan : Channels, id : Nat, on : Made]
    /\ acks \subseteq [chan : Channels, id : Nat, on : Made]
    /\ pc \in [Tasks -> Places] /\ op \in [Tasks -> Operations]
    /\ chan \in [Tasks -> Channels]
    /\ via \in [Tasks -> Nat] /\ mine \in [Tasks -> Nat]
    /\ \A t \in Tasks : mine[t] # 0 => pc[t] = "ack"
    /\ got \in [Tasks -> SUBSET (Channels \X Nat)] /\ expired \subseteq Channels
    /\ calls \in Nat /\ events \in Nat /\ raced \in BOOLEAN /\ broken \in BOOLEAN

(* Nothing vanishes, and what is returned twice was in doubt: every        *)
(* message that came into a queue is still in it, got by one task, with    *)
(* nobody until its AMQP channel ends, returned, or lost.  One that was    *)
(* returned or lost is in reach of a receive again, or was returned to two *)
(* tasks, only if its acknowledgement was under way when its AMQP channel  *)
(* was cut off: nothing answers it (rabbitmq.py 84-96).                    *)
Got(c) == {mine[t] : t \in {u \in Tasks : chan[u] = c}} \ {0}
Stranded(c) == {m.id : m \in {n \in stranded : n.chan = c}}
Acknowledged(c) == {m.id : m \in {n \in acks : n.chan = c}}
ReturnedTo(t, c) == {p[2] : p \in {q \in got[t] : q[1] = c}}
Returned(c) == UNION {ReturnedTo(t, c) : t \in Tasks}
Lost(c) == {p[2] : p \in {q \in lost : q[1] = c}}
Doubted(c) == {p[2] : p \in {q \in doubted : q[1] = c}}
AtLeastOnce == \A c \in Channels :
    /\ arrived[c] = box[c] \cup Got(c) \cup Stranded(c) \cup Returned(c) \cup Lost(c)
    /\ box[c] \cap (Got(c) \cup Stranded(c) \cup Acknowledged(c)) = {}
    /\ Got(c) \cap (Stranded(c) \cup Acknowledged(c)) = {}
    /\ Stranded(c) \cap Acknowledged(c) = {}
    /\ (box[c] \cup Got(c) \cup Stranded(c)) \cap (Returned(c) \cup Lost(c)) \subseteq Doubted(c)
    /\ Returned(c) \cap Lost(c) \subseteq Doubted(c)
    /\ \A t, u \in Tasks : t # u =>
          /\ ReturnedTo(t, c) \cap ReturnedTo(u, c) \subseteq Doubted(c)
          /\ chan[t] = c /\ chan[u] = c /\ mine[t] = mine[u] => mine[t] = 0

(* What is settled stays so: once a message's acknowledgement is at the    *)
(* broker, or it has expired, no failure and no close puts it back into a  *)
(* queue (rabbitmq.py 95, 130-137).                                        *)
Settled(c) ==
    arrived[c] \ (box[c] \cup Got(c) \cup Stranded(c) \cup Acknowledged(c))
SettledForGood == [][\A c \in Channels : Settled(c) \subseteq Settled(c)']_vars

(* _channel is set before _exchange, but no task that finds the first is   *)
(* left without the second: its queue is declared behind the exchange.     *)
(* The exception is a first use that failed in between, which leaves the   *)
(* layer without an exchange for ever (rabbitmq.py 151-157, 192-201).      *)
ExchangeKnown == \A t \in Tasks : pc[t] \in {"bind", "publish"} => exchange # 0 \/ broken

(* A queue in the cache exists and is bound, so that send may rely on it,  *)
(* unless the broker has deleted it (rabbitmq.py 192-201, 203-214).        *)
CachedIsBound == \A c \in Channels : queueOf[c] # 0 => c \in bound \/ c \in expired

(* Once close() has returned nothing of the layer is left at the broker:   *)
(* no AMQP channel, no connection of its own, every message that was not   *)
(* acknowledged is back in its queue, and no acknowledgement is in doubt;  *)
(* but for a second AMQP channel opened at the same time, or while close() *)
(* ran (130-157).                                                          *)
LayerLeavesNothing ==
    closer = "done" /\ ~raced =>
        /\ \A n \in DOMAIN amqp : ~Alive(n)
        /\ owns => 1 .. conns \subseteq endedConns
        /\ stranded = {} /\ acks = {} /\ \A t \in Tasks : mine[t] = 0

(* Every call ends, whatever declarations it has to wait for, and close(), *)
(* but a receive without timeout, which waits only while its queue is      *)
(* empty and the layer open (rabbitmq.py 58-137, 151-201).                 *)
MayWait(t) ==
    pc[t] = "get" /\ t \notin Timed /\ box[chan[t]] = {} /\ (closed => raced)
CallsEnd ==
    /\ \A t \in Tasks : []<>(pc[t] = "idle" \/ MayWait(t))
    /\ []<>(closer \notin {"channel", "connection"})
=============================================================================
