------------------------------ MODULE NatsLayer ------------------------------
(***************************************************************************)
(* The channels of NATSChannelLayer (backends/nats.py) and its client,     *)
(* composed with its groups (NatsGroups): a stream of JetStream holds the  *)
(* messages, a durable pull consumer for each channel hands them out until *)
(* they are acknowledged, and group_send publishes into them.              *)
(*                                                                         *)
(* Tasks are tasks of one layer, whose client, JetStream context, stream   *)
(* and subscriptions are made by the first operation that needs them; each *)
(* await in between is a place where the other tasks run.  The callers of  *)
(* NatsGroups are tasks of other processes.                                *)
(*                                                                         *)
(* NATS and nats-py are external.  A message that was fetched is nobody    *)
(* else's until it is acknowledged or ack_wait has passed.  A request on a *)
(* subscription or a client that has ended raises; iterating over a dict   *)
(* that another task has added an entry to raises as well.                 *)
(*                                                                         *)
(* (Held, Copied and KeepsClient are seeded faults, used nowhere.)         *)
(***************************************************************************)
EXTENDS NatsGroups, Sequences

CONSTANTS
    Tasks,      \* tasks of the layer
    Timed,      \* those whose receives have a timeout
    NoChannel,  \* what a task that makes no call is at
    Mixes       \* what a behaviour's calls are, which channels the tasks receive
                \* from, and what the layer was given

ASSUME NamesAssumption == IsFiniteSet(Channels)
ASSUME TasksAssumption == Timed \subseteq Tasks /\ NoChannel \notin Channels
ASSUME MixesAssumption ==
    Mixes \subseteq [calls : SUBSET {"add", "discard", "fan", "send", "receive", "close", "shut"},
                     inboxes : SUBSET Channels,
                     given : {"nothing", "client", "jetstream"}]

VARIABLES
    mix,        \* the mix of this behaviour
    owns,       \* self._owns_client
    client,     \* self._nc: clients are numbered as they are made, 0 is None
    js,         \* self._js: the client whose context it is
    ready,      \* self._stream_ready
    subs,       \* self._subscriptions: a subscription's number, 0 for none
    shut,       \* self._closed
    closer,     \* where close() is
    walked,     \* channels whose subscription close() has ended
    size,       \* number of subscriptions when it began
    clients,    \* number of clients made, a supplied one included
    subClient,  \* subClient[n]: the client of subscription n
    endedClients, endedSubs,
    stream,     \* the stream exists
    box,        \* box[c]: messages in the stream that may be fetched
    limbo,      \* limbo[c]: those fetched for nobody, until ack_wait has passed
    done,       \* done[c]: those acknowledged
    sent,       \* number of messages published
    op, at, chan,   \* each task's operation, place and channel
    via,        \* the client or subscription its request was made on
    mine,       \* the message it has fetched and not acknowledged, 0 for none
    got,        \* history: got[t], the messages receive returned to t
    doubtful,   \* history: messages whose acknowledgement failed, came late or was in vain
    raced       \* history: two tasks made the same thing at once, or one while closing

clientVars == <<owns, client, js, clients>>
streamVars == <<ready, stream>>
subVars == <<subs, subClient>>
closeVars == <<shut, closer, walked, size, endedClients, endedSubs>>
messageVars == <<box, limbo, done, sent>>
taskVars == <<op, at, chan, via, mine>>
pastVars == <<got, doubtful, raced>>
layerVars == <<mix, clientVars, streamVars, subVars, closeVars, messageVars, taskVars, pastVars>>

TaskPlaces == {"idle", "connect", "stream", "publish", "subscribe", "fetch", "ack"}

LayerInit ==
    /\ Init
    /\ mix \in Mixes
    /\ owns = (mix.given # "client")
    /\ client = IF mix.given = "client" THEN 1 ELSE 0
    /\ js = IF mix.given = "jetstream" THEN 1 ELSE 0
    /\ clients = IF mix.given = "nothing" THEN 0 ELSE 1
    /\ ready = (mix.given = "jetstream")
    /\ stream = ready
    /\ subs = [c \in Channels |-> 0] /\ subClient = <<>>
    /\ shut = FALSE /\ closer = "open" /\ walked = {} /\ size = 0
    /\ endedClients = {} /\ endedSubs = {}
    /\ box = [c \in Channels |-> {}] /\ limbo = box /\ done = box /\ sent = 0
    /\ at = [t \in Tasks |-> "idle"] /\ op = [t \in Tasks |-> "none"]
    /\ chan = [t \in Tasks |-> NoChannel]
    /\ via = [t \in Tasks |-> 0] /\ mine = [t \in Tasks |-> 0]
    /\ got = [t \in Tasks |-> {}] /\ doubtful = {} /\ raced = FALSE

Moves(t, place) == at' = [at EXCEPT ![t] = place]
Via(t, n) == via' = [via EXCEPT ![t] = n]
Held(t) == mine
LetGo(t) == [mine EXCEPT ![t] = 0]
Leaves(t) ==
    /\ Moves(t, "idle") /\ Via(t, 0) /\ mine' = LetGo(t) /\ op' = [op EXCEPT ![t] = "none"]
    /\ chan' = [chan EXCEPT ![t] = NoChannel]

Subscribed == {c \in Channels : subs[c] # 0}
Alive(n) == n \notin endedSubs /\ subClient[n] \notin endedClients
Failure == faults < MaxFaults /\ faults' = faults + 1
Outside == <<keyVars, closed, pc, callVars, attempt, seen, fanVars, result, blind, failed, stable>>

(* The message published next is put into the channel's subject; one for a *)
(* channel that the tasks do not receive from is left out.                 *)
Arrives(c) ==
    IF c \in mix.inboxes
    THEN sent' = sent + 1 /\ box' = [box EXCEPT ![c] = @ \cup {sent + 1}]
    ELSE UNCHANGED <<sent, box>>

(***************************************************************************)
(* send and receive: _get_jetstream makes a client and the stream, and     *)
(* _ensure_subscription asks it for a context.                             *)
(***************************************************************************)
NeedsClient == js = 0 /\ client = 0
Context == IF js = 0 THEN client ELSE js
Last(o) == IF o = "send" THEN "publish" ELSE "subscribe"
FirstPlace(o) == CASE NeedsClient -> "connect"
                   [] ~NeedsClient /\ ~ready -> "stream"
                   [] OTHER -> Last(o)
Known(o, c) == o = "receive" /\ subs[c] # 0
Begin(t, o, c) ==
    /\ o \in mix.calls /\ c \in mix.inboxes /\ at[t] = "idle" /\ ~shut
    /\ calls < MaxCalls /\ calls' = calls + 1
    /\ op' = [op EXCEPT ![t] = o]
    /\ chan' = [chan EXCEPT ![t] = c]
    /\ Moves(t, IF Known(o, c) THEN "fetch" ELSE FirstPlace(o))
    /\ js' = IF Known(o, c) THEN js ELSE Context
    /\ Via(t, IF Known(o, c) THEN subs[c] ELSE Context)
    /\ UNCHANGED <<keyVars, closed, pc, ask, begun, attempt, seen, fanVars, result, faults, blind,
                   failed, stable>>
    /\ UNCHANGED <<mix, owns, client, clients, streamVars, subVars, closeVars, messageVars, mine,
                   pastVars>>

(* nats.connect has returned; the context is made at once.                 *)
Connect(t) ==
    /\ at[t] = "connect"
    /\ clients' = clients + 1 /\ client' = clients + 1 /\ js' = clients + 1
    /\ Via(t, clients + 1)
    /\ Moves(t, IF ready THEN Last(op[t]) ELSE "stream")
    /\ raced' = (raced \/ shut \/ client # 0)
    /\ UNCHANGED <<vars, mix, owns, streamVars, subVars, closeVars, messageVars, op, chan, mine, got,
                   doubtful>>

(* _ensure_stream: it is ready, also if add_stream has failed.             *)
AddStream(t) ==
    /\ at[t] = "stream"
    /\ ready' = TRUE
    /\ \/ stream' = TRUE /\ via[t] \notin endedClients /\ UNCHANGED faults
       \/ stream' = stream /\ via[t] \in endedClients /\ UNCHANGED faults
       \/ stream' = stream /\ Failure
    /\ Moves(t, Last(op[t]))
    /\ Via(t, js)
    /\ UNCHANGED <<Outside, mix, clientVars, subVars, closeVars, messageVars, op, chan, mine,
                   pastVars>>

(* The stream has the message.                                             *)
Publishes(t) ==
    /\ at[t] = "publish" /\ stream /\ via[t] \notin endedClients
    /\ Arrives(chan[t])
    /\ Leaves(t)
    /\ UNCHANGED <<vars, mix, clientVars, streamVars, subVars, closeVars, limbo, done, pastVars>>

(* pull_subscribe has returned.  It may replace another's subscription.    *)
Subscribe(t) ==
    /\ at[t] = "subscribe" /\ stream /\ via[t] \notin endedClients
    /\ subClient' = Append(subClient, via[t])
    /\ subs' = [subs EXCEPT ![chan[t]] = Len(subClient) + 1]
    /\ Moves(t, "fetch")
    /\ Via(t, Len(subClient) + 1)
    /\ raced' = (raced \/ shut \/ subs[chan[t]] # 0)
    /\ UNCHANGED <<vars, mix, clientVars, streamVars, closeVars, messageVars, op, chan, mine, got,
                   doubtful>>

(* fetch returns a message; one that returns none is repeated.             *)
First(c) == CHOOSE i \in box[c] : \A j \in box[c] : i <= j
Copied(t) == box
Taken(t) == [box EXCEPT ![chan[t]] = @ \ {First(chan[t])}]
Fetch(t) ==
    /\ at[t] = "fetch" /\ box[chan[t]] # {} /\ Alive(via[t])
    /\ mine' = [mine EXCEPT ![t] = First(chan[t])]
    /\ box' = Taken(t)
    /\ Moves(t, "ack")
    /\ UNCHANGED <<vars, mix, clientVars, streamVars, subVars, closeVars, limbo, done, sent, op,
                   chan, via, pastVars>>

(* The message is decoded and acknowledged, and receive returns it.  The   *)
(* acknowledgement takes it from whoever else it was handed out to.        *)
Ack(t) ==
    /\ at[t] = "ack"
    /\ done' = [done EXCEPT ![chan[t]] = @ \cup {mine[t]}]
    /\ box' = [box EXCEPT ![chan[t]] = @ \ {mine[t]}]
    /\ limbo' = [limbo EXCEPT ![chan[t]] = @ \ {mine[t]}]
    /\ got' = [got EXCEPT ![t] = @ \cup {<<chan[t], mine[t]>>}]
    /\ Leaves(t)
    /\ UNCHANGED <<vars, mix, clientVars, streamVars, subVars, closeVars, sent, doubtful, raced>>

TimesOut(t) ==
    /\ at[t] = "fetch" /\ t \in Timed /\ box[chan[t]] = {}
    /\ Leaves(t)
    /\ UNCHANGED <<vars, mix, clientVars, streamVars, subVars, closeVars, messageVars, pastVars>>

(***************************************************************************)
(* close: unsubscribe from what is in the dict, then drain and close the   *)
(* client.  An entry that is added meanwhile ends the loop with an error.  *)
(***************************************************************************)
CloseLayer ==
    /\ "shut" \in mix.calls /\ ~shut /\ shut' = TRUE
    /\ closer' = "unsubscribe" /\ size' = Cardinality(Subscribed)
    /\ UNCHANGED <<vars, mix, clientVars, streamVars, subVars, walked, endedClients, endedSubs,
                   messageVars, taskVars, pastVars>>

Grown == Cardinality(Subscribed) # size
Unsubscribe(c) ==
    /\ closer = "unsubscribe" /\ ~Grown
    /\ c \in Subscribed \ walked
    /\ walked' = walked \cup {c}
    /\ endedSubs' = endedSubs \cup {subs[c]}
    /\ UNCHANGED <<vars, mix, clientVars, streamVars, subs, subClient, shut, closer, size,
                   endedClients, messageVars, taskVars, pastVars>>

KeepsClient == "done"
NextToClose == IF client # 0 /\ owns THEN "drain" ELSE "done"
ClearSubscriptions ==
    /\ closer = "unsubscribe" /\ ~Grown /\ Subscribed \subseteq walked
    /\ subs' = [c \in Channels |-> 0]
    /\ closer' = NextToClose
    /\ UNCHANGED <<vars, mix, clientVars, streamVars, subClient, shut, walked, size, endedClients,
                   endedSubs, messageVars, taskVars, pastVars>>

CloseClient ==
    /\ closer = "drain" /\ closer' = "done"
    /\ endedClients' = endedClients \cup {client}
    /\ UNCHANGED <<vars, mix, clientVars, streamVars, subVars, shut, walked, size, endedSubs,
                   messageVars, taskVars, pastVars>>

CloseRaises ==
    /\ \/ closer = "unsubscribe" /\ Grown /\ UNCHANGED faults
       \/ closer \in {"unsubscribe", "drain"} /\ Failure
    /\ closer' = "failed"
    /\ UNCHANGED <<Outside, mix, clientVars, streamVars, subVars, shut, walked, size, endedClients,
                   endedSubs, messageVars, taskVars, pastVars>>

(***************************************************************************)
(* Failures                                                                *)
(***************************************************************************)
(* The subscription or the client has ended, or there is no stream.        *)
Refused(t) ==
    /\ \/ at[t] \in {"publish", "subscribe"} /\ (~stream \/ via[t] \in endedClients)
       \/ at[t] = "fetch" /\ ~Alive(via[t])
    /\ Leaves(t)
    /\ UNCHANGED <<vars, mix, clientVars, streamVars, subVars, closeVars, messageVars, pastVars>>

(* The request fails, the task is cancelled, or the message cannot be      *)
(* decoded: what was fetched is handed out again after ack_wait.           *)
Strands(t, i) ==
    limbo' = [c \in Channels |-> limbo[c] \cup IF c = chan[t] THEN {i} \ ({0} \cup done[c]) ELSE {}]
TaskFails(t) ==
    /\ at[t] # "idle" /\ Failure
    /\ Strands(t, mine[t])
    /\ Leaves(t)
    /\ UNCHANGED <<Outside, mix, clientVars, streamVars, subVars, closeVars, box, done, sent,
                   pastVars>>

(* The message is published, and the answer does not come.                 *)
PublishUnanswered(t) ==
    /\ at[t] = "publish" /\ stream /\ via[t] \notin endedClients /\ Failure
    /\ Arrives(chan[t])
    /\ Leaves(t)
    /\ UNCHANGED <<Outside, mix, clientVars, streamVars, subVars, closeVars, limbo, done, pastVars>>

(* A message is fetched, and the fetch has timed out or was cancelled.     *)
FetchUnanswered(t) ==
    /\ at[t] = "fetch" /\ box[chan[t]] # {} /\ Alive(via[t]) /\ Failure
    /\ box' = Taken(t)
    /\ Strands(t, First(chan[t]))
    /\ \/ Leaves(t)
       \/ t \notin Timed /\ UNCHANGED taskVars
    /\ UNCHANGED <<Outside, mix, clientVars, streamVars, subVars, closeVars, done, sent, pastVars>>

(* receive returns the message, and its acknowledgement does not arrive.   *)
AckLost(t) ==
    /\ at[t] = "ack" /\ Failure
    /\ got' = [got EXCEPT ![t] = @ \cup {<<chan[t], mine[t]>>}]
    /\ doubtful' = doubtful \cup {mine[t]}
    /\ Strands(t, mine[t])
    /\ Leaves(t)
    /\ UNCHANGED <<Outside, mix, clientVars, streamVars, subVars, closeVars, box, done, sent, raced>>

(* The acknowledgement arrives, and the task is cancelled while it waits.  *)
AckInVain(t) ==
    /\ at[t] = "ack" /\ Failure
    /\ done' = [done EXCEPT ![chan[t]] = @ \cup {mine[t]}]
    /\ box' = [box EXCEPT ![chan[t]] = @ \ {mine[t]}]
    /\ limbo' = [limbo EXCEPT ![chan[t]] = @ \ {mine[t]}]
    /\ doubtful' = doubtful \cup {mine[t]}
    /\ Leaves(t)
    /\ UNCHANGED <<Outside, mix, clientVars, streamVars, subVars, closeVars, sent, got, raced>>

(* ack_wait passes for a message a task still holds, or nobody does.       *)
AckLate(t) ==
    /\ at[t] = "ack" /\ mine[t] \notin done[chan[t]] /\ Failure
    /\ doubtful' = doubtful \cup {mine[t]}
    /\ box' = [box EXCEPT ![chan[t]] = @ \cup {mine[t]}]
    /\ UNCHANGED <<Outside, mix, clientVars, streamVars, subVars, closeVars, limbo, done, sent,
                   taskVars, got, raced>>

Redelivered(c) ==
    /\ limbo[c] # {}
    /\ box' = [box EXCEPT ![c] = @ \cup limbo[c]] /\ limbo' = [limbo EXCEPT ![c] = {}]
    /\ UNCHANGED <<vars, mix, clientVars, streamVars, subVars, closeVars, done, sent, taskVars,
                   pastVars>>

(***************************************************************************)
(* Composition: the groups of other processes publish into the channels.   *)
(***************************************************************************)
FanOut(w, c) ==
    /\ Publish(w, c) /\ Arrives(c)
    /\ stream' = (stream \/ c \in mix.inboxes)    \* the caller's layer has ensured it
    /\ UNCHANGED <<mix, clientVars, ready, subVars, closeVars, limbo, done, taskVars, pastVars>>

GroupStep(w) ==
    /\ \/ Get(w) \/ Write(w) \/ Answer(w) \/ Conflict(w) \/ FanOutEnds(w) \/ FanOutRaises(w)
       \/ Fails(w)
       \/ "close" \in mix.calls /\ Close(w)
       \/ \E a \in Asks : (IF a.op = "send" THEN "fan" ELSE a.op) \in mix.calls /\ Call(w, a)
    /\ UNCHANGED layerVars

TaskStep(t) ==
    \/ \E o \in {"send", "receive"}, c \in Channels : Begin(t, o, c)
    \/ Connect(t) \/ AddStream(t) \/ Publishes(t) \/ Subscribe(t) \/ Fetch(t) \/ Ack(t)
    \/ TimesOut(t) \/ Refused(t)
    \/ TaskFails(t) \/ PublishUnanswered(t) \/ FetchUnanswered(t) \/ AckLost(t)
    \/ AckInVain(t) \/ AckLate(t)

LayerNext ==
    \/ \E w \in Callers : GroupStep(w) \/ \E c \in Channels : FanOut(w, c)
    \/ \E t \in Tasks : TaskStep(t)
    \/ \E c \in Channels : Unsubscribe(c) \/ Redelivered(c)
    \/ CloseLayer \/ ClearSubscriptions \/ CloseClient \/ CloseRaises

LayerSpec == LayerInit /\ [][LayerNext]_<<vars, layerVars>>

-----------------------------------------------------------------------------
(***************************************************************************)
(* Properties                                                              *)
(***************************************************************************)

(* Type invariant: every variable has its type; what a task has in hand is *)
(* what its place needs.                                                   *)
LayerTypeOK ==
    /\ owns \in BOOLEAN /\ clients \in Nat /\ client \in 0 .. clients /\ js \in 0 .. clients
    /\ ready \in BOOLEAN /\ stream \in BOOLEAN
    /\ subs \in [Channels -> 0 .. Len(subClient)] /\ subClient \in Seq(1 .. clients)
    /\ shut \in BOOLEAN /\ closer \in {"open", "unsubscribe", "drain", "done", "failed"}
    /\ walked \subseteq Channels /\ size \in Nat
    /\ endedClients \subseteq Nat /\ endedSubs \subseteq Nat
    /\ \A m \in {box, limbo, done} : m \in [Channels -> SUBSET (1 .. sent)]
    /\ op \in [Tasks -> {"none", "send", "receive"}]
    /\ at \in [Tasks -> TaskPlaces] /\ chan \in [Tasks -> Channels \cup {NoChannel}]
    /\ via \in [Tasks -> Nat] /\ mine \in [Tasks -> 0 .. sent]
    /\ \A t \in Tasks :
          /\ (mine[t] # 0) = (at[t] = "ack") /\ (chan[t] = NoChannel) = (at[t] = "idle")
          /\ (op[t] = "none") = (at[t] = "idle")
          /\ at[t] = "publish" => op[t] = "send"
          /\ at[t] \in {"subscribe", "fetch", "ack"} => op[t] = "receive"
          /\ at[t] \in {"publish", "subscribe"} => via[t] \in 1 .. clients
          /\ at[t] \in {"fetch", "ack"} => via[t] \in DOMAIN subClient
    /\ got \in [Tasks -> SUBSET (Channels \X Nat)]
    /\ doubtful \subseteq Nat /\ raced \in BOOLEAN

(* At least once, and again only in doubt: every message that was          *)
(* published waits in the stream, was fetched, or is acknowledged; what is *)
(* acknowledged was returned by a receive, and what was returned is        *)
(* returned again only if its acknowledgement failed or came late          *)
(* (nats.py 74-94).                                                        *)
HeldOf(c) == {mine[t] : t \in {u \in Tasks : chan[u] = c}} \ {0}
ReturnedTo(t, c) == {p[2] : p \in {q \in got[t] : q[1] = c}}
Received(c) == UNION {ReturnedTo(t, c) : t \in Tasks}
AtLeastOnce ==
    /\ 1 .. sent = UNION {box[c] \cup limbo[c] \cup done[c] \cup HeldOf(c) : c \in Channels}
    /\ \A c \in Channels :
          /\ done[c] \subseteq Received(c) \cup doubtful
          /\ (box[c] \cup limbo[c] \cup HeldOf(c)) \cap Received(c) \subseteq doubtful
          /\ \A t, u \in Tasks : t # u =>
                ReturnedTo(t, c) \cap ReturnedTo(u, c) \subseteq doubtful

(* Once close() has returned, no subscription and no client of the layer's *)
(* own is left, and it fails only if a request does; but for clients and   *)
(* subscriptions that two tasks made at once, or one while close() ran     *)
(* (nats.py 120-139, 141-151, 188-197).                                    *)
LayerLeavesNothing ==
    ~raced =>
        /\ closer = "done" => \A n \in DOMAIN subClient : ~Alive(n)
        /\ closer = "done" /\ owns /\ client # 0 => 1 .. clients \subseteq endedClients
        /\ closer = "failed" => faults > 0
=============================================================================
