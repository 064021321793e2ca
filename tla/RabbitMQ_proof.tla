--------------------------- MODULE RabbitMQ_proof ---------------------------
(***************************************************************************)
(* Proofs about the RabbitMQ layer, for any number of tasks, channels,     *)
(* calls, failures, losses and expiries.                                   *)
(***************************************************************************)
EXTENDS RabbitMQ, WellFoundedInduction, TLAPS

USE ChannelsAssumption, UsesAssumption, BoundsAssumption
USE DEF cacheVars, madeVars, closeVars, topologyVars, messageVars, ackVars, taskVars,
    raceVars

-----------------------------------------------------------------------------
(* Places.  Those of a call are those of its operation.                    *)
Suits(o, place) ==
    /\ place \in Places \ {"idle"}
    /\ place = "publish" => o = "send"
    /\ place \in {"get", "ack"} => o = "receive"
    /\ place = "join" => o = "add"
    /\ place = "leave" => o = "discard"
    /\ place = "publishGroup" => o = "fan"
    /\ place \in {"declare", "bind"} => o # "fan"
    /\ place = "fanout" => o \in {"add", "discard", "fan"}
OpPlaces(t) ==
    /\ (op[t] = "none") = (pc[t] = "idle")
    /\ pc[t] # "idle" => Suits(op[t], pc[t])
PlaceTypes ==
    /\ pc \in [Tasks -> Places] /\ op \in [Tasks -> Operations]
    /\ chan \in [Tasks -> Channels]
    /\ \A t \in Tasks : OpPlaces(t)

Calling == Operations \ {"none"}

LEMMA LastSuits ==
    ASSUME NEW o \in Calling
    PROVE  Suits(o, Last(o)) /\ Last(o) \in {"publish", "get", "join", "leave", "publishGroup"}
<1>1. CASE o = "send"
    BY <1>1 DEF Last, Suits, Places
<1>2. CASE o = "receive"
    BY <1>2 DEF Last, Suits, Places
<1>3. CASE o = "add"
    BY <1>3 DEF Last, Suits, Places
<1>4. CASE o = "discard"
    BY <1>4 DEF Last, Suits, Places
<1>5. CASE o = "fan"
    BY <1>5 DEF Last, Suits, Places
<1>6. QED
    BY <1>1, <1>2, <1>3, <1>4, <1>5 DEF Calling, Operations

LEMMA ChainSuits ==
    ASSUME NEW o \in Calling, NEW c \in Channels
    PROVE  /\ Suits(o, WithQueue(o)) /\ Suits(o, WithChannel(o, c)) /\ Suits(o, FromStart(o, c))
           /\ WithQueue(o) \in {"fanout", Last(o)}
           /\ WithChannel(o, c) \in {"declare", "fanout", Last(o)}
           /\ WithChannel(o, c) # "declare" => WithChannel(o, c) = WithQueue(o) /\ (o # "fan" => queueOf[c] # 0)
           /\ channel # 0 => FromStart(o, c) = WithChannel(o, c)
           /\ channel = 0 /\ conn # 0 => FromStart(o, c) = "open"
           /\ channel = 0 /\ conn = 0 => FromStart(o, c) = "connect"
<1>1. Suits(o, WithQueue(o)) /\ WithQueue(o) \in {"fanout", Last(o)}
    <2>1. CASE o \in {"add", "discard", "fan"} /\ fanout = 0
        BY <2>1 DEF WithQueue, Suits, Places
    <2>2. CASE ~(o \in {"add", "discard", "fan"} /\ fanout = 0)
        BY <2>2, LastSuits DEF WithQueue
    <2>3. QED
        BY <2>1, <2>2
<1>2. /\ Suits(o, WithChannel(o, c)) /\ WithChannel(o, c) \in {"declare", "fanout", Last(o)}
      /\ WithChannel(o, c) # "declare" => WithChannel(o, c) = WithQueue(o) /\ (o # "fan" => queueOf[c] # 0)
    <2>1. CASE o # "fan" /\ queueOf[c] = 0
        BY <2>1 DEF WithChannel, Suits, Places
    <2>2. CASE ~(o # "fan" /\ queueOf[c] = 0)
        BY <1>1, <2>2 DEF WithChannel
    <2>3. QED
        BY <2>1, <2>2
<1>3. Suits(o, "open") /\ Suits(o, "connect")
    BY DEF Suits, Places
<1>4. QED
    BY <1>1, <1>2, <1>3 DEF FromStart

(* What a step may do to the places of the tasks.                          *)
Advances(t, place) ==
    /\ pc[t] # "idle" /\ Suits(op[t], place) /\ Goes(t, place) /\ UNCHANGED <<op, chan>>
Begins(t) == \E use \in Uses[t] : Begin(t, use[1], use[2])
NobodyMoves == UNCHANGED <<pc, op, chan>>
TaskStep(t) == Call(t) \/ Step(t) \/ Fails(t) \/ GetUnanswered(t) \/ AckInVain(t)
WorldStep ==
    \/ Close \/ Closing \/ CloseFails \/ ConnectionLost
    \/ \E t \in Tasks : NotFound(t)
    \/ \E m \in acks : AckArrives(m)
    \/ \E c \in Channels : MessageExpires(c) \/ QueueExpires(c)

LEMMA NextSteps ==
    [Next]_vars => WorldStep \/ UNCHANGED vars \/ \E t \in Tasks : TaskStep(t)
BY DEF Next, WorldStep, TaskStep

LEMMA StepPlaces ==
    ASSUME PlaceTypes, NEW t \in Tasks, TaskStep(t)
    PROVE  Begins(t) \/ Returns(t) \/ \E place : Advances(t, place)
<1>0. OpPlaces(t) /\ op[t] \in Operations /\ chan[t] \in Channels
    BY DEF PlaceTypes
<1>1. CASE Call(t)
    BY <1>1 DEF Call, Begins
<1>2. CASE Publish(t) \/ PublishGroup(t) \/ Ack(t) \/ GivesUp(t) \/ Join(t) \/ Leave(t) \/ Refused(t)
           \/ Fails(t) \/ GetUnanswered(t) \/ AckInVain(t)
    BY <1>2 DEF Publish, PublishGroup, Ack, GivesUp, Join, Leave, Refused, Fails, GetUnanswered,
       AckInVain
<1>3. ASSUME pc[t] # "idle"
      PROVE  /\ op[t] \in Calling
             /\ Suits(op[t], WithQueue(op[t])) /\ Suits(op[t], WithChannel(op[t], chan[t]))
             /\ Suits(op[t], Last(op[t]))
    <2>1. op[t] \in Calling
        BY <1>0, <1>3 DEF OpPlaces, Calling
    <2>2. QED
        BY <1>0, <2>1, ChainSuits, LastSuits
<1>4. CASE Connect(t)
    <2>1. Advances(t, "open")
        BY <1>4 DEF Connect, At, Advances, Suits, Places
    <2>2. QED
        BY <2>1
<1>5. CASE OpenChannel(t)
    <2>1. Advances(t, "exchange")
        BY <1>5 DEF OpenChannel, At, Advances, Suits, Places
    <2>2. QED
        BY <2>1
<1>6. CASE DeclareExchange(t)
    <2>1. Advances(t, WithChannel(op[t], chan[t]))
        BY <1>3, <1>6 DEF DeclareExchange, At, Advances
    <2>2. QED
        BY <2>1
<1>7. CASE DeclareQueue(t)
    <2>1. Advances(t, "bind")
        BY <1>0, <1>7 DEF DeclareQueue, At, Advances, OpPlaces, Suits, Places
    <2>2. QED
        BY <2>1
<1>8. CASE Bind(t)
    <2>1. Advances(t, WithQueue(op[t]))
        BY <1>3, <1>8 DEF Bind, At, Advances
    <2>2. QED
        BY <2>1
<1>9. CASE DeclareFanout(t)
    <2>1. Advances(t, Last(op[t]))
        BY <1>3, <1>9 DEF DeclareFanout, At, Advances
    <2>2. QED
        BY <2>1
<1>10. CASE Get(t)
    <2>1. Advances(t, "ack")
        BY <1>0, <1>10 DEF Get, At, Advances, OpPlaces, Suits, Places
    <2>2. QED
        BY <2>1
<1>11. QED
    BY <1>1, <1>2, <1>4, <1>5, <1>6, <1>7, <1>8, <1>9, <1>10 DEF TaskStep, Step

LEMMA WorldPlaces ==
    ASSUME WorldStep \/ UNCHANGED vars
    PROVE  NobodyMoves /\ UNCHANGED <<owns, cacheVars, madeVars, calls, got>>
BY DEF WorldStep, NobodyMoves, vars, Close, Closing, ChannelClosed, ConnectionClosed, CloseFails,
   ConnectionLost, NotFound, AckArrives, MessageExpires, QueueExpires

LEMMA BeginsAnOperation ==
    ASSUME NEW t \in Tasks, Begins(t)
    PROVE  \E o \in Calling, c \in Channels : Begin(t, o, c)
<1>1. PICK use \in Uses[t] : Begin(t, use[1], use[2])
    BY DEF Begins
<1>2. use[1] \in Calling /\ use[2] \in Channels
    BY DEF Calling, Operations
<1>3. QED
    BY <1>1, <1>2

(* A step of a task moves it alone.                                        *)
LEMMA OthersStay ==
    ASSUME PlaceTypes, NEW t \in Tasks, TaskStep(t)
    PROVE  \A u \in Tasks \ {t} : pc'[u] = pc[u] /\ op'[u] = op[u] /\ chan'[u] = chan[u]
<1>1. /\ pc \in [Tasks -> Places] /\ op \in [Tasks -> Operations] /\ chan \in [Tasks -> Channels]
    BY DEF PlaceTypes
<1>2. CASE Begins(t)
    BY <1>1, <1>2 DEF Begins, Begin, Goes
<1>3. CASE Returns(t)
    BY <1>1, <1>3 DEF Returns, Goes
<1>4. CASE \E place : Advances(t, place)
    BY <1>1, <1>4 DEF Advances, Goes
<1>5. QED
    BY <1>2, <1>3, <1>4, StepPlaces

LEMMA PlacesKept ==
    ASSUME PlaceTypes, NEW t \in Tasks, TaskStep(t)
    PROVE  PlaceTypes'
<1>1. ASSUME NEW u \in Tasks, u # t PROVE OpPlaces(u)'
    BY <1>1, OthersStay DEF PlaceTypes, OpPlaces
<1>2. CASE Begins(t)
    <2>1. PICK o \in Calling, c \in Channels : Begin(t, o, c)
        BY <1>2, BeginsAnOperation
    <2>2. /\ pc' = [pc EXCEPT ![t] = FromStart(o, c)] /\ op' = [op EXCEPT ![t] = o]
          /\ chan' = [chan EXCEPT ![t] = c]
        BY <2>1 DEF Begin, Goes
    <2>3. Suits(o, FromStart(o, c))
        BY ChainSuits
    <2>4. OpPlaces(t)'
        BY <2>2, <2>3 DEF PlaceTypes, OpPlaces, Suits, Calling
    <2>5. QED
        BY <1>1, <2>2, <2>3, <2>4 DEF PlaceTypes, Suits, Calling
<1>3. CASE Returns(t)
    <2>1. /\ pc' = [pc EXCEPT ![t] = "idle"] /\ op' = [op EXCEPT ![t] = "none"] /\ chan' = chan
        BY <1>3 DEF Returns, Goes
    <2>2. OpPlaces(t)'
        BY <2>1 DEF PlaceTypes, OpPlaces
    <2>3. QED
        BY <1>1, <2>1, <2>2 DEF PlaceTypes, Places, Operations
<1>4. CASE \E place : Advances(t, place)
    <2>1. PICK place : Advances(t, place)
        BY <1>4
    <2>2. /\ pc' = [pc EXCEPT ![t] = place] /\ UNCHANGED <<op, chan>> /\ Suits(op[t], place)
          /\ pc[t] # "idle"
        BY <2>1 DEF Advances, Goes
    <2>3. OpPlaces(t)'
        BY <2>2 DEF PlaceTypes, OpPlaces, Suits
    <2>4. QED
        BY <1>1, <2>2, <2>3 DEF PlaceTypes, Suits
<1>5. QED
    BY <1>2, <1>3, <1>4, StepPlaces

-----------------------------------------------------------------------------
(* Connections and AMQP channels are numbered as they are made, and what a *)
(* task's request is made on is one of them.                               *)
OnAmqp == Places \ {"idle", "connect", "open"}
ViaOf(t) ==
    /\ pc[t] = "open" => via[t] \in 1 .. conns
    /\ pc[t] \in OnAmqp => via[t] \in Made
MadeTypes ==
    /\ conn \in 0 .. conns /\ conns \in Nat
    /\ amqp \in Seq(1 .. conns)
    /\ channel \in Made /\ exchange \in Made /\ fanout \in Made
    /\ queueOf \in [Channels -> Made]
    /\ via \in [Tasks -> Nat]
    /\ \A t \in Tasks : ViaOf(t)

LEMMA AppendElements ==
    ASSUME NEW S, NEW q \in Seq(S), NEW e \in S
    PROVE  /\ Append(q, e) \in Seq(S) /\ Len(Append(q, e)) = Len(q) + 1 /\ Len(q) \in Nat
           /\ DOMAIN q = 1 .. Len(q) /\ DOMAIN Append(q, e) = 1 .. Len(q) + 1
           /\ Append(q, e)[Len(q) + 1] = e
           /\ \A i \in 1 .. Len(q) : Append(q, e)[i] = q[i]
OBVIOUS

LEMMA SeqOfMore ==
    ASSUME NEW n \in Nat, NEW q \in Seq(1 .. n)
    PROVE  q \in Seq(1 .. n + 1) /\ Len(q) \in Nat /\ DOMAIN q = 1 .. Len(q)
<1>1. 1 .. n \subseteq 1 .. n + 1
    OBVIOUS
<1>2. QED
    BY <1>1

(* What the next request is made on.                                       *)
LEMMA Targets ==
    ASSUME MadeTypes, NEW t \in Tasks, chan[t] \in Channels
    PROVE  /\ pc[t] = "open" => Target(t) = conn
           /\ pc[t] \in {"declare", "fanout"} => Target(t) = channel
           /\ pc[t] = "publish" => Target(t) = exchange
           /\ pc[t] = "publishGroup" => Target(t) = fanout
           /\ pc[t] \in {"get", "join", "leave"} => Target(t) = queueOf[chan[t]]
           /\ pc[t] = "connect" => Target(t) = 0
           /\ pc[t] \in {"declare", "fanout", "publish", "publishGroup", "get", "join", "leave"} =>
                  Target(t) \in Made
<1>1. CASE pc[t] = "open"
    BY <1>1 DEF Target
<1>2. CASE pc[t] \in {"declare", "fanout"}
    BY <1>2 DEF Target, MadeTypes
<1>3. CASE pc[t] = "publish"
    BY <1>3 DEF Target, MadeTypes
<1>4. CASE pc[t] = "publishGroup"
    BY <1>4 DEF Target, MadeTypes
<1>5. CASE pc[t] \in {"get", "join", "leave"}
    BY <1>5 DEF Target, MadeTypes
<1>6. CASE pc[t] = "connect"
    BY <1>6 DEF Target
<1>7. CASE pc[t] \notin {"open", "declare", "fanout", "publish", "publishGroup", "get", "join", "leave", "connect"}
    BY <1>7
<1>8. QED
    BY <1>1, <1>2, <1>3, <1>4, <1>5, <1>6, <1>7

(* What a step may do to what is made and cached.                          *)
Connected(t) ==
    /\ pc[t] = "connect" /\ pc'[t] = "open" /\ conns' = conns + 1 /\ conn' = conns + 1
    /\ via' = [via EXCEPT ![t] = conns + 1]
    /\ UNCHANGED <<amqp, channel, exchange, queueOf, fanout>>
Opened(t) ==
    /\ pc[t] = "open" /\ pc'[t] = "exchange" /\ amqp' = Append(amqp, via[t])
    /\ channel' = Len(amqp) + 1
    /\ via' = [via EXCEPT ![t] = Len(amqp) + 1]
    /\ UNCHANGED <<conns, conn, exchange, queueOf, fanout>>
Caches(t) ==
    /\ pc[t] \in OnAmqp \ {"declare"} /\ UNCHANGED <<conns, amqp, conn, channel>>
    /\ exchange' \in {exchange, via[t]} /\ fanout' \in {fanout, via[t]}
    /\ queueOf' \in {queueOf, [queueOf EXCEPT ![chan[t]] = via[t]]}
    /\ pc'[t] \in {"declare", "fanout", "publish", "publishGroup", "get", "join", "leave"}
    /\ chan' = chan
    /\ Requests(t)
Requesting(t) ==
    /\ UNCHANGED <<cacheVars, madeVars>>
    /\ pc[t] = "idle"
    /\ chan'[t] \in Channels
    /\ pc'[t] \in {"connect", "open", "declare", "fanout", "publish", "publishGroup", "get", "join", "leave"}
    /\ pc'[t] = "open" => conn # 0
    /\ Requests(t)
Waits(t) ==
    /\ UNCHANGED <<cacheVars, madeVars, via>>
    /\ pc[t] \in OnAmqp /\ pc'[t] \in OnAmqp \ {"exchange"}
GivenUp(t) ==
    /\ UNCHANGED <<cacheVars, madeVars>>
    /\ pc'[t] = "idle" /\ via' = [via EXCEPT ![t] = 0]

LEMMA StepMakes ==
    ASSUME PlaceTypes, MadeTypes, NEW t \in Tasks, TaskStep(t)
    PROVE  Connected(t) \/ Opened(t) \/ Caches(t) \/ Requesting(t) \/ Waits(t) \/ GivenUp(t)
<1>0. /\ OpPlaces(t) /\ op[t] \in Operations /\ chan[t] \in Channels
      /\ \A place : Goes(t, place) => pc'[t] = place
      /\ \A c : chan' = [chan EXCEPT ![t] = c] => chan'[t] = c
    BY DEF PlaceTypes, Goes
<1>1. CASE Connect(t)
    BY <1>0, <1>1 DEF Connect, At, On, Connected
<1>2. CASE OpenChannel(t)
    BY <1>0, <1>2 DEF OpenChannel, At, On, Opened
<1>3. ASSUME pc[t] # "idle"
      PROVE  /\ WithQueue(op[t]) \in {"fanout", "publish", "get", "join", "leave", "publishGroup"}
             /\ WithChannel(op[t], chan[t]) \in
                    {"declare", "fanout", "publish", "get", "join", "leave", "publishGroup"}
             /\ Last(op[t]) \in {"publish", "get", "join", "leave", "publishGroup"}
    <2>1. op[t] \in Calling
        BY <1>0, <1>3 DEF OpPlaces, Calling
    <2>2. QED
        BY <1>0, <2>1, ChainSuits, LastSuits
<1>4. CASE DeclareExchange(t)
    <2>1. pc[t] = "exchange" /\ Goes(t, WithChannel(op[t], chan[t])) /\ exchange' = via[t] /\ Requests(t)
          /\ UNCHANGED <<conns, amqp, conn, channel, queueOf, fanout, chan>>
        BY <1>4 DEF DeclareExchange, At, Declared
    <2>2. pc'[t] \in {"declare", "fanout", "publish", "get", "join", "leave", "publishGroup"}
        BY <1>0, <1>3, <2>1
    <2>3. QED
        BY <2>1, <2>2 DEF Caches, OnAmqp, Places
<1>5. CASE DeclareQueue(t)
    BY <1>0, <1>5 DEF DeclareQueue, At, Waits, OnAmqp, Places, NotYet
<1>6. CASE Bind(t)
    <2>1. pc[t] = "bind" /\ Goes(t, WithQueue(op[t])) /\ Requests(t)
          /\ queueOf' = [queueOf EXCEPT ![chan[t]] = via[t]]
          /\ UNCHANGED <<conns, amqp, conn, channel, exchange, fanout, chan>>
        BY <1>6 DEF Bind, At
    <2>2. pc'[t] \in {"fanout", "publish", "get", "join", "leave", "publishGroup"}
        BY <1>0, <1>3, <2>1
    <2>3. QED
        BY <2>1, <2>2 DEF Caches, OnAmqp, Places
<1>7. CASE DeclareFanout(t)
    <2>1. pc[t] = "fanout" /\ Goes(t, Last(op[t])) /\ Requests(t) /\ fanout' = via[t]
          /\ UNCHANGED <<conns, amqp, conn, channel, exchange, queueOf, chan>>
        BY <1>7 DEF DeclareFanout, At
    <2>2. pc'[t] \in {"publish", "get", "join", "leave", "publishGroup"}
        BY <1>0, <1>3, <2>1
    <2>3. QED
        BY <2>1, <2>2 DEF Caches, OnAmqp, Places
<1>8. CASE Get(t)
    BY <1>0, <1>8 DEF Get, At, Waits, OnAmqp, Places
<1>9. CASE Publish(t) \/ PublishGroup(t) \/ Ack(t) \/ GivesUp(t) \/ Join(t) \/ Leave(t) \/ Refused(t)
           \/ Fails(t) \/ GetUnanswered(t) \/ AckInVain(t)
    <2>1. Returns(t) /\ UNCHANGED <<cacheVars, madeVars>>
        BY <1>9 DEF Publish, PublishGroup, Ack, GivesUp, Join, Leave, Refused, Fails, GetUnanswered,
           AckInVain
    <2>2. QED
        BY <1>0, <2>1 DEF Returns, On, GivenUp
<1>10. CASE Call(t)
    <2>1. PICK o \in Calling, c \in Channels : Begin(t, o, c)
        BY <1>10, BeginsAnOperation DEF Call, Begins
    <2>2. /\ pc[t] = "idle" /\ UNCHANGED <<cacheVars, madeVars>> /\ Requests(t)
          /\ pc'[t] = FromStart(o, c) /\ chan'[t] = c
        BY <1>0, <2>1 DEF Begin
    <2>3. /\ FromStart(o, c) \in
                {"connect", "open", "declare", "fanout", "publish", "publishGroup", "get", "join", "leave"}
          /\ FromStart(o, c) = "open" => conn # 0
        BY ChainSuits, LastSuits
    <2>4. QED
        BY <2>2, <2>3 DEF Requesting
<1>11. QED
    BY <1>1, <1>2, <1>4, <1>5, <1>6, <1>7, <1>8, <1>9, <1>10 DEF TaskStep, Step

LEMMA MadeKept ==
    ASSUME PlaceTypes, PlaceTypes', MadeTypes, NEW t \in Tasks, TaskStep(t)
    PROVE  MadeTypes'
<1>0. /\ conns \in Nat /\ amqp \in Seq(1 .. conns) /\ Len(amqp) \in Nat
      /\ via \in [Tasks -> Nat] /\ Made = 0 .. Len(amqp)
      /\ chan[t] \in Channels /\ chan'[t] \in Channels
    BY DEF MadeTypes, PlaceTypes, Made
<1>1. \A u \in Tasks \ {t} : pc'[u] = pc[u] /\ ViaOf(u)
    BY OthersStay DEF MadeTypes
<1>2. CASE Connected(t)
    <2>1. via'[t] = conns + 1 /\ \A u \in Tasks \ {t} : via'[u] = via[u]
        BY <1>0, <1>2 DEF Connected
    <2>2. Made' = Made /\ via' \in [Tasks -> Nat]
        BY <1>0, <1>2 DEF Connected, Made
    <2>3. ASSUME NEW u \in Tasks \ {t} PROVE ViaOf(u)'
        <3>1. pc'[u] = pc[u] /\ via'[u] = via[u] /\ ViaOf(u)
            BY <1>1, <2>1
        <3>2. pc[u] = "open" => via[u] \in 1 .. conns + 1
            BY <1>0, <3>1 DEF ViaOf
        <3>3. conns' = conns + 1
            BY <1>2 DEF Connected
        <3>4. QED
            BY <2>2, <3>1, <3>2, <3>3 DEF ViaOf
    <2>4. ViaOf(t)'
        BY <1>0, <1>2, <2>1 DEF ViaOf, Connected, OnAmqp
    <2>5. amqp' \in Seq(1 .. conns')
        BY <1>0, <1>2, SeqOfMore DEF Connected
    <2>6. QED
        BY <1>0, <1>2, <2>2, <2>3, <2>4, <2>5 DEF MadeTypes, Connected
<1>3. CASE Opened(t)
    <2>1. via'[t] = Len(amqp) + 1 /\ \A u \in Tasks \ {t} : via'[u] = via[u]
        BY <1>0, <1>3 DEF Opened
    <2>2. via[t] \in 1 .. conns
        BY <1>3 DEF Opened, MadeTypes, ViaOf
    <2>3. amqp' \in Seq(1 .. conns') /\ Len(amqp') = Len(amqp) + 1
        BY <1>0, <1>3, <2>2, AppendElements DEF Opened
    <2>4. Made' = 0 .. Len(amqp) + 1 /\ Made \subseteq Made'
        BY <1>0, <2>3 DEF Made
    <2>5. \A u \in Tasks \ {t} : ViaOf(u)'
        BY <1>0, <1>1, <1>3, <2>1, <2>3, <2>4 DEF ViaOf, Opened
    <2>6. ViaOf(t)'
        BY <1>0, <1>3, <2>1, <2>3, <2>4 DEF ViaOf, Opened
    <2>7. via' \in [Tasks -> Nat]
        BY <1>0, <1>3 DEF Opened
    <2>8. QED
        BY <1>0, <1>3, <2>3, <2>4, <2>5, <2>6, <2>7 DEF MadeTypes, Opened
<1>4. CASE Caches(t)
    <2>1. via[t] \in Made /\ Made' = Made
        BY <1>4 DEF Caches, MadeTypes, ViaOf, Made
    <2>2. /\ conn' \in 0 .. conns' /\ conns' \in Nat /\ amqp' \in Seq(1 .. conns')
          /\ channel' \in Made' /\ exchange' \in Made' /\ fanout' \in Made'
          /\ queueOf' \in [Channels -> Made']
        BY <1>0, <1>4, <2>1 DEF Caches, MadeTypes
    <2>3. Target(t)' \in Made'
        <3>1. CASE pc'[t] \in {"declare", "fanout"}
            BY <2>2, <3>1 DEF Target
        <3>2. CASE pc'[t] = "publish"
            BY <2>2, <3>2 DEF Target
        <3>3. CASE pc'[t] = "publishGroup"
            BY <2>2, <3>3 DEF Target
        <3>4. CASE pc'[t] \in {"get", "join", "leave"}
            BY <1>0, <2>2, <3>4 DEF Target
        <3>5. QED
            BY <1>4, <3>1, <3>2, <3>3, <3>4 DEF Caches
    <2>4. via' = [via EXCEPT ![t] = Target(t)']
        BY <1>4 DEF Caches, Requests, On
    <2>5. via'[t] = Target(t)' /\ (\A u \in Tasks \ {t} : via'[u] = via[u]) /\ via' \in [Tasks -> Nat]
        BY <1>0, <2>1, <2>3, <2>4
    <2>6. \A u \in Tasks \ {t} : ViaOf(u)'
        BY <1>1, <1>4, <2>1, <2>5 DEF ViaOf, Caches
    <2>7. ViaOf(t)'
        BY <1>4, <2>3, <2>5 DEF ViaOf, Caches
    <2>8. QED
        BY <2>2, <2>5, <2>6, <2>7 DEF MadeTypes
<1>5. CASE Requesting(t)
    <2>1. /\ Made' = Made /\ conn' \in 0 .. conns' /\ conns' \in Nat /\ amqp' \in Seq(1 .. conns')
          /\ channel' \in Made' /\ exchange' \in Made' /\ fanout' \in Made'
          /\ queueOf' \in [Channels -> Made']
        BY <1>0, <1>5 DEF Requesting, MadeTypes, Made
    <2>2. /\ pc'[t] = "open" => Target(t)' \in 1 .. conns'
          /\ pc'[t] \notin {"open", "connect"} => Target(t)' \in Made'
          /\ pc'[t] = "connect" => Target(t)' = 0
        <3>1. CASE pc'[t] \in {"declare", "fanout"}
            BY <2>1, <3>1 DEF Target
        <3>2. CASE pc'[t] = "publish"
            BY <2>1, <3>2 DEF Target
        <3>3. CASE pc'[t] = "publishGroup"
            BY <2>1, <3>3 DEF Target
        <3>4. CASE pc'[t] \in {"get", "join", "leave"}
            BY <1>0, <2>1, <3>4 DEF Target
        <3>5. CASE pc'[t] = "open"
            BY <1>5, <2>1, <3>5 DEF Target, Requesting
        <3>6. CASE pc'[t] = "connect"
            BY <3>6 DEF Target
        <3>7. QED
            BY <1>5, <3>1, <3>2, <3>3, <3>4, <3>5, <3>6 DEF Requesting
    <2>3. via' = [via EXCEPT ![t] = Target(t)']
        BY <1>5 DEF Requesting, Requests, On
    <2>4. Target(t)' \in Nat
        BY <1>0, <1>5, <2>1, <2>2 DEF Requesting
    <2>5. via'[t] = Target(t)' /\ (\A u \in Tasks \ {t} : via'[u] = via[u]) /\ via' \in [Tasks -> Nat]
        BY <1>0, <2>3, <2>4
    <2>6. \A u \in Tasks \ {t} : ViaOf(u)'
        BY <1>1, <1>5, <2>1, <2>5 DEF ViaOf, Requesting
    <2>7. ViaOf(t)'
        BY <1>5, <2>2, <2>5 DEF ViaOf, Requesting, OnAmqp
    <2>8. QED
        BY <2>1, <2>5, <2>6, <2>7 DEF MadeTypes
<1>6. CASE Waits(t)
    <2>1. Made' = Made /\ \A u \in Tasks : ViaOf(u)'
        BY <1>1, <1>6 DEF ViaOf, Waits, MadeTypes, Made, OnAmqp
    <2>2. QED
        BY <1>6, <2>1 DEF Waits, MadeTypes
<1>7. CASE GivenUp(t)
    <2>1. via'[t] = 0 /\ (\A u \in Tasks \ {t} : via'[u] = via[u]) /\ via' \in [Tasks -> Nat]
        BY <1>0, <1>7 DEF GivenUp
    <2>2. Made' = Made /\ \A u \in Tasks : ViaOf(u)'
        BY <1>1, <1>7, <2>1 DEF ViaOf, GivenUp, MadeTypes, Made, OnAmqp
    <2>3. QED
        BY <1>7, <2>1, <2>2 DEF GivenUp, MadeTypes
<1>8. QED
    BY <1>2, <1>3, <1>4, <1>5, <1>6, <1>7, StepMakes

-----------------------------------------------------------------------------
(* Queues and bindings.  A queue that is about to be bound is there, since *)
(* one that is used does not expire; what is bound is in the cache.        *)
TopologyInv ==
    /\ queues \subseteq Channels /\ bound \subseteq queues /\ joined \subseteq queues
    /\ expired \subseteq Channels
    /\ \A t \in Tasks : pc[t] = "bind" => chan[t] \in queues
    /\ CachedIsBound

Declares(t) ==
    /\ pc[t] # "bind" /\ queues' = queues \cup {chan[t]} /\ chan' = chan
    /\ UNCHANGED <<bound, joined, expired, queueOf>>
Binds(t) ==
    /\ pc[t] = "bind" /\ pc'[t] # "bind" /\ bound' = bound \cup {chan[t]}
    /\ queueOf' = [queueOf EXCEPT ![chan[t]] = via[t]]
    /\ UNCHANGED <<queues, joined, expired>>
Joins(t) ==
    /\ pc'[t] = "idle" /\ UNCHANGED <<queues, bound, expired, queueOf>>
    /\ joined' = joined \ {chan[t]} \/ (chan[t] \in queues /\ joined' = joined \cup {chan[t]})
TopologyStays(t) == pc'[t] # "bind" /\ UNCHANGED <<topologyVars, expired, queueOf>>

LEMMA StepTopology ==
    ASSUME PlaceTypes, NEW t \in Tasks, TaskStep(t)
    PROVE  Declares(t) \/ Binds(t) \/ Joins(t) \/ TopologyStays(t)
<1>0. /\ OpPlaces(t) /\ op[t] \in Operations /\ chan[t] \in Channels
      /\ \A place : Goes(t, place) => pc'[t] = place
      /\ Returns(t) => pc'[t] = "idle"
    BY DEF PlaceTypes, Goes, Returns
<1>1. ASSUME pc[t] # "idle"
      PROVE  WithQueue(op[t]) # "bind" /\ WithChannel(op[t], chan[t]) # "bind" /\ Last(op[t]) # "bind"
    <2>1. op[t] \in Calling
        BY <1>0, <1>1 DEF OpPlaces, Calling
    <2>2. QED
        BY <1>0, <2>1, ChainSuits, LastSuits
<1>2. CASE DeclareQueue(t)
    BY <1>2 DEF DeclareQueue, At, NotYet, Declares
<1>3. CASE Bind(t)
    BY <1>0, <1>1, <1>3 DEF Bind, At, Binds
<1>4. CASE Join(t) \/ Leave(t)
    BY <1>0, <1>4 DEF Join, Leave, Joins
<1>5. CASE Connect(t) \/ OpenChannel(t) \/ Get(t)
    BY <1>0, <1>5 DEF Connect, OpenChannel, Get, At, TopologyStays
<1>6. CASE DeclareExchange(t) \/ DeclareFanout(t)
    BY <1>0, <1>1, <1>6 DEF DeclareExchange, DeclareFanout, At, TopologyStays
<1>7. CASE Publish(t) \/ PublishGroup(t) \/ Ack(t) \/ GivesUp(t) \/ Refused(t)
           \/ Fails(t) \/ GetUnanswered(t) \/ AckInVain(t)
    BY <1>0, <1>7 DEF Publish, PublishGroup, Ack, GivesUp, Refused, Fails, GetUnanswered, AckInVain,
       TopologyStays
<1>8. CASE Call(t)
    <2>1. PICK o \in Calling, c \in Channels : Begin(t, o, c)
        BY <1>8, BeginsAnOperation DEF Call, Begins
    <2>2. pc'[t] = FromStart(o, c) /\ UNCHANGED <<topologyVars, expired, queueOf>>
        BY <1>0, <2>1 DEF Begin
    <2>3. FromStart(o, c) # "bind"
        BY ChainSuits, LastSuits
    <2>4. QED
        BY <2>2, <2>3 DEF TopologyStays
<1>9. QED
    BY <1>2, <1>3, <1>4, <1>5, <1>6, <1>7, <1>8 DEF TaskStep, Step

LEMMA TopologyKept ==
    ASSUME PlaceTypes, MadeTypes, TopologyInv, NEW t \in Tasks, TaskStep(t)
    PROVE  TopologyInv'
<1>0. /\ chan[t] \in Channels /\ queueOf \in [Channels -> Made]
      /\ \A u \in Tasks \ {t} : pc'[u] = pc[u] /\ chan'[u] = chan[u]
    BY OthersStay DEF PlaceTypes, MadeTypes
<1>1. CASE Declares(t)
    <2>1. \A u \in Tasks : pc'[u] = "bind" => chan'[u] \in queues'
        BY <1>0, <1>1 DEF TopologyInv, Declares
    <2>2. QED
        BY <1>0, <1>1, <2>1 DEF TopologyInv, Declares, CachedIsBound
<1>2. CASE Binds(t)
    <2>1. chan[t] \in queues
        BY <1>2 DEF TopologyInv, Binds
    <2>2. CachedIsBound'
        BY <1>0, <1>2 DEF TopologyInv, Binds, CachedIsBound
    <2>3. QED
        BY <1>0, <1>2, <2>1, <2>2 DEF TopologyInv, Binds
<1>3. CASE Joins(t)
    BY <1>0, <1>3 DEF TopologyInv, Joins, CachedIsBound
<1>4. CASE TopologyStays(t)
    BY <1>0, <1>4 DEF TopologyInv, TopologyStays, CachedIsBound
<1>5. QED
    BY <1>1, <1>2, <1>3, <1>4, StepTopology

LEMMA TopologyKeptByWorld ==
    ASSUME TopologyInv, WorldStep \/ UNCHANGED vars
    PROVE  TopologyInv'
<1>0. UNCHANGED <<pc, chan, queueOf>>
    BY WorldPlaces DEF NobodyMoves
<1>1. CASE \E c \in Channels : QueueExpires(c)
    <2>1. PICK c \in Channels :
              /\ queues' = queues \ {c} /\ bound' = bound \ {c} /\ joined' = joined \ {c}
              /\ expired' = expired \cup {c} /\ ~Used(c)
        BY <1>1 DEF QueueExpires
    <2>2. \A t \in Tasks : pc[t] = "bind" => chan[t] # c
        BY <2>1 DEF Used
    <2>3. QED
        BY <1>0, <2>1, <2>2 DEF TopologyInv, CachedIsBound
<1>2. CASE ~\E c \in Channels : QueueExpires(c)
    <2>1. UNCHANGED <<topologyVars, expired>>
        BY <1>2 DEF WorldStep, vars, Close, Closing, ChannelClosed, ConnectionClosed, CloseFails,
           ConnectionLost, NotFound, AckArrives, MessageExpires
    <2>2. QED
        BY <1>0, <2>1 DEF TopologyInv, CachedIsBound
<1>3. QED
    BY <1>1, <1>2

-----------------------------------------------------------------------------
(* The exchange.  An AMQP channel that others may find has its exchange,   *)
(* or somebody is declaring it, and is answered first, or that failed, or  *)
(* the channel has ended.                                                  *)
Known(n) ==
    \/ exchange # 0 \/ broken \/ ~Alive(n)
    \/ \E u \in Tasks : pc[u] = "exchange" /\ via[u] = n
KeyInv ==
    /\ broken \in BOOLEAN
    /\ channel # 0 => Known(channel)
    /\ \A t \in Tasks : pc[t] = "declare" => Known(via[t])
    /\ ExchangeKnown
    /\ \A c \in Channels : queueOf[c] # 0 => exchange # 0 \/ broken

(* What a step may do to the exchange.                                     *)
LEMMA StepExchange ==
    ASSUME PlaceTypes, MadeTypes, NEW t \in Tasks, TaskStep(t)
    PROVE  /\ UNCHANGED <<owns, closeVars>>
           /\ broken => broken'
           /\ broken \in BOOLEAN => broken' \in BOOLEAN
           /\ \/ pc[t] = "exchange" /\ exchange' = via[t] /\ via[t] # 0
              \/ exchange' = exchange
           /\ pc[t] = "exchange" => exchange' # 0 \/ broken' \/ ~Alive(via[t])
           /\ pc[t] = "exchange" => amqp' = amqp
<1>1. CASE DeclareExchange(t)
    <2>1. via[t] # 0
        BY <1>1 DEF DeclareExchange, Answered, Alive, MadeTypes
    <2>2. QED
        BY <1>1, <2>1 DEF DeclareExchange, At, Declared
<1>2. CASE Call(t) \/ Connect(t) \/ OpenChannel(t) \/ DeclareQueue(t) \/ Bind(t) \/ DeclareFanout(t)
    BY <1>2 DEF Call, Begin, Connect, OpenChannel, DeclareQueue, Bind, DeclareFanout, At
<1>3. CASE Publish(t) \/ PublishGroup(t) \/ Get(t) \/ Ack(t) \/ GivesUp(t) \/ Join(t) \/ Leave(t)
           \/ GetUnanswered(t) \/ AckInVain(t)
    BY <1>3 DEF Publish, PublishGroup, Get, At, Ack, GivesUp, Join, Leave, GetUnanswered, AckInVain
<1>4. CASE Refused(t)
    BY <1>4 DEF Refused
<1>5. CASE Fails(t)
    <2>1. /\ UNCHANGED <<owns, closeVars, exchange, amqp>>
          /\ broken' <=> broken \/ (pc[t] = "exchange" /\ exchange = 0)
          /\ broken' \in BOOLEAN
        BY <1>5 DEF Fails
    <2>2. QED
        BY <2>1
<1>6. QED
    BY <1>1, <1>2, <1>3, <1>4, <1>5 DEF TaskStep, Step

LEMMA OthersVia ==
    ASSUME PlaceTypes, MadeTypes, NEW t \in Tasks, TaskStep(t)
    PROVE  /\ \A u \in Tasks \ {t} : via'[u] = via[u]
           /\ amqp' = amqp \/ (pc[t] = "open" /\ amqp' = Append(amqp, via[t]))
<1>1. via \in [Tasks -> Nat]
    BY DEF MadeTypes
<1>2. QED
    BY <1>1, StepMakes DEF Connected, Opened, Caches, Requesting, Requests, On, Waits, GivenUp

LEMMA AliveStays ==
    ASSUME PlaceTypes, MadeTypes, NEW t \in Tasks, TaskStep(t), NEW n \in Made
    PROVE  Alive(n)' <=> Alive(n)
<1>1. amqp \in Seq(1 .. conns) /\ Len(amqp) \in Nat /\ DOMAIN amqp = 1 .. Len(amqp) /\ n \in 0 .. Len(amqp)
    BY DEF MadeTypes, Made
<1>2. UNCHANGED <<endedConns, endedChans>>
    BY StepExchange
<1>3. CASE amqp' = amqp
    BY <1>2, <1>3 DEF Alive
<1>4. CASE pc[t] = "open" /\ amqp' = Append(amqp, via[t])
    <2>1. via[t] \in 1 .. conns
        BY <1>4 DEF MadeTypes, ViaOf
    <2>2. /\ DOMAIN amqp' = 1 .. Len(amqp) + 1
          /\ \A i \in 1 .. Len(amqp) : amqp'[i] = amqp[i]
        BY <1>1, <1>4, <2>1, AppendElements
    <2>3. n \in DOMAIN amqp' <=> n \in DOMAIN amqp
        BY <1>1, <2>2
    <2>4. n \in DOMAIN amqp => amqp'[n] = amqp[n]
        BY <1>1, <2>2
    <2>5. QED
        BY <1>2, <2>3, <2>4 DEF Alive
<1>5. QED
    BY <1>3, <1>4, OthersVia

LEMMA KnownStays ==
    ASSUME PlaceTypes, MadeTypes, NEW t \in Tasks, TaskStep(t), NEW n \in Made, Known(n)
    PROVE  Known(n)'
<1>1. CASE exchange # 0 \/ broken
    BY <1>1, StepExchange DEF Known
<1>2. CASE ~Alive(n)
    BY <1>2, AliveStays DEF Known
<1>3. CASE \E u \in Tasks : pc[u] = "exchange" /\ via[u] = n
    <2>1. PICK u \in Tasks : pc[u] = "exchange" /\ via[u] = n
        BY <1>3
    <2>2. CASE u = t
        <3>1. exchange' # 0 \/ broken' \/ ~Alive(n)
            BY <2>1, <2>2, StepExchange
        <3>2. QED
            BY <3>1, AliveStays DEF Known
    <2>3. CASE u # t
        BY <2>1, <2>3, OthersStay, OthersVia DEF Known
    <2>4. QED
        BY <2>2, <2>3
<1>4. QED
    BY <1>1, <1>2, <1>3 DEF Known

(* How a task comes to where it needs the exchange.                        *)
LEMMA StepToExchange ==
    ASSUME PlaceTypes, MadeTypes, NEW t \in Tasks, TaskStep(t)
    PROVE  /\ pc'[t] = "declare" => exchange' # 0 \/ (channel # 0 /\ via'[t] = channel)
           /\ pc'[t] \in {"bind", "publish"} =>
                  \/ exchange' # 0
                  \/ pc[t] = "declare" /\ Answered(t)
                  \/ \E c \in Channels : queueOf[c] # 0
           /\ queueOf' = queueOf \/ exchange' # 0
<1>0. /\ OpPlaces(t) /\ op[t] \in Operations /\ chan[t] \in Channels
      /\ \A place : Goes(t, place) => pc'[t] = place
      /\ Returns(t) => pc'[t] = "idle"
    BY DEF PlaceTypes, Goes, Returns
<1>1. CASE Call(t)
    <2>1. PICK o \in Calling, c \in Channels : Begin(t, o, c)
        BY <1>1, BeginsAnOperation DEF Call, Begins
    <2>2. /\ pc'[t] = FromStart(o, c) /\ UNCHANGED <<queueOf, channel>>
          /\ via' = [via EXCEPT ![t] = Target(t)']
        BY <1>0, <2>1 DEF Begin, Requests, On
    <2>3. pc'[t] \in {"declare", "publish"} =>
              /\ channel # 0 /\ pc'[t] = WithChannel(o, c)
              /\ pc'[t] = "publish" => o = "send"
        BY <2>2, ChainSuits DEF Suits
    <2>4. pc'[t] = "publish" => queueOf[c] # 0
        BY <2>3, ChainSuits
    <2>5. pc'[t] = "declare" => via'[t] = channel
        <3>1. pc'[t] = "declare" => Target(t)' = channel
            BY <2>2 DEF Target
        <3>2. QED
            BY <2>2, <3>1 DEF MadeTypes
    <2>6. pc'[t] # "bind"
        BY <2>2, ChainSuits, LastSuits
    <2>7. QED
        BY <2>2, <2>3, <2>4, <2>5, <2>6
<1>2. CASE DeclareExchange(t)
    <2>1. via[t] # 0
        BY <1>2 DEF DeclareExchange, Answered, Alive, MadeTypes
    <2>2. QED
        BY <1>2, <2>1 DEF DeclareExchange, Declared
<1>3. CASE DeclareQueue(t)
    BY <1>0, <1>3 DEF DeclareQueue, At, NotYet
<1>4. CASE Bind(t)
    BY <1>4 DEF Bind
<1>5. CASE DeclareFanout(t)
    <2>1. op[t] \in {"add", "discard", "fan"} /\ op[t] \in Calling
        BY <1>0, <1>5 DEF DeclareFanout, At, OpPlaces, Suits, Calling
    <2>2. Last(op[t]) \notin {"publish", "bind", "declare"}
        BY <2>1, LastSuits DEF Suits
    <2>3. QED
        BY <1>0, <1>5, <2>2 DEF DeclareFanout, At
<1>6. CASE Connect(t) \/ OpenChannel(t) \/ Get(t)
    BY <1>0, <1>6 DEF Connect, OpenChannel, Get, At
<1>7. CASE Publish(t) \/ PublishGroup(t) \/ Ack(t) \/ GivesUp(t) \/ Join(t) \/ Leave(t) \/ Refused(t)
           \/ Fails(t) \/ GetUnanswered(t) \/ AckInVain(t)
    BY <1>0, <1>7 DEF Publish, PublishGroup, Ack, GivesUp, Join, Leave, Refused, Fails,
       GetUnanswered, AckInVain
<1>8. QED
    BY <1>1, <1>2, <1>3, <1>4, <1>5, <1>6, <1>7 DEF TaskStep, Step

LEMMA KeyKept ==
    ASSUME PlaceTypes, MadeTypes, MadeTypes', KeyInv, NEW t \in Tasks, TaskStep(t)
    PROVE  KeyInv'
<1>1. exchange # 0 \/ broken => exchange' # 0 \/ broken'
    BY StepExchange
<1>2. channel' # 0 => Known(channel)'
    <2>1. CASE channel' = channel
        BY <2>1, KnownStays DEF KeyInv, MadeTypes
    <2>2. CASE Opened(t)
        <3>1. pc'[t] = "exchange" /\ via'[t] = channel'
            BY <2>2 DEF Opened, MadeTypes
        <3>2. QED
            BY <3>1 DEF Known
    <2>3. QED
        BY <2>1, <2>2, StepMakes DEF Connected, Caches, Requesting, Waits, GivenUp
<1>3. ASSUME NEW u \in Tasks, pc'[u] = "declare" PROVE Known(via[u])'
    <2>1. CASE u # t
        <3>1. pc[u] = "declare" /\ via'[u] = via[u] /\ via[u] \in Made
            BY <1>3, <2>1, OthersStay, OthersVia DEF MadeTypes, ViaOf, OnAmqp, Places
        <3>2. Known(via[u])
            BY <3>1 DEF KeyInv
        <3>3. QED
            BY <3>1, <3>2, KnownStays DEF Known, Alive
    <2>2. CASE u = t /\ exchange' # 0
        BY <2>2 DEF Known
    <2>3. CASE u = t /\ channel # 0 /\ via'[t] = channel
        <3>1. Known(channel) /\ channel \in Made
            BY <2>3 DEF KeyInv, MadeTypes
        <3>2. QED
            BY <2>3, <3>1, KnownStays DEF Known, Alive
    <2>4. QED
        BY <1>3, <2>1, <2>2, <2>3, StepToExchange
<1>4. ASSUME NEW u \in Tasks, pc'[u] \in {"bind", "publish"} PROVE exchange' # 0 \/ broken'
    <2>1. CASE u # t
        BY <1>1, <1>4, <2>1, OthersStay DEF KeyInv, ExchangeKnown
    <2>2. CASE u = t /\ pc[t] = "declare" /\ Answered(t)
        <3>1. Known(via[t])
            BY <2>2 DEF KeyInv
        <3>2. ~\E v \in Tasks : pc[v] = "exchange" /\ via[v] = via[t]
            BY <2>2 DEF Answered
        <3>3. QED
            BY <1>1, <2>2, <3>1, <3>2 DEF Known, Answered
    <2>3. CASE \E c \in Channels : queueOf[c] # 0
        BY <1>1, <2>3 DEF KeyInv
    <2>4. QED
        BY <1>4, <2>1, <2>2, <2>3, StepToExchange
<1>5. ASSUME NEW c \in Channels, queueOf'[c] # 0 PROVE exchange' # 0 \/ broken'
    BY <1>1, <1>5, StepToExchange DEF KeyInv
<1>6. broken' \in BOOLEAN
    BY StepExchange DEF KeyInv
<1>7. QED
    BY <1>2, <1>3, <1>4, <1>5, <1>6 DEF KeyInv, ExchangeKnown

LEMMA EndedGrow ==
    ASSUME WorldStep \/ UNCHANGED vars
    PROVE  /\ endedConns \subseteq endedConns' /\ endedChans \subseteq endedChans'
           /\ UNCHANGED amqp
BY DEF WorldStep, vars, Close, Closing, ChannelClosed, ConnectionClosed, CloseFails, ConnectionLost,
   NotFound, AckArrives, MessageExpires, QueueExpires

(* A request that is cut off is made on nothing, and if it declared the    *)
(* first exchange, that has failed.                                        *)
CutFrom(t) ==
    /\ pc[t] \in OnAmqp /\ via'[t] = 0
    /\ pc[t] = "exchange" => exchange # 0 \/ broken'

LEMMA CutVia ==
    ASSUME PlaceTypes, MadeTypes, NEW ns, NEW on, CutOff(ns, Asking(ns) \ on)
    PROVE  /\ via' \in [Tasks -> Nat]
           /\ \A t \in Tasks : via'[t] = via[t] \/ CutFrom(t)
           /\ (broken => broken') /\ (broken \in BOOLEAN => broken' \in BOOLEAN)
<1> DEFINE cut == Asking(ns) \ on
<1>1. /\ via' = [u \in Tasks |-> IF u \in cut THEN 0 ELSE via[u]]
      /\ broken' = (broken \/ (exchange = 0 /\ \E u \in cut : pc[u] = "exchange"))
    BY DEF CutOff
<1>2. /\ broken => broken'
      /\ broken \in BOOLEAN => broken' \in BOOLEAN
      /\ exchange = 0 => \A u \in cut : pc[u] = "exchange" => broken'
    BY <1>1
<1>3. \A u \in cut : pc[u] \in OnAmqp
    BY DEF Asking, OnAmqp, PlaceTypes
<1> HIDE DEF cut
<1>4. via' \in [Tasks -> Nat] /\ \A u \in Tasks : via'[u] = via[u] \/ (u \in cut /\ via'[u] = 0)
    BY <1>1 DEF MadeTypes
<1>5. ASSUME NEW t \in Tasks, t \in cut, via'[t] = 0 PROVE CutFrom(t)
    BY <1>2, <1>3, <1>5 DEF CutFrom
<1>6. QED
    BY <1>2, <1>4, <1>5

LEMMA WorldVia ==
    ASSUME PlaceTypes, MadeTypes, WorldStep \/ UNCHANGED vars
    PROVE  /\ via' \in [Tasks -> Nat]
           /\ \A t \in Tasks : via'[t] = via[t] \/ CutFrom(t)
           /\ (broken => broken') /\ (broken \in BOOLEAN => broken' \in BOOLEAN)
<1>1. CASE \E t \in Tasks : NotFound(t)
    <2>1. \E ns, on : CutOff(ns, Asking(ns) \ on)
        BY <1>1 DEF NotFound
    <2>2. QED
        BY <2>1, CutVia
<1>2. CASE ConnectionLost
    <2>1. \E ns, on : CutOff(ns, Asking(ns) \ on)
        BY <1>2 DEF ConnectionLost
    <2>2. QED
        BY <2>1, CutVia
<1>3. CASE UNCHANGED <<via, broken>>
    BY <1>3 DEF MadeTypes
<1>4. QED
    BY <1>1, <1>2, <1>3 DEF WorldStep, vars, Close, Closing, ChannelClosed, ConnectionClosed,
       CloseFails, AckArrives, MessageExpires, QueueExpires

LEMMA KeyKeptByWorld ==
    ASSUME PlaceTypes, MadeTypes, KeyInv, WorldStep \/ UNCHANGED vars
    PROVE  KeyInv'
<1>1. UNCHANGED <<pc, exchange, channel, queueOf, amqp>>
    BY WorldPlaces, EndedGrow DEF NobodyMoves
<1>2. /\ \A t \in Tasks : via'[t] = via[t] \/ CutFrom(t)
      /\ (broken => broken') /\ broken' \in BOOLEAN
    BY WorldVia DEF KeyInv
<1>3. \A n : ~Alive(n) => ~Alive(n)'
    BY EndedGrow DEF Alive
<1>4. ASSUME NEW n, Known(n)
      PROVE  exchange' # 0 \/ broken' \/ ~Alive(n)' \/ \E u \in Tasks : pc'[u] = "exchange" /\ via'[u] = n
    <2>1. CASE exchange # 0 \/ broken \/ ~Alive(n)
        BY <1>1, <1>2, <1>3, <2>1
    <2>2. CASE \E u \in Tasks : pc[u] = "exchange" /\ via[u] = n
        BY <1>1, <1>2, <2>2 DEF CutFrom
    <2>3. QED
        BY <1>4, <2>1, <2>2 DEF Known
<1>5. channel # 0 => Known(channel)'
    BY <1>1, <1>4 DEF KeyInv, Known, Alive
<1>6. ASSUME NEW u \in Tasks, pc[u] = "declare" PROVE Known(via[u])'
    <2>1. CASE via'[u] = via[u]
        BY <1>4, <1>6, <2>1 DEF KeyInv, Known, Alive
    <2>2. CASE via'[u] = 0
        <3>1. 0 \notin DOMAIN amqp
            BY DEF MadeTypes
        <3>2. QED
            BY <1>1, <2>2, <3>1 DEF Known, Alive
    <2>3. QED
        BY <1>2, <2>1, <2>2 DEF CutFrom
<1>7. QED
    BY <1>1, <1>2, <1>5, <1>6 DEF KeyInv, ExchangeKnown

-----------------------------------------------------------------------------
(* close().  Unless two tasks raced the layer has one connection and one   *)
(* AMQP channel at most, opened by one task before it is closed.           *)
AtOpening == {"connect", "open"}
Lone ==
    /\ conn = conns /\ conns <= 1 /\ channel = Len(amqp) /\ Len(amqp) <= 1
    /\ \A t \in Tasks : pc[t] \in AtOpening => channel = 0 /\ ~closed
    /\ \A t \in Tasks : pc[t] = "connect" => conn = 0
    /\ \A t, u \in Tasks : pc[t] \in AtOpening /\ pc[u] \in AtOpening => t = u
    /\ closed /\ channel # 0 => channel \in endedChans
    /\ closer \in {"channel", "connection", "done", "failed"} <=> closed
    /\ closer = "done" /\ owns /\ conn # 0 => conn \in endedConns
CloseInv ==
    /\ owns \in BOOLEAN /\ raced \in BOOLEAN /\ closed \in BOOLEAN
    /\ closer \in {"open", "channel", "connection", "done", "failed"}
    /\ endedConns \subseteq Nat /\ endedChans \subseteq Nat
    /\ ~raced => Lone

LEMMA StepRaces ==
    ASSUME PlaceTypes, NEW t \in Tasks, TaskStep(t)
    PROVE  \/ Begins(t) /\ ~closed /\ (raced' <=> raced \/ (channel = 0 /\ Opening)) /\ raced' \in BOOLEAN
           \/ ~Requesting(t) /\ raced' = raced
<1>1. CASE Call(t)
    BY <1>1 DEF Call, Begins, Begin
<1>2. CASE ~Call(t)
    <2>1. pc[t] # "idle" /\ raced' = raced
        BY <1>2 DEF TaskStep, Step, Connect, OpenChannel, DeclareExchange, DeclareQueue, Bind,
           DeclareFanout, At, Publish, PublishGroup, Get, Ack, GivesUp, Join, Leave, Refused, Fails,
           GetUnanswered, AckInVain
    <2>2. QED
        BY <2>1 DEF Requesting
<1>3. QED
    BY <1>1, <1>2

LEMMA CloseKept ==
    ASSUME PlaceTypes, MadeTypes, CloseInv, NEW t \in Tasks, TaskStep(t)
    PROVE  CloseInv'
<1>0. /\ UNCHANGED <<owns, closeVars>> /\ \A u \in Tasks \ {t} : pc'[u] = pc[u]
    BY StepExchange, OthersStay
<1>1. raced' \in BOOLEAN /\ (raced => raced')
    BY StepRaces DEF CloseInv
<1>2. ASSUME ~raced' PROVE Lone'
    <2>0. Lone
        BY <1>1, <1>2 DEF CloseInv
    <2>1. CASE Connected(t)
        <3>1. conn = 0 /\ conns = 0
            BY <2>0, <2>1 DEF Connected, Lone
        <3>2. conn' = 1 /\ conns' = 1 /\ UNCHANGED <<amqp, channel>> /\ pc'[t] = "open" /\ pc[t] = "connect"
            BY <2>1, <3>1 DEF Connected
        <3>3. ~closed
            BY <2>0, <3>2 DEF Lone, AtOpening
        <3>4. QED
            BY <1>0, <2>0, <3>2, <3>3 DEF Lone, AtOpening
    <2>2. CASE Opened(t)
        <3>1. channel = 0 /\ ~closed /\ Len(amqp) = 0
            BY <2>0, <2>2 DEF Opened, Lone, AtOpening
        <3>2. via[t] \in 1 .. conns /\ amqp \in Seq(1 .. conns)
            BY <2>2 DEF Opened, MadeTypes, ViaOf
        <3>3. Len(amqp') = 1 /\ channel' = 1
            BY <2>2, <3>1, <3>2, AppendElements DEF Opened
        <3>4. UNCHANGED <<conn, conns>> /\ pc'[t] = "exchange" /\ pc[t] = "open"
            BY <2>2 DEF Opened
        <3>5. \A u \in Tasks : pc'[u] \notin AtOpening
            BY <1>0, <2>0, <3>4 DEF Lone, AtOpening
        <3>6. QED
            BY <1>0, <2>0, <3>1, <3>3, <3>4, <3>5 DEF Lone, AtOpening
    <2>3. CASE Begins(t) /\ ~closed /\ (raced' <=> raced \/ (channel = 0 /\ Opening))
        <3>1. PICK o \in Calling, c \in Channels : Begin(t, o, c)
            BY <2>3, BeginsAnOperation
        <3>2. UNCHANGED <<conn, conns, amqp, channel>> /\ pc'[t] = FromStart(o, c)
            BY <3>1 DEF Begin, Goes, PlaceTypes
        <3>3. /\ channel # 0 => pc'[t] \notin AtOpening
              /\ pc'[t] = "connect" => conn = 0
            <4>1. channel # 0 => FromStart(o, c) \notin AtOpening
                BY ChainSuits, LastSuits DEF AtOpening
            <4>2. conn # 0 => FromStart(o, c) # "connect"
                BY ChainSuits, LastSuits
            <4>3. QED
                BY <3>2, <4>1, <4>2
        <3>4. channel = 0 => \A u \in Tasks : pc[u] \notin AtOpening
            BY <1>2, <2>3 DEF Opening, AtOpening
        <3>5. QED
            BY <1>0, <2>0, <2>3, <3>2, <3>3, <3>4 DEF Lone
    <2>4. CASE Caches(t) \/ Waits(t) \/ GivenUp(t)
        <3>1. UNCHANGED <<conn, conns, amqp, channel>> /\ pc'[t] \notin AtOpening
            BY <2>4 DEF Caches, Waits, GivenUp, AtOpening, OnAmqp
        <3>2. \A u \in Tasks : pc'[u] \in AtOpening => pc'[u] = pc[u]
            BY <1>0, <3>1
        <3>3. QED
            BY <1>0, <2>0, <3>1, <3>2 DEF Lone, AtOpening
    <2>5. QED
        BY <2>1, <2>2, <2>3, <2>4, StepMakes, StepRaces
<1>3. QED
    BY <1>0, <1>1, <1>2 DEF CloseInv

LEMMA CloseKeptByWorld ==
    ASSUME MadeTypes, CloseInv, WorldStep \/ UNCHANGED vars
    PROVE  CloseInv'
<1>0. /\ UNCHANGED <<owns, conn, conns, amqp, channel, pc>>
      /\ conn \in Nat /\ channel \in Nat /\ DOMAIN amqp = 1 .. Len(amqp)
    BY WorldPlaces DEF NobodyMoves, MadeTypes, Made
<1>1. CASE Close
    <2>1. /\ ~closed /\ closed' /\ closed' \in BOOLEAN /\ closer' = IF channel # 0 THEN "channel" ELSE NextToClose
          /\ endedChans' = endedChans \cup ({channel} \ {0}) /\ endedConns' = endedConns
          /\ raced' \in BOOLEAN /\ (raced' <=> raced \/ Opening)
        BY <1>1 DEF Close, Shuts
    <2>2. closer' \in {"channel", "connection", "done"} /\ (closer' = "done" => ~(conn # 0 /\ owns))
        BY <2>1 DEF NextToClose
    <2>3. ASSUME ~raced' PROVE Lone'
        <3>1. Lone /\ \A t \in Tasks : pc[t] \notin AtOpening
            BY <2>1, <2>3 DEF CloseInv, Opening, AtOpening
        <3>2. QED
            BY <1>0, <2>1, <2>2, <3>1 DEF Lone
    <2>4. QED
        BY <1>0, <2>1, <2>2, <2>3 DEF CloseInv
<1>2. CASE ChannelClosed
    <2>1. closer = "channel" /\ closer' = NextToClose /\ UNCHANGED <<closed, endedConns, endedChans, raced>>
        BY <1>2 DEF ChannelClosed
    <2>2. closer' \in {"connection", "done"} /\ (closer' = "done" => ~(conn # 0 /\ owns))
        BY <2>1 DEF NextToClose
    <2>3. QED
        BY <1>0, <2>1, <2>2 DEF CloseInv, Lone
<1>3. CASE ConnectionClosed
    <2>1. /\ closer = "connection" /\ closer' = "done" /\ endedConns' = endedConns \cup {conn}
          /\ UNCHANGED <<closed, endedChans, raced>>
        BY <1>3 DEF ConnectionClosed
    <2>2. QED
        BY <1>0, <2>1 DEF CloseInv, Lone
<1>4. CASE CloseFails
    <2>1. /\ closer \in {"channel", "connection"} /\ closer' = "failed"
          /\ UNCHANGED <<closed, endedConns, endedChans, raced>>
        BY <1>4 DEF CloseFails
    <2>2. QED
        BY <1>0, <2>1 DEF CloseInv, Lone
<1>5. CASE UNCHANGED <<closeVars, raced>>
    BY <1>0, <1>5 DEF CloseInv, Lone
<1>6. CASE \E t \in Tasks : NotFound(t)
    <2>1. PICK t \in Tasks : NotFound(t)
        BY <1>6
    <2>2. /\ UNCHANGED <<closed, closer, endedConns, raced>>
          /\ endedChans \subseteq endedChans' /\ endedChans' \subseteq endedChans \cup {via[t]}
        BY <2>1 DEF NotFound
    <2>3. via[t] \in Nat
        BY DEF MadeTypes
    <2>4. QED
        BY <1>0, <2>2, <2>3 DEF CloseInv, Lone
<1>7. QED
    BY <1>1, <1>2, <1>3, <1>4, <1>5, <1>6 DEF WorldStep, Closing, ConnectionLost, AckArrives,
       MessageExpires, QueueExpires, vars

-----------------------------------------------------------------------------
(* Messages.  What is in a task's hand or with nobody was got on an AMQP   *)
(* channel that is alive.                                                  *)
MessageTypes ==
    /\ published \in Nat
    /\ box \in [Channels -> SUBSET Nat] /\ arrived \in [Channels -> SUBSET (1 .. published)]
    /\ lost \subseteq Channels \X Nat /\ doubted \subseteq Channels \X Nat
    /\ stranded \subseteq [chan : Channels, id : Nat, on : Made]
    /\ acks \subseteq [chan : Channels, id : Nat, on : Made \ {0}]
    /\ mine \in [Tasks -> Nat]
    /\ got \in [Tasks -> SUBSET (Channels \X Nat)]
HeldAlive ==
    /\ \A t \in Tasks : mine[t] # 0 => pc[t] = "ack" /\ Alive(via[t])
    /\ \A m \in stranded : Alive(m.on)

(* The places a message n of channel c may be in.                          *)
Holds(t, c, n) == chan[t] = c /\ mine[t] = n /\ n # 0
Left(m, c, n) == m \in stranded /\ m.chan = c /\ m.id = n
Acked(m, c, n) == m \in acks /\ m.chan = c /\ m.id = n
InHand(c, n) == \E t \in Tasks : Holds(t, c, n)
WithNobody(c, n) == \E m \in stranded : Left(m, c, n)
UnderWay(c, n) == \E m \in acks : Acked(m, c, n)
Back(c, n) == \E t \in Tasks : <<c, n>> \in got[t]
Gone(c, n) == Back(c, n) \/ <<c, n>> \in lost
Doubt(c, n) == <<c, n>> \in doubted
InPlace(c, n) ==
    /\ n \in arrived[c] <=> n \in box[c] \/ InHand(c, n) \/ WithNobody(c, n) \/ Gone(c, n)
    /\ n \in box[c] => ~InHand(c, n) /\ ~WithNobody(c, n) /\ ~UnderWay(c, n)
    /\ InHand(c, n) => ~WithNobody(c, n) /\ ~UnderWay(c, n)
    /\ WithNobody(c, n) => ~UnderWay(c, n)
    /\ (n \in box[c] \/ InHand(c, n) \/ WithNobody(c, n)) /\ Gone(c, n) => Doubt(c, n)
    /\ UnderWay(c, n) => Gone(c, n)
    /\ Back(c, n) /\ <<c, n>> \in lost => Doubt(c, n)
    /\ \A t, u \in Tasks : Holds(t, c, n) /\ Holds(u, c, n) => t = u
    /\ \A t, u \in Tasks : <<c, n>> \in got[t] /\ <<c, n>> \in got[u] => t = u \/ Doubt(c, n)
    /\ \A m, k \in stranded : Left(m, c, n) /\ Left(k, c, n) => m = k
    /\ \A m, k \in acks : Acked(m, c, n) /\ Acked(k, c, n) => m = k
Scattered == \A c \in Channels, n \in Nat : InPlace(c, n)

LEMMA Least ==
    ASSUME NEW S \in SUBSET Nat, S # {}
    PROVE  \E i \in S : \A j \in S : i <= j
<1> DEFINE R == {ss \in Nat \X Nat : ss[1] < ss[2]}
<1>1. IsWellFoundedOn(R, Nat)
    BY NatLessThanWellFounded DEF OpToRel
<1>2. PICK i \in S : \A j \in S : ~(<<j, i>> \in R)
    BY <1>1, WFMin
<1>3. ASSUME NEW j \in S PROVE i <= j
    <2>1. <<j, i>> \in Nat \X Nat /\ <<j, i>>[1] = j /\ <<j, i>>[2] = i
        OBVIOUS
    <2>2. ~(j < i)
        BY <1>2, <2>1
    <2>3. QED
        BY <2>2
<1>4. QED
    BY <1>3

LEMMA FirstInBox ==
    ASSUME MessageTypes, Scattered, NEW c \in Channels, box[c] # {}
    PROVE  First(c) \in box[c] /\ First(c) \in Nat \ {0}
<1>1. box[c] \in SUBSET Nat
    BY DEF MessageTypes
<1>2. \E i \in box[c] : \A j \in box[c] : i <= j
    BY <1>1, Least
<1>3. First(c) \in box[c]
    BY <1>2 DEF First
<1>4. First(c) \in arrived[c]
    BY <1>1, <1>3 DEF Scattered, InPlace
<1>5. QED
    BY <1>3, <1>4 DEF MessageTypes

(* A message that is in the same places as before, but that its            *)
(* acknowledgement may have arrived.                                       *)
Unmoved(c, n) ==
    /\ (n \in arrived[c])' <=> n \in arrived[c]
    /\ (n \in box[c])' <=> n \in box[c]
    /\ \A t \in Tasks : Holds(t, c, n)' <=> Holds(t, c, n)
    /\ \A m : Left(m, c, n)' <=> Left(m, c, n)
    /\ \A m : Acked(m, c, n)' => Acked(m, c, n)
    /\ \A t \in Tasks : (<<c, n>> \in got[t])' <=> <<c, n>> \in got[t]
    /\ (<<c, n>> \in lost)' <=> <<c, n>> \in lost
    /\ Doubt(c, n) => Doubt(c, n)'

LEMMA UnmovedInPlace ==
    ASSUME NEW c, NEW n, InPlace(c, n), Unmoved(c, n)
    PROVE  InPlace(c, n)'
<1>1. /\ InHand(c, n)' <=> InHand(c, n)
      /\ Back(c, n)' <=> Back(c, n)
      /\ (<<c, n>> \in lost)' <=> <<c, n>> \in lost
    BY DEF InHand, Back, Unmoved
<1>2. Gone(c, n)' <=> Gone(c, n)
    BY <1>1 DEF Gone
<1>3. WithNobody(c, n)' <=> WithNobody(c, n)
    <2>1. WithNobody(c, n) <=> \E m : Left(m, c, n)
        BY DEF WithNobody, Left
    <2>2. WithNobody(c, n)' <=> \E m : Left(m, c, n)'
        BY DEF WithNobody, Left
    <2>3. QED
        BY <2>1, <2>2 DEF Unmoved
<1>4. UnderWay(c, n)' => UnderWay(c, n)
    <2>1. UnderWay(c, n)' => \E m : Acked(m, c, n)'
        BY DEF UnderWay
    <2>2. (\E m : Acked(m, c, n)) => UnderWay(c, n)
        BY DEF UnderWay, Acked
    <2>3. QED
        BY <2>1, <2>2 DEF Unmoved
<1>5. \A m, k : Left(m, c, n)' /\ Left(k, c, n)' => m = k
    BY DEF InPlace, Unmoved, Left
<1>6. \A m, k : Acked(m, c, n)' /\ Acked(k, c, n)' => m = k
    BY DEF InPlace, Unmoved, Acked
<1>7. /\ \A t, u \in Tasks : Holds(t, c, n)' /\ Holds(u, c, n)' => t = u
      /\ \A t, u \in Tasks : (<<c, n>> \in got[t])' /\ (<<c, n>> \in got[u])' => t = u \/ Doubt(c, n)'
    BY DEF InPlace, Unmoved
<1>8. /\ (n \in arrived[c])' <=> n \in arrived[c]
      /\ (n \in box[c])' <=> n \in box[c]
      /\ Doubt(c, n) => Doubt(c, n)'
    BY DEF Unmoved
<1>9. QED
    BY <1>1, <1>2, <1>3, <1>4, <1>5, <1>6, <1>7, <1>8 DEF InPlace

(* What a task's step may do to the messages.                              *)
Delivers(t) ==
    /\ \E cs \in SUBSET Channels : Deliver(cs)
    /\ mine' = mine /\ UNCHANGED <<stranded, acks, lost, doubted, got>>
Gets(t) ==
    /\ pc'[t] = "ack" /\ box[chan[t]] # {} /\ Alive(via[t])
    /\ box' = Taken(chan[t]) /\ mine' = [mine EXCEPT ![t] = First(chan[t])]
    /\ UNCHANGED <<published, arrived, stranded, acks, lost, doubted, got, chan>>
    /\ via'[t] = via[t]
GetsAndLeaves(t) ==
    /\ box[chan[t]] # {} /\ Alive(via[t])
    /\ box' = Taken(chan[t])
    /\ stranded' = stranded \cup {[chan |-> chan[t], id |-> First(chan[t]), on |-> via[t]]}
    /\ UNCHANGED <<published, arrived, acks, lost, doubted, got, mine>>
GivesBack(t) ==
    /\ mine[t] # 0 /\ Alive(via[t])
    /\ got' = [got EXCEPT ![t] = @ \cup {<<chan[t], mine[t]>>}]
    /\ acks' = acks \cup {Mine(t)}
    /\ mine' = LetGo(t) /\ UNCHANGED <<box, published, arrived, stranded, lost, doubted>>
Loses(t) ==
    /\ mine[t] # 0 /\ Alive(via[t])
    /\ lost' = lost \cup {<<chan[t], mine[t]>>}
    /\ acks' = acks \cup {Mine(t)}
    /\ mine' = LetGo(t) /\ UNCHANGED <<box, published, arrived, stranded, doubted, got>>
Leaves(t) ==
    /\ mine[t] # 0
    /\ stranded' = stranded \cup {Mine(t)}
    /\ mine' = LetGo(t) /\ UNCHANGED <<box, published, arrived, acks, lost, doubted, got>>
NothingMoves == UNCHANGED <<messageVars, got, mine>>

LEMMA StepMessages ==
    ASSUME PlaceTypes, MessageTypes, HeldAlive, NEW t \in Tasks, TaskStep(t)
    PROVE  \/ mine[t] = 0 /\ (Delivers(t) \/ Gets(t) \/ GetsAndLeaves(t) \/ NothingMoves)
           \/ GivesBack(t) \/ Loses(t) \/ Leaves(t)
<1>0. /\ \A place : Goes(t, place) => pc'[t] = place
      /\ pc[t] # "ack" => mine[t] = 0
      /\ mine[t] = 0 => LetGo(t) = mine
    BY DEF PlaceTypes, Goes, HeldAlive, LetGo, MessageTypes
<1>1. CASE Publish(t) \/ PublishGroup(t)
    <2>1. pc[t] # "ack" /\ mine' = LetGo(t) /\ UNCHANGED <<stranded, acks, lost, doubted, got>>
        BY <1>1 DEF Publish, PublishGroup, Returns
    <2>2. \E cs \in SUBSET Channels : Deliver(cs)
        <3>1. CASE Publish(t)
            <4>1. Deliver(bound \cap {chan[t]}) /\ chan[t] \in Channels
                BY <3>1 DEF Publish, PlaceTypes
            <4>2. bound \cap {chan[t]} \in SUBSET Channels
                BY <4>1
            <4>3. QED
                BY <4>1, <4>2
        <3>2. CASE PublishGroup(t)
            <4>1. Deliver(joined)
                BY <3>2 DEF PublishGroup
            <4>2. Deliver(joined \cap Channels)
                BY <4>1 DEF Deliver
            <4>3. QED
                BY <4>2
        <3>3. QED
            BY <1>1, <3>1, <3>2
    <2>3. QED
        BY <1>0, <2>1, <2>2 DEF Delivers
<1>2. CASE Get(t)
    <2>1. via' = via /\ pc[t] = "get"
        BY <1>2 DEF Get, At
    <2>2. QED
        BY <1>0, <1>2, <2>1 DEF Get, At, Answered, Gets
<1>3. CASE Ack(t)
    BY <1>3 DEF Ack, Acknowledges, Returns, GivesBack
<1>4. CASE AckInVain(t)
    BY <1>4 DEF AckInVain, Acknowledges, Returns, Loses
<1>5. CASE GetUnanswered(t)
    <2>1. pc[t] = "get" /\ mine' = LetGo(t)
        BY <1>5 DEF GetUnanswered, Returns
    <2>2. QED
        BY <1>0, <1>5, <2>1 DEF GetUnanswered, Answered, GetsAndLeaves
<1>6. CASE Fails(t)
    <2>1. /\ mine' = LetGo(t) /\ UNCHANGED <<box, published, arrived, acks, lost, doubted, got>>
          /\ stranded' = stranded \cup IF mine[t] = 0 THEN {} ELSE {Mine(t)}
        BY <1>6 DEF Fails, Returns, Strand
    <2>2. CASE mine[t] = 0
        <3>1. stranded' = stranded
            BY <2>1, <2>2
        <3>2. QED
            BY <1>0, <2>1, <2>2, <3>1 DEF NothingMoves
    <2>3. CASE mine[t] # 0
        BY <2>1, <2>3 DEF Leaves
    <2>4. QED
        BY <2>2, <2>3
<1>7. CASE Refused(t)
    <2>1. mine[t] = 0
        BY <1>7 DEF Refused, HeldAlive
    <2>2. QED
        BY <1>0, <1>7, <2>1 DEF Refused, Returns, NothingMoves
<1>8. CASE GivesUp(t) \/ Join(t) \/ Leave(t)
    <2>1. pc[t] # "ack" /\ mine' = LetGo(t) /\ UNCHANGED <<messageVars, got>>
        BY <1>8 DEF GivesUp, Join, Leave, Returns
    <2>2. QED
        BY <1>0, <2>1 DEF NothingMoves
<1>9. CASE Connect(t) \/ OpenChannel(t) \/ DeclareExchange(t) \/ DeclareQueue(t) \/ Bind(t)
           \/ DeclareFanout(t)
    <2>1. pc[t] # "ack" /\ NothingMoves
        BY <1>9 DEF Connect, OpenChannel, DeclareExchange, DeclareQueue, Bind, DeclareFanout, At,
           NothingMoves
    <2>2. QED
        BY <1>0, <2>1
<1>10. CASE Call(t)
    <2>1. pc[t] # "ack" /\ NothingMoves
        BY <1>10 DEF Call, Begin, NothingMoves
    <2>2. QED
        BY <1>0, <2>1
<1>11. QED
    BY <1>1, <1>2, <1>3, <1>4, <1>5, <1>6, <1>7, <1>8, <1>9, <1>10 DEF TaskStep, Step

(* The types follow move by move.                                          *)
LEMMA MessageTypesKept ==
    ASSUME PlaceTypes, MadeTypes, MessageTypes, HeldAlive, Scattered, Made \subseteq Made',
           NEW t \in Tasks,
           Delivers(t) \/ Gets(t) \/ GetsAndLeaves(t) \/ NothingMoves \/ GivesBack(t) \/ Loses(t)
           \/ Leaves(t)
    PROVE  MessageTypes'
<1>0. chan[t] \in Channels /\ mine[t] \in Nat /\ Made \subseteq Made'
    BY DEF PlaceTypes, MessageTypes
<1>1. CASE Delivers(t)
    <2>1. published + 1 \in Nat /\ 1 .. published \subseteq 1 .. published + 1
        BY DEF MessageTypes
    <2>2. /\ published' = published + 1
          /\ box' \in [Channels -> SUBSET Nat] /\ arrived' \in [Channels -> SUBSET (1 .. published + 1)]
        BY <1>1, <2>1 DEF Delivers, Deliver, MessageTypes
    <2>3. /\ stranded' \subseteq [chan : Channels, id : Nat, on : Made']
          /\ acks' \subseteq [chan : Channels, id : Nat, on : Made' \ {0}]
        BY <1>0, <1>1 DEF Delivers, MessageTypes
    <2>4. QED
        BY <1>1, <2>1, <2>2, <2>3 DEF Delivers, MessageTypes
<1>2. ASSUME box[chan[t]] # {}
      PROVE  First(chan[t]) \in Nat /\ Taken(chan[t]) \in [Channels -> SUBSET Nat]
    BY <1>0, <1>2, FirstInBox DEF MessageTypes, Taken
<1>3. /\ stranded \subseteq [chan : Channels, id : Nat, on : Made']
      /\ acks \subseteq [chan : Channels, id : Nat, on : Made' \ {0}]
    BY <1>0 DEF MessageTypes
<1>11. ASSUME mine[t] # 0, Alive(via[t])
       PROVE  /\ Mine(t) \in [chan : Channels, id : Nat, on : Made']
              /\ Mine(t) \in [chan : Channels, id : Nat, on : Made' \ {0}]
    <2>1. via[t] \in Made \ {0}
        BY <1>11 DEF Alive, MadeTypes, Made
    <2>2. QED
        BY <1>0, <2>1 DEF Mine
<1>4. CASE Gets(t)
    BY <1>2, <1>3, <1>4 DEF Gets, MessageTypes
<1>5. CASE GetsAndLeaves(t)
    <2>1. via[t] \in Made'
        BY <1>0, <1>5, <1>2 DEF GetsAndLeaves, Alive, MadeTypes, Made
    <2>2. [chan |-> chan[t], id |-> First(chan[t]), on |-> via[t]] \in [chan : Channels, id : Nat, on : Made']
        BY <1>0, <1>2, <1>5, <2>1 DEF GetsAndLeaves
    <2>3. stranded' \subseteq [chan : Channels, id : Nat, on : Made']
        BY <1>3, <1>5, <2>2 DEF GetsAndLeaves
    <2>4. QED
        BY <1>2, <1>5, <2>3 DEF GetsAndLeaves, MessageTypes
<1>6. CASE NothingMoves
    BY <1>3, <1>6 DEF NothingMoves, MessageTypes
<1>7. CASE GivesBack(t)
    <2>1. acks' \subseteq [chan : Channels, id : Nat, on : Made' \ {0}]
        BY <1>3, <1>7, <1>11 DEF GivesBack
    <2>2. QED
        BY <1>0, <1>3, <1>7, <2>1 DEF GivesBack, MessageTypes, LetGo
<1>8. CASE Loses(t)
    <2>1. acks' \subseteq [chan : Channels, id : Nat, on : Made' \ {0}]
        BY <1>3, <1>8, <1>11 DEF Loses
    <2>2. QED
        BY <1>0, <1>3, <1>8, <2>1 DEF Loses, MessageTypes, LetGo
<1>9. CASE Leaves(t)
    <2>1. Alive(via[t])
        BY <1>9 DEF Leaves, HeldAlive
    <2>2. stranded' \subseteq [chan : Channels, id : Nat, on : Made']
        BY <1>3, <1>9, <1>11, <2>1 DEF Leaves
    <2>3. QED
        BY <1>3, <1>9, <2>2 DEF Leaves, MessageTypes, LetGo
<1>10. QED
    BY <1>1, <1>4, <1>5, <1>6, <1>7, <1>8, <1>9

LEMMA HeldAliveKept ==
    ASSUME PlaceTypes, MadeTypes, MessageTypes, HeldAlive, NEW t \in Tasks, TaskStep(t)
    PROVE  HeldAlive'
<1>1. \A n : Alive(n) => n \in Made
    BY DEF MadeTypes, Alive, Made
<1>2. \A n \in Made : Alive(n)' <=> Alive(n)
    BY AliveStays
<1>3. /\ \A n : Alive(n) => n \in Made /\ Alive(n)'
      /\ \A u \in Tasks \ {t} : pc'[u] = pc[u] /\ via'[u] = via[u]
      /\ mine \in [Tasks -> Nat] /\ via \in [Tasks -> Nat]
    BY <1>1, <1>2, OthersStay, OthersVia DEF MadeTypes, MessageTypes
<1>4. ASSUME NEW u \in Tasks, u # t, mine'[u] # 0 PROVE pc'[u] = "ack" /\ Alive(via[u])'
    <2>1. mine'[u] = mine[u]
        BY <1>3, <1>4, StepMessages DEF Delivers, Gets, GetsAndLeaves, NothingMoves, GivesBack, Loses,
           Leaves, LetGo
    <2>2. pc[u] = "ack" /\ Alive(via[u]) /\ pc'[u] = pc[u] /\ via'[u] = via[u]
        BY <1>3, <1>4, <2>1 DEF HeldAlive
    <2>3. QED
        BY <1>3, <2>2 DEF Alive
<1>5. ASSUME mine'[t] # 0 PROVE pc'[t] = "ack" /\ Alive(via[t])'
    <2>1. CASE Gets(t)
        BY <1>3, <2>1 DEF Gets, Alive
    <2>2. CASE mine[t] = 0 /\ ~Gets(t)
        BY <1>3, <1>5, <2>2, StepMessages DEF Delivers, GetsAndLeaves, NothingMoves, GivesBack, Loses,
           Leaves
    <2>3. CASE mine[t] # 0 /\ ~Gets(t)
        BY <1>3, <1>5, <2>3, StepMessages DEF GivesBack, Loses, Leaves, LetGo
    <2>4. QED
        BY <2>1, <2>2, <2>3
<1>6. ASSUME NEW m \in stranded' PROVE Alive(m.on)'
    <2>1. CASE m \in stranded
        BY <1>3, <2>1 DEF HeldAlive, Alive
    <2>2. CASE m \notin stranded
        <3>1. m.on = via[t] /\ Alive(via[t])
            BY <1>6, <2>2, StepMessages DEF Delivers, Gets, GetsAndLeaves, NothingMoves, GivesBack,
               Loses, Leaves, Mine, HeldAlive
        <3>2. QED
            BY <1>3, <3>1 DEF Alive
    <2>3. QED
        BY <2>1, <2>2
<1>7. QED
    BY <1>4, <1>5, <1>6 DEF HeldAlive

(* Each move takes a message from one place to another.                    *)
LEMMA DeliversKept ==
    ASSUME MessageTypes, Scattered, chan \in [Tasks -> Channels], NEW t \in Tasks, Delivers(t),
           mine[t] = 0, \A u \in Tasks \ {t} : chan'[u] = chan[u]
    PROVE  Scattered'
<1>1. PICK cs \in SUBSET Channels : Deliver(cs)
    BY DEF Delivers
<1>2. /\ published' = published + 1 /\ published \in Nat
      /\ UNCHANGED <<stranded, acks, lost, doubted, got, mine>>
      /\ \A c \in Channels :
             /\ box'[c] = box[c] \cup IF c \in cs THEN {published + 1} ELSE {}
             /\ arrived'[c] = arrived[c] \cup IF c \in cs THEN {published + 1} ELSE {}
             /\ arrived[c] \subseteq 1 .. published
    BY <1>1 DEF Delivers, Deliver, MessageTypes
<1>3. ASSUME NEW c \in Channels, NEW n \in Nat PROVE InPlace(c, n)'
    <2>0. InPlace(c, n)
        BY DEF Scattered
    <2>1. \A u \in Tasks : Holds(u, c, n)' <=> Holds(u, c, n)
        BY <1>2 DEF Holds
    <2>2. CASE c \notin cs \/ n # published + 1
        <3>1. Unmoved(c, n)
            BY <1>2, <2>1, <2>2 DEF Unmoved, Left, Acked, Doubt
        <3>2. QED
            BY <2>0, <3>1, UnmovedInPlace
    <2>3. CASE c \in cs /\ n = published + 1
        <3>1. n \notin arrived[c]
            BY <1>2, <2>3
        <3>2. ~InHand(c, n) /\ ~WithNobody(c, n) /\ ~Gone(c, n) /\ ~UnderWay(c, n)
            BY <2>0, <3>1 DEF InPlace
        <3>3. n \in box'[c] /\ n \in arrived'[c]
            BY <1>2, <2>3
        <3>4. ~InHand(c, n)'
            BY <2>1, <3>2 DEF InHand
        <3>5. ~WithNobody(c, n)' /\ ~UnderWay(c, n)'
            BY <1>2, <3>2 DEF WithNobody, UnderWay, Left, Acked
        <3>6. ~Back(c, n)' /\ <<c, n>> \notin lost'
            BY <1>2, <3>2 DEF Gone, Back
        <3>7. QED
            BY <3>3, <3>4, <3>5, <3>6 DEF InPlace, InHand, WithNobody, UnderWay, Gone, Back
    <2>4. QED
        BY <2>2, <2>3
<1>4. QED
    BY <1>3 DEF Scattered

(* Where it was returned or lost, and whether that is in doubt, stays.     *)
GoneStays == UNCHANGED <<got, lost, doubted>>

LEMMA GoneInPlace ==
    ASSUME NEW c, NEW n, InPlace(c, n), GoneStays, Gone(c, n) => Doubt(c, n),
           (n \in arrived[c])', (n \notin box[c])', ~UnderWay(c, n)',
           \/ ~WithNobody(c, n)' /\ \E t \in Tasks : \A u \in Tasks : Holds(u, c, n)' <=> u = t
           \/ ~InHand(c, n)' /\ \E k \in stranded' : \A m : Left(m, c, n)' <=> m = k
    PROVE  InPlace(c, n)'
<1>1. /\ Gone(c, n)' <=> Gone(c, n)
      /\ Doubt(c, n)' <=> Doubt(c, n)
      /\ (Back(c, n) /\ <<c, n>> \in lost)' => Doubt(c, n)'
      /\ \A t, u \in Tasks : (<<c, n>> \in got[t])' /\ (<<c, n>> \in got[u])' => t = u \/ Doubt(c, n)'
    BY DEF GoneStays, Gone, Back, Doubt, InPlace
<1>2. /\ InHand(c, n)' \/ WithNobody(c, n)'
      /\ InHand(c, n)' => ~WithNobody(c, n)'
      /\ \A t, u \in Tasks : Holds(t, c, n)' /\ Holds(u, c, n)' => t = u
      /\ \A m, k : Left(m, c, n)' /\ Left(k, c, n)' => m = k
    <2>1. CASE ~WithNobody(c, n)' /\ \E t \in Tasks : \A u \in Tasks : Holds(u, c, n)' <=> u = t
        <3>1. \A m : ~Left(m, c, n)'
            BY <2>1 DEF WithNobody, Left
        <3>2. QED
            BY <2>1, <3>1 DEF InHand
    <2>2. CASE ~InHand(c, n)' /\ \E k \in stranded' : \A m : Left(m, c, n)' <=> m = k
        <3>1. \A u \in Tasks : ~Holds(u, c, n)'
            BY <2>2 DEF InHand
        <3>2. QED
            BY <2>2, <3>1 DEF WithNobody
    <2>3. QED
        BY <2>1, <2>2
<1>3. \A m \in acks' : ~Acked(m, c, n)'
    BY DEF UnderWay
<1>4. QED
    BY <1>1, <1>2, <1>3 DEF InPlace

LEMMA TakenBox ==
    ASSUME MessageTypes, Scattered, NEW c \in Channels, box[c] # {}, box' = Taken(c)
    PROVE  /\ First(c) \in Nat \ {0} /\ First(c) \in box[c] /\ First(c) \notin box'[c]
           /\ \A d \in Channels, n \in Nat :
                  d # c \/ n # First(c) => (n \in box'[d] <=> n \in box[d])
           /\ First(c) \in arrived[c] /\ ~InHand(c, First(c)) /\ ~WithNobody(c, First(c))
           /\ ~UnderWay(c, First(c)) /\ (Gone(c, First(c)) => Doubt(c, First(c)))
           /\ InPlace(c, First(c))
<1>1. First(c) \in Nat \ {0} /\ First(c) \in box[c]
    BY FirstInBox
<1>2. InPlace(c, First(c))
    BY <1>1 DEF Scattered
<1>3. box' = [box EXCEPT ![c] = box[c] \ {First(c)}] /\ box \in [Channels -> SUBSET Nat]
    BY DEF Taken, MessageTypes
<1>4. QED
    BY <1>1, <1>2, <1>3 DEF InPlace

LEMMA GetsKept ==
    ASSUME MessageTypes, Scattered, chan \in [Tasks -> Channels], NEW t \in Tasks, Gets(t), mine[t] = 0
    PROVE  Scattered'
<1> DEFINE c0 == chan[t]  n0 == First(c0)
<1>1. /\ c0 \in Channels /\ box' = Taken(c0) /\ mine' = [mine EXCEPT ![t] = n0]
      /\ UNCHANGED <<published, arrived, stranded, acks, lost, doubted, got, chan>> /\ box[c0] # {}
    BY DEF Gets
<1>2. /\ n0 \in Nat \ {0} /\ n0 \in box[c0] /\ n0 \notin box'[c0]
      /\ \A d \in Channels, n \in Nat : d # c0 \/ n # n0 => (n \in box'[d] <=> n \in box[d])
      /\ n0 \in arrived[c0] /\ ~InHand(c0, n0) /\ ~WithNobody(c0, n0) /\ ~UnderWay(c0, n0)
      /\ Gone(c0, n0) => Doubt(c0, n0)
    BY <1>1, TakenBox
<1>3. mine'[t] = n0 /\ \A u \in Tasks \ {t} : mine'[u] = mine[u]
    BY <1>1 DEF MessageTypes
<1>4. chan[t] = c0
    OBVIOUS
<1> HIDE DEF c0, n0
<1>5. ASSUME NEW c \in Channels, NEW n \in Nat PROVE InPlace(c, n)'
    <2>0. InPlace(c, n)
        BY DEF Scattered
    <2>1. CASE c # c0 \/ n # n0
        <3>1. \A u \in Tasks : Holds(u, c, n)' <=> Holds(u, c, n)
            BY <1>1, <1>3, <1>4, <2>1 DEF Holds
        <3>2. Unmoved(c, n)
            BY <1>1, <1>2, <2>1, <3>1 DEF Unmoved, Left, Acked, Doubt
        <3>3. QED
            BY <2>0, <3>2, UnmovedInPlace
    <2>2. CASE c = c0 /\ n = n0
        <3>1. \A u \in Tasks : Holds(u, c, n)' <=> u = t
            BY <1>1, <1>2, <1>3, <1>4, <2>2 DEF Holds, InHand
        <3>2. InHand(c, n)'
            BY <3>1 DEF InHand
        <3>3. n \in arrived'[c] /\ n \notin box'[c] /\ ~WithNobody(c, n)' /\ ~UnderWay(c, n)'
            BY <1>1, <1>2, <2>2 DEF WithNobody, Left, UnderWay, Acked
        <3>4. GoneStays
            BY <1>1 DEF GoneStays
        <3>5. QED
            BY <1>2, <2>0, <2>2, <3>1, <3>2, <3>3, <3>4, GoneInPlace DEF WithNobody, UnderWay
    <2>3. QED
        BY <2>1, <2>2
<1>6. QED
    BY <1>5 DEF Scattered

LEMMA GetsAndLeavesKept ==
    ASSUME MessageTypes, Scattered, chan \in [Tasks -> Channels], NEW t \in Tasks, GetsAndLeaves(t),
           mine[t] = 0, \A u \in Tasks \ {t} : chan'[u] = chan[u]
    PROVE  Scattered'
<1> DEFINE c0 == chan[t]  n0 == First(c0)  m0 == [chan |-> c0, id |-> n0, on |-> via[t]]
<1>1. /\ c0 \in Channels /\ box' = Taken(c0) /\ stranded' = stranded \cup {m0}
      /\ UNCHANGED <<published, arrived, mine, acks, lost, doubted, got>> /\ box[c0] # {}
    BY DEF GetsAndLeaves
<1>2. /\ n0 \in Nat \ {0} /\ n0 \in box[c0] /\ n0 \notin box'[c0]
      /\ \A d \in Channels, n \in Nat : d # c0 \/ n # n0 => (n \in box'[d] <=> n \in box[d])
      /\ n0 \in arrived[c0] /\ ~InHand(c0, n0) /\ ~WithNobody(c0, n0) /\ ~UnderWay(c0, n0)
      /\ Gone(c0, n0) => Doubt(c0, n0)
    BY <1>1, TakenBox
<1>3. m0.chan = c0 /\ m0.id = n0
    OBVIOUS
<1> HIDE DEF c0, n0, m0
<1>4. \A u \in Tasks : \A c, n : Holds(u, c, n)' <=> Holds(u, c, n)
    BY <1>1 DEF Holds
<1>5. ASSUME NEW c \in Channels, NEW n \in Nat PROVE InPlace(c, n)'
    <2>0. InPlace(c, n)
        BY DEF Scattered
    <2>1. CASE c # c0 \/ n # n0
        <3>1. \A m : Left(m, c, n)' <=> Left(m, c, n)
            BY <1>1, <1>3, <2>1 DEF Left
        <3>2. Unmoved(c, n)
            BY <1>1, <1>2, <1>4, <2>1, <3>1 DEF Unmoved, Acked, Doubt
        <3>3. QED
            BY <2>0, <3>2, UnmovedInPlace
    <2>2. CASE c = c0 /\ n = n0
        <3>1. \A m : Left(m, c, n)' <=> m = m0
            BY <1>1, <1>2, <1>3, <2>2 DEF Left, WithNobody
        <3>2. m0 \in stranded'
            BY <1>1
        <3>3. n \in arrived'[c] /\ n \notin box'[c] /\ ~InHand(c, n)' /\ ~UnderWay(c, n)'
            BY <1>1, <1>2, <1>4, <2>2 DEF InHand, UnderWay, Acked
        <3>4. GoneStays
            BY <1>1 DEF GoneStays
        <3>5. QED
            BY <1>2, <2>0, <2>2, <3>1, <3>2, <3>3, <3>4, GoneInPlace
    <2>3. QED
        BY <2>1, <2>2
<1>6. QED
    BY <1>5 DEF Scattered

(* A message that was in t's hand, and no longer is.                       *)
LEMMA LetGoOf ==
    ASSUME MessageTypes, Scattered, chan \in [Tasks -> Channels], NEW t \in Tasks, mine[t] # 0,
           mine' = LetGo(t), \A u \in Tasks \ {t} : chan'[u] = chan[u]
    PROVE  /\ mine[t] \in Nat \ {0} /\ chan[t] \in Channels
           /\ \A u \in Tasks : \A c, n :
                  c # chan[t] \/ n # mine[t] => (Holds(u, c, n)' <=> Holds(u, c, n))
           /\ \A c, n : c = chan[t] /\ n = mine[t] =>
                  ~InHand(c, n)' /\ InHand(c, n) /\ InPlace(c, n)
<1>1. mine[t] \in Nat \ {0} /\ mine \in [Tasks -> Nat] /\ chan[t] \in Channels
    BY DEF MessageTypes
<1>2. mine'[t] = 0 /\ \A u \in Tasks \ {t} : mine'[u] = mine[u]
    BY <1>1 DEF LetGo
<1>3. Holds(t, chan[t], mine[t]) /\ InPlace(chan[t], mine[t])
    BY <1>1 DEF Holds, Scattered
<1>4. ASSUME NEW u \in Tasks, NEW c, NEW n, c # chan[t] \/ n # mine[t]
      PROVE  Holds(u, c, n)' <=> Holds(u, c, n)
    BY <1>2, <1>4 DEF Holds
<1>5. ASSUME NEW u \in Tasks PROVE ~(chan'[u] = chan[t] /\ mine'[u] = mine[t])
    <2>1. CASE u = t
        BY <1>1, <1>2, <2>1
    <2>2. CASE u # t
        BY <1>1, <1>2, <1>3, <2>2 DEF InPlace, Holds
    <2>3. QED
        BY <2>1, <2>2
<1>6. ASSUME NEW c, NEW n, c = chan[t], n = mine[t]
      PROVE  ~InHand(c, n)' /\ InHand(c, n) /\ InPlace(c, n)
    <2>1. \A u \in Tasks : ~(chan'[u] = c /\ mine'[u] = n)
        BY <1>5, <1>6
    <2>2. QED
        BY <1>3, <1>6, <2>1 DEF InHand, Holds
<1>7. QED
    BY <1>1, <1>4, <1>6

LEMMA GivesBackKept ==
    ASSUME MessageTypes, Scattered, chan \in [Tasks -> Channels], NEW t \in Tasks, GivesBack(t),
           \A u \in Tasks \ {t} : chan'[u] = chan[u]
    PROVE  Scattered'
<1> DEFINE c0 == chan[t]  n0 == mine[t]  m0 == Mine(t)
<1>1. /\ mine' = LetGo(t) /\ UNCHANGED <<box, arrived, stranded, lost, doubted>> /\ mine[t] # 0
      /\ got' = [got EXCEPT ![t] = got[t] \cup {<<c0, n0>>}] /\ acks' = acks \cup {m0}
    BY DEF GivesBack
<1>2. /\ \A u \in Tasks : \A c, n : c # c0 \/ n # n0 => (Holds(u, c, n)' <=> Holds(u, c, n))
      /\ \A c, n : c = c0 /\ n = n0 => ~InHand(c, n)' /\ InHand(c, n) /\ InPlace(c, n)
    BY <1>1, LetGoOf
<1>3. /\ got'[t] = got[t] \cup {<<c0, n0>>}
      /\ \A u \in Tasks \ {t} : got'[u] = got[u]
    BY <1>1 DEF MessageTypes
<1>4. m0.chan = c0 /\ m0.id = n0
    BY DEF Mine
<1> HIDE DEF c0, n0, m0
<1>5. ASSUME NEW c \in Channels, NEW n \in Nat PROVE InPlace(c, n)'
    <2>1. CASE c # c0 \/ n # n0
        <3>1. \A u \in Tasks : <<c, n>> \in got'[u] <=> <<c, n>> \in got[u]
            BY <1>3, <2>1
        <3>2. \A m : Acked(m, c, n)' => Acked(m, c, n)
            BY <1>1, <1>4, <2>1 DEF Acked
        <3>3. Unmoved(c, n)
            BY <1>1, <1>2, <2>1, <3>1, <3>2 DEF Unmoved, Left, Doubt
        <3>4. QED
            BY <3>3, UnmovedInPlace DEF Scattered
    <2>2. CASE c = c0 /\ n = n0
        <3>1. ~InHand(c, n)' /\ InHand(c, n) /\ InPlace(c, n)
            BY <1>2, <2>2
        <3>2. /\ n \in arrived[c] /\ n \notin box[c] /\ ~WithNobody(c, n) /\ ~UnderWay(c, n)
              /\ Gone(c, n) => Doubt(c, n)
            BY <3>1 DEF InPlace
        <3>3. /\ (n \in arrived[c])' /\ (n \notin box[c])' /\ ~WithNobody(c, n)'
              /\ Doubt(c, n)' <=> Doubt(c, n)
            BY <1>1, <3>2 DEF WithNobody, Left, Doubt
        <3>4. Back(c, n)' /\ \A u \in Tasks : (<<c, n>> \in got[u])' => u = t \/ Gone(c, n)
            BY <1>3, <2>2 DEF Back, Gone
        <3>5. (<<c, n>> \in lost)' => Gone(c, n)
            BY <1>1 DEF Gone
        <3>6. \A m : Acked(m, c, n)' => m = m0
            BY <1>1, <3>2 DEF UnderWay, Acked
        <3>7. QED
            BY <3>1, <3>2, <3>3, <3>4, <3>5, <3>6 DEF InPlace, InHand, WithNobody, Gone
    <2>3. QED
        BY <2>1, <2>2
<1>6. QED
    BY <1>5 DEF Scattered

LEMMA LosesKept ==
    ASSUME MessageTypes, Scattered, chan \in [Tasks -> Channels], NEW t \in Tasks, Loses(t),
           \A u \in Tasks \ {t} : chan'[u] = chan[u]
    PROVE  Scattered'
<1> DEFINE c0 == chan[t]  n0 == mine[t]  m0 == Mine(t)
<1>1. /\ mine' = LetGo(t) /\ UNCHANGED <<box, arrived, stranded, doubted, got>> /\ mine[t] # 0
      /\ lost' = lost \cup {<<c0, n0>>} /\ acks' = acks \cup {m0}
    BY DEF Loses
<1>2. /\ \A u \in Tasks : \A c, n : c # c0 \/ n # n0 => (Holds(u, c, n)' <=> Holds(u, c, n))
      /\ \A c, n : c = c0 /\ n = n0 => ~InHand(c, n)' /\ InHand(c, n) /\ InPlace(c, n)
    BY <1>1, LetGoOf
<1>3. m0.chan = c0 /\ m0.id = n0
    BY DEF Mine
<1> HIDE DEF c0, n0, m0
<1>4. ASSUME NEW c \in Channels, NEW n \in Nat PROVE InPlace(c, n)'
    <2>1. CASE c # c0 \/ n # n0
        <3>1. <<c, n>> \in lost' <=> <<c, n>> \in lost
            BY <1>1, <2>1
        <3>2. \A m : Acked(m, c, n)' => Acked(m, c, n)
            BY <1>1, <1>3, <2>1 DEF Acked
        <3>3. Unmoved(c, n)
            BY <1>1, <1>2, <2>1, <3>1, <3>2 DEF Unmoved, Left, Doubt
        <3>4. QED
            BY <3>3, UnmovedInPlace DEF Scattered
    <2>2. CASE c = c0 /\ n = n0
        <3>1. ~InHand(c, n)' /\ InHand(c, n) /\ InPlace(c, n)
            BY <1>2, <2>2
        <3>2. /\ n \in arrived[c] /\ n \notin box[c] /\ ~WithNobody(c, n) /\ ~UnderWay(c, n)
              /\ Gone(c, n) => Doubt(c, n)
            BY <3>1 DEF InPlace
        <3>3. /\ (n \in arrived[c])' /\ (n \notin box[c])' /\ ~WithNobody(c, n)'
              /\ Doubt(c, n)' <=> Doubt(c, n)
            BY <1>1, <3>2 DEF WithNobody, Left, Doubt
        <3>4. (<<c, n>> \in lost)'
            BY <1>1, <2>2
        <3>5. \A u \in Tasks : (<<c, n>> \in got[u])' => Gone(c, n)
            BY <1>1 DEF Gone, Back
        <3>6. \A m : Acked(m, c, n)' => m = m0
            BY <1>1, <3>2 DEF UnderWay, Acked
        <3>7. QED
            BY <3>1, <3>2, <3>3, <3>4, <3>5, <3>6 DEF InPlace, InHand, WithNobody, Gone, Back
    <2>3. QED
        BY <2>1, <2>2
<1>5. QED
    BY <1>4 DEF Scattered

LEMMA LeavesKept ==
    ASSUME MessageTypes, Scattered, chan \in [Tasks -> Channels], NEW t \in Tasks, Leaves(t),
           \A u \in Tasks \ {t} : chan'[u] = chan[u]
    PROVE  Scattered'
<1> DEFINE c0 == chan[t]  n0 == mine[t]  m0 == Mine(t)
<1>1. /\ mine' = LetGo(t) /\ UNCHANGED <<box, arrived, got, acks, lost, doubted>> /\ mine[t] # 0
      /\ stranded' = stranded \cup {m0}
    BY DEF Leaves
<1>2. /\ \A u \in Tasks : \A c, n : c # c0 \/ n # n0 => (Holds(u, c, n)' <=> Holds(u, c, n))
      /\ \A c, n : c = c0 /\ n = n0 => ~InHand(c, n)' /\ InHand(c, n) /\ InPlace(c, n)
    BY <1>1, LetGoOf
<1>3. m0.chan = c0 /\ m0.id = n0
    BY DEF Mine
<1> HIDE DEF c0, n0, m0
<1>4. ASSUME NEW c \in Channels, NEW n \in Nat PROVE InPlace(c, n)'
    <2>1. CASE c # c0 \/ n # n0
        <3>1. \A m : Left(m, c, n)' <=> Left(m, c, n)
            BY <1>1, <1>3, <2>1 DEF Left
        <3>2. Unmoved(c, n)
            BY <1>1, <1>2, <2>1, <3>1 DEF Unmoved, Acked, Doubt
        <3>3. QED
            BY <3>2, UnmovedInPlace DEF Scattered
    <2>2. CASE c = c0 /\ n = n0
        <3>1. ~InHand(c, n)' /\ InHand(c, n) /\ InPlace(c, n)
            BY <1>2, <2>2
        <3>2. /\ n \in arrived[c] /\ n \notin box[c] /\ ~WithNobody(c, n) /\ ~UnderWay(c, n)
              /\ Gone(c, n) => Doubt(c, n)
            BY <3>1 DEF InPlace
        <3>3. \A m : Left(m, c, n)' <=> m = m0
            BY <1>1, <1>3, <2>2, <3>2 DEF Left, WithNobody
        <3>4. m0 \in stranded'
            BY <1>1
        <3>5. (n \in arrived[c])' /\ (n \notin box[c])' /\ ~UnderWay(c, n)'
            BY <1>1, <3>2 DEF UnderWay, Acked
        <3>6. GoneStays
            BY <1>1 DEF GoneStays
        <3>7. QED
            BY <3>1, <3>2, <3>3, <3>4, <3>5, <3>6, GoneInPlace
    <2>3. QED
        BY <2>1, <2>2
<1>5. QED
    BY <1>4 DEF Scattered

LEMMA NothingMovesKept ==
    ASSUME Scattered, NothingMoves, \A t \in Tasks : mine[t] # 0 => chan'[t] = chan[t]
    PROVE  Scattered'
<1>1. ASSUME NEW c \in Channels, NEW n \in Nat PROVE InPlace(c, n)'
    <2>1. \A u \in Tasks : Holds(u, c, n)' <=> Holds(u, c, n)
        BY DEF Holds, NothingMoves
    <2>2. Unmoved(c, n)
        BY <2>1 DEF Unmoved, NothingMoves, Left, Acked, Doubt
    <2>3. QED
        BY <2>2, UnmovedInPlace DEF Scattered
<1>2. QED
    BY <1>1 DEF Scattered

LEMMA ScatteredKept ==
    ASSUME PlaceTypes, MadeTypes, MessageTypes, HeldAlive, Scattered, NEW t \in Tasks, TaskStep(t)
    PROVE  Scattered'
<1>1. chan \in [Tasks -> Channels] /\ \A u \in Tasks \ {t} : chan'[u] = chan[u]
    BY OthersStay DEF PlaceTypes
<1>2. CASE mine[t] = 0 /\ (Delivers(t) \/ Gets(t) \/ GetsAndLeaves(t) \/ NothingMoves)
    BY <1>1, <1>2, DeliversKept, GetsKept, GetsAndLeavesKept, NothingMovesKept
<1>3. CASE GivesBack(t) \/ Loses(t) \/ Leaves(t)
    BY <1>1, <1>3, GivesBackKept, LosesKept, LeavesKept
<1>4. QED
    BY <1>2, <1>3, StepMessages

(* What the other steps may do to the messages: those got on the AMQP      *)
(* channels ns, and those whose acknowledgements are void, are back.       *)
Requeues(ns, void) ==
    /\ Requeue(ns, void) /\ UNCHANGED <<published, arrived, lost>>
    /\ void \subseteq acks /\ acks' \subseteq acks \ void
    /\ \A t \in Tasks : via'[t] = via[t] \/ via[t] \in ns
    /\ \A n : Alive(n) /\ n \notin ns => Alive(n)'
Expires(c) ==
    /\ box[c] # {} /\ box' = Taken(c) /\ lost' = lost \cup {<<c, First(c)>>}
    /\ UNCHANGED <<published, arrived, stranded, acks, doubted, mine, via>>
    /\ \A n : Alive(n) => Alive(n)'
Empties(c) ==
    /\ box' = [box EXCEPT ![c] = {}] /\ lost' = lost \cup ({c} \X box[c])
    /\ UNCHANGED <<published, arrived, stranded, acks, doubted, mine, via>>
    /\ \A n : Alive(n) => Alive(n)'
LeavesAll ==
    /\ acks' \subseteq acks
    /\ UNCHANGED <<box, published, arrived, stranded, lost, doubted, mine, via>>
    /\ \A n : Alive(n) => Alive(n)'

LEMMA CutOffRequeues ==
    ASSUME NEW ns, NEW on, CutOff(ns, Asking(ns) \ on), UNCHANGED <<published, arrived, lost, amqp>>,
           MadeTypes, \A n : Alive(n) /\ n \notin ns => Alive(n)'
    PROVE  \E void : Requeues(ns, void)
<1> DEFINE void == {m \in acks : m.on \in ns}  cut == Asking(ns) \ on
<1>1. /\ Requeue(ns, void) /\ Settle(ns)
      /\ via' = [u \in Tasks |-> IF u \in cut THEN 0 ELSE via[u]]
    BY DEF CutOff
<1>2. \A u \in Tasks : u \in cut => via[u] \in ns
    BY DEF Asking
<1>3. \A u \in Tasks : via'[u] = via[u] \/ via[u] \in ns
    BY <1>1, <1>2
<1>4. void \subseteq acks /\ acks' \subseteq acks \ void
    BY <1>1 DEF Settle
<1> HIDE DEF void, cut
<1>5. Requeues(ns, void)
    BY <1>1, <1>3, <1>4 DEF Requeues
<1>6. QED
    BY <1>5

LEMMA WorldMessages ==
    ASSUME MadeTypes, WorldStep \/ UNCHANGED vars
    PROVE  \/ \E ns, void : Requeues(ns, void)
           \/ \E c \in Channels : Expires(c) \/ Empties(c)
           \/ LeavesAll
<1>0. UNCHANGED <<amqp, got>>
    BY WorldPlaces
<1>1. CASE Close
    <2>1. Requeue(Shuts, {}) /\ endedConns' = endedConns /\ endedChans' = endedChans \cup Shuts
        BY <1>1 DEF Close
    <2>2. \A n : Alive(n) /\ n \notin Shuts => Alive(n)'
        BY <1>0, <2>1 DEF Alive
    <2>3. UNCHANGED <<published, arrived, lost, acks, via>>
        BY <1>1 DEF Close
    <2>4. Requeues(Shuts, {})
        BY <2>1, <2>2, <2>3 DEF Requeues
    <2>5. QED
        BY <2>4
<1>2. CASE ConnectionClosed
    <2> DEFINE ns == {n \in DOMAIN amqp : amqp[n] = conn}
    <2>1. /\ Requeue(ns, {}) /\ Settle(ns) /\ UNCHANGED <<published, arrived, lost, via>>
          /\ endedConns' = endedConns \cup {conn} /\ endedChans' = endedChans
        BY <1>2 DEF ConnectionClosed
    <2>2. \A n : Alive(n) /\ n \notin ns => Alive(n)'
        BY <1>0, <2>1 DEF Alive
    <2>3. acks' \subseteq acks
        BY <2>1 DEF Settle
    <2> HIDE DEF ns
    <2>4. Requeues(ns, {})
        BY <2>1, <2>2, <2>3 DEF Requeues
    <2>5. QED
        BY <2>4
<1>3. CASE ConnectionLost
    <2>1. PICK on \in SUBSET Polling : CutOff(DOMAIN amqp, Asking(DOMAIN amqp) \ on)
        BY <1>3 DEF ConnectionLost
    <2>2. \A n : ~(Alive(n) /\ n \notin DOMAIN amqp)
        BY DEF Alive
    <2>3. UNCHANGED <<published, arrived, lost>>
        BY <1>3 DEF ConnectionLost
    <2>4. \E void : Requeues(DOMAIN amqp, void)
        BY <1>0, <2>1, <2>2, <2>3, CutOffRequeues
    <2>5. QED
        BY <2>4
<1>4. CASE \E t \in Tasks : NotFound(t)
    <2>1. PICK t \in Tasks : NotFound(t)
        BY <1>4
    <2>2. PICK on \in SUBSET (Polling \ {t}) : CutOff({via[t]}, Asking({via[t]}) \ on)
        BY <2>1 DEF NotFound
    <2>3. /\ UNCHANGED <<published, arrived, lost, endedConns>>
          /\ endedChans' \subseteq endedChans \cup {via[t]}
        BY <2>1 DEF NotFound
    <2>4. \A n : Alive(n) /\ n \notin {via[t]} => Alive(n)'
        BY <1>0, <2>3 DEF Alive
    <2>5. \E void : Requeues({via[t]}, void)
        BY <1>0, <2>2, <2>3, <2>4, CutOffRequeues
    <2>6. QED
        BY <2>5
<1>5. CASE \E c \in Channels : MessageExpires(c)
    BY <1>0, <1>5 DEF MessageExpires, Expires, Alive
<1>6. CASE \E c \in Channels : QueueExpires(c)
    BY <1>0, <1>6 DEF QueueExpires, Empties, Alive
<1>7. CASE ChannelClosed \/ CloseFails \/ UNCHANGED vars \/ \E m \in acks : AckArrives(m)
    <2>1. acks' \subseteq acks
        BY <1>7 DEF ChannelClosed, Settle, CloseFails, vars, AckArrives
    <2>2. /\ UNCHANGED <<box, published, arrived, stranded, lost, doubted, mine, via>>
          /\ UNCHANGED <<endedConns, endedChans>>
        BY <1>7 DEF ChannelClosed, CloseFails, vars, AckArrives
    <2>3. QED
        BY <1>0, <2>1, <2>2 DEF LeavesAll, Alive
<1>8. QED
    BY <1>1, <1>2, <1>3, <1>4, <1>5, <1>6, <1>7 DEF WorldStep, Closing

LEMMA RequeuesKept ==
    ASSUME PlaceTypes, MadeTypes, MessageTypes, HeldAlive, Scattered, NEW ns, NEW void,
           Requeues(ns, void), UNCHANGED <<pc, chan, got, amqp>>
    PROVE  (MessageTypes /\ HeldAlive /\ Scattered)'
<1>1. /\ mine' = [t \in Tasks |-> IF t \in Holding(ns) THEN 0 ELSE mine[t]]
      /\ stranded' = {m \in stranded : m.on \notin ns}
      /\ doubted' = doubted \cup {<<m.chan, m.id>> : m \in void}
      /\ void \subseteq acks /\ acks' \subseteq acks \ void
      /\ UNCHANGED <<published, arrived, lost, got, pc, chan, amqp>>
      /\ \A t \in Tasks : via'[t] = via[t] \/ via[t] \in ns
      /\ \A n : Alive(n) /\ n \notin ns => Alive(n)'
    BY DEF Requeues, Requeue
<1>2. \A c \in Channels : \A n : n \in box'[c] <=>
          \/ n \in box[c]
          \/ \E t \in Holding(ns) : chan[t] = c /\ mine[t] = n
          \/ \E m \in stranded : m.chan = c /\ m.on \in ns /\ m.id = n
          \/ \E m \in void : m.chan = c /\ m.id = n
    BY DEF Requeues, Requeue, Holding
<1>3. \A t \in Tasks : t \in Holding(ns) <=> mine[t] # 0 /\ via[t] \in ns
    BY DEF Holding, HeldAlive
<1>4. \A t \in Tasks : mine'[t] # 0 <=> mine[t] # 0 /\ via[t] \notin ns
    BY <1>1, <1>3
<1>5. \A t \in Tasks : mine'[t] # 0 => mine'[t] = mine[t]
    BY <1>1
<1>6. MessageTypes'
    <2>1. mine' \in [Tasks -> Nat]
        BY <1>1 DEF MessageTypes
    <2>2. Made' = Made /\ stranded' \subseteq stranded
        BY <1>1 DEF Made
    <2>3. \A c \in Channels : box'[c] \subseteq Nat
        BY <1>1, <1>2 DEF MessageTypes, Holding
    <2>6. doubted' \subseteq Channels \X Nat /\ acks' \subseteq acks
        BY <1>1 DEF MessageTypes
    <2>4. box' \in [Channels -> SUBSET Nat]
        <3>1. box' = [c \in Channels |-> box'[c]]
            BY DEF Requeues, Requeue
        <3>2. QED
            BY <2>3, <3>1
    <2>5. QED
        BY <1>1, <2>1, <2>2, <2>4, <2>6 DEF MessageTypes
<1>7. HeldAlive'
    <2>1. ASSUME NEW t \in Tasks, mine'[t] # 0 PROVE pc'[t] = "ack" /\ Alive(via[t])'
        <3>1. mine[t] # 0 /\ via[t] \notin ns
            BY <1>4, <2>1
        <3>2. pc[t] = "ack" /\ Alive(via[t])
            BY <3>1 DEF HeldAlive
        <3>3. via'[t] = via[t] /\ Alive(via[t])'
            BY <1>1, <3>1, <3>2 DEF Alive
        <3>4. QED
            BY <1>1, <3>2, <3>3 DEF Alive
    <2>2. ASSUME NEW m \in stranded' PROVE Alive(m.on)'
        <3>1. m \in stranded /\ m.on \notin ns
            BY <1>1, <2>2
        <3>2. Alive(m.on)
            BY <3>1 DEF HeldAlive
        <3>3. QED
            BY <1>1, <3>1, <3>2
    <2>3. QED
        BY <2>1, <2>2 DEF HeldAlive
<1>8. ASSUME NEW c \in Channels, NEW n \in Nat PROVE InPlace(c, n)'
    <2>0. InPlace(c, n)
        BY DEF Scattered
    <2>1. \A t \in Tasks : Holds(t, c, n)' <=> Holds(t, c, n) /\ via[t] \notin ns
        BY <1>1, <1>3 DEF Holds
    <2>2. \A m : Left(m, c, n)' <=> Left(m, c, n) /\ m.on \notin ns
        BY <1>1 DEF Left
    <2>3. /\ \A m : Acked(m, c, n)' => Acked(m, c, n) /\ m \notin void
          /\ \A m \in void : m.chan = c /\ m.id = n => Acked(m, c, n)
        BY <1>1 DEF Acked
    <2>4. Doubt(c, n) => Doubt(c, n)'
        BY <1>1 DEF Doubt
    <2>5. n \in box'[c] <=>
              \/ n \in box[c]
              \/ \E t \in Tasks : Holds(t, c, n) /\ via[t] \in ns
              \/ \E m : Left(m, c, n) /\ m.on \in ns
              \/ \E m \in void : Acked(m, c, n)
        <3>0. n = 0 => n \notin arrived[c]
            BY DEF MessageTypes
        <3>1. \A t \in Tasks : t \in Holding(ns) /\ chan[t] = c /\ mine[t] = n <=>
                  Holds(t, c, n) /\ via[t] \in ns
            BY <1>3 DEF Holds
        <3>2. \A t \in Holding(ns) : t \in Tasks
            BY DEF Holding
        <3>3. (\E t \in Holding(ns) : chan[t] = c /\ mine[t] = n) <=>
                  \E t \in Tasks : Holds(t, c, n) /\ via[t] \in ns
            BY <3>1, <3>2
        <3>4. (\E m \in stranded : m.chan = c /\ m.on \in ns /\ m.id = n) <=>
                  \E m : Left(m, c, n) /\ m.on \in ns
            BY DEF Left
        <3>5. (\E m \in void : m.chan = c /\ m.id = n) <=> \E m \in void : Acked(m, c, n)
            BY <2>3 DEF Acked
        <3>6. QED
            BY <1>2, <3>3, <3>4, <3>5
    <2>6. /\ Gone(c, n)' <=> Gone(c, n)
          /\ (n \in arrived[c])' <=> n \in arrived[c]
          /\ Back(c, n)' /\ (<<c, n>> \in lost)' => Doubt(c, n)'
          /\ \A t, u \in Tasks :
                 (<<c, n>> \in got[t])' /\ (<<c, n>> \in got[u])' => t = u \/ Doubt(c, n)'
        BY <1>1, <2>0, <2>4 DEF InPlace, Gone, Back
    <2>7. /\ InHand(c, n)' => InHand(c, n)
          /\ WithNobody(c, n)' => WithNobody(c, n)
          /\ UnderWay(c, n)' => UnderWay(c, n)
        BY <2>1, <2>2, <2>3 DEF InHand, WithNobody, Left, UnderWay, Acked
    <2>8. ASSUME n \in box'[c], ~InHand(c, n)', ~WithNobody(c, n)', ~UnderWay(c, n)',
                 Gone(c, n) => Doubt(c, n)', n \in arrived[c]
          PROVE  InPlace(c, n)'
        BY <2>6, <2>8 DEF InPlace, InHand, WithNobody, UnderWay
    <2>9. CASE \E t \in Tasks : Holds(t, c, n) /\ via[t] \in ns
        <3>1. /\ InHand(c, n) /\ n \in arrived[c] /\ ~WithNobody(c, n) /\ ~UnderWay(c, n)
              /\ Gone(c, n) => Doubt(c, n)
            BY <2>0, <2>9 DEF InPlace, InHand
        <3>2. ~InHand(c, n)'
            BY <2>0, <2>1, <2>9 DEF InPlace, InHand
        <3>3. QED
            BY <2>4, <2>5, <2>7, <2>8, <2>9, <3>1, <3>2
    <2>10. CASE \E m : Left(m, c, n) /\ m.on \in ns
        <3>1. /\ WithNobody(c, n) /\ n \in arrived[c] /\ ~InHand(c, n) /\ ~UnderWay(c, n)
              /\ Gone(c, n) => Doubt(c, n)
            BY <2>0, <2>10 DEF InPlace, WithNobody, Left
        <3>2. ~WithNobody(c, n)'
            BY <2>0, <2>2, <2>10 DEF InPlace, WithNobody, Left
        <3>3. QED
            BY <2>4, <2>5, <2>7, <2>8, <2>10, <3>1, <3>2
    <2>11. CASE \E m \in void : Acked(m, c, n)
        <3>1. /\ UnderWay(c, n) /\ n \in arrived[c] /\ ~InHand(c, n) /\ ~WithNobody(c, n)
            BY <2>0, <2>11 DEF InPlace, UnderWay, Acked
        <3>2. ~UnderWay(c, n)'
            BY <2>0, <2>3, <2>11 DEF InPlace, UnderWay, Acked
        <3>3. Doubt(c, n)'
            BY <1>1, <2>11 DEF Doubt, Acked
        <3>4. QED
            BY <2>5, <2>7, <2>8, <2>11, <3>1, <3>2, <3>3
    <2>12. CASE /\ ~(\E t \in Tasks : Holds(t, c, n) /\ via[t] \in ns)
                /\ ~(\E m : Left(m, c, n) /\ m.on \in ns)
                /\ ~(\E m \in void : Acked(m, c, n))
        <3>1. Unmoved(c, n)
            BY <1>1, <2>1, <2>2, <2>3, <2>4, <2>5, <2>12 DEF Unmoved
        <3>2. QED
            BY <2>0, <3>1, UnmovedInPlace
    <2>13. QED
        BY <2>9, <2>10, <2>11, <2>12
<1>9. QED
    BY <1>6, <1>7, <1>8 DEF Scattered

(* HeldAlive where nobody's hand and nothing stranded changes.             *)
LEMMA HeldAliveStays ==
    ASSUME HeldAlive, UNCHANGED <<mine, stranded, pc, via>>, \A n : Alive(n) => Alive(n)'
    PROVE  HeldAlive'
<1>1. ASSUME NEW t \in Tasks, mine'[t] # 0 PROVE pc'[t] = "ack" /\ Alive(via[t])'
    <2>1. pc[t] = "ack" /\ Alive(via[t])
        BY <1>1 DEF HeldAlive
    <2>2. QED
        BY <2>1 DEF Alive
<1>2. ASSUME NEW m \in stranded' PROVE Alive(m.on)'
    BY <1>2 DEF HeldAlive
<1>3. QED
    BY <1>1, <1>2 DEF HeldAlive

LEMMA LostKept ==
    ASSUME NEW c, NEW n, InPlace(c, n), got' = got, (<<c, n>> \in lost)', (n \in arrived[c])',
           (n \notin box[c])', ~InHand(c, n)', ~WithNobody(c, n)', ~UnderWay(c, n)',
           Gone(c, n) => Doubt(c, n)'
    PROVE  InPlace(c, n)'
<1>1. Gone(c, n)' /\ (Back(c, n)' => Doubt(c, n)')
    BY DEF Gone, Back
<1>2. \A t \in Tasks : (<<c, n>> \in got[t])' => Doubt(c, n)'
    BY <1>1 DEF Back
<1>3. QED
    BY <1>1, <1>2 DEF InPlace, InHand, WithNobody, UnderWay

LEMMA ExpiresKept ==
    ASSUME PlaceTypes, MadeTypes, MessageTypes, HeldAlive, Scattered, NEW c0 \in Channels,
           Expires(c0), UNCHANGED <<pc, chan, got, amqp>>
    PROVE  (MessageTypes /\ HeldAlive /\ Scattered)'
<1> DEFINE n0 == First(c0)
<1>1. /\ box' = Taken(c0) /\ lost' = lost \cup {<<c0, n0>>} /\ box[c0] # {}
      /\ UNCHANGED <<published, arrived, stranded, acks, doubted, mine, got, chan, pc, via, amqp>>
    BY DEF Expires
<1>2. /\ n0 \in Nat \ {0} /\ n0 \in box[c0] /\ n0 \notin box'[c0]
      /\ \A d \in Channels, n \in Nat : d # c0 \/ n # n0 => (n \in box'[d] <=> n \in box[d])
      /\ n0 \in arrived[c0] /\ ~InHand(c0, n0) /\ ~WithNobody(c0, n0) /\ ~UnderWay(c0, n0)
      /\ Gone(c0, n0) => Doubt(c0, n0)
    BY <1>1, TakenBox
<1>3. MessageTypes'
    <2>1. Taken(c0) \in [Channels -> SUBSET Nat]
        BY DEF Taken, MessageTypes
    <2>2. Made' = Made /\ lost' \subseteq Channels \X Nat
        BY <1>1, <1>2 DEF Made, MessageTypes
    <2>3. QED
        BY <1>1, <2>1, <2>2 DEF MessageTypes
<1>4. HeldAlive'
    BY <1>1, HeldAliveStays DEF Expires
<1> HIDE DEF n0
<1>5. ASSUME NEW c \in Channels, NEW n \in Nat PROVE InPlace(c, n)'
    <2>0. InPlace(c, n)
        BY DEF Scattered
    <2>1. (\A t \in Tasks : Holds(t, c, n)' <=> Holds(t, c, n)) /\ \A m : Left(m, c, n)' <=> Left(m, c, n)
        BY <1>1 DEF Holds, Left
    <2>2. CASE c # c0 \/ n # n0
        <3>1. Unmoved(c, n)
            BY <1>1, <1>2, <2>1, <2>2 DEF Unmoved, Acked, Doubt
        <3>2. QED
            BY <2>0, <3>1, UnmovedInPlace
    <2>3. CASE c = c0 /\ n = n0
        <3>1. ~InHand(c, n)' /\ ~WithNobody(c, n)' /\ ~UnderWay(c, n)' /\ n \in arrived'[c] /\ n \notin box'[c]
            BY <1>1, <1>2, <2>1, <2>3 DEF InHand, WithNobody, Left, UnderWay, Acked
        <3>2. (<<c, n>> \in lost)' /\ (Gone(c, n) => Doubt(c, n)')
            BY <1>1, <1>2, <2>3 DEF Doubt
        <3>3. QED
            BY <1>1, <2>0, <3>1, <3>2, LostKept
    <2>4. QED
        BY <2>2, <2>3
<1>6. QED
    BY <1>3, <1>4, <1>5 DEF Scattered

LEMMA EmptiesKept ==
    ASSUME PlaceTypes, MadeTypes, MessageTypes, HeldAlive, Scattered, NEW c0 \in Channels,
           Empties(c0), UNCHANGED <<pc, chan, got, amqp>>
    PROVE  (MessageTypes /\ HeldAlive /\ Scattered)'
<1>1. /\ box' = [box EXCEPT ![c0] = {}] /\ lost' = lost \cup ({c0} \X box[c0])
      /\ UNCHANGED <<published, arrived, stranded, acks, doubted, mine, got, chan, pc, via, amqp>>
    BY DEF Empties
<1>2. box'[c0] = {} /\ \A d \in Channels : d # c0 => box'[d] = box[d]
    BY <1>1 DEF MessageTypes
<1>3. MessageTypes'
    <2>1. box' \in [Channels -> SUBSET Nat] /\ box[c0] \subseteq Nat
        BY <1>1 DEF MessageTypes
    <2>2. Made' = Made /\ lost' \subseteq Channels \X Nat
        BY <1>1, <2>1 DEF Made, MessageTypes
    <2>3. QED
        BY <1>1, <2>1, <2>2 DEF MessageTypes
<1>4. HeldAlive'
    BY <1>1, HeldAliveStays DEF Empties
<1>5. ASSUME NEW c \in Channels, NEW n \in Nat PROVE InPlace(c, n)'
    <2>0. InPlace(c, n)
        BY DEF Scattered
    <2>1. (\A t \in Tasks : Holds(t, c, n)' <=> Holds(t, c, n)) /\ \A m : Left(m, c, n)' <=> Left(m, c, n)
        BY <1>1 DEF Holds, Left
    <2>2. CASE c # c0 \/ n \notin box[c0]
        <3>1. (n \in box'[c] <=> n \in box[c]) /\ (<<c, n>> \in lost' <=> <<c, n>> \in lost)
            BY <1>1, <1>2, <2>2
        <3>2. Unmoved(c, n)
            BY <1>1, <2>1, <3>1 DEF Unmoved, Acked, Doubt
        <3>3. QED
            BY <2>0, <3>2, UnmovedInPlace
    <2>3. CASE c = c0 /\ n \in box[c0]
        <3>0. /\ n \in arrived[c] /\ ~InHand(c, n) /\ ~WithNobody(c, n) /\ ~UnderWay(c, n)
              /\ Gone(c, n) => Doubt(c, n)
            BY <2>0, <2>3 DEF InPlace
        <3>1. ~InHand(c, n)' /\ ~WithNobody(c, n)' /\ ~UnderWay(c, n)' /\ n \in arrived'[c] /\ n \notin box'[c]
            BY <1>1, <1>2, <2>1, <2>3, <3>0 DEF InHand, WithNobody, Left, UnderWay, Acked
        <3>2. (<<c, n>> \in lost)' /\ (Gone(c, n) => Doubt(c, n)')
            BY <1>1, <2>3, <3>0 DEF Doubt
        <3>3. QED
            BY <1>1, <2>0, <3>1, <3>2, LostKept
    <2>4. QED
        BY <2>2, <2>3
<1>6. QED
    BY <1>3, <1>4, <1>5 DEF Scattered

LEMMA MessagesKeptByWorld ==
    ASSUME PlaceTypes, MadeTypes, MessageTypes, HeldAlive, Scattered, WorldStep \/ UNCHANGED vars
    PROVE  (MessageTypes /\ HeldAlive /\ Scattered)'
<1>1. UNCHANGED <<pc, chan, got, amqp>>
    BY WorldPlaces DEF NobodyMoves
<1>2. CASE \E ns, void : Requeues(ns, void)
    BY <1>1, <1>2, RequeuesKept
<1>3. CASE \E c \in Channels : Expires(c) \/ Empties(c)
    BY <1>1, <1>3, ExpiresKept, EmptiesKept
<1>4. CASE LeavesAll
    <2>1. MessageTypes'
        BY <1>1, <1>4 DEF LeavesAll, MessageTypes, Made
    <2>2. HeldAlive'
        BY <1>1, <1>4, HeldAliveStays DEF LeavesAll
    <2>3. ASSUME NEW c \in Channels, NEW n \in Nat PROVE Unmoved(c, n)
        BY <1>1, <1>4 DEF LeavesAll, Unmoved, Holds, Left, Acked, Doubt
    <2>4. Scattered'
        BY <2>3, UnmovedInPlace DEF Scattered
    <2>5. QED
        BY <2>1, <2>2, <2>4
<1>5. QED
    BY <1>2, <1>3, <1>4, WorldMessages

-----------------------------------------------------------------------------
(* Acknowledgements end with the AMQP channel they were written on, and    *)
(* none is written on one that close() has ended.                          *)
AcksSettled == ~raced /\ closer \in {"connection", "done"} => acks = {}

LEMMA AcksSettledKept ==
    ASSUME PlaceTypes, MadeTypes, MessageTypes, HeldAlive, CloseInv, AcksSettled, NEW t \in Tasks,
           TaskStep(t)
    PROVE  AcksSettled'
<1> SUFFICES ASSUME ~raced', closer' \in {"connection", "done"} PROVE acks' = {}
    BY DEF AcksSettled
<1>1. closer' = closer
    BY StepExchange
<1>2. raced => raced'
    BY StepRaces DEF CloseInv
<1>3. acks = {} /\ Lone /\ closed
    BY <1>1, <1>2 DEF AcksSettled, CloseInv, Lone
<1>4. ~Alive(via[t])
    <2>1. DOMAIN amqp = 1 .. Len(amqp) /\ Len(amqp) \in Nat
        BY DEF MadeTypes
    <2>2. via[t] \in DOMAIN amqp => via[t] = channel /\ channel # 0
        BY <1>3, <2>1 DEF Lone
    <2>3. QED
        BY <1>3, <2>2 DEF Lone, Alive
<1>5. acks' = acks
    BY <1>4, StepMessages DEF Delivers, Gets, GetsAndLeaves, GivesBack, Loses, Leaves, NothingMoves
<1>6. QED
    BY <1>3, <1>5

LEMMA AcksSettledKeptByWorld ==
    ASSUME MadeTypes, MessageTypes, CloseInv, AcksSettled, WorldStep \/ UNCHANGED vars
    PROVE  AcksSettled'
<1>0. DOMAIN amqp = 1 .. Len(amqp) /\ Len(amqp) \in Nat
    BY DEF MadeTypes
<1>1. CASE Close
    <2> SUFFICES ASSUME ~raced', closer' \in {"connection", "done"} PROVE acks' = {}
        BY DEF AcksSettled
    <2>1. ~raced /\ channel = 0 /\ acks' = acks
        BY <1>1 DEF Close, CloseInv
    <2>2. Made = {0}
        BY <1>0, <2>1 DEF CloseInv, Lone, Made
    <2>3. QED
        BY <2>1, <2>2 DEF MessageTypes
<1>2. CASE ChannelClosed
    <2> SUFFICES ASSUME ~raced' PROVE acks' = {}
        BY DEF AcksSettled
    <2>1. Lone /\ acks' = {m \in acks : m.on \notin Shuts}
        BY <1>2 DEF ChannelClosed, Settle, CloseInv
    <2>2. Made \ {0} \subseteq Shuts
        BY <1>0, <2>1 DEF Lone, Made, Shuts
    <2>3. QED
        BY <2>1, <2>2 DEF MessageTypes
<1>3. CASE ~Close /\ ~ChannelClosed
    <2>1. acks' \subseteq acks
        <3>1. CASE \E ns, void : Requeues(ns, void)
            BY <3>1 DEF Requeues
        <3>2. QED
            BY <3>1, WorldMessages DEF Expires, Empties, LeavesAll
    <2>2. /\ raced' = raced
          /\ closer' = closer \/ closer' = "failed" \/ closer = "connection"
        BY <1>3 DEF WorldStep, Closing, vars, ConnectionClosed, CloseFails, ConnectionLost,
           NotFound, AckArrives, MessageExpires, QueueExpires
    <2>3. QED
        BY <2>1, <2>2 DEF AcksSettled
<1>4. QED
    BY <1>1, <1>2, <1>3

-----------------------------------------------------------------------------
(* The inductive invariant.                                                *)
CountTypes == calls \in Nat /\ events \in Nat
IInv ==
    /\ PlaceTypes /\ MadeTypes /\ TopologyInv /\ KeyInv /\ CloseInv
    /\ MessageTypes /\ HeldAlive /\ Scattered /\ AcksSettled /\ CountTypes

LEMMA InitIInv == Init => IInv
<1> SUFFICES ASSUME Init PROVE IInv
    OBVIOUS
<1>1. (CHOOSE c \in Channels : TRUE) \in Channels
    OBVIOUS
<1>2. PlaceTypes
    BY <1>1 DEF Init, PlaceTypes, OpPlaces, Places, Operations
<1>3. amqp = <<>> /\ Len(amqp) = 0 /\ Made = {0} /\ DOMAIN amqp = {}
    BY DEF Init, Made
<1>4. MadeTypes
    <2>1. amqp \in Seq(1 .. conns)
        BY <1>3
    <2>2. QED
        BY <1>3, <2>1 DEF Init, MadeTypes, ViaOf, OnAmqp
<1>5. TopologyInv /\ KeyInv /\ CountTypes
    BY DEF Init, TopologyInv, CachedIsBound, KeyInv, ExchangeKnown, CountTypes
<1>6. CloseInv
    <2>1. /\ conn = conns /\ conns \in {0, 1} /\ channel = 0 /\ closed = FALSE /\ closer = "open"
          /\ \A t \in Tasks : pc[t] = "idle"
          /\ owns \in BOOLEAN /\ raced = FALSE /\ endedConns = {} /\ endedChans = {}
        BY DEF Init
    <2>2. Lone
        BY <1>3, <2>1 DEF Lone, AtOpening
    <2>3. QED
        BY <2>1, <2>2 DEF CloseInv
<1>7. MessageTypes /\ HeldAlive /\ AcksSettled
    BY DEF Init, MessageTypes, HeldAlive, AcksSettled
<1>8. Scattered
    <2> SUFFICES ASSUME NEW c \in Channels, NEW n \in Nat PROVE InPlace(c, n)
        BY DEF Scattered
    <2>1. /\ n \notin box[c] /\ n \notin arrived[c] /\ ~InHand(c, n) /\ ~WithNobody(c, n)
          /\ ~UnderWay(c, n) /\ ~Back(c, n) /\ <<c, n>> \notin lost
        BY DEF Init, InHand, Holds, WithNobody, Left, UnderWay, Acked, Back
    <2>2. QED
        BY <2>1 DEF InPlace, InHand, WithNobody, UnderWay, Gone, Back
<1>9. QED
    BY <1>2, <1>4, <1>5, <1>6, <1>7, <1>8 DEF IInv

LEMMA StepCounts ==
    ASSUME CountTypes, [Next]_vars
    PROVE  CountTypes'
<1>1. calls' \in {calls, calls + 1} /\ events' \in {events, events + 1}
    <2>1. CASE \E t \in Tasks : TaskStep(t)
        <3>1. PICK t \in Tasks : TaskStep(t)
            BY <2>1
        <3>2. CASE Call(t)
            BY <3>2 DEF Call, Begin
        <3>3. CASE Step(t)
            BY <3>3 DEF Step, Connect, OpenChannel, DeclareExchange, DeclareQueue, Bind,
               DeclareFanout, Publish, PublishGroup, Get, Ack, GivesUp, Join, Leave, Refused
        <3>4. CASE Fails(t) \/ GetUnanswered(t) \/ AckInVain(t)
            BY <3>4 DEF Fails, GetUnanswered, AckInVain, Event
        <3>5. QED
            BY <3>1, <3>2, <3>3, <3>4 DEF TaskStep
    <2>2. CASE WorldStep \/ UNCHANGED vars
        BY <2>2 DEF WorldStep, vars, Close, Closing, ChannelClosed, ConnectionClosed, CloseFails,
           ConnectionLost, NotFound, AckArrives, MessageExpires, QueueExpires, Event
    <2>3. QED
        BY <2>1, <2>2, NextSteps
<1>2. QED
    BY <1>1 DEF CountTypes

LEMMA IInvKept == IInv /\ [Next]_vars => IInv'
<1> SUFFICES ASSUME IInv, [Next]_vars PROVE IInv'
    OBVIOUS
<1>0. /\ PlaceTypes /\ MadeTypes /\ TopologyInv /\ KeyInv /\ CloseInv
      /\ MessageTypes /\ HeldAlive /\ Scattered /\ AcksSettled /\ CountTypes
    BY DEF IInv
<1>1. CountTypes'
    BY <1>0, StepCounts
<1>2. CASE \E t \in Tasks : TaskStep(t)
    <2>1. PICK t \in Tasks : TaskStep(t)
        BY <1>2
    <2>2. PlaceTypes'
        BY <1>0, <2>1, PlacesKept
    <2>3. MadeTypes'
        BY <1>0, <2>1, <2>2, MadeKept
    <2>4. TopologyInv' /\ KeyInv' /\ CloseInv'
        BY <1>0, <2>1, <2>3, TopologyKept, KeyKept, CloseKept
    <2>5. Made \subseteq Made'
        <3>1. amqp \in Seq(1 .. conns) /\ Len(amqp) \in Nat
            BY <1>0 DEF MadeTypes
        <3>2. CASE amqp' = amqp
            BY <3>2 DEF Made
        <3>3. CASE pc[t] = "open" /\ amqp' = Append(amqp, via[t])
            <4>1. via[t] \in 1 .. conns
                BY <1>0, <3>3 DEF MadeTypes, ViaOf
            <4>2. Len(amqp') = Len(amqp) + 1
                BY <3>1, <3>3, <4>1, AppendElements
            <4>3. QED
                BY <3>1, <4>2 DEF Made
        <3>4. QED
            BY <1>0, <2>1, <3>2, <3>3, OthersVia
    <2>6. MessageTypes'
        BY <1>0, <2>1, <2>5, StepMessages, MessageTypesKept
    <2>7. HeldAlive' /\ Scattered' /\ AcksSettled'
        BY <1>0, <2>1, HeldAliveKept, ScatteredKept, AcksSettledKept
    <2>8. QED
        BY <1>1, <2>2, <2>3, <2>4, <2>6, <2>7 DEF IInv
<1>3. CASE WorldStep \/ UNCHANGED vars
    <2>1. NobodyMoves /\ UNCHANGED <<owns, cacheVars, madeVars>>
        BY <1>3, WorldPlaces
    <2>2. PlaceTypes'
        BY <1>0, <2>1 DEF NobodyMoves, PlaceTypes, OpPlaces
    <2>6. MadeTypes'
        <3>1. via' \in [Tasks -> Nat] /\ \A t \in Tasks : via'[t] = via[t] \/ CutFrom(t)
            BY <1>0, <1>3, WorldVia
        <3>2. Made' = Made /\ 0 \in Made
            BY <1>0, <2>1 DEF Made, MadeTypes
        <3>3. ASSUME NEW t \in Tasks PROVE ViaOf(t)'
            <4>1. ViaOf(t) /\ pc'[t] = pc[t]
                BY <1>0, <2>1 DEF MadeTypes, NobodyMoves
            <4>2. CASE via'[t] = via[t]
                BY <2>1, <3>2, <4>1, <4>2 DEF ViaOf
            <4>3. CASE CutFrom(t)
                BY <3>2, <4>1, <4>3 DEF CutFrom, ViaOf, OnAmqp
            <4>4. QED
                BY <3>1, <4>2, <4>3
        <3>4. QED
            BY <1>0, <2>1, <3>1, <3>2, <3>3 DEF MadeTypes
    <2>3. TopologyInv' /\ KeyInv' /\ CloseInv'
        BY <1>0, <1>3, TopologyKeptByWorld, KeyKeptByWorld, CloseKeptByWorld
    <2>4. (MessageTypes /\ HeldAlive /\ Scattered)' /\ AcksSettled'
        BY <1>0, <1>3, MessagesKeptByWorld, AcksSettledKeptByWorld
    <2>5. QED
        BY <1>1, <2>2, <2>3, <2>4, <2>6 DEF IInv
<1>4. QED
    BY <1>2, <1>3, NextSteps

-----------------------------------------------------------------------------
(* What the invariant gives.                                               *)
LEMMA InductiveSafety == Spec => []IInv
<1>1. Spec => Init /\ [][Next]_vars
    BY DEF Spec
<1>2. QED
    BY <1>1, InitIInv, IInvKept, PTL

LEMMA TypesFollow == IInv => TypeOK
<1> SUFFICES ASSUME IInv PROVE TypeOK
    OBVIOUS
<1>1. PlaceTypes /\ MadeTypes /\ TopologyInv /\ KeyInv /\ CloseInv /\ MessageTypes /\ HeldAlive
      /\ CountTypes
    BY DEF IInv
<1>2. /\ owns \in BOOLEAN /\ conn \in 0 .. conns /\ conns \in Nat
      /\ amqp \in Seq(1 .. conns)
      /\ channel \in Made /\ exchange \in Made /\ fanout \in Made
      /\ queueOf \in [Channels -> Made] /\ via \in [Tasks -> Nat]
    BY <1>1 DEF MadeTypes, CloseInv
<1>3. /\ closed \in BOOLEAN /\ closer \in {"open", "channel", "connection", "done", "failed"}
      /\ endedConns \subseteq Nat /\ endedChans \subseteq Nat
      /\ raced \in BOOLEAN /\ broken \in BOOLEAN /\ calls \in Nat /\ events \in Nat
    BY <1>1 DEF CloseInv, KeyInv, CountTypes
<1>4. /\ queues \subseteq Channels /\ bound \subseteq queues /\ joined \subseteq queues
      /\ expired \subseteq Channels
    BY <1>1 DEF TopologyInv
<1>5. /\ box \in [Channels -> SUBSET Nat] /\ arrived \in [Channels -> SUBSET (1 .. published)]
      /\ published \in Nat /\ lost \subseteq Channels \X Nat /\ doubted \subseteq Channels \X Nat
      /\ stranded \subseteq [chan : Channels, id : Nat, on : Made]
      /\ acks \subseteq [chan : Channels, id : Nat, on : Made]
      /\ mine \in [Tasks -> Nat] /\ got \in [Tasks -> SUBSET (Channels \X Nat)]
    BY <1>1 DEF MessageTypes
<1>6. /\ pc \in [Tasks -> Places] /\ op \in [Tasks -> Operations] /\ chan \in [Tasks -> Channels]
      /\ \A t \in Tasks : mine[t] # 0 => pc[t] = "ack"
    BY <1>1 DEF PlaceTypes, HeldAlive
<1>7. QED
    BY <1>2, <1>3, <1>4, <1>5, <1>6 DEF TypeOK

(* AtLeastOnce speaks of the sets of which InPlace names the elements.     *)
LEMMA SetsOfPlaces ==
    ASSUME MessageTypes, PlaceTypes, NEW c \in Channels
    PROVE  /\ Got(c) \subseteq Nat /\ Stranded(c) \subseteq Nat /\ Acknowledged(c) \subseteq Nat
           /\ Returned(c) \subseteq Nat /\ Lost(c) \subseteq Nat
           /\ box[c] \subseteq Nat /\ arrived[c] \subseteq Nat
           /\ \A n \in Nat :
                  /\ n \in Got(c) <=> InHand(c, n)
                  /\ n \in Stranded(c) <=> WithNobody(c, n)
                  /\ n \in Returned(c) <=> Back(c, n)
                  /\ n \in Lost(c) <=> <<c, n>> \in lost
                  /\ n \in Acknowledged(c) <=> UnderWay(c, n)
                  /\ n \in Doubted(c) <=> Doubt(c, n)
                  /\ \A t \in Tasks : n \in ReturnedTo(t, c) <=> <<c, n>> \in got[t]
           /\ \A t \in Tasks : ReturnedTo(t, c) \subseteq Nat
<1>1. \A t \in Tasks : \A p \in got[t] : p[1] \in Channels /\ p[2] \in Nat /\ p = <<p[1], p[2]>>
    BY DEF MessageTypes
<1>2. \A p \in lost : p[1] \in Channels /\ p[2] \in Nat /\ p = <<p[1], p[2]>>
    BY DEF MessageTypes
<1>3. \A n : n \in Got(c) <=> InHand(c, n)
    BY DEF Got, InHand, Holds
<1>4. \A n : n \in Stranded(c) <=> WithNobody(c, n)
    BY DEF Stranded, WithNobody, Left
<1>5. \A t \in Tasks : \A n : n \in ReturnedTo(t, c) <=> <<c, n>> \in got[t]
    <2>1. ASSUME NEW t \in Tasks, NEW n, n \in ReturnedTo(t, c) PROVE <<c, n>> \in got[t]
        BY <1>1, <2>1 DEF ReturnedTo
    <2>2. ASSUME NEW t \in Tasks, NEW n, <<c, n>> \in got[t] PROVE n \in ReturnedTo(t, c)
        <3>1. <<c, n>>[1] = c /\ <<c, n>>[2] = n
            OBVIOUS
        <3>2. QED
            BY <2>2, <3>1 DEF ReturnedTo
    <2>3. QED
        BY <2>1, <2>2
<1>6. \A n : n \in Returned(c) <=> Back(c, n)
    BY <1>5 DEF Returned, Back
<1>7. \A n : n \in Lost(c) <=> <<c, n>> \in lost
    <2>1. ASSUME NEW n, n \in Lost(c) PROVE <<c, n>> \in lost
        BY <1>2, <2>1 DEF Lost
    <2>2. ASSUME NEW n, <<c, n>> \in lost PROVE n \in Lost(c)
        <3>1. <<c, n>>[1] = c /\ <<c, n>>[2] = n
            OBVIOUS
        <3>2. QED
            BY <2>2, <3>1 DEF Lost
    <2>3. QED
        BY <2>1, <2>2
<1>8. Got(c) \subseteq Nat
    BY DEF Got, MessageTypes
<1>9. Stranded(c) \subseteq Nat
    BY DEF Stranded, MessageTypes
<1>10. Lost(c) \subseteq Nat
    BY <1>2 DEF Lost
<1>11. \A t \in Tasks : ReturnedTo(t, c) \subseteq Nat
    BY <1>1 DEF ReturnedTo
<1>12. Returned(c) \subseteq Nat
    BY <1>11 DEF Returned
<1>13. box[c] \subseteq Nat /\ arrived[c] \subseteq Nat
    BY DEF MessageTypes
<1>14. \A n : n \in Acknowledged(c) <=> UnderWay(c, n)
    BY DEF Acknowledged, UnderWay, Acked
<1>15. Acknowledged(c) \subseteq Nat
    BY DEF Acknowledged, MessageTypes
<1>16. \A n : n \in Doubted(c) <=> Doubt(c, n)
    <2>1. \A p \in doubted : p = <<p[1], p[2]>>
        BY DEF MessageTypes
    <2>2. ASSUME NEW n, n \in Doubted(c) PROVE <<c, n>> \in doubted
        BY <2>1, <2>2 DEF Doubted
    <2>3. ASSUME NEW n, <<c, n>> \in doubted PROVE n \in Doubted(c)
        <3>1. <<c, n>>[1] = c /\ <<c, n>>[2] = n
            OBVIOUS
        <3>2. QED
            BY <2>3, <3>1 DEF Doubted
    <2>4. QED
        BY <2>2, <2>3 DEF Doubt
<1>17. QED
    BY <1>3, <1>4, <1>5, <1>6, <1>7, <1>8, <1>9, <1>10, <1>11, <1>12, <1>13, <1>14, <1>15, <1>16

LEMMA ScatteredIsAtLeastOnce == IInv => AtLeastOnce
<1> SUFFICES ASSUME IInv, NEW c \in Channels
             PROVE  /\ arrived[c] = box[c] \cup Got(c) \cup Stranded(c) \cup Returned(c) \cup Lost(c)
                    /\ box[c] \cap (Got(c) \cup Stranded(c) \cup Acknowledged(c)) = {}
                    /\ Got(c) \cap (Stranded(c) \cup Acknowledged(c)) = {}
                    /\ Stranded(c) \cap Acknowledged(c) = {}
                    /\ (box[c] \cup Got(c) \cup Stranded(c)) \cap (Returned(c) \cup Lost(c))
                           \subseteq Doubted(c)
                    /\ Returned(c) \cap Lost(c) \subseteq Doubted(c)
                    /\ \A t, u \in Tasks : t # u =>
                          /\ ReturnedTo(t, c) \cap ReturnedTo(u, c) \subseteq Doubted(c)
                          /\ chan[t] = c /\ chan[u] = c /\ mine[t] = mine[u] => mine[t] = 0
    BY DEF AtLeastOnce
<1>1. MessageTypes /\ PlaceTypes /\ \A n \in Nat : InPlace(c, n)
    BY DEF IInv, Scattered
<1>2. /\ Got(c) \subseteq Nat /\ Stranded(c) \subseteq Nat
      /\ Returned(c) \subseteq Nat /\ Lost(c) \subseteq Nat
      /\ box[c] \subseteq Nat /\ arrived[c] \subseteq Nat
      /\ \A t \in Tasks : ReturnedTo(t, c) \subseteq Nat
    BY <1>1, SetsOfPlaces
<1>3. \A n \in Nat :
          /\ n \in Got(c) <=> InHand(c, n)
          /\ n \in Stranded(c) <=> WithNobody(c, n)
          /\ n \in Acknowledged(c) <=> UnderWay(c, n)
          /\ n \in Doubted(c) <=> Doubt(c, n)
          /\ n \in Returned(c) \cup Lost(c) <=> Gone(c, n)
          /\ n \in Returned(c) \cap Lost(c) <=> Back(c, n) /\ <<c, n>> \in lost
    BY <1>1, SetsOfPlaces DEF Gone
<1>4. \A n \in Nat :
          /\ n \in arrived[c] <=>
                 n \in box[c] \/ n \in Got(c) \/ n \in Stranded(c) \/ n \in Returned(c) \cup Lost(c)
          /\ n \in box[c] => n \notin Got(c) /\ n \notin Stranded(c) /\ n \notin Acknowledged(c)
          /\ n \in Got(c) => n \notin Stranded(c) /\ n \notin Acknowledged(c)
          /\ n \in Stranded(c) => n \notin Acknowledged(c)
          /\ (n \in box[c] \/ n \in Got(c) \/ n \in Stranded(c)) /\ n \in Returned(c) \cup Lost(c) =>
                 n \in Doubted(c)
          /\ n \in Returned(c) \cap Lost(c) => n \in Doubted(c)
    BY <1>1, <1>3 DEF InPlace
<1>5. arrived[c] = box[c] \cup Got(c) \cup Stranded(c) \cup Returned(c) \cup Lost(c)
    BY <1>2, <1>4
<1>6. /\ box[c] \cap (Got(c) \cup Stranded(c) \cup Acknowledged(c)) = {}
      /\ Got(c) \cap (Stranded(c) \cup Acknowledged(c)) = {}
      /\ Stranded(c) \cap Acknowledged(c) = {}
      /\ (box[c] \cup Got(c) \cup Stranded(c)) \cap (Returned(c) \cup Lost(c)) \subseteq Doubted(c)
      /\ Returned(c) \cap Lost(c) \subseteq Doubted(c)
    BY <1>2, <1>4
<1>7. ASSUME NEW t \in Tasks, NEW u \in Tasks, t # u
      PROVE  /\ ReturnedTo(t, c) \cap ReturnedTo(u, c) \subseteq Doubted(c)
             /\ chan[t] = c /\ chan[u] = c /\ mine[t] = mine[u] => mine[t] = 0
    <2>1. ASSUME NEW n \in Nat, n \in ReturnedTo(t, c), n \in ReturnedTo(u, c) PROVE n \in Doubted(c)
        <3>1. <<c, n>> \in got[t] /\ <<c, n>> \in got[u]
            BY <1>1, <2>1, SetsOfPlaces
        <3>2. Doubt(c, n)
            BY <1>1, <1>7, <3>1 DEF InPlace
        <3>3. QED
            BY <1>3, <3>2
    <2>2. ASSUME chan[t] = c, chan[u] = c, mine[t] = mine[u] PROVE mine[t] = 0
        <3>1. mine[t] \in Nat
            BY <1>1 DEF MessageTypes
        <3>2. ~(Holds(t, c, mine[t]) /\ Holds(u, c, mine[t]))
            BY <1>1, <1>7, <3>1 DEF InPlace
        <3>3. QED
            BY <2>2, <3>2 DEF Holds
    <2>3. QED
        BY <1>2, <2>1, <2>2
<1>8. QED
    BY <1>5, <1>6, <1>7

LEMMA NothingIsLeft == IInv => LayerLeavesNothing
<1> SUFFICES ASSUME IInv, closer = "done", ~raced
             PROVE  /\ \A n \in DOMAIN amqp : ~Alive(n)
                    /\ owns => 1 .. conns \subseteq endedConns
                    /\ stranded = {} /\ acks = {} /\ \A t \in Tasks : mine[t] = 0
    BY DEF LayerLeavesNothing
<1>1. MadeTypes /\ HeldAlive /\ Lone /\ acks = {}
    BY DEF IInv, CloseInv, AcksSettled
<1>2. closed /\ DOMAIN amqp = 1 .. Len(amqp) /\ Len(amqp) \in Nat /\ conns \in Nat
    BY <1>1 DEF Lone, MadeTypes
<1>3. ASSUME NEW n PROVE ~Alive(n)
    <2>1. CASE n \in DOMAIN amqp
        <3>1. n = channel /\ channel # 0
            BY <1>1, <1>2, <2>1 DEF Lone
        <3>2. QED
            BY <1>1, <1>2, <3>1 DEF Lone, Alive
    <2>2. CASE n \notin DOMAIN amqp
        BY <2>2 DEF Alive
    <2>3. QED
        BY <2>1, <2>2
<1>4. owns => 1 .. conns \subseteq endedConns
    BY <1>1, <1>2 DEF Lone
<1>5. stranded = {} /\ \A t \in Tasks : mine[t] = 0
    BY <1>1, <1>3 DEF HeldAlive
<1>6. QED
    BY <1>1, <1>3, <1>4, <1>5

(* Every variable has its type, whatever fails and whoever else runs.      *)
THEOREM TypeCorrect == Spec => []TypeOK
BY InductiveSafety, TypesFollow, PTL

(* A message that came into a queue is there, with somebody, returned or   *)
(* lost, and is returned again only if its acknowledgement was cut off with*)
(* its AMQP channel, through any number of receives, failures, requeues,   *)
(* expiries and closes (rabbitmq.py 84-137).                               *)
THEOREM AtLeastOnceCorrect == Spec => []AtLeastOnce
BY InductiveSafety, ScatteredIsAtLeastOnce, PTL

(* A message that nobody can get any more.                                 *)
Final(c, n) ==
    /\ n \in arrived[c] /\ n \notin box[c]
    /\ ~InHand(c, n) /\ ~WithNobody(c, n) /\ ~UnderWay(c, n)

FinalSets ==
    \A c \in Channels :
        Settled(c) \subseteq Nat /\ \A n \in Nat : n \in Settled(c) <=> Final(c, n)

LEMMA SettledIsFinal == IInv => FinalSets
BY SetsOfPlaces DEF IInv, FinalSets, Settled, Final

LEMMA TaskKeepsFinal ==
    ASSUME IInv, NEW t \in Tasks, TaskStep(t), NEW c \in Channels, NEW n \in Nat, Final(c, n)
    PROVE  Final(c, n)'
<1>0. /\ PlaceTypes /\ MadeTypes /\ MessageTypes /\ HeldAlive /\ chan[t] \in Channels
      /\ \A u \in Tasks \ {t} : chan'[u] = chan[u]
      /\ n \in arrived[c] /\ n \notin box[c] /\ ~InHand(c, n) /\ ~WithNobody(c, n) /\ ~UnderWay(c, n)
    BY OthersStay DEF IInv, PlaceTypes, Final
<1>1. ~Holds(t, c, n) /\ (box[chan[t]] # {} => First(chan[t]) \in box[chan[t]])
    BY <1>0, FirstInBox DEF InHand, IInv
<1>2. n \in arrived'[c] /\ n \notin box'[c]
    <2>1. CASE Delivers(t)
        <3>1. PICK cs \in SUBSET Channels : Deliver(cs)
            BY <2>1 DEF Delivers
        <3>2. n # published + 1
            BY <1>0 DEF MessageTypes
        <3>3. QED
            BY <1>0, <3>1, <3>2 DEF Deliver
    <2>2. CASE ~Delivers(t)
        <3>1. arrived' = arrived /\ (box' = box \/ box' = Taken(chan[t]))
            BY <1>0, <2>2, StepMessages DEF Gets, GetsAndLeaves, GivesBack, Loses, Leaves, NothingMoves
        <3>2. Taken(chan[t])[c] \subseteq box[c]
            BY <1>0 DEF Taken, MessageTypes
        <3>3. QED
            BY <1>0, <3>1, <3>2
    <2>3. QED
        BY <2>1, <2>2
<1>3. ~InHand(c, n)'
    <2> SUFFICES ASSUME NEW u \in Tasks, Holds(u, c, n)' PROVE FALSE
        BY DEF InHand
    <2>1. ~Holds(u, c, n)
        BY <1>0 DEF InHand
    <2>2. CASE u # t
        <3>1. mine'[u] = mine[u] /\ chan'[u] = chan[u]
            BY <1>0, <2>2, StepMessages DEF Delivers, Gets, GetsAndLeaves, GivesBack, Loses, Leaves,
               NothingMoves, LetGo, MessageTypes
        <3>2. QED
            BY <2>1, <3>1 DEF Holds
    <2>3. CASE u = t
        <3>1. CASE Gets(t)
            <4>1. chan[t] = c /\ n = First(chan[t]) /\ box[chan[t]] # {}
                BY <2>3, <3>1 DEF Gets, Holds, MessageTypes, IInv
            <4>2. QED
                BY <1>0, <1>1, <4>1
        <3>2. CASE ~Gets(t)
            BY <1>0, <2>3, <3>2, StepMessages DEF Delivers, GetsAndLeaves, GivesBack, Loses, Leaves,
               NothingMoves, LetGo, MessageTypes, Holds
        <3>3. QED
            BY <3>1, <3>2
    <2>4. QED
        BY <2>2, <2>3
<1>4. ASSUME mine[t] # 0, n = mine[t] PROVE c # chan[t]
    BY <1>1, <1>4 DEF Holds
<1>5. ~WithNobody(c, n)'
    <2> SUFFICES ASSUME NEW m, Left(m, c, n)' PROVE FALSE
        BY DEF WithNobody
    <2>1. m \notin stranded
        BY <1>0 DEF Left, WithNobody
    <2>2. CASE GetsAndLeaves(t)
        <3>1. chan[t] = c /\ n = First(chan[t])
            BY <2>1, <2>2 DEF GetsAndLeaves, Left
        <3>2. QED
            BY <1>0, <1>1, <2>2, <3>1 DEF GetsAndLeaves
    <2>3. CASE Leaves(t)
        BY <1>4, <2>1, <2>3 DEF Leaves, Left, Mine
    <2>4. QED
        BY <1>0, <2>1, <2>2, <2>3, StepMessages DEF Delivers, Gets, GivesBack, Loses, NothingMoves, Left
<1>6. ~UnderWay(c, n)'
    <2> SUFFICES ASSUME NEW m, Acked(m, c, n)' PROVE FALSE
        BY DEF UnderWay
    <2>1. m \notin acks
        BY <1>0 DEF Acked, UnderWay
    <2>2. CASE GivesBack(t) \/ Loses(t)
        BY <1>4, <2>1, <2>2 DEF GivesBack, Loses, Acked, Mine
    <2>3. QED
        BY <1>0, <2>1, <2>2, StepMessages DEF Delivers, Gets, GetsAndLeaves, Leaves, NothingMoves, Acked
<1>7. QED
    BY <1>2, <1>3, <1>5, <1>6 DEF Final

LEMMA WorldKeepsFinal ==
    ASSUME IInv, WorldStep \/ UNCHANGED vars, NEW c \in Channels, NEW n \in Nat, Final(c, n)
    PROVE  Final(c, n)'
<1>0. /\ MadeTypes /\ MessageTypes /\ chan' = chan
      /\ n \in arrived[c] /\ n \notin box[c] /\ ~InHand(c, n) /\ ~WithNobody(c, n) /\ ~UnderWay(c, n)
    BY WorldPlaces DEF IInv, Final, NobodyMoves
<1>1. /\ arrived' = arrived /\ n \notin box'[c]
      /\ mine' \in [Tasks -> Nat] /\ \A t \in Tasks : mine'[t] \in {0, mine[t]}
      /\ stranded' \subseteq stranded /\ acks' \subseteq acks
    <2>1. CASE \E ns, void : Requeues(ns, void)
        <3>1. PICK ns, void : Requeues(ns, void)
            BY <2>1
        <3>2. n # 0
            BY <1>0 DEF MessageTypes
        <3>3. /\ ~(\E t \in Holding(ns) : chan[t] = c /\ mine[t] = n)
              /\ ~(\E m \in stranded : m.chan = c /\ m.on \in ns /\ m.id = n)
              /\ ~(\E m \in void : m.chan = c /\ m.id = n)
            BY <1>0, <3>1, <3>2 DEF Requeues, Holding, InHand, Holds, WithNobody, Left, UnderWay, Acked
        <3>4. n \notin box'[c]
            BY <1>0, <3>1, <3>3 DEF Requeues, Requeue
        <3>5. QED
            BY <1>0, <3>1, <3>4 DEF Requeues, Requeue, MessageTypes
    <2>2. CASE \E d \in Channels : Expires(d) \/ Empties(d)
        <3>1. PICK d \in Channels : Expires(d) \/ Empties(d)
            BY <2>2
        <3>2. box' = Taken(d) \/ box' = [box EXCEPT ![d] = {}]
            BY <3>1 DEF Expires, Empties
        <3>3. box'[c] \subseteq box[c]
            BY <1>0, <3>2 DEF Taken, MessageTypes
        <3>4. QED
            BY <1>0, <3>1, <3>3 DEF Expires, Empties, MessageTypes
    <2>3. CASE LeavesAll
        BY <1>0, <2>3 DEF LeavesAll, MessageTypes
    <2>4. QED
        BY <1>0, <2>1, <2>2, <2>3, WorldMessages
<1>2. ~InHand(c, n)'
    BY <1>0, <1>1 DEF InHand, Holds
<1>3. ~WithNobody(c, n)' /\ ~UnderWay(c, n)'
    BY <1>0, <1>1 DEF WithNobody, Left, UnderWay, Acked
<1>4. QED
    BY <1>0, <1>1, <1>2, <1>3 DEF Final

SettledStays == \A c \in Channels : Settled(c) \subseteq Settled(c)'

(* What the broker has deleted, because its acknowledgement arrived or it  *)
(* expired, never comes back into a queue, whatever is cut off or closed   *)
(* afterwards: what is returned twice was in doubt (rabbitmq.py 95, 130-137).*)
THEOREM SettledForGoodCorrect == Spec => SettledForGood
<1>1. IInv' => FinalSets'
    BY SettledIsFinal, PTL
<1>2. IInv /\ IInv' /\ [Next]_vars => SettledStays
    <2> SUFFICES ASSUME IInv, IInv', [Next]_vars, NEW c \in Channels, NEW n, n \in Settled(c)
                 PROVE  n \in Settled(c)'
        BY DEF SettledStays
    <2>1. n \in Nat /\ Final(c, n)
        BY SettledIsFinal DEF FinalSets
    <2>2. Final(c, n)'
        BY <2>1, NextSteps, TaskKeepsFinal, WorldKeepsFinal
    <2>3. QED
        BY <1>1, <2>1, <2>2 DEF FinalSets
<1>3. IInv /\ IInv' /\ [Next]_vars => [\A c \in Channels : Settled(c) \subseteq Settled(c)']_vars
    BY <1>2 DEF SettledStays
<1>4. QED
    BY <1>3, InductiveSafety, PTL DEF Spec, SettledForGood

(* Whoever binds a queue or publishes has the exchange, but for a first    *)
(* use that failed (rabbitmq.py 151-157, 192-201).                         *)
THEOREM ExchangeKnownCorrect == Spec => []ExchangeKnown
<1>1. IInv => ExchangeKnown
    BY DEF IInv, KeyInv
<1>2. QED
    BY <1>1, InductiveSafety, PTL

(* A queue of which the cache speaks is bound, or has expired              *)
(* (rabbitmq.py 192-214).                                                  *)
THEOREM CachedIsBoundCorrect == Spec => []CachedIsBound
<1>1. IInv => CachedIsBound
    BY DEF IInv, TopologyInv
<1>2. QED
    BY <1>1, InductiveSafety, PTL

(* A close() that has returned leaves no AMQP channel, no connection of    *)
(* the layer's own, no message got and no acknowledgement in doubt, unless *)
(* two tasks raced to open the AMQP channel, or one did with close()       *)
(* (rabbitmq.py 123-157).                                                  *)
THEOREM LeavesNothingCorrect == Spec => []LayerLeavesNothing
BY InductiveSafety, NothingIsLeft, PTL

-----------------------------------------------------------------------------
(* Nobody waits for somebody who waits.  What CallsEnd needs of the code:  *)
(* fairness does the rest.                                                 *)

(* A task whose next step is open to it: it needs no answer, it is         *)
(* refused, or its request is answered.                                    *)
GoesOn(t) ==
    \/ pc[t] \in AtOpening
    \/ pc[t] \in OnAmqp /\ ~Alive(via[t])
    \/ /\ pc[t] \in OnAmqp /\ Answered(t)
       /\ pc[t] = "get" /\ chan[t] \in queues /\ box[chan[t]] = {} => t \in Timed

(* An AMQP channel's exchange is declared by the task that opened it.      *)
OneDeclares ==
    \A t, u \in Tasks :
        pc[t] = "exchange" /\ pc[u] = "exchange" /\ via[t] = via[u] /\ via[t] # 0 => t = u

(* Every task in a call can go on, or waits for its message on an open     *)
(* layer, or for the declaration of an exchange by a task that can go on.  *)
CallsGoOn ==
    \A t \in Tasks : pc[t] # "idle" =>
        \/ GoesOn(t)
        \/ MayWait(t)
        \/ \E u \in Tasks \ {t} : pc[u] = "exchange" /\ via[u] = via[t] /\ GoesOn(u)

LEMMA OneDeclaresKept ==
    ASSUME IInv, OneDeclares, [Next]_vars
    PROVE  OneDeclares'
<1>0. PlaceTypes /\ MadeTypes
    BY DEF IInv
<1>1. CASE WorldStep \/ UNCHANGED vars
    <2>1. pc' = pc /\ \A t \in Tasks : via'[t] = via[t] \/ via'[t] = 0
        BY <1>0, <1>1, WorldPlaces, WorldVia DEF NobodyMoves, CutFrom
    <2>2. QED
        BY <2>1 DEF OneDeclares
<1>2. ASSUME NEW t \in Tasks, TaskStep(t) PROVE OneDeclares'
    <2>1. /\ \A u \in Tasks \ {t} : pc'[u] = pc[u] /\ via'[u] = via[u]
          /\ via \in [Tasks -> Nat] /\ Len(amqp) \in Nat
        BY <1>0, <1>2, OthersStay, OthersVia DEF MadeTypes
    <2>2. CASE pc'[t] # "exchange"
        BY <2>1, <2>2 DEF OneDeclares
    <2>3. CASE Opened(t)
        <3>1. via'[t] = Len(amqp) + 1
            BY <2>1, <2>3 DEF Opened
        <3>2. ASSUME NEW u \in Tasks \ {t}, pc'[u] = "exchange" PROVE via'[u] # via'[t]
            <4>1. pc[u] = "exchange" /\ via'[u] = via[u]
                BY <2>1, <3>2
            <4>2. via[u] \in 0 .. Len(amqp)
                BY <1>0, <4>1 DEF MadeTypes, ViaOf, OnAmqp, Places, Made
            <4>3. QED
                BY <2>1, <3>1, <4>1, <4>2
        <3>3. QED
            BY <2>1, <3>2 DEF OneDeclares
    <2>4. QED
        BY <1>0, <1>2, <2>2, <2>3, StepMakes DEF Connected, Caches, Requesting, Waits, GivenUp
<1>3. QED
    BY <1>1, <1>2, NextSteps

LEMMA OneDeclaresInvariant == Spec => []OneDeclares
<1>1. Init => OneDeclares
    BY DEF Init, OneDeclares
<1>2. QED
    BY <1>1, OneDeclaresKept, InductiveSafety, PTL DEF Spec

LEMMA SomebodyGoesOn ==
    ASSUME IInv, OneDeclares
    PROVE  CallsGoOn
<1>0. PlaceTypes /\ MadeTypes /\ CloseInv
    BY DEF IInv
<1> SUFFICES ASSUME NEW t \in Tasks, pc[t] # "idle", ~GoesOn(t), ~MayWait(t)
             PROVE  \E u \in Tasks \ {t} : pc[u] = "exchange" /\ via[u] = via[t] /\ GoesOn(u)
    BY DEF CallsGoOn
<1>1. pc[t] \in OnAmqp /\ Alive(via[t])
    BY <1>0 DEF GoesOn, PlaceTypes, Places, OnAmqp, AtOpening
<1>2. CASE Answered(t)
    <2>1. pc[t] = "get" /\ t \notin Timed /\ box[chan[t]] = {}
        BY <1>1, <1>2 DEF GoesOn
    <2>2. closed /\ ~raced
        BY <2>1 DEF MayWait
    <2>3. Lone /\ Len(amqp) \in Nat /\ DOMAIN amqp = 1 .. Len(amqp)
        BY <1>0, <2>2 DEF CloseInv, MadeTypes
    <2>4. via[t] = channel /\ channel # 0
        BY <1>1, <2>3 DEF Lone, Alive
    <2>5. QED
        BY <1>1, <2>2, <2>3, <2>4 DEF Lone, Alive
<1>3. CASE ~Answered(t)
    <2>1. PICK u \in Tasks \ {t} : pc[u] = "exchange" /\ via[u] = via[t]
        BY <1>1, <1>3 DEF Answered
    <2>2. Answered(u)
        <3>1. via[t] # 0
            BY <1>0, <1>1 DEF MadeTypes, Alive
        <3>2. QED
            BY <1>1, <2>1, <3>1 DEF Answered, OneDeclares
    <2>3. GoesOn(u)
        BY <2>1, <2>2 DEF GoesOn, OnAmqp, Places
    <2>4. QED
        BY <2>1, <2>3
<1>4. QED
    BY <1>2, <1>3

(* However many tasks use the layer for the first time at once, none waits *)
(* for a declaration that nobody is making, and a receive waits for its    *)
(* message only (rabbitmq.py 58-137, 151-201).                             *)
THEOREM CallsGoOnCorrect == Spec => []CallsGoOn
BY InductiveSafety, OneDeclaresInvariant, SomebodyGoesOn, PTL
=============================================================================
