-------------------------- MODULE NatsLayer_proof --------------------------
(***************************************************************************)
(* Proofs about a NATS layer and the groups of other processes composed    *)
(* with it, for any number of tasks, callers, channels and mixes of calls. *)
(***************************************************************************)
EXTENDS NatsLayer, NatsGroups_proof, FiniteSetTheorems, WellFoundedInduction

USE AttemptsAssumption, BoundsAssumption, NamesAssumption, TasksAssumption, MixesAssumption
USE DEF keyVars, callVars, fanVars, clientVars, streamVars, subVars, closeVars, messageVars, taskVars,
        pastVars

Stutters == UNCHANGED <<vars, layerVars>>
WorldStep ==
    \/ \E w \in Callers : GroupStep(w) \/ \E c \in Channels : FanOut(w, c)
    \/ \E c \in Channels : Unsubscribe(c) \/ Redelivered(c)
    \/ CloseLayer \/ ClearSubscriptions \/ CloseClient \/ CloseRaises
    \/ Stutters

LEMMA LayerSteps == [LayerNext]_<<vars, layerVars>> => WorldStep \/ \E t \in Tasks : TaskStep(t)
BY DEF LayerNext, WorldStep, Stutters

-----------------------------------------------------------------------------
(* The groups.  A step of the composition is one of theirs, or leaves them *)
(* alone but for the bounds they share with the tasks.                     *)
GroupsRest ==
    /\ UNCHANGED <<keyVars, closed, pc, ask, begun, attempt, seen, fanVars, result, blind, failed,
                   stable>>
    /\ calls' \in {calls, calls + 1} /\ faults' \in {faults, faults + 1}

LEMMA LayerGroups == [LayerNext]_<<vars, layerVars>> => Next \/ GroupsRest
<1> SUFFICES ASSUME [LayerNext]_<<vars, layerVars>> PROVE Next \/ GroupsRest
    OBVIOUS
<1>1. CASE \E w \in Callers : GroupStep(w)
    BY <1>1 DEF GroupStep, Next, Step
<1>2. CASE \E w \in Callers, c \in Channels : FanOut(w, c)
    BY <1>2 DEF FanOut, Next, Step
<1>3. CASE \E t \in Tasks : TaskStep(t)
    <2>1. PICK t \in Tasks : TaskStep(t)
        BY <1>3
    <2>2. CASE \E o \in {"send", "receive"}, c \in Channels : Begin(t, o, c)
        BY <2>2 DEF Begin, GroupsRest
    <2>3. CASE Connect(t) \/ Publishes(t) \/ Subscribe(t) \/ Fetch(t) \/ Ack(t) \/ TimesOut(t) \/ Refused(t)
        BY <2>3 DEF Connect, Publishes, Subscribe, Fetch, Ack, TimesOut, Refused, vars, GroupsRest
    <2>4. CASE AddStream(t)
        BY <2>4 DEF AddStream, Failure, Outside, GroupsRest
    <2>5. CASE TaskFails(t) \/ PublishUnanswered(t) \/ FetchUnanswered(t) \/ AckLost(t) \/ AckInVain(t) \/ AckLate(t)
        BY <2>5 DEF TaskFails, PublishUnanswered, FetchUnanswered, AckLost, AckInVain, AckLate, Failure,
           Outside, GroupsRest
    <2>6. QED
        BY <2>1, <2>2, <2>3, <2>4, <2>5 DEF TaskStep
<1>4. CASE \E c \in Channels : Unsubscribe(c) \/ Redelivered(c)
    BY <1>4 DEF Unsubscribe, Redelivered, vars, GroupsRest
<1>5. CASE CloseLayer \/ ClearSubscriptions \/ CloseClient \/ Stutters
    BY <1>5 DEF CloseLayer, ClearSubscriptions, CloseClient, Stutters, vars, GroupsRest
<1>6. CASE CloseRaises
    BY <1>6 DEF CloseRaises, Failure, Outside, GroupsRest
<1>7. QED
    BY <1>1, <1>2, <1>3, <1>4, <1>5, <1>6, LayerSteps DEF WorldStep

LEMMA GroupsRestKept ==
    ASSUME RoundsInv, ViewInv, GroupsRest
    PROVE  RoundsInv' /\ ViewInv' /\ ContractStep
<1>1. TypeOK'
    BY DEF RoundsInv, TypeOK, GroupsRest
<1>2. RoundsInv'
    BY <1>1 DEF RoundsInv, RoundsOf, Accepts, GroupsRest
<1>3. ViewInv'
    BY <1>1 DEF ViewInv, SeenOf, StableOf, Returned, GroupsRest
<1>4. ContractStep
    BY DEF ContractStep, Phases, Phase, GroupsRest
<1>5. QED
    BY <1>2, <1>3, <1>4

LEMMA GroupsKept ==
    RoundsInv /\ ViewInv /\ [LayerNext]_<<vars, layerVars>> => RoundsInv' /\ ViewInv' /\ ContractStep
<1> SUFFICES ASSUME RoundsInv, ViewInv, [LayerNext]_<<vars, layerVars>>
             PROVE  RoundsInv' /\ ViewInv' /\ ContractStep
    OBVIOUS
<1>1. CASE Next
    <2>1. RoundsInv' /\ ContractStep
        BY <1>1, RoundsInductive, StepImplements
    <2>2. TypeOK'
        BY <2>1 DEF RoundsInv
    <2>3. ViewInv'
        BY <1>1, <2>2, ViewSeen, ViewStable DEF ViewInv
    <2>4. QED
        BY <2>1, <2>3
<1>2. CASE GroupsRest
    BY <1>2, GroupsRestKept
<1>3. QED
    BY <1>1, <1>2, LayerGroups

-----------------------------------------------------------------------------
(* Places of the tasks.                                                    *)
Calling == {"send", "receive"}
Suits(o, place) ==
    /\ place \in TaskPlaces \ {"idle"}
    /\ place = "publish" => o = "send"
    /\ place \in {"subscribe", "fetch", "ack"} => o = "receive"
PlaceOf(t) ==
    /\ op[t] = "none" <=> at[t] = "idle"
    /\ chan[t] = NoChannel <=> at[t] = "idle"
    /\ at[t] # "idle" => Suits(op[t], at[t])
PlaceTypes ==
    /\ op \in [Tasks -> {"none", "send", "receive"}] /\ at \in [Tasks -> TaskPlaces]
    /\ chan \in [Tasks -> Channels \cup {NoChannel}]
    /\ \A t \in Tasks : PlaceOf(t)

Begins(t) == \E o \in Calling, c \in Channels : Begin(t, o, c)
Advances(t, place) ==
    /\ at[t] # "idle" /\ Suits(op[t], place) /\ Moves(t, place) /\ UNCHANGED <<op, chan>>
Remains == UNCHANGED taskVars

LEMMA LastSuits ==
    ASSUME NEW o \in Calling
    PROVE  Suits(o, Last(o)) /\ Last(o) \in {"publish", "subscribe"}
BY DEF Last, Suits, Calling, TaskPlaces

LEMMA FirstPlaces ==
    ASSUME NEW o \in Calling
    PROVE  /\ FirstPlace(o) \in {"connect", "stream", Last(o)} /\ Suits(o, FirstPlace(o))
           /\ FirstPlace(o) = "connect" <=> NeedsClient
<1>1. CASE NeedsClient
    BY <1>1 DEF FirstPlace, Suits, TaskPlaces
<1>2. CASE ~NeedsClient /\ ~ready
    BY <1>2 DEF FirstPlace, Suits, TaskPlaces
<1>3. CASE ~NeedsClient /\ ready
    <2>1. FirstPlace(o) = Last(o)
        BY <1>3 DEF FirstPlace
    <2>2. QED
        BY <1>3, <2>1, LastSuits
<1>4. QED
    BY <1>1, <1>2, <1>3

LEMMA StepPlaces ==
    ASSUME PlaceTypes, NEW t \in Tasks, TaskStep(t)
    PROVE  Begins(t) \/ Leaves(t) \/ (\E place : Advances(t, place)) \/ Remains
<1>0. PlaceOf(t) /\ op[t] \in {"none", "send", "receive"}
    BY DEF PlaceTypes
<1>1. CASE \E o \in {"send", "receive"}, c \in Channels : Begin(t, o, c)
    BY <1>1 DEF Begins, Calling
<1>2. ASSUME at[t] # "idle" PROVE op[t] \in Calling /\ Suits(op[t], Last(op[t]))
    <2>1. op[t] \in Calling
        BY <1>0, <1>2 DEF PlaceOf, Calling
    <2>2. QED
        BY <2>1, LastSuits
<1>3. CASE Connect(t)
    <2>1. Moves(t, IF ready THEN Last(op[t]) ELSE "stream") /\ UNCHANGED <<op, chan>> /\ at[t] = "connect"
        BY <1>3 DEF Connect
    <2>2. Suits(op[t], IF ready THEN Last(op[t]) ELSE "stream")
        BY <1>2, <2>1 DEF Suits, TaskPlaces
    <2>3. QED
        BY <2>1, <2>2 DEF Advances
<1>4. CASE AddStream(t)
    <2>1. Advances(t, Last(op[t]))
        BY <1>2, <1>4 DEF AddStream, Advances
    <2>2. QED
        BY <2>1
<1>5. CASE Subscribe(t)
    <2>1. Advances(t, "fetch")
        BY <1>0, <1>5 DEF Subscribe, Advances, PlaceOf, Suits, TaskPlaces
    <2>2. QED
        BY <2>1
<1>6. CASE Fetch(t)
    <2>1. Advances(t, "ack")
        BY <1>0, <1>6 DEF Fetch, Advances, PlaceOf, Suits, TaskPlaces
    <2>2. QED
        BY <2>1
<1>7. CASE Publishes(t) \/ Ack(t) \/ TimesOut(t) \/ Refused(t) \/ TaskFails(t) \/ PublishUnanswered(t)
           \/ AckLost(t) \/ AckInVain(t)
    BY <1>7 DEF Publishes, Ack, TimesOut, Refused, TaskFails, PublishUnanswered, AckLost, AckInVain
<1>8. CASE FetchUnanswered(t) \/ AckLate(t)
    BY <1>8 DEF FetchUnanswered, AckLate, Remains
<1>9. QED
    BY <1>1, <1>3, <1>4, <1>5, <1>6, <1>7, <1>8 DEF TaskStep

(* A step of a task moves it alone.                                        *)
LEMMA OthersStay ==
    ASSUME PlaceTypes, NEW t \in Tasks, TaskStep(t)
    PROVE  \A u \in Tasks \ {t} : at'[u] = at[u] /\ op'[u] = op[u] /\ chan'[u] = chan[u]
<1>1. CASE Begins(t)
    BY <1>1 DEF Begins, Begin, Moves, PlaceTypes
<1>2. CASE Leaves(t)
    BY <1>2 DEF Leaves, Moves, PlaceTypes
<1>3. CASE \E place : Advances(t, place)
    BY <1>3 DEF Advances, Moves, PlaceTypes
<1>4. CASE Remains
    BY <1>4 DEF Remains
<1>5. QED
    BY <1>1, <1>2, <1>3, <1>4, StepPlaces

LEMMA PlacesKept ==
    ASSUME PlaceTypes, NEW t \in Tasks, TaskStep(t)
    PROVE  PlaceTypes'
<1>1. ASSUME NEW u \in Tasks, u # t PROVE PlaceOf(u)'
    <2>1. PlaceOf(u) /\ at'[u] = at[u] /\ op'[u] = op[u] /\ chan'[u] = chan[u]
        BY <1>1, OthersStay DEF PlaceTypes
    <2>2. QED
        BY <2>1 DEF PlaceOf
<1>2. CASE Begins(t)
    <2>1. PICK o \in Calling, c \in Channels : Begin(t, o, c)
        BY <1>2 DEF Begins
    <2>2. PICK place : /\ place = IF Known(o, c) THEN "fetch" ELSE FirstPlace(o)
                       /\ at' = [at EXCEPT ![t] = place] /\ op' = [op EXCEPT ![t] = o]
                       /\ chan' = [chan EXCEPT ![t] = c]
        BY <2>1 DEF Begin, Moves
    <2>3. Suits(o, place)
        <3>1. CASE Known(o, c)
            BY <2>2, <3>1 DEF Known, Suits, TaskPlaces
        <3>2. CASE ~Known(o, c)
            BY <2>2, <3>2, FirstPlaces
        <3>3. QED
            BY <3>1, <3>2
    <2>4. PlaceOf(t)'
        BY <2>2, <2>3 DEF PlaceTypes, PlaceOf, Suits, Calling
    <2>5. QED
        BY <1>1, <2>2, <2>3, <2>4 DEF PlaceTypes, Suits, Calling
<1>3. CASE Leaves(t)
    <2>1. /\ at' = [at EXCEPT ![t] = "idle"] /\ op' = [op EXCEPT ![t] = "none"]
          /\ chan' = [chan EXCEPT ![t] = NoChannel]
        BY <1>3 DEF Leaves, Moves
    <2>2. PlaceOf(t)'
        BY <2>1 DEF PlaceTypes, PlaceOf
    <2>3. QED
        BY <1>1, <2>1, <2>2 DEF PlaceTypes, TaskPlaces
<1>4. CASE \E place : Advances(t, place)
    <2>1. PICK place : Advances(t, place)
        BY <1>4
    <2>2. /\ at' = [at EXCEPT ![t] = place] /\ UNCHANGED <<op, chan>> /\ Suits(op[t], place)
          /\ at[t] # "idle"
        BY <2>1 DEF Advances, Moves
    <2>3. PlaceOf(t)'
        BY <2>2 DEF PlaceTypes, PlaceOf, Suits
    <2>4. QED
        BY <1>1, <2>2, <2>3 DEF PlaceTypes, Suits
<1>5. CASE Remains
    BY <1>5 DEF Remains, PlaceTypes, PlaceOf
<1>6. QED
    BY <1>2, <1>3, <1>4, <1>5, StepPlaces

(* The other steps leave the tasks, and what they make, alone.             *)
LEMMA WorldRests ==
    ASSUME WorldStep
    PROVE  /\ UNCHANGED <<mix, clientVars, ready, subClient, taskVars, pastVars>>
           /\ stream \in BOOLEAN => stream' \in BOOLEAN
<1>1. CASE \E w \in Callers, c \in Channels : FanOut(w, c)
    BY <1>1 DEF FanOut
<1>2. CASE Stutters \/ \E w \in Callers : GroupStep(w)
    BY <1>2 DEF Stutters, GroupStep, layerVars
<1>3. CASE \E c \in Channels : Unsubscribe(c) \/ Redelivered(c)
    BY <1>3 DEF Unsubscribe, Redelivered
<1>4. CASE CloseLayer \/ ClearSubscriptions \/ CloseClient \/ CloseRaises
    BY <1>4 DEF CloseLayer, ClearSubscriptions, CloseClient, CloseRaises
<1>5. QED
    BY <1>1, <1>2, <1>3, <1>4 DEF WorldStep

-----------------------------------------------------------------------------
(* Clients and subscriptions are numbered as they are made, and what a     *)
(* task's request is made on is one of them.                               *)
ViaOf(t) ==
    /\ at[t] = "stream" => js # 0
    /\ at[t] \in {"publish", "subscribe"} => via[t] \in 1 .. clients
    /\ at[t] \in {"fetch", "ack"} => via[t] \in 1 .. Len(subClient)
MadeTypes ==
    /\ mix \in Mixes /\ owns \in BOOLEAN /\ ready \in BOOLEAN /\ stream \in BOOLEAN
    /\ clients \in Nat /\ client \in 0 .. clients /\ js \in 0 .. clients
    /\ subClient \in Seq(1 .. clients) /\ subs \in [Channels -> 0 .. Len(subClient)]
    /\ via \in [Tasks -> Nat]
    /\ \A t \in Tasks : ViaOf(t)

LEMMA AppendElements ==
    ASSUME NEW S, NEW q \in Seq(S), NEW e \in S
    PROVE  /\ Append(q, e) \in Seq(S) /\ Len(Append(q, e)) = Len(q) + 1 /\ Len(q) \in Nat
           /\ DOMAIN q = 1 .. Len(q) /\ DOMAIN Append(q, e) = 1 .. Len(q) + 1
           /\ Append(q, e)[Len(q) + 1] = e
           /\ \A i \in 1 .. Len(q) : Append(q, e)[i] = q[i]
OBVIOUS

LEMMA SeqOfMore ==
    ASSUME NEW n \in Nat, NEW q \in Seq(1 .. n)
    PROVE  q \in Seq(1 .. n + 1) /\ Len(q) \in Nat /\ DOMAIN q = 1 .. Len(q)
<1>1. 1 .. n \subseteq 1 .. n + 1
    OBVIOUS
<1>2. QED
    BY <1>1

(* What a task's step may do to what is made.                              *)
Asked(t) ==
    /\ at[t] = "idle" /\ ~shut
    /\ at'[t] \in {"connect", "stream", "publish", "subscribe", "fetch"}
    /\ js' = js \/ (js = 0 /\ client # 0 /\ js' = client)
    /\ at'[t] = "connect" => client = 0 /\ js = 0
    /\ at'[t] = "stream" => js' # 0
    /\ at'[t] \in {"publish", "subscribe"} => js' # 0 /\ via'[t] = js'
    /\ at'[t] = "fetch" => \E c \in Channels : via'[t] = subs[c] /\ subs[c] # 0
    /\ (\E n \in Nat : via' = [via EXCEPT ![t] = n])
    /\ UNCHANGED <<owns, client, clients, streamVars, subVars, raced>>
Connects(t) ==
    /\ at[t] = "connect" /\ at'[t] \in {"stream", "publish", "subscribe"}
    /\ clients' = clients + 1 /\ client' = clients + 1 /\ js' = clients + 1
    /\ via' = [via EXCEPT ![t] = clients + 1]
    /\ UNCHANGED <<owns, streamVars, subVars>>
    /\ raced' <=> raced \/ shut \/ client # 0
    /\ raced \in BOOLEAN => raced' \in BOOLEAN
Streams(t) ==
    /\ at[t] = "stream" /\ at'[t] \in {"publish", "subscribe"}
    /\ ready' = TRUE /\ stream' \in {TRUE, stream} /\ via' = [via EXCEPT ![t] = js]
    /\ UNCHANGED <<clientVars, subVars, raced>>
Subscribes(t) ==
    /\ at[t] = "subscribe" /\ at'[t] = "fetch"
    /\ subClient' = Append(subClient, via[t]) /\ via[t] \notin endedClients
    /\ subs' = [subs EXCEPT ![chan[t]] = Len(subClient) + 1]
    /\ via' = [via EXCEPT ![t] = Len(subClient) + 1]
    /\ UNCHANGED <<clientVars, streamVars>>
    /\ raced' <=> raced \/ shut \/ subs[chan[t]] # 0
    /\ raced \in BOOLEAN => raced' \in BOOLEAN
Uses(t) ==
    /\ \/ at'[t] = "idle" /\ via' = [via EXCEPT ![t] = 0]
       \/ at'[t] = "ack" /\ at[t] = "fetch" /\ via' = via
       \/ at'[t] = at[t] /\ via' = via
    /\ UNCHANGED <<clientVars, streamVars, subVars, raced>>

LEMMA BeginAsks ==
    ASSUME PlaceTypes, MadeTypes, NEW t \in Tasks, NEW o \in Calling, NEW c \in Channels, Begin(t, o, c)
    PROVE  Asked(t)
<1>0. /\ at \in [Tasks -> TaskPlaces] /\ via \in [Tasks -> Nat]
      /\ clients \in Nat /\ client \in 0 .. clients /\ js \in 0 .. clients
      /\ subs[c] \in 0 .. Len(subClient) /\ Len(subClient) \in Nat
    BY DEF PlaceTypes, MadeTypes
<1>1. /\ at[t] = "idle" /\ ~shut /\ UNCHANGED <<owns, client, clients, streamVars, subVars, raced>>
    BY DEF Begin
<1>2. CASE Known(o, c)
    <2>1. at' = [at EXCEPT ![t] = "fetch"] /\ js' = js /\ via' = [via EXCEPT ![t] = subs[c]] /\ subs[c] # 0
        BY <1>2 DEF Begin, Moves, Via, Known
    <2>2. at'[t] = "fetch" /\ via'[t] = subs[c] /\ subs[c] \in Nat
        BY <1>0, <2>1
    <2>3. QED
        BY <1>1, <2>1, <2>2 DEF Asked
<1>3. CASE ~Known(o, c)
    <2>1. at' = [at EXCEPT ![t] = FirstPlace(o)] /\ js' = Context /\ via' = [via EXCEPT ![t] = Context]
        BY <1>3 DEF Begin, Moves, Via
    <2>2. at'[t] = FirstPlace(o) /\ via'[t] = Context /\ Context \in Nat
        BY <1>0, <2>1 DEF Context
    <2>3. at'[t] \in {"connect", "stream", "publish", "subscribe"} /\ (at'[t] = "connect" <=> NeedsClient)
        BY <2>2, FirstPlaces, LastSuits
    <2>4. /\ NeedsClient <=> js = 0 /\ client = 0
          /\ Context = js \/ (js = 0 /\ Context = client)
          /\ ~NeedsClient => Context # 0
        BY DEF NeedsClient, Context
    <2>5. js' = js \/ (js = 0 /\ client # 0 /\ js' = client)
        BY <2>1, <2>4
    <2>6. QED
        BY <1>1, <2>1, <2>2, <2>3, <2>4, <2>5 DEF Asked
<1>4. QED
    BY <1>2, <1>3

LEMMA StepMakes ==
    ASSUME PlaceTypes, MadeTypes, NEW t \in Tasks, TaskStep(t)
    PROVE  Asked(t) \/ Connects(t) \/ Streams(t) \/ Subscribes(t) \/ Uses(t)
<1>0. /\ \A place : Moves(t, place) => at'[t] = place
      /\ at[t] # "idle" => Last(op[t]) \in {"publish", "subscribe"}
    <2>1. PlaceOf(t) /\ op[t] \in {"none", "send", "receive"}
        BY DEF PlaceTypes
    <2>2. at[t] # "idle" => op[t] \in Calling
        BY <2>1 DEF PlaceOf, Calling
    <2>3. QED
        BY <2>2, LastSuits DEF PlaceTypes, Moves
<1>1. CASE \E o \in {"send", "receive"}, c \in Channels : Begin(t, o, c)
    BY <1>1, BeginAsks DEF Calling
<1>2. CASE Connect(t)
    <2>1. at[t] = "connect" /\ Moves(t, IF ready THEN Last(op[t]) ELSE "stream")
        BY <1>2 DEF Connect
    <2>2. at'[t] \in {"stream", "publish", "subscribe"}
        BY <1>0, <2>1
    <2>3. (raced' <=> raced \/ shut \/ client # 0) /\ (raced \in BOOLEAN => raced' \in BOOLEAN)
        BY <1>2 DEF Connect
    <2>4. QED
        BY <1>2, <2>1, <2>2, <2>3 DEF Connect, Connects, Via
<1>3. CASE AddStream(t)
    BY <1>0, <1>3 DEF AddStream, Streams, Via
<1>4. CASE Subscribe(t)
    <2>1. (raced' <=> raced \/ shut \/ subs[chan[t]] # 0) /\ (raced \in BOOLEAN => raced' \in BOOLEAN)
        BY <1>4 DEF Subscribe
    <2>2. QED
        BY <1>0, <1>4, <2>1 DEF Subscribe, Subscribes, Via
<1>5. CASE Fetch(t)
    BY <1>0, <1>5 DEF Fetch, Uses
<1>6. CASE Publishes(t) \/ Ack(t) \/ TimesOut(t) \/ Refused(t) \/ TaskFails(t) \/ PublishUnanswered(t)
           \/ AckLost(t) \/ AckInVain(t)
    <2>1. Leaves(t) /\ UNCHANGED <<clientVars, streamVars, subVars, raced>>
        BY <1>6 DEF Publishes, Ack, TimesOut, Refused, TaskFails, PublishUnanswered, AckLost, AckInVain
    <2>2. QED
        BY <1>0, <2>1 DEF Leaves, Via, Uses
<1>7. CASE FetchUnanswered(t) \/ AckLate(t)
    <2>1. Leaves(t) \/ Remains
        BY <1>7 DEF FetchUnanswered, AckLate, Remains
    <2>2. UNCHANGED <<clientVars, streamVars, subVars, raced>>
        BY <1>7 DEF FetchUnanswered, AckLate
    <2>3. QED
        BY <1>0, <2>1, <2>2 DEF Leaves, Via, Remains, Uses
<1>8. QED
    BY <1>1, <1>2, <1>3, <1>4, <1>5, <1>6, <1>7 DEF TaskStep

LEMMA MadeKept ==
    ASSUME PlaceTypes, MadeTypes, NEW t \in Tasks, TaskStep(t)
    PROVE  MadeTypes' /\ \A u \in Tasks \ {t} : via'[u] = via[u]
<1>0. /\ clients \in Nat /\ client \in 0 .. clients /\ js \in 0 .. clients /\ mix \in Mixes
      /\ owns \in BOOLEAN /\ ready \in BOOLEAN /\ stream \in BOOLEAN
      /\ subClient \in Seq(1 .. clients) /\ Len(subClient) \in Nat
      /\ subs \in [Channels -> 0 .. Len(subClient)]
      /\ via \in [Tasks -> Nat] /\ mix' = mix
    <2>1. mix' = mix
        BY DEF TaskStep, Begin, Connect, AddStream, Subscribe, Fetch, Publishes, Ack, TimesOut, Refused,
           TaskFails, PublishUnanswered, AckLost, AckInVain, FetchUnanswered, AckLate
    <2>2. QED
        BY <2>1 DEF MadeTypes
<1>1. \A u \in Tasks \ {t} : at'[u] = at[u] /\ ViaOf(u)
    BY OthersStay DEF MadeTypes
<1>2. CASE Asked(t)
    <2>1. \A u \in Tasks \ {t} : via'[u] = via[u]
        BY <1>0, <1>2 DEF Asked
    <2>2. via' \in [Tasks -> Nat] /\ js' \in 0 .. clients /\ (js # 0 => js' # 0)
        BY <1>0, <1>2 DEF Asked
    <2>3. \A u \in Tasks \ {t} : ViaOf(u)'
        BY <1>1, <1>2, <2>1, <2>2 DEF ViaOf, Asked
    <2>4. ViaOf(t)'
        BY <1>0, <1>2, <2>2 DEF ViaOf, Asked
    <2>5. QED
        BY <1>0, <1>2, <2>1, <2>2, <2>3, <2>4 DEF MadeTypes, Asked
<1>3. CASE Connects(t)
    <2>1. via'[t] = clients + 1 /\ via' \in [Tasks -> Nat] /\ \A u \in Tasks \ {t} : via'[u] = via[u]
        BY <1>0, <1>3 DEF Connects
    <2>2. \A u \in Tasks \ {t} : ViaOf(u)'
        BY <1>0, <1>1, <1>3, <2>1 DEF ViaOf, Connects
    <2>3. ViaOf(t)'
        BY <1>0, <1>3, <2>1 DEF ViaOf, Connects
    <2>4. subClient' \in Seq(1 .. clients')
        BY <1>0, <1>3, SeqOfMore DEF Connects
    <2>5. QED
        BY <1>0, <1>3, <2>1, <2>2, <2>3, <2>4 DEF MadeTypes, Connects
<1>4. CASE Streams(t)
    <2>1. via'[t] = js /\ via' \in [Tasks -> Nat] /\ js # 0 /\ \A u \in Tasks \ {t} : via'[u] = via[u]
        BY <1>0, <1>4 DEF Streams, MadeTypes, ViaOf
    <2>2. \A u \in Tasks \ {t} : ViaOf(u)'
        BY <1>0, <1>1, <1>4, <2>1 DEF ViaOf, Streams
    <2>3. ViaOf(t)'
        BY <1>0, <1>4, <2>1 DEF ViaOf, Streams
    <2>4. QED
        BY <1>0, <1>4, <2>1, <2>2, <2>3 DEF MadeTypes, Streams
<1>5. CASE Subscribes(t)
    <2>1. /\ via'[t] = Len(subClient) + 1 /\ via' \in [Tasks -> Nat]
          /\ \A u \in Tasks \ {t} : via'[u] = via[u]
        BY <1>0, <1>5 DEF Subscribes
    <2>2. via[t] \in 1 .. clients
        BY <1>5 DEF Subscribes, MadeTypes, ViaOf
    <2>3. subClient' \in Seq(1 .. clients) /\ Len(subClient') = Len(subClient) + 1
        BY <1>0, <1>5, <2>2, AppendElements DEF Subscribes
    <2>4. \A u \in Tasks \ {t} : ViaOf(u)'
        BY <1>0, <1>1, <1>5, <2>1, <2>3 DEF ViaOf, Subscribes
    <2>5. ViaOf(t)'
        BY <1>0, <1>5, <2>1, <2>3 DEF ViaOf, Subscribes
    <2>6. subs' \in [Channels -> 0 .. Len(subClient')]
        <3>1. Len(subClient) + 1 \in 0 .. Len(subClient') /\ 0 .. Len(subClient) \subseteq 0 .. Len(subClient')
            BY <1>0, <2>3
        <3>2. subs' = [subs EXCEPT ![chan[t]] = Len(subClient) + 1]
            BY <1>5 DEF Subscribes
        <3>3. QED
            BY <1>0, <3>1, <3>2
    <2>7. QED
        BY <1>0, <1>5, <2>1, <2>3, <2>4, <2>5, <2>6 DEF MadeTypes, Subscribes
<1>6. CASE Uses(t)
    <2>1. via' \in [Tasks -> Nat] /\ \A u \in Tasks \ {t} : via'[u] = via[u]
        BY <1>0, <1>6 DEF Uses
    <2>2. \A u \in Tasks \ {t} : ViaOf(u)'
        BY <1>1, <1>6, <2>1 DEF ViaOf, Uses
    <2>3. ViaOf(t)'
        BY <1>6, <2>1 DEF ViaOf, Uses, MadeTypes
    <2>4. QED
        BY <1>0, <1>6, <2>1, <2>2, <2>3 DEF MadeTypes, Uses
<1>7. QED
    BY <1>2, <1>3, <1>4, <1>5, <1>6, StepMakes

LEMMA MadeKeptByWorld ==
    ASSUME MadeTypes, WorldStep
    PROVE  MadeTypes'
<1>1. /\ UNCHANGED <<mix, clientVars, ready, subClient, via, at>>
      /\ stream' \in BOOLEAN
    BY WorldRests DEF MadeTypes
<1>2. subs' = subs \/ subs' = [c \in Channels |-> 0]
    BY DEF WorldStep, GroupStep, FanOut, Unsubscribe, Redelivered, CloseLayer, ClearSubscriptions,
       CloseClient, CloseRaises, Stutters, layerVars
<1>3. subs' \in [Channels -> 0 .. Len(subClient')]
    BY <1>1, <1>2 DEF MadeTypes
<1>4. QED
    BY <1>1, <1>3 DEF MadeTypes, ViaOf

-----------------------------------------------------------------------------
(* close().  Unless tasks raced the layer has one client at most, and each *)
(* subscription it made is in the dict or has ended.                       *)
OneClient ==
    /\ client # 0 => client = 1 /\ clients = 1
    /\ client = 0 /\ js = 0 => clients = 0
    /\ client = 0 => \A t \in Tasks : at[t] = "connect" => js = 0
    /\ closer = "done" /\ owns /\ client # 0 => client \in endedClients
KeptSubs ==
    /\ closer \in {"open", "unsubscribe"} =>
           \A n \in 1 .. Len(subClient) : \E c \in Channels : subs[c] = n
    /\ closer \in {"drain", "done"} => 1 .. Len(subClient) \subseteq endedSubs
    /\ closer = "unsubscribe" => size = Cardinality(Subscribed)
    /\ \A c \in walked : closer = "unsubscribe" => subs[c] \in endedSubs
    /\ closer = "open" => walked = {}
    /\ closer = "failed" => faults > 0
CloseInv ==
    /\ shut \in BOOLEAN /\ raced \in BOOLEAN
    /\ closer \in {"open", "unsubscribe", "drain", "done", "failed"}
    /\ closer = "open" <=> ~shut
    /\ walked \subseteq Channels /\ size \in Nat
    /\ endedClients \subseteq Nat /\ endedSubs \subseteq Nat
    /\ ~raced => OneClient /\ KeptSubs

LEMMA StepFaults ==
    ASSUME TypeOK, [LayerNext]_<<vars, layerVars>>
    PROVE  faults' \in Nat /\ (faults > 0 => faults' > 0)
<1>1. faults \in Nat
    BY DEF TypeOK
<1>2. faults' \in {faults, faults + 1}
    <2>1. CASE GroupsRest
        BY <2>1 DEF GroupsRest
    <2>2. CASE Next
        BY <2>2 DEF Next, Step, Get, GetFails, Write, Answer, Conflict, WriteFails, Publish, FanOutEnds,
           FanOutRaises, Fails, Close, Call, Fault, NoFault
    <2>3. QED
        BY <2>1, <2>2, LayerGroups
<1>3. QED
    BY <1>1, <1>2

LEMMA CloseKept ==
    ASSUME PlaceTypes, MadeTypes, CloseInv, TypeOK, [LayerNext]_<<vars, layerVars>>,
           NEW t \in Tasks, TaskStep(t)
    PROVE  CloseInv'
<1>0. /\ clients \in Nat /\ client \in 0 .. clients /\ js \in 0 .. clients
      /\ subClient \in Seq(1 .. clients) /\ Len(subClient) \in Nat
      /\ subs \in [Channels -> 0 .. Len(subClient)]
      /\ faults > 0 => faults' > 0
    BY StepFaults DEF MadeTypes
<1>1. /\ UNCHANGED closeVars
      /\ \A u \in Tasks \ {t} : at'[u] = at[u]
    <2>1. UNCHANGED closeVars
        BY DEF TaskStep, Begin, Connect, AddStream, Subscribe, Fetch, Publishes, Ack, TimesOut, Refused,
           TaskFails, PublishUnanswered, AckLost, AckInVain, FetchUnanswered, AckLate
    <2>2. QED
        BY <2>1, OthersStay
<1>2. CASE Asked(t)
    <2>1. ASSUME ~raced PROVE OneClient'
        <3>1. OneClient /\ UNCHANGED <<client, clients, owns>>
            BY <1>2, <2>1 DEF CloseInv, Asked
        <3>2. client' = 0 /\ js' = 0 => clients' = 0
            BY <1>2, <3>1 DEF OneClient, Asked
        <3>3. ASSUME client' = 0, NEW u \in Tasks, at'[u] = "connect" PROVE js' = 0
            BY <1>1, <1>2, <3>1, <3>3 DEF OneClient, Asked
        <3>4. QED
            BY <1>1, <3>1, <3>2, <3>3 DEF OneClient
    <2>2. ASSUME ~raced PROVE KeptSubs'
        BY <1>0, <1>1, <1>2, <2>2 DEF CloseInv, KeptSubs, Subscribed, Asked
    <2>3. QED
        BY <1>1, <1>2, <2>1, <2>2 DEF CloseInv, Asked
<1>3. CASE Connects(t)
    <2>1. ASSUME ~raced' PROVE OneClient'
        <3>1. OneClient /\ ~shut /\ client = 0 /\ ~raced
            BY <1>3, <2>1 DEF CloseInv, Connects
        <3>2. js = 0 /\ clients = 0
            BY <1>3, <3>1 DEF OneClient, Connects
        <3>3. closer' = "open"
            BY <1>1, <3>1 DEF CloseInv
        <3>4. QED
            BY <1>3, <3>2, <3>3 DEF OneClient, Connects
    <2>2. ASSUME ~raced' PROVE KeptSubs'
        BY <1>0, <1>1, <1>3, <2>2 DEF CloseInv, KeptSubs, Subscribed, Connects
    <2>3. raced' \in BOOLEAN
        BY <1>3 DEF CloseInv, Connects
    <2>4. QED
        BY <1>1, <2>1, <2>2, <2>3 DEF CloseInv
<1>4. CASE Streams(t) \/ Uses(t)
    <2>1. UNCHANGED <<clientVars, subVars, raced>> /\ (at'[t] = "connect" => at[t] = "connect")
        BY <1>4 DEF Streams, Uses
    <2>2. ASSUME ~raced PROVE OneClient'
        BY <1>1, <2>1, <2>2 DEF CloseInv, OneClient
    <2>3. ASSUME ~raced PROVE KeptSubs'
        BY <1>0, <1>1, <2>1, <2>3 DEF CloseInv, KeptSubs, Subscribed
    <2>4. QED
        BY <1>1, <2>1, <2>2, <2>3 DEF CloseInv
<1>5. CASE Subscribes(t)
    <2>1. ASSUME ~raced' PROVE OneClient'
        BY <1>1, <1>5, <2>1 DEF CloseInv, OneClient, Subscribes
    <2>2. ASSUME ~raced' PROVE KeptSubs'
        <3>1. KeptSubs /\ ~shut /\ subs[chan[t]] = 0 /\ closer = "open" /\ ~raced
            BY <1>5, <2>2 DEF CloseInv, Subscribes
        <3>2. chan[t] \in Channels
            BY <1>5 DEF Subscribes, PlaceTypes, PlaceOf
        <3>3. via[t] \in 1 .. clients
            BY <1>5 DEF Subscribes, MadeTypes, ViaOf
        <3>4. Len(subClient') = Len(subClient) + 1
            BY <1>0, <1>5, <3>3, AppendElements DEF Subscribes
        <3>5. ASSUME NEW n \in 1 .. Len(subClient') PROVE \E c \in Channels : subs'[c] = n
            <4>1. CASE n = Len(subClient) + 1
                BY <1>0, <1>5, <3>2, <4>1 DEF Subscribes
            <4>2. CASE n \in 1 .. Len(subClient)
                <5>1. PICK c \in Channels : subs[c] = n
                    BY <3>1, <4>2 DEF KeptSubs
                <5>2. c # chan[t]
                    BY <3>1, <4>2, <5>1
                <5>3. QED
                    BY <1>0, <1>5, <5>1, <5>2 DEF Subscribes
            <4>3. QED
                BY <1>0, <3>4, <4>1, <4>2
        <3>6. QED
            BY <1>1, <3>1, <3>5 DEF KeptSubs
    <2>3. raced' \in BOOLEAN
        BY <1>5 DEF CloseInv, Subscribes
    <2>4. QED
        BY <1>1, <2>1, <2>2, <2>3 DEF CloseInv
<1>6. QED
    BY <1>2, <1>3, <1>4, <1>5, StepMakes

LEMMA CloseKeptByWorld ==
    ASSUME MadeTypes, CloseInv, TypeOK, [LayerNext]_<<vars, layerVars>>, WorldStep
    PROVE  CloseInv'
<1>0. /\ subClient \in Seq(1 .. clients) /\ Len(subClient) \in Nat /\ clients \in Nat
      /\ subs \in [Channels -> 0 .. Len(subClient)] /\ client \in Nat
      /\ faults \in Nat /\ (faults > 0 => faults' > 0)
    BY StepFaults DEF MadeTypes, TypeOK
<1>1. UNCHANGED <<clientVars, subClient, at, raced>>
    BY WorldRests
<1>2. CASE CloseLayer
    <2>1. /\ ~shut /\ shut' = TRUE /\ closer' = "unsubscribe" /\ size' = Cardinality(Subscribed)
          /\ UNCHANGED <<subs, walked, endedClients, endedSubs>>
        BY <1>2 DEF CloseLayer
    <2>2. size' \in Nat
        <3>1. IsFiniteSet(Subscribed)
            BY FS_Subset DEF Subscribed
        <3>2. QED
            BY <2>1, <3>1, FS_CardinalityType
    <2>3. closer = "open"
        BY <2>1 DEF CloseInv
    <2>4. ASSUME ~raced PROVE OneClient' /\ KeptSubs'
        <3>1. Subscribed' = Subscribed
            BY <2>1 DEF Subscribed
        <3>2. OneClient'
            BY <1>1, <2>1, <2>4 DEF CloseInv, OneClient
        <3>3. KeptSubs'
            BY <1>1, <2>1, <2>3, <2>4, <3>1 DEF CloseInv, KeptSubs
        <3>4. QED
            BY <3>2, <3>3
    <2>5. QED
        BY <1>1, <2>1, <2>2, <2>4 DEF CloseInv
<1>3. CASE \E c \in Channels : Unsubscribe(c)
    <2>1. PICK c \in Channels :
              /\ closer = "unsubscribe" /\ walked' = walked \cup {c} /\ endedSubs' = endedSubs \cup {subs[c]}
              /\ UNCHANGED <<subs, shut, closer, size, endedClients>>
        BY <1>3 DEF Unsubscribe
    <2>2. endedSubs' \subseteq Nat /\ walked' \subseteq Channels
        <3>1. subs[c] \in Nat
            BY <1>0
        <3>2. QED
            BY <2>1, <3>1 DEF CloseInv
    <2>3. ASSUME ~raced PROVE OneClient' /\ KeptSubs'
        <3>1. Subscribed' = Subscribed
            BY <2>1 DEF Subscribed
        <3>2. OneClient'
            BY <1>1, <2>1, <2>3 DEF CloseInv, OneClient
        <3>3. KeptSubs'
            BY <1>1, <2>1, <2>3, <3>1 DEF CloseInv, KeptSubs
        <3>4. QED
            BY <3>2, <3>3
    <2>4. QED
        BY <1>1, <2>1, <2>2, <2>3 DEF CloseInv
<1>4. CASE ClearSubscriptions
    <2>1. /\ closer = "unsubscribe" /\ Subscribed \subseteq walked /\ closer' = NextToClose
          /\ UNCHANGED <<shut, walked, size, endedClients, endedSubs>>
        BY <1>4 DEF ClearSubscriptions
    <2>2. closer' \in {"drain", "done"} /\ (closer' = "done" => ~(client # 0 /\ owns))
        BY <2>1 DEF NextToClose
    <2>3. ASSUME ~raced PROVE OneClient' /\ KeptSubs'
        <3>1. OneClient'
            BY <1>1, <2>2, <2>3 DEF CloseInv, OneClient
        <3>2. ASSUME NEW n \in 1 .. Len(subClient) PROVE n \in endedSubs
            <4>1. PICK c \in Channels : subs[c] = n
                BY <2>1, <2>3 DEF CloseInv, KeptSubs
            <4>2. c \in walked
                BY <1>0, <2>1, <4>1 DEF Subscribed
            <4>3. QED
                BY <2>1, <2>3, <4>1, <4>2 DEF CloseInv, KeptSubs
        <3>3. KeptSubs'
            BY <1>1, <2>1, <2>2, <3>2 DEF KeptSubs
        <3>4. QED
            BY <3>1, <3>3
    <2>4. QED
        BY <1>1, <2>1, <2>2, <2>3 DEF CloseInv
<1>5. CASE CloseClient
    <2>1. /\ closer = "drain" /\ closer' = "done" /\ endedClients' = endedClients \cup {client}
          /\ UNCHANGED <<subs, shut, walked, size, endedSubs>>
        BY <1>5 DEF CloseClient
    <2>2. ASSUME ~raced PROVE OneClient' /\ KeptSubs'
        BY <1>1, <2>1, <2>2 DEF CloseInv, OneClient, KeptSubs
    <2>3. QED
        BY <1>0, <1>1, <2>1, <2>2 DEF CloseInv
<1>6. CASE CloseRaises
    <2>1. /\ closer \in {"unsubscribe", "drain"} /\ closer' = "failed"
          /\ UNCHANGED <<subs, shut, walked, size, endedClients, endedSubs>>
          /\ (closer = "unsubscribe" /\ Grown) \/ faults' = faults + 1
        BY <1>6 DEF CloseRaises, Failure
    <2>2. ASSUME ~raced PROVE OneClient' /\ KeptSubs'
        <3>1. faults' > 0
            BY <1>0, <2>1, <2>2 DEF CloseInv, KeptSubs, Grown
        <3>2. OneClient'
            BY <1>1, <2>1, <2>2 DEF CloseInv, OneClient
        <3>3. KeptSubs'
            BY <2>1, <3>1 DEF KeptSubs
        <3>4. QED
            BY <3>2, <3>3
    <2>3. QED
        BY <1>1, <2>1, <2>2 DEF CloseInv
<1>7. CASE UNCHANGED <<closeVars, subs>>
    <2>1. Subscribed' = Subscribed
        BY <1>7 DEF Subscribed
    <2>2. ASSUME ~raced PROVE OneClient' /\ KeptSubs'
        BY <1>0, <1>1, <1>7, <2>1, <2>2 DEF CloseInv, OneClient, KeptSubs
    <2>3. QED
        BY <1>1, <1>7, <2>2 DEF CloseInv
<1>8. CASE (\E w \in Callers : GroupStep(w) \/ \E c \in Channels : FanOut(w, c))
           \/ (\E c \in Channels : Redelivered(c)) \/ Stutters
    BY <1>7, <1>8 DEF GroupStep, FanOut, Redelivered, Stutters, layerVars
<1>9. QED
    BY <1>2, <1>3, <1>4, <1>5, <1>6, <1>8 DEF WorldStep

-----------------------------------------------------------------------------
(* Messages.                                                               *)
MessageTypes ==
    /\ sent \in Nat
    /\ box \in [Channels -> SUBSET (1 .. sent)] /\ limbo \in [Channels -> SUBSET (1 .. sent)]
    /\ done \in [Channels -> SUBSET (1 .. sent)]
    /\ mine \in [Tasks -> 0 .. sent] /\ got \in [Tasks -> SUBSET (Channels \X (1 .. sent))]
    /\ doubtful \subseteq Nat
    /\ \A t \in Tasks : mine[t] # 0 <=> at[t] = "ack"

(* The places a message n of channel c may be in.                          *)
Holds(t, c, n) == chan[t] = c /\ mine[t] = n
InHand(c, n) == \E t \in Tasks : Holds(t, c, n)
Back(c, n) == \E t \in Tasks : <<c, n>> \in got[t]
Somewhere(c, n) == n \in box[c] \/ n \in limbo[c] \/ n \in done[c] \/ InHand(c, n)

(* A message that was never in doubt is in one of them at most.            *)
OnePlace(c, n) ==
    /\ n \in box[c] => n \notin limbo[c] /\ ~InHand(c, n) /\ ~Back(c, n)
    /\ n \in limbo[c] => ~InHand(c, n) /\ ~Back(c, n)
    /\ InHand(c, n) => ~Back(c, n)
    /\ \A t, u \in Tasks : Holds(t, c, n) /\ Holds(u, c, n) => t = u
    /\ \A t, u \in Tasks : <<c, n>> \in got[t] /\ <<c, n>> \in got[u] => t = u
InPlace(c, n) ==
    /\ n \in done[c] => Back(c, n) \/ n \in doubtful
    /\ n \notin doubtful => OnePlace(c, n)
Scattered ==
    /\ \A c \in Channels, n \in 1 .. sent : InPlace(c, n)
    /\ \A n \in 1 .. sent : \E c \in Channels : Somewhere(c, n)

Unmoved(c, n) ==
    /\ (n \in box[c])' <=> n \in box[c]
    /\ (n \in limbo[c])' <=> n \in limbo[c]
    /\ (n \in done[c])' <=> n \in done[c]
    /\ \A t \in Tasks : Holds(t, c, n)' <=> Holds(t, c, n)
    /\ \A t \in Tasks : (<<c, n>> \in got[t])' <=> <<c, n>> \in got[t]
    /\ n \in doubtful => (n \in doubtful)'

LEMMA UnmovedInPlace ==
    ASSUME NEW c, NEW n, InPlace(c, n), Unmoved(c, n)
    PROVE  InPlace(c, n)' /\ (Somewhere(c, n) => Somewhere(c, n)')
<1>1. (InHand(c, n)' <=> InHand(c, n)) /\ (Back(c, n)' <=> Back(c, n))
    BY DEF InHand, Back, Unmoved
<1>2. OnePlace(c, n) => OnePlace(c, n)'
    BY <1>1 DEF OnePlace, Unmoved
<1>3. QED
    BY <1>1, <1>2 DEF InPlace, Somewhere, Unmoved

(* Every message is where it was, or was moved and is somewhere.           *)
LEMMA MovedInPlace ==
    ASSUME Scattered, sent' = sent,
           \A c \in Channels, n \in 1 .. sent :
              Unmoved(c, n) \/ (InPlace(c, n)' /\ Somewhere(c, n)')
    PROVE  Scattered'
<1>1. ASSUME NEW c \in Channels, NEW n \in 1 .. sent
      PROVE  InPlace(c, n)' /\ (Somewhere(c, n) => Somewhere(c, n)')
    BY <1>1, UnmovedInPlace DEF Scattered
<1>2. ASSUME NEW n \in 1 .. sent PROVE \E c \in Channels : Somewhere(c, n)'
    BY <1>1 DEF Scattered
<1>3. QED
    BY <1>1, <1>2 DEF Scattered

LEMMA Least ==
    ASSUME NEW S \in SUBSET Nat, S # {}
    PROVE  \E i \in S : \A j \in S : i <= j
<1> DEFINE R == {ss \in Nat \X Nat : ss[1] < ss[2]}
<1>1. IsWellFoundedOn(R, Nat)
    BY NatLessThanWellFounded DEF OpToRel
<1>2. PICK i \in S : \A j \in S : ~(<<j, i>> \in R)
    BY <1>1, WFMin
<1>3. ASSUME NEW j \in S PROVE i <= j
    <2>1. <<j, i>> \in Nat \X Nat /\ <<j, i>>[1] = j /\ <<j, i>>[2] = i
        OBVIOUS
    <2>2. ~(j < i)
        BY <1>2, <2>1
    <2>3. QED
        BY <2>2
<1>4. QED
    BY <1>3

LEMMA FirstInBox ==
    ASSUME MessageTypes, NEW c \in Channels, box[c] # {}
    PROVE  First(c) \in box[c] /\ First(c) \in 1 .. sent
<1>1. box[c] \in SUBSET Nat /\ box[c] \subseteq 1 .. sent
    BY DEF MessageTypes
<1>2. \E i \in box[c] : \A j \in box[c] : i <= j
    BY <1>1, Least
<1>3. First(c) \in box[c]
    BY <1>2 DEF First
<1>4. QED
    BY <1>1, <1>3

(* What a step may do to the messages.                                     *)
NothingMoves == UNCHANGED <<messageVars, got, doubtful, mine>>
Fetches(t) ==
    /\ at[t] = "fetch" /\ at'[t] = "ack" /\ box[chan[t]] # {}
    /\ box' = Taken(t) /\ mine' = [mine EXCEPT ![t] = First(chan[t])]
    /\ UNCHANGED <<limbo, done, sent, got, doubtful, chan>>
FetchesInVain(t) ==
    /\ at[t] = "fetch" /\ box[chan[t]] # {} /\ at'[t] \in {"fetch", "idle"}
    /\ box' = Taken(t) /\ Strands(t, First(chan[t]))
    /\ UNCHANGED <<done, sent, got, doubtful, mine>>
Acknowledges(t) ==
    /\ done' = [done EXCEPT ![chan[t]] = @ \cup {mine[t]}]
    /\ box' = [box EXCEPT ![chan[t]] = @ \ {mine[t]}]
    /\ limbo' = [limbo EXCEPT ![chan[t]] = @ \ {mine[t]}]
    /\ sent' = sent
GivesBack(t) == got' = [got EXCEPT ![t] = @ \cup {<<chan[t], mine[t]>>}]
Doubts(t) == doubtful' = doubtful \cup {mine[t]}
Finishes(t) == at[t] = "ack" /\ at'[t] = "idle" /\ mine' = LetGo(t)
Acked(t) == Finishes(t) /\ Acknowledges(t) /\ GivesBack(t) /\ doubtful' = doubtful
AckedInVain(t) == Finishes(t) /\ Acknowledges(t) /\ Doubts(t) /\ got' = got
NotAcked(t) ==
    Finishes(t) /\ GivesBack(t) /\ Doubts(t) /\ Strands(t, mine[t]) /\ UNCHANGED <<box, done, sent>>
Stranded(t) ==
    Finishes(t) /\ Strands(t, mine[t]) /\ UNCHANGED <<box, done, sent, got, doubtful>>
Late(t) ==
    /\ at[t] = "ack" /\ Doubts(t) /\ box' = [box EXCEPT ![chan[t]] = @ \cup {mine[t]}]
    /\ UNCHANGED <<limbo, done, sent, got, mine, at, chan>>
Puts(c) == Arrives(c) /\ UNCHANGED <<limbo, done, got, doubtful, mine>>

LEMMA StepMessages ==
    ASSUME PlaceTypes, MessageTypes, NEW t \in Tasks, TaskStep(t)
    PROVE  \/ /\ at[t] # "ack" /\ at'[t] # "ack"
              /\ NothingMoves \/ (\E c \in Channels : Puts(c)) \/ FetchesInVain(t)
           \/ Fetches(t) \/ Acked(t) \/ AckedInVain(t) \/ NotAcked(t) \/ Stranded(t) \/ Late(t)
<1>0. /\ \A place : Moves(t, place) => at'[t] = place
      /\ at[t] # "ack" => LetGo(t) = mine
      /\ Leaves(t) => at'[t] = "idle" /\ mine' = LetGo(t)
      /\ at[t] # "idle" => chan[t] \in Channels /\ Last(op[t]) \in {"publish", "subscribe"}
    <2>1. PlaceOf(t) /\ op[t] \in {"none", "send", "receive"} /\ chan[t] \in Channels \cup {NoChannel}
        BY DEF PlaceTypes
    <2>2. at[t] # "idle" => op[t] \in Calling /\ chan[t] \in Channels
        BY <2>1 DEF PlaceOf, Calling
    <2>3. at[t] # "ack" => LetGo(t) = mine
        BY DEF LetGo, MessageTypes
    <2>4. \A place : Moves(t, place) => at'[t] = place
        BY DEF PlaceTypes, Moves
    <2>5. Leaves(t) => at'[t] = "idle" /\ mine' = LetGo(t)
        BY <2>4 DEF Leaves
    <2>6. at[t] # "idle" => Last(op[t]) \in {"publish", "subscribe"}
        BY <2>2, LastSuits
    <2>7. QED
        BY <2>2, <2>3, <2>4, <2>5, <2>6
<1>1. CASE \E o \in {"send", "receive"}, c \in Channels : Begin(t, o, c)
    <2>1. PICK o \in Calling, c \in Channels : Begin(t, o, c)
        BY <1>1 DEF Calling
    <2>2. at[t] = "idle" /\ at'[t] = (IF Known(o, c) THEN "fetch" ELSE FirstPlace(o)) /\ NothingMoves
        BY <1>0, <2>1 DEF Begin, NothingMoves
    <2>3. FirstPlace(o) # "ack"
        BY FirstPlaces, LastSuits
    <2>4. QED
        BY <2>2, <2>3
<1>2. CASE Connect(t)
    <2>1. at[t] = "connect" /\ Moves(t, IF ready THEN Last(op[t]) ELSE "stream") /\ NothingMoves
        BY <1>2 DEF Connect, NothingMoves
    <2>2. at'[t] # "ack"
        BY <1>0, <2>1
    <2>3. QED
        BY <2>1, <2>2
<1>3. CASE AddStream(t) \/ Subscribe(t)
    BY <1>0, <1>3 DEF AddStream, Subscribe, NothingMoves
<1>4. CASE TimesOut(t) \/ Refused(t)
    BY <1>0, <1>4 DEF TimesOut, Refused, NothingMoves
<1>5. CASE Publishes(t) \/ PublishUnanswered(t)
    <2>1. /\ at[t] = "publish" /\ Leaves(t) /\ Arrives(chan[t])
          /\ UNCHANGED <<limbo, done, got, doubtful>>
        BY <1>5 DEF Publishes, PublishUnanswered
    <2>2. Puts(chan[t])
        BY <1>0, <2>1 DEF Puts
    <2>3. QED
        BY <1>0, <2>1, <2>2
<1>6. CASE Fetch(t)
    BY <1>0, <1>6 DEF Fetch, Fetches
<1>7. CASE Ack(t)
    BY <1>0, <1>7 DEF Ack, Acked, Finishes, Acknowledges, GivesBack
<1>8. CASE AckInVain(t)
    BY <1>0, <1>8 DEF AckInVain, AckedInVain, Finishes, Acknowledges, Doubts
<1>9. CASE AckLost(t)
    BY <1>0, <1>9 DEF AckLost, NotAcked, Finishes, GivesBack, Doubts
<1>10. CASE TaskFails(t)
    <2>1. /\ Strands(t, mine[t]) /\ Leaves(t) /\ UNCHANGED <<box, done, sent, got, doubtful>>
          /\ at[t] # "idle"
        BY <1>10 DEF TaskFails
    <2>2. CASE at[t] = "ack"
        BY <1>0, <2>1, <2>2 DEF Stranded, Finishes
    <2>3. CASE at[t] # "ack"
        <3>1. mine[t] = 0
            BY <2>3 DEF MessageTypes
        <3>2. limbo' = limbo
            BY <2>1, <3>1 DEF Strands, MessageTypes
        <3>3. QED
            BY <1>0, <2>1, <2>3, <3>2 DEF NothingMoves
    <2>4. QED
        BY <2>2, <2>3
<1>11. CASE FetchUnanswered(t)
    <2>1. /\ at[t] = "fetch" /\ box[chan[t]] # {} /\ box' = Taken(t) /\ Strands(t, First(chan[t]))
          /\ UNCHANGED <<done, sent, got, doubtful>> /\ (Leaves(t) \/ Remains)
        BY <1>11 DEF FetchUnanswered, Remains
    <2>2. at'[t] \in {"fetch", "idle"} /\ mine' = mine
        BY <1>0, <2>1 DEF Remains
    <2>3. QED
        BY <2>1, <2>2 DEF FetchesInVain
<1>12. CASE AckLate(t)
    BY <1>12 DEF AckLate, Late, Doubts
<1>13. QED
    BY <1>1, <1>2, <1>3, <1>4, <1>5, <1>6, <1>7, <1>8, <1>9, <1>10, <1>11, <1>12 DEF TaskStep

(* A new message is in the box of the channel it was published to alone.   *)
LEMMA PutsKept ==
    ASSUME MessageTypes, Scattered, NEW c0 \in Channels, Puts(c0),
           \A t \in Tasks : mine[t] # 0 => chan'[t] = chan[t],
           \A t \in Tasks : at'[t] = "ack" <=> at[t] = "ack"
    PROVE  MessageTypes' /\ Scattered'
<1>1. /\ UNCHANGED <<limbo, done, got, doubtful, mine>> /\ sent \in Nat
      /\ box \in [Channels -> SUBSET (1 .. sent)]
    BY DEF Puts, MessageTypes
<1>2. ASSUME NEW c \in Channels, NEW n \in 1 .. sent, (n \in box[c])' <=> n \in box[c]
      PROVE  Unmoved(c, n)
    BY <1>1, <1>2 DEF Unmoved, Holds
<1>3. CASE sent' = sent /\ box' = box
    <2>1. Scattered'
        BY <1>2, <1>3, MovedInPlace
    <2>2. QED
        BY <1>1, <1>3, <2>1 DEF MessageTypes
<1>4. CASE sent' = sent + 1 /\ box' = [box EXCEPT ![c0] = @ \cup {sent + 1}]
    <2>1. /\ \A c \in Channels : \A n \in 1 .. sent : n \in box'[c] <=> n \in box[c]
          /\ sent + 1 \in box'[c0] /\ \A c \in Channels : c # c0 => box'[c] = box[c]
        BY <1>1, <1>4
    <2>2. 1 .. sent \subseteq 1 .. sent + 1 /\ sent + 1 \in Nat /\ 0 .. sent \subseteq 0 .. sent + 1
        BY <1>1
    <2>3. MessageTypes'
        <3>1. box' \in [Channels -> SUBSET (1 .. sent + 1)]
            BY <1>1, <1>4, <2>2
        <3>2. got' \in [Tasks -> SUBSET (Channels \X (1 .. sent + 1))]
            BY <1>1, <2>2 DEF MessageTypes
        <3>3. QED
            BY <1>1, <1>4, <2>2, <3>1, <3>2 DEF MessageTypes
    <2>4. ASSUME NEW c \in Channels, NEW n \in 1 .. sent
          PROVE  InPlace(c, n)' /\ (Somewhere(c, n) => Somewhere(c, n)')
        BY <1>2, <2>1, UnmovedInPlace DEF Scattered
    <2>5. ASSUME NEW c \in Channels, NEW n, n = sent + 1
          PROVE  InPlace(c, n)'
        <3>1. n \notin limbo[c] /\ n \notin done[c]
            BY <1>1, <2>5 DEF MessageTypes
        <3>2. \A t \in Tasks : mine[t] # n /\ <<c, n>> \notin got[t]
            BY <1>1, <2>5 DEF MessageTypes
        <3>3. (n \in done[c])' <=> FALSE
            BY <1>1, <3>1
        <3>4. OnePlace(c, n)'
            BY <1>1, <3>1, <3>2 DEF OnePlace, InHand, Holds, Back
        <3>5. QED
            BY <3>3, <3>4 DEF InPlace
    <2>6. ASSUME NEW n \in 1 .. sent + 1 PROVE \E c \in Channels : Somewhere(c, n)'
        <3>1. CASE n \in 1 .. sent
            BY <2>4, <3>1 DEF Scattered
        <3>2. CASE n = sent + 1
            <4>1. (n \in box[c0])'
                BY <2>1, <3>2
            <4>2. Somewhere(c0, n)'
                BY <4>1 DEF Somewhere
            <4>3. QED
                BY <4>2
        <3>3. QED
            BY <1>1, <3>1, <3>2
    <2>7. ASSUME NEW n \in 1 .. sent + 1 PROVE n \in 1 .. sent \/ n = sent + 1
        BY <1>1
    <2>8. QED
        BY <1>4, <2>3, <2>4, <2>5, <2>6, <2>7 DEF Scattered
<1>5. QED
    BY <1>3, <1>4 DEF Puts, Arrives

(* What a step that moves a task's message finds.                          *)
Alone(t) == \A u \in Tasks \ {t} : at'[u] = at[u] /\ chan'[u] = chan[u]

LEMMA Handed ==
    ASSUME PlaceTypes, MessageTypes, NEW t \in Tasks, at[t] \in {"fetch", "ack"}
    PROVE  /\ chan[t] \in Channels
           /\ at[t] = "ack" => mine[t] \in 1 .. sent
           /\ at[t] = "fetch" => mine[t] = 0
<1>1. PlaceOf(t) /\ chan[t] \in Channels \cup {NoChannel}
    BY DEF PlaceTypes
<1>2. (mine[t] # 0 <=> at[t] = "ack") /\ mine[t] \in 0 .. sent /\ sent \in Nat
    BY DEF MessageTypes
<1>3. chan[t] \in Channels
    BY <1>1 DEF PlaceOf
<1>4. QED
    BY <1>2, <1>3

LEMMA Stranding ==
    ASSUME MessageTypes, NEW t \in Tasks, NEW i \in 1 .. sent, Strands(t, i)
    PROVE  /\ limbo' \in [Channels -> SUBSET (1 .. sent)]
           /\ \A c \in Channels, n \in 1 .. sent :
                 n \in limbo'[c] <=> n \in limbo[c] \/ (c = chan[t] /\ n = i /\ n \notin done[c])
<1>1. /\ sent \in Nat /\ limbo \in [Channels -> SUBSET (1 .. sent)]
      /\ limbo' = [c \in Channels |->
                      limbo[c] \cup IF c = chan[t] THEN {i} \ ({0} \cup done[c]) ELSE {}]
    BY DEF MessageTypes, Strands
<1>2. ASSUME NEW c \in Channels
      PROVE  /\ limbo'[c] \subseteq 1 .. sent
             /\ \A n \in 1 .. sent :
                   n \in limbo'[c] <=> n \in limbo[c] \/ (c = chan[t] /\ n = i /\ n \notin done[c])
    <2>1. CASE c = chan[t]
        <3>1. limbo'[c] = limbo[c] \cup ({i} \ ({0} \cup done[c]))
            BY <1>1, <2>1
        <3>2. QED
            BY <1>1, <2>1, <3>1
    <2>2. CASE c # chan[t]
        <3>1. limbo'[c] = limbo[c]
            BY <1>1, <2>2
        <3>2. QED
            BY <1>1, <2>2, <3>1
    <2>3. QED
        BY <2>1, <2>2
<1>3. limbo' \in [Channels -> SUBSET (1 .. sent)]
    BY <1>1, <1>2
<1>4. QED
    BY <1>2, <1>3

LEMMA FetchesKept ==
    ASSUME PlaceTypes, MessageTypes, Scattered, NEW t \in Tasks, Alone(t), Fetches(t)
    PROVE  MessageTypes' /\ Scattered'
<1> DEFINE c0 == chan[t]
           n0 == First(c0)
<1>1. /\ c0 \in Channels /\ mine[t] = 0 /\ box[c0] # {} /\ at'[t] = "ack"
      /\ UNCHANGED <<limbo, done, sent, got, doubtful, chan>>
    BY Handed DEF Fetches
<1>2. n0 \in box[c0] /\ n0 \in 1 .. sent
    BY <1>1, FirstInBox
<1>3. box' = [box EXCEPT ![c0] = @ \ {n0}] /\ mine' = [mine EXCEPT ![t] = n0]
    BY DEF Fetches, Taken
<1> HIDE DEF c0, n0
<1>4. /\ sent \in Nat /\ box \in [Channels -> SUBSET (1 .. sent)] /\ mine \in [Tasks -> 0 .. sent]
      /\ c0 = chan[t]
    BY DEF MessageTypes, c0
<1>5. MessageTypes'
    BY <1>1, <1>2, <1>3, <1>4 DEF MessageTypes, Alone
<1>6. ASSUME NEW c \in Channels, NEW n \in 1 .. sent, c # c0 \/ n # n0
      PROVE  Unmoved(c, n)
    <2>1. (n \in box[c])' <=> n \in box[c]
        BY <1>1, <1>3, <1>4, <1>6
    <2>2. ASSUME NEW u \in Tasks PROVE Holds(u, c, n)' <=> Holds(u, c, n)
        BY <1>1, <1>3, <1>4, <1>6 DEF Holds
    <2>3. QED
        BY <1>1, <2>1, <2>2 DEF Unmoved
<1>7. ASSUME NEW c, NEW n, c = c0 /\ n = n0
      PROVE  InPlace(c, n)' /\ Somewhere(c, n)'
    <2>1. InPlace(c, n) /\ n \in box[c]
        BY <1>1, <1>2, <1>7 DEF Scattered
    <2>2. (n \notin box[c])' /\ Holds(t, c, n)'
        BY <1>1, <1>2, <1>3, <1>4, <1>7 DEF Holds
    <2>3. ASSUME NEW u \in Tasks, u # t PROVE Holds(u, c, n)' <=> Holds(u, c, n)
        BY <1>1, <1>3, <1>4, <2>3 DEF Holds
    <2>4. (Back(c, n)' <=> Back(c, n)) /\ InHand(c, n)'
        BY <1>1, <2>2 DEF Back, InHand
    <2>5. OnePlace(c, n) => OnePlace(c, n)'
        BY <1>1, <2>1, <2>2, <2>3, <2>4 DEF OnePlace, InHand
    <2>6. QED
        BY <1>1, <2>1, <2>4, <2>5 DEF InPlace, Somewhere
<1>8. QED
    BY <1>1, <1>5, <1>6, <1>7, MovedInPlace

LEMMA FetchesInVainKept ==
    ASSUME PlaceTypes, MessageTypes, Scattered, NEW t \in Tasks, Alone(t), FetchesInVain(t)
    PROVE  MessageTypes' /\ Scattered'
<1> DEFINE c0 == chan[t]
           n0 == First(c0)
<1>1. /\ c0 \in Channels /\ mine[t] = 0 /\ box[c0] # {} /\ at'[t] # "ack" /\ at[t] # "ack"
      /\ UNCHANGED <<done, sent, got, doubtful, mine>>
    BY Handed DEF FetchesInVain
<1>2. n0 \in box[c0] /\ n0 \in 1 .. sent
    BY <1>1, FirstInBox
<1>3. box' = [box EXCEPT ![c0] = @ \ {n0}]
    BY DEF FetchesInVain, Taken
<1>4. /\ limbo' \in [Channels -> SUBSET (1 .. sent)]
      /\ \A c \in Channels, n \in 1 .. sent :
            n \in limbo'[c] <=> n \in limbo[c] \/ (c = c0 /\ n = n0 /\ n \notin done[c])
    BY <1>2, Stranding DEF FetchesInVain
<1> HIDE DEF c0, n0
<1>5. sent \in Nat /\ box \in [Channels -> SUBSET (1 .. sent)] /\ mine \in [Tasks -> 0 .. sent]
    BY DEF MessageTypes
<1>6. MessageTypes'
    <2>1. box' \in [Channels -> SUBSET (1 .. sent)]
        BY <1>1, <1>3, <1>5
    <2>2. ASSUME NEW u \in Tasks PROVE mine'[u] # 0 <=> at'[u] = "ack"
        BY <1>1 DEF MessageTypes, Alone
    <2>3. QED
        BY <1>1, <1>4, <2>1, <2>2 DEF MessageTypes
<1>7. ASSUME NEW c, NEW n \in 1 .. sent, NEW u \in Tasks
      PROVE  (Holds(u, c, n)' <=> Holds(u, c, n)) /\ ((<<c, n>> \in got[u])' <=> <<c, n>> \in got[u])
    <2>1. CASE u = t
        BY <1>1, <1>5, <2>1 DEF Holds
    <2>2. CASE u # t
        BY <1>1, <2>2 DEF Holds, Alone
    <2>3. QED
        BY <2>1, <2>2
<1>8. ASSUME NEW c \in Channels, NEW n \in 1 .. sent, c # c0 \/ n # n0
      PROVE  Unmoved(c, n)
    <2>1. (n \in box[c])' <=> n \in box[c]
        BY <1>1, <1>3, <1>5, <1>8
    <2>2. (n \in limbo[c])' <=> n \in limbo[c]
        BY <1>4, <1>8
    <2>3. QED
        BY <1>1, <1>7, <2>1, <2>2 DEF Unmoved
<1>9. ASSUME NEW c, NEW n, c = c0 /\ n = n0
      PROVE  InPlace(c, n)' /\ Somewhere(c, n)'
    <2>1. InPlace(c, n) /\ n \in box[c] /\ c \in Channels /\ n \in 1 .. sent
        BY <1>1, <1>2, <1>9 DEF Scattered
    <2>2. (n \notin box[c])' /\ ((n \in limbo[c])' <=> n \in limbo[c] \/ n \notin done[c])
        BY <1>3, <1>4, <1>5, <1>9, <2>1
    <2>3. (InHand(c, n)' <=> InHand(c, n)) /\ (Back(c, n)' <=> Back(c, n))
        BY <1>7, <2>1 DEF InHand, Back
    <2>4. OnePlace(c, n) => OnePlace(c, n)'
        <3>1. SUFFICES ASSUME OnePlace(c, n) PROVE OnePlace(c, n)'
            OBVIOUS
        <3>2. ~InHand(c, n)' /\ ~Back(c, n)'
            BY <2>1, <2>3, <3>1 DEF OnePlace
        <3>3. QED
            BY <1>7, <2>1, <2>2, <3>1, <3>2 DEF OnePlace
    <2>5. QED
        BY <1>1, <2>1, <2>2, <2>3, <2>4 DEF InPlace, Somewhere
<1>10. QED
    BY <1>1, <1>6, <1>8, <1>9, MovedInPlace

(* What a task's step finds and leaves when it is done with its message.   *)
LEMMA Finishing ==
    ASSUME PlaceTypes, MessageTypes, NEW t \in Tasks, Alone(t), Finishes(t)
    PROVE  /\ chan[t] \in Channels /\ mine[t] \in 1 .. sent
           /\ sent' = sent => mine' \in [Tasks -> 0 .. sent]'
           /\ \A u \in Tasks : mine'[u] # 0 <=> at'[u] = "ack"
           /\ \A c \in Channels : \A n \in 1 .. sent :
                 /\ ~Holds(t, c, n)'
                 /\ Holds(t, c, n) <=> c = chan[t] /\ n = mine[t]
                 /\ \A u \in Tasks \ {t} : Holds(u, c, n)' <=> Holds(u, c, n)
<1>1. /\ chan[t] \in Channels /\ mine[t] \in 1 .. sent /\ at'[t] = "idle"
      /\ mine' = [mine EXCEPT ![t] = 0]
    BY Handed DEF Finishes, LetGo
<1>2. sent \in Nat /\ mine \in [Tasks -> 0 .. sent] /\ \A u \in Tasks : mine[u] # 0 <=> at[u] = "ack"
    BY DEF MessageTypes
<1>3. mine'[t] = 0 /\ \A u \in Tasks \ {t} : mine'[u] = mine[u]
    BY <1>1, <1>2
<1>4. \A u \in Tasks : mine'[u] # 0 <=> at'[u] = "ack"
    BY <1>1, <1>2, <1>3 DEF Alone
<1>5. ASSUME NEW c \in Channels, NEW n \in 1 .. sent
      PROVE  /\ ~Holds(t, c, n)'
             /\ Holds(t, c, n) <=> c = chan[t] /\ n = mine[t]
             /\ \A u \in Tasks \ {t} : Holds(u, c, n)' <=> Holds(u, c, n)
    BY <1>1, <1>3 DEF Holds, Alone
<1>6. sent' = sent => mine' \in [Tasks -> 0 .. sent]'
    BY <1>1, <1>2
<1>7. QED
    BY <1>1, <1>4, <1>5, <1>6

LEMMA Acknowledging ==
    ASSUME MessageTypes, NEW t \in Tasks, chan[t] \in Channels, mine[t] \in 1 .. sent, Acknowledges(t)
    PROVE  /\ sent' = sent
           /\ (box \in [Channels -> SUBSET (1 .. sent)])'
           /\ (limbo \in [Channels -> SUBSET (1 .. sent)])'
           /\ (done \in [Channels -> SUBSET (1 .. sent)])'
           /\ \A c \in Channels : \A n \in 1 .. sent :
                 /\ n \in box'[c] <=> n \in box[c] /\ ~(c = chan[t] /\ n = mine[t])
                 /\ n \in limbo'[c] <=> n \in limbo[c] /\ ~(c = chan[t] /\ n = mine[t])
                 /\ n \in done'[c] <=> n \in done[c] \/ (c = chan[t] /\ n = mine[t])
<1> DEFINE c0 == chan[t]
           n0 == mine[t]
<1>1. /\ sent' = sent /\ c0 \in Channels /\ n0 \in 1 .. sent
      /\ done' = [done EXCEPT ![c0] = @ \cup {n0}] /\ box' = [box EXCEPT ![c0] = @ \ {n0}]
      /\ limbo' = [limbo EXCEPT ![c0] = @ \ {n0}]
    BY DEF Acknowledges
<1> HIDE DEF c0, n0
<1>2. /\ box \in [Channels -> SUBSET (1 .. sent)] /\ limbo \in [Channels -> SUBSET (1 .. sent)]
      /\ done \in [Channels -> SUBSET (1 .. sent)]
    BY DEF MessageTypes
<1>3. /\ (box \in [Channels -> SUBSET (1 .. sent)])'
      /\ (limbo \in [Channels -> SUBSET (1 .. sent)])'
      /\ (done \in [Channels -> SUBSET (1 .. sent)])'
    BY <1>1, <1>2
<1>4. ASSUME NEW c \in Channels, NEW n \in 1 .. sent
      PROVE  /\ n \in box'[c] <=> n \in box[c] /\ ~(c = c0 /\ n = n0)
             /\ n \in limbo'[c] <=> n \in limbo[c] /\ ~(c = c0 /\ n = n0)
             /\ n \in done'[c] <=> n \in done[c] \/ (c = c0 /\ n = n0)
    BY <1>1, <1>2
<1>5. QED
    BY <1>1, <1>3, <1>4 DEF c0, n0

LEMMA Giving ==
    ASSUME MessageTypes, NEW t \in Tasks, chan[t] \in Channels, mine[t] \in 1 .. sent, GivesBack(t)
    PROVE  /\ got' \in [Tasks -> SUBSET (Channels \X (1 .. sent))]
           /\ \A u \in Tasks : \A c \in Channels : \A n \in 1 .. sent :
                 <<c, n>> \in got'[u] <=> <<c, n>> \in got[u] \/ (u = t /\ c = chan[t] /\ n = mine[t])
<1>1. got \in [Tasks -> SUBSET (Channels \X (1 .. sent))]
    BY DEF MessageTypes
<1>2. got' = [got EXCEPT ![t] = @ \cup {<<chan[t], mine[t]>>}]
    BY DEF GivesBack
<1>3. QED
    BY <1>1, <1>2

LEMMA AckedKept ==
    ASSUME PlaceTypes, MessageTypes, Scattered, NEW t \in Tasks, Alone(t), Acked(t)
    PROVE  MessageTypes' /\ Scattered'
<1> DEFINE c0 == chan[t]
           n0 == mine[t]
<1>1. /\ c0 \in Channels /\ n0 \in 1 .. sent /\ sent' = sent /\ doubtful' = doubtful
      /\ \A u \in Tasks : \A c \in Channels : \A n \in 1 .. sent :
            <<c, n>> \in got'[u] <=> <<c, n>> \in got[u] \/ (u = t /\ c = c0 /\ n = n0)
    BY Finishing, Giving DEF Acked, Acknowledges
<1>2. MessageTypes'
    BY Finishing, Acknowledging, Giving DEF Acked, MessageTypes
<1>3. ASSUME NEW c \in Channels, NEW n \in 1 .. sent
      PROVE  /\ n \in box'[c] <=> n \in box[c] /\ ~(c = c0 /\ n = n0)
             /\ n \in limbo'[c] <=> n \in limbo[c] /\ ~(c = c0 /\ n = n0)
             /\ n \in done'[c] <=> n \in done[c] \/ (c = c0 /\ n = n0)
             /\ ~Holds(t, c, n)'
             /\ Holds(t, c, n) <=> c = c0 /\ n = n0
             /\ \A u \in Tasks \ {t} : Holds(u, c, n)' <=> Holds(u, c, n)
    BY Finishing, Acknowledging DEF Acked
<1> HIDE DEF c0, n0
<1>4. ASSUME NEW c \in Channels, NEW n \in 1 .. sent, c # c0 \/ n # n0
      PROVE  Unmoved(c, n)
    BY <1>1, <1>3, <1>4 DEF Unmoved
<1>5. ASSUME NEW c, NEW n, c = c0 /\ n = n0
      PROVE  InPlace(c, n)' /\ Somewhere(c, n)'
    <2>1. InPlace(c, n) /\ c \in Channels /\ n \in 1 .. sent
        BY <1>1, <1>5 DEF Scattered
    <2>2. /\ n \notin box'[c] /\ n \notin limbo'[c] /\ n \in done'[c] /\ ~Holds(t, c, n)'
          /\ Holds(t, c, n) /\ <<c, n>> \in got'[t]
          /\ \A u \in Tasks \ {t} : Holds(u, c, n)' <=> Holds(u, c, n)
          /\ \A u \in Tasks \ {t} : <<c, n>> \in got'[u] <=> <<c, n>> \in got[u]
        BY <1>1, <1>3, <1>5, <2>1
    <2>3. Back(c, n)'
        BY <2>2 DEF Back
    <2>4. OnePlace(c, n) => OnePlace(c, n)'
        <3>1. SUFFICES ASSUME OnePlace(c, n) PROVE OnePlace(c, n)'
            OBVIOUS
        <3>2. ~Back(c, n) /\ ~InHand(c, n)'
            BY <2>2, <3>1 DEF OnePlace, InHand
        <3>3. QED
            BY <2>2, <3>2 DEF OnePlace, Back, InHand
    <2>5. QED
        BY <1>1, <2>1, <2>2, <2>3, <2>4 DEF InPlace, Somewhere
<1>6. QED
    BY <1>1, <1>2, <1>4, <1>5, MovedInPlace

LEMMA AckedInVainKept ==
    ASSUME PlaceTypes, MessageTypes, Scattered, NEW t \in Tasks, Alone(t), AckedInVain(t)
    PROVE  MessageTypes' /\ Scattered'
<1> DEFINE c0 == chan[t]
           n0 == mine[t]
<1>0. sent \in Nat /\ doubtful \subseteq Nat
    BY DEF MessageTypes
<1>1. /\ c0 \in Channels /\ n0 \in 1 .. sent /\ sent' = sent /\ doubtful' = doubtful \cup {n0}
      /\ got' = got /\ doubtful' \subseteq Nat
    <2>1. chan[t] \in Channels /\ mine[t] \in 1 .. sent
        BY Finishing DEF AckedInVain
    <2>2. sent' = sent /\ doubtful' = doubtful \cup {mine[t]} /\ got' = got
        BY DEF AckedInVain, Acknowledges, Doubts
    <2>3. doubtful' \subseteq Nat
        <3>1. mine[t] \in Nat
            BY <1>0, <2>1
        <3>2. QED
            BY <1>0, <2>2, <3>1
    <2>4. QED
        BY <2>1, <2>2, <2>3
<1>2. MessageTypes'
    <2>1. /\ mine' \in [Tasks -> 0 .. sent]' /\ \A u \in Tasks : mine'[u] # 0 <=> at'[u] = "ack"
          /\ (box \in [Channels -> SUBSET (1 .. sent)])'
          /\ (limbo \in [Channels -> SUBSET (1 .. sent)])'
          /\ (done \in [Channels -> SUBSET (1 .. sent)])'
        BY <1>1, Finishing, Acknowledging DEF AckedInVain
    <2>2. QED
        BY <1>0, <1>1, <2>1 DEF MessageTypes
<1>3. ASSUME NEW c \in Channels, NEW n \in 1 .. sent
      PROVE  /\ n \in box'[c] <=> n \in box[c] /\ ~(c = c0 /\ n = n0)
             /\ n \in limbo'[c] <=> n \in limbo[c] /\ ~(c = c0 /\ n = n0)
             /\ n \in done'[c] <=> n \in done[c] \/ (c = c0 /\ n = n0)
             /\ ~Holds(t, c, n)'
             /\ Holds(t, c, n) <=> c = c0 /\ n = n0
             /\ \A u \in Tasks \ {t} : Holds(u, c, n)' <=> Holds(u, c, n)
    BY Finishing, Acknowledging DEF AckedInVain
<1> HIDE DEF c0, n0
<1>4. ASSUME NEW c \in Channels, NEW n \in 1 .. sent, c # c0 \/ n # n0
      PROVE  Unmoved(c, n)
    BY <1>1, <1>3, <1>4 DEF Unmoved
<1>5. ASSUME NEW c, NEW n, c = c0 /\ n = n0
      PROVE  InPlace(c, n)' /\ Somewhere(c, n)'
    BY <1>1, <1>3, <1>5 DEF InPlace, Somewhere
<1>6. QED
    BY <1>1, <1>2, <1>4, <1>5, MovedInPlace

LEMMA NotAckedKept ==
    ASSUME PlaceTypes, MessageTypes, Scattered, NEW t \in Tasks, Alone(t), NotAcked(t)
    PROVE  MessageTypes' /\ Scattered'
<1> DEFINE c0 == chan[t]
           n0 == mine[t]
<1>0. sent \in Nat /\ doubtful \subseteq Nat
    BY DEF MessageTypes
<1>1. /\ c0 \in Channels /\ n0 \in 1 .. sent /\ doubtful' = doubtful \cup {n0}
      /\ UNCHANGED <<box, done, sent>> /\ doubtful' \subseteq Nat
      /\ \A u \in Tasks : \A c \in Channels : \A n \in 1 .. sent :
            <<c, n>> \in got'[u] <=> <<c, n>> \in got[u] \/ (u = t /\ c = c0 /\ n = n0)
    <2>1. chan[t] \in Channels /\ mine[t] \in 1 .. sent
        BY Finishing DEF NotAcked
    <2>2. \A u \in Tasks : \A c \in Channels : \A n \in 1 .. sent :
            <<c, n>> \in got'[u] <=> <<c, n>> \in got[u] \/ (u = t /\ c = chan[t] /\ n = mine[t])
        BY <2>1, Giving DEF NotAcked
    <2>3. UNCHANGED <<box, done, sent>> /\ doubtful' = doubtful \cup {mine[t]}
        BY DEF NotAcked, Doubts
    <2>4. doubtful' \subseteq Nat
        <3>1. mine[t] \in Nat
            BY <1>0, <2>1
        <3>2. QED
            BY <1>0, <2>3, <3>1
    <2>5. QED
        BY <2>1, <2>2, <2>3, <2>4
<1>2. MessageTypes'
    <2>1. /\ mine' \in [Tasks -> 0 .. sent]' /\ \A u \in Tasks : mine'[u] # 0 <=> at'[u] = "ack"
          /\ limbo' \in [Channels -> SUBSET (1 .. sent)]
          /\ got' \in [Tasks -> SUBSET (Channels \X (1 .. sent))]
        BY <1>1, Finishing, Giving, Stranding DEF NotAcked
    <2>2. QED
        BY <1>0, <1>1, <2>1 DEF MessageTypes
<1>3. ASSUME NEW c \in Channels, NEW n \in 1 .. sent
      PROVE  /\ n \in limbo'[c] <=> n \in limbo[c] \/ (c = c0 /\ n = n0 /\ n \notin done[c])
             /\ ~Holds(t, c, n)'
             /\ Holds(t, c, n) <=> c = c0 /\ n = n0
             /\ \A u \in Tasks \ {t} : Holds(u, c, n)' <=> Holds(u, c, n)
    BY Finishing, Stranding DEF NotAcked
<1> HIDE DEF c0, n0
<1>4. ASSUME NEW c \in Channels, NEW n \in 1 .. sent, c # c0 \/ n # n0
      PROVE  Unmoved(c, n)
    BY <1>1, <1>3, <1>4 DEF Unmoved
<1>5. ASSUME NEW c, NEW n, c = c0 /\ n = n0
      PROVE  InPlace(c, n)' /\ Somewhere(c, n)'
    BY <1>1, <1>3, <1>5 DEF InPlace, Somewhere
<1>6. QED
    BY <1>1, <1>2, <1>4, <1>5, MovedInPlace

LEMMA StrandedKept ==
    ASSUME PlaceTypes, MessageTypes, Scattered, NEW t \in Tasks, Alone(t), Stranded(t)
    PROVE  MessageTypes' /\ Scattered'
<1> DEFINE c0 == chan[t]
           n0 == mine[t]
<1>1. c0 \in Channels /\ n0 \in 1 .. sent /\ UNCHANGED <<box, done, sent, got, doubtful>>
    BY Finishing DEF Stranded
<1>2. MessageTypes'
    BY <1>1, Finishing, Stranding DEF Stranded, MessageTypes
<1>3. ASSUME NEW c \in Channels, NEW n \in 1 .. sent
      PROVE  /\ n \in limbo'[c] <=> n \in limbo[c] \/ (c = c0 /\ n = n0 /\ n \notin done[c])
             /\ ~Holds(t, c, n)'
             /\ Holds(t, c, n) <=> c = c0 /\ n = n0
             /\ \A u \in Tasks \ {t} : Holds(u, c, n)' <=> Holds(u, c, n)
    BY Finishing, Stranding DEF Stranded
<1> HIDE DEF c0, n0
<1>4. ASSUME NEW c \in Channels, NEW n \in 1 .. sent, c # c0 \/ n # n0
      PROVE  Unmoved(c, n)
    BY <1>1, <1>3, <1>4 DEF Unmoved
<1>5. ASSUME NEW c, NEW n, c = c0 /\ n = n0
      PROVE  InPlace(c, n)' /\ Somewhere(c, n)'
    <2>1. InPlace(c, n) /\ c \in Channels /\ n \in 1 .. sent
        BY <1>1, <1>5 DEF Scattered
    <2>2. /\ (n \in limbo[c] \/ n \notin done[c]) => n \in limbo'[c]
          /\ n \in limbo'[c] => n \in limbo[c] \/ n \notin done[c]
          /\ ~Holds(t, c, n)' /\ Holds(t, c, n)
          /\ \A u \in Tasks \ {t} : Holds(u, c, n)' <=> Holds(u, c, n)
        BY <1>3, <1>5, <2>1
    <2>3. (Back(c, n)' <=> Back(c, n)) /\ InHand(c, n)
        BY <1>1, <2>2 DEF Back, InHand
    <2>4. OnePlace(c, n) => OnePlace(c, n)'
        <3>1. SUFFICES ASSUME OnePlace(c, n) PROVE OnePlace(c, n)'
            OBVIOUS
        <3>2. ~Back(c, n) /\ ~InHand(c, n)' /\ n \notin box[c]
            BY <2>2, <2>3, <3>1 DEF OnePlace, InHand
        <3>3. QED
            BY <1>1, <2>2, <2>3, <3>1, <3>2 DEF OnePlace
    <2>5. QED
        BY <1>1, <2>1, <2>2, <2>3, <2>4 DEF InPlace, Somewhere
<1>6. QED
    BY <1>1, <1>2, <1>4, <1>5, MovedInPlace

LEMMA LateKept ==
    ASSUME PlaceTypes, MessageTypes, Scattered, NEW t \in Tasks, Late(t)
    PROVE  MessageTypes' /\ Scattered'
<1> DEFINE c0 == chan[t]
           n0 == mine[t]
<1>1. /\ c0 \in Channels /\ n0 \in 1 .. sent /\ doubtful' = doubtful \cup {n0}
      /\ box' = [box EXCEPT ![c0] = @ \cup {n0}]
      /\ UNCHANGED <<limbo, done, sent, got, mine, at, chan>>
    BY Handed DEF Late, Doubts
<1> HIDE DEF c0, n0
<1>2. sent \in Nat /\ box \in [Channels -> SUBSET (1 .. sent)]
    BY DEF MessageTypes
<1>3. MessageTypes'
    BY <1>1, <1>2 DEF MessageTypes
<1>4. ASSUME NEW c \in Channels, NEW n \in 1 .. sent, c # c0 \/ n # n0
      PROVE  Unmoved(c, n)
    BY <1>1, <1>2, <1>4 DEF Unmoved, Holds
<1>5. ASSUME NEW c, NEW n, c = c0 /\ n = n0
      PROVE  InPlace(c, n)' /\ Somewhere(c, n)'
    BY <1>1, <1>2, <1>5 DEF InPlace, Somewhere
<1>6. QED
    BY <1>1, <1>3, <1>4, <1>5, MovedInPlace

(* ack_wait has passed for what was fetched for nobody.                    *)
LEMMA RedeliveredKept ==
    ASSUME MessageTypes, Scattered, NEW c0 \in Channels, Redelivered(c0)
    PROVE  MessageTypes' /\ Scattered'
<1>1. /\ box' = [box EXCEPT ![c0] = @ \cup limbo[c0]] /\ limbo' = [limbo EXCEPT ![c0] = {}]
      /\ UNCHANGED <<done, sent, taskVars, pastVars>>
    BY DEF Redelivered
<1>2. sent \in Nat /\ box \in [Channels -> SUBSET (1 .. sent)] /\ limbo \in [Channels -> SUBSET (1 .. sent)]
    BY DEF MessageTypes
<1>3. MessageTypes'
    BY <1>1, <1>2 DEF MessageTypes
<1>4. ASSUME NEW c \in Channels, NEW n \in 1 .. sent, c # c0 \/ n \notin limbo[c]
      PROVE  Unmoved(c, n)
    BY <1>1, <1>2, <1>4 DEF Unmoved, Holds
<1>5. ASSUME NEW n \in limbo[c0]
      PROVE  InPlace(c0, n)' /\ Somewhere(c0, n)'
    <2>1. InPlace(c0, n)
        BY <1>2 DEF Scattered
    <2>2. (InHand(c0, n)' <=> InHand(c0, n)) /\ (Back(c0, n)' <=> Back(c0, n))
        BY <1>1 DEF InHand, Back, Holds
    <2>3. n \in box'[c0] /\ n \notin limbo'[c0]
        BY <1>1, <1>2
    <2>4. OnePlace(c0, n) => OnePlace(c0, n)'
        BY <1>1, <2>2, <2>3 DEF OnePlace, Holds
    <2>5. QED
        BY <1>1, <2>1, <2>2, <2>3, <2>4 DEF InPlace, Somewhere
<1>6. ASSUME NEW c \in Channels, NEW n \in 1 .. sent, c = c0 /\ n \in limbo[c]
      PROVE  InPlace(c, n)' /\ Somewhere(c, n)'
    BY <1>5, <1>6
<1>7. QED
    BY <1>1, <1>3, <1>4, <1>6, MovedInPlace

LEMMA NothingMovesKept ==
    ASSUME MessageTypes, Scattered, NothingMoves,
           \A t \in Tasks : mine[t] # 0 => chan'[t] = chan[t],
           \A t \in Tasks : at'[t] = "ack" <=> at[t] = "ack"
    PROVE  MessageTypes' /\ Scattered'
<1>1. sent \in Nat /\ UNCHANGED <<box, limbo, done, sent, got, doubtful, mine>>
    BY DEF NothingMoves, MessageTypes
<1>2. MessageTypes'
    BY <1>1 DEF MessageTypes
<1>3. ASSUME NEW c \in Channels, NEW n \in 1 .. sent PROVE Unmoved(c, n)
    BY <1>1 DEF Unmoved, Holds
<1>4. QED
    BY <1>1, <1>2, <1>3, MovedInPlace

LEMMA TaskMessages ==
    ASSUME PlaceTypes, MessageTypes, Scattered, NEW t \in Tasks, TaskStep(t)
    PROVE  MessageTypes' /\ Scattered'
<1>1. Alone(t)
    BY OthersStay DEF Alone
<1>2. CASE at[t] # "ack" /\ at'[t] # "ack"
    <2>1. /\ \A u \in Tasks : mine[u] # 0 => chan'[u] = chan[u]
          /\ \A u \in Tasks : at'[u] = "ack" <=> at[u] = "ack"
        BY <1>1, <1>2 DEF Alone, MessageTypes
    <2>2. CASE NothingMoves
        BY <2>1, <2>2, NothingMovesKept
    <2>3. CASE \E c \in Channels : Puts(c)
        BY <2>1, <2>3, PutsKept
    <2>4. CASE FetchesInVain(t)
        BY <1>1, <2>4, FetchesInVainKept
    <2>5. CASE Fetches(t) \/ Acked(t) \/ AckedInVain(t) \/ NotAcked(t) \/ Stranded(t) \/ Late(t)
        BY <1>2, <2>5 DEF Fetches, Acked, AckedInVain, NotAcked, Stranded, Late, Finishes
    <2>6. QED
        BY <2>2, <2>3, <2>4, <2>5, StepMessages
<1>3. CASE Fetches(t) \/ Acked(t) \/ AckedInVain(t) \/ NotAcked(t) \/ Stranded(t) \/ Late(t)
    BY <1>1, <1>3, FetchesKept, AckedKept, AckedInVainKept, NotAckedKept, StrandedKept, LateKept
<1>4. QED
    BY <1>2, <1>3, StepMessages

LEMMA WorldMessages ==
    ASSUME MessageTypes, Scattered, WorldStep
    PROVE  MessageTypes' /\ Scattered'
<1>1. UNCHANGED <<taskVars, pastVars>>
    BY WorldRests
<1>2. CASE \E w \in Callers, c \in Channels : FanOut(w, c)
    <2>1. PICK w \in Callers, c \in Channels : FanOut(w, c)
        BY <1>2
    <2>2. Puts(c)
        BY <1>1, <2>1 DEF FanOut, Puts
    <2>3. QED
        BY <1>1, <2>2, PutsKept
<1>3. CASE \E c \in Channels : Redelivered(c)
    BY <1>3, RedeliveredKept
<1>4. CASE UNCHANGED messageVars
    <2>1. NothingMoves
        BY <1>1, <1>4 DEF NothingMoves
    <2>2. QED
        BY <1>1, <2>1, NothingMovesKept
<1>5. CASE Stutters \/ (\E w \in Callers : GroupStep(w)) \/ (\E c \in Channels : Unsubscribe(c))
           \/ CloseLayer \/ ClearSubscriptions \/ CloseClient \/ CloseRaises
    BY <1>4, <1>5 DEF Stutters, GroupStep, Unsubscribe, CloseLayer, ClearSubscriptions, CloseClient,
       CloseRaises, layerVars
<1>6. QED
    BY <1>2, <1>3, <1>5 DEF WorldStep

-----------------------------------------------------------------------------
(* The invariant of the composition.                                       *)
LayerInv ==
    RoundsInv /\ ViewInv /\ PlaceTypes /\ MadeTypes /\ CloseInv /\ MessageTypes /\ Scattered

LEMMA LayerInitially == LayerInit => LayerInv
<1> SUFFICES ASSUME LayerInit PROVE LayerInv
    OBVIOUS
<1>1. RoundsInv /\ ViewInv
    <2>1. Init
        BY DEF LayerInit
    <2>2. TypeOK
        BY <2>1 DEF Init, TypeOK, Asks, Places, Results, NoEntry
    <2>3. RoundsInv
        BY <2>1, <2>2 DEF Init, RoundsInv, RoundsOf
    <2>4. QED
        BY <2>1, <2>2, <2>3 DEF Init, ViewInv, SeenOf, StableOf, Returned, NoEntry
<1>2. /\ at = [t \in Tasks |-> "idle"] /\ op = [t \in Tasks |-> "none"]
      /\ chan = [t \in Tasks |-> NoChannel]
      /\ via = [t \in Tasks |-> 0] /\ mine = [t \in Tasks |-> 0]
      /\ got = [t \in Tasks |-> {}] /\ doubtful = {} /\ raced = FALSE /\ sent = 0
      /\ box = [c \in Channels |-> {}] /\ limbo = box /\ done = box
      /\ subs = [c \in Channels |-> 0] /\ subClient = <<>>
      /\ shut = FALSE /\ closer = "open" /\ walked = {} /\ size = 0
      /\ endedClients = {} /\ endedSubs = {} /\ mix \in Mixes
    BY DEF LayerInit
<1>3. PlaceTypes
    BY <1>2 DEF PlaceTypes, PlaceOf, TaskPlaces
<1>4. MessageTypes
    BY <1>2 DEF MessageTypes
<1>5. Scattered
    BY <1>2 DEF Scattered
<1>6. /\ client \in 0 .. clients /\ js \in 0 .. clients /\ clients \in Nat
      /\ owns \in BOOLEAN /\ ready \in BOOLEAN /\ stream \in BOOLEAN
      /\ client # 0 => client = 1 /\ clients = 1
      /\ client = 0 /\ js = 0 => clients = 0
    <2>1. /\ client = IF mix.given = "client" THEN 1 ELSE 0
          /\ js = IF mix.given = "jetstream" THEN 1 ELSE 0
          /\ clients = IF mix.given = "nothing" THEN 0 ELSE 1
        BY DEF LayerInit
    <2>2. mix.given \in {"nothing", "client", "jetstream"}
        BY <1>2
    <2>3. (owns <=> mix.given # "client") /\ (ready <=> mix.given = "jetstream") /\ (stream <=> ready)
        BY DEF LayerInit
    <2>4. owns \in BOOLEAN /\ ready \in BOOLEAN /\ stream \in BOOLEAN
        BY DEF LayerInit
    <2>5. QED
        BY <2>1, <2>2, <2>4
<1>7. subClient \in Seq(1 .. clients) /\ Len(subClient) = 0
    BY <1>2
<1>8. MadeTypes
    BY <1>2, <1>6, <1>7 DEF MadeTypes, ViaOf
<1>9. CloseInv
    <2>1. OneClient
        BY <1>2, <1>6 DEF OneClient
    <2>2. KeptSubs
        <3>1. 1 .. Len(subClient) = {}
            BY <1>7
        <3>2. QED
            BY <1>2, <3>1 DEF KeptSubs
    <2>3. QED
        BY <1>2, <2>1, <2>2 DEF CloseInv
<1>10. QED
    BY <1>1, <1>3, <1>4, <1>5, <1>8, <1>9 DEF LayerInv

LEMMA LayerInductive == LayerInv /\ [LayerNext]_<<vars, layerVars>> => LayerInv'
<1> SUFFICES ASSUME LayerInv, [LayerNext]_<<vars, layerVars>> PROVE LayerInv'
    OBVIOUS
<1>1. RoundsInv' /\ ViewInv' /\ TypeOK
    BY GroupsKept DEF LayerInv, RoundsInv
<1>2. CASE \E t \in Tasks : TaskStep(t)
    <2>1. PICK t \in Tasks : TaskStep(t)
        BY <1>2
    <2>2. PlaceTypes'
        BY <2>1, PlacesKept DEF LayerInv
    <2>3. MadeTypes'
        BY <2>1, MadeKept DEF LayerInv
    <2>4. CloseInv'
        BY <1>1, <2>1, CloseKept DEF LayerInv
    <2>5. MessageTypes' /\ Scattered'
        BY <2>1, TaskMessages DEF LayerInv
    <2>6. QED
        BY <1>1, <2>2, <2>3, <2>4, <2>5 DEF LayerInv
<1>3. CASE WorldStep
    <2>1. PlaceTypes'
        BY <1>3, WorldRests DEF LayerInv, PlaceTypes, PlaceOf
    <2>2. MadeTypes'
        BY <1>3, MadeKeptByWorld DEF LayerInv
    <2>3. CloseInv'
        BY <1>1, <1>3, CloseKeptByWorld DEF LayerInv
    <2>4. MessageTypes' /\ Scattered'
        BY <1>3, WorldMessages DEF LayerInv
    <2>5. QED
        BY <1>1, <2>1, <2>2, <2>3, <2>4 DEF LayerInv
<1>4. QED
    BY <1>2, <1>3, LayerSteps

THEOREM LayerInvariant == LayerSpec => []LayerInv
BY LayerInitially, LayerInductive, PTL DEF LayerSpec

-----------------------------------------------------------------------------
(* Type correctness: a task has a message in hand only while it            *)
(* acknowledges it, and what it asks is asked of a client or subscription  *)
(* that was made.                                                          *)
THEOREM LayerTypeCorrect == LayerSpec => []LayerTypeOK
<1>1. LayerInv => LayerTypeOK
    <2> SUFFICES ASSUME LayerInv PROVE LayerTypeOK
        OBVIOUS
    <2> USE DEF LayerInv
    <2>1. /\ owns \in BOOLEAN /\ clients \in Nat /\ client \in 0 .. clients /\ js \in 0 .. clients
          /\ ready \in BOOLEAN /\ stream \in BOOLEAN
          /\ subs \in [Channels -> 0 .. Len(subClient)] /\ subClient \in Seq(1 .. clients)
          /\ via \in [Tasks -> Nat]
        BY DEF MadeTypes
    <2>2. /\ shut \in BOOLEAN /\ closer \in {"open", "unsubscribe", "drain", "done", "failed"}
          /\ walked \subseteq Channels /\ size \in Nat
          /\ endedClients \subseteq Nat /\ endedSubs \subseteq Nat /\ raced \in BOOLEAN
        BY DEF CloseInv
    <2>3. /\ \A m \in {box, limbo, done} : m \in [Channels -> SUBSET (1 .. sent)]
          /\ mine \in [Tasks -> 0 .. sent] /\ doubtful \subseteq Nat
        BY DEF MessageTypes
    <2>4. got \in [Tasks -> SUBSET (Channels \X Nat)]
        <3>1. sent \in Nat /\ got \in [Tasks -> SUBSET (Channels \X (1 .. sent))]
            BY DEF MessageTypes
        <3>2. Channels \X (1 .. sent) \subseteq Channels \X Nat
            BY <3>1
        <3>3. QED
            BY <3>1, <3>2
    <2>5. /\ op \in [Tasks -> {"none", "send", "receive"}]
          /\ at \in [Tasks -> TaskPlaces] /\ chan \in [Tasks -> Channels \cup {NoChannel}]
        BY DEF PlaceTypes
    <2>6. ASSUME NEW t \in Tasks
          PROVE  /\ (mine[t] # 0) = (at[t] = "ack") /\ (chan[t] = NoChannel) = (at[t] = "idle")
                 /\ (op[t] = "none") = (at[t] = "idle")
                 /\ at[t] = "publish" => op[t] = "send"
                 /\ at[t] \in {"subscribe", "fetch", "ack"} => op[t] = "receive"
                 /\ at[t] \in {"publish", "subscribe"} => via[t] \in 1 .. clients
                 /\ at[t] \in {"fetch", "ack"} => via[t] \in DOMAIN subClient
        <3>1. (mine[t] # 0) = (at[t] = "ack")
            BY DEF MessageTypes
        <3>2. PlaceOf(t)
            BY DEF PlaceTypes
        <3>3. (chan[t] = NoChannel) = (at[t] = "idle")
            BY <3>2 DEF PlaceOf
        <3>4. (op[t] = "none") = (at[t] = "idle")
            BY <3>2 DEF PlaceOf
        <3>5. /\ at[t] = "publish" => op[t] = "send"
              /\ at[t] \in {"subscribe", "fetch", "ack"} => op[t] = "receive"
            BY <3>2 DEF PlaceOf, Suits
        <3>6. ViaOf(t) /\ DOMAIN subClient = 1 .. Len(subClient)
            BY <2>1 DEF MadeTypes
        <3>7. QED
            BY <3>1, <3>3, <3>4, <3>5, <3>6 DEF ViaOf
    <2>7. QED
        BY <2>1, <2>2, <2>3, <2>4, <2>5, <2>6 DEF LayerTypeOK
<1>2. QED
    BY <1>1, LayerInvariant, PTL

(* What AtLeastOnce says of sets, said of a message.                       *)
LEMMA HeldAndReceived ==
    ASSUME MessageTypes, NEW c \in Channels
    PROVE  /\ HeldOf(c) \subseteq 1 .. sent /\ Received(c) \subseteq 1 .. sent
           /\ \A n \in 1 .. sent : n \in HeldOf(c) <=> InHand(c, n)
           /\ \A n \in 1 .. sent : n \in Received(c) <=> Back(c, n)
           /\ \A t \in Tasks : ReturnedTo(t, c) \subseteq 1 .. sent
           /\ \A t \in Tasks : \A n \in 1 .. sent : n \in ReturnedTo(t, c) <=> <<c, n>> \in got[t]
<1>1. /\ sent \in Nat /\ mine \in [Tasks -> 0 .. sent]
      /\ got \in [Tasks -> SUBSET (Channels \X (1 .. sent))]
    BY DEF MessageTypes
<1>2. HeldOf(c) \subseteq 1 .. sent /\ \A n \in 1 .. sent : n \in HeldOf(c) <=> InHand(c, n)
    <2>1. \A n : n \in HeldOf(c) <=> n # 0 /\ \E t \in Tasks : chan[t] = c /\ mine[t] = n
        BY DEF HeldOf
    <2>2. \A t \in Tasks : mine[t] \in 0 .. sent
        BY <1>1
    <2>3. QED
        BY <1>1, <2>1, <2>2 DEF InHand, Holds
<1>3. ASSUME NEW t \in Tasks
      PROVE  /\ ReturnedTo(t, c) \subseteq 1 .. sent
             /\ \A n \in 1 .. sent : n \in ReturnedTo(t, c) <=> <<c, n>> \in got[t]
    <2>1. \A p \in got[t] : p[2] \in 1 .. sent /\ p = <<p[1], p[2]>>
        BY <1>1
    <2>2. QED
        BY <2>1 DEF ReturnedTo
<1>4. Received(c) \subseteq 1 .. sent /\ \A n \in 1 .. sent : n \in Received(c) <=> Back(c, n)
    BY <1>3 DEF Received, Back
<1>5. QED
    BY <1>2, <1>3, <1>4

(* No message is lost, and none is returned twice that was not in doubt,   *)
(* whatever the tasks, the other processes, close() and faults do.         *)
THEOREM AtLeastOnceCorrect == LayerSpec => []AtLeastOnce
<1>1. LayerInv => AtLeastOnce
    <2> SUFFICES ASSUME LayerInv PROVE AtLeastOnce
        OBVIOUS
    <2>1. /\ MessageTypes /\ Scattered /\ sent \in Nat
          /\ box \in [Channels -> SUBSET (1 .. sent)] /\ limbo \in [Channels -> SUBSET (1 .. sent)]
          /\ done \in [Channels -> SUBSET (1 .. sent)]
        BY DEF LayerInv, MessageTypes
    <2> DEFINE All(c) == box[c] \cup limbo[c] \cup done[c] \cup HeldOf(c)
    <2>2. ASSUME NEW c \in Channels
          PROVE  All(c) \subseteq 1 .. sent /\ \A n \in 1 .. sent : n \in All(c) <=> Somewhere(c, n)
        BY <2>1, HeldAndReceived DEF Somewhere
    <2>3. 1 .. sent = UNION {All(c) : c \in Channels}
        <3> HIDE DEF All
        <3>1. \A n \in 1 .. sent : \E c \in Channels : n \in All(c)
            BY <2>1, <2>2 DEF Scattered
        <3>2. QED
            BY <2>2, <3>1
    <2>4. ASSUME NEW c \in Channels
          PROVE  /\ done[c] \subseteq Received(c) \cup doubtful
                 /\ (box[c] \cup limbo[c] \cup HeldOf(c)) \cap Received(c) \subseteq doubtful
                 /\ \A t, u \in Tasks : t # u => ReturnedTo(t, c) \cap ReturnedTo(u, c) \subseteq doubtful
        <3>1. \A n \in 1 .. sent : InPlace(c, n)
            BY <2>1 DEF Scattered
        <3>2. /\ HeldOf(c) \subseteq 1 .. sent /\ Received(c) \subseteq 1 .. sent
              /\ \A n \in 1 .. sent : n \in HeldOf(c) <=> InHand(c, n)
              /\ \A n \in 1 .. sent : n \in Received(c) <=> Back(c, n)
            BY <2>1, HeldAndReceived
        <3>3. done[c] \subseteq Received(c) \cup doubtful
            BY <2>1, <3>1, <3>2 DEF InPlace
        <3>4. ASSUME NEW n \in box[c] \cup limbo[c] \cup HeldOf(c), n \in Received(c)
              PROVE  n \in doubtful
            <4>1. n \in 1 .. sent /\ Back(c, n) /\ (n \in box[c] \/ n \in limbo[c] \/ InHand(c, n))
                BY <2>1, <3>2, <3>4
            <4>2. QED
                BY <3>1, <4>1 DEF InPlace, OnePlace
        <3>5. ASSUME NEW t \in Tasks, NEW u \in Tasks, t # u,
                     NEW n \in ReturnedTo(t, c), n \in ReturnedTo(u, c)
              PROVE  n \in doubtful
            <4>1. n \in 1 .. sent /\ <<c, n>> \in got[t] /\ <<c, n>> \in got[u]
                BY <2>1, <3>5, HeldAndReceived
            <4>2. QED
                BY <3>1, <3>5, <4>1 DEF InPlace, OnePlace
        <3>6. QED
            BY <3>3, <3>4, <3>5
    <2>5. QED
        BY <2>3, <2>4 DEF AtLeastOnce
<1>2. QED
    BY <1>1, LayerInvariant, PTL

(* close() leaves nothing of the layer's behind, but for what two tasks    *)
(* made at once or one made while it ran.                                  *)
THEOREM LayerLeavesNothingCorrect == LayerSpec => []LayerLeavesNothing
<1>1. LayerInv => LayerLeavesNothing
    <2> SUFFICES ASSUME LayerInv, ~raced
                 PROVE  /\ closer = "done" => \A n \in DOMAIN subClient : ~Alive(n)
                        /\ closer = "done" /\ owns /\ client # 0 => 1 .. clients \subseteq endedClients
                        /\ closer = "failed" => faults > 0
        BY DEF LayerLeavesNothing
    <2>1. OneClient /\ KeptSubs
        BY DEF LayerInv, CloseInv
    <2>2. DOMAIN subClient = 1 .. Len(subClient)
        <3>1. subClient \in Seq(1 .. clients)
            BY DEF LayerInv, MadeTypes
        <3>2. QED
            BY <3>1
    <2>3. closer = "done" => \A n \in DOMAIN subClient : ~Alive(n)
        BY <2>1, <2>2 DEF KeptSubs, Alive
    <2>4. closer = "done" /\ owns /\ client # 0 => 1 .. clients \subseteq endedClients
        BY <2>1 DEF OneClient
    <2>5. QED
        BY <2>1, <2>3, <2>4 DEF KeptSubs
<1>2. QED
    BY <1>1, LayerInvariant, PTL

(* Composed with a layer whose tasks share their bounds and their faults,  *)
(* the groups keep what was proved of them alone.                          *)
THEOREM LayerGroupsCorrect ==
    LayerSpec => [](RoundsAccountedFor /\ StableMembersReached /\ DiscardsIfRead)
<1>1. LayerInv => RoundsAccountedFor /\ StableMembersReached /\ DiscardsIfRead
    BY DEF LayerInv, RoundsInv, RoundsOf, RoundsAccountedFor, ViewInv, StableOf, StableMembersReached,
       DiscardsIfRead
<1>2. QED
    BY <1>1, LayerInvariant, PTL

THEOREM LayerImplementsContract == LayerSpec => ImplementsContract
<1>1. LayerInit => Group!Init
    BY DEF LayerInit, Init, Group!Init, Phase, Group!NoCall
<1>2. LayerInv /\ [LayerNext]_<<vars, layerVars>> => [Group!Next]_(Group!vars)
    BY GroupsKept DEF LayerInv, ContractStep, Phases, Group!vars
<1>3. QED
    BY <1>1, <1>2, LayerInvariant, PTL DEF LayerSpec, ImplementsContract, Group!Spec
=============================================================================
