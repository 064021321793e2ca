--------------------------- MODULE Postgres_proof ---------------------------
(***************************************************************************)
(* Proofs about the PostgreSQL layer, for any number of tasks, channels,   *)
(* calls and failures, any pool size and any rows left by others.          *)
(***************************************************************************)
EXTENDS Postgres, FiniteSetTheorems, SequenceTheorems, WellFoundedInduction, TLAPS

USE NoTaskAssumption, ChannelsAssumption, UsesAssumption, BoundsAssumption
USE DEF poolVars, schemaVars, closeVars, pruneVars, callVars, rowVars, memberVars, fanVars,
        heldVars, boundVars

-----------------------------------------------------------------------------
(* Places.  Those of a call are those of its operation, and only the sends *)
(* of a group_send have channels to do.                                    *)
OpPlaces(t) ==
    /\ (op[t] = "none") = (pc[t] = "idle")
    /\ pc[t] \in {"insert", "commit", "notify"} => op[t] \in {"send", "fanout"}
    /\ pc[t] \in {"select", "delete", "listen", "wait"} => op[t] = "receive"
    /\ pc[t] = "join" => op[t] = "add"
    /\ pc[t] = "leave" => op[t] = "discard"
    /\ pc[t] = "members" => op[t] = "fan"
    /\ op[t] # "fanout" => todo[t] = {}

PlaceTypes ==
    /\ pc \in [Tasks -> Places] /\ op \in [Tasks -> Operations]
    /\ chan \in [Tasks -> Channels] /\ timed \subseteq Tasks
    /\ todo \in [Tasks -> SUBSET Channels]
    /\ stable \in [Tasks -> SUBSET Channels] /\ reached \in [Tasks -> SUBSET Channels]
    /\ \A t \in Tasks : OpPlaces(t)

(* Where an operation begins.                                              *)
LEMMA FirstPlaces ==
    ASSUME NEW o \in Operations \ {"none"}
    PROVE  /\ o \in {"send", "fanout"} => First(o) = "insert"
           /\ o = "receive" => First(o) = "select"
           /\ o = "add" => First(o) = "join"
           /\ o = "discard" => First(o) = "leave"
           /\ o = "fan" => First(o) = "members"
<1>1. CASE o \in {"send", "fanout"}
    BY <1>1 DEF First
<1>2. CASE o = "receive"
    BY <1>2 DEF First
<1>3. CASE o = "add"
    BY <1>3 DEF First
<1>4. CASE o = "discard"
    BY <1>4 DEF First
<1>5. CASE o = "fan"
    BY <1>5 DEF First
<1>6. QED
    BY <1>1, <1>2, <1>3, <1>4, <1>5 DEF Operations

(* A place that the operation o of a task may be at.                       *)
Suits(o, place) ==
    /\ place \in Places \ {"idle"}
    /\ place \in {"insert", "commit", "notify"} => o \in {"send", "fanout"}
    /\ place \in {"select", "delete", "listen", "wait"} => o = "receive"
    /\ place = "join" => o = "add"
    /\ place = "leave" => o = "discard"
    /\ place = "members" => o = "fan"

LEMMA BeginningSuits ==
    ASSUME NEW o \in Operations \ {"none"}
    PROVE  /\ Suits(o, First(o)) /\ Suits(o, Pruned(o)) /\ Suits(o, Ready(o)) /\ Suits(o, Pooled(o))
           /\ \A place \in Prologue \cup Pruning \cup {"lock"} : Suits(o, place)
           /\ First(o) # "notify" /\ Pruned(o) # "notify" /\ Ready(o) # "notify"
<1>1. \A place \in Prologue \cup Pruning \cup {"lock"} : Suits(o, place)
    BY DEF Suits, Prologue, Pruning, Places, Body
<1>2. Suits(o, First(o)) /\ First(o) # "notify"
    <2>1. First(o) \in {"insert", "select", "join", "leave", "members"}
        BY FirstPlaces DEF Operations
    <2>2. QED
        BY <2>1, FirstPlaces DEF Suits, Places, Body, Operations
<1>3. Suits(o, Pruned(o)) /\ Pruned(o) # "notify"
    BY <1>1, <1>2 DEF Pruned
<1>4. Suits(o, Ready(o)) /\ Ready(o) # "notify"
    BY <1>1, <1>3 DEF Ready, Prologue
<1>5. QED
    BY <1>1, <1>2, <1>3, <1>4 DEF Pooled, Prologue

(* What a step may do to the places of the tasks.                          *)
Advances(t, place) ==
    /\ Suits(op[t], place) /\ pc[t] # "idle" /\ Goes(t, place)
    /\ UNCHANGED <<op, timed, chan, todo, stable>>
    /\ \/ place # "notify" /\ reached' = reached
       \/ reached' = [reached EXCEPT ![t] = @ \cup {chan[t]}]
Ended(t) ==
    /\ Returns(t) /\ chan' = chan
    /\ stable' \in [Tasks -> SUBSET Channels]
    /\ \A u \in Tasks : stable'[u] \subseteq stable[u]
SendsOn(t) ==
    \E c \in Channels, rest \in SUBSET Channels :
        /\ pc[t] # "idle" /\ Goes(t, Pruned("fanout"))
        /\ op' = [op EXCEPT ![t] = "fanout"]
        /\ chan' = [chan EXCEPT ![t] = c]
        /\ todo' = [todo EXCEPT ![t] = rest]
        /\ UNCHANGED <<timed, stable, reached>>
Begins(t) == \E use \in Uses[t] : Begin(t, use[1], use[2])
NobodyMoves ==
    /\ UNCHANGED <<pc, op, timed, chan, todo, reached>>
    /\ stable' \in [Tasks -> SUBSET Channels]
    /\ \A u \in Tasks : stable'[u] \subseteq stable[u]

LEMMA AdvancesKept ==
    ASSUME PlaceTypes, NEW t \in Tasks, NEW place, Advances(t, place)
    PROVE  PlaceTypes'
<1>1. /\ place \in Places \ {"idle"} /\ pc' = [pc EXCEPT ![t] = place]
      /\ UNCHANGED <<op, timed, chan, todo, stable>>
    BY DEF Advances, Goes, Suits
<1>2. reached' \in [Tasks -> SUBSET Channels]
    BY DEF Advances, PlaceTypes
<1>3. ASSUME NEW u \in Tasks PROVE OpPlaces(u)'
    <2>1. CASE u = t
        BY <1>1, <2>1 DEF PlaceTypes, OpPlaces, Advances, Suits
    <2>2. CASE u # t
        BY <1>1, <2>2 DEF PlaceTypes, OpPlaces
    <2>3. QED
        BY <2>1, <2>2
<1>4. QED
    BY <1>1, <1>2, <1>3 DEF PlaceTypes

LEMMA EndedKept ==
    ASSUME PlaceTypes, NEW t \in Tasks, Ended(t)
    PROVE  PlaceTypes'
<1>1. /\ pc' = [pc EXCEPT ![t] = "idle"] /\ op' = [op EXCEPT ![t] = "none"]
      /\ timed' = timed \ {t} /\ todo' = [todo EXCEPT ![t] = {}]
      /\ reached' = [reached EXCEPT ![t] = {}] /\ chan' = chan
      /\ stable' \in [Tasks -> SUBSET Channels]
    BY DEF Ended, Returns, Goes
<1>2. "idle" \in Places /\ "none" \in Operations
    BY DEF Places, Operations
<1>3. ASSUME NEW u \in Tasks PROVE OpPlaces(u)'
    <2>1. CASE u = t
        BY <1>1, <2>1 DEF PlaceTypes, OpPlaces
    <2>2. CASE u # t
        BY <1>1, <2>2 DEF PlaceTypes, OpPlaces
    <2>3. QED
        BY <2>1, <2>2
<1>4. QED
    BY <1>1, <1>2, <1>3 DEF PlaceTypes

LEMMA SendsOnKept ==
    ASSUME PlaceTypes, NEW t \in Tasks, SendsOn(t)
    PROVE  PlaceTypes'
<1>1. PICK c \in Channels, rest \in SUBSET Channels :
          /\ pc' = [pc EXCEPT ![t] = Pruned("fanout")]
          /\ op' = [op EXCEPT ![t] = "fanout"]
          /\ chan' = [chan EXCEPT ![t] = c]
          /\ todo' = [todo EXCEPT ![t] = rest]
          /\ UNCHANGED <<timed, stable, reached>>
    BY DEF SendsOn, Goes
<1>2. Suits("fanout", Pruned("fanout")) /\ "fanout" \in Operations
    BY BeginningSuits DEF Operations
<1>3. ASSUME NEW u \in Tasks PROVE OpPlaces(u)'
    <2>1. CASE u = t
        BY <1>1, <1>2, <2>1 DEF PlaceTypes, OpPlaces, Suits
    <2>2. CASE u # t
        BY <1>1, <2>2 DEF PlaceTypes, OpPlaces
    <2>3. QED
        BY <2>1, <2>2
<1>4. QED
    BY <1>1, <1>2, <1>3 DEF PlaceTypes, Suits

LEMMA BeginsKept ==
    ASSUME PlaceTypes, NEW t \in Tasks, Begins(t), Live \subseteq Channels
    PROVE  PlaceTypes'
<1>1. PICK use \in Uses[t] : Begin(t, use[1], use[2])
    BY DEF Begins
<1> DEFINE o == use[1]  c == use[2]
<1>2. o \in {"send", "receive", "add", "discard", "fan"} /\ c \in Channels
    OBVIOUS
<1>3. o \in Operations \ {"none"} /\ o # "fanout"
    BY <1>2 DEF Operations
<1>4. /\ pc[t] = "idle" /\ pc' = [pc EXCEPT ![t] = Pooled(o)] /\ op' = [op EXCEPT ![t] = o]
      /\ chan' = [chan EXCEPT ![t] = c] /\ timed' \in {timed, timed \cup {t}}
      /\ stable' = [stable EXCEPT ![t] = IF o = "fan" THEN Live ELSE {}]
      /\ UNCHANGED <<todo, reached>>
    BY <1>1 DEF Begin, Goes
<1>5. Suits(o, Pooled(o))
    BY <1>3, BeginningSuits
<1> HIDE DEF o, c
<1>6. ASSUME NEW u \in Tasks PROVE OpPlaces(u)'
    <2>1. CASE u = t
        <3>1. op[t] = "none" /\ todo[t] = {}
            BY <1>4 DEF PlaceTypes, OpPlaces
        <3>2. QED
            BY <1>3, <1>4, <1>5, <2>1, <3>1 DEF PlaceTypes, OpPlaces, Suits
    <2>2. CASE u # t
        BY <1>4, <2>2 DEF PlaceTypes, OpPlaces
    <2>3. QED
        BY <2>1, <2>2
<1>7. QED
    BY <1>2, <1>3, <1>4, <1>5, <1>6 DEF PlaceTypes, Suits

LEMMA NobodyMovesKept ==
    ASSUME PlaceTypes, NobodyMoves
    PROVE  PlaceTypes'
BY DEF PlaceTypes, NobodyMoves, OpPlaces

(* Each step of a task is one of these.                                    *)
LEMMA SendNextMoves ==
    ASSUME PlaceTypes, NEW t \in Tasks, pc[t] # "idle", NEW rest \in SUBSET Channels,
           SendNext(t, rest)
    PROVE  Ended(t) \/ SendsOn(t)
<1>1. CASE rest = {} \/ closed
    <2>1. Returns(t) /\ chan' = chan /\ stable' = [stable EXCEPT ![t] = {}]
        BY <1>1 DEF SendNext, Forgets
    <2>2. QED
        BY <2>1 DEF Ended, PlaceTypes
<1>2. CASE ~(rest = {} \/ closed)
    <2>1. PICK c \in rest :
              /\ Goes(t, Pruned("fanout"))
              /\ op' = [op EXCEPT ![t] = "fanout"]
              /\ chan' = [chan EXCEPT ![t] = c]
              /\ Keep(t, rest \ {c})
              /\ UNCHANGED <<timed, stable, reached>>
        BY <1>2 DEF SendNext
    <2>2. c \in Channels /\ rest \ {c} \in SUBSET Channels
        OBVIOUS
    <2>3. QED
        BY <2>1, <2>2 DEF SendsOn, Keep
<1>3. QED
    BY <1>1, <1>2

LEMMA NoRowMoves ==
    ASSUME PlaceTypes, NEW t \in Tasks, pc[t] \in {"select", "delete"}, NoRow(t)
    PROVE  Ended(t) \/ Advances(t, "listen")
<1>1. op[t] = "receive"
    BY DEF PlaceTypes, OpPlaces
<1>2. Suits(op[t], "listen")
    BY <1>1 DEF Suits, Places, Body
<1>3. CASE Returns(t)
    BY <1>3 DEF NoRow, Ended, PlaceTypes
<1>4. CASE Goes(t, "listen") /\ UNCHANGED <<callVars, todo, reached>>
    BY <1>2, <1>4 DEF NoRow, Advances
<1>5. QED
    BY <1>3, <1>4 DEF NoRow

LEMMA StepPlaces ==
    ASSUME PlaceTypes, Live \subseteq Channels, NEW t \in Tasks,
           Call(t) \/ Step(t) \/ Trouble(t)
    PROVE  \/ \E place : Advances(t, place)
           \/ Ended(t)
           \/ (Notify(t) \/ FetchMembers(t)) /\ SendsOn(t)
           \/ Call(t) /\ Begins(t)
<1>0. /\ OpPlaces(t) /\ op[t] \in Operations
      /\ stable \in [Tasks -> SUBSET Channels] /\ todo \in [Tasks -> SUBSET Channels]
    BY DEF PlaceTypes
<1>1. CASE Call(t)
    BY <1>1 DEF Call, Begins
<1>2. ASSUME pc[t] # "idle"
      PROVE  /\ op[t] \in Operations \ {"none"}
             /\ Suits(op[t], First(op[t])) /\ Suits(op[t], Pruned(op[t])) /\ Suits(op[t], Ready(op[t]))
             /\ \A place \in Prologue \cup Pruning \cup {"lock"} : Suits(op[t], place)
             /\ First(op[t]) # "notify" /\ Pruned(op[t]) # "notify" /\ Ready(op[t]) # "notify"
    BY <1>0, <1>2, BeginningSuits DEF OpPlaces
<1>3. CASE Connect(t)
    <2>1. Advances(t, Ready(op[t]))
        BY <1>2, <1>3 DEF Connect, At, Advances
    <2>2. QED
        BY <2>1
<1>4. CASE CreateSchema(t)
    <2>1. Advances(t, Pruned(op[t]))
        BY <1>2, <1>4 DEF CreateSchema, At, Advances
    <2>2. QED
        BY <2>1
<1>5. CASE Lock(t)
    <2>1. Advances(t, First(op[t])) \/ Advances(t, "pruneRows")
        BY <1>2, <1>5 DEF Lock, At, Advances, Pruning
    <2>2. QED
        BY <2>1
<1>6. CASE PruneRows(t)
    <2>1. Advances(t, "pruneMembers")
        BY <1>2, <1>6 DEF PruneRows, At, Advances, Pruning
    <2>2. QED
        BY <2>1
<1>7. CASE PruneMembers(t)
    <2>1. Advances(t, First(op[t]))
        BY <1>2, <1>7 DEF PruneMembers, At, Advances
    <2>2. QED
        BY <2>1
<1>8. CASE Insert(t)
    <2>1. Suits(op[t], "commit")
        BY <1>0, <1>8 DEF OpPlaces, Suits, Insert, At, Places, Body
    <2>2. Advances(t, "commit")
        BY <1>8, <2>1 DEF Insert, At, Advances
    <2>3. QED
        BY <2>2
<1>9. CASE Commit(t)
    <2>1. Suits(op[t], "notify")
        BY <1>0, <1>9 DEF OpPlaces, Suits, Commit, At, Places, Body
    <2>2. Advances(t, "notify")
        BY <1>9, <2>1 DEF Commit, At, Advances
    <2>3. QED
        BY <2>2
<1>10. CASE Notify(t)
    BY <1>0, <1>10, SendNextMoves DEF Notify
<1>11. CASE Select(t)
    <2>1. Suits(op[t], "delete")
        BY <1>0, <1>11 DEF OpPlaces, Suits, Select, At, Places, Body
    <2>2. Advances(t, "delete")
        BY <1>11, <2>1 DEF Select, At, Advances
    <2>3. QED
        BY <2>2
<1>12. CASE Delete(t) \/ Join(t) \/ PollRaises(t)
    <2>1. Returns(t) /\ UNCHANGED <<chan, stable>>
        BY <1>12 DEF Delete, Join, PollRaises, StopsListening
    <2>2. QED
        BY <1>0, <2>1 DEF Ended
<1>13. CASE SelectNothing(t)
    <2>1. pc[t] \in {"select", "delete"} /\ NoRow(t)
        BY <1>13 DEF SelectNothing
    <2>2. QED
        BY <2>1, NoRowMoves
<1>14. CASE DeleteNothing(t)
    <2>1. pc[t] \in {"select", "delete"} /\ NoRow(t)
        BY <1>14 DEF DeleteNothing
    <2>2. QED
        BY <2>1, NoRowMoves
<1>15. CASE Listen(t)
    <2>1. Suits(op[t], "wait")
        BY <1>0, <1>15 DEF OpPlaces, Suits, Listen, At, Places, Body
    <2>2. Advances(t, "wait")
        BY <1>15, <2>1 DEF Listen, At, Advances
    <2>3. QED
        BY <2>2
<1>16. CASE Wakes(t)
    <2>1. Suits(op[t], "select")
        BY <1>0, <1>16 DEF OpPlaces, Suits, Wakes, StopsListening, Places, Body
    <2>2. Advances(t, "select")
        BY <1>16, <2>1 DEF Wakes, StopsListening, Advances
    <2>3. QED
        BY <2>2
<1>17. CASE Leave(t)
    <2>1. Returns(t) /\ chan' = chan /\ stable' = [u \in Tasks |-> stable[u] \ {chan[t]}]
        BY <1>17 DEF Leave, Unstable
    <2>2. stable' \in [Tasks -> SUBSET Channels] /\ \A u \in Tasks : stable'[u] \subseteq stable[u]
        BY <1>0, <2>1
    <2>3. QED
        BY <2>1, <2>2 DEF Ended
<1>18. CASE FetchMembers(t)
    BY <1>18, SendNextMoves DEF FetchMembers
<1>19. CASE Refused(t) \/ Fails(t) \/ InsertUnanswered(t) \/ DeleteUnanswered(t)
    <2>1. Raises(t)
        BY <1>19 DEF Refused, Fails, InsertUnanswered, DeleteUnanswered, Fault
    <2>2. Returns(t) /\ chan' = chan /\ stable' = [stable EXCEPT ![t] = {}]
        BY <2>1 DEF Raises, Forgets
    <2>3. QED
        BY <1>0, <2>2 DEF Ended
<1>20. QED
    BY <1>1, <1>3, <1>4, <1>5, <1>6, <1>7, <1>8, <1>9, <1>10, <1>11, <1>12, <1>13, <1>14, <1>15,
       <1>16, <1>17, <1>18, <1>19 DEF Step, Trouble

(* A step of a task moves it alone.                                        *)
LEMMA GoesPlace ==
    ASSUME PlaceTypes, NEW t \in Tasks, NEW place, Goes(t, place)
    PROVE  pc'[t] = place /\ \A u \in Tasks \ {t} : pc'[u] = pc[u]
BY DEF PlaceTypes, Goes

LEMMA OthersStay ==
    ASSUME PlaceTypes, Live \subseteq Channels, NEW t \in Tasks,
           Call(t) \/ Step(t) \/ Trouble(t)
    PROVE  \A u \in Tasks \ {t} : /\ pc'[u] = pc[u] /\ op'[u] = op[u] /\ chan'[u] = chan[u]
                                  /\ todo'[u] = todo[u] /\ reached'[u] = reached[u]
<1>1. /\ pc \in [Tasks -> Places] /\ op \in [Tasks -> Operations]
      /\ chan \in [Tasks -> Channels] /\ todo \in [Tasks -> SUBSET Channels]
      /\ reached \in [Tasks -> SUBSET Channels]
    BY DEF PlaceTypes
<1>2. CASE \E place : Advances(t, place)
    BY <1>1, <1>2 DEF Advances, Goes
<1>3. CASE Ended(t)
    BY <1>1, <1>3 DEF Ended, Returns, Goes
<1>4. CASE SendsOn(t)
    BY <1>1, <1>4 DEF SendsOn, Goes
<1>5. CASE Begins(t)
    BY <1>1, <1>5 DEF Begins, Begin, Goes
<1>6. QED
    BY <1>2, <1>3, <1>4, <1>5, StepPlaces

-----------------------------------------------------------------------------
(* Pools and connections.  The last pool made is the layer's, and nobody   *)
(* gets behind _get_pool without one.                                      *)
Holding == {"commit", "delete", "wait"}
HeldOf(t) ==
    /\ (using[t] # 0) = (pc[t] \in Holding)
    /\ using[t] <= made
    /\ pc[t] \notin {"idle", "connect"} => pool # 0
HeldTypes ==
    /\ pool \in Nat /\ made \in Nat /\ pool = made
    /\ using \in [Tasks -> Nat]
    /\ \A t \in Tasks : HeldOf(t)

(* What a step may do to the connections.                                  *)
Takes(t) ==
    /\ pc[t] \notin {"idle", "connect"} /\ pc'[t] \in Holding /\ pool \notin ended
    /\ using' = [using EXCEPT ![t] = pool] /\ UNCHANGED <<pool, made>>
Gives(t) ==
    /\ pc'[t] \notin Holding \cup {"connect"}
    /\ pc'[t] = "idle" \/ pc[t] \notin {"idle", "connect"}
    /\ using' = [using EXCEPT ![t] = 0] /\ UNCHANGED <<pool, made>>
HasNone(t) ==
    /\ pc[t] \notin Holding /\ pc'[t] \notin Holding
    /\ using' = using
    /\ \/ /\ UNCHANGED <<pool, made>>
          /\ pc'[t] \notin {"idle", "connect"} => pool # 0 \/ pc[t] \notin {"idle", "connect"}
       \/ pc[t] = "connect" /\ made' = made + 1 /\ pool' = made + 1
    /\ pc'[t] = "connect" => Call(t)

LEMMA BeginningHoldsNone ==
    ASSUME NEW o \in Operations \ {"none"}
    PROVE  /\ First(o) \notin Holding \cup Prologue \cup Pruning \cup {"idle", "lock", "notify"}
           /\ Pruned(o) \notin Holding \cup Prologue \cup Pruning \cup {"idle"}
           /\ Ready(o) \notin Holding \cup Pruning \cup {"idle", "connect"}
           /\ Pooled(o) \notin Holding \cup Pruning \cup {"idle"}
           /\ pool = 0 <=> Pooled(o) = "connect"
<1>1. First(o) \in {"insert", "select", "join", "leave", "members"}
    BY FirstPlaces DEF Operations
<1>2. First(o) \notin Holding \cup Prologue \cup Pruning \cup {"idle", "lock", "notify"}
    BY <1>1 DEF Holding, Prologue, Pruning
<1>3. Pruned(o) \notin Holding \cup Prologue \cup Pruning \cup {"idle"}
    BY <1>2 DEF Pruned, Holding, Prologue, Pruning
<1>4. Ready(o) \notin Holding \cup Pruning \cup {"idle", "connect"}
    BY <1>3 DEF Ready, Holding, Prologue, Pruning
<1>5. QED
    BY <1>2, <1>3, <1>4 DEF Pooled, Holding, Pruning

LEMMA StepConnections ==
    ASSUME PlaceTypes, Live \subseteq Channels, NEW t \in Tasks,
           Call(t) \/ Step(t) \/ Trouble(t)
    PROVE  Takes(t) \/ Gives(t) \/ HasNone(t)
<1>0. OpPlaces(t) /\ op[t] \in Operations
    BY DEF PlaceTypes
<1>1. \A place : Goes(t, place) => pc'[t] = place
    BY GoesPlace
<1>2. Returns(t) => pc'[t] = "idle"
    BY <1>1 DEF Returns
<1>3. ASSUME pc[t] # "idle"
      PROVE  /\ op[t] \in Operations \ {"none"}
             /\ First(op[t]) \notin Holding \cup {"idle", "connect"}
             /\ Pruned(op[t]) \notin Holding \cup {"idle", "connect"}
             /\ Ready(op[t]) \notin Holding \cup {"idle", "connect"}
    BY <1>0, <1>3, BeginningHoldsNone DEF OpPlaces, Prologue
<1>4. CASE Insert(t) \/ Select(t) \/ Listen(t)
    BY <1>1, <1>4 DEF Insert, Select, Listen, At, Acquire, Free, Takes, Holding
<1>5. CASE Commit(t)
    BY <1>1, <1>5 DEF Commit, At, GiveBack, Gives, Holding
<1>6. CASE Delete(t) \/ PollRaises(t)
    BY <1>2, <1>6 DEF Delete, PollRaises, StopsListening, GiveBack, Gives, Holding
<1>7. CASE DeleteNothing(t)
    BY <1>1, <1>2, <1>7 DEF DeleteNothing, NoRow, GiveBack, Gives, Holding
<1>8. CASE Wakes(t)
    BY <1>1, <1>8 DEF Wakes, StopsListening, GiveBack, Gives, Holding
<1>9. CASE Refused(t) \/ Fails(t) \/ InsertUnanswered(t) \/ DeleteUnanswered(t)
    <2>1. Raises(t)
        BY <1>9 DEF Refused, Fails, InsertUnanswered, DeleteUnanswered, Fault
    <2>2. QED
        BY <1>2, <2>1 DEF Raises, GiveBack, Gives, Holding
<1>10. CASE Connect(t) \/ CreateSchema(t)
    BY <1>1, <1>3, <1>10 DEF Connect, CreateSchema, At, HasNone, Holding
<1>11. CASE Lock(t) \/ PruneRows(t) \/ PruneMembers(t)
    BY <1>1, <1>3, <1>11 DEF Lock, PruneRows, PruneMembers, At, HasNone, Holding
<1>12. CASE SelectNothing(t)
    BY <1>1, <1>2, <1>12 DEF SelectNothing, NoRow, HasNone, Holding
<1>13. CASE Join(t) \/ Leave(t)
    BY <1>2, <1>13 DEF Join, Leave, HasNone, Holding
<1>14. CASE Notify(t) \/ FetchMembers(t)
    <2>1. /\ pc[t] \in {"notify", "members"} /\ UNCHANGED <<pool, made, using>>
          /\ Returns(t) \/ Goes(t, Pruned("fanout"))
        BY <1>14 DEF Notify, FetchMembers, SendNext
    <2>2. Pruned("fanout") \notin Holding \cup {"idle", "connect"}
        BY BeginningHoldsNone DEF Operations, Prologue
    <2>3. QED
        BY <1>1, <1>2, <2>1, <2>2 DEF HasNone, Holding
<1>15. CASE Call(t)
    <2>1. PICK use \in Uses[t] : Begin(t, use[1], use[2])
        BY <1>15 DEF Call
    <2>2. use[1] \in Operations \ {"none"}
        BY DEF Operations
    <2>3. pc'[t] = Pooled(use[1]) /\ pc[t] = "idle" /\ UNCHANGED <<pool, made, using>>
        BY <1>1, <2>1 DEF Begin
    <2>4. Pooled(use[1]) \notin Holding /\ (pool = 0 <=> Pooled(use[1]) = "connect")
        BY <2>2, BeginningHoldsNone
    <2>5. QED
        BY <1>15, <2>3, <2>4 DEF HasNone, Holding
<1>16. QED
    BY <1>4, <1>5, <1>6, <1>7, <1>8, <1>9, <1>10, <1>11, <1>12, <1>13, <1>14, <1>15
       DEF Step, Trouble

LEMMA HeldKeptByTask ==
    ASSUME PlaceTypes, HeldTypes, Live \subseteq Channels, NEW t \in Tasks,
           Call(t) \/ Step(t) \/ Trouble(t)
    PROVE  HeldTypes'
<1>1. \A u \in Tasks \ {t} : pc'[u] = pc[u]
    BY OthersStay
<1>2. \A u \in Tasks : HeldOf(u)
    BY DEF HeldTypes
<1>3. CASE Takes(t)
    <2>1. using'[t] = pool /\ \A u \in Tasks \ {t} : using'[u] = using[u]
        BY <1>3 DEF HeldTypes, Takes
    <2>2. \A u \in Tasks : HeldOf(u)'
        BY <1>1, <1>2, <1>3, <2>1 DEF HeldTypes, HeldOf, Takes, Holding
    <2>3. QED
        BY <1>3, <2>2 DEF HeldTypes, Takes
<1>4. CASE Gives(t)
    <2>1. using'[t] = 0 /\ \A u \in Tasks \ {t} : using'[u] = using[u]
        BY <1>4 DEF HeldTypes, Gives
    <2>2. \A u \in Tasks : HeldOf(u)'
        BY <1>1, <1>2, <1>4, <2>1 DEF HeldTypes, HeldOf, Gives, Holding
    <2>3. QED
        BY <1>4, <2>2 DEF HeldTypes, Gives
<1>5. CASE HasNone(t)
    <2>1. \A u \in Tasks : HeldOf(u)'
        BY <1>1, <1>2, <1>5 DEF HeldTypes, HeldOf, HasNone, Holding
    <2>2. QED
        BY <1>5, <2>1 DEF HeldTypes, HasNone
<1>6. QED
    BY <1>3, <1>4, <1>5, StepConnections

-----------------------------------------------------------------------------
(* The prune lock.  Only its holder prunes, and only while a prune is due. *)
LockOf(t) ==
    /\ (lock = t) = (pc[t] \in Pruning)
    /\ pc[t] \in Pruning => due
LockTypes ==
    /\ due \in BOOLEAN /\ lock \in Tasks \cup {NoTask}
    /\ periods \in Nat /\ prunes \in Nat /\ OnePruneAnInterval
    /\ \A t \in Tasks : LockOf(t)

(* What a step may do to the lock.                                         *)
TakesLock(t) ==
    /\ lock = NoTask /\ lock' = t /\ due /\ pc'[t] \in Pruning
    /\ UNCHANGED <<due, periods, prunes>>
Prunes(t) == pc[t] \in Pruning /\ pc'[t] \in Pruning /\ UNCHANGED pruneVars
PruneDone(t) ==
    /\ pc[t] \in Pruning /\ pc'[t] \notin Pruning
    /\ due' = FALSE /\ lock' = NoTask /\ prunes' = prunes + 1 /\ periods' = periods
DropsLock(t) ==
    /\ pc'[t] \notin Pruning /\ lock' = IF lock = t THEN NoTask ELSE lock
    /\ UNCHANGED <<due, periods, prunes>>
NoLock(t) == pc[t] \notin Pruning /\ pc'[t] \notin Pruning /\ UNCHANGED pruneVars

LEMMA StepLock ==
    ASSUME PlaceTypes, Live \subseteq Channels, NEW t \in Tasks,
           Call(t) \/ Step(t) \/ Trouble(t)
    PROVE  TakesLock(t) \/ Prunes(t) \/ PruneDone(t) \/ DropsLock(t) \/ NoLock(t)
<1>0. OpPlaces(t) /\ op[t] \in Operations
    BY DEF PlaceTypes
<1>1. \A place : Goes(t, place) => pc'[t] = place
    BY GoesPlace
<1>2. Returns(t) => pc'[t] = "idle"
    BY <1>1 DEF Returns
<1>3. ASSUME pc[t] # "idle"
      PROVE  /\ First(op[t]) \notin Pruning /\ Pruned(op[t]) \notin Pruning
             /\ Ready(op[t]) \notin Pruning
    BY <1>0, <1>3, BeginningHoldsNone DEF OpPlaces
<1>4. CASE Lock(t)
    <2>1. CASE PrunedMeanwhile(t)
        BY <1>1, <1>3, <1>4, <2>1 DEF Lock, At, NoLock, Pruning
    <2>2. CASE ~PrunedMeanwhile(t)
        BY <1>1, <1>4, <2>2 DEF Lock, At, TakesLock, Pruning, PrunedMeanwhile
    <2>3. QED
        BY <2>1, <2>2
<1>5. CASE PruneRows(t)
    BY <1>1, <1>5 DEF PruneRows, At, Prunes, Pruning
<1>6. CASE PruneMembers(t)
    BY <1>1, <1>3, <1>6 DEF PruneMembers, At, PruneDone, Pruning
<1>7. CASE Refused(t) \/ Fails(t) \/ InsertUnanswered(t) \/ DeleteUnanswered(t)
    <2>1. Raises(t)
        BY <1>7 DEF Refused, Fails, InsertUnanswered, DeleteUnanswered, Fault
    <2>2. QED
        BY <1>2, <2>1 DEF Raises, FreeLock, DropsLock, Pruning
<1>8. CASE Connect(t) \/ CreateSchema(t)
    BY <1>1, <1>3, <1>8 DEF Connect, CreateSchema, At, NoLock, Pruning
<1>9. CASE Insert(t) \/ Commit(t) \/ Select(t) \/ Listen(t)
    BY <1>1, <1>9 DEF Insert, Commit, Select, Listen, At, NoLock, Pruning
<1>10. CASE Delete(t) \/ Join(t) \/ Leave(t)
    BY <1>2, <1>10 DEF Delete, Join, Leave, NoLock, Pruning
<1>11. CASE SelectNothing(t) \/ DeleteNothing(t)
    BY <1>1, <1>2, <1>11 DEF SelectNothing, DeleteNothing, NoRow, NoLock, Pruning
<1>12. CASE Wakes(t) \/ PollRaises(t)
    BY <1>1, <1>2, <1>12 DEF Wakes, PollRaises, StopsListening, NoLock, Pruning
<1>13. CASE Notify(t) \/ FetchMembers(t)
    <2>1. /\ pc[t] \in {"notify", "members"} /\ UNCHANGED pruneVars
          /\ Returns(t) \/ Goes(t, Pruned("fanout"))
        BY <1>13 DEF Notify, FetchMembers, SendNext
    <2>2. Pruned("fanout") \notin Pruning
        BY BeginningHoldsNone DEF Operations
    <2>3. QED
        BY <1>1, <1>2, <2>1, <2>2 DEF NoLock, Pruning
<1>14. CASE Call(t)
    <2>1. PICK use \in Uses[t] : Begin(t, use[1], use[2])
        BY <1>14 DEF Call
    <2>2. use[1] \in Operations \ {"none"}
        BY DEF Operations
    <2>3. pc'[t] = Pooled(use[1]) /\ pc[t] = "idle" /\ UNCHANGED pruneVars
        BY <1>1, <2>1 DEF Begin
    <2>4. QED
        BY <2>2, <2>3, BeginningHoldsNone DEF NoLock, Pruning
<1>15. QED
    BY <1>4, <1>5, <1>6, <1>7, <1>8, <1>9, <1>10, <1>11, <1>12, <1>13, <1>14 DEF Step, Trouble

LEMMA LockKeptByTask ==
    ASSUME PlaceTypes, LockTypes, Live \subseteq Channels, NEW t \in Tasks,
           Call(t) \/ Step(t) \/ Trouble(t)
    PROVE  LockTypes'
<1>1. \A u \in Tasks \ {t} : pc'[u] = pc[u]
    BY OthersStay
<1>2. \A u \in Tasks : LockOf(u)
    BY DEF LockTypes
<1>3. CASE TakesLock(t)
    <2>1. \A u \in Tasks : LockOf(u)'
        BY <1>1, <1>2, <1>3 DEF LockOf, TakesLock
    <2>2. QED
        BY <1>3, <2>1 DEF LockTypes, TakesLock, OnePruneAnInterval
<1>4. CASE Prunes(t)
    <2>1. \A u \in Tasks : LockOf(u)'
        BY <1>1, <1>2, <1>4 DEF LockOf, Prunes
    <2>2. QED
        BY <1>4, <2>1 DEF LockTypes, Prunes, OnePruneAnInterval
<1>5. CASE PruneDone(t)
    <2>1. due /\ lock = t
        BY <1>2, <1>5 DEF LockOf, PruneDone
    <2>2. \A u \in Tasks : LockOf(u)'
        BY <1>1, <1>2, <1>5, <2>1 DEF LockOf, PruneDone
    <2>3. ~due' /\ due' \in BOOLEAN /\ lock' \in Tasks \cup {NoTask}
        BY <1>5 DEF PruneDone
    <2>4. prunes' = prunes + 1 /\ periods' = periods /\ prunes \in Nat /\ periods \in Nat
        BY <1>5 DEF PruneDone, LockTypes
    <2>5. periods = prunes + 1
        BY <2>1 DEF LockTypes, OnePruneAnInterval
    <2>6. OnePruneAnInterval'
        BY <2>3, <2>4, <2>5 DEF OnePruneAnInterval
    <2>7. QED
        BY <2>2, <2>3, <2>4, <2>6 DEF LockTypes
<1>6. CASE DropsLock(t)
    <2>1. \A u \in Tasks : LockOf(u)'
        BY <1>1, <1>2, <1>6 DEF LockOf, DropsLock
    <2>2. QED
        BY <1>6, <2>1 DEF LockTypes, DropsLock, OnePruneAnInterval
<1>7. CASE NoLock(t)
    <2>1. \A u \in Tasks : LockOf(u)'
        BY <1>1, <1>2, <1>7 DEF LockOf, NoLock
    <2>2. QED
        BY <1>7, <2>1 DEF LockTypes, NoLock, OnePruneAnInterval
<1>8. QED
    BY <1>3, <1>4, <1>5, <1>6, <1>7, StepLock

-----------------------------------------------------------------------------
(* Tables.  In a layer that makes them, who is behind _ensure_schema found *)
(* them made or made them.                                                 *)
TablesInv ==
    /\ makesTables \in BOOLEAN /\ schemaReady \in BOOLEAN /\ tables \in BOOLEAN
    /\ makesTables /\ schemaReady => tables
    /\ TablesBeforeUse

LEMMA TablesKeptByTask ==
    ASSUME PlaceTypes, TablesInv, Live \subseteq Channels, NEW t \in Tasks,
           Call(t) \/ Step(t) \/ Trouble(t)
    PROVE  TablesInv'
<1>0. OpPlaces(t) /\ op[t] \in Operations /\ pc[t] \in Places
    BY DEF PlaceTypes
<1>1. \A place : Goes(t, place) => pc'[t] = place
    BY GoesPlace
<1>2. Returns(t) => pc'[t] = "idle"
    BY <1>1 DEF Returns
<1>3. \A u \in Tasks \ {t} : pc'[u] = pc[u]
    BY OthersStay
<1>4. /\ "idle" \notin Body /\ "connect" \notin Body /\ "schema" \notin Body
      /\ \A place \in Places \ Body : place \in {"idle", "connect", "schema"}
    BY DEF Places, Prologue, Body, Pruning
<1>5. CASE pc[t] \in Body /\ UNCHANGED schemaVars
    BY <1>3, <1>5 DEF TablesInv, TablesBeforeUse
<1>6. CASE pc'[t] \notin Body /\ UNCHANGED schemaVars
    BY <1>3, <1>6 DEF TablesInv, TablesBeforeUse
<1>7. CASE schemaReady /\ UNCHANGED schemaVars
    BY <1>3, <1>7 DEF TablesInv, TablesBeforeUse
<1>8. CASE CreateSchema(t)
    BY <1>8 DEF CreateSchema, TablesInv, TablesBeforeUse
<1>9. CASE Connect(t)
    <2>1. pc'[t] = Ready(op[t]) /\ UNCHANGED schemaVars
        BY <1>1, <1>9 DEF Connect, At
    <2>2. schemaReady \/ pc'[t] = "schema"
        BY <2>1 DEF Ready
    <2>3. QED
        BY <1>4, <1>6, <1>7, <2>1, <2>2
<1>10. CASE Call(t)
    <2>1. PICK use \in Uses[t] : pc'[t] = Pooled(use[1]) /\ UNCHANGED schemaVars
        BY <1>1, <1>10 DEF Call, Begin
    <2>2. schemaReady \/ pc'[t] \in {"connect", "schema"}
        BY <2>1 DEF Pooled, Ready
    <2>3. QED
        BY <1>4, <1>6, <1>7, <2>1, <2>2
<1>11. CASE Refused(t) \/ Fails(t) \/ InsertUnanswered(t) \/ DeleteUnanswered(t)
    <2>1. Raises(t)
        BY <1>11 DEF Refused, Fails, InsertUnanswered, DeleteUnanswered, Fault
    <2>2. pc'[t] \notin Body /\ UNCHANGED schemaVars
        BY <1>2, <1>4, <2>1 DEF Raises
    <2>3. QED
        BY <1>6, <2>2
<1>12. CASE \/ Lock(t) \/ PruneRows(t) \/ PruneMembers(t) \/ Insert(t) \/ Commit(t) \/ Notify(t)
            \/ Select(t) \/ Delete(t) \/ SelectNothing(t) \/ DeleteNothing(t)
            \/ Listen(t) \/ Wakes(t) \/ PollRaises(t) \/ Join(t) \/ Leave(t) \/ FetchMembers(t)
    <2>1. pc[t] \notin {"idle", "connect", "schema"} /\ UNCHANGED schemaVars
        BY <1>12 DEF Lock, PruneRows, PruneMembers, Insert, Commit, Notify, Select, Delete,
           SelectNothing, DeleteNothing, Listen, Wakes, PollRaises, StopsListening, Join, Leave,
           FetchMembers, At
    <2>2. QED
        BY <1>0, <1>4, <1>5, <2>1
<1>13. QED
    BY <1>8, <1>9, <1>10, <1>11, <1>12 DEF Step, Trouble

-----------------------------------------------------------------------------
(* Fan-out.  A channel that has been a live member since the call began is *)
(* one that the SELECT finds, and then one that is sent to, is being sent  *)
(* to or is still to do.                                                   *)
FanOf(t) ==
    /\ op[t] = "fan" => stable[t] \subseteq Live
    /\ op[t] = "fanout" => stable[t] \subseteq reached[t] \cup todo[t] \cup {chan[t]}
    /\ pc[t] = "notify" => chan[t] \in reached[t]
FanInv == members \subseteq Channels /\ lapsed \subseteq members /\ \A t \in Tasks : FanOf(t)

LEMMA LiveAreChannels ==
    ASSUME FanInv
    PROVE  Live \subseteq Channels
BY DEF FanInv, Live

(* A channel that is live no more is stable for nobody.                    *)
StableStayLive(u) == /\ stable'[u] \subseteq stable[u]
                     /\ \A c \in stable'[u] : c \in Live => c \in Live'
MembersTyped == members' \subseteq Channels /\ lapsed' \subseteq members'

LEMMA StepMembers ==
    ASSUME PlaceTypes, FanInv, NEW t \in Tasks, Step(t) \/ Trouble(t)
    PROVE  MembersTyped /\ \A u \in Tasks : StableStayLive(u)
<1>0. /\ stable \in [Tasks -> SUBSET Channels] /\ chan[t] \in Channels
      /\ members \subseteq Channels /\ lapsed \subseteq members
    BY DEF PlaceTypes, FanInv
<1>1. CASE /\ UNCHANGED memberVars
           /\ stable' = stable \/ stable' = [stable EXCEPT ![t] = {}]
    <2>1. Live' = Live
        BY <1>1 DEF Live
    <2>2. \A u \in Tasks : stable'[u] \subseteq stable[u]
        BY <1>0, <1>1
    <2>3. QED
        BY <1>0, <1>1, <2>1, <2>2 DEF MembersTyped, StableStayLive
<1>2. CASE PruneMembers(t)
    <2>1. members' = Live /\ lapsed' = {} /\ stable' = stable
        BY <1>2 DEF PruneMembers
    <2>2. Live' = Live
        BY <2>1 DEF Live
    <2>3. QED
        BY <1>0, <2>1, <2>2 DEF MembersTyped, StableStayLive, Live
<1>3. CASE Join(t)
    BY <1>0, <1>3 DEF Join, MembersTyped, StableStayLive, Live
<1>4. CASE Leave(t)
    <2>1. /\ members' = members \ {chan[t]} /\ lapsed' = lapsed \ {chan[t]}
          /\ \A u \in Tasks : stable'[u] = stable[u] \ {chan[t]}
        BY <1>4 DEF Leave, Unstable
    <2>2. QED
        BY <1>0, <2>1 DEF MembersTyped, StableStayLive, Live
<1>5. CASE Notify(t) \/ FetchMembers(t)
    BY <1>1, <1>5 DEF Notify, FetchMembers, SendNext, Forgets
<1>6. CASE Refused(t) \/ Fails(t) \/ InsertUnanswered(t) \/ DeleteUnanswered(t)
    <2>1. Raises(t)
        BY <1>6 DEF Refused, Fails, InsertUnanswered, DeleteUnanswered, Fault
    <2>2. QED
        BY <1>1, <2>1 DEF Raises, Forgets
<1>7. CASE \/ Connect(t) \/ CreateSchema(t) \/ Lock(t) \/ PruneRows(t) \/ Insert(t) \/ Commit(t)
           \/ Select(t) \/ Delete(t) \/ SelectNothing(t) \/ DeleteNothing(t)
           \/ Listen(t) \/ Wakes(t) \/ PollRaises(t)
    <2>1. UNCHANGED memberVars /\ stable' = stable
        BY <1>7 DEF Connect, CreateSchema, Lock, PruneRows, Insert, Commit, Select, Delete,
           SelectNothing, DeleteNothing, NoRow, Listen, Wakes, PollRaises, StopsListening
    <2>2. QED
        BY <1>1, <2>1
<1>8. QED
    BY <1>2, <1>3, <1>4, <1>5, <1>6, <1>7 DEF Step, Trouble

(* The tasks that do not move keep what they have.                         *)
LEMMA OthersFan ==
    ASSUME PlaceTypes, FanInv, NEW t \in Tasks, Step(t) \/ Trouble(t)
    PROVE  \A u \in Tasks \ {t} : FanOf(u)'
<1>1. ASSUME NEW u \in Tasks \ {t} PROVE FanOf(u)'
    <2>1. /\ pc'[u] = pc[u] /\ op'[u] = op[u] /\ chan'[u] = chan[u]
          /\ todo'[u] = todo[u] /\ reached'[u] = reached[u]
        BY LiveAreChannels, OthersStay
    <2>2. StableStayLive(u)
        BY StepMembers
    <2>3. QED
        BY <2>1, <2>2 DEF FanInv, FanOf, StableStayLive
<1>2. QED
    BY <1>1

LEMMA SendNextFan ==
    ASSUME PlaceTypes, FanInv, NEW t \in Tasks, NEW rest \in SUBSET Channels, SendNext(t, rest),
           stable[t] \subseteq reached[t] \cup rest
    PROVE  FanOf(t)'
<1>1. CASE rest = {} \/ closed
    <2>1. op'[t] = "none" /\ pc'[t] = "idle"
        BY <1>1 DEF SendNext, Returns, Goes, PlaceTypes
    <2>2. QED
        BY <2>1 DEF FanOf
<1>2. CASE ~(rest = {} \/ closed)
    <2>1. PICK c \in rest :
              /\ Goes(t, Pruned("fanout"))
              /\ op' = [op EXCEPT ![t] = "fanout"]
              /\ chan' = [chan EXCEPT ![t] = c]
              /\ todo' = [todo EXCEPT ![t] = rest \ {c}]
              /\ UNCHANGED <<stable, reached>>
        BY <1>2 DEF SendNext, Keep
    <2>2. pc'[t] = Pruned("fanout") /\ Pruned("fanout") # "notify"
        BY <2>1, GoesPlace, BeginningSuits DEF Operations
    <2>3. op'[t] = "fanout" /\ chan'[t] = c /\ todo'[t] = rest \ {c}
        BY <2>1 DEF PlaceTypes
    <2>4. QED
        BY <2>1, <2>2, <2>3 DEF FanOf
<1>3. QED
    BY <1>1, <1>2

LEMMA FanKeptByTask ==
    ASSUME PlaceTypes, FanInv, NEW t \in Tasks, Call(t) \/ Step(t) \/ Trouble(t)
    PROVE  FanInv'
<1>0. /\ FanOf(t) /\ OpPlaces(t) /\ Live \subseteq Channels
      /\ stable \in [Tasks -> SUBSET Channels] /\ reached \in [Tasks -> SUBSET Channels]
      /\ todo[t] \in SUBSET Channels
    BY LiveAreChannels DEF FanInv, PlaceTypes
<1>1. CASE Call(t)
    <2>1. PICK use \in Uses[t] : Begin(t, use[1], use[2])
        BY <1>1 DEF Call
    <2>2. /\ stable'[t] = IF use[1] = "fan" THEN Live ELSE {}
          /\ \A u \in Tasks \ {t} : stable'[u] = stable[u]
        BY <1>0, <2>1 DEF Begin
    <2>3. Live' = Live /\ MembersTyped
        BY <2>1 DEF Begin, Live, MembersTyped, FanInv
    <2>4. op'[t] = use[1] /\ use[1] \in Operations \ {"none", "fanout"}
        BY <2>1 DEF Begin, PlaceTypes, Operations
    <2>5. pc'[t] = Pooled(use[1]) /\ Pooled(use[1]) # "notify"
        BY <2>1, <2>4, GoesPlace, BeginningSuits DEF Begin, Pooled
    <2>6. FanOf(t)'
        BY <2>2, <2>3, <2>4, <2>5 DEF FanOf
    <2>7. \A u \in Tasks \ {t} : /\ pc'[u] = pc[u] /\ op'[u] = op[u] /\ chan'[u] = chan[u]
                                 /\ todo'[u] = todo[u] /\ reached'[u] = reached[u]
        BY <1>0, <1>1, OthersStay
    <2>8. \A u \in Tasks \ {t} : FanOf(u)'
        BY <2>2, <2>3, <2>7 DEF FanOf, FanInv
    <2>9. QED
        BY <2>3, <2>6, <2>8 DEF FanInv, MembersTyped
<1>2. CASE Notify(t)
    <2>1. SendNext(t, todo[t]) /\ pc[t] = "notify"
        BY <1>2 DEF Notify
    <2>2. stable[t] \subseteq reached[t] \cup todo[t] \/ op[t] = "send"
        BY <1>0, <2>1 DEF FanOf, OpPlaces
    <2>3. ASSUME op[t] = "send" PROVE FanOf(t)'
        <3>1. todo[t] = {}
            BY <1>0, <2>3 DEF OpPlaces
        <3>2. SendNext(t, {}) => Returns(t)
            BY DEF SendNext
        <3>3. op'[t] = "none" /\ pc'[t] = "idle"
            BY <2>1, <3>1, <3>2 DEF Returns, Goes, PlaceTypes
        <3>4. QED
            BY <3>3 DEF FanOf
    <2>4. ASSUME stable[t] \subseteq reached[t] \cup todo[t] PROVE FanOf(t)'
        BY <1>0, <2>1, <2>4, SendNextFan
    <2>5. FanOf(t)'
        BY <2>2, <2>3, <2>4
    <2>6. QED
        BY <1>2, <2>5, OthersFan, StepMembers DEF Step, FanInv, MembersTyped
<1>3. CASE FetchMembers(t)
    <2>1. SendNext(t, Live) /\ op[t] = "fan"
        BY <1>0, <1>3 DEF FetchMembers, OpPlaces
    <2>2. FanOf(t)'
        BY <1>0, <2>1, SendNextFan DEF FanOf
    <2>3. QED
        BY <1>3, <2>2, OthersFan, StepMembers DEF Step, FanInv, MembersTyped
<1>4. CASE (Step(t) \/ Trouble(t)) /\ \E place : Advances(t, place)
    <2>1. PICK place : Advances(t, place)
        BY <1>4
    <2>2. /\ pc'[t] = place /\ op'[t] = op[t] /\ chan'[t] = chan[t] /\ todo'[t] = todo[t]
          /\ stable'[t] = stable[t] /\ reached[t] \subseteq reached'[t]
          /\ place = "notify" => chan[t] \in reached'[t]
        BY <1>0, <2>1, GoesPlace DEF Advances
    <2>3. StableStayLive(t)
        BY <1>4, StepMembers
    <2>4. FanOf(t)'
        BY <1>0, <2>2, <2>3 DEF FanOf, StableStayLive
    <2>5. QED
        BY <1>4, <2>4, OthersFan, StepMembers DEF FanInv, MembersTyped
<1>5. CASE (Step(t) \/ Trouble(t)) /\ Ended(t)
    <2>1. op'[t] = "none" /\ pc'[t] = "idle"
        BY <1>5 DEF Ended, Returns, Goes, PlaceTypes
    <2>2. FanOf(t)'
        BY <2>1 DEF FanOf
    <2>3. QED
        BY <1>5, <2>2, OthersFan, StepMembers DEF FanInv, MembersTyped
<1>6. QED
    BY <1>0, <1>1, <1>2, <1>3, <1>4, <1>5, StepPlaces

-----------------------------------------------------------------------------
(* close().  Where the layer owns its pool and nobody raced, there is one  *)
(* pool at most, made by one task before the layer is closed; nobody gets  *)
(* a connection of it afterwards.                                          *)
LonePool ==
    /\ made <= 1
    /\ \A t \in Tasks : pc[t] = "connect" => pool = 0 /\ ~closed
    /\ \A t, u \in Tasks : pc[t] = "connect" /\ pc[u] = "connect" => t = u
    /\ closed /\ pool # 0 => pool \in ended
    /\ closer = "done" => \A t \in Tasks : using[t] = 0
CloseInv ==
    /\ ownsPool \in BOOLEAN /\ raced \in BOOLEAN /\ closed \in BOOLEAN
    /\ closer \in {"open", "closing", "done"} /\ ended \subseteq Nat
    /\ closer = "open" <=> ~closed
    /\ ownsPool /\ ~raced => LonePool

LEMMA StepPool ==
    ASSUME NEW t \in Tasks, Call(t) \/ Step(t) \/ Trouble(t)
    PROVE  /\ UNCHANGED <<ownsPool, closeVars>>
           /\ \/ UNCHANGED raced /\ ~Call(t)
              \/ /\ raced' \in BOOLEAN /\ ~closed /\ UNCHANGED <<pool, made, using>>
                 /\ raced' <=> raced \/ (pool = 0 /\ \E u \in Tasks : pc[u] = "connect")
                 /\ Call(t)
<1>1. CASE Call(t)
    BY <1>1 DEF Call, Begin
<1>2. CASE Step(t) /\ ~Call(t)
    BY <1>2 DEF Step, Connect, CreateSchema, Lock, PruneRows, PruneMembers, Insert, Commit, Notify,
       Select, Delete, SelectNothing, DeleteNothing, Listen, Wakes, StopsListening, Join, Leave,
       FetchMembers, Refused, Raises
<1>3. CASE Trouble(t) /\ ~Call(t)
    BY <1>3 DEF Trouble, PollRaises, StopsListening, Fails, InsertUnanswered, DeleteUnanswered, Fault,
       Raises
<1>4. QED
    BY <1>1, <1>2, <1>3

LEMMA CloseKeptByTask ==
    ASSUME PlaceTypes, HeldTypes, CloseInv, Live \subseteq Channels, NEW t \in Tasks,
           Call(t) \/ Step(t) \/ Trouble(t)
    PROVE  CloseInv'
<1>0. /\ UNCHANGED <<ownsPool, closeVars>> /\ raced' \in BOOLEAN
      /\ raced => raced'
    BY StepPool DEF CloseInv
<1>1. \A u \in Tasks \ {t} : pc'[u] = pc[u]
    BY OthersStay
<1>2. SUFFICES ASSUME ownsPool, ~raced, ~raced' PROVE LonePool'
    BY <1>0 DEF CloseInv
<1>3. LonePool
    BY <1>2 DEF CloseInv
<1>4. CASE Call(t)
    <2>1. UNCHANGED <<pool, made, using>> /\ ~closed
        BY <1>4, StepPool
    <2>2. pool = 0 => \A u \in Tasks : pc[u] # "connect"
        BY <1>2, <1>4, StepPool
    <2>3. PICK use \in Uses[t] : Begin(t, use[1], use[2])
        BY <1>4 DEF Call
    <2>4. use[1] \in Operations \ {"none"}
        BY DEF Operations
    <2>5. pc'[t] = Pooled(use[1])
        BY <2>3, GoesPlace DEF Begin
    <2>6. pc'[t] = "connect" => pool = 0
        BY <2>4, <2>5, BeginningHoldsNone
    <2>7. QED
        BY <1>0, <1>1, <1>3, <2>1, <2>2, <2>6 DEF LonePool
<1>5. CASE ~Call(t)
    <2>1. Takes(t) \/ Gives(t) \/ HasNone(t)
        BY StepConnections
    <2>2. pc'[t] # "connect"
        BY <1>5, <2>1 DEF Takes, Gives, HasNone, Holding
    <2>3. CASE Takes(t)
        <3>1. closer # "done"
            BY <1>3, <2>3 DEF LonePool, CloseInv, Takes, HeldTypes, HeldOf
        <3>2. UNCHANGED <<pool, made>>
            BY <2>3 DEF Takes
        <3>3. QED
            BY <1>0, <1>1, <1>3, <2>2, <3>1, <3>2 DEF LonePool
    <2>4. CASE Gives(t)
        <3>1. /\ UNCHANGED <<pool, made>>
              /\ \A u \in Tasks : using[u] = 0 => using'[u] = 0
            BY <2>4 DEF Gives, HeldTypes
        <3>2. QED
            BY <1>0, <1>1, <1>3, <2>2, <3>1 DEF LonePool
    <2>5. CASE HasNone(t) /\ UNCHANGED <<pool, made>>
        BY <1>0, <1>1, <1>3, <2>2, <2>5 DEF LonePool, HasNone
    <2>6. CASE HasNone(t) /\ pc[t] = "connect" /\ made' = made + 1
        <3>1. pool = 0 /\ ~closed /\ made = 0 /\ \A u \in Tasks \ {t} : pc[u] # "connect"
            BY <1>3, <2>6 DEF LonePool, HeldTypes
        <3>2. made' = 1 /\ using' = using
            BY <2>6, <3>1 DEF HasNone
        <3>3. QED
            BY <1>0, <1>1, <1>3, <2>2, <3>1, <3>2 DEF LonePool
    <2>7. QED
        BY <2>1, <2>3, <2>4, <2>5, <2>6 DEF HasNone
<1>6. QED
    BY <1>4, <1>5

-----------------------------------------------------------------------------
(* Rows.  The types first: the oldest of the visible rows is one of them.  *)
LEMMA Least ==
    ASSUME NEW S \in SUBSET Nat, S # {}
    PROVE  \E i \in S : \A j \in S : i <= j
<1> DEFINE R == {ss \in Nat \X Nat : ss[1] < ss[2]}
<1>1. IsWellFoundedOn(R, Nat)
    BY NatLessThanWellFounded DEF OpToRel
<1>2. PICK i \in S : \A j \in S : ~(<<j, i>> \in R)
    BY <1>1, WFMin
<1>3. ASSUME NEW j \in S PROVE i <= j
    <2>1. <<j, i>> \in Nat \X Nat /\ <<j, i>>[1] = j /\ <<j, i>>[2] = i
        OBVIOUS
    <2>2. ~(j < i)
        BY <1>2, <2>1
    <2>3. QED
        BY <2>2
<1>4. QED
    BY <1>3

LEMMA AppendElements ==
    ASSUME NEW S, NEW q \in Seq(S), NEW e \in S
    PROVE  /\ Append(q, e) \in Seq(S) /\ Len(Append(q, e)) = Len(q) + 1 /\ Len(q) \in Nat
           /\ DOMAIN Append(q, e) = 1 .. Len(q) + 1 /\ DOMAIN q = 1 .. Len(q)
           /\ Append(q, e)[Len(q) + 1] = e
           /\ \A i \in 1 .. Len(q) : Append(q, e)[i] = q[i] /\ q[i] \in S
OBVIOUS

RowTypes ==
    /\ sentTo \in Seq(Channels) /\ sentBy \in Seq(Tasks \cup {NoTask})
    /\ Len(sentBy) = Len(sentTo)
    /\ stored \subseteq Nat /\ stale \subseteq stored /\ lost \subseteq Nat
    /\ got \in [Tasks -> Seq(Nat)] /\ mine \in [Tasks -> Nat]

LEMMA OldestVisible ==
    ASSUME RowTypes, NEW c, Visible(c) # {}
    PROVE  /\ Oldest(c) \in Visible(c) /\ Oldest(c) \in Nat /\ Oldest(c) \in stored \ stale
           /\ sentTo[Oldest(c)] = c
           /\ \A j \in Visible(c) : Oldest(c) <= j
<1>1. Visible(c) \in SUBSET Nat
    BY DEF Visible, RowTypes
<1>2. \E i \in Visible(c) : \A j \in Visible(c) : i <= j
    BY <1>1, Least
<1>3. Oldest(c) \in Visible(c) /\ \A j \in Visible(c) : Oldest(c) <= j
    BY <1>2 DEF Oldest
<1>4. QED
    BY <1>1, <1>3 DEF Visible

(* What a step may do to the rows.                                         *)
Mine(t, n) == mine' = [mine EXCEPT ![t] = n]
OnlyMoves(t) == \A u \in Tasks \ {t} : pc'[u] = pc[u]
Inserted(t) ==
    /\ pc[t] = "insert" /\ pc'[t] = "commit" /\ Mine(t, Len(sentTo) + 1)
    /\ sentTo' = Append(sentTo, chan[t]) /\ sentBy' = Append(sentBy, t)
    /\ UNCHANGED <<stored, stale, lost, got>>
Committed(t) ==
    /\ pc[t] = "commit" /\ pc'[t] \notin {"commit", "delete"} /\ Mine(t, 0)
    /\ stored' = stored \cup {mine[t]}
    /\ UNCHANGED <<sentTo, sentBy, stale, lost, got>>
RolledBack(t) ==
    /\ pc[t] = "commit" /\ pc'[t] \notin {"commit", "delete"} /\ Mine(t, 0)
    /\ lost' = lost \cup {mine[t]}
    /\ UNCHANGED <<sentTo, sentBy, stored, stale, got>>
Selected(t) ==
    /\ pc[t] # "commit" /\ pc'[t] = "delete" /\ Mine(t, Oldest(chan[t])) /\ Visible(chan[t]) # {}
    /\ UNCHANGED rowVars
Taken(t) ==
    /\ pc[t] = "delete" /\ pc'[t] \notin {"commit", "delete"} /\ Mine(t, 0) /\ mine[t] \in stored
    /\ stored' = stored \ {mine[t]} /\ stale' = stale \ {mine[t]}
    /\ got' = [got EXCEPT ![t] = Append(got[t], mine[t])]
    /\ UNCHANGED <<sentTo, sentBy, lost>>
TakenInVain(t) ==
    /\ pc[t] = "delete" /\ pc'[t] \notin {"commit", "delete"} /\ Mine(t, 0) /\ mine[t] \in stored
    /\ stored' = stored \ {mine[t]} /\ stale' = stale \ {mine[t]}
    /\ lost' = lost \cup {mine[t]}
    /\ UNCHANGED <<sentTo, sentBy, got>>
RowsPruned(t) ==
    /\ pc[t] # "commit" /\ pc'[t] \notin {"commit", "delete"} /\ mine' = mine
    /\ stored' = stored \ stale /\ stale' = {} /\ lost' = lost \cup stale
    /\ UNCHANGED <<sentTo, sentBy, got>>
RowsStay(t) ==
    /\ pc[t] # "commit" /\ pc'[t] \notin {"commit", "delete"}
    /\ mine' = mine \/ Mine(t, 0)
    /\ UNCHANGED rowVars
RowMoves(t) ==
    \/ Inserted(t) \/ Committed(t) \/ RolledBack(t) \/ Selected(t) \/ Taken(t)
    \/ TakenInVain(t) \/ RowsPruned(t) \/ RowsStay(t)

LEMMA BeginningNoRow ==
    ASSUME NEW o \in Operations \ {"none"}
    PROVE  /\ First(o) \notin {"commit", "delete"} /\ Pruned(o) \notin {"commit", "delete"}
           /\ Ready(o) \notin {"commit", "delete"} /\ Pooled(o) \notin {"commit", "delete"}
BY BeginningHoldsNone DEF Holding

LEMMA StepRows ==
    ASSUME PlaceTypes, Live \subseteq Channels, NEW t \in Tasks,
           Call(t) \/ Step(t) \/ Trouble(t)
    PROVE  RowMoves(t) /\ OnlyMoves(t)
<1>15. OnlyMoves(t)
    BY OthersStay DEF OnlyMoves
<1> SUFFICES RowMoves(t)
    BY <1>15
<1>0. OpPlaces(t) /\ op[t] \in Operations
    BY DEF PlaceTypes
<1>1. \A place : Goes(t, place) => pc'[t] = place
    BY GoesPlace
<1>2. Returns(t) => pc'[t] = "idle"
    BY <1>1 DEF Returns
<1>3. ASSUME pc[t] # "idle"
      PROVE  /\ First(op[t]) \notin {"commit", "delete"} /\ Pruned(op[t]) \notin {"commit", "delete"}
             /\ Ready(op[t]) \notin {"commit", "delete"}
    BY <1>0, <1>3, BeginningNoRow DEF OpPlaces
<1>4. CASE Insert(t)
    BY <1>1, <1>4 DEF Insert, At, Inserted, Mine, RowMoves
<1>5. CASE Commit(t)
    BY <1>1, <1>5 DEF Commit, At, Committed, Mine, RowMoves
<1>6. CASE Select(t)
    BY <1>1, <1>6 DEF Select, At, Selected, Mine, RowMoves
<1>7. CASE Delete(t)
    BY <1>2, <1>7 DEF Delete, StillThere, Taken, Mine, RowMoves
<1>8. CASE PruneRows(t)
    BY <1>1, <1>8 DEF PruneRows, At, RowsPruned, RowMoves
<1>9. CASE Raises(t) /\ (Refused(t) \/ Fails(t) \/ InsertUnanswered(t) \/ DeleteUnanswered(t))
    <2>1. pc'[t] = "idle" /\ Mine(t, 0) /\ UNCHANGED <<sentTo, sentBy, got>>
        BY <1>2, <1>9 DEF Raises, Mine
    <2>2. CASE Refused(t)
        BY <2>1, <2>2 DEF Refused, NoConnection, NoTable, NeedsConnection, UsesTables, Pruning,
           RowsStay, RowMoves
    <2>3. CASE Fails(t)
        BY <2>1, <2>3 DEF Fails, RowsStay, RolledBack, RowMoves
    <2>4. CASE InsertUnanswered(t)
        BY <2>1, <2>4 DEF InsertUnanswered, Committed, RowMoves
    <2>5. CASE DeleteUnanswered(t)
        BY <2>1, <2>5 DEF DeleteUnanswered, TakenInVain, RowMoves
    <2>6. QED
        BY <1>9, <2>2, <2>3, <2>4, <2>5
<1>10. CASE Connect(t) \/ CreateSchema(t) \/ Lock(t) \/ PruneMembers(t)
    BY <1>1, <1>3, <1>10 DEF Connect, CreateSchema, Lock, PruneMembers, At, RowsStay, RowMoves
<1>11. CASE SelectNothing(t) \/ DeleteNothing(t)
    BY <1>1, <1>2, <1>11 DEF SelectNothing, DeleteNothing, NoRow, RowsStay, Mine, RowMoves
<1>12. CASE Listen(t) \/ Wakes(t) \/ PollRaises(t) \/ Join(t) \/ Leave(t)
    BY <1>1, <1>2, <1>12 DEF Listen, At, Wakes, PollRaises, StopsListening, Join, Leave, RowsStay,
       RowMoves
<1>13. CASE Notify(t) \/ FetchMembers(t)
    <2>1. /\ pc[t] \in {"notify", "members"} /\ UNCHANGED <<rowVars, mine>>
          /\ Returns(t) \/ Goes(t, Pruned("fanout"))
        BY <1>13 DEF Notify, FetchMembers, SendNext
    <2>2. Pruned("fanout") \notin {"commit", "delete"}
        BY BeginningNoRow DEF Operations
    <2>3. QED
        BY <1>1, <1>2, <2>1, <2>2 DEF RowsStay, RowMoves
<1>14. CASE Call(t)
    <2>1. PICK use \in Uses[t] : Begin(t, use[1], use[2])
        BY <1>14 DEF Call
    <2>2. use[1] \in Operations \ {"none"}
        BY DEF Operations
    <2>3. pc'[t] = Pooled(use[1]) /\ pc[t] = "idle" /\ UNCHANGED <<rowVars, mine>>
        BY <1>1, <2>1 DEF Begin
    <2>4. QED
        BY <2>2, <2>3, BeginningNoRow DEF RowsStay, RowMoves
<1>16. QED
    BY <1>4, <1>5, <1>6, <1>7, <1>8, <1>9, <1>10, <1>11, <1>12, <1>13, <1>14
       DEF Step, Trouble, Refused, Fails, InsertUnanswered, DeleteUnanswered, Fault

LEMMA RowTypesKept ==
    ASSUME PlaceTypes, RowTypes, NEW t \in Tasks, RowMoves(t)
    PROVE  RowTypes'
<1>0. chan[t] \in Channels /\ mine[t] \in Nat /\ mine \in [Tasks -> Nat]
    BY DEF PlaceTypes, RowTypes
<1> DEFINE m0 == [mine EXCEPT ![t] = 0]
<1>8. m0 \in [Tasks -> Nat]
    BY <1>0
<1> HIDE DEF m0
<1>1. CASE Inserted(t)
    <2>1. /\ sentTo' \in Seq(Channels) /\ sentBy' \in Seq(Tasks \cup {NoTask})
          /\ Len(sentTo') = Len(sentTo) + 1 /\ Len(sentBy') = Len(sentBy) + 1
          /\ Len(sentTo) \in Nat
        BY <1>0, <1>1, AppendElements DEF Inserted, RowTypes
    <2>2. QED
        BY <1>1, <2>1 DEF Inserted, Mine, RowTypes
<1>2. CASE Committed(t) \/ RolledBack(t)
    <2>1. mine' = m0
        BY <1>2 DEF Committed, RolledBack, Mine, m0
    <2>2. QED
        BY <1>0, <1>2, <1>8, <2>1 DEF Committed, RolledBack, RowTypes
<1>3. CASE Selected(t)
    BY <1>3, OldestVisible DEF Selected, Mine, RowTypes
<1>4. CASE Taken(t)
    <2>1. Append(got[t], mine[t]) \in Seq(Nat)
        BY AppendElements DEF RowTypes
    <2>2. QED
        BY <1>4, <2>1 DEF Taken, Mine, RowTypes
<1>5. CASE TakenInVain(t)
    BY <1>5 DEF TakenInVain, Mine, RowTypes
<1>6. CASE RowsPruned(t) \/ RowsStay(t)
    <2>1. mine' = mine \/ mine' = m0
        BY <1>6 DEF RowsPruned, RowsStay, Mine, m0
    <2>2. QED
        BY <1>0, <1>6, <1>8, <2>1 DEF RowsPruned, RowsStay, RowTypes
<1>7. QED
    BY <1>1, <1>2, <1>3, <1>4, <1>5, <1>6 DEF RowMoves

(* Every row is in one place, and the row that a receiver has found is     *)
(* none that is being inserted.                                            *)
Scattered ==
    /\ \A n \in Nat : n \in Rows <=>
           \/ n \in stored \/ n \in lost
           \/ \E t \in Tasks : (pc[t] = "commit" /\ mine[t] = n) \/ n \in Returned(t)
    /\ \A t \in Tasks : pc[t] = "commit" =>
           mine[t] \notin stored /\ mine[t] \notin lost /\ \A u \in Tasks : mine[t] \notin Returned(u)
    /\ \A t, u \in Tasks : pc[t] = "commit" /\ pc[u] = "commit" /\ t # u => mine[t] # mine[u]
    /\ \A n \in stored : n \notin lost /\ \A u \in Tasks : n \notin Returned(u)
    /\ \A t \in Tasks : \A n \in Returned(t) : n \in Nat /\ n \notin lost
    /\ \A t, u \in Tasks : t # u => \A n \in Returned(t) : n \notin Returned(u)
FoundRows ==
    \A t \in Tasks : pc[t] = "delete" =>
        mine[t] \in Rows /\ \A u \in Tasks : pc[u] = "commit" => mine[u] # mine[t]

(* What a receiver has found or been returned is older than what is still  *)
(* to be found of that sender and channel.                                 *)
OlderThanStored(i) == \A k \in stored \ stale : Alike(i, k) /\ k # i => i < k
InOrder ==
    /\ \A t \in Tasks : pc[t] = "commit" =>
           sentBy[mine[t]] = t /\ \A i \in Rows : sentBy[i] = t => i <= mine[t]
    /\ \A t \in Tasks : \A i \in Returned(t) : OlderThanStored(i)
    /\ \A t \in Tasks : pc[t] = "delete" =>
           OlderThanStored(mine[t]) /\ \A i \in Returned(t) : Alike(i, mine[t]) => i < mine[t]
    /\ SendersInOrder
RowInv == RowTypes /\ Scattered /\ FoundRows /\ InOrder

LEMMA ScatteredIsOnePlace ==
    Scattered /\ RowTypes => ExactlyOnePlace
<1> SUFFICES ASSUME Scattered, RowTypes PROVE ExactlyOnePlace
    OBVIOUS
<1>1. \A n : n \in ReturnedTo <=> \E t \in Tasks : n \in Returned(t)
    BY DEF ReturnedTo
<1>2. \A n : n \in Inserting <=> \E t \in Tasks : pc[t] = "commit" /\ mine[t] = n
    BY DEF Inserting
<1>3. /\ \A n \in stored \cup lost : n \in Nat
      /\ \A n \in Rows : n \in Nat
      /\ \A n \in ReturnedTo : n \in Nat
      /\ \A n \in Inserting : n \in Nat
    <2>1. \A t \in Tasks : mine[t] \in Nat
        BY DEF RowTypes
    <2>2. \A n \in Rows : n \in Nat
        BY DEF Rows
    <2>3. QED
        BY <1>1, <1>2, <2>1, <2>2 DEF Scattered, RowTypes
<1>4. Rows = Inserting \cup stored \cup ReturnedTo \cup lost
    BY <1>1, <1>2, <1>3 DEF Scattered
<1>5. /\ Inserting \cap (stored \cup ReturnedTo \cup lost) = {}
      /\ stored \cap (ReturnedTo \cup lost) = {}
      /\ ReturnedTo \cap lost = {}
    BY <1>1, <1>2 DEF Scattered
<1>6. \A t, u \in Tasks : t # u => Returned(t) \cap Returned(u) = {}
    BY DEF Scattered
<1>7. QED
    BY <1>4, <1>5, <1>6 DEF ExactlyOnePlace

(* All rows there are have been inserted.                                  *)
LEMMA InRows ==
    ASSUME RowTypes, Scattered
    PROVE  /\ \A n \in stored : n \in Rows
           /\ \A n \in lost : n \in Rows
           /\ \A t \in Tasks : /\ pc[t] = "commit" => mine[t] \in Rows
                               /\ \A n \in Returned(t) : n \in Rows
BY DEF RowTypes, Scattered

LEMMA MineMoves ==
    ASSUME RowTypes, NEW t \in Tasks, NEW n, Mine(t, n), OnlyMoves(t)
    PROVE  /\ mine'[t] = n
           /\ \A u \in Tasks \ {t} : mine'[u] = mine[u] /\ pc'[u] = pc[u]
BY DEF RowTypes, Mine, OnlyMoves

LEMMA ReturnedSame ==
    ASSUME UNCHANGED got
    PROVE  \A t \in Tasks : Returned(t)' = Returned(t)
BY DEF Returned

(* A row is inserted.                                                      *)
LEMMA InsertedRows ==
    ASSUME RowTypes, NEW t \in Tasks, Inserted(t), chan[t] \in Channels
    PROVE  LET e == Len(sentTo) + 1 IN
           /\ e \in Nat /\ e \notin Rows /\ \A i \in Rows : i < e /\ i \in Nat
           /\ \A n : n \in Rows' <=> n \in Rows \/ n = e
           /\ sentBy'[e] = t
           /\ \A i \in Rows : sentBy'[i] = sentBy[i] /\ sentTo'[i] = sentTo[i]
<1>1. /\ sentTo' = Append(sentTo, chan[t]) /\ sentBy' = Append(sentBy, t)
      /\ sentTo \in Seq(Channels) /\ sentBy \in Seq(Tasks \cup {NoTask})
      /\ Len(sentBy) = Len(sentTo)
    BY DEF Inserted, RowTypes
<1>2. /\ Len(sentTo') = Len(sentTo) + 1 /\ Len(sentTo) \in Nat
      /\ \A i \in 1 .. Len(sentTo) : sentTo'[i] = sentTo[i]
    BY <1>1, AppendElements
<1>3. /\ \A i \in 1 .. Len(sentTo) : sentBy'[i] = sentBy[i]
      /\ sentBy'[Len(sentTo) + 1] = t
    BY <1>1, AppendElements
<1>4. QED
    BY <1>2, <1>3 DEF Rows

LEMMA InsertedKept ==
    ASSUME RowInv, NEW t \in Tasks, Inserted(t), OnlyMoves(t), chan[t] \in Channels
    PROVE  (Scattered /\ FoundRows /\ InOrder)'
<1> DEFINE e == Len(sentTo) + 1
<1>1. /\ e \in Nat /\ e \notin Rows /\ \A i \in Rows : i < e /\ i \in Nat
      /\ \A n : n \in Rows' <=> n \in Rows \/ n = e
      /\ sentBy'[e] = t
      /\ \A i \in Rows : sentBy'[i] = sentBy[i] /\ sentTo'[i] = sentTo[i]
    BY InsertedRows DEF RowInv
<1>2. /\ mine'[t] = e /\ pc'[t] = "commit" /\ pc[t] = "insert"
      /\ \A u \in Tasks \ {t} : mine'[u] = mine[u] /\ pc'[u] = pc[u]
    BY MineMoves DEF RowInv, Inserted
<1>3. /\ UNCHANGED <<stored, stale, lost, got>> /\ \A u \in Tasks : Returned(u)' = Returned(u)
    BY ReturnedSame DEF Inserted
<1> HIDE DEF e
<1>4. /\ \A n \in stored : n \in Rows
      /\ \A n \in lost : n \in Rows
      /\ \A u \in Tasks : /\ pc[u] = "commit" => mine[u] \in Rows
                          /\ \A n \in Returned(u) : n \in Rows
    BY InRows DEF RowInv
<1>5. Scattered'
    <2>1. ASSUME NEW n \in Nat
          PROVE  n \in Rows' <=>
                     \/ n \in stored' \/ n \in lost'
                     \/ \E u \in Tasks : (pc'[u] = "commit" /\ mine'[u] = n) \/ n \in Returned(u)'
        <3>1. (\E u \in Tasks : (pc'[u] = "commit" /\ mine'[u] = n) \/ n \in Returned(u)')
              <=> n = e \/ \E u \in Tasks : (pc[u] = "commit" /\ mine[u] = n) \/ n \in Returned(u)
            BY <1>2, <1>3
        <3>2. QED
            BY <1>1, <1>3, <3>1 DEF RowInv, Scattered
    <2>2. QED
        BY <1>1, <1>2, <1>3, <1>4, <2>1 DEF RowInv, Scattered
<1>6. FoundRows'
    BY <1>1, <1>2 DEF RowInv, FoundRows
<1>7. \A i, j \in Rows : Alike(i, j)' <=> Alike(i, j)
    BY <1>1 DEF Alike
<1>8. \A i \in Rows : OlderThanStored(i) => OlderThanStored(i)'
    BY <1>3, <1>4, <1>7 DEF OlderThanStored
<1>9. SendersInOrder'
    <2>1. \A u \in Tasks : \A i \in DOMAIN got[u] : got[u][i] \in Rows
        BY <1>4 DEF Returned
    <2>2. QED
        BY <1>3, <1>7, <2>1 DEF RowInv, InOrder, SendersInOrder
<1>10. \A u \in Tasks : pc'[u] = "commit" =>
           sentBy'[mine'[u]] = u /\ \A i \in Rows' : sentBy'[i] = u => i <= mine'[u]
    BY <1>1, <1>2, <1>4 DEF RowInv, InOrder
<1>11. \A u \in Tasks : pc'[u] = "delete" =>
           OlderThanStored(mine[u])' /\ \A i \in Returned(u)' : Alike(i, mine[u])' => i < mine'[u]
    <2>1. ASSUME NEW u \in Tasks, pc'[u] = "delete"
          PROVE  OlderThanStored(mine[u])'
                 /\ \A i \in Returned(u)' : Alike(i, mine[u])' => i < mine'[u]
        <3>1. pc[u] = "delete" /\ mine'[u] = mine[u] /\ mine[u] \in Rows
            BY <1>2, <2>1 DEF RowInv, FoundRows
        <3>2. OlderThanStored(mine[u]) /\ \A i \in Returned(u) : Alike(i, mine[u]) => i < mine[u]
            BY <3>1 DEF RowInv, InOrder
        <3>3. OlderThanStored(mine[u])'
            BY <1>3, <1>4, <1>7, <3>1, <3>2 DEF OlderThanStored
        <3>4. \A i \in Returned(u)' : Alike(i, mine[u])' => i < mine'[u]
            BY <1>3, <1>4, <1>7, <3>1, <3>2
        <3>5. QED
            BY <3>3, <3>4
    <2>2. QED
        BY <2>1
<1>12. InOrder'
    BY <1>3, <1>4, <1>8, <1>9, <1>10, <1>11 DEF RowInv, InOrder
<1>13. QED
    BY <1>5, <1>6, <1>12

(* A row goes from its inserting task to the table, or it is rolled back.  *)
LEMMA CommittedKept ==
    ASSUME RowInv, NEW t \in Tasks, Committed(t) \/ RolledBack(t), OnlyMoves(t)
    PROVE  (Scattered /\ FoundRows /\ InOrder)'
<1> DEFINE e == mine[t]
<1>1. /\ pc[t] = "commit" /\ pc'[t] \notin {"commit", "delete"} /\ e \in Nat
      /\ \A u \in Tasks \ {t} : mine'[u] = mine[u] /\ pc'[u] = pc[u]
    BY MineMoves DEF RowInv, RowTypes, Committed, RolledBack
<1>2. /\ UNCHANGED <<sentTo, sentBy, stale, got>>
      /\ \/ stored' = stored \cup {e} /\ lost' = lost
         \/ stored' = stored /\ lost' = lost \cup {e}
    BY DEF Committed, RolledBack
<1>3. /\ \A u \in Tasks : Returned(u)' = Returned(u)
      /\ Rows' = Rows /\ \A i, j : Alike(i, j)' <=> Alike(i, j)
    BY <1>2, ReturnedSame DEF Rows, Alike
<1>4. /\ e \notin stored /\ e \notin lost /\ \A u \in Tasks : e \notin Returned(u)
      /\ \A u \in Tasks \ {t} : pc[u] = "commit" => mine[u] # e
    BY <1>1 DEF RowInv, Scattered
<1>5. e = mine[t]
    OBVIOUS
<1> HIDE DEF e
<1>6. Scattered'
    <2>1. ASSUME NEW n \in Nat
          PROVE  n \in Rows' <=>
                     \/ n \in stored' \/ n \in lost'
                     \/ \E u \in Tasks : (pc'[u] = "commit" /\ mine'[u] = n) \/ n \in Returned(u)'
        <3>1. (\E u \in Tasks : (pc[u] = "commit" /\ mine[u] = n) \/ n \in Returned(u))
              <=> n = e \/ (\E u \in Tasks : (pc'[u] = "commit" /\ mine'[u] = n) \/ n \in Returned(u)')
            BY <1>1, <1>3, <1>5
        <3>2. QED
            BY <1>2, <1>3, <3>1 DEF RowInv, Scattered
    <2>2. QED
        BY <1>1, <1>2, <1>3, <1>4, <2>1 DEF RowInv, Scattered
<1>7. FoundRows'
    BY <1>1, <1>3 DEF RowInv, FoundRows
<1>8. \A i \in Rows : sentBy[i] = t /\ i # e => i < e
    BY <1>1, <1>5 DEF RowInv, InOrder, Rows
<1>9. sentBy[e] = t
    BY <1>1, <1>5 DEF RowInv, InOrder
<1>10. ASSUME NEW i \in Rows, i # e, OlderThanStored(i) PROVE OlderThanStored(i)'
    BY <1>2, <1>3, <1>8, <1>9, <1>10 DEF OlderThanStored, Alike
<1>11. \A u \in Tasks : \A i \in Returned(u) : i \in Rows
    BY InRows DEF RowInv
<1>12. \A u \in Tasks : pc[u] = "delete" => mine[u] \in Rows /\ mine[u] # e
    BY <1>1, <1>5 DEF RowInv, FoundRows
<1>13. SendersInOrder'
    BY <1>2, <1>3 DEF RowInv, InOrder, SendersInOrder
<1>14. \A u \in Tasks : \A i \in Returned(u)' : OlderThanStored(i)'
    BY <1>3, <1>4, <1>10, <1>11 DEF RowInv, InOrder
<1>15. ASSUME NEW u \in Tasks, pc'[u] = "delete"
       PROVE  OlderThanStored(mine[u])' /\ \A i \in Returned(u)' : Alike(i, mine[u])' => i < mine'[u]
    <2>1. pc[u] = "delete" /\ mine'[u] = mine[u] /\ mine[u] \in Rows /\ mine[u] # e
        BY <1>1, <1>12, <1>15
    <2>2. OlderThanStored(mine[u]) /\ \A i \in Returned(u) : Alike(i, mine[u]) => i < mine[u]
        BY <2>1 DEF RowInv, InOrder
    <2>3. OlderThanStored(mine[u])'
        BY <1>2, <1>3, <1>8, <1>9, <2>1, <2>2 DEF OlderThanStored, Alike
    <2>4. QED
        BY <1>3, <2>1, <2>2, <2>3
<1>16. InOrder'
    BY <1>1, <1>2, <1>3, <1>13, <1>14, <1>15 DEF RowInv, InOrder
<1>17. QED
    BY <1>6, <1>7, <1>16

(* A receiver finds the oldest of the visible rows.                        *)
LEMMA SelectedKept ==
    ASSUME RowInv, NEW t \in Tasks, Selected(t), OnlyMoves(t)
    PROVE  (Scattered /\ FoundRows /\ InOrder)'
<1> DEFINE e == Oldest(chan[t])
<1>1. /\ pc[t] # "commit" /\ pc'[t] = "delete" /\ mine'[t] = e
      /\ \A u \in Tasks \ {t} : mine'[u] = mine[u] /\ pc'[u] = pc[u]
    BY MineMoves DEF RowInv, Selected
<1>2. /\ e \in Nat /\ e \in stored /\ e \notin stale /\ sentTo[e] = chan[t]
      /\ \A j \in Visible(chan[t]) : e <= j
    BY OldestVisible DEF RowInv, Selected
<1> HIDE DEF e
<1>3. UNCHANGED rowVars
    BY DEF Selected
<1>4. /\ \A u \in Tasks : Returned(u)' = Returned(u)
      /\ Rows' = Rows /\ \A i, j : Alike(i, j)' <=> Alike(i, j)
    BY <1>3, ReturnedSame DEF Rows, Alike
<1>5. \A i : OlderThanStored(i)' <=> OlderThanStored(i)
    BY <1>3, <1>4 DEF OlderThanStored
<1>6. Scattered'
    <2>1. ASSUME NEW n \in Nat
          PROVE  n \in Rows' <=>
                     \/ n \in stored' \/ n \in lost'
                     \/ \E u \in Tasks : (pc'[u] = "commit" /\ mine'[u] = n) \/ n \in Returned(u)'
        <3>1. (\E u \in Tasks : (pc[u] = "commit" /\ mine[u] = n) \/ n \in Returned(u))
              <=> (\E u \in Tasks : (pc'[u] = "commit" /\ mine'[u] = n) \/ n \in Returned(u)')
            BY <1>1, <1>4
        <3>2. QED
            BY <1>3, <1>4, <3>1 DEF RowInv, Scattered
    <2>2. QED
        BY <1>1, <1>3, <1>4, <2>1 DEF RowInv, Scattered
<1>7. e \in Rows /\ \A u \in Tasks : pc[u] = "commit" => mine[u] # e
    BY <1>2, InRows DEF RowInv, Scattered
<1>8. FoundRows'
    BY <1>1, <1>4, <1>7 DEF RowInv, FoundRows
<1>9. OlderThanStored(e)
    <2>1. ASSUME NEW k \in stored \ stale, Alike(e, k), k # e PROVE e < k
        <3>1. k \in Visible(chan[t]) /\ k \in Nat
            BY <1>2, <2>1 DEF Visible, Alike, RowInv, RowTypes
        <3>2. QED
            BY <1>2, <2>1, <3>1
    <2>2. QED
        BY <2>1 DEF OlderThanStored
<1>10. \A i \in Returned(t) : Alike(i, e) => i < e
    <2>1. \A i \in Returned(t) : OlderThanStored(i) /\ i # e
        BY <1>2 DEF RowInv, InOrder, Scattered
    <2>2. QED
        BY <1>2, <2>1 DEF OlderThanStored
<1>11. ASSUME NEW u \in Tasks, pc'[u] = "delete"
       PROVE  OlderThanStored(mine[u])' /\ \A i \in Returned(u)' : Alike(i, mine[u])' => i < mine'[u]
    <2>1. CASE u = t
        BY <1>1, <1>4, <1>5, <1>9, <1>10, <2>1
    <2>2. CASE u # t
        BY <1>1, <1>4, <1>5, <1>11, <2>2 DEF RowInv, InOrder
    <2>3. QED
        BY <2>1, <2>2
<1>12. SendersInOrder'
    BY <1>3, <1>4 DEF RowInv, InOrder, SendersInOrder
<1>13. \A u \in Tasks : pc'[u] = "commit" =>
           sentBy'[mine'[u]] = u /\ \A i \in Rows' : sentBy'[i] = u => i <= mine'[u]
    BY <1>1, <1>3, <1>4 DEF RowInv, InOrder
<1>14. InOrder'
    BY <1>4, <1>5, <1>11, <1>12, <1>13 DEF RowInv, InOrder
<1>15. QED
    BY <1>6, <1>8, <1>14

(* A row leaves the table without being returned, or becomes invisible.    *)
RowsVanish(gone) ==
    /\ stored' = stored \ gone /\ lost' = lost \cup gone /\ gone \subseteq stored
    /\ stored' \ stale' \subseteq stored \ stale
    /\ UNCHANGED <<sentTo, sentBy, got>>
    /\ \A u \in Tasks : /\ pc[u] = "commit" <=> pc'[u] = "commit"
                        /\ pc'[u] = "delete" => pc[u] = "delete"
                        /\ pc'[u] \in {"commit", "delete"} => mine'[u] = mine[u]

LEMMA VanishKept ==
    ASSUME RowInv, NEW gone, RowsVanish(gone)
    PROVE  (Scattered /\ FoundRows /\ InOrder)'
<1>1. /\ stored' = stored \ gone /\ lost' = lost \cup gone /\ gone \subseteq stored
      /\ stored' \ stale' \subseteq stored \ stale
      /\ UNCHANGED <<sentTo, sentBy, got>>
    BY DEF RowsVanish
<1>2. \A u \in Tasks : /\ pc[u] = "commit" <=> pc'[u] = "commit"
                       /\ pc'[u] = "delete" => pc[u] = "delete"
                       /\ pc'[u] \in {"commit", "delete"} => mine'[u] = mine[u]
    BY DEF RowsVanish
<1>3. /\ \A u \in Tasks : Returned(u)' = Returned(u)
      /\ Rows' = Rows /\ \A i, j : Alike(i, j)' <=> Alike(i, j)
    BY <1>1, ReturnedSame DEF Rows, Alike
<1>4. \A i : OlderThanStored(i) => OlderThanStored(i)'
    BY <1>1, <1>3 DEF OlderThanStored
<1>5. Scattered'
    <2>1. ASSUME NEW n \in Nat
          PROVE  n \in Rows' <=>
                     \/ n \in stored' \/ n \in lost'
                     \/ \E u \in Tasks : (pc'[u] = "commit" /\ mine'[u] = n) \/ n \in Returned(u)'
        <3>1. (\E u \in Tasks : (pc[u] = "commit" /\ mine[u] = n) \/ n \in Returned(u))
              <=> (\E u \in Tasks : (pc'[u] = "commit" /\ mine'[u] = n) \/ n \in Returned(u)')
            BY <1>2, <1>3
        <3>2. QED
            BY <1>1, <1>3, <3>1 DEF RowInv, Scattered
    <2>2. QED
        BY <1>1, <1>2, <1>3, <2>1 DEF RowInv, Scattered
<1>6. FoundRows'
    BY <1>2, <1>3 DEF RowInv, FoundRows
<1>7. ASSUME NEW u \in Tasks, pc'[u] = "delete"
      PROVE  OlderThanStored(mine[u])' /\ \A i \in Returned(u)' : Alike(i, mine[u])' => i < mine'[u]
    BY <1>2, <1>3, <1>4, <1>7 DEF RowInv, InOrder
<1>8. SendersInOrder'
    BY <1>1, <1>3 DEF RowInv, InOrder, SendersInOrder
<1>9. \A u \in Tasks : pc'[u] = "commit" =>
          sentBy'[mine'[u]] = u /\ \A i \in Rows' : sentBy'[i] = u => i <= mine'[u]
    BY <1>1, <1>2, <1>3 DEF RowInv, InOrder
<1>10. InOrder'
    BY <1>3, <1>4, <1>7, <1>8, <1>9 DEF RowInv, InOrder
<1>11. QED
    BY <1>5, <1>6, <1>10

LEMMA RowsLeave ==
    ASSUME RowInv, NEW t \in Tasks, TakenInVain(t) \/ RowsPruned(t) \/ RowsStay(t), OnlyMoves(t)
    PROVE  (Scattered /\ FoundRows /\ InOrder)'
<1>0. stale \subseteq stored /\ mine \in [Tasks -> Nat]
    BY DEF RowInv, RowTypes
<1>1. CASE TakenInVain(t)
    <2>1. RowsVanish({mine[t]})
        BY <1>1, MineMoves DEF TakenInVain, RowsVanish, RowInv
    <2>2. QED
        BY <2>1, VanishKept
<1>2. CASE RowsPruned(t)
    <2>1. RowsVanish(stale)
        BY <1>0, <1>2 DEF RowsPruned, RowsVanish, OnlyMoves
    <2>2. QED
        BY <2>1, VanishKept
<1>3. CASE RowsStay(t)
    <2>1. \A u \in Tasks \ {t} : mine'[u] = mine[u] /\ pc'[u] = pc[u]
        BY <1>0, <1>3 DEF RowsStay, Mine, OnlyMoves
    <2>2. RowsVanish({})
        BY <1>3, <2>1 DEF RowsStay, RowsVanish
    <2>3. QED
        BY <2>2, VanishKept
<1>4. QED
    BY <1>1, <1>2, <1>3

(* What is appended to got[t] is what was returned to t.                   *)
LEMMA GotReturned ==
    ASSUME got \in [Tasks -> Seq(Nat)], NEW t \in Tasks, NEW e \in Nat,
           got' = [got EXCEPT ![t] = Append(got[t], e)]
    PROVE  /\ \A u \in Tasks \ {t} : got'[u] = got[u] /\ Returned(u)' = Returned(u)
           /\ \A n : n \in Returned(t)' <=> n \in Returned(t) \/ n = e
           /\ DOMAIN got'[t] = 1 .. Len(got[t]) + 1 /\ DOMAIN got[t] = 1 .. Len(got[t])
           /\ Len(got[t]) \in Nat /\ got'[t][Len(got[t]) + 1] = e
           /\ \A i \in 1 .. Len(got[t]) : got'[t][i] = got[t][i]
<1>1. /\ got'[t] = Append(got[t], e) /\ got[t] \in Seq(Nat)
      /\ \A u \in Tasks \ {t} : got'[u] = got[u]
    OBVIOUS
<1>2. /\ DOMAIN got'[t] = 1 .. Len(got[t]) + 1 /\ DOMAIN got[t] = 1 .. Len(got[t])
      /\ Len(got[t]) \in Nat /\ got'[t][Len(got[t]) + 1] = e
      /\ \A i \in 1 .. Len(got[t]) : got'[t][i] = got[t][i]
    BY <1>1, AppendElements
<1>3. /\ \A u \in Tasks \ {t} : Returned(u)' = Returned(u)
      /\ \A n : n \in Returned(t)' <=> n \in Returned(t) \/ n = e
    <2>1. \A u \in Tasks \ {t} : Returned(u)' = Returned(u)
        BY <1>1 DEF Returned
    <2>2. ASSUME NEW n PROVE n \in Returned(t)' <=> n \in Returned(t) \/ n = e
        <3>1. n \in Returned(t)' <=> \E i \in 1 .. Len(got[t]) + 1 : got'[t][i] = n
            BY <1>2 DEF Returned
        <3>2. n \in Returned(t) <=> \E i \in 1 .. Len(got[t]) : got[t][i] = n
            BY <1>2 DEF Returned
        <3>3. \A i : i \in 1 .. Len(got[t]) + 1 <=> i \in 1 .. Len(got[t]) \/ i = Len(got[t]) + 1
            BY <1>2
        <3>4. QED
            BY <1>2, <3>1, <3>2, <3>3
    <2>3. QED
        BY <2>1, <2>2
<1>4. QED
    BY <1>1, <1>2, <1>3

(* A receiver is returned the row it has found.                            *)
LEMMA TakenKept ==
    ASSUME RowInv, NEW t \in Tasks, Taken(t), OnlyMoves(t)
    PROVE  (Scattered /\ FoundRows /\ InOrder)'
<1> DEFINE e == mine[t]
<1>1. /\ pc[t] = "delete" /\ pc'[t] \notin {"commit", "delete"} /\ e \in Nat
      /\ \A u \in Tasks \ {t} : mine'[u] = mine[u] /\ pc'[u] = pc[u]
    BY MineMoves DEF RowInv, RowTypes, Taken
<1>2. /\ UNCHANGED <<sentTo, sentBy, lost>> /\ e \in stored
      /\ stored' = stored \ {e} /\ stored' \ stale' \subseteq stored \ stale
    BY DEF Taken
<1>3. got' = [got EXCEPT ![t] = Append(got[t], e)]
    BY DEF Taken
<1>4. OlderThanStored(e) /\ \A i \in Returned(t) : Alike(i, e) => i < e
    BY <1>1 DEF RowInv, InOrder
<1> HIDE DEF e
<1>5. /\ \A u \in Tasks \ {t} : got'[u] = got[u] /\ Returned(u)' = Returned(u)
      /\ \A n : n \in Returned(t)' <=> n \in Returned(t) \/ n = e
      /\ DOMAIN got'[t] = 1 .. Len(got[t]) + 1 /\ DOMAIN got[t] = 1 .. Len(got[t])
      /\ Len(got[t]) \in Nat /\ got'[t][Len(got[t]) + 1] = e
      /\ \A i \in 1 .. Len(got[t]) : got'[t][i] = got[t][i]
    BY <1>1, <1>3, GotReturned DEF RowInv, RowTypes
<1>6. Rows' = Rows /\ \A i, j : Alike(i, j)' <=> Alike(i, j)
    BY <1>2 DEF Rows, Alike
<1>7. \A i : OlderThanStored(i) => OlderThanStored(i)'
    BY <1>2, <1>6 DEF OlderThanStored
<1>8. e \notin lost /\ \A u \in Tasks : e \notin Returned(u)
    BY <1>2 DEF RowInv, Scattered
<1>9. Scattered'
    <2>1. ASSUME NEW n \in Nat
          PROVE  n \in Rows' <=>
                     \/ n \in stored' \/ n \in lost'
                     \/ \E u \in Tasks : (pc'[u] = "commit" /\ mine'[u] = n) \/ n \in Returned(u)'
        <3>1. (\E u \in Tasks : (pc'[u] = "commit" /\ mine'[u] = n) \/ n \in Returned(u)')
              <=> n = e \/ (\E u \in Tasks : (pc[u] = "commit" /\ mine[u] = n) \/ n \in Returned(u))
            BY <1>1, <1>5
        <3>2. QED
            BY <1>2, <1>6, <3>1 DEF RowInv, Scattered
    <2>2. \A u \in Tasks : pc'[u] = "commit" =>
              /\ mine'[u] \notin stored' /\ mine'[u] \notin lost'
              /\ \A v \in Tasks : mine'[u] \notin Returned(v)'
        BY <1>1, <1>2, <1>5 DEF RowInv, Scattered
    <2>3. \A n \in stored' : n \notin lost' /\ \A u \in Tasks : n \notin Returned(u)'
        BY <1>2, <1>5 DEF RowInv, Scattered
    <2>4. \A u \in Tasks : \A n \in Returned(u)' : n \in Nat /\ n \notin lost'
        BY <1>1, <1>2, <1>5, <1>8 DEF RowInv, Scattered
    <2>5. \A u, v \in Tasks : u # v => \A n \in Returned(u)' : n \notin Returned(v)'
        BY <1>5, <1>8 DEF RowInv, Scattered
    <2>6. \A u, v \in Tasks : pc'[u] = "commit" /\ pc'[v] = "commit" /\ u # v => mine'[u] # mine'[v]
        BY <1>1 DEF RowInv, Scattered
    <2>7. QED
        BY <2>1, <2>2, <2>3, <2>4, <2>5, <2>6 DEF Scattered
<1>10. FoundRows'
    BY <1>1, <1>6 DEF RowInv, FoundRows
<1>11. \A u \in Tasks : \A i \in Returned(u)' : OlderThanStored(i)'
    BY <1>4, <1>5, <1>7 DEF RowInv, InOrder
<1>12. ASSUME NEW u \in Tasks, pc'[u] = "delete"
       PROVE  OlderThanStored(mine[u])' /\ \A i \in Returned(u)' : Alike(i, mine[u])' => i < mine'[u]
    BY <1>1, <1>5, <1>6, <1>7, <1>12 DEF RowInv, InOrder
<1>13. \A u \in Tasks : pc'[u] = "commit" =>
           sentBy'[mine'[u]] = u /\ \A i \in Rows' : sentBy'[i] = u => i <= mine'[u]
    BY <1>1, <1>2, <1>6 DEF RowInv, InOrder
<1>14. SendersInOrder'
    <2>1. ASSUME NEW i \in DOMAIN got'[t], NEW j \in DOMAIN got'[t], i < j,
                 Alike(got'[t][i], got'[t][j])
          PROVE  got'[t][i] < got'[t][j]
        <3>1. i \in 1 .. Len(got[t]) /\ got'[t][i] = got[t][i]
            BY <1>5, <2>1
        <3>2. CASE j \in 1 .. Len(got[t])
            BY <1>5, <2>1, <3>1, <3>2 DEF RowInv, InOrder, SendersInOrder
        <3>3. CASE j = Len(got[t]) + 1
            BY <1>4, <1>5, <2>1, <3>1, <3>3 DEF Returned
        <3>4. QED
            BY <1>5, <3>2, <3>3
    <2>2. ASSUME NEW u \in Tasks, NEW i \in DOMAIN got'[u], NEW j \in DOMAIN got'[u], i < j,
                 Alike(got'[u][i], got'[u][j])
          PROVE  got'[u][i] < got'[u][j]
        <3>1. CASE u = t
            BY <2>1, <2>2, <3>1
        <3>2. CASE u # t
            BY <1>5, <2>2, <3>2 DEF RowInv, InOrder, SendersInOrder
        <3>3. QED
            BY <3>1, <3>2
    <2>3. QED
        BY <1>6, <2>2 DEF SendersInOrder
<1>15. InOrder'
    BY <1>11, <1>12, <1>13, <1>14 DEF InOrder
<1>16. QED
    BY <1>9, <1>10, <1>15

LEMMA RowsKeptByTask ==
    ASSUME PlaceTypes, RowInv, Live \subseteq Channels, NEW t \in Tasks,
           Call(t) \/ Step(t) \/ Trouble(t)
    PROVE  RowInv'
<1>1. RowMoves(t) /\ OnlyMoves(t) /\ chan[t] \in Channels
    BY StepRows DEF PlaceTypes
<1>2. RowTypes'
    BY <1>1, RowTypesKept DEF RowInv
<1>3. (Scattered /\ FoundRows /\ InOrder)'
    BY <1>1, InsertedKept, CommittedKept, SelectedKept, TakenKept, RowsLeave DEF RowMoves
<1>4. QED
    BY <1>2, <1>3 DEF RowInv

-----------------------------------------------------------------------------
(* The steps that are nobody's: close() and time.                          *)
RestTypes == event \subseteq Tasks /\ calls \in Nat /\ events \in Nat
IInv == PlaceTypes /\ HeldTypes /\ LockTypes /\ TablesInv /\ FanInv /\ CloseInv /\ RowInv /\ RestTypes

CloseAndTime == Close \/ CloseReturns \/ RowExpires \/ MemberLapses \/ PruneFallsDue
Stutters == UNCHANGED vars

LEMMA NobodyStep ==
    ASSUME PlaceTypes, CloseAndTime \/ Stutters
    PROVE  /\ UNCHANGED <<ownsPool, pool, made, schemaVars, pc, callVars, chan, todo, reached, mine, using>>
           /\ NobodyMoves
<1>1. /\ UNCHANGED <<ownsPool, pool, made, schemaVars, pc, callVars, chan, todo, reached, mine, using>>
      /\ stable' = stable \/ \E c : Unstable(c)
    BY DEF CloseAndTime, Stutters, vars, Close, CloseReturns, RowExpires, MemberLapses, PruneFallsDue
<1>2. stable \in [Tasks -> SUBSET Channels]
    BY DEF PlaceTypes
<1>3. QED
    BY <1>1, <1>2 DEF NobodyMoves, Unstable

LEMMA HeldAndTablesKept ==
    ASSUME IInv, CloseAndTime \/ Stutters
    PROVE  (HeldTypes /\ TablesInv)'
<1>1. UNCHANGED <<pool, made, schemaVars, pc, using>>
    BY NobodyStep DEF IInv
<1>2. QED
    BY <1>1 DEF IInv, HeldTypes, HeldOf, TablesInv, TablesBeforeUse

LEMMA LockKept ==
    ASSUME IInv, CloseAndTime \/ Stutters
    PROVE  LockTypes'
<1>0. pc' = pc
    BY NobodyStep DEF IInv
<1>1. CASE UNCHANGED pruneVars
    BY <1>0, <1>1 DEF IInv, LockTypes, LockOf, OnePruneAnInterval
<1>2. CASE PruneFallsDue
    <2>1. ~due /\ due' /\ due' \in BOOLEAN /\ periods' = periods + 1 /\ UNCHANGED <<prunes, lock>>
        BY <1>2 DEF PruneFallsDue
    <2>2. QED
        BY <1>0, <2>1 DEF IInv, LockTypes, LockOf, OnePruneAnInterval
<1>3. QED
    BY <1>1, <1>2 DEF CloseAndTime, Stutters, vars, Close, CloseReturns, RowExpires, MemberLapses

LEMMA FanKept ==
    ASSUME IInv, CloseAndTime \/ Stutters
    PROVE  FanInv'
<1>0. /\ UNCHANGED <<pc, op, chan, todo, reached>>
      /\ stable \in [Tasks -> SUBSET Channels] /\ members \subseteq Channels /\ lapsed \subseteq members
    BY NobodyStep DEF IInv, PlaceTypes, FanInv
<1>1. CASE UNCHANGED <<memberVars, stable>>
    BY <1>0, <1>1 DEF IInv, FanInv, FanOf, Live
<1>2. CASE MemberLapses
    <2>1. PICK c \in Live : lapsed' = lapsed \cup {c} /\ Unstable(c)
        BY <1>2 DEF MemberLapses
    <2>2. members' = members /\ \A u \in Tasks : stable'[u] = stable[u] \ {c}
        BY <1>2, <2>1 DEF MemberLapses, Unstable
    <2>3. lapsed' \subseteq members' /\ Live' = Live \ {c}
        BY <1>0, <2>1, <2>2 DEF Live
    <2>4. \A u \in Tasks : FanOf(u)'
        BY <1>0, <2>2, <2>3 DEF IInv, FanInv, FanOf
    <2>5. QED
        BY <1>0, <2>2, <2>3, <2>4 DEF FanInv
<1>3. QED
    BY <1>1, <1>2 DEF CloseAndTime, Stutters, vars, Close, CloseReturns, RowExpires, PruneFallsDue

LEMMA CloseKept ==
    ASSUME IInv, CloseAndTime \/ Stutters
    PROVE  CloseInv'
<1>0. UNCHANGED <<ownsPool, pool, made, pc, using>>
    BY NobodyStep DEF IInv
<1>1. /\ pool \in Nat /\ made = pool /\ using \in [Tasks -> Nat]
      /\ \A t \in Tasks : using[t] <= made
    BY DEF IInv, HeldTypes, HeldOf
<1>2. CASE UNCHANGED <<closeVars, raced>>
    BY <1>0, <1>2 DEF IInv, CloseInv, LonePool
<1>3. CASE Close
    <2>1. /\ ~closed /\ closed' /\ closed' \in BOOLEAN /\ raced' \in BOOLEAN
          /\ raced' <=> raced \/ \E t \in Tasks : pc[t] = "connect"
        BY <1>3 DEF Close
    <2>2. /\ ended' = IF ClosesPool THEN ended \cup {pool} ELSE ended
          /\ closer' = IF ClosesPool THEN "closing" ELSE "done"
        BY <1>3 DEF Close
    <2>3. ASSUME ownsPool, ~raced' PROVE LonePool'
        <3>1. LonePool /\ \A t \in Tasks : pc[t] # "connect"
            BY <1>0, <2>1, <2>3 DEF IInv, CloseInv
        <3>2. CASE pool = 0
            <4>1. \A t \in Tasks : using[t] = 0
                BY <1>1, <3>2
            <4>2. QED
                BY <1>0, <2>1, <3>1, <3>2, <4>1 DEF LonePool
        <3>3. CASE pool # 0
            <4>1. pool \in ended' /\ closer' = "closing"
                BY <2>2, <2>3, <3>3 DEF ClosesPool
            <4>2. QED
                BY <1>0, <3>1, <4>1 DEF LonePool
        <3>4. QED
            BY <3>2, <3>3
    <2>4. closer' \in {"closing", "done"} /\ ended' \subseteq Nat
        BY <1>1, <2>2 DEF IInv, CloseInv
    <2>5. QED
        BY <1>0, <2>1, <2>3, <2>4 DEF IInv, CloseInv
<1>4. CASE CloseReturns
    <2>1. closer = "closing" /\ closer' = "done" /\ UNCHANGED <<ended, closed, raced>> /\ AllBack
        BY <1>4 DEF CloseReturns
    <2>2. ASSUME ownsPool, ~raced PROVE LonePool'
        <3>1. LonePool /\ closed
            BY <2>1, <2>2 DEF IInv, CloseInv
        <3>2. \A t \in Tasks : using[t] = 0
            <4>1. ASSUME NEW t \in Tasks, using[t] # 0 PROVE FALSE
                <5>1. using[t] = pool /\ pool # 0
                    BY <1>1, <3>1, <4>1 DEF LonePool
                <5>2. QED
                    BY <2>1, <3>1, <5>1 DEF LonePool, AllBack
            <4>2. QED
                BY <4>1
        <3>3. QED
            BY <1>0, <2>1, <3>1, <3>2 DEF LonePool
    <2>3. QED
        BY <1>0, <2>1, <2>2 DEF IInv, CloseInv
<1>5. QED
    BY <1>2, <1>3, <1>4 DEF CloseAndTime, Stutters, vars, RowExpires, MemberLapses, PruneFallsDue

LEMMA RowsKept ==
    ASSUME IInv, CloseAndTime \/ Stutters
    PROVE  RowInv'
<1>1. UNCHANGED <<pc, mine>>
    BY NobodyStep DEF IInv
<1>2. /\ UNCHANGED <<sentTo, sentBy, stored, lost, got>>
      /\ stale' = stale \/ \E i \in stored \ stale : stale' = stale \cup {i}
    BY DEF CloseAndTime, Stutters, vars, Close, CloseReturns, RowExpires, MemberLapses, PruneFallsDue
<1>3. RowTypes'
    BY <1>1, <1>2 DEF IInv, RowInv, RowTypes
<1>4. RowsVanish({})
    BY <1>1, <1>2 DEF RowsVanish
<1>5. QED
    BY <1>3, <1>4, VanishKept DEF IInv, RowInv

LEMMA RestKept ==
    ASSUME IInv, [Next]_vars
    PROVE  RestTypes'
<1>1. event \subseteq Tasks /\ calls \in Nat /\ events \in Nat
    BY DEF IInv, RestTypes
<1>2. CASE CloseAndTime \/ Stutters
    BY <1>1, <1>2 DEF RestTypes, CloseAndTime, Stutters, vars, Close, CloseReturns, RowExpires,
       MemberLapses, PruneFallsDue, Event
<1>3. ASSUME NEW t \in Tasks, Call(t) PROVE RestTypes'
    BY <1>1, <1>3 DEF RestTypes, Call, Begin
<1>4. ASSUME NEW t \in Tasks, Step(t) PROVE RestTypes'
    <2>1. event' \subseteq Tasks
        BY <1>1, <1>4 DEF Step, Connect, CreateSchema, Lock, PruneRows, PruneMembers, Insert, Commit,
           Notify, Select, Delete, SelectNothing, DeleteNothing, Listen, Wakes, StopsListening, Join,
           Leave, FetchMembers, Refused, Raises
    <2>2. UNCHANGED <<calls, events>>
        BY <1>4 DEF Step, Connect, CreateSchema, Lock, PruneRows, PruneMembers, Insert, Commit,
           Notify, Select, Delete, SelectNothing, DeleteNothing, Listen, Wakes, StopsListening, Join,
           Leave, FetchMembers, Refused, Raises
    <2>3. QED
        BY <1>1, <2>1, <2>2 DEF RestTypes
<1>5. ASSUME NEW t \in Tasks, Trouble(t) PROVE RestTypes'
    BY <1>1, <1>5 DEF RestTypes, Trouble, PollRaises, StopsListening, Fails, InsertUnanswered,
       DeleteUnanswered, Fault, Raises, Event
<1>6. QED
    BY <1>2, <1>3, <1>4, <1>5 DEF Next, CloseAndTime, Stutters

LEMMA Inductive ==
    IInv /\ [Next]_vars => IInv'
<1> SUFFICES ASSUME IInv, [Next]_vars PROVE IInv'
    OBVIOUS
<1>1. CASE CloseAndTime \/ Stutters
    <2>1. PlaceTypes'
        BY <1>1, NobodyStep, NobodyMovesKept DEF IInv
    <2>2. QED
        BY <1>1, <2>1, HeldAndTablesKept, LockKept, FanKept, CloseKept, RowsKept, RestKept DEF IInv
<1>2. ASSUME NEW t \in Tasks, Call(t) \/ Step(t) \/ Trouble(t) PROVE IInv'
    <2>1. PlaceTypes /\ HeldTypes /\ LockTypes /\ TablesInv /\ FanInv /\ CloseInv /\ RowInv
        BY DEF IInv
    <2>2. Live \subseteq Channels
        BY <2>1, LiveAreChannels
    <2>3. PlaceTypes'
        BY <1>2, <2>1, <2>2, StepPlaces, AdvancesKept, EndedKept, SendsOnKept, BeginsKept
    <2>4. HeldTypes' /\ LockTypes' /\ TablesInv'
        BY <1>2, <2>1, <2>2, HeldKeptByTask, LockKeptByTask, TablesKeptByTask
    <2>5. FanInv' /\ CloseInv' /\ RowInv'
        BY <1>2, <2>1, <2>2, FanKeptByTask, CloseKeptByTask, RowsKeptByTask
    <2>6. QED
        BY <2>3, <2>4, <2>5, RestKept DEF IInv
<1>3. QED
    BY <1>1, <1>2 DEF Next, CloseAndTime, Stutters

LEMMA Initial ==
    Init => IInv
<1> SUFFICES ASSUME Init PROVE IInv
    OBVIOUS
<1>1. /\ pc = [t \in Tasks |-> "idle"] /\ op = [t \in Tasks |-> "none"]
      /\ chan = [t \in Tasks |-> CHOOSE c \in Channels : TRUE]
      /\ mine = [t \in Tasks |-> 0] /\ using = [t \in Tasks |-> 0]
      /\ todo = [t \in Tasks |-> {}] /\ got = [t \in Tasks |-> <<>>]
      /\ stable = [t \in Tasks |-> {}] /\ reached = [t \in Tasks |-> {}]
      /\ timed = {} /\ event = {} /\ calls = 0 /\ events = 0
    BY DEF Init
<1>2. /\ ended = {} /\ closed = FALSE /\ closer = "open" /\ due = TRUE /\ lock = NoTask
      /\ stale = {} /\ lost = {} /\ lapsed = {} /\ periods = 1 /\ prunes = 0 /\ raced = FALSE
      /\ tables \in BOOLEAN /\ schemaReady = ~makesTables
    BY DEF Init
<1>3. /\ \/ ownsPool = FALSE /\ pool = 1 /\ made = 1 /\ makesTables = FALSE
         \/ ownsPool = TRUE /\ pool = 0 /\ made = 0 /\ makesTables \in BOOLEAN
      /\ \/ sentTo = <<>> /\ members = {}
         \/ sentTo = Backlog /\ members = Channels
      /\ sentBy = [i \in DOMAIN sentTo |-> NoTask] /\ stored = DOMAIN sentTo
    BY DEF Init
<1>4. PlaceTypes
    <2>1. (CHOOSE c \in Channels : TRUE) \in Channels
        OBVIOUS
    <2>2. "idle" \in Places /\ "none" \in Operations
        BY DEF Places, Operations
    <2>3. QED
        BY <1>1, <2>1, <2>2 DEF PlaceTypes, OpPlaces
<1>5. HeldTypes
    BY <1>1, <1>3 DEF HeldTypes, HeldOf, Holding
<1>6. LockTypes
    BY <1>1, <1>2 DEF LockTypes, LockOf, Pruning, OnePruneAnInterval
<1>7. TablesInv
    BY <1>1, <1>2, <1>3 DEF TablesInv, TablesBeforeUse, Body, Pruning
<1>8. FanInv
    BY <1>1, <1>2, <1>3 DEF FanInv, FanOf
<1>9. CloseInv
    <2>1. raced = FALSE /\ closed = FALSE /\ closer = "open" /\ ended = {}
        BY <1>2
    <2>2. ~raced /\ ~closed /\ raced \in BOOLEAN /\ closed \in BOOLEAN
        BY <2>1
    <2>3. closer = "open" /\ ended \subseteq Nat
        BY <2>1
    <2>4. /\ ownsPool = FALSE \/ ownsPool = TRUE
          /\ made = 0 \/ made = 1
        BY <1>3
    <2>5. ownsPool \in BOOLEAN
        BY <2>4
    <2>6. made <= 1
        BY <2>4
    <2>7. \A t \in Tasks : pc[t] = "idle"
        BY <1>1
    <2>8. QED
        BY <2>2, <2>3, <2>5, <2>6, <2>7 DEF CloseInv, LonePool
<1>10. RowTypes
    <2>1. sentTo \in Seq(Channels) /\ DOMAIN sentTo = 1 .. Len(sentTo) /\ Len(sentTo) \in Nat
        BY <1>3
    <2>2. sentBy \in Seq(Tasks \cup {NoTask}) /\ Len(sentBy) = Len(sentTo)
        <3>1. sentBy = [i \in 1 .. Len(sentTo) |-> NoTask]
            BY <1>3, <2>1
        <3>2. sentBy \in [1 .. Len(sentTo) -> Tasks \cup {NoTask}]
            BY <3>1
        <3>3. QED
            BY <2>1, <3>2, LenProperties, SeqDef
    <2>3. <<>> \in Seq(Nat)
        OBVIOUS
    <2>4. got \in [Tasks -> Seq(Nat)] /\ mine \in [Tasks -> Nat]
        BY <1>1, <2>3
    <2>5. stored \subseteq Nat
        BY <1>3, <2>1
    <2>6. QED
        BY <1>2, <2>1, <2>2, <2>4, <2>5 DEF RowTypes
<1>11. Scattered /\ FoundRows /\ InOrder
    <2>1. stored = Rows /\ \A n \in Rows : n \in Nat
        BY <1>3, <1>10 DEF Rows, RowTypes
    <2>2. \A t \in Tasks : pc[t] = "idle" /\ got[t] = <<>> /\ Returned(t) = {}
        BY <1>1 DEF Returned
    <2>3. Scattered /\ FoundRows
        BY <1>2, <2>1, <2>2 DEF Scattered, FoundRows
    <2>4. SendersInOrder
        BY <2>2 DEF SendersInOrder
    <2>5. QED
        BY <2>2, <2>3, <2>4 DEF InOrder
<1>12. QED
    BY <1>1, <1>4, <1>5, <1>6, <1>7, <1>8, <1>9, <1>10, <1>11 DEF IInv, RowInv, RestTypes

LEMMA Invariant == Spec => []IInv
BY Initial, Inductive, PTL DEF Spec

-----------------------------------------------------------------------------
(* The type invariant holds: a task has a connection exactly between two   *)
(* awaits on one, and the lock exactly while it prunes.                    *)
THEOREM TypeCorrect == Spec => []TypeOK
<1>1. IInv => TypeOK
    BY DEF IInv, PlaceTypes, HeldTypes, HeldOf, Holding, LockTypes, LockOf, TablesInv, FanInv,
       CloseInv, RowInv, RowTypes, RestTypes, TypeOK
<1>2. QED
    BY <1>1, Invariant, PTL

(* Every row is in one place: several receivers may find the same one, but *)
(* the row lock lets one DELETE have it.                                   *)
THEOREM OnePlaceCorrect == Spec => []ExactlyOnePlace
<1>1. IInv => ExactlyOnePlace
    BY ScatteredIsOnePlace DEF IInv, RowInv
<1>2. QED
    BY <1>1, Invariant, PTL

(* The contract.  What is stored or being inserted is outstanding.         *)
LEMMA OutstandingRows ==
    ASSUME RowInv
    PROVE  /\ stored \subseteq Once!Outstanding
           /\ \A t \in Tasks : pc[t] = "commit" => mine[t] \in Once!Outstanding
<1>1. \A n : n \in Once!Outstanding <=>
          n \in Rows /\ n \notin lost /\ \A t \in Tasks : n \notin Returned(t)
    BY DEF Once!Outstanding
<1>2. QED
    BY <1>1, InRows DEF RowInv, Scattered

LEMMA TakenReturns ==
    ASSUME RowInv, NEW t \in Tasks, Taken(t)
    PROVE  Once!Return(t)
<1> DEFINE e == mine[t]
           old == [u \in Tasks |-> Returned(u)]
           new == [u \in Tasks |-> Returned(u)']
<1>1. e \in Once!Outstanding
    BY OutstandingRows DEF Taken
<1>2. /\ got' = [got EXCEPT ![t] = Append(got[t], e)] /\ UNCHANGED <<sentTo, lost>>
      /\ got \in [Tasks -> Seq(Nat)] /\ e \in Nat
    BY DEF Taken, RowInv, RowTypes
<1>3. old' = new
    OBVIOUS
<1> HIDE DEF e
<1>4. Returned(t)' = Returned(t) \cup {e}
    BY <1>2, GotReturned
<1>5. \A u \in Tasks \ {t} : Returned(u)' = Returned(u)
    BY <1>2, GotReturned
<1>6. /\ \A u \in Tasks : old[u] = Returned(u) /\ new[u] = Returned(u)'
      /\ old = [u \in Tasks |-> old[u]] /\ new = [u \in Tasks |-> new[u]]
    OBVIOUS
<1> HIDE DEF old, new
<1>7. new = [old EXCEPT ![t] = old[t] \cup {e}]
    BY <1>4, <1>5, <1>6
<1>8. old' = [old EXCEPT ![t] = old[t] \cup {e}]
    BY <1>3, <1>7
<1>9. Rows' = Rows /\ lost' = lost
    BY <1>2 DEF Rows
<1> USE DEF old
<1>10. QED
    BY <1>1, <1>8, <1>9 DEF Once!Return

LEMMA RowsImplement ==
    ASSUME RowInv, NEW t \in Tasks, RowMoves(t), chan[t] \in Channels
    PROVE  Once!Next \/ UNCHANGED Once!vars
<1>0. /\ UNCHANGED got => UNCHANGED [u \in Tasks |-> Returned(u)]
      /\ UNCHANGED sentTo => UNCHANGED Rows
    BY DEF Returned, Rows
<1>1. CASE Inserted(t)
    <2>1. Rows \subseteq Rows' /\ Rows' \subseteq Nat
        BY <1>1, InsertedRows DEF RowInv, Rows
    <2>2. Once!Accept
        BY <1>0, <1>1, <2>1 DEF Inserted, Once!Accept
    <2>3. QED
        BY <2>2 DEF Once!Next
<1>2. CASE RolledBack(t) \/ TakenInVain(t) \/ RowsPruned(t)
    <2>1. UNCHANGED <<sentTo, got>> /\ lost \subseteq lost'
        BY <1>2 DEF RolledBack, TakenInVain, RowsPruned
    <2>2. stale \subseteq stored
        BY DEF RowInv, RowTypes
    <2>3. lost' \subseteq lost \cup Once!Outstanding
        BY <1>2, <2>2, OutstandingRows DEF RolledBack, TakenInVain, RowsPruned
    <2>4. Once!Lose
        BY <1>0, <2>1, <2>3 DEF Once!Lose
    <2>5. QED
        BY <2>4 DEF Once!Next
<1>3. CASE Taken(t)
    BY <1>3, TakenReturns DEF Once!Next
<1>4. CASE Committed(t) \/ Selected(t) \/ RowsStay(t)
    BY <1>0, <1>4 DEF Committed, Selected, RowsStay, rowVars, Once!vars
<1>5. QED
    BY <1>1, <1>2, <1>3, <1>4 DEF RowMoves

(* The layer implements AtMostOnce: however many receivers find a row and  *)
(* whatever fails, one receive returns it at most, while it is stored, and *)
(* what was returned, rolled back or pruned stays so.                      *)
THEOREM ImplementsAtMostOnceCorrect == Spec => ImplementsAtMostOnce
<1>1. Init => Once!Init
    <2> SUFFICES ASSUME Init PROVE Once!Init
        OBVIOUS
    <2>2. lost = {} /\ got = [t \in Tasks |-> <<>>]
        BY DEF Init
    <2>3. \A t \in Tasks : Returned(t) = {}
        BY <2>2 DEF Returned
    <2>4. Rows \subseteq Nat
        <3>1. IInv
            BY Initial
        <3>2. Len(sentTo) \in Nat
            BY <3>1 DEF IInv, RowInv, RowTypes
        <3>3. QED
            BY <3>2 DEF Rows
    <2>5. QED
        BY <2>2, <2>3, <2>4 DEF Once!Init
<1>2. IInv /\ [Next]_vars => [Once!Next]_(Once!vars)
    <2> SUFFICES ASSUME IInv, [Next]_vars PROVE Once!Next \/ UNCHANGED Once!vars
        OBVIOUS
    <2>2. ASSUME NEW t \in Tasks, Call(t) \/ Step(t) \/ Trouble(t)
          PROVE  Once!Next \/ UNCHANGED Once!vars
        <3>1. chan[t] \in Channels /\ PlaceTypes /\ RowInv /\ Live \subseteq Channels
            BY LiveAreChannels DEF IInv, PlaceTypes
        <3>2. QED
            BY <2>2, <3>1, StepRows, RowsImplement
    <2>3. CASE CloseAndTime \/ Stutters
        <3>1. UNCHANGED <<sentTo, got, lost>>
            BY <2>3 DEF CloseAndTime, Stutters, vars, Close, CloseReturns, RowExpires, MemberLapses,
               PruneFallsDue
        <3>2. QED
            BY <3>1 DEF Returned, Rows, Once!vars
    <2>4. QED
        BY <2>2, <2>3 DEF Next, CloseAndTime, Stutters
<1>3. QED
    BY <1>1, <1>2, Invariant, PTL DEF Spec, ImplementsAtMostOnce, Once!Spec

(* What one sender sends on a channel is received in order: a task inserts *)
(* a row only when its last one is committed, so that whoever finds a row  *)
(* could have found all older ones of that sender.                         *)
THEOREM SendersInOrderCorrect == Spec => []SendersInOrder
<1>1. IInv => SendersInOrder
    BY DEF IInv, RowInv, InOrder
<1>2. QED
    BY <1>1, Invariant, PTL

(* Each prune interval has one prune: who has the lock looked at the clock *)
(* when it had it, and moves the clock before it gives the lock back.      *)
THEOREM OnePruneCorrect == Spec => []OnePruneAnInterval
<1>1. IInv => OnePruneAnInterval
    BY DEF IInv, LockTypes
<1>2. QED
    BY <1>1, Invariant, PTL

(* Where the layer is to make the tables, nobody gets to a statement of    *)
(* its own before they exist.                                              *)
THEOREM TablesCorrect == Spec => []TablesBeforeUse
<1>1. IInv => TablesBeforeUse
    BY DEF IInv, TablesInv
<1>2. QED
    BY <1>1, Invariant, PTL

(* Where nobody raced to make the pool it is the only one, and close()     *)
(* leaves none open.                                                       *)
THEOREM PoolsEndCorrect == Spec => []PoolsEndWithLayer
<1>1. ASSUME IInv PROVE PoolsEndWithLayer
    <2>1. ASSUME closer = "done", ownsPool, ~raced
          PROVE  1 .. made \subseteq ended /\ \A t \in Tasks : using[t] = 0
        <3>1. LonePool /\ closed /\ made = pool /\ pool \in Nat
            BY <1>1, <2>1 DEF IInv, CloseInv, HeldTypes
        <3>2. made = 0 \/ (made = 1 /\ 1 \in ended)
            BY <3>1 DEF LonePool
        <3>3. 1 .. made \subseteq ended
            BY <3>2
        <3>4. QED
            BY <2>1, <3>1, <3>3 DEF LonePool
    <2>2. QED
        BY <2>1 DEF PoolsEndWithLayer
<1>2. QED
    BY <1>1, Invariant, PTL

(* A group_send that comes to its end has reached every channel that was a *)
(* live member throughout.                                                 *)
THEOREM FanOutCorrect == Spec => []FanOutReaches
<1>1. ASSUME IInv PROVE FanOutReaches
    <2>1. \A t \in Tasks : FanOf(t)
        BY <1>1 DEF IInv, FanInv
    <2>2. QED
        BY <2>1 DEF FanOf, FanOutReaches
<1>2. QED
    BY <1>1, Invariant, PTL

(* A receive without timeout returns no row only because of a failure, a   *)
(* closed pool, missing tables or the error of a poll.                     *)
THEOREM WaitsCorrect == Spec => WaitsForMessage
<1> DEFINE Waits(t) ==
        op[t] = "receive" /\ t \notin timed /\ pc[t] # "idle" /\ pc'[t] = "idle" =>
            got'[t] # got[t] \/ events' # events \/ pool \in ended \/ ~tables
                \/ pc[t] = "wait"
<1>1. ASSUME IInv, Next, NEW u \in Tasks PROVE Waits(u)
    <2>0. /\ PlaceTypes /\ Live \subseteq Channels /\ OpPlaces(u) /\ events \in Nat
          /\ got \in [Tasks -> Seq(Nat)] /\ mine[u] \in Nat /\ op[u] \in Operations
        BY <1>1, LiveAreChannels DEF IInv, PlaceTypes, RestTypes, RowInv, RowTypes
    <2>1. CASE CloseAndTime
        BY <2>0, <2>1, NobodyStep
    <2>2. ASSUME NEW t \in Tasks, Call(t) \/ Step(t) \/ Trouble(t), t # u PROVE Waits(u)
        BY <2>0, <2>2, OthersStay
    <2>3. CASE Call(u)
        BY <2>3 DEF Call, Begin
    <2>4. SUFFICES ASSUME op[u] = "receive", u \notin timed, pc[u] # "idle", pc'[u] = "idle",
                          pool \notin ended, tables, pc[u] # "wait", Step(u) \/ Trouble(u)
                   PROVE  got'[u] # got[u] \/ events' # events
        BY <1>1, <2>1, <2>2, <2>3 DEF Next, CloseAndTime
    <2>5. /\ pc[u] \notin {"insert", "commit", "notify", "join", "leave", "members", "wait"}
          /\ op[u] \in Operations \ {"none"}
        BY <2>0, <2>4 DEF OpPlaces
    <2>6. \A place : Goes(u, place) => place = "idle"
        BY <2>0, <2>4, GoesPlace
    <2>7. First(op[u]) # "idle" /\ Pruned(op[u]) # "idle" /\ Ready(op[u]) # "idle"
        BY <2>5, BeginningHoldsNone
    <2>8. CASE Delete(u)
        <3>1. got'[u] = Append(got[u], mine[u]) /\ got[u] \in Seq(Nat)
            BY <2>0, <2>8 DEF Delete
        <3>2. Len(got'[u]) = Len(got[u]) + 1 /\ Len(got[u]) \in Nat
            BY <2>0, <3>1, AppendElements
        <3>3. QED
            BY <3>2
    <2>9. CASE SelectNothing(u) \/ DeleteNothing(u)
        BY <2>4, <2>6, <2>9 DEF SelectNothing, DeleteNothing, NoRow
    <2>10. CASE Connect(u) \/ CreateSchema(u) \/ Lock(u) \/ PruneRows(u) \/ PruneMembers(u)
        BY <2>6, <2>7, <2>10 DEF Connect, CreateSchema, Lock, PruneRows, PruneMembers, At
    <2>11. CASE Select(u) \/ Listen(u)
        BY <2>6, <2>11 DEF Select, Listen, At
    <2>12. CASE Fails(u) \/ InsertUnanswered(u) \/ DeleteUnanswered(u)
        BY <2>0, <2>12 DEF Fails, InsertUnanswered, DeleteUnanswered, Fault, Event
    <2>13. CASE Insert(u) \/ Commit(u) \/ Notify(u) \/ Join(u) \/ Leave(u) \/ FetchMembers(u)
                \/ Wakes(u) \/ PollRaises(u)
        BY <2>5, <2>13 DEF Insert, Commit, Notify, Join, Leave, FetchMembers, At, Wakes, PollRaises,
           StopsListening
    <2>14. CASE Refused(u)
        BY <2>4, <2>14 DEF Refused, NoConnection, NoTable
    <2>15. QED
        BY <2>4, <2>8, <2>9, <2>10, <2>11, <2>12, <2>13, <2>14 DEF Step, Trouble
<1>2. ASSUME IInv, UNCHANGED vars, NEW u \in Tasks PROVE Waits(u)
    BY <1>2 DEF vars
<1>3. IInv /\ [Next]_vars => [\A t \in Tasks : Waits(t)]_vars
    BY <1>1, <1>2
<1>4. QED
    BY <1>3, Invariant, PTL DEF Spec, WaitsForMessage

-----------------------------------------------------------------------------
(* Nobody waits in a circle.  What CallsEnd needs of the code: fairness    *)
(* does the rest.                                                          *)

(* A task whose next step is open to it: it waits for no other task, or    *)
(* the lock is free, or it gets a connection or is refused one.            *)
GoesOn(t) ==
    \/ pc[t] \in Prologue \cup Holding
    \/ pc[t] = "lock" /\ lock = NoTask
    \/ pc[t] \in NeedsConnection /\ (Free \/ pool \in ended)

(* t waits for u: to give the prune lock back, or a connection.            *)
WaitsFor(t, u) ==
    \/ pc[t] = "lock" /\ pc[u] \in Pruning
    \/ pc[t] \in NeedsConnection /\ pc[u] \in Holding /\ using[u] = pool

(* Every task in a call can go on or waits for one that can, at most over  *)
(* the holder of the lock: who holds a connection waits neither for the    *)
(* lock nor for another one.  And close() waits only for such tasks.       *)
CallsGoOn ==
    /\ \A t \in Tasks : pc[t] # "idle" =>
          \/ GoesOn(t)
          \/ \E u \in Tasks : /\ WaitsFor(t, u)
                              /\ \/ GoesOn(u)
                                 \/ \E v \in Tasks : WaitsFor(u, v) /\ GoesOn(v)
    /\ closer = "closing" =>
          AllBack \/ \E t \in Tasks : using[t] \in ended /\ GoesOn(t)

(* Only pools that were made are closed.                                   *)
LEMMA EndedWereMade == Spec => [](0 \notin ended)
<1>1. Init => 0 \notin ended
    BY DEF Init
<1>2. 0 \notin ended /\ [Next]_vars => (0 \notin ended)'
    <2> SUFFICES ASSUME 0 \notin ended, [Next]_vars PROVE 0 \notin ended'
        OBVIOUS
    <2>1. CASE Close
        BY <2>1 DEF Close, ClosesPool
    <2>2. CASE UNCHANGED ended
        BY <2>2
    <2>3. ASSUME NEW t \in Tasks, Call(t) \/ Step(t) \/ Trouble(t) PROVE UNCHANGED ended
        BY <2>3, StepPool
    <2>4. CASE CloseReturns \/ RowExpires \/ MemberLapses \/ PruneFallsDue \/ UNCHANGED vars
        BY <2>2, <2>4 DEF CloseReturns, RowExpires, MemberLapses, PruneFallsDue, vars
    <2>5. QED
        BY <2>1, <2>2, <2>3, <2>4 DEF Next
<1>3. QED
    BY <1>1, <1>2, PTL DEF Spec

(* Whoever does not get a connection waits for one that is lent.           *)
LEMMA WaitsForLent ==
    ASSUME HeldTypes, NEW t \in Tasks, pc[t] \in NeedsConnection
    PROVE  GoesOn(t) \/ \E u \in Tasks : WaitsFor(t, u) /\ GoesOn(u)
<1>1. pool # 0
    BY DEF HeldTypes, HeldOf, NeedsConnection, UsesTables, Pruning
<1>2. CASE \E u \in Tasks : using[u] = pool
    <2>1. PICK u \in Tasks : using[u] = pool
        BY <1>2
    <2>2. pc[u] \in Holding
        BY <1>1, <2>1 DEF HeldTypes, HeldOf
    <2>3. QED
        BY <2>1, <2>2 DEF WaitsFor, GoesOn
<1>3. CASE ~\E u \in Tasks : using[u] = pool
    <2>1. {u \in Tasks : using[u] = pool} = {}
        BY <1>3
    <2>2. Cardinality({u \in Tasks : using[u] = pool}) = 0
        <3>1. Cardinality({}) = 0
            BY FS_EmptySet
        <3>2. QED
            BY ONLY <2>1, <3>1
    <2>3. Free \/ pool \in ended
        BY <2>2 DEF Free
    <2>4. QED
        BY <2>3 DEF GoesOn
<1>4. QED
    BY <1>2, <1>3

LEMMA NobodyWaitsInACircle ==
    ASSUME IInv, 0 \notin ended
    PROVE  CallsGoOn
<1>0. PlaceTypes /\ HeldTypes /\ LockTypes
    BY DEF IInv
<1>1. ASSUME NEW t \in Tasks, pc[t] # "idle"
      PROVE  \/ GoesOn(t)
             \/ \E u \in Tasks : /\ WaitsFor(t, u)
                                 /\ \/ GoesOn(u)
                                    \/ \E v \in Tasks : WaitsFor(u, v) /\ GoesOn(v)
    <2>1. pc[t] \in Prologue \cup Holding \cup NeedsConnection \cup {"lock"}
        BY <1>0, <1>1 DEF PlaceTypes, Places, Body, Prologue, Pruning, Holding, NeedsConnection,
           UsesTables
    <2>2. CASE pc[t] \in Prologue \cup Holding
        BY <2>2 DEF GoesOn
    <2>3. CASE pc[t] \in NeedsConnection
        BY <1>0, <2>3, WaitsForLent
    <2>4. CASE pc[t] = "lock" /\ lock = NoTask
        BY <2>4 DEF GoesOn
    <2>5. CASE pc[t] = "lock" /\ lock # NoTask
        <3>1. lock \in Tasks /\ pc[lock] \in Pruning
            BY <1>0, <2>5 DEF LockTypes, LockOf
        <3>2. WaitsFor(t, lock) /\ pc[lock] \in NeedsConnection
            BY <2>5, <3>1 DEF WaitsFor, NeedsConnection, UsesTables
        <3>3. GoesOn(lock) \/ \E v \in Tasks : WaitsFor(lock, v) /\ GoesOn(v)
            BY <1>0, <3>1, <3>2, WaitsForLent
        <3>4. QED
            BY <3>1, <3>2, <3>3
    <2>6. QED
        BY <2>1, <2>2, <2>3, <2>4, <2>5
<1>2. AllBack \/ \E t \in Tasks : using[t] \in ended /\ GoesOn(t)
    <2>1. SUFFICES ASSUME NEW t \in Tasks, using[t] \in ended
                   PROVE  GoesOn(t)
        BY DEF AllBack
    <2>2. using[t] # 0
        BY <2>1
    <2>3. QED
        BY <1>0, <2>2 DEF HeldTypes, HeldOf, GoesOn
<1>3. QED
    BY <1>1, <1>2 DEF CallsGoOn

(* Whatever connections are lent to listening receivers and whoever has    *)
(* the prune lock, no call and no close() waits for one that waits for it  *)
(* (postgresql.py 83-111, 166-190, 242-298).                               *)
THEOREM CallsGoOnCorrect == Spec => []CallsGoOn
BY Invariant, EndedWereMade, NobodyWaitsInACircle, PTL
=============================================================================
