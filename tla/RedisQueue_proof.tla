-------------------------- MODULE RedisQueue_proof --------------------------
(***************************************************************************)
(* Proofs about a Redis inbox and a group, for any number of senders,      *)
(* receivers, channels, calls and failures, and every setting.             *)
(***************************************************************************)
EXTENDS RedisQueue, SequenceTheorems, TLAPS

USE BoundsAssumption, InboxAssumption, MixesAssumption
USE DEF keyVars, groupVars, callVars, sendVars, receiveVars, usePubsub, expiry, groupExpiry,
    AfterPop

-----------------------------------------------------------------------------
(* Sequences, of which the steps need no more than this.                   *)
LEMMA TailElements ==
    ASSUME NEW S, NEW q \in Seq(S), q # <<>>
    PROVE  /\ Len(q) \in Nat /\ Len(q) >= 1 /\ Head(q) = q[1] /\ q[1] \in S
           /\ Tail(q) \in Seq(S) /\ Len(Tail(q)) = Len(q) - 1
           /\ \A i \in 1 .. Len(q) - 1 : Tail(q)[i] = q[i + 1]
OBVIOUS

LEMMA NoElements ==
    ASSUME NEW S
    PROVE  <<>> \in Seq(S) /\ Len(<<>>) = 0
OBVIOUS

LEMMA AppendElements ==
    ASSUME NEW S, NEW q \in Seq(S), NEW e \in S
    PROVE  /\ Append(q, e) \in Seq(S) /\ Len(Append(q, e)) = Len(q) + 1 /\ Len(q) \in Nat
           /\ Append(q, e)[Len(q) + 1] = e
           /\ \A i \in 1 .. Len(q) : Append(q, e)[i] = q[i]
OBVIOUS

-----------------------------------------------------------------------------
(* Types.  The places of a call are those of its operation, and messages   *)
(* are numbered from 1.                                                    *)
OpPlaces ==
    \A s \in Senders :
        /\ sender[s] \in {"smembers", "fan"} => op[s].op = "fan"
        /\ sender[s] = "sadd" => op[s].op = "add"
QueueRange == \A i \in 1 .. Len(queue) : queue[i] \in 1 .. pushed
TInv == TypeOK /\ OpPlaces /\ QueueRange

(* What a sender's step may do to the places, its call and the keys.       *)
SenderTypes ==
    /\ op \in [Senders -> Asks \cup {NoCall}]
    /\ todo \in [Senders -> SUBSET Channels] /\ found \subseteq Senders
    /\ sender \in [Senders -> SenderPlaces]
    /\ sends \in Nat
    /\ \A s \in Senders :
          /\ (op[s] = NoCall) = (sender[s] = "idle")
          /\ todo[s] # {} => op[s].op = "fan" /\ s \in found
    /\ OpPlaces

LEMMA Operations ==
    /\ NoCall \notin Asks /\ NoCall.op = "none"
    /\ \A a \in Asks : a.op \in {"add", "discard", "send", "fan"} /\ a.channel \in Channels
BY DEF Asks, NoCall, Channels

LEMMA EndsTypes ==
    ASSUME SenderTypes, NEW s \in Senders, Ends(s)
    PROVE  SenderTypes'
<1>1. /\ op' = [op EXCEPT ![s] = NoCall] /\ sender' = [sender EXCEPT ![s] = "idle"]
      /\ todo' = [todo EXCEPT ![s] = {}] /\ found' = found \ {s} /\ sends' = sends
    BY DEF Ends, SenderGoes
<1>2. QED
    BY <1>1 DEF SenderTypes, OpPlaces, SenderPlaces

LEMMA GoesOnTypes ==
    ASSUME SenderTypes, NEW s \in Senders, NEW place \in SenderPlaces, sender[s] # "idle",
           GoesOn(s, place), place \notin {"idle", "smembers", "sadd"},
           place = "fan" => op[s].op = "fan"
    PROVE  SenderTypes'
<1>1. sender' = [sender EXCEPT ![s] = place] /\ UNCHANGED callVars
    BY DEF GoesOn, SenderGoes
<1>2. QED
    BY <1>1 DEF SenderTypes, OpPlaces

LEMMA GoesOnOrEndsTypes ==
    ASSUME SenderTypes, NEW s \in Senders, NEW place \in SenderPlaces, sender[s] # "idle",
           GoesOnOrEnds(s, place), place \notin {"smembers", "sadd"},
           place = "fan" => op[s].op = "fan"
    PROVE  SenderTypes'
BY EndsTypes, GoesOnTypes DEF GoesOnOrEnds

LEMMA AfterPlaces ==
    ASSUME NEW s
    PROVE  \A place \in {AfterPush(s), AfterExpire(s), AfterSend(s)} :
               /\ place \in SenderPlaces /\ place \notin {"smembers", "sadd"}
               /\ place = "fan" => op[s].op = "fan"
BY DEF AfterPush, AfterExpire, AfterSend, SenderPlaces

(* Every step keeps what is the senders'.                                  *)
LEMMA SenderTypesKept ==
    ASSUME TInv, Next
    PROVE  SenderTypes'
<1> USE DEF SenderTypes
<1>0. SenderTypes
    BY DEF TInv, TypeOK
<1>1. ASSUME NEW s \in Senders, Push(s) PROVE SenderTypes'
    BY <1>0, <1>1, AfterPlaces, GoesOnOrEndsTypes DEF Push
<1>2. ASSUME NEW s \in Senders, SendExpire(s) PROVE SenderTypes'
    BY <1>0, <1>2, AfterPlaces, GoesOnOrEndsTypes DEF SendExpire
<1>3. ASSUME NEW s \in Senders, Publish(s) PROVE SenderTypes'
    BY <1>0, <1>3, AfterPlaces, GoesOnOrEndsTypes DEF Publish
<1>4. ASSUME NEW s \in Senders, SAdd(s) PROVE SenderTypes'
    BY <1>0, <1>4, GoesOnOrEndsTypes DEF SAdd, SenderPlaces
<1>5. ASSUME NEW s \in Senders,
             SRem(s) \/ FanOutRaises(s) \/ GroupExpire(s) \/ SendFails(s) \/ PushUnanswered(s)
                 \/ AddUnanswered(s)
      PROVE  SenderTypes'
    BY <1>0, <1>5, EndsTypes DEF SRem, FanOutRaises, GroupExpire, SendFails, PushUnanswered,
       AddUnanswered
<1>6. ASSUME NEW s \in Senders, SMembers(s) PROVE SenderTypes'
    <2>1. /\ sender[s] = "smembers" /\ sender' = [sender EXCEPT ![s] = "fan"]
          /\ todo' = [todo EXCEPT ![s] = members] /\ UNCHANGED <<op, sends>>
          /\ found' = IF members = {} THEN found ELSE found \cup {s}
          /\ members \subseteq Channels
        BY <1>6 DEF SMembers, SenderGoes, TInv, TypeOK
    <2>2. QED
        BY <1>0, <2>1 DEF OpPlaces, SenderPlaces
<1>7. ASSUME NEW s \in Senders, NEW c \in Channels, FanOut(s, c) PROVE SenderTypes'
    <2>1. /\ sender[s] = "fan" /\ c \in todo[s]
          /\ sender' = [sender EXCEPT ![s] = IF c = Inbox THEN "push" ELSE "fan"]
          /\ todo' = [todo EXCEPT ![s] = todo[s] \ {c}] /\ UNCHANGED <<op, sends, found>>
        BY <1>7 DEF FanOut, SenderGoes
    <2>2. QED
        BY <1>0, <2>1 DEF OpPlaces, SenderPlaces
<1>8. ASSUME NEW s \in Senders, FanOutEnds(s) PROVE SenderTypes'
    BY <1>0, <1>8, GoesOnOrEndsTypes DEF FanOutEnds, SenderPlaces
<1>9. ASSUME NEW s \in Senders, NEW a \in Asks, Call(s, a) PROVE SenderTypes'
    <2>1. /\ sender[s] = "idle" /\ sends' = sends + 1 /\ op' = [op EXCEPT ![s] = a]
          /\ sender' = [sender EXCEPT ![s] = FirstCommand(a.op)] /\ UNCHANGED <<todo, found>>
        BY <1>9 DEF Call, SenderGoes
    <2>2. /\ FirstCommand(a.op) \in SenderPlaces \ {"idle", "fan"}
          /\ FirstCommand(a.op) = "smembers" => a.op = "fan"
          /\ FirstCommand(a.op) = "sadd" => a.op = "add"
        BY Operations DEF FirstCommand, SenderPlaces
    <2>3. todo[s] = {}
        BY <1>0, <2>1, Operations
    <2>4. op' \in [Senders -> Asks \cup {NoCall}] /\ sender' \in [Senders -> SenderPlaces]
        BY <1>0, <2>1, <2>2
    <2>5. QED
        BY <1>0, <2>1, <2>2, <2>3, <2>4, Operations DEF OpPlaces
<1>10. CASE UNCHANGED <<sender, callVars>>
    BY <1>0, <1>10 DEF OpPlaces
<1>11. ASSUME NEW r \in Receivers,
              Receive(r) \/ ReceiverStep(r) \/ TimesOut(r) \/ ReceiveFails(r) \/ PopIsLost(r)
       PROVE  UNCHANGED <<sender, callVars>>
    BY <1>11 DEF Receive, ReceiverStep, Lpop, LpopEmpty, ReceiveExpire, Subscribe, GetMessage, GetNone,
       Unsubscribe, Blpop, Pop, Moves, TimesOut, ReceiveFails, PopIsLost
<1>12. ASSUME NEW t, Close(t) \/ KeyExpires \/ GroupLapses PROVE UNCHANGED <<sender, callVars>>
    BY <1>12 DEF Close, KeyExpires, GroupLapses
<1>13. QED
    BY <1>1, <1>2, <1>3, <1>4, <1>5, <1>6, <1>7, <1>8, <1>9, <1>10, <1>11, <1>12 DEF Next, SenderStep

(* A message that is popped is numbered from 1, and the others stay so.    *)
LEMMA PopTypes ==
    ASSUME TInv, queue # <<>>
    PROVE  /\ Head(queue) \in Nat \ {0} /\ Head(queue) \in 1 .. pushed
           /\ Tail(queue) \in Seq(Nat)
           /\ \A i \in 1 .. Len(Tail(queue)) : Tail(queue)[i] \in 1 .. pushed
<1>1. queue \in Seq(Nat) /\ pushed \in Nat
    BY DEF TInv, TypeOK
<1>2. \A i \in 1 .. Len(queue) : queue[i] \in 1 .. pushed
    BY DEF TInv, QueueRange
<1>3. QED
    BY <1>1, <1>2, TailElements

(* What the senders' steps and the receivers' steps do to the rest.        *)
QueueTypes ==
    /\ queue \in Seq(Nat) /\ pushed \in Nat /\ QueueRange /\ ttl \in BOOLEAN
ReceiverTypes ==
    /\ receiver \in [Receivers -> ReceiverPlaces] /\ held \in [Receivers -> Nat]
    /\ got \in [Receivers -> Seq(Nat)]
    /\ \A r \in Receivers : (held[r] # 0) = (receiver[r] = "expire")

LEMMA PushTypes ==
    ASSUME QueueTypes, pushed' = pushed + 1, queue' = Append(queue, pushed + 1), UNCHANGED ttl
    PROVE  QueueTypes'
<1>1. /\ queue' \in Seq(Nat) /\ Len(queue') = Len(queue) + 1 /\ Len(queue) \in Nat
      /\ queue'[Len(queue) + 1] = pushed + 1
      /\ \A i \in 1 .. Len(queue) : queue'[i] = queue[i]
    BY AppendElements DEF QueueTypes
<1>2. ASSUME NEW i \in 1 .. Len(queue') PROVE queue'[i] \in 1 .. pushed'
    <2>1. CASE i = Len(queue) + 1
        BY <1>1, <2>1 DEF QueueTypes
    <2>2. CASE i \in 1 .. Len(queue)
        BY <1>1, <2>2 DEF QueueTypes, QueueRange
    <2>3. QED
        BY <1>1, <2>1, <2>2
<1>3. QED
    BY <1>1, <1>2 DEF QueueTypes, QueueRange

LEMMA QueueTypesKept ==
    ASSUME TInv, Next
    PROVE  QueueTypes'
<1>0. QueueTypes
    BY DEF TInv, TypeOK, QueueTypes
<1>1. CASE pushed' = pushed + 1 /\ queue' = Append(queue, pushed + 1) /\ UNCHANGED ttl
    BY <1>0, <1>1, PushTypes
<1>2. CASE queue # <<>> /\ queue' = Tail(queue) /\ ttl' = (ttl /\ Tail(queue) # <<>>)
           /\ UNCHANGED pushed
    BY <1>0, <1>2, PopTypes DEF QueueTypes, QueueRange
<1>3. CASE UNCHANGED <<queue, pushed>> /\ ttl' \in BOOLEAN
    BY <1>0, <1>3 DEF QueueTypes, QueueRange
<1>4. CASE queue' = <<>> /\ ttl' = FALSE /\ UNCHANGED pushed
    <2>1. queue' \in Seq(Nat) /\ Len(queue') = 0
        BY <1>4, NoElements
    <2>2. 1 .. Len(queue') = {}
        BY <2>1
    <2>3. QueueRange'
        BY <2>2 DEF QueueRange
    <2>4. QED
        BY <1>0, <1>4, <2>1, <2>3 DEF QueueTypes
<1>5. ASSUME NEW s \in Senders, Push(s) \/ PushUnanswered(s)
      PROVE  pushed' = pushed + 1 /\ queue' = Append(queue, pushed + 1) /\ UNCHANGED ttl
    BY <1>5 DEF Push, PushUnanswered
<1>6. ASSUME NEW s \in Senders,
             \/ SendExpire(s) \/ Publish(s) \/ SAdd(s) \/ SRem(s) \/ SMembers(s)
             \/ FanOutRaises(s) \/ FanOutEnds(s) \/ GroupExpire(s) \/ SendFails(s)
             \/ AddUnanswered(s) \/ \E c \in Channels : FanOut(s, c)
             \/ \E a \in Asks : Call(s, a)
      PROVE  UNCHANGED <<queue, pushed>> /\ ttl' \in BOOLEAN
    BY <1>0, <1>6 DEF QueueTypes, SendExpire, SetTtl, Publish, SAdd, SRem, SMembers, FanOutRaises,
       FanOutEnds, GroupExpire, SendFails, AddUnanswered, FanOut, Call
<1>7. ASSUME NEW r \in Receivers, Lpop(r) \/ Blpop(r) \/ PopIsLost(r)
      PROVE  queue # <<>> /\ queue' = Tail(queue) /\ ttl' = (ttl /\ Tail(queue) # <<>>)
             /\ UNCHANGED pushed
    BY <1>7 DEF Lpop, Blpop, Pop, PopIsLost
<1>8. ASSUME NEW r \in Receivers,
             \/ Receive(r) \/ LpopEmpty(r) \/ ReceiveExpire(r) \/ Subscribe(r) \/ GetMessage(r)
             \/ GetNone(r) \/ Unsubscribe(r) \/ TimesOut(r) \/ ReceiveFails(r)
      PROVE  UNCHANGED <<queue, pushed>> /\ ttl' \in BOOLEAN
    BY <1>0, <1>8 DEF QueueTypes, Receive, LpopEmpty, ReceiveExpire, SetTtl, Subscribe, GetMessage,
       GetNone, Unsubscribe, TimesOut, Moves, ReceiveFails
<1>9. ASSUME NEW t, Close(t) \/ GroupLapses
      PROVE  UNCHANGED <<queue, pushed>> /\ ttl' \in BOOLEAN
    BY <1>0, <1>9 DEF QueueTypes, Close, GroupLapses
<1>10. ASSUME KeyExpires PROVE queue' = <<>> /\ ttl' = FALSE /\ UNCHANGED pushed
    BY <1>10 DEF KeyExpires
<1>11. QED
    BY <1>1, <1>2, <1>3, <1>4, <1>5, <1>6, <1>7, <1>8, <1>9, <1>10 DEF Next, SenderStep, ReceiverStep

LEMMA ReceiverTypesKept ==
    ASSUME TInv, Next
    PROVE  ReceiverTypes'
<1>0. ReceiverTypes
    BY DEF TInv, TypeOK, ReceiverTypes
<1>1. CASE UNCHANGED <<receiver, held, got>>
    BY <1>0, <1>1 DEF ReceiverTypes
<1>2. ASSUME NEW s \in Senders,
             \/ SenderStep(s) \/ SendFails(s) \/ PushUnanswered(s) \/ AddUnanswered(s)
             \/ \E a \in Asks : Call(s, a)
      PROVE  UNCHANGED <<receiver, held, got>>
    BY <1>2 DEF SenderStep, Push, SendExpire, Publish, SAdd, SRem, SMembers, FanOutRaises,
       FanOutEnds, GroupExpire, SendFails, PushUnanswered, AddUnanswered, FanOut, Call
<1>3. ASSUME NEW t, Close(t) \/ KeyExpires \/ GroupLapses PROVE UNCHANGED <<receiver, held, got>>
    BY <1>3 DEF Close, KeyExpires, GroupLapses
<1>4. ASSUME NEW r \in Receivers, Lpop(r) \/ Blpop(r) PROVE ReceiverTypes'
    <2>1. Pop(r) /\ receiver[r] \in {"pop", "block"}
        BY <1>4 DEF Lpop, Blpop
    <2>2. Head(queue) \in Nat \ {0}
        BY <2>1, PopTypes DEF Pop
    <2>3. held[r] = 0
        BY <1>0, <2>1 DEF ReceiverTypes
    <2>4. CASE expiry
        <3>1. /\ receiver' = [receiver EXCEPT ![r] = "expire"] /\ got' = got
              /\ held' = [held EXCEPT ![r] = Head(queue)]
            BY <2>1, <2>4 DEF Pop, ReceiverGoes
        <3>2. QED
            BY <1>0, <2>2, <3>1 DEF ReceiverTypes, ReceiverPlaces
    <2>5. CASE ~expiry
        <3>1. /\ receiver' = [receiver EXCEPT ![r] = "idle"] /\ held' = held
              /\ got' = [got EXCEPT ![r] = Append(got[r], Head(queue))]
            BY <2>1, <2>5 DEF Pop, ReceiverGoes
        <3>2. Append(got[r], Head(queue)) \in Seq(Nat)
            BY <1>0, <2>2, AppendElements DEF ReceiverTypes
        <3>3. got' \in [Receivers -> Seq(Nat)]
            BY <1>0, <3>1, <3>2 DEF ReceiverTypes
        <3>4. QED
            BY <1>0, <2>3, <3>1, <3>3 DEF ReceiverTypes, ReceiverPlaces
    <2>6. QED
        BY <2>4, <2>5
<1>5. ASSUME NEW r \in Receivers, ReceiveExpire(r) PROVE ReceiverTypes'
    <2>1. /\ receiver' = [receiver EXCEPT ![r] = "idle"] /\ held' = [held EXCEPT ![r] = 0]
          /\ got' = [got EXCEPT ![r] = Append(got[r], held[r])]
        BY <1>5 DEF ReceiveExpire, Release, ReceiverGoes
    <2>2. Append(got[r], held[r]) \in Seq(Nat)
        BY <1>0, AppendElements DEF ReceiverTypes
    <2>3. got' \in [Receivers -> Seq(Nat)]
        BY <1>0, <2>1, <2>2 DEF ReceiverTypes
    <2>4. QED
        BY <1>0, <2>1, <2>3 DEF ReceiverTypes, ReceiverPlaces
<1>6. ASSUME NEW r \in Receivers, ReceiveFails(r) PROVE ReceiverTypes'
    <2>1. /\ receiver' = [receiver EXCEPT ![r] = "idle"] /\ held' = [held EXCEPT ![r] = 0]
          /\ got' = got
        BY <1>6 DEF ReceiveFails, Release, ReceiverGoes
    <2>2. QED
        BY <1>0, <2>1 DEF ReceiverTypes, ReceiverPlaces
<1>7. ASSUME NEW r \in Receivers, NEW place \in ReceiverPlaces, place # "expire",
             receiver[r] # "expire", ReceiverGoes(r, place), UNCHANGED <<held, got>>
      PROVE  ReceiverTypes'
    BY <1>0, <1>7 DEF ReceiverTypes, ReceiverGoes
<1>8. ASSUME NEW r \in Receivers,
             \/ Receive(r) \/ LpopEmpty(r) \/ Subscribe(r) \/ GetMessage(r)
             \/ GetNone(r) \/ Unsubscribe(r) \/ TimesOut(r) \/ PopIsLost(r)
      PROVE  ReceiverTypes'
    BY <1>7, <1>8 DEF Receive, LpopEmpty, Subscribe, GetMessage, GetNone, Unsubscribe, TimesOut,
       Moves, PopIsLost, ReceiverPlaces
<1>9. QED
    BY <1>1, <1>2, <1>3, <1>4, <1>5, <1>6, <1>8 DEF Next, ReceiverStep

RestTypes ==
    /\ mix \in Mixes /\ members \subseteq Channels /\ groupTtl \in BOOLEAN
    /\ groupUntimed \in BOOLEAN /\ closed \subseteq Senders \cup Receivers
    /\ timed \subseteq Receivers /\ notified \subseteq Receivers
    /\ faults \in Nat /\ lost \subseteq Nat /\ untimed \in BOOLEAN

LEMMA FailureType ==
    ASSUME TypeOK, Failure \/ UNCHANGED faults
    PROVE  faults' \in Nat
BY DEF TypeOK, Failure

LEMMA RestTypesKept ==
    ASSUME TInv, Next
    PROVE  RestTypes'
<1>0. TypeOK
    BY DEF TInv
<1>1. ASSUME NEW s \in Senders, SAdd(s) \/ AddUnanswered(s) PROVE members' \subseteq Channels
    <2>1. op[s] \in Asks
        BY <1>0, <1>1 DEF TypeOK, SAdd, AddUnanswered
    <2>2. QED
        BY <1>0, <1>1, <2>1, Operations DEF TypeOK, SAdd, AddUnanswered
<1>2. ASSUME NEW r \in Receivers, PopIsLost(r) PROVE lost' \subseteq Nat
    BY <1>0, <1>2, PopTypes DEF TypeOK, PopIsLost
<1>3. ASSUME KeyExpires PROVE lost' \subseteq Nat
    <2>1. queue \in Seq(Nat) /\ lost \subseteq Nat
        BY <1>0 DEF TypeOK
    <2>2. \A i \in DOMAIN queue : queue[i] \in Nat
        BY <2>1
    <2>3. lost' = lost \cup {queue[i] : i \in DOMAIN queue}
        BY <1>3 DEF KeyExpires
    <2>4. QED
        BY <2>1, <2>2, <2>3
<1>4. ASSUME NEW r \in Receivers, ReceiveFails(r) PROVE lost' \subseteq Nat
    <2>1. held[r] \in Nat /\ lost \subseteq Nat
        BY <1>0 DEF TypeOK
    <2>2. QED
        BY <1>4, <2>1 DEF ReceiveFails
<1>5. ASSUME NEW s \in Senders,
             SenderStep(s) \/ SendFails(s) \/ PushUnanswered(s) \/ AddUnanswered(s)
                 \/ \E a \in Asks : Call(s, a)
      PROVE  RestTypes'
    <2>1. UNCHANGED <<mix, closed, timed, lost>>
        BY <1>5 DEF SenderStep, Push, SendExpire, Publish, SAdd, SRem, SMembers, FanOutRaises,
           FanOutEnds, GroupExpire, SendFails, PushUnanswered, AddUnanswered, FanOut, Call
    <2>2. notified' \subseteq Receivers
        BY <1>0, <1>5 DEF TypeOK, SenderStep, Push, SendExpire, Publish, SAdd, SRem, SMembers,
           FanOutRaises, FanOutEnds, GroupExpire, SendFails, PushUnanswered, AddUnanswered, FanOut,
           Call
    <2>6. Failure \/ UNCHANGED faults
        BY <1>5 DEF SenderStep, Push, SendExpire, Publish, SAdd, SRem, SMembers, FanOutRaises,
           FanOutEnds, GroupExpire, SendFails, PushUnanswered, AddUnanswered, FanOut, Call
    <2>3. untimed' \in BOOLEAN
        BY <1>0, <1>5 DEF TypeOK, SenderStep, Push, SendExpire, Publish, SAdd, SRem, SMembers,
           FanOutRaises, FanOutEnds, GroupExpire, SendFails, PushUnanswered, AddUnanswered, FanOut,
           Call
    <2>4. groupTtl' \in BOOLEAN /\ groupUntimed' \in BOOLEAN
        BY <1>0, <1>5 DEF TypeOK, SenderStep, Push, SendExpire, Publish, SAdd, SRem, SMembers,
           FanOutRaises, FanOutEnds, GroupExpire, SendFails, PushUnanswered, AddUnanswered, FanOut,
           Call
    <2>5. members' \subseteq Channels
        BY <1>0, <1>1, <1>5 DEF TypeOK, SenderStep, Push, SendExpire, Publish, SRem, SMembers,
           FanOutRaises, FanOutEnds, GroupExpire, SendFails, PushUnanswered, FanOut, Call
    <2>7. QED
        BY <1>0, <2>1, <2>2, <2>6, <2>3, <2>4, <2>5, FailureType DEF RestTypes, TypeOK
<1>6. ASSUME NEW r \in Receivers,
             Receive(r) \/ ReceiverStep(r) \/ TimesOut(r) \/ ReceiveFails(r) \/ PopIsLost(r)
      PROVE  RestTypes'
    <2>1. UNCHANGED <<mix, groupVars, closed, untimed>>
        BY <1>6 DEF Receive, ReceiverStep, Lpop, LpopEmpty, ReceiveExpire, Subscribe, GetMessage,
           GetNone, Unsubscribe, Blpop, Pop, Moves, TimesOut, ReceiveFails, PopIsLost
    <2>6. Failure \/ UNCHANGED faults
        BY <1>6 DEF Receive, ReceiverStep, Lpop, LpopEmpty, ReceiveExpire, Subscribe, GetMessage,
           GetNone, Unsubscribe, Blpop, Pop, Moves, TimesOut, ReceiveFails, PopIsLost
    <2>2. timed' \subseteq Receivers /\ notified' \subseteq Receivers
        BY <1>0, <1>6 DEF TypeOK, Receive, ReceiverStep, Lpop, LpopEmpty, ReceiveExpire,
           Subscribe, GetMessage, GetNone, Unsubscribe, Blpop, Pop, Moves, TimesOut, ReceiveFails,
           PopIsLost
    <2>3. lost' \subseteq Nat
        BY <1>0, <1>2, <1>4, <1>6 DEF TypeOK, Receive, ReceiverStep, Lpop, LpopEmpty, ReceiveExpire,
           Subscribe, GetMessage, GetNone, Unsubscribe, Blpop, Pop, Moves, TimesOut
    <2>4. QED
        BY <1>0, <2>1, <2>6, <2>2, <2>3, FailureType DEF RestTypes, TypeOK
<1>7. ASSUME NEW t \in Senders \cup Receivers, Close(t) PROVE RestTypes'
    BY <1>0, <1>7 DEF RestTypes, TypeOK, Close
<1>8. ASSUME KeyExpires PROVE RestTypes'
    BY <1>0, <1>3, <1>8, FailureType DEF RestTypes, TypeOK, KeyExpires
<1>9. ASSUME GroupLapses PROVE RestTypes'
    BY <1>0, <1>9, FailureType DEF RestTypes, TypeOK, GroupLapses
<1>10. QED
    BY <1>5, <1>6, <1>7, <1>8, <1>9 DEF Next

LEMMA TypesInductive ==
    TInv /\ [Next]_vars => TInv'
<1>1. ASSUME TInv, Next PROVE TInv'
    BY <1>1, SenderTypesKept, QueueTypesKept, ReceiverTypesKept, RestTypesKept
       DEF TInv, TypeOK, SenderTypes, QueueTypes, ReceiverTypes, RestTypes
<1>2. ASSUME TInv, UNCHANGED vars PROVE TInv'
    BY <1>2 DEF vars, TInv, TypeOK, OpPlaces, QueueRange
<1>3. QED
    BY <1>1, <1>2

LEMMA TypesInit ==
    Init => TInv
<1> SUFFICES ASSUME Init PROVE TInv
    OBVIOUS
<1>1. /\ queue = <<>> /\ got = [r \in Receivers |-> <<>>]
      /\ sender = [s \in Senders |-> "idle"] /\ receiver = [r \in Receivers |-> "idle"]
      /\ op = [s \in Senders |-> NoCall] /\ todo = [s \in Senders |-> {}]
      /\ held = [r \in Receivers |-> 0]
    BY DEF Init
<1>2. queue \in Seq(Nat) /\ got \in [Receivers -> Seq(Nat)] /\ 1 .. Len(queue) = {}
    BY <1>1, NoElements
<1>3. /\ sender \in [Senders -> SenderPlaces] /\ receiver \in [Receivers -> ReceiverPlaces]
      /\ op \in [Senders -> Asks \cup {NoCall}] /\ todo \in [Senders -> SUBSET Channels]
      /\ held \in [Receivers -> Nat]
    BY <1>1 DEF SenderPlaces, ReceiverPlaces
<1>4. /\ \A s \in Senders : sender[s] = "idle" /\ op[s] = NoCall /\ todo[s] = {}
      /\ \A r \in Receivers : held[r] = 0 /\ receiver[r] = "idle"
    BY <1>1
<1>5. /\ mix \in Mixes /\ ttl = FALSE /\ members = {} /\ groupTtl = FALSE /\ groupUntimed = FALSE
      /\ closed = {} /\ found = {} /\ timed = {} /\ notified = {} /\ sends = 0 /\ pushed = 0
      /\ faults = 0 /\ lost = {} /\ untimed = FALSE
    BY DEF Init
<1>6. TypeOK
    BY <1>2, <1>3, <1>4, <1>5 DEF TypeOK
<1>7. OpPlaces /\ QueueRange
    BY <1>2, <1>4 DEF OpPlaces, QueueRange
<1>8. QED
    BY <1>6, <1>7 DEF TInv

(* The type invariant holds: a receiver holds a message exactly between    *)
(* its pop and its return, and only a group_send has channels to do.       *)
THEOREM TypeCorrect == Spec => []TypeOK
<1>1. Spec => []TInv
    BY TypesInit, TypesInductive, PTL DEF Spec
<1>2. TInv => TypeOK
    BY DEF TInv
<1>3. QED
    BY <1>1, <1>2, PTL

-----------------------------------------------------------------------------
(* Keys and their time to live.  Only the EXPIRE of a group_add accounts   *)
(* for a set without one: that of a group_send may fail with nobody to see *)
(* it.                                                                     *)
InboxTimed ==
    expiry /\ queue # <<>> /\ ~ttl =>
        untimed \/ \E s \in Senders : sender[s] = "expire"
GroupTimed ==
    groupExpiry /\ members # {} /\ ~groupTtl =>
        groupUntimed \/ \E s \in Senders : sender[s] = "expiregroup" /\ op[s].op = "add"

(* A sender's step moves that sender alone.                                *)
LEMMA OthersStay ==
    ASSUME TypeOK, NEW s \in Senders,
           \/ SenderStep(s) \/ SendFails(s) \/ PushUnanswered(s) \/ AddUnanswered(s)
           \/ \E a \in Asks : Call(s, a)
    PROVE  \A t \in Senders \ {s} : sender'[t] = sender[t] /\ op'[t] = op[t]
<1>1. /\ \E place : sender' = [sender EXCEPT ![s] = place]
      /\ op' = op \/ \E a : op' = [op EXCEPT ![s] = a]
    BY DEF SenderStep, Push, SendExpire, Publish, SAdd, SRem, SMembers, FanOutRaises, FanOutEnds,
       GroupExpire, SendFails, PushUnanswered, AddUnanswered, FanOut, Call, GoesOnOrEnds, GoesOn, Ends,
       SenderGoes
<1>2. sender \in [Senders -> SenderPlaces] /\ op \in [Senders -> Asks \cup {NoCall}]
    BY DEF TypeOK
<1>3. QED
    BY <1>1, <1>2

LEMMA ReceiversAndKeysStay ==
    ASSUME NEW r, NEW t,
           \/ Receive(r) \/ ReceiverStep(r) \/ TimesOut(r) \/ ReceiveFails(r) \/ PopIsLost(r)
           \/ Close(t) \/ KeyExpires \/ GroupLapses
    PROVE  UNCHANGED <<mix, sender, op, untimed, groupUntimed>>
BY DEF Receive, ReceiverStep, Lpop, LpopEmpty, ReceiveExpire, Subscribe, GetMessage, GetNone,
   Unsubscribe, Blpop, Pop, Moves, TimesOut, ReceiveFails, PopIsLost, Close, KeyExpires, GroupLapses

LEMMA InboxTimedKept ==
    ASSUME TInv, InboxTimed, Next
    PROVE  InboxTimed'
<1>0. TypeOK /\ sender \in [Senders -> SenderPlaces] /\ queue \in Seq(Nat)
    BY DEF TInv, TypeOK
<1>1. ASSUME NEW s \in Senders, Push(s) PROVE InboxTimed'
    <2>1. CASE expiry
        <3>1. sender' = [sender EXCEPT ![s] = "expire"]
            BY <1>1, <2>1 DEF Push, AfterPush, GoesOnOrEnds, GoesOn, SenderGoes
        <3>2. sender'[s] = "expire"
            BY <1>0, <3>1
        <3>3. QED
            BY <3>2 DEF InboxTimed
    <2>2. CASE ~expiry
        BY <1>1, <2>2 DEF Push, InboxTimed
    <2>3. QED
        BY <2>1, <2>2
<1>2. ASSUME NEW s \in Senders, SendExpire(s) PROVE InboxTimed'
    BY <1>2 DEF SendExpire, SetTtl, InboxTimed
<1>3. ASSUME NEW s \in Senders, PushUnanswered(s) PROVE InboxTimed'
    BY <1>3 DEF PushUnanswered, InboxTimed
<1>4. ASSUME NEW s \in Senders,
             \/ Publish(s) \/ SAdd(s) \/ SRem(s) \/ SMembers(s) \/ FanOutRaises(s) \/ FanOutEnds(s)
             \/ GroupExpire(s) \/ AddUnanswered(s) \/ (\E c \in Channels : FanOut(s, c))
             \/ \E a \in Asks : Call(s, a)
      PROVE  InboxTimed'
    <2>1. UNCHANGED <<mix, keyVars, untimed>> /\ sender[s] # "expire"
        BY <1>4 DEF Publish, SAdd, SRem, SMembers, FanOutRaises, FanOutEnds, GroupExpire, AddUnanswered,
           FanOut, Call
    <2>2. \A t \in Senders \ {s} : sender'[t] = sender[t]
        BY <1>0, <1>4, OthersStay DEF SenderStep
    <2>3. QED
        BY <2>1, <2>2 DEF InboxTimed
<1>5. ASSUME NEW s \in Senders, SendFails(s) PROVE InboxTimed'
    <2>1. UNCHANGED <<mix, keyVars>> /\ (untimed' <=> untimed \/ sender[s] = "expire")
        BY <1>5 DEF SendFails
    <2>2. \A t \in Senders \ {s} : sender'[t] = sender[t]
        BY <1>0, <1>5, OthersStay
    <2>3. QED
        BY <2>1, <2>2 DEF InboxTimed
<1>6. ASSUME NEW r \in Receivers, Lpop(r) \/ Blpop(r) \/ PopIsLost(r) PROVE InboxTimed'
    <2>1. queue # <<>> /\ (ttl' <=> ttl /\ queue' # <<>>)
        BY <1>6 DEF Lpop, Blpop, Pop, PopIsLost
    <2>2. UNCHANGED <<mix, sender, untimed>>
        BY <1>6, ReceiversAndKeysStay DEF ReceiverStep
    <2>3. QED
        BY <2>1, <2>2 DEF InboxTimed
<1>7. ASSUME NEW r \in Receivers, ReceiveExpire(r) PROVE InboxTimed'
    BY <1>7 DEF ReceiveExpire, SetTtl, InboxTimed
<1>8. ASSUME NEW r, NEW t,
             \/ Receive(r) \/ LpopEmpty(r) \/ Subscribe(r) \/ GetMessage(r) \/ GetNone(r)
             \/ Unsubscribe(r) \/ TimesOut(r) \/ ReceiveFails(r) \/ Close(t) \/ GroupLapses
      PROVE  InboxTimed'
    BY <1>8 DEF InboxTimed, Receive, LpopEmpty, Subscribe, GetMessage, GetNone, Unsubscribe, Moves,
       TimesOut, ReceiveFails, Close, GroupLapses
<1>9. ASSUME KeyExpires PROVE InboxTimed'
    BY <1>9 DEF KeyExpires, InboxTimed
<1>10. QED
    BY <1>1, <1>2, <1>3, <1>4, <1>5, <1>6, <1>7, <1>8, <1>9 DEF Next, SenderStep, ReceiverStep

LEMMA GroupTimedKept ==
    ASSUME TInv, GroupTimed, Next
    PROVE  GroupTimed'
<1>0. /\ TypeOK /\ sender \in [Senders -> SenderPlaces] /\ op \in [Senders -> Asks \cup {NoCall}]
      /\ OpPlaces
    BY DEF TInv, TypeOK
<1>1. ASSUME NEW s \in Senders, SAdd(s) PROVE GroupTimed'
    <2>1. CASE groupExpiry
        <3>1. sender' = [sender EXCEPT ![s] = "expiregroup"] /\ op' = op /\ sender[s] = "sadd"
            BY <1>1, <2>1 DEF SAdd, GoesOnOrEnds, GoesOn, SenderGoes
        <3>2. sender'[s] = "expiregroup" /\ op'[s].op = "add"
            BY <1>0, <3>1 DEF OpPlaces
        <3>3. QED
            BY <3>2 DEF GroupTimed
    <2>2. CASE ~groupExpiry
        BY <1>1, <2>2 DEF SAdd, GroupTimed
    <2>3. QED
        BY <2>1, <2>2
<1>2. ASSUME NEW s \in Senders, GroupExpire(s) PROVE GroupTimed'
    BY <1>2 DEF GroupExpire, GroupTimed
<1>3. ASSUME NEW s \in Senders, AddUnanswered(s) PROVE GroupTimed'
    BY <1>3 DEF AddUnanswered, GroupTimed
<1>4. ASSUME NEW s \in Senders,
             \/ Push(s) \/ SendExpire(s) \/ Publish(s) \/ SMembers(s) \/ FanOutRaises(s)
             \/ FanOutEnds(s) \/ PushUnanswered(s) \/ (\E c \in Channels : FanOut(s, c))
             \/ \E a \in Asks : Call(s, a)
      PROVE  GroupTimed'
    <2>1. UNCHANGED <<mix, groupVars>> /\ sender[s] # "expiregroup"
        BY <1>4 DEF Push, SendExpire, Publish, SMembers, FanOutRaises, FanOutEnds, PushUnanswered,
           FanOut, Call
    <2>2. \A t \in Senders \ {s} : sender'[t] = sender[t] /\ op'[t] = op[t]
        BY <1>0, <1>4, OthersStay DEF SenderStep
    <2>3. QED
        BY <2>1, <2>2 DEF GroupTimed
<1>5. ASSUME NEW s \in Senders, SendFails(s) PROVE GroupTimed'
    <2>1. /\ UNCHANGED <<mix, members, groupTtl>>
          /\ groupUntimed' <=> groupUntimed \/ (sender[s] = "expiregroup" /\ op[s].op = "add")
        BY <1>5 DEF SendFails
    <2>2. \A t \in Senders \ {s} : sender'[t] = sender[t] /\ op'[t] = op[t]
        BY <1>0, <1>5, OthersStay
    <2>3. QED
        BY <2>1, <2>2 DEF GroupTimed
<1>6. ASSUME NEW s \in Senders, SRem(s) PROVE GroupTimed'
    <2>1. /\ UNCHANGED <<mix, groupUntimed>> /\ sender[s] # "expiregroup"
          /\ members' = members \ {op[s].channel} /\ (groupTtl' <=> groupTtl /\ members' # {})
        BY <1>6 DEF SRem
    <2>2. \A t \in Senders \ {s} : sender'[t] = sender[t] /\ op'[t] = op[t]
        BY <1>0, <1>6, OthersStay DEF SenderStep
    <2>3. QED
        BY <2>1, <2>2 DEF GroupTimed
<1>7. ASSUME NEW r, NEW t,
             \/ Receive(r) \/ ReceiverStep(r) \/ TimesOut(r) \/ ReceiveFails(r) \/ PopIsLost(r)
             \/ Close(t) \/ KeyExpires
      PROVE  GroupTimed'
    <2>1. UNCHANGED <<members, groupTtl>>
        BY <1>7 DEF Receive, ReceiverStep, Lpop, LpopEmpty, ReceiveExpire, Subscribe, GetMessage,
           GetNone, Unsubscribe, Blpop, Pop, Moves, TimesOut, ReceiveFails, PopIsLost, Close, KeyExpires
    <2>2. UNCHANGED <<mix, sender, op, groupUntimed>>
        BY <1>7, ReceiversAndKeysStay
    <2>3. QED
        BY <2>1, <2>2 DEF GroupTimed
<1>8. ASSUME GroupLapses PROVE GroupTimed'
    BY <1>8 DEF GroupLapses, GroupTimed
<1>9. QED
    BY <1>1, <1>2, <1>3, <1>4, <1>5, <1>6, <1>7, <1>8 DEF Next, SenderStep

(* No list and no set stays without a time to live, whatever deletes the   *)
(* key between the command that fills it and its EXPIRE, for any number of *)
(* senders and receivers.                                                  *)
THEOREM NoImmortalKeyCorrect == Spec => []NoImmortalKey
<1>1. Init => TInv /\ InboxTimed /\ GroupTimed
    BY TypesInit DEF Init, InboxTimed, GroupTimed
<1>2. TInv /\ InboxTimed /\ GroupTimed /\ [Next]_vars => (TInv /\ InboxTimed /\ GroupTimed)'
    <2>1. ASSUME TInv, InboxTimed, GroupTimed, UNCHANGED vars PROVE (InboxTimed /\ GroupTimed)'
        BY <2>1 DEF vars, InboxTimed, GroupTimed
    <2>2. QED
        BY <2>1, TypesInductive, InboxTimedKept, GroupTimedKept
<1>3. InboxTimed /\ GroupTimed => NoImmortalKey
    BY DEF InboxTimed, GroupTimed, NoImmortalKey
<1>4. QED
    BY <1>1, <1>2, <1>3, PTL DEF Spec

-----------------------------------------------------------------------------
(* Messages.  What has been popped is older than what is queued, and what  *)
(* was returned to a receiver older than what it holds.                    *)
Elements(q) == {q[i] : i \in DOMAIN q}
Rising(q) == \A i, j \in DOMAIN q : i < j => q[i] < q[j]

LEMMA AppendRising ==
    ASSUME NEW q \in Seq(Nat), NEW e \in Nat, Rising(q), \A n \in Elements(q) : n < e
    PROVE  Rising(Append(q, e)) /\ Elements(Append(q, e)) = Elements(q) \cup {e}
<1> DEFINE a == Append(q, e)
<1>1. /\ a \in Seq(Nat) /\ Len(a) = Len(q) + 1 /\ Len(q) \in Nat
      /\ a[Len(q) + 1] = e /\ \A i \in 1 .. Len(q) : a[i] = q[i]
    BY AppendElements
<1>2. DOMAIN q = 1 .. Len(q) /\ DOMAIN a = 1 .. Len(q) + 1
    BY <1>1
<1>3. \A i \in 1 .. Len(q) : q[i] \in Elements(q) /\ q[i] \in Nat
    BY <1>2 DEF Elements
<1> HIDE DEF a
<1>4. ASSUME NEW i \in DOMAIN a, NEW j \in DOMAIN a, i < j PROVE a[i] < a[j]
    <2>1. i \in 1 .. Len(q)
        BY <1>1, <1>2, <1>4
    <2>2. CASE j = Len(q) + 1
        BY <1>1, <1>3, <2>1, <2>2
    <2>3. CASE j \in 1 .. Len(q)
        BY <1>1, <1>2, <1>4, <2>1, <2>3 DEF Rising
    <2>4. QED
        BY <1>1, <1>2, <2>2, <2>3
<1>5. Elements(a) = Elements(q) \cup {e}
    <2>1. ASSUME NEW n \in Elements(a) PROVE n \in Elements(q) \cup {e}
        <3>1. PICK i \in DOMAIN a : n = a[i]
            BY DEF Elements
        <3>2. i = Len(q) + 1 \/ i \in 1 .. Len(q)
            BY <1>1, <1>2
        <3>3. QED
            BY <1>1, <1>3, <3>1, <3>2
    <2>2. ASSUME NEW n \in Elements(q) PROVE n \in Elements(a)
        <3>1. PICK i \in 1 .. Len(q) : n = q[i]
            BY <1>2 DEF Elements
        <3>2. a[i] = n /\ i \in DOMAIN a
            BY <1>1, <1>2, <3>1
        <3>3. QED
            BY <3>2 DEF Elements
    <2>3. e \in Elements(a)
        <3>1. Len(q) + 1 \in DOMAIN a
            BY <1>1, <1>2
        <3>2. QED
            BY <1>1, <3>1 DEF Elements
    <2>4. QED
        BY <2>1, <2>2, <2>3
<1>6. QED
    BY <1>4, <1>5 DEF a, Rising

LEMMA TailRising ==
    ASSUME NEW q \in Seq(Nat), q # <<>>, Rising(q)
    PROVE  /\ Rising(Tail(q)) /\ Elements(q) = Elements(Tail(q)) \cup {Head(q)}
           /\ Head(q) \in Nat /\ Elements(Tail(q)) \subseteq Nat
           /\ \A n \in Elements(Tail(q)) : Head(q) < n
<1> DEFINE b == Tail(q)
<1>1. /\ Len(q) \in Nat /\ Len(q) >= 1 /\ Head(q) = q[1] /\ q[1] \in Nat
      /\ b \in Seq(Nat) /\ Len(b) = Len(q) - 1
      /\ \A i \in 1 .. Len(q) - 1 : b[i] = q[i + 1]
    BY TailElements
<1>2. DOMAIN q = 1 .. Len(q) /\ DOMAIN b = 1 .. Len(q) - 1
    BY <1>1
<1> HIDE DEF b
<1>3. \A i \in DOMAIN b : b[i] = q[i + 1] /\ i + 1 \in DOMAIN q /\ 1 \in DOMAIN q /\ 1 < i + 1
    BY <1>1, <1>2
<1>4. Rising(b)
    <2>1. ASSUME NEW i \in DOMAIN b, NEW j \in DOMAIN b, i < j PROVE b[i] < b[j]
        <3>1. i + 1 < j + 1
            BY <1>1, <1>2, <2>1
        <3>2. QED
            BY <1>3, <3>1 DEF Rising
    <2>2. QED
        BY <2>1 DEF Rising
<1>5. \A n \in Elements(b) : Head(q) < n /\ n \in Elements(q)
    BY <1>1, <1>3 DEF Elements, Rising
<1>6. ASSUME NEW n \in Elements(q) PROVE n \in Elements(b) \cup {Head(q)}
    <2>1. PICK i \in DOMAIN q : n = q[i]
        BY DEF Elements
    <2>2. CASE i = 1
        BY <1>1, <2>1, <2>2
    <2>3. CASE i # 1
        <3>1. i - 1 \in DOMAIN b /\ (i - 1) + 1 = i
            BY <1>1, <1>2, <2>3
        <3>2. b[i - 1] = n
            BY <1>3, <2>1, <3>1
        <3>3. QED
            BY <3>1, <3>2 DEF Elements
    <2>4. QED
        BY <2>2, <2>3
<1>7. Head(q) \in Elements(q) /\ Elements(b) \subseteq Nat
    <2>1. 1 \in DOMAIN q
        BY <1>1, <1>2
    <2>2. Head(q) \in Elements(q)
        BY <1>1, <2>1 DEF Elements
    <2>3. \A i \in DOMAIN b : b[i] \in Nat
        BY <1>1, <1>2
    <2>4. Elements(b) \subseteq Nat
        BY <2>3 DEF Elements
    <2>5. QED
        BY <2>2, <2>4
<1>8. QED
    BY <1>1, <1>4, <1>5, <1>6, <1>7 DEF b

Order ==
    /\ Rising(queue)
    /\ \A r \in Receivers :
          /\ Rising(got[r])
          /\ held[r] # 0 => \A m \in Elements(queue) : held[r] < m
          /\ \A n \in Elements(got[r]) :
                (\A m \in Elements(queue) : n < m) /\ (held[r] # 0 => n < held[r])

Scattered ==
    /\ \A n \in Nat :
          n \in 1 .. pushed <=>
              \/ n \in Elements(queue) \/ n \in lost
              \/ \E r \in Receivers : (n # 0 /\ held[r] = n) \/ n \in Elements(got[r])
    /\ Elements(queue) \subseteq Nat
    /\ \A r \in Receivers : Elements(got[r]) \subseteq Nat
    /\ \A n \in Elements(queue) :
          n \notin lost /\ \A r \in Receivers : held[r] # n /\ n \notin Elements(got[r])
    /\ \A r, q \in Receivers : held[r] # 0 => held[r] \notin lost /\ held[r] \notin Elements(got[q])
    /\ \A r \in Receivers : \A n \in Elements(got[r]) : n \notin lost
    /\ \A q, r \in Receivers : q # r =>
          /\ \A n \in Elements(got[q]) : n \notin Elements(got[r])
          /\ held[q] = held[r] => held[q] = 0

LEMMA ScatteredIsOnePlace ==
    ASSUME TInv, Order, Scattered
    PROVE  ExactlyOnePlace
<1>1. /\ Queued = Elements(queue) /\ \A r \in Receivers : Returned(r) = Elements(got[r])
    BY DEF Queued, Returned, Elements
<1>2. lost \subseteq Nat /\ pushed \in Nat /\ held \in [Receivers -> Nat]
    BY DEF TInv, TypeOK
<1>3. \A n : n \in Held <=> (\E r \in Receivers : held[r] = n) /\ n # 0
    BY DEF Held
<1>4. \A n : n \in ReturnedTo <=> \E r \in Receivers : n \in Elements(got[r])
    BY <1>1 DEF ReturnedTo
<1>5. Queued \subseteq Nat /\ Held \subseteq Nat /\ ReturnedTo \subseteq Nat
    BY <1>1, <1>2, <1>3, <1>4 DEF Scattered
<1>6. 1 .. pushed = Queued \cup Held \cup ReturnedTo \cup lost
    <2>1. ASSUME NEW n \in Nat
          PROVE  n \in 1 .. pushed <=> n \in Queued \cup Held \cup ReturnedTo \cup lost
        <3>1. n \in 1 .. pushed <=>
                  \/ n \in Elements(queue) \/ n \in lost
                  \/ \E r \in Receivers : (n # 0 /\ held[r] = n) \/ n \in Elements(got[r])
            BY DEF Scattered
        <3>2. (\E r \in Receivers : (n # 0 /\ held[r] = n) \/ n \in Elements(got[r]))
                  <=> n \in Held \/ n \in ReturnedTo
            BY <1>3, <1>4
        <3>3. QED
            BY <1>1, <3>1, <3>2
    <2>2. 1 .. pushed \subseteq Nat
        BY <1>2
    <2>3. QED
        BY <1>2, <1>5, <2>1, <2>2
<1>7. /\ Queued \cap (Held \cup ReturnedTo \cup lost) = {}
      /\ Held \cap (ReturnedTo \cup lost) = {} /\ ReturnedTo \cap lost = {}
    BY <1>1, <1>3, <1>4 DEF Scattered
<1>8. \A q, r \in Receivers : q # r =>
          Returned(q) \cap Returned(r) = {} /\ (held[q] = held[r] => held[q] = 0)
    BY <1>1 DEF Scattered
<1>9. \A r \in Receivers : \A i, j \in DOMAIN got[r] : i < j => got[r][i] < got[r][j]
    BY DEF Order, Rising
<1>10. QED
    BY <1>6, <1>7, <1>8, <1>9 DEF ExactlyOnePlace

(* The moves of a message: pushed, popped, popped and returned, returned,  *)
(* and lost on the way or with the list.                                   *)
Pushed ==
    /\ pushed' = pushed + 1 /\ queue' = Append(queue, pushed + 1)
    /\ UNCHANGED <<held, got, lost>>
PoppedBy(r) ==
    /\ held[r] = 0 /\ queue # <<>> /\ queue' = Tail(queue)
    /\ held' = [held EXCEPT ![r] = Head(queue)]
    /\ UNCHANGED <<pushed, got, lost>>
PoppedFor(r) ==
    /\ held[r] = 0 /\ queue # <<>> /\ queue' = Tail(queue)
    /\ got' = [got EXCEPT ![r] = Append(got[r], Head(queue))]
    /\ UNCHANGED <<pushed, held, lost>>
ReturnedBy(r) ==
    /\ held[r] # 0 /\ held' = [held EXCEPT ![r] = 0]
    /\ got' = [got EXCEPT ![r] = Append(got[r], held[r])]
    /\ UNCHANGED <<queue, pushed, lost>>
LostBy(r) ==
    /\ held' = [held EXCEPT ![r] = 0] /\ lost' = lost \cup ({held[r]} \ {0})
    /\ UNCHANGED <<queue, pushed, got>>
LostHead ==
    /\ queue # <<>> /\ queue' = Tail(queue) /\ lost' = lost \cup {Head(queue)}
    /\ UNCHANGED <<pushed, held, got>>
LostList ==
    /\ queue' = <<>> /\ lost' = lost \cup Elements(queue)
    /\ UNCHANGED <<pushed, held, got>>
NothingMoves == UNCHANGED <<queue, pushed, held, got, lost>>

LEMMA StepMoves ==
    ASSUME TInv, Next
    PROVE  \/ Pushed \/ LostHead \/ LostList \/ NothingMoves
           \/ \E r \in Receivers : PoppedBy(r) \/ PoppedFor(r) \/ ReturnedBy(r) \/ LostBy(r)
<1>0. \A r \in Receivers : (held[r] # 0) = (receiver[r] = "expire")
    BY DEF TInv, TypeOK
<1>1. ASSUME NEW s \in Senders, Push(s) \/ PushUnanswered(s) PROVE Pushed
    BY <1>1 DEF Push, PushUnanswered, Pushed
<1>2. ASSUME NEW s \in Senders,
             \/ SendExpire(s) \/ Publish(s) \/ SAdd(s) \/ SRem(s) \/ SMembers(s)
             \/ FanOutRaises(s) \/ FanOutEnds(s) \/ GroupExpire(s) \/ SendFails(s)
             \/ AddUnanswered(s) \/ (\E c \in Channels : FanOut(s, c))
             \/ \E a \in Asks : Call(s, a)
      PROVE  NothingMoves
    BY <1>2 DEF NothingMoves, SendExpire, SetTtl, Publish, SAdd, SRem, SMembers, FanOutRaises,
       FanOutEnds, GroupExpire, SendFails, AddUnanswered, FanOut, Call
<1>3. ASSUME NEW r \in Receivers, Lpop(r) \/ Blpop(r) PROVE PoppedBy(r) \/ PoppedFor(r)
    <2>1. held[r] = 0 /\ Pop(r)
        BY <1>0, <1>3 DEF Lpop, Blpop
    <2>2. QED
        BY <2>1 DEF Pop, PoppedBy, PoppedFor
<1>4. ASSUME NEW r \in Receivers, ReceiveExpire(r) PROVE ReturnedBy(r)
    BY <1>0, <1>4 DEF ReceiveExpire, SetTtl, Release, ReturnedBy
<1>5. ASSUME NEW r \in Receivers, ReceiveFails(r) PROVE LostBy(r)
    BY <1>5 DEF ReceiveFails, Release, LostBy
<1>6. ASSUME NEW r \in Receivers, PopIsLost(r) PROVE LostHead
    BY <1>6 DEF PopIsLost, LostHead
<1>7. ASSUME KeyExpires PROVE LostList
    BY <1>7 DEF KeyExpires, LostList, Elements
<1>8. ASSUME NEW r, NEW t,
             \/ Receive(r) \/ LpopEmpty(r) \/ Subscribe(r) \/ GetMessage(r) \/ GetNone(r)
             \/ Unsubscribe(r) \/ TimesOut(r) \/ Close(t) \/ GroupLapses
      PROVE  NothingMoves
    BY <1>8 DEF NothingMoves, Receive, LpopEmpty, Subscribe, GetMessage, GetNone, Unsubscribe, Moves,
       TimesOut, Close, GroupLapses
<1>9. QED
    BY <1>1, <1>2, <1>3, <1>4, <1>5, <1>6, <1>7, <1>8 DEF Next, SenderStep, ReceiverStep

LEMMA MoveTypes ==
    ASSUME TInv
    PROVE  /\ queue \in Seq(Nat) /\ pushed \in Nat /\ held \in [Receivers -> Nat]
           /\ got \in [Receivers -> Seq(Nat)] /\ lost \subseteq Nat
BY DEF TInv, TypeOK

LEMMA NumberedUpTo ==
    ASSUME TInv, Scattered
    PROVE  /\ \A n \in Elements(queue) : n \in 1 .. pushed
           /\ \A n \in lost : n \in 1 .. pushed
           /\ \A r \in Receivers :
                 /\ held[r] # 0 => held[r] \in 1 .. pushed
                 /\ \A n \in Elements(got[r]) : n \in 1 .. pushed
BY MoveTypes DEF Scattered

LEMMA PushedKept ==
    ASSUME TInv, Order, Scattered, Pushed
    PROVE  (Order /\ Scattered)'
<1> DEFINE e == pushed + 1
<1>1. e \in Nat /\ pushed \in Nat /\ held \in [Receivers -> Nat] /\ queue \in Seq(Nat)
      /\ lost \subseteq Nat
    BY MoveTypes
<1>2. \A n \in 1 .. pushed : n < e
    BY <1>1
<1>3. Rising(queue') /\ Elements(queue') = Elements(queue) \cup {e}
    BY <1>1, <1>2, NumberedUpTo, AppendRising DEF Order, Pushed
<1>4. UNCHANGED <<held, got, lost>> /\ pushed' = e
    BY DEF Pushed
<1>5. \A n \in Nat : n \in 1 .. pushed' <=> n \in 1 .. pushed \/ n = e
    BY <1>1, <1>4
<1>6. e \notin 1 .. pushed /\ e # 0
    BY <1>1
<1> HIDE DEF e
<1>7. Order'
    BY <1>1, <1>2, <1>3, <1>4, NumberedUpTo DEF Order
<1>8. Scattered'
    <2>1. ASSUME NEW n \in Nat
          PROVE  n \in 1 .. pushed' <=>
                     \/ n \in Elements(queue') \/ n \in lost'
                     \/ \E r \in Receivers : (n # 0 /\ held'[r] = n) \/ n \in Elements(got'[r])
        BY <1>3, <1>4, <1>5 DEF Scattered
    <2>2. \A n \in Elements(queue') :
              n \notin lost' /\ \A r \in Receivers : held'[r] # n /\ n \notin Elements(got'[r])
        BY <1>3, <1>4, <1>6, NumberedUpTo DEF Scattered
    <2>3. QED
        BY <1>1, <1>3, <1>4, <2>1, <2>2 DEF Scattered
<1>9. QED
    BY <1>7, <1>8

(* A pop splits the queue into its head and the rest.                      *)
LEMMA Popped ==
    ASSUME TInv, Order, Scattered, queue # <<>>, queue' = Tail(queue)
    PROVE  /\ Rising(queue') /\ Elements(queue) = Elements(queue') \cup {Head(queue)}
           /\ Head(queue) \in Nat /\ Elements(queue') \subseteq Nat
           /\ \A n \in Elements(queue') : Head(queue) < n
           /\ Head(queue) # 0 /\ Head(queue) \notin Elements(queue')
<1>1. /\ Rising(queue') /\ Elements(queue) = Elements(queue') \cup {Head(queue)}
      /\ Head(queue) \in Nat /\ Elements(queue') \subseteq Nat
      /\ \A n \in Elements(queue') : Head(queue) < n
    BY MoveTypes, TailRising DEF Order
<1>2. Head(queue) # 0
    BY <1>1, NumberedUpTo, MoveTypes
<1>3. QED
    BY <1>1, <1>2

LEMMA PoppedByKept ==
    ASSUME TInv, Order, Scattered, NEW r \in Receivers, PoppedBy(r)
    PROVE  (Order /\ Scattered)'
<1> DEFINE h == Head(queue)
<1>1. /\ Rising(queue') /\ Elements(queue) = Elements(queue') \cup {h}
      /\ h \in Nat /\ Elements(queue') \subseteq Nat /\ \A n \in Elements(queue') : h < n
      /\ h # 0 /\ h \notin Elements(queue')
    BY Popped DEF PoppedBy
<1>2. /\ held[r] = 0 /\ held' = [held EXCEPT ![r] = h] /\ UNCHANGED <<pushed, got, lost>>
    BY DEF PoppedBy
<1>3. held'[r] = h /\ \A q \in Receivers \ {r} : held'[q] = held[q]
    BY <1>2, MoveTypes
<1> HIDE DEF h
<1>4. Order'
    BY <1>1, <1>2, <1>3 DEF Order
<1>5. Scattered'
    <2>1. ASSUME NEW n \in Nat
          PROVE  n \in 1 .. pushed' <=>
                     \/ n \in Elements(queue') \/ n \in lost'
                     \/ \E q \in Receivers : (n # 0 /\ held'[q] = n) \/ n \in Elements(got'[q])
        <3>1. (\E q \in Receivers : (n # 0 /\ held'[q] = n) \/ n \in Elements(got'[q]))
              <=> n = h \/ (\E q \in Receivers : (n # 0 /\ held[q] = n) \/ n \in Elements(got[q]))
            BY <1>1, <1>2, <1>3
        <3>2. QED
            BY <1>1, <1>2, <3>1 DEF Scattered
    <2>2. \A n \in Elements(queue') :
              n \notin lost' /\ \A q \in Receivers : held'[q] # n /\ n \notin Elements(got'[q])
        BY <1>1, <1>2, <1>3 DEF Scattered
    <2>3. \A p, q \in Receivers :
              held'[p] # 0 => held'[p] \notin lost' /\ held'[p] \notin Elements(got'[q])
        BY <1>1, <1>2, <1>3 DEF Scattered
    <2>4. \A p, q \in Receivers : p # q => (held'[p] = held'[q] => held'[p] = 0)
        BY <1>1, <1>2, <1>3 DEF Scattered
    <2>5. QED
        BY <1>1, <1>2, <2>1, <2>2, <2>3, <2>4 DEF Scattered
<1>6. QED
    BY <1>4, <1>5

(* What a receiver is returned is new to it and newer than what it had.    *)
LEMMA Returns ==
    ASSUME TInv, Order, Scattered, NEW r \in Receivers, NEW h \in Nat, h # 0,
           \A n \in Elements(got[r]) : n < h,
           got' = [got EXCEPT ![r] = Append(got[r], h)]
    PROVE  /\ Rising(got'[r]) /\ Elements(got'[r]) = Elements(got[r]) \cup {h}
           /\ \A q \in Receivers \ {r} : got'[q] = got[q]
<1>1. got'[r] = Append(got[r], h) /\ \A q \in Receivers \ {r} : got'[q] = got[q]
    BY MoveTypes
<1>2. got[r] \in Seq(Nat)
    BY MoveTypes
<1>3. QED
    BY <1>1, <1>2, AppendRising DEF Order

LEMMA PoppedForKept ==
    ASSUME TInv, Order, Scattered, NEW r \in Receivers, PoppedFor(r)
    PROVE  (Order /\ Scattered)'
<1> DEFINE h == Head(queue)
<1>1. /\ Rising(queue') /\ Elements(queue) = Elements(queue') \cup {h}
      /\ h \in Nat /\ Elements(queue') \subseteq Nat /\ \A n \in Elements(queue') : h < n
      /\ h # 0 /\ h \notin Elements(queue')
    BY Popped DEF PoppedFor
<1>2. /\ held[r] = 0 /\ got' = [got EXCEPT ![r] = Append(got[r], h)]
      /\ UNCHANGED <<pushed, held, lost>>
    BY DEF PoppedFor
<1>3. \A n \in Elements(got[r]) : n < h
    BY <1>1 DEF Order
<1> HIDE DEF h
<1>4. /\ Rising(got'[r]) /\ Elements(got'[r]) = Elements(got[r]) \cup {h}
      /\ \A q \in Receivers \ {r} : got'[q] = got[q]
    BY <1>1, <1>2, <1>3, Returns
<1>5. Order'
    BY <1>1, <1>2, <1>4 DEF Order
<1>6. Scattered'
    <2>1. ASSUME NEW n \in Nat
          PROVE  n \in 1 .. pushed' <=>
                     \/ n \in Elements(queue') \/ n \in lost'
                     \/ \E q \in Receivers : (n # 0 /\ held'[q] = n) \/ n \in Elements(got'[q])
        <3>1. (\E q \in Receivers : (n # 0 /\ held'[q] = n) \/ n \in Elements(got'[q]))
              <=> n = h \/ (\E q \in Receivers : (n # 0 /\ held[q] = n) \/ n \in Elements(got[q]))
            BY <1>1, <1>2, <1>4
        <3>2. QED
            BY <1>1, <1>2, <3>1 DEF Scattered
    <2>2. \A q \in Receivers : Elements(got'[q]) \subseteq Nat
        BY <1>1, <1>4 DEF Scattered
    <2>3. \A n \in Elements(queue') :
              n \notin lost' /\ \A q \in Receivers : held'[q] # n /\ n \notin Elements(got'[q])
        BY <1>1, <1>2, <1>4 DEF Scattered
    <2>4. \A p, q \in Receivers :
              held'[p] # 0 => held'[p] \notin lost' /\ held'[p] \notin Elements(got'[q])
        BY <1>1, <1>2, <1>4 DEF Scattered
    <2>5. \A q \in Receivers : \A n \in Elements(got'[q]) : n \notin lost'
        BY <1>1, <1>2, <1>4 DEF Scattered
    <2>6. \A p, q \in Receivers : p # q => \A n \in Elements(got'[p]) : n \notin Elements(got'[q])
        BY <1>1, <1>4 DEF Scattered
    <2>7. QED
        BY <1>1, <1>2, <2>1, <2>2, <2>3, <2>4, <2>5, <2>6 DEF Scattered
<1>7. QED
    BY <1>5, <1>6

LEMMA ReturnedByKept ==
    ASSUME TInv, Order, Scattered, NEW r \in Receivers, ReturnedBy(r)
    PROVE  (Order /\ Scattered)'
<1> DEFINE h == held[r]
<1>1. /\ h # 0 /\ h \in Nat /\ held' = [held EXCEPT ![r] = 0]
      /\ got' = [got EXCEPT ![r] = Append(got[r], h)] /\ UNCHANGED <<queue, pushed, lost>>
    BY MoveTypes DEF ReturnedBy
<1>2. \A n \in Elements(got[r]) : n < h
    BY <1>1 DEF Order
<1>3. held'[r] = 0 /\ \A q \in Receivers \ {r} : held'[q] = held[q]
    BY <1>1, MoveTypes
<1>4. h = held[r]
    OBVIOUS
<1> HIDE DEF h
<1>5. /\ Rising(got'[r]) /\ Elements(got'[r]) = Elements(got[r]) \cup {h}
      /\ \A q \in Receivers \ {r} : got'[q] = got[q]
    BY <1>1, <1>2, Returns
<1>6. Order'
    BY <1>1, <1>3, <1>4, <1>5 DEF Order
<1>7. Scattered'
    <2>1. ASSUME NEW n \in Nat
          PROVE  n \in 1 .. pushed' <=>
                     \/ n \in Elements(queue') \/ n \in lost'
                     \/ \E q \in Receivers : (n # 0 /\ held'[q] = n) \/ n \in Elements(got'[q])
        <3>1. (\E q \in Receivers : (n # 0 /\ held'[q] = n) \/ n \in Elements(got'[q]))
              <=> (\E q \in Receivers : (n # 0 /\ held[q] = n) \/ n \in Elements(got[q]))
            BY <1>1, <1>3, <1>4, <1>5
        <3>2. QED
            BY <1>1, <3>1 DEF Scattered
    <2>2. \A q \in Receivers : Elements(got'[q]) \subseteq Nat
        BY <1>1, <1>5 DEF Scattered
    <2>3. \A n \in Elements(queue') :
              n \notin lost' /\ \A q \in Receivers : held'[q] # n /\ n \notin Elements(got'[q])
        BY <1>1, <1>3, <1>4, <1>5, NumberedUpTo, MoveTypes DEF Scattered
    <2>4. \A p, q \in Receivers :
              held'[p] # 0 => held'[p] \notin lost' /\ held'[p] \notin Elements(got'[q])
        BY <1>1, <1>3, <1>4, <1>5 DEF Scattered
    <2>5. \A q \in Receivers : \A n \in Elements(got'[q]) : n \notin lost'
        BY <1>1, <1>4, <1>5 DEF Scattered
    <2>6. \A p, q \in Receivers : p # q => \A n \in Elements(got'[p]) : n \notin Elements(got'[q])
        BY <1>1, <1>4, <1>5 DEF Scattered
    <2>7. \A p, q \in Receivers : p # q => (held'[p] = held'[q] => held'[p] = 0)
        BY <1>3 DEF Scattered
    <2>8. QED
        BY <1>1, <2>1, <2>2, <2>3, <2>4, <2>5, <2>6, <2>7 DEF Scattered
<1>8. QED
    BY <1>6, <1>7

LEMMA LostByKept ==
    ASSUME TInv, Order, Scattered, NEW r \in Receivers, LostBy(r)
    PROVE  (Order /\ Scattered)'
<1>1. /\ held' = [held EXCEPT ![r] = 0] /\ lost' = lost \cup ({held[r]} \ {0})
      /\ UNCHANGED <<queue, pushed, got>>
    BY DEF LostBy
<1>2. held'[r] = 0 /\ \A q \in Receivers \ {r} : held'[q] = held[q]
    BY <1>1, MoveTypes
<1>3. Order'
    BY <1>1, <1>2 DEF Order
<1>4. Scattered'
    <2>1. ASSUME NEW n \in Nat
          PROVE  n \in 1 .. pushed' <=>
                     \/ n \in Elements(queue') \/ n \in lost'
                     \/ \E q \in Receivers : (n # 0 /\ held'[q] = n) \/ n \in Elements(got'[q])
        <3>1. n \in lost' \/ (\E q \in Receivers : (n # 0 /\ held'[q] = n) \/ n \in Elements(got'[q]))
              <=> n \in lost \/ (\E q \in Receivers : (n # 0 /\ held[q] = n) \/ n \in Elements(got[q]))
            BY <1>1, <1>2
        <3>2. QED
            BY <1>1, <3>1 DEF Scattered
    <2>2. QED
        BY <1>1, <1>2, <2>1, NumberedUpTo, MoveTypes DEF Scattered
<1>5. QED
    BY <1>3, <1>4

LEMMA LostHeadKept ==
    ASSUME TInv, Order, Scattered, LostHead
    PROVE  (Order /\ Scattered)'
<1> DEFINE h == Head(queue)
<1>1. /\ Rising(queue') /\ Elements(queue) = Elements(queue') \cup {h}
      /\ h \in Nat /\ Elements(queue') \subseteq Nat /\ \A n \in Elements(queue') : h < n
      /\ h # 0 /\ h \notin Elements(queue')
    BY Popped DEF LostHead
<1>2. lost' = lost \cup {h} /\ UNCHANGED <<pushed, held, got>>
    BY DEF LostHead
<1> HIDE DEF h
<1>3. Order'
    BY <1>1, <1>2 DEF Order
<1>4. Scattered'
    BY <1>1, <1>2 DEF Scattered
<1>5. QED
    BY <1>3, <1>4

LEMMA LostListKept ==
    ASSUME TInv, Order, Scattered, LostList
    PROVE  (Order /\ Scattered)'
<1>1. queue' = <<>> /\ lost' = lost \cup Elements(queue) /\ UNCHANGED <<pushed, held, got>>
    BY DEF LostList
<1>2. Elements(queue') = {} /\ Rising(queue')
    <2>1. DOMAIN queue' = {}
        BY <1>1
    <2>2. QED
        BY <2>1 DEF Elements, Rising
<1>3. Order'
    BY <1>1, <1>2 DEF Order
<1>4. Scattered'
    BY <1>1, <1>2 DEF Scattered
<1>5. QED
    BY <1>3, <1>4

LEMMA NothingMovesKept ==
    ASSUME Order, Scattered, NothingMoves
    PROVE  (Order /\ Scattered)'
BY DEF NothingMoves, Order, Scattered

LEMMA MessagesInit ==
    Init => Order /\ Scattered
<1> SUFFICES ASSUME Init PROVE Order /\ Scattered
    OBVIOUS
<1>1. /\ queue = <<>> /\ got = [r \in Receivers |-> <<>>] /\ held = [r \in Receivers |-> 0]
      /\ lost = {} /\ pushed = 0
    BY DEF Init
<1>2. Elements(<<>>) = {} /\ Rising(<<>>)
    BY DEF Elements, Rising
<1>3. 1 .. pushed = {} /\ \A r \in Receivers : got[r] = <<>> /\ held[r] = 0
    BY <1>1
<1>4. QED
    BY <1>1, <1>2, <1>3 DEF Order, Scattered

(* The moves keep all of it.                                               *)
MessageInv == TInv /\ Order /\ Scattered

LEMMA MessagesKept ==
    MessageInv /\ [Next]_vars => MessageInv'
<1>1. ASSUME MessageInv, UNCHANGED vars PROVE (Order /\ Scattered)'
    BY <1>1, NothingMovesKept DEF MessageInv, vars, NothingMoves
<1>2. ASSUME MessageInv, Next PROVE (Order /\ Scattered)'
    BY <1>2, StepMoves, PushedKept, PoppedByKept, PoppedForKept, ReturnedByKept, LostByKept,
       LostHeadKept, LostListKept, NothingMovesKept DEF MessageInv
<1>3. QED
    BY <1>1, <1>2, TypesInductive DEF MessageInv

(* Every message is in one place: Redis pops for one receiver only, so     *)
(* what is received twice or in another order would have to be made so by  *)
(* the layer; what is in no place at all was lost by a failure.            *)
THEOREM OnePlaceCorrect == Spec => []ExactlyOnePlace
<1>1. Init => MessageInv
    BY TypesInit, MessagesInit DEF MessageInv
<1>2. MessageInv => ExactlyOnePlace
    BY ScatteredIsOnePlace DEF MessageInv
<1>3. QED
    BY <1>1, <1>2, MessagesKept, PTL DEF Spec

-----------------------------------------------------------------------------
(* The contract.  Each move of a message is a step of AtMostOnce.          *)

(* What is queued or popped is outstanding.                                *)
LEMMA OutstandingMessages ==
    ASSUME MessageInv
    PROVE  /\ Elements(queue) \subseteq Once!Outstanding
           /\ \A r \in Receivers : held[r] # 0 => held[r] \in Once!Outstanding
<1>1. \A n : n \in Once!Outstanding <=>
          n \in 1 .. pushed /\ n \notin lost /\ \A r \in Receivers : n \notin Elements(got[r])
    <2>1. \A r \in Receivers : [q \in Receivers |-> Returned(q)][r] = Elements(got[r])
        BY DEF Returned, Elements
    <2>2. QED
        BY <2>1 DEF Once!Outstanding
<1>2. QED
    BY <1>1, NumberedUpTo DEF MessageInv, Scattered

(* What a receive appends to got is what it returns.                       *)
LEMMA ReturnsOutstanding ==
    ASSUME MessageInv, NEW r \in Receivers, NEW h \in Once!Outstanding, h \in Nat, h # 0,
           \A n \in Elements(got[r]) : n < h,
           got' = [got EXCEPT ![r] = Append(got[r], h)], UNCHANGED <<pushed, lost>>
    PROVE  Once!Return(r)
<1>1. /\ Elements(got'[r]) = Elements(got[r]) \cup {h}
      /\ \A q \in Receivers \ {r} : got'[q] = got[q]
    BY Returns DEF MessageInv
<1> DEFINE old == [q \in Receivers |-> Returned(q)]
           new == [q \in Receivers |-> Returned(q)']
<1>2. /\ \A q \in Receivers : old[q] = Elements(got[q]) /\ new[q] = Elements(got'[q])
      /\ old = [q \in Receivers |-> old[q]] /\ new = [q \in Receivers |-> new[q]]
    BY DEF Returned, Elements
<1>3. old' = new
    OBVIOUS
<1> HIDE DEF old, new
<1>4. new = [old EXCEPT ![r] = old[r] \cup {h}]
    BY <1>1, <1>2
<1>5. old' = [old EXCEPT ![r] = old[r] \cup {h}]
    BY <1>3, <1>4
<1>6. (1 .. pushed)' = 1 .. pushed /\ lost' = lost
    OBVIOUS
<1> USE DEF old
<1>7. QED
    BY <1>5, <1>6 DEF Once!Return

LEMMA MovesImplement ==
    ASSUME MessageInv, MessageInv', Next
    PROVE  Once!Next \/ UNCHANGED Once!vars
<1>0. /\ UNCHANGED got => UNCHANGED [r \in Receivers |-> Returned(r)]
      /\ UNCHANGED pushed => UNCHANGED (1 .. pushed)
    BY DEF Returned
<1>1. CASE Pushed
    <2>1. 1 .. pushed \subseteq (1 .. pushed)' /\ (1 .. pushed)' \subseteq Nat
        BY <1>1, MoveTypes DEF MessageInv, Pushed
    <2>2. Once!Accept
        BY <1>0, <1>1, <2>1 DEF Pushed, Once!Accept
    <2>3. QED
        BY <2>2 DEF Once!Next
<1>2. CASE LostHead \/ LostList \/ \E r \in Receivers : LostBy(r)
    <2>1. UNCHANGED <<pushed, got>> /\ lost \subseteq lost'
        BY <1>2 DEF LostHead, LostList, LostBy
    <2>2. lost' \subseteq lost \cup Once!Outstanding
        <3>1. CASE LostHead
            BY <3>1, Popped, OutstandingMessages DEF MessageInv, LostHead
        <3>2. CASE LostList
            BY <3>2, OutstandingMessages DEF LostList
        <3>3. CASE \E r \in Receivers : LostBy(r)
            BY <3>3, OutstandingMessages DEF LostBy
        <3>4. QED
            BY <1>2, <3>1, <3>2, <3>3
    <2>3. Once!Lose
        BY <1>0, <2>1, <2>2 DEF Once!Lose
    <2>4. QED
        BY <2>3 DEF Once!Next
<1>3. ASSUME NEW r \in Receivers, PoppedFor(r) \/ ReturnedBy(r)
      PROVE  Once!Return(r)
    <2>1. CASE PoppedFor(r)
        <3>1. /\ Head(queue) \in Elements(queue) /\ Head(queue) \in Nat /\ Head(queue) # 0
            BY <2>1, Popped DEF MessageInv, PoppedFor
        <3>2. \A n \in Elements(got[r]) : n < Head(queue)
            BY <3>1 DEF MessageInv, Order
        <3>3. QED
            BY <2>1, <3>1, <3>2, OutstandingMessages, ReturnsOutstanding DEF PoppedFor
    <2>2. CASE ReturnedBy(r)
        <3>1. held[r] \in Nat /\ held[r] # 0
            BY <2>2, MoveTypes DEF MessageInv, ReturnedBy
        <3>2. \A n \in Elements(got[r]) : n < held[r]
            BY <3>1 DEF MessageInv, Order
        <3>3. QED
            BY <2>2, <3>1, <3>2, OutstandingMessages, ReturnsOutstanding DEF ReturnedBy
    <2>3. QED
        BY <1>3, <2>1, <2>2
<1>4. CASE NothingMoves \/ \E r \in Receivers : PoppedBy(r)
    BY <1>0, <1>4 DEF NothingMoves, PoppedBy, Once!vars
<1>5. QED
    BY <1>1, <1>2, <1>3, <1>4, StepMoves DEF MessageInv, Once!Next

(* The layer implements AtMostOnce: whatever failures, cancellations and   *)
(* expirations come in between, a message is returned by one receive at    *)
(* most, out of the list, and what was returned or lost stays so.          *)
THEOREM ImplementsAtMostOnceCorrect == Spec => ImplementsAtMostOnce
<1>1. Init => MessageInv /\ Once!Init
    <2>1. ASSUME Init PROVE MessageInv
        BY <2>1, TypesInit, MessagesInit DEF MessageInv
    <2>2. ASSUME Init PROVE Once!Init
        <3>1. 1 .. pushed = {} /\ lost = {} /\ got = [r \in Receivers |-> <<>>]
            BY <2>2 DEF Init
        <3>2. \A r \in Receivers : Returned(r) = {}
            BY <3>1 DEF Returned
        <3>3. QED
            BY <3>1, <3>2 DEF Once!Init
    <2>3. QED
        BY <2>1, <2>2
<1>2. MessageInv /\ MessageInv' /\ [Next]_vars => [Once!Next]_(Once!vars)
    <2>1. ASSUME UNCHANGED vars PROVE UNCHANGED Once!vars
        BY <2>1 DEF vars, Returned, Once!vars
    <2>2. QED
        BY <2>1, MovesImplement
<1>3. QED
    BY <1>1, <1>2, MessagesKept, PTL DEF Spec, ImplementsAtMostOnce, Once!Spec

-----------------------------------------------------------------------------
(* Wake-up.  What Delivered needs of the code: fairness does the rest.     *)

(* How far a receive that finds the list filled is from its return.        *)
Distance(place) ==
    CASE place = "subscribe" -> 5
      [] place = "wait" -> 4
      [] place \in {"woken", "unsubscribe"} -> 3
      [] place \in {"pop", "block"} -> 2
      [] place = "expire" -> 1
      [] place = "idle" -> 0

LEMMA Distances ==
    /\ Distance("subscribe") = 5 /\ Distance("wait") = 4
    /\ Distance("woken") = 3 /\ Distance("unsubscribe") = 3
    /\ Distance("pop") = 2 /\ Distance("block") = 2
    /\ Distance("expire") = 1 /\ Distance("idle") = 0
<1>1. Distance("subscribe") = 5
    BY DEF Distance
<1>2. Distance("wait") = 4
    BY DEF Distance
<1>3. Distance("woken") = 3
    BY DEF Distance
<1>4. Distance("unsubscribe") = 3
    BY DEF Distance
<1>5. Distance("pop") = 2
    BY DEF Distance
<1>6. Distance("block") = 2
    BY DEF Distance
<1>7. Distance("expire") = 1
    BY DEF Distance
<1>8. Distance("idle") = 0
    BY DEF Distance
<1>9. QED
    BY <1>1, <1>2, <1>3, <1>4, <1>5, <1>6, <1>7, <1>8

(* Beside a message a receive only comes nearer to its return, by each of  *)
(* its own steps, and nobody else's step takes it further away: neither    *)
(* the order of push, notification and subscription nor a notification     *)
(* missed sends it back to wait.                                           *)
Nears(r) ==
    /\ receiver'[r] = receiver[r] \/ Distance(receiver'[r]) < Distance(receiver[r])
    /\ ReceiverStep(r) => Distance(receiver'[r]) < Distance(receiver[r])
ComesNearer ==
    [][\A r \in Receivers : receiver[r] # "idle" /\ queue # <<>> => Nears(r)]_vars

LEMMA OwnStepNears ==
    ASSUME TypeOK, NEW r \in Receivers, queue # <<>>,
           ReceiverStep(r) \/ TimesOut(r) \/ ReceiveFails(r) \/ PopIsLost(r)
    PROVE  Distance(receiver'[r]) < Distance(receiver[r])
<1>0. receiver \in [Receivers -> ReceiverPlaces]
    BY DEF TypeOK
<1>1. \A place : ReceiverGoes(r, place) => receiver'[r] = place
    BY <1>0 DEF ReceiverGoes
<1>2. CASE Lpop(r) \/ Blpop(r) \/ PopIsLost(r)
    <2>1. receiver[r] \in {"pop", "block"} /\ receiver'[r] \in {"expire", "idle"}
        BY <1>1, <1>2 DEF Lpop, Blpop, Pop, PopIsLost
    <2>2. QED
        BY <2>1, Distances
<1>3. CASE ReceiveExpire(r)
    BY <1>1, <1>3, Distances DEF ReceiveExpire
<1>4. CASE Subscribe(r)
    BY <1>1, <1>4, Distances DEF Subscribe, Moves
<1>5. CASE GetMessage(r) \/ GetNone(r)
    BY <1>1, <1>5, Distances DEF GetMessage, GetNone, Moves
<1>6. CASE Unsubscribe(r)
    BY <1>1, <1>6, Distances DEF Unsubscribe, Moves
<1>7. CASE LpopEmpty(r) \/ TimesOut(r)
    BY <1>7 DEF LpopEmpty, TimesOut
<1>8. CASE ReceiveFails(r)
    <2>1. receiver[r] \in ReceiverPlaces \ {"idle"} /\ receiver'[r] = "idle"
        BY <1>0, <1>1, <1>8 DEF ReceiveFails
    <2>2. QED
        BY <2>1, Distances DEF ReceiverPlaces
<1>9. QED
    BY <1>2, <1>3, <1>4, <1>5, <1>6, <1>7, <1>8 DEF ReceiverStep

(* A step of anybody else leaves a receiver that is in a call where it is. *)
LEMMA OthersLeaveReceiver ==
    ASSUME TypeOK, Next, NEW r \in Receivers, receiver[r] # "idle",
           ~(ReceiverStep(r) \/ TimesOut(r) \/ ReceiveFails(r) \/ PopIsLost(r))
    PROVE  receiver'[r] = receiver[r]
<1>0. receiver \in [Receivers -> ReceiverPlaces]
    BY DEF TypeOK
<1>1. ASSUME NEW s \in Senders,
             \/ SenderStep(s) \/ SendFails(s) \/ PushUnanswered(s) \/ AddUnanswered(s)
             \/ \E a \in Asks : Call(s, a)
      PROVE  receiver' = receiver
    BY <1>1 DEF SenderStep, Push, SendExpire, Publish, SAdd, SRem, SMembers, FanOutRaises, FanOutEnds,
       GroupExpire, SendFails, PushUnanswered, AddUnanswered, FanOut, Call
<1>2. ASSUME NEW q \in Receivers \ {r},
             Receive(q) \/ ReceiverStep(q) \/ TimesOut(q) \/ ReceiveFails(q) \/ PopIsLost(q)
      PROVE  receiver'[r] = receiver[r]
    <2>1. \E place : receiver' = [receiver EXCEPT ![q] = place]
        BY <1>2 DEF Receive, ReceiverStep, Lpop, LpopEmpty, ReceiveExpire, Subscribe, GetMessage,
           GetNone, Unsubscribe, Blpop, Pop, Moves, TimesOut, ReceiveFails, PopIsLost, ReceiverGoes
    <2>2. QED
        BY <1>0, <2>1
<1>3. ~Receive(r)
    BY DEF Receive
<1>4. ASSUME NEW t, Close(t) \/ KeyExpires \/ GroupLapses PROVE receiver' = receiver
    BY <1>4 DEF Close, KeyExpires, GroupLapses
<1>5. QED
    BY <1>1, <1>2, <1>3, <1>4 DEF Next

(* No wake-up is lost: beside a message a receive, with Pub/Sub or without *)
(* it, is on its way to it, whatever other tasks do (redis.py 72-95,       *)
(* 165-204).                                                               *)
THEOREM ComesNearerCorrect == Spec => ComesNearer
<1>1. TypeOK /\ [Next]_vars =>
         [\A r \in Receivers : receiver[r] # "idle" /\ queue # <<>> => Nears(r)]_vars
    <2> SUFFICES ASSUME TypeOK, Next, NEW r \in Receivers, receiver[r] # "idle", queue # <<>>
                 PROVE  Nears(r)
        OBVIOUS
    <2>1. CASE ReceiverStep(r) \/ TimesOut(r) \/ ReceiveFails(r) \/ PopIsLost(r)
        BY <2>1, OwnStepNears DEF Nears
    <2>2. CASE ~(ReceiverStep(r) \/ TimesOut(r) \/ ReceiveFails(r) \/ PopIsLost(r))
        BY <2>2, OthersLeaveReceiver DEF Nears
    <2>3. QED
        BY <2>1, <2>2
<1>2. QED
    BY <1>1, TypeCorrect, PTL DEF Spec, ComesNearer
=============================================================================
