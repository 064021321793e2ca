----------------------------- MODULE RedisQueue -----------------------------
(***************************************************************************)
(* One channel's inbox and one group of RedisChannelLayer                  *)
(* (backends/redis.py): a list with a time to live, a Pub/Sub channel that *)
(* announces pushes, and a set of channels with a time to live.            *)
(*                                                                         *)
(* send is RPUSH, EXPIRE, publish; receive is LPOP, then a subscription    *)
(* that lives for one get_message, then BLPOP; group_send is SMEMBERS, a   *)
(* send for each member, EXPIRE.  Every command is a request of its own:   *)
(* those of other tasks, of any process, come in between, keys may expire, *)
(* a request may fail and the task that waits for it may be cancelled.     *)
(* The client is made without an await, so one task makes it.              *)
(*                                                                         *)
(* Redis and its client are external.  A list or a set that becomes empty  *)
(* is no key any more and has no time to live.  get_message returns None   *)
(* when it has read the confirmation of the subscription, which is the     *)
(* first thing a subscriber receives, and a message only if one was        *)
(* published since.                                                        *)
(***************************************************************************)
EXTENDS Integers, Sequences, FiniteSets

CONSTANTS
    Senders,    \* tasks that send or change the group, each on a layer of its own
    Receivers,  \* tasks that call receive, likewise
    Inbox,      \* the channel whose inbox this is
    Others,     \* other channels of the group
    Mixes,      \* what a behaviour's calls are, how many of the senders, and
                \* the layers' settings
    MaxFaults   \* bound on failures, cancellations and expirations

ASSUME BoundsAssumption == MaxFaults \in Nat
ASSUME InboxAssumption == Inbox \notin Others
ASSUME MixesAssumption ==
    Mixes \subseteq [calls : SUBSET {"send", "add", "discard", "fan", "receive", "close"},
                     limit : Nat, usePubsub : BOOLEAN, expiry : BOOLEAN, groupExpiry : BOOLEAN]

VARIABLES
    mix,        \* the mix of this behaviour
    queue,      \* the list: messages are numbered as they are pushed
    ttl,        \* the key has a time to live
    members,    \* the set of the group
    groupTtl,   \* its key has a time to live
    closed,     \* the tasks whose layer's _closed is set
    sender,     \* where each sender is
    op,         \* its operation
    todo,       \* channels its group_send has still to send to
    found,      \* senders whose SMEMBERS has returned channels
    receiver,   \* where each receiver is
    timed,      \* receivers whose call has a timeout
    held,       \* held[r]: the message r has popped and not returned, or 0
    notified,   \* subscribed receivers for whom a notification has come
    sends,      \* number of the senders' calls
    pushed,     \* number of messages pushed
    faults,     \* number of failures
    got,        \* history: got[r], the messages receive returned to r
    lost,       \* history: messages popped for a call that failed, or expired
    untimed,    \* history: the EXPIRE of the last push failed
    groupUntimed \* history: the EXPIRE of the last group_add failed

keyVars == <<queue, ttl>>
groupVars == <<members, groupTtl, groupUntimed>>
callVars == <<op, todo, found, sends>>
sendVars == <<sender, callVars, pushed, untimed>>
receiveVars == <<receiver, timed, held, notified, got>>
vars == <<mix, keyVars, groupVars, closed, sendVars, receiveVars, faults, lost>>

usePubsub == mix.usePubsub
expiry == mix.expiry            \* self.channel_expiry > 0
groupExpiry == mix.groupExpiry  \* self.group_expiry > 0

Channels == Others \cup {Inbox}
Asks == [op : {"add", "discard"}, channel : Channels]
        \cup [op : {"send", "fan"}, channel : {Inbox}]
NoCall == [op |-> "none", channel |-> Inbox]
SenderPlaces == {"idle", "push", "expire", "publish", "sadd", "srem", "smembers", "fan",
                 "expiregroup"}
ReceiverPlaces == {"idle", "pop", "expire", "subscribe", "wait", "unsubscribe",
                   "woken", "block"}

Init ==
    /\ mix \in Mixes
    /\ queue = <<>> /\ ttl = FALSE
    /\ members = {} /\ groupTtl = FALSE /\ groupUntimed = FALSE
    /\ closed = {}
    /\ sender = [s \in Senders |-> "idle"]
    /\ op = [s \in Senders |-> NoCall]
    /\ todo = [s \in Senders |-> {}] /\ found = {}
    /\ receiver = [r \in Receivers |-> "idle"]
    /\ timed = {} /\ notified = {}
    /\ held = [r \in Receivers |-> 0]
    /\ sends = 0 /\ pushed = 0 /\ faults = 0
    /\ got = [r \in Receivers |-> <<>>]
    /\ lost = {}
    /\ untimed = FALSE

SenderGoes(s, place) == sender' = [sender EXCEPT ![s] = place]
ReceiverGoes(r, place) == receiver' = [receiver EXCEPT ![r] = place]

(* A request fails, as many do on a closed client, or a task is cancelled. *)
Failure == faults < MaxFaults /\ faults' = faults + 1

(* EXPIRE sets the time to live of a key that exists.                      *)
SetTtl ==
    /\ ttl' = (queue # <<>>)
    /\ UNCHANGED queue

(***************************************************************************)
(* send, group_add, group_discard and group_send                           *)
(***************************************************************************)

FirstCommand(o) == CASE o = "send" -> "push"
                     [] o = "add" -> "sadd"
                     [] o = "discard" -> "srem"
                     [] o = "fan" -> "smembers"
Call(s, a) ==
    /\ a.op \in mix.calls
    /\ sender[s] = "idle" /\ s \notin closed
    /\ sends < mix.limit
    /\ sends' = sends + 1
    /\ op' = [op EXCEPT ![s] = a]
    /\ SenderGoes(s, FirstCommand(a.op))
    /\ UNCHANGED <<mix, keyVars, groupVars, closed, todo, found, pushed, untimed, receiveVars,
                   faults, lost>>

(* The call ends.                                                          *)
Ends(s) ==
    /\ SenderGoes(s, "idle")
    /\ op' = [op EXCEPT ![s] = NoCall]
    /\ todo' = [todo EXCEPT ![s] = {}] /\ found' = found \ {s}
    /\ UNCHANGED sends
GoesOn(s, place) == SenderGoes(s, place) /\ UNCHANGED callVars
GoesOnOrEnds(s, place) == IF place = "idle" THEN Ends(s) ELSE GoesOn(s, place)

(* The places behind each command of a send; without expiry or Pub/Sub the *)
(* commands for them are left out.                                         *)
AfterSend(s) == IF op[s].op = "fan" THEN "fan" ELSE "idle"
AfterExpire(s) == IF usePubsub THEN "publish" ELSE AfterSend(s)
NoExpire(s) == AfterExpire(s)
AfterPush(s) == IF expiry THEN "expire" ELSE AfterExpire(s)

Push(s) ==
    /\ sender[s] = "push"
    /\ pushed' = pushed + 1
    /\ queue' = Append(queue, pushed + 1)
    /\ GoesOnOrEnds(s, AfterPush(s))
    /\ UNCHANGED <<mix, ttl, groupVars, closed, untimed, receiveVars, faults, lost>>

SendExpire(s) ==
    /\ sender[s] = "expire"
    /\ SetTtl
    /\ untimed' = FALSE
    /\ GoesOnOrEnds(s, AfterExpire(s))
    /\ UNCHANGED <<mix, groupVars, closed, pushed, receiveVars, faults, lost>>

(* _publish_notification                                                   *)
Publish(s) ==
    /\ sender[s] = "publish"
    /\ notified' = notified \cup {r \in Receivers : receiver[r] = "wait"}
    /\ GoesOnOrEnds(s, AfterSend(s))
    /\ UNCHANGED <<mix, keyVars, groupVars, closed, pushed, untimed, receiver, timed, held,
                   got, faults, lost>>

SAdd(s) ==
    /\ sender[s] = "sadd"
    /\ members' = members \cup {op[s].channel}
    /\ GoesOnOrEnds(s, IF groupExpiry THEN "expiregroup" ELSE "idle")
    /\ UNCHANGED <<mix, keyVars, groupTtl, groupUntimed, closed, pushed, untimed, receiveVars,
                   faults, lost>>

SRem(s) ==
    /\ sender[s] = "srem"
    /\ members' = members \ {op[s].channel}
    /\ groupTtl' = (groupTtl /\ members' # {})
    /\ Ends(s)
    /\ UNCHANGED <<mix, keyVars, groupUntimed, closed, pushed, untimed, receiveVars, faults, lost>>

SMembers(s) ==
    /\ sender[s] = "smembers"
    /\ todo' = [todo EXCEPT ![s] = members]
    /\ found' = IF members = {} THEN found ELSE found \cup {s}
    /\ SenderGoes(s, "fan")
    /\ UNCHANGED <<mix, keyVars, groupVars, closed, op, sends, pushed, untimed, receiveVars,
                   faults, lost>>

(* send to one of the members; to another channel's inbox it is one step.  *)
FanOut(s, c) ==
    /\ sender[s] = "fan" /\ c \in todo[s] /\ s \notin closed
    /\ todo' = [todo EXCEPT ![s] = @ \ {c}]
    /\ SenderGoes(s, IF c = Inbox THEN "push" ELSE "fan")
    /\ UNCHANGED <<mix, keyVars, groupVars, closed, op, found, sends, pushed, untimed,
                   receiveVars, faults, lost>>

(* The layer was closed: the send raises.                                  *)
FanOutRaises(s) ==
    /\ sender[s] = "fan" /\ todo[s] # {} /\ s \in closed
    /\ Ends(s)
    /\ UNCHANGED <<mix, keyVars, groupVars, closed, pushed, untimed, receiveVars, faults, lost>>

FanOutEnds(s) ==
    /\ sender[s] = "fan" /\ todo[s] = {}
    /\ GoesOnOrEnds(s, IF groupExpiry /\ s \in found THEN "expiregroup" ELSE "idle")
    /\ UNCHANGED <<mix, keyVars, groupVars, closed, pushed, untimed, receiveVars, faults, lost>>

GroupExpire(s) ==
    /\ sender[s] = "expiregroup"
    /\ groupTtl' = (members # {}) /\ groupUntimed' = FALSE
    /\ Ends(s)
    /\ UNCHANGED <<mix, keyVars, members, closed, pushed, untimed, receiveVars, faults, lost>>

(* A command fails, or the caller is cancelled: the call raises.           *)
SendFails(s) ==
    /\ sender[s] # "idle" /\ Failure
    /\ untimed' = (untimed \/ sender[s] = "expire")
    /\ groupUntimed' = (groupUntimed \/ (sender[s] = "expiregroup" /\ op[s].op = "add"))
    /\ Ends(s)
    /\ UNCHANGED <<mix, keyVars, members, groupTtl, closed, pushed, receiveVars, lost>>

(* RPUSH or SADD is applied, and its answer does not arrive.               *)
PushUnanswered(s) ==
    /\ sender[s] = "push" /\ Failure
    /\ pushed' = pushed + 1
    /\ queue' = Append(queue, pushed + 1)
    /\ untimed' = TRUE
    /\ Ends(s)
    /\ UNCHANGED <<mix, ttl, groupVars, closed, receiveVars, lost>>

AddUnanswered(s) ==
    /\ sender[s] = "sadd" /\ Failure
    /\ members' = members \cup {op[s].channel}
    /\ groupUntimed' = TRUE
    /\ Ends(s)
    /\ UNCHANGED <<mix, keyVars, groupTtl, closed, pushed, untimed, receiveVars, lost>>

(***************************************************************************)
(* receive                                                                 *)
(***************************************************************************)

Receive(r) ==
    /\ "receive" \in mix.calls /\ receiver[r] = "idle" /\ r \notin closed
    /\ ReceiverGoes(r, "pop")
    /\ timed' \in {timed \cup {r}, timed \ {r}}
    /\ UNCHANGED <<mix, keyVars, groupVars, closed, sendVars, held, notified, got, faults, lost>>

(* A message is popped: returned at once, or after another EXPIRE.         *)
Peeked == queue
AfterPop == Tail(queue)
Pop(r) ==
    /\ queue # <<>>
    /\ queue' = AfterPop
    /\ ttl' = (ttl /\ AfterPop # <<>>)
    /\ IF expiry
       THEN /\ ReceiverGoes(r, "expire")
            /\ held' = [held EXCEPT ![r] = Head(queue)]
            /\ UNCHANGED got
       ELSE /\ ReceiverGoes(r, "idle")
            /\ got' = [got EXCEPT ![r] = Append(@, Head(queue))]
            /\ UNCHANGED held
    /\ UNCHANGED <<mix, groupVars, closed, sendVars, timed, notified, faults, lost>>

(* The expiry of a pop: the key keeps its life only if it still exists.    *)
StillHeld(r) == UNCHANGED held
Release(r) == held' = [held EXCEPT ![r] = 0]
ReceiveExpire(r) ==
    /\ receiver[r] = "expire"
    /\ SetTtl
    /\ ReceiverGoes(r, "idle")
    /\ got' = [got EXCEPT ![r] = Append(@, held[r])]
    /\ Release(r)
    /\ UNCHANGED <<mix, groupVars, closed, sendVars, timed, notified, faults, lost>>

Lpop(r) == receiver[r] = "pop" /\ Pop(r)

Moves(r, from, to) ==
    /\ receiver[r] = from
    /\ ReceiverGoes(r, to)
    /\ UNCHANGED <<mix, keyVars, groupVars, closed, sendVars, timed, held, got, faults,
                   lost>>

LpopEmpty(r) ==
    /\ queue = <<>>
    /\ Moves(r, "pop", IF usePubsub THEN "subscribe" ELSE "block")
    /\ UNCHANGED notified

(* TimeoutError: the deadline has passed at the pop or in BLPOP.           *)
TimesOut(r) ==
    /\ r \in timed
    /\ queue = <<>>
    /\ \/ Moves(r, "pop", "idle")
       \/ Moves(r, "block", "idle")
    /\ UNCHANGED notified

(* _wait_for_notification.  A notification counts from here on.            *)
Subscribe(r) ==
    /\ Moves(r, "subscribe", "wait")
    /\ notified' = notified \ {r}

GetMessage(r) ==
    /\ r \in notified
    /\ Moves(r, "wait", "woken")
    /\ UNCHANGED notified

(* get_message returns None: the confirmation, or its timeout.  (An        *)
(* operator that stands before one of the same parameters and is used      *)
(* nowhere is a seeded fault.)                                             *)
OnlyMessages(r) == FALSE
Confirmed(r) == TRUE
GetNone(r) ==
    /\ Confirmed(r)
    /\ Moves(r, "wait", "unsubscribe")
    /\ UNCHANGED notified

(* The finally block; then pop again, or BLPOP.                            *)
Unsubscribe(r) ==
    /\ \/ Moves(r, "woken", "pop")
       \/ Moves(r, "unsubscribe", "block")
    /\ notified' = notified \ {r}

Blpop(r) == receiver[r] = "block" /\ Pop(r)

(* A command of receive fails, or the caller is cancelled: receive raises. *)
(* What it had popped is gone.                                             *)
ReceiveFails(r) ==
    /\ receiver[r] # "idle"
    /\ Failure
    /\ ReceiverGoes(r, "idle")
    /\ lost' = lost \cup ({held[r]} \ {0})
    /\ Release(r)
    /\ notified' = notified \ {r}
    /\ UNCHANGED <<mix, keyVars, groupVars, closed, sendVars, timed, got>>

(* A message is popped, and the answer does not arrive.                    *)
PopIsLost(r) ==
    /\ receiver[r] \in {"pop", "block"}
    /\ queue # <<>>
    /\ Failure
    /\ queue' = AfterPop
    /\ ttl' = (ttl /\ AfterPop # <<>>)
    /\ lost' = lost \cup {Head(queue)}
    /\ ReceiverGoes(r, "idle")
    /\ UNCHANGED <<mix, groupVars, closed, sendVars, timed, held, notified, got>>

(* The key's time to live ends.                                            *)
KeyExpires ==
    /\ ttl
    /\ Failure
    /\ queue' = <<>> /\ ttl' = FALSE
    /\ lost' = lost \cup {queue[i] : i \in DOMAIN queue}
    /\ UNCHANGED <<mix, groupVars, closed, sendVars, receiveVars>>

(* The group's does: its members have left without a call.                 *)
GroupLapses ==
    /\ groupTtl
    /\ Failure
    /\ members' = {} /\ groupTtl' = FALSE
    /\ UNCHANGED <<mix, keyVars, groupUntimed, closed, sendVars, receiveVars, lost>>

(* close: the client is closed as well, if it is the layer's own.          *)
Close(t) ==
    /\ "close" \in mix.calls /\ t \notin closed
    /\ closed' = closed \cup {t}
    /\ UNCHANGED <<mix, keyVars, groupVars, sendVars, receiveVars, faults, lost>>

SenderStep(s) ==
    \/ Push(s) \/ SendExpire(s) \/ Publish(s)
    \/ SAdd(s) \/ SRem(s) \/ SMembers(s)
    \/ FanOutRaises(s) \/ FanOutEnds(s) \/ GroupExpire(s)
    \/ \E c \in Channels : FanOut(s, c)
ReceiverStep(r) ==
    \/ Lpop(r) \/ LpopEmpty(r) \/ ReceiveExpire(r)
    \/ Subscribe(r) \/ GetMessage(r) \/ GetNone(r) \/ Unsubscribe(r)
    \/ Blpop(r)

Next ==
    \/ \E s \in Senders :
          \/ SenderStep(s) \/ SendFails(s) \/ PushUnanswered(s) \/ AddUnanswered(s)
          \/ \E a \in Asks : Call(s, a)
    \/ \E r \in Receivers :
          \/ Receive(r) \/ ReceiverStep(r) \/ TimesOut(r)
          \/ ReceiveFails(r) \/ PopIsLost(r)
    \/ \E t \in Senders \cup Receivers : Close(t)
    \/ KeyExpires \/ GroupLapses

(* Redis answers, and the event loop runs the task that waits for it.      *)
Fairness ==
    /\ \A s \in Senders : WF_vars(SenderStep(s))
    /\ \A r \in Receivers : WF_vars(ReceiverStep(r))

Spec == Init /\ [][Next]_vars /\ Fairness

-----------------------------------------------------------------------------
(***************************************************************************)
(* Properties                                                              *)
(***************************************************************************)

(* Type invariant: every variable has its type, and a receiver holds a     *)
(* message exactly between its pop and its return.                         *)
TypeOK ==
    /\ mix \in Mixes
    /\ members \subseteq Channels /\ groupTtl \in BOOLEAN /\ groupUntimed \in BOOLEAN
    /\ closed \subseteq Senders \cup Receivers
    /\ op \in [Senders -> Asks \cup {NoCall}]
    /\ todo \in [Senders -> SUBSET Channels] /\ found \subseteq Senders
    /\ \A s \in Senders :
          /\ (op[s] = NoCall) = (sender[s] = "idle")
          /\ todo[s] # {} => op[s].op = "fan" /\ s \in found
    /\ queue \in Seq(Nat) /\ ttl \in BOOLEAN
    /\ sender \in [Senders -> SenderPlaces]
    /\ receiver \in [Receivers -> ReceiverPlaces]
    /\ timed \subseteq Receivers /\ notified \subseteq Receivers
    /\ held \in [Receivers -> Nat]
    /\ \A r \in Receivers : (held[r] # 0) = (receiver[r] = "expire")
    /\ sends \in Nat /\ pushed \in Nat /\ faults \in Nat
    /\ got \in [Receivers -> Seq(Nat)]
    /\ lost \subseteq Nat /\ untimed \in BOOLEAN

(* The messages in each place.                                             *)
Queued == {queue[i] : i \in DOMAIN queue}
Held == {held[r] : r \in Receivers} \ {0}
Returned(r) == {got[r][i] : i \in DOMAIN got[r]}
ReturnedTo == UNION {Returned(r) : r \in Receivers}

(* At most once, and nothing vanishes: every message that was pushed is in *)
(* exactly one place, queued, popped, returned to one receiver, or lost by *)
(* a failure between a pop and its return; and each receiver sees rising   *)
(* numbers (redis.py 55-56, 73-95).                                        *)
ExactlyOnePlace ==
    /\ 1 .. pushed = Queued \cup Held \cup ReturnedTo \cup lost
    /\ Queued \cap (Held \cup ReturnedTo \cup lost) = {}
    /\ Held \cap (ReturnedTo \cup lost) = {}
    /\ ReturnedTo \cap lost = {}
    /\ \A q, r \in Receivers : q # r =>
          Returned(q) \cap Returned(r) = {} /\ (held[q] = held[r] => held[q] = 0)
    /\ \A r \in Receivers : \A i, j \in DOMAIN got[r] :
          i < j => got[r][i] < got[r][j]

(* What becomes of a message is final: what was returned or lost stays so, *)
(* and what receive returns was in the list or popped for it (54-95).      *)
Once == INSTANCE AtMostOnce WITH
    Messages <- Nat,
    accepted <- 1 .. pushed,
    returned <- [r \in Receivers |-> Returned(r)]
ImplementsAtMostOnce == Once!Spec

(* No key outlives its use: with channel_expiry a list that holds messages *)
(* has a time to live, or the EXPIRE of a send is on its way, or that      *)
(* EXPIRE failed, although a pop in between may delete the key and its     *)
(* life with it; and so has the set of a group, with group_expiry, which   *)
(* group_discard may delete (redis.py 56-58, 75-76, 93-94, 108-117, 130).  *)
NoImmortalKey ==
    /\ expiry /\ queue # <<>> /\ ~ttl =>
          untimed \/ \E s \in Senders : sender[s] = "expire"
    /\ groupExpiry /\ members # {} /\ ~groupTtl =>
          groupUntimed \/ \E s \in Senders : sender[s] = "expiregroup"

(* No lost wake-up: a receive does not stay waiting beside a message, in   *)
(* whatever order pushes, notifications and the subscription come          *)
(* (redis.py 72-95, 165-204).                                              *)
Delivered ==
    \A r \in Receivers :
        receiver[r] # "idle" /\ queue # <<>> ~> receiver[r] = "idle" \/ queue = <<>>
=============================================================================
