------------------------------ MODULE InMemory ------------------------------
(***************************************************************************)
(* InMemoryChannelLayer (backends/inmemory.py): one asyncio.Queue per      *)
(* channel, one set of channel names per group.                            *)
(*                                                                         *)
(* No operation suspends inside `async with self._lock`, so the lock is    *)
(* never contended and every operation runs to its end in one step of the  *)
(* event loop.  The one exception is `await queue.get()`, whose protocol   *)
(* with put_nowait is modelled as asyncio runs it: a put wakes one waiting *)
(* getter but leaves the item in the queue, the woken task runs later, and *)
(* in between another receive may take the item, or the woken one may time *)
(* out or be cancelled and must then pass its wake-up on.                  *)
(***************************************************************************)
EXTENDS Integers, Sequences, FiniteSets

CONSTANTS
    Channels,    \* channel names
    Groups,      \* group names
    Receivers,   \* tasks that call receive
    Messages,    \* message values
    Capacities,  \* the values of the constructor's `capacity` to consider
    Shared,      \* channels on which several tasks may wait at once
    MaxPuts      \* bound on the messages put into one channel

ASSUME FiniteReceivers == IsFiniteSet(Receivers)
ASSUME IntCapacities == Capacities \subseteq Int
ASSUME NatMaxPuts == MaxPuts \in Nat

VARIABLES
    capacity,  \* self.capacity
    closed,    \* self._closed
    channels,  \* the keys of self._channels
    groups,    \* self._groups; a missing key is the empty set
    queue,     \* queue[c]: the messages in c's asyncio.Queue
    sentinel,  \* channels whose queue ends with _CLOSE_SENTINEL
    getters,   \* getters[c]: tasks waiting in c's queue.get()
    ready,     \* ready[c]: woken tasks that have not run yet
    log,       \* history, log[c]: every message c's queue accepted
    got        \* history, got[c]: every message receive(c) returned

vars == <<capacity, closed, channels, groups, queue, sentinel, getters, ready,
          log, got>>
history == <<log, got>>

Waiting(c) == getters[c] \cup ready[c]

(* Queue.qsize(): the sentinel is an item like any other.                  *)
Size(c) == Len(queue[c]) + (IF c \in sentinel THEN 1 ELSE 0)

(* Queue.full(): a maxsize of zero or less means no limit.  The first form *)
(* is a seeded fault, used by a mutation: it forgets the zero.             *)
FullIgnoringZero(c) == Size(c) >= capacity
Full(c) == capacity > 0 /\ Size(c) >= capacity

Init ==
    /\ capacity \in Capacities
    /\ closed = FALSE
    /\ channels = {}
    /\ groups = [g \in Groups |-> {}]
    /\ queue = [c \in Channels |-> <<>>]
    /\ sentinel = {}
    /\ getters = [c \in Channels |-> {}]
    /\ ready = [c \in Channels |-> {}]
    /\ log = [c \in Channels |-> <<>>]
    /\ got = [c \in Channels |-> <<>>]

(***************************************************************************)
(* asyncio.Queue                                                           *)
(***************************************************************************)

(* _wakeup_next on each of the queues `cs`: one waiting getter, if any,    *)
(* becomes ready.  The deque's order is abstracted to a choice.  WakeNobody *)
(* is a seeded fault.                                                      *)
Woken(c) == IF getters[c] = {} THEN {{}} ELSE {{r} : r \in getters[c]}

WakeNobody(cs) == UNCHANGED <<getters, ready>>
WakeupNext(cs) ==
    \E w \in [Channels -> SUBSET Receivers] :
        /\ \A c \in Channels : w[c] \in (IF c \in cs THEN Woken(c) ELSE {{}})
        /\ getters' = [c \in Channels |-> getters[c] \ w[c]]
        /\ ready' = [c \in Channels |-> ready[c] \cup w[c]]

(* put_nowait(m) on each of the queues `cs`.                               *)
Put(cs, m) ==
    /\ \A c \in cs : Len(log[c]) < MaxPuts
    /\ queue' = [c \in Channels |->
                   IF c \in cs THEN Append(queue[c], m) ELSE queue[c]]
    /\ log' = [c \in Channels |->
                 IF c \in cs THEN Append(log[c], m) ELSE log[c]]
    /\ WakeupNext(cs)
    /\ UNCHANGED got

(* get_nowait() on c, when a message is at the head.  TakeLast is a seeded *)
(* fault.                                                                  *)
TakeLast(c) ==
    /\ queue[c] # <<>>
    /\ queue' = [queue EXCEPT ![c] = SubSeq(@, 1, Len(@) - 1)]
    /\ got' = [got EXCEPT ![c] = Append(@, queue[c][Len(queue[c])])]
    /\ UNCHANGED log
TakeHead(c) ==
    /\ queue[c] # <<>>
    /\ queue' = [queue EXCEPT ![c] = Tail(@)]
    /\ got' = [got EXCEPT ![c] = Append(@, Head(queue[c]))]
    /\ UNCHANGED log

(* A waiting getter gives up (timeout or cancellation).  One that had been *)
(* woken wakes the next if the queue still holds something; GiveUpAlone    *)
(* is the seeded fault that forgets to.                                    *)
GiveUpAlone(c, r) ==
    /\ ready' = [ready EXCEPT ![c] = @ \ {r}]
    /\ UNCHANGED getters
GiveUp(c, r) ==
    IF Size(c) > 0
    THEN \E w \in Woken(c) :
            /\ getters' = [getters EXCEPT ![c] = @ \ w]
            /\ ready' = [ready EXCEPT ![c] = (@ \ {r}) \cup w]
    ELSE GiveUpAlone(c, r)

(***************************************************************************)
(* The layer's operations                                                  *)
(***************************************************************************)

(* send: raises ChannelFull, having created the queue, when there is no    *)
(* room.                                                                   *)
Send(c, m) ==
    /\ ~closed
    /\ channels' = channels \cup {c}
    /\ \/ ~Full(c) /\ Put({c}, m)
       \/ Full(c) /\ UNCHANGED <<queue, getters, ready, history>>
    /\ UNCHANGED <<capacity, closed, groups, sentinel>>

(* receive: takes the head at once if there is one, even when other tasks  *)
(* have been woken for it; otherwise it waits.                             *)
Receive(c, r) ==
    /\ ~closed
    /\ \A d \in Channels : r \notin Waiting(d)
    /\ c \in Shared \/ Waiting(c) = {}
    /\ channels' = channels \cup {c}
    /\ \/ TakeHead(c) /\ UNCHANGED <<getters, ready>>
       \/ /\ queue[c] = <<>>
          /\ getters' = [getters EXCEPT ![c] = @ \cup {r}]
          /\ UNCHANGED <<queue, ready, history>>
    /\ UNCHANGED <<capacity, closed, groups, sentinel>>

(* A woken task runs: it takes the head, or finds the queue empty and      *)
(* waits again, or takes the sentinel and raises ChannelLayerClosed.       *)
ResumeMessage(c, r) ==
    /\ r \in ready[c]
    /\ TakeHead(c)
    /\ ready' = [ready EXCEPT ![c] = @ \ {r}]
    /\ UNCHANGED <<capacity, closed, channels, groups, sentinel, getters>>

ResumeEmpty(c, r) ==
    /\ r \in ready[c]
    /\ Size(c) = 0
    /\ ready' = [ready EXCEPT ![c] = @ \ {r}]
    /\ getters' = [getters EXCEPT ![c] = @ \cup {r}]
    /\ UNCHANGED <<capacity, closed, channels, groups, queue, sentinel, history>>

ResumeClosed(c, r) ==
    /\ r \in ready[c]
    /\ queue[c] = <<>>
    /\ c \in sentinel
    /\ sentinel' = sentinel \ {c}
    /\ ready' = [ready EXCEPT ![c] = @ \ {r}]
    /\ UNCHANGED <<capacity, closed, channels, groups, queue, getters, history>>

Resume(c, r) == ResumeMessage(c, r) \/ ResumeEmpty(c, r) \/ ResumeClosed(c, r)

(* wait_for times out, or the task that called receive is cancelled.       *)
Abandon(c, r) ==
    /\ \/ r \in ready[c] /\ GiveUp(c, r)
       \/ /\ r \in getters[c]
          /\ getters' = [getters EXCEPT ![c] = @ \ {r}]
          /\ UNCHANGED ready
    /\ UNCHANGED <<capacity, closed, channels, groups, queue, sentinel, history>>

(* new_channel: uuid4 makes the name a fresh one.                          *)
NewChannel(c) ==
    /\ ~closed
    /\ c \notin channels
    /\ channels' = channels \cup {c}
    /\ UNCHANGED <<capacity, closed, groups, queue, sentinel, getters, ready, history>>

(* group_add: creates the channel's queue as well; the first form is the   *)
(* seeded fault that does not.                                             *)
GroupAddNoQueue(g, c) ==
    /\ ~closed
    /\ groups' = [groups EXCEPT ![g] = @ \cup {c}]
    /\ UNCHANGED <<capacity, closed, channels, queue, sentinel, getters, ready, history>>
GroupAdd(g, c) ==
    /\ ~closed
    /\ channels' = channels \cup {c}
    /\ groups' = [groups EXCEPT ![g] = @ \cup {c}]
    /\ UNCHANGED <<capacity, closed, queue, sentinel, getters, ready, history>>

GroupDiscard(g, c) ==
    /\ ~closed
    /\ groups' = [groups EXCEPT ![g] = @ \ {c}]
    /\ UNCHANGED <<capacity, closed, channels, queue, sentinel, getters, ready, history>>

(* The members a fan-out reaches: it sends to one after the other, in no   *)
(* particular order, and the first full one ends it with ChannelFull.      *)
Reached(g) ==
    IF \E c \in groups[g] : Full(c)
    THEN SUBSET {c \in groups[g] : ~Full(c)}
    ELSE {groups[g]}

GroupSend(g, m) ==
    /\ ~closed
    /\ \E reached \in Reached(g) : Put(reached, m)
    /\ UNCHANGED <<capacity, closed, channels, groups, sentinel>>

(* close: one sentinel for each queue that has room for it.  Closing       *)
(* without any is a seeded fault.                                          *)
WakesNone == {}
Wakes == {c \in channels : ~Full(c)}
Close ==
    /\ ~closed
    /\ closed' = TRUE
    /\ channels' = {}
    /\ groups' = [g \in Groups |-> {}]
    /\ sentinel' = Wakes
    /\ WakeupNext(Wakes)
    /\ UNCHANGED <<capacity, queue, history>>

Next ==
    \/ \E c \in Channels, m \in Messages : Send(c, m)
    \/ \E c \in Channels, r \in Receivers : Receive(c, r)
    \/ \E c \in Channels, r \in Receivers : Resume(c, r)
    \/ \E c \in Channels, r \in Receivers : Abandon(c, r)
    \/ \E c \in Channels : NewChannel(c)
    \/ \E g \in Groups, c \in Channels : GroupAdd(g, c)
    \/ \E g \in Groups, c \in Channels : GroupDiscard(g, c)
    \/ \E g \in Groups, m \in Messages : GroupSend(g, m)
    \/ Close

(* The event loop runs every task that is ready.                           *)
Fairness ==
    \A c \in Channels, r \in Receivers : WF_vars(Resume(c, r))

Spec == Init /\ [][Next]_vars /\ Fairness

-----------------------------------------------------------------------------
(***************************************************************************)
(* Properties                                                              *)
(***************************************************************************)

(* Type invariant: every variable has the shape the code gives it, and     *)
(* every member of a group has a queue to be sent to.                      *)
TypeOK ==
    /\ capacity \in Int
    /\ closed \in BOOLEAN
    /\ channels \subseteq Channels
    /\ groups \in [Groups -> SUBSET Channels]
    /\ \A g \in Groups : groups[g] \subseteq channels
    /\ queue \in [Channels -> Seq(Messages)]
    /\ sentinel \subseteq Channels
    /\ getters \in [Channels -> SUBSET Receivers]
    /\ ready \in [Channels -> SUBSET Receivers]
    /\ log \in [Channels -> Seq(Messages)]
    /\ got \in [Channels -> Seq(Messages)]

(* No lost wake-up: while some task sleeps in queue.get(), every item in   *)
(* the queue (the sentinel included) has a woken task on its way to it,    *)
(* whatever receives barge in, time out or are cancelled (inmemory.py      *)
(* 39-42 against 30 and 91).                                               *)
NoLostWakeup ==
    \A c \in Channels :
        getters[c] # {} => Cardinality(ready[c]) >= Size(c)

(* No loss, duplication or reordering: what receive(c) has returned,       *)
(* followed by what is still queued, is what send and group_send put into  *)
(* c, in that order (inmemory.py 26-45, 73-79).                            *)
Accounting == \A c \in Channels : log[c] = got[c] \o queue[c]

(* Once the layer is closed, the only task that waited on a channel has    *)
(* been woken: none stays asleep in queue.get() (inmemory.py 81-91).       *)
CloseWakes ==
    closed => \A c \in Channels \ Shared : getters[c] = {}

(* close() ends every receive that waits on a channel of its own, by a     *)
(* message, by ChannelLayerClosed or by its own timeout (inmemory.py       *)
(* 43-44, 89-91).                                                          *)
CloseUnblocks ==
    \A c \in Channels \ Shared : closed ~> Waiting(c) = {}

(* The same of every channel, the shared ones included, as the test named  *)
(* test_close_unblocks_pending_receivers has it (tests/test_inmemory.py    *)
(* 105).  One sentinel per queue is too few for it.                        *)
CloseUnblocksEveryone == \A c \in Channels : closed ~> Waiting(c) = {}

(* "Fan out a message to all channels in a group" (backends/base.py 36):   *)
(* a group_send that puts the message into one member's channel puts it    *)
(* into every member's.  A full member ends the loop in the middle.        *)
FansOutToAll ==
    [][\A g \in Groups, m \in Messages :
          GroupSend(g, m) =>
             LET reached == {c \in groups[g] : log'[c] # log[c]}
             IN  reached = {} \/ reached = groups[g]]_vars

(* The layer implements the abstract channel layer, its liveness included: *)
(* a receive that waits beside a message returns.                          *)
Abstract == INSTANCE ChannelLayer WITH
    open <- ~closed,
    members <- groups,
    inbox <- queue,
    pending <- [c \in Channels |-> Waiting(c)]
ImplementsChannelLayer == Abstract!Spec

(* Its safety part alone.                                                  *)
SafeChannelLayer == Abstract!Init /\ [][Abstract!Next]_(Abstract!vars)
=============================================================================
