------------------------------ MODULE Postgres ------------------------------
(***************************************************************************)
(* PostgreSQLChannelLayer (backends/postgresql.py): one table of messages, *)
(* one of group members, NOTIFY to wake receivers, and a pool made by the  *)
(* first operation that needs it.                                          *)
(*                                                                         *)
(* Tasks call one layer.  Every operation begins with _get_pool and        *)
(* _prune_expired_if_due and goes on with SQL statements of its own, each  *)
(* on a connection that it acquires from the pool and gives back; between  *)
(* any two awaits the other tasks run.  Tasks of other processes differ    *)
(* only in their pool and their prune clock.  Groups share nothing, so     *)
(* there is one.                                                           *)
(*                                                                         *)
(* PostgreSQL and asyncpg are external.  A statement sees the rows that    *)
(* were committed when it began, and a DELETE skips a row that somebody    *)
(* else has deleted since.  A row takes its id before it is committed.  A  *)
(* pool that is being closed lends no connection any more, and its close   *)
(* returns when all are back.                                              *)
(*                                                                         *)
(* (An operator that stands before one of the same parameters and is used  *)
(* nowhere is a seeded fault.)                                             *)
(***************************************************************************)
EXTENDS Integers, Sequences, FiniteSets

CONSTANTS
    Tasks,      \* tasks that call the layer
    Channels,   \* channel names
    NoTask,     \* nobody holds the prune lock
    Uses,       \* Uses[t]: the calls task t makes, pairs of an operation and a channel
    PoolSize,   \* connections of a pool
    Backlog,    \* the channels of the rows that earlier processes may have left
    MaxCalls,   \* bound on the number of calls
    MaxEvents   \* bound on failures, cancellations, expiries and prune intervals

ASSUME NoTaskAssumption == NoTask \notin Tasks
ASSUME ChannelsAssumption == Channels # {}
ASSUME UsesAssumption ==
    Uses \in [Tasks -> SUBSET ({"send", "receive", "add", "discard", "fan"} \X Channels)]
ASSUME BoundsAssumption ==
    Backlog \in Seq(Channels) /\ PoolSize \in Nat \ {0} /\ MaxCalls \in Nat /\ MaxEvents \in Nat

VARIABLES
    ownsPool,     \* self._owns_pool
    pool,         \* self._pool: pools are numbered as they are made, 0 is None
    made,         \* number of pools made, a supplied one included
    ended,        \* pools that were closed
    makesTables,  \* ensure_schema, and no pool was supplied
    schemaReady,  \* self._schema_ready
    tables,       \* the tables exist
    closed,       \* self._closed
    closer,       \* where close() is
    due,          \* prune_interval has passed since _last_prune_at
    lock,         \* the holder of _prune_lock
    pc, op, chan, \* each task's place, its operation and the channel it is at
    timed,        \* tasks whose receive has a timeout
    mine,         \* the row a task is inserting or deleting, 0 for none
    using,        \* the pool a task has a connection of, 0 for none
    event,        \* tasks whose listener was notified
    todo,         \* channels group_send has still to send to
    sentTo,       \* sentTo[i]: the channel of the row with id i
    stored,       \* ids of the committed rows
    stale,        \* those whose expires_at has passed
    members,      \* rows of group_members
    lapsed,       \* those whose expires_at has passed
    calls, events,
    sentBy,       \* history: sentBy[i], the task that inserted row i
    got,          \* history: got[t], the ids receive returned to t
    lost,         \* history: rows rolled back, pruned, or deleted in vain
    periods, prunes, \* history: intervals that ended, prunes that were made
    raced,        \* history: two tasks made a pool at once, or one while closing
    stable,       \* history: channels that were live members since the call began
    reached       \* history: channels the call has inserted a row for

poolVars == <<pool, made, raced>>
schemaVars == <<makesTables, schemaReady, tables>>
closeVars == <<ended, closed, closer>>
pruneVars == <<due, lock, periods, prunes>>
callVars == <<op, timed>>
rowVars == <<sentTo, sentBy, stored, stale, lost, got>>
memberVars == <<members, lapsed>>
fanVars == <<chan, todo, stable, reached>>
heldVars == <<mine, using, event>>
boundVars == <<calls, events>>
vars == <<ownsPool, poolVars, schemaVars, closeVars, pruneVars, pc, callVars, rowVars,
          memberVars, fanVars, heldVars, boundVars>>

Operations == {"none", "send", "receive", "add", "discard", "fan", "fanout"}

(* Places of the common beginning, and those of the operations.            *)
Prologue == {"connect", "schema"}
Pruning == {"pruneRows", "pruneMembers"}
Body == {"lock", "insert", "commit", "notify", "select", "delete", "listen",
         "wait", "join", "leave", "members"} \cup Pruning
Places == {"idle"} \cup Prologue \cup Body

Init ==
    /\ \/ ownsPool = FALSE /\ pool = 1 /\ made = 1 /\ makesTables = FALSE   \* supplied
       \/ ownsPool = TRUE /\ pool = 0 /\ made = 0 /\ makesTables \in BOOLEAN
    /\ schemaReady = ~makesTables     \* whether or not there are tables
    /\ tables \in BOOLEAN
    /\ \/ sentTo = <<>> /\ members = {}
       \/ tables /\ sentTo = Backlog /\ members = Channels
    /\ sentBy = [i \in DOMAIN sentTo |-> NoTask] /\ stored = DOMAIN sentTo
    /\ ended = {} /\ closed = FALSE /\ closer = "open"
    /\ due = TRUE /\ lock = NoTask         \* _last_prune_at is 0.0
    /\ pc = [t \in Tasks |-> "idle"]
    /\ op = [t \in Tasks |-> "none"]
    /\ chan = [t \in Tasks |-> CHOOSE c \in Channels : TRUE]
    /\ timed = {}
    /\ mine = [t \in Tasks |-> 0] /\ using = [t \in Tasks |-> 0] /\ event = {}
    /\ todo = [t \in Tasks |-> {}]
    /\ stale = {} /\ lost = {} /\ lapsed = {}
    /\ calls = 0 /\ events = 0
    /\ got = [t \in Tasks |-> <<>>]
    /\ periods = 1 /\ prunes = 0 /\ raced = FALSE
    /\ stable = [t \in Tasks |-> {}] /\ reached = [t \in Tasks |-> {}]

-----------------------------------------------------------------------------
(* The first place of each operation behind the common beginning.          *)
First(o) == CASE o \in {"send", "fanout"} -> "insert"
              [] o = "receive" -> "select"
              [] o = "add" -> "join"
              [] o = "discard" -> "leave"
              [] o = "fan" -> "members"

(* _prune_expired_if_due asks for the lock only when a prune is due.       *)
Pruned(o) == IF due THEN "lock" ELSE First(o)
(* _get_pool: make the pool, then the tables, unless they are there.       *)
ReadyAtOnce(o) == Pruned(o)
Ready(o) == IF schemaReady THEN Pruned(o) ELSE "schema"
Pooled(o) == IF pool = 0 THEN "connect" ELSE Ready(o)

Goes(t, place) == pc' = [pc EXCEPT ![t] = place]
At(t, place, next) == pc[t] = place /\ Goes(t, next)

(* The call is over, with or without an exception.                         *)
Returns(t) ==
    /\ Goes(t, "idle")
    /\ op' = [op EXCEPT ![t] = "none"]
    /\ timed' = timed \ {t}
    /\ todo' = [todo EXCEPT ![t] = {}]
    /\ reached' = [reached EXCEPT ![t] = {}]
Forgets(t) == stable' = [stable EXCEPT ![t] = {}]

(* pool.acquire(): a connection is free and the pool is not being closed.  *)
Free == pool \notin ended /\ Cardinality({t \in Tasks : using[t] = pool}) < PoolSize
Acquire(t) == Free /\ using' = [using EXCEPT ![t] = pool]
KeepConnection(t) == using' = using
GiveBack(t) == using' = [using EXCEPT ![t] = 0]

Live == members \ lapsed
Visible(c) == {i \in stored \ stale : sentTo[i] = c}

(***************************************************************************)
(* Calls.  A call on a closed layer raises and changes nothing.            *)
(***************************************************************************)
Begin(t, o, c) ==
    /\ pc[t] = "idle" /\ ~closed
    /\ calls < MaxCalls /\ calls' = calls + 1
    /\ op' = [op EXCEPT ![t] = o]
    /\ chan' = [chan EXCEPT ![t] = c]
    /\ timed' \in IF o = "receive" THEN {timed, timed \cup {t}} ELSE {timed}
    /\ Goes(t, Pooled(o))
    /\ raced' = (raced \/ (pool = 0 /\ \E u \in Tasks : pc[u] = "connect"))
    /\ stable' = [stable EXCEPT ![t] = IF o = "fan" THEN Live ELSE {}]
    /\ UNCHANGED <<ownsPool, pool, made, schemaVars, closeVars, pruneVars, rowVars,
                   memberVars, todo, reached, heldVars, events>>

Call(t) == \E use \in Uses[t] : Begin(t, use[1], use[2])

(* _get_pool: create_pool has returned.  It may replace another's pool.    *)
Connect(t) ==
    /\ At(t, "connect", Ready(op[t]))
    /\ made' = made + 1 /\ pool' = made + 1
    /\ UNCHANGED <<ownsPool, raced, schemaVars, closeVars, pruneVars, callVars, rowVars,
                   memberVars, fanVars, heldVars, boundVars>>

(* _ensure_schema.  Its five statements run on a connection each; they are *)
(* one step, whose end is that of the last, which may run while the pool   *)
(* is closed.                                                              *)
CreateSchema(t) ==
    /\ At(t, "schema", Pruned(op[t]))
    /\ schemaReady' = TRUE /\ tables' = TRUE
    /\ UNCHANGED <<ownsPool, makesTables, poolVars, closeVars, pruneVars, callVars, rowVars,
                   memberVars, fanVars, heldVars, boundVars>>

(***************************************************************************)
(* _prune_expired_if_due: it looks again once it has the lock, and moves   *)
(* _last_prune_at when both statements are done.  (A prune_interval that   *)
(* is not positive, for which nothing is ever pruned, is left out.)        *)
(***************************************************************************)
NeverAgain(t) == FALSE
PrunedMeanwhile(t) == ~due
Lock(t) ==
    /\ lock = NoTask
    /\ IF PrunedMeanwhile(t)
       THEN At(t, "lock", First(op[t])) /\ UNCHANGED lock
       ELSE At(t, "lock", "pruneRows") /\ lock' = t
    /\ UNCHANGED <<ownsPool, poolVars, schemaVars, closeVars, due, periods, prunes, callVars,
                   rowVars, memberVars, fanVars, heldVars, boundVars>>

PruneRows(t) ==
    /\ Free /\ tables
    /\ At(t, "pruneRows", "pruneMembers")
    /\ stored' = stored \ stale /\ stale' = {} /\ lost' = lost \cup stale
    /\ UNCHANGED <<ownsPool, poolVars, schemaVars, closeVars, pruneVars, callVars, sentTo,
                   sentBy, got, memberVars, fanVars, heldVars, boundVars>>

PruneMembers(t) ==
    /\ Free /\ tables
    /\ At(t, "pruneMembers", First(op[t]))
    /\ members' = Live /\ lapsed' = {}
    /\ due' = FALSE /\ lock' = NoTask /\ prunes' = prunes + 1
    /\ UNCHANGED <<ownsPool, poolVars, schemaVars, closeVars, periods, callVars, rowVars,
                   fanVars, heldVars, boundVars>>

(***************************************************************************)
(* send: INSERT, then pg_notify, each on a connection of its own.          *)
(***************************************************************************)
Insert(t) ==
    /\ At(t, "insert", "commit")
    /\ tables /\ Acquire(t)
    /\ sentTo' = Append(sentTo, chan[t]) /\ sentBy' = Append(sentBy, t)
    /\ mine' = [mine EXCEPT ![t] = Len(sentTo) + 1]
    /\ UNCHANGED <<ownsPool, poolVars, schemaVars, closeVars, pruneVars, callVars, stored,
                   stale, lost, got, memberVars, fanVars, event, boundVars>>

Commit(t) ==
    /\ At(t, "commit", "notify")
    /\ GiveBack(t)
    /\ stored' = stored \cup {mine[t]}
    /\ mine' = [mine EXCEPT ![t] = 0]
    /\ reached' = [reached EXCEPT ![t] = @ \cup {chan[t]}]
    /\ UNCHANGED <<ownsPool, poolVars, schemaVars, closeVars, pruneVars, callVars, sentTo,
                   sentBy, stale, lost, got, memberVars, chan, todo, stable, event, boundVars>>

(* The sends of group_send, one after the other: each is a call of send,   *)
(* which raises once the layer is closed.                                  *)
Forget(t, rest) == todo' = [todo EXCEPT ![t] = {}]
Keep(t, rest) == todo' = [todo EXCEPT ![t] = rest]
SendNext(t, rest) ==
    IF rest = {} \/ closed
    THEN /\ Returns(t)
         /\ Forgets(t)
         /\ UNCHANGED chan
    ELSE \E c \in rest :
         /\ Goes(t, Pruned("fanout"))
         /\ op' = [op EXCEPT ![t] = "fanout"]
         /\ chan' = [chan EXCEPT ![t] = c]
         /\ Keep(t, rest \ {c})
         /\ UNCHANGED <<timed, stable, reached>>

Notify(t) ==
    /\ pc[t] = "notify" /\ Free
    /\ event' = event \cup {u \in Tasks : pc[u] = "wait" /\ chan[u] = chan[t]}
    /\ SendNext(t, todo[t])
    /\ UNCHANGED <<ownsPool, poolVars, schemaVars, closeVars, pruneVars, rowVars, memberVars,
                   mine, using, boundVars>>

(***************************************************************************)
(* receive: one statement finds the first row and deletes it.  Without a   *)
(* row it gives up when its time is over, or listens for poll_interval.    *)
(***************************************************************************)
Newest(c) == CHOOSE i \in Visible(c) : \A j \in Visible(c) : j <= i
Oldest(c) == CHOOSE i \in Visible(c) : \A j \in Visible(c) : i <= j
Select(t) ==
    /\ Visible(chan[t]) # {}
    /\ At(t, "select", "delete")
    /\ tables /\ Acquire(t)
    /\ mine' = [mine EXCEPT ![t] = Oldest(chan[t])]
    /\ UNCHANGED <<ownsPool, poolVars, schemaVars, closeVars, pruneVars, callVars, rowVars,
                   memberVars, fanVars, event, boundVars>>

AsSelected(t) == TRUE
StillThere(t) == mine[t] \in stored
Delete(t) ==
    /\ StillThere(t)
    /\ pc[t] = "delete" /\ Returns(t)
    /\ GiveBack(t)
    /\ stored' = stored \ {mine[t]} /\ stale' = stale \ {mine[t]}
    /\ got' = [got EXCEPT ![t] = Append(@, mine[t])]
    /\ mine' = [mine EXCEPT ![t] = 0]
    /\ UNCHANGED <<ownsPool, poolVars, schemaVars, closeVars, pruneVars, sentTo, sentBy, lost,
                   memberVars, chan, stable, event, boundVars>>

(* The statement returned no row: there was none, or somebody else has     *)
(* deleted it.                                                             *)
NoRowNoWait(t) == Returns(t) /\ UNCHANGED <<chan, stable>>
NoRow(t) ==
    /\ \/ t \in timed /\ Returns(t)
       \/ Goes(t, "listen") /\ UNCHANGED <<callVars, todo, reached>>
    /\ UNCHANGED <<chan, stable>>

SelectNothing(t) ==
    /\ pc[t] = "select" /\ Free /\ tables
    /\ Visible(chan[t]) = {}
    /\ NoRow(t)
    /\ UNCHANGED <<ownsPool, poolVars, schemaVars, closeVars, pruneVars, rowVars, memberVars,
                   heldVars, boundVars>>

DeleteNothing(t) ==
    /\ pc[t] = "delete"
    /\ ~StillThere(t)
    /\ NoRow(t)
    /\ GiveBack(t)
    /\ mine' = [mine EXCEPT ![t] = 0]
    /\ UNCHANGED <<ownsPool, poolVars, schemaVars, closeVars, pruneVars, rowVars, memberVars,
                   event, boundVars>>

(* _wait_for_notification holds its connection while it listens.           *)
Listen(t) ==
    /\ At(t, "listen", "wait")
    /\ Acquire(t)
    /\ UNCHANGED <<ownsPool, poolVars, schemaVars, closeVars, pruneVars, callVars, rowVars,
                   memberVars, fanVars, mine, event, boundVars>>

(* The event is set, or poll_interval is over; remove_listener.  Before    *)
(* Python 3.11 `except TimeoutError` does not catch wait_for's error, and  *)
(* receive raises it; which Python runs is left open.                      *)
StopsListening(t) ==
    /\ pc[t] = "wait"
    /\ GiveBack(t)
    /\ event' = event \ {t}
    /\ UNCHANGED <<ownsPool, poolVars, schemaVars, closeVars, pruneVars, rowVars, memberVars,
                   chan, stable, mine, boundVars>>
WakesNotified(t) ==
    /\ t \in event
    /\ StopsListening(t)
    /\ Goes(t, "select")
    /\ UNCHANGED <<callVars, todo, reached>>
Wakes(t) ==
    /\ StopsListening(t)
    /\ Goes(t, "select")
    /\ UNCHANGED <<callVars, todo, reached>>
PollRaises(t) ==
    /\ t \notin event
    /\ StopsListening(t)
    /\ Returns(t)

(***************************************************************************)
(* Groups: one statement to add (again: the row gets a new expires_at),    *)
(* to discard, and to find the members; group_send then calls send.        *)
(***************************************************************************)
Join(t) ==
    /\ Free /\ tables
    /\ pc[t] = "join" /\ Returns(t)
    /\ members' = members \cup {chan[t]} /\ lapsed' = lapsed \ {chan[t]}
    /\ UNCHANGED <<ownsPool, poolVars, schemaVars, closeVars, pruneVars, rowVars, chan, stable,
                   heldVars, boundVars>>

(* A channel that is no live member any more is stable for no call.        *)
Unstable(c) == stable' = [u \in Tasks |-> stable[u] \ {c}]

Leave(t) ==
    /\ Free /\ tables
    /\ pc[t] = "leave" /\ Returns(t)
    /\ members' = members \ {chan[t]} /\ lapsed' = lapsed \ {chan[t]}
    /\ Unstable(chan[t])
    /\ UNCHANGED <<ownsPool, poolVars, schemaVars, closeVars, pruneVars, rowVars, chan, heldVars,
                   boundVars>>

FetchMembers(t) ==
    /\ pc[t] = "members" /\ Free /\ tables
    /\ SendNext(t, Live)
    /\ UNCHANGED <<ownsPool, poolVars, schemaVars, closeVars, pruneVars, rowVars, memberVars,
                   heldVars, boundVars>>

(***************************************************************************)
(* close: only a pool of the layer's own is closed, and the call returns   *)
(* when its connections are back.                                          *)
(***************************************************************************)
ClosesPool == pool # 0 /\ ownsPool
Close ==
    /\ ~closed /\ closed' = TRUE
    /\ ended' = IF ClosesPool THEN ended \cup {pool} ELSE ended
    /\ closer' = IF ClosesPool THEN "closing" ELSE "done"
    /\ raced' = (raced \/ \E t \in Tasks : pc[t] = "connect")
    /\ UNCHANGED <<ownsPool, pool, made, schemaVars, pruneVars, pc, callVars, rowVars,
                   memberVars, fanVars, heldVars, boundVars>>

AtOnce == TRUE
AllBack == \A t \in Tasks : using[t] \notin ended
CloseReturns ==
    /\ closer = "closing" /\ AllBack
    /\ closer' = "done"
    /\ UNCHANGED <<ownsPool, poolVars, schemaVars, ended, closed, pruneVars, pc, callVars,
                   rowVars, memberVars, fanVars, heldVars, boundVars>>

(***************************************************************************)
(* Failures.  A call ends with an exception: the pool refuses, a table is  *)
(* not there, a statement or create_pool fails, or the task is cancelled.  *)
(* `async with` gives the connection and the lock back.                    *)
(***************************************************************************)
FreeLock(t) == lock' = IF lock = t THEN NoTask ELSE lock
Raises(t) ==
    /\ Returns(t)
    /\ Forgets(t)
    /\ GiveBack(t)
    /\ FreeLock(t)
    /\ mine' = [mine EXCEPT ![t] = 0]
    /\ event' = event \ {t}
    /\ UNCHANGED <<ownsPool, poolVars, schemaVars, closeVars, due, periods, prunes, sentTo,
                   sentBy, got, memberVars, chan, calls>>

UsesTables == {"insert", "select", "join", "leave", "members"} \cup Pruning
NeedsConnection == {"schema", "notify", "listen"} \cup UsesTables
NoConnection(t) == pc[t] \in NeedsConnection /\ pool \in ended
NoTable(t) == pc[t] \in UsesTables /\ Free /\ ~tables    \* undefined_table
Refused(t) ==
    /\ NoConnection(t) \/ NoTable(t)
    /\ Raises(t)
    /\ UNCHANGED <<stored, stale, lost, boundVars>>

Event == events < MaxEvents /\ events' = events + 1
Fault(t) == Event /\ Raises(t)

(* The statement has no effect; an INSERT is rolled back.                  *)
Fails(t) ==
    /\ pc[t] # "idle"
    /\ Fault(t)
    /\ lost' = IF pc[t] = "commit" THEN lost \cup {mine[t]} ELSE lost
    /\ UNCHANGED <<stored, stale>>

(* The statement has its effect, and its answer does not arrive.           *)
InsertUnanswered(t) ==
    /\ pc[t] = "commit"
    /\ Fault(t)
    /\ stored' = stored \cup {mine[t]}
    /\ UNCHANGED <<stale, lost>>

DeleteUnanswered(t) ==
    /\ pc[t] = "delete" /\ mine[t] \in stored
    /\ Fault(t)
    /\ stored' = stored \ {mine[t]} /\ stale' = stale \ {mine[t]}
    /\ lost' = lost \cup {mine[t]}

(***************************************************************************)
(* Time.                                                                   *)
(***************************************************************************)
RowExpires ==
    /\ Event
    /\ \E i \in stored \ stale : stale' = stale \cup {i}
    /\ UNCHANGED <<ownsPool, poolVars, schemaVars, closeVars, pruneVars, pc, callVars, sentTo,
                   sentBy, stored, lost, got, memberVars, fanVars, heldVars, calls>>

MemberLapses ==
    /\ Event
    /\ \E c \in Live : lapsed' = lapsed \cup {c} /\ Unstable(c)
    /\ UNCHANGED <<ownsPool, poolVars, schemaVars, closeVars, pruneVars, pc, callVars, rowVars,
                   members, chan, todo, reached, heldVars, calls>>

PruneFallsDue ==
    /\ Event
    /\ ~due /\ due' = TRUE /\ periods' = periods + 1
    /\ UNCHANGED <<ownsPool, poolVars, schemaVars, closeVars, lock, prunes, pc, callVars,
                   rowVars, memberVars, fanVars, heldVars, calls>>

Step(t) ==
    \/ Connect(t) \/ CreateSchema(t)
    \/ Lock(t) \/ PruneRows(t) \/ PruneMembers(t)
    \/ Insert(t) \/ Commit(t) \/ Notify(t)
    \/ Select(t) \/ Delete(t) \/ SelectNothing(t) \/ DeleteNothing(t)
    \/ Listen(t) \/ Wakes(t)
    \/ Join(t) \/ Leave(t) \/ FetchMembers(t)
    \/ Refused(t)
Trouble(t) == PollRaises(t) \/ Fails(t) \/ InsertUnanswered(t) \/ DeleteUnanswered(t)

Next ==
    \/ \E t \in Tasks : Call(t) \/ Step(t) \/ Trouble(t)
    \/ Close \/ CloseReturns
    \/ RowExpires \/ MemberLapses \/ PruneFallsDue

(* PostgreSQL answers and the event loop runs every task.  The pool's and  *)
(* the lock's queues are served in order, so that nobody who waits for     *)
(* them is passed over for ever: strong fairness.  A deadline passes.      *)
GivesUp(t) == (SelectNothing(t) \/ DeleteNothing(t)) /\ Returns(t)
Fairness ==
    /\ \A t \in Tasks : SF_vars(Step(t)) /\ SF_vars(GivesUp(t))
    /\ WF_vars(CloseReturns)

Spec == Init /\ [][Next]_vars /\ Fairness

-----------------------------------------------------------------------------
(***************************************************************************)
(* Properties                                                              *)
(***************************************************************************)

(* Type invariant: every variable has its type; a task has a connection    *)
(* exactly between two awaits on one, and the lock exactly while it prunes.*)
Rows == 1 .. Len(sentTo)
TypeOK ==
    /\ ownsPool \in BOOLEAN
    /\ pool \in Nat /\ made \in Nat /\ ended \subseteq Nat /\ raced \in BOOLEAN
    /\ makesTables \in BOOLEAN /\ schemaReady \in BOOLEAN /\ tables \in BOOLEAN
    /\ closed \in BOOLEAN /\ closer \in {"open", "closing", "done"}
    /\ due \in BOOLEAN /\ lock \in Tasks \cup {NoTask}
    /\ periods \in Nat /\ prunes \in Nat
    /\ pc \in [Tasks -> Places] /\ op \in [Tasks -> Operations]
    /\ chan \in [Tasks -> Channels] /\ timed \subseteq Tasks
    /\ mine \in [Tasks -> Nat] /\ using \in [Tasks -> Nat] /\ event \subseteq Tasks
    /\ todo \in [Tasks -> SUBSET Channels]
    /\ sentTo \in Seq(Channels) /\ sentBy \in Seq(Tasks \cup {NoTask})
    /\ stored \subseteq Nat /\ stale \subseteq stored /\ lost \subseteq Nat
    /\ got \in [Tasks -> Seq(Nat)]
    /\ members \subseteq Channels /\ lapsed \subseteq members
    /\ \A t \in Tasks : /\ (using[t] # 0) = (pc[t] \in {"commit", "delete", "wait"})
                        /\ (lock = t) = (pc[t] \in Pruning)
    /\ stable \in [Tasks -> SUBSET Channels] /\ reached \in [Tasks -> SUBSET Channels]
    /\ calls \in Nat /\ events \in Nat

(* The rows being inserted, and those that receive has returned to t.      *)
Inserting == {mine[t] : t \in {u \in Tasks : pc[u] = "commit"}}
Returned(t) == {got[t][i] : i \in DOMAIN got[t]}
ReturnedTo == UNION {Returned(t) : t \in Tasks}

(* At most once, and nothing vanishes: every row is in one place, being    *)
(* inserted, stored, returned to one receive, or lost, although several    *)
(* receivers find the same row and a prune and failures come in between    *)
(* (postgresql.py 60-70, 83-101, 264-269).                                 *)
ExactlyOnePlace ==
    /\ Rows = Inserting \cup stored \cup ReturnedTo \cup lost
    /\ Inserting \cap (stored \cup ReturnedTo \cup lost) = {}
    /\ stored \cap (ReturnedTo \cup lost) = {}
    /\ ReturnedTo \cap lost = {}
    /\ \A t, u \in Tasks : t # u => Returned(t) \cap Returned(u) = {}

(* What becomes of a row is final: what was returned, rolled back, pruned  *)
(* or deleted in vain stays so, and what receive returns was stored until  *)
(* then (postgresql.py 60-70, 83-101, 264-269).                            *)
Once == INSTANCE AtMostOnce WITH
    Receivers <- Tasks,
    Messages <- Nat,
    accepted <- Rows,
    returned <- [t \in Tasks |-> Returned(t)]
ImplementsAtMostOnce == Once!Spec

(* One sender's messages on a channel are received in the order it sent    *)
(* them, although rows may be committed in another order than that of      *)
(* their ids (postgresql.py 60-71, 83-98).                                 *)
Alike(i, j) == sentBy[i] = sentBy[j] /\ sentTo[i] = sentTo[j]
SendersInOrder ==
    \A t \in Tasks : \A i, j \in DOMAIN got[t] :
        i < j /\ Alike(got[t][i], got[t][j]) => got[t][i] < got[t][j]

(* However many tasks see that a prune is due, each interval has one       *)
(* (postgresql.py 253-270).                                                *)
OnePruneAnInterval == periods = prunes + IF due THEN 1 ELSE 0

(* Where the layer is to make the tables, with a pool of its own and       *)
(* ensure_schema, no statement runs before they exist, also not that of a  *)
(* second task which finds the pool made and the tables not.  (A supplied  *)
(* pool counts as ready whatever ensure_schema says, line 51: on a fresh   *)
(* database its calls raise, see NoTable.)  (postgresql.py 51, 177-190)    *)
TablesBeforeUse == makesTables => \A t \in Tasks : pc[t] \in Body => tables

(* Once close() has returned, no pool the layer made is left open and      *)
(* nobody has a connection of it; but for pools made by two tasks at once, *)
(* or while close() ran (postgresql.py 166-190).                           *)
PoolsEndWithLayer ==
    closer = "done" /\ ownsPool /\ ~raced =>
        /\ 1 .. made \subseteq ended
        /\ \A t \in Tasks : using[t] = 0

(* A fan-out that comes to its end has stored a message for every channel  *)
(* that was a live member all the time (postgresql.py 149-164).            *)
FanOutReaches ==
    \A t \in Tasks : op[t] = "fanout" /\ pc[t] = "notify" /\ todo[t] = {} =>
        stable[t] \subseteq reached[t]

(* A receive without timeout ends with a message and for no other reason   *)
(* than a failure, a closed pool or missing tables, in particular not      *)
(* because another receiver was faster, but for the end of poll_interval   *)
(* before Python 3.11 (postgresql.py 73-111, 292-298).                     *)
WaitsForMessage ==
    [][\A t \in Tasks :
          op[t] = "receive" /\ t \notin timed /\ pc[t] # "idle" /\ pc'[t] = "idle" =>
              got'[t] # got[t] \/ events' # events \/ pool \in ended \/ ~tables
                \/ pc[t] = "wait"]_vars

(* Every call ends, however many receivers hold a connection while they    *)
(* listen, and whoever has the prune lock, and close(), but a receive      *)
(* without timeout, which waits only while there is no message, although a *)
(* notification may come before its LISTEN, and while the layer is open or *)
(* its pool is somebody else's (postgresql.py 83-111, 166-190, 242-298).   *)
MayWait(t) ==
    /\ op[t] = "receive" /\ t \notin timed /\ Visible(chan[t]) = {}
    /\ closed => ~ownsPool \/ raced
CallsEnd ==
    /\ \A t \in Tasks : []<>(pc[t] = "idle" \/ MayWait(t))
    /\ []<>(closer # "closing")
=============================================================================
