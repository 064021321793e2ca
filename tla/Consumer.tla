------------------------------ MODULE Consumer ------------------------------
(***************************************************************************)
(* One AsyncWebSocketConsumer (consumers.py), from the call of __call__ to *)
(* its end.                                                                *)
(*                                                                         *)
(* Three tasks interleave at their awaits: __call__ itself, the pump that  *)
(* reads the websocket and the pump that reads the channel layer.  Around  *)
(* them are the client, the layer, which delivers messages and answers the *)
(* group calls in two steps (the call takes effect, then it returns or     *)
(* raises), the server, which may cancel __call__, and the user's hooks,   *)
(* which may do any sequence of the calls the class offers, return or      *)
(* raise.  Message contents are left out: a channel message is its number. *)
(***************************************************************************)
EXTENDS Integers, Sequences, FiniteSets

CONSTANTS
    Groups,               \* group names
    Codes,                \* close codes a client may leave with
    Abnormal,             \* the code of a WebSocketDisconnect raised by a send
    NoCode,               \* close_code = None
    ChannelPumpErrors,    \* errors the layer's receive may raise
    WebsocketPumpErrors,  \* errors the websocket's receive may raise
    BackendErrors,        \* errors the layer's group calls and close may raise
    HooksThatRaise,       \* hooks whose code may raise an unexpected error
    MaxEvents             \* bound on what comes from outside: frames the client
                          \* sends, messages the layer delivers, cancellations

(* The two kinds that _is_expected_shutdown_error tells apart.             *)
ErrorKinds == {"expected", "unexpected"}

ASSUME ErrorAssumption ==
    /\ ChannelPumpErrors \subseteq ErrorKinds
    /\ WebsocketPumpErrors \subseteq ErrorKinds
    /\ BackendErrors \subseteq ErrorKinds
(* On the wire 0 stands for a frame (Frame below); close codes start at    *)
(* 1000.                                                                   *)
ASSUME CodeAssumption ==
    /\ Codes \subseteq Int \ {0}
    /\ Abnormal \in Int /\ NoCode \in Int \ (Codes \cup {Abnormal})
ASSUME BoundAssumption == MaxEvents \in Nat

VARIABLES
    owned,       \* self._owns_channel_layer
    pc,          \* where __call__ is
    call,        \* the group call in flight, or NoCall
    accepted,    \* self._accepted
    closed,      \* self._closed
    joined,      \* self._joined_groups
    todo,        \* what is left of _cleanup_groups' tuple
    wsPump,      \* the websocket pump's task
    chPump,      \* the channel pump's task
    events,      \* the queue both pumps fill
    closeCode,   \* close_code
    exc,         \* what __call__ raises at its end, named by its origin
    hooks,       \* number of calls of disconnect()
    released,    \* channel_layer.close() was called
    wire,        \* frames on their way from the client; a code is a disconnect
    frames,      \* number of frames the client has sent
    gone,        \* the code the client left with, NoCode while it is there
    members,     \* backend: the groups this consumer's channel is a member of
    inbox,       \* backend: messages waiting on the channel
    sent,        \* number of messages the layer has accepted for the channel
    cancels,     \* number of cancellations
    received,    \* history: number of frames dispatched
    dispatched,  \* history: channel messages dispatched, in order
    drained,     \* history: the drain has come to its end
    torn         \* history: groups whose membership a failed call left open

hookVars == <<call, joined, members, torn, accepted, closed>>
taskVars == <<wsPump, chPump>>
queueVars == <<events, wire, inbox>>
envVars == <<frames, gone, sent, cancels>>
historyVars == <<received, dispatched, drained>>
endVars == <<exc, hooks, released, closeCode, todo>>
vars == <<owned, pc, hookVars, taskVars, queueVars, envVars, historyVars, endVars>>

Hooks == {"connect", "receive", "channel", "drainchannel", "disconnect"}
TryHooks == Hooks \ {"disconnect"}
Places == Hooks \cup {"start", "accept", "loop", "drain", "awaitws", "awaitch",
                      "cleanup", "closelayer", "done", "refused"}
Finished == pc \in {"done", "refused"}

MoreEvents == frames + sent + cancels < MaxEvents

NoCall == [op |-> "none"]
Calls == [op : {"add", "discard"}, group : Groups, applied : BOOLEAN]

(* A task is "broken" by an expected error, "failed" by another.           *)
PumpStates == {"none", "running", "cancelling", "ended", "broken", "failed"}
Origins == {"none", "new_channel", "accept", "hook", "cancelled", "pump", "cleanup",
            "disconnect", "close"}

Frame == 0
WebsocketEvent(f) == [from |-> "websocket", data |-> f]
ChannelEvent(n) == [from |-> "channel", data |-> n]

Init ==
    /\ owned \in BOOLEAN
    /\ pc = "start"
    /\ call = NoCall
    /\ accepted = FALSE /\ closed = FALSE
    /\ joined = {} /\ members = {} /\ torn = {} /\ todo = {}
    /\ wsPump = "none" /\ chPump = "none"
    /\ events = <<>> /\ wire = <<>> /\ inbox = <<>>
    /\ closeCode = NoCode /\ gone = NoCode
    /\ exc = "none"
    /\ hooks = 0 /\ released = FALSE
    /\ frames = 0 /\ sent = 0 /\ cancels = 0
    /\ received = 0 /\ dispatched = <<>> /\ drained = FALSE

(***************************************************************************)
(* The end of the try block                                                *)
(***************************************************************************)

(* Task.cancel() on a pump: no effect on one that is over.  Here and below *)
(* an operator that precedes another of the same parameters and is used    *)
(* nowhere is a seeded fault, which a mutation puts in the other's place.  *)
CancelIgnored(p) == p
Cancelled(p) == IF p = "running" THEN "cancelling" ELSE p

(* Control enters the finally block, with exception `e` to raise again at  *)
(* its end: both pumps are cancelled before anything else runs.            *)
EnterFinally(e) ==
    /\ pc' = "awaitws"
    /\ exc' = e
    /\ wsPump' = Cancelled(wsPump)
    /\ chPump' = Cancelled(chPump)

(***************************************************************************)
(* __call__: before the loop                                               *)
(***************************************************************************)

(* new_channel runs before the try block: whatever ends it, an error of    *)
(* the layer or a cancellation, ends __call__.                             *)
NewChannel ==
    /\ pc = "start"
    /\ pc' = "connect"
    /\ UNCHANGED <<owned, hookVars, taskVars, queueVars, envVars, historyVars, endVars>>

NewChannelFails ==
    /\ pc = "start"
    /\ pc' = "refused"
    /\ exc' = "new_channel"
    /\ UNCHANGED <<owned, hookVars, taskVars, queueVars, envVars, historyVars, hooks,
                   released, closeCode, todo>>

(* Whether __call__ accepts for a connect() that did neither.              *)
NeverAccepts == FALSE
MustAccept == ~accepted /\ ~closed

(* connect() has returned.                                                 *)
ConnectReturns ==
    /\ pc = "connect" /\ call = NoCall
    /\ pc' = "accept"
    /\ UNCHANGED <<owned, hookVars, taskVars, queueVars, envVars, historyVars, endVars>>

(* accept() if needed, then both pumps are created.                        *)
StartPumps ==
    /\ pc = "accept"
    /\ accepted' = (accepted \/ MustAccept)
    /\ wsPump' = "running" /\ chPump' = "running"
    /\ pc' = "loop"
    /\ UNCHANGED <<owned, call, closed, joined, members, torn, queueVars, envVars,
                   historyVars, endVars>>

(* The server refuses the handshake, because the client is gone.           *)
AcceptFails ==
    /\ pc = "accept"
    /\ MustAccept
    /\ EnterFinally("accept")
    /\ UNCHANGED <<owned, hookVars, queueVars, envVars, historyVars, hooks, released,
                   closeCode, todo>>

(***************************************************************************)
(* __call__: the loop                                                      *)
(***************************************************************************)

(* `while not self._closed`.                                               *)
LoopEnds ==
    /\ pc = "loop" /\ closed
    /\ EnterFinally("none")
    /\ UNCHANGED <<owned, hookVars, queueVars, envVars, historyVars, hooks, released,
                   closeCode, todo>>

IsFrame(e) == e.from = "websocket" /\ e.data = Frame
IsDisconnect(e) == e.from = "websocket" /\ e.data # Frame
IsChannel(e) == e.from = "channel"

PutFirst(e) == events' = <<e>> \o events
PutEvent(e) == events' = Append(events, e)

TakeEvent ==
    /\ events # <<>>
    /\ events' = Tail(events)
    /\ UNCHANGED <<wire, inbox>>

LoopFrame ==
    /\ pc = "loop" /\ ~closed
    /\ TakeEvent
    /\ IsFrame(Head(events))
    /\ pc' = "receive"
    /\ received' = received + 1
    /\ UNCHANGED <<owned, hookVars, taskVars, envVars, dispatched, drained, endVars>>

LoopChannel ==
    /\ pc = "loop" /\ ~closed
    /\ TakeEvent
    /\ IsChannel(Head(events))
    /\ pc' = "channel"
    /\ dispatched' = Append(dispatched, Head(events).data)
    /\ UNCHANGED <<owned, hookVars, taskVars, envVars, received, drained, endVars>>

LoopDisconnect ==
    /\ pc = "loop" /\ ~closed
    /\ TakeEvent
    /\ IsDisconnect(Head(events))
    /\ pc' = "drain"
    /\ closeCode' = Head(events).data
    /\ UNCHANGED <<owned, hookVars, taskVars, envVars, historyVars, exc, hooks,
                   released, todo>>

(* _drain_pending_channel_events: channel events are dispatched, until the *)
(* queue is found empty.  (It would drop a frame, but none can follow the  *)
(* disconnect.)                                                            *)
DrainChannel ==
    /\ pc = "drain"
    /\ TakeEvent
    /\ IsChannel(Head(events))
    /\ pc' = "drainchannel"
    /\ dispatched' = Append(dispatched, Head(events).data)
    /\ UNCHANGED <<owned, hookVars, taskVars, envVars, received, drained, endVars>>

DrainedAtOnce == TRUE
Drained == events = <<>>

DrainEnds ==
    /\ pc = "drain"
    /\ Drained
    /\ drained' = TRUE
    /\ EnterFinally("none")
    /\ UNCHANGED <<owned, hookVars, queueVars, envVars, received, dispatched, hooks,
                   released, closeCode, todo>>

(***************************************************************************)
(* The user's hooks                                                        *)
(***************************************************************************)

(* receive(...) and the channel handlers return to where they were called. *)
DispatchReturns ==
    /\ call = NoCall
    /\ \/ pc \in {"receive", "channel"} /\ pc' = "loop"
       \/ pc = "drainchannel" /\ pc' = "drain"
    /\ UNCHANGED <<owned, hookVars, taskVars, queueVars, envVars, historyVars, endVars>>

(* accept(): Starlette refuses a second one, and one after close().        *)
UserAccept ==
    /\ pc \in TryHooks /\ call = NoCall
    /\ ~accepted /\ ~closed
    /\ accepted' = TRUE
    /\ UNCHANGED <<owned, pc, call, closed, joined, members, torn, taskVars, queueVars,
                   envVars, historyVars, endVars>>

(* close()                                                                 *)
UserClose ==
    /\ pc \in TryHooks /\ call = NoCall
    /\ ~closed
    /\ closed' = TRUE
    /\ UNCHANGED <<owned, pc, call, accepted, joined, members, torn, taskVars, queueVars,
                   envVars, historyVars, endVars>>

(* group_add and group_discard await the layer.  disconnect() is taken not *)
(* to join groups: they have just been left.                               *)
UserCalls(op, g) ==
    /\ pc \in (IF op = "add" THEN TryHooks ELSE Hooks)
    /\ call = NoCall
    /\ call' = [op |-> op, group |-> g, applied |-> FALSE]
    /\ UNCHANGED <<owned, pc, accepted, closed, joined, members, torn, taskVars,
                   queueVars, envVars, historyVars, endVars>>

(* A hook raises: an error of its own, or the one of a call it made.       *)
HookRaises ==
    /\ pc \in TryHooks \cap HooksThatRaise /\ call = NoCall
    /\ EnterFinally("hook")
    /\ UNCHANGED <<owned, hookVars, queueVars, envVars, historyVars, hooks, released,
                   closeCode, todo>>

(* A send to a client that has left raises WebSocketDisconnect, which      *)
(* `except WebSocketDisconnect` turns into a close code.                   *)
SendToGone ==
    /\ pc \in TryHooks /\ call = NoCall
    /\ gone # NoCode
    /\ EnterFinally("none")
    /\ closeCode' = Abnormal
    /\ UNCHANGED <<owned, hookVars, queueVars, envVars, historyVars, hooks, released,
                   todo>>

(***************************************************************************)
(* A group call of the layer                                               *)
(***************************************************************************)

CallApplies ==
    /\ call # NoCall /\ ~call.applied
    /\ call' = [call EXCEPT !.applied = TRUE]
    /\ members' = IF call.op = "add" THEN members \cup {call.group}
                                     ELSE members \ {call.group}
    /\ UNCHANGED <<owned, pc, accepted, closed, joined, torn, taskVars, queueVars,
                   envVars, historyVars, endVars>>

(* self._joined_groups after a call that returned.                         *)
JoinedAfter(c) ==
    IF c.op = "add" THEN joined \cup {c.group} ELSE joined \ {c.group}

CallReturns ==
    /\ call # NoCall /\ call.applied
    /\ joined' = JoinedAfter(call)
    /\ torn' = torn \ {call.group}
    /\ call' = NoCall
    /\ UNCHANGED <<owned, pc, accepted, closed, members, taskVars, queueVars, envVars,
                   historyVars, endVars>>

(* What an interrupted call leaves open: nobody remembers an add, and      *)
(* cleanup does not come back to a discard of its own.  A discard a hook   *)
(* asked for is still in _joined_groups, and cleanup will try again.       *)
LeftOpen(c) ==
    IF c.op = "add" THEN {c.group} \ joined
    ELSE IF pc = "cleanup" THEN {c.group} ELSE {}

(* self._joined_groups after a call that raised: cleanup forgets the group *)
(* in a finally block, group_add and group_discard leave it as it was.     *)
JoinedForgets(c) == joined \ {c.group}
JoinedKeeps(c) == joined
JoinedAfterFailure(c) == IF pc = "cleanup" THEN joined \ {c.group} ELSE joined

CallInterrupted ==
    /\ call # NoCall
    /\ call' = NoCall
    /\ joined' = JoinedAfterFailure(call)
    /\ torn' = torn \cup LeftOpen(call)
    /\ UNCHANGED <<accepted, closed, members>>

(* The layer's call raises.  A hook may catch the error or let it through  *)
(* (HookRaises); cleanup swallows the expected ones and raises the others, *)
(* skipping what is left of the finally block.                             *)
CallRaises(kind) ==
    /\ kind \in BackendErrors
    /\ CallInterrupted
    /\ IF pc = "cleanup" /\ kind = "unexpected"
       THEN pc' = "done" /\ exc' = "cleanup"
       ELSE UNCHANGED <<pc, exc>>
    /\ UNCHANGED <<owned, taskVars, queueVars, envVars, historyVars, hooks, released,
                   closeCode, todo>>

(***************************************************************************)
(* __call__: the finally block                                             *)
(***************************************************************************)

(* `await task`: goes on if the pump ended as expected, raises otherwise.  *)
SkipAwait(pump, next) == pc' = next /\ UNCHANGED exc

AwaitPump(pump, next) ==
    \/ pump \in {"none", "ended", "broken"} /\ pc' = next /\ UNCHANGED exc
    \/ pump = "failed" /\ pc' = "done" /\ exc' = "pump"

AwaitWebsocketPump ==
    /\ pc = "awaitws"
    /\ AwaitPump(wsPump, "awaitch")
    /\ UNCHANGED <<owned, hookVars, taskVars, queueVars, envVars, historyVars, hooks,
                   released, closeCode, todo>>

AwaitChannelPump ==
    /\ pc = "awaitch"
    /\ AwaitPump(chPump, "cleanup")
    /\ todo' = joined
    /\ UNCHANGED <<owned, hookVars, taskVars, queueVars, envVars, historyVars, hooks,
                   released, closeCode>>

(* _cleanup_groups takes the next group of its tuple.                      *)
CleanupNext(g) ==
    /\ pc = "cleanup" /\ call = NoCall
    /\ g \in todo
    /\ todo' = todo \ {g}
    /\ call' = [op |-> "discard", group |-> g, applied |-> FALSE]
    /\ UNCHANGED <<owned, pc, accepted, closed, joined, members, torn, taskVars,
                   queueVars, envVars, historyVars, exc, hooks, released, closeCode>>

CleanupEnds ==
    /\ pc = "cleanup" /\ call = NoCall
    /\ todo = {}
    /\ pc' = "disconnect"
    /\ hooks' = hooks + 1
    /\ UNCHANGED <<owned, hookVars, taskVars, queueVars, envVars, historyVars, exc,
                   released, closeCode, todo>>

CleanupAgain == IF owned THEN "cleanup" ELSE "done"
AfterDisconnect == IF owned THEN "closelayer" ELSE "done"

DisconnectReturns ==
    /\ pc = "disconnect" /\ call = NoCall
    /\ pc' = AfterDisconnect
    /\ UNCHANGED <<owned, hookVars, taskVars, queueVars, envVars, historyVars, endVars>>

DisconnectRaises ==
    /\ pc = "disconnect" /\ call = NoCall
    /\ "disconnect" \in HooksThatRaise
    /\ pc' = "done"
    /\ exc' = "disconnect"
    /\ UNCHANGED <<owned, hookVars, taskVars, queueVars, envVars, historyVars, hooks,
                   released, closeCode, todo>>

(* channel_layer.close() of an owned layer; its error, if it is no         *)
(* shutdown error, is the last thing raised.                               *)
CloseLayer ==
    /\ pc = "closelayer"
    /\ released' = TRUE
    /\ pc' = "done"
    /\ \/ UNCHANGED exc
       \/ "unexpected" \in BackendErrors /\ exc' = "close"
    /\ UNCHANGED <<owned, hookVars, taskVars, queueVars, envVars, historyVars, hooks,
                   closeCode, todo>>

(***************************************************************************)
(* Cancellation of __call__                                                *)
(***************************************************************************)

(* Before the loop's end it leads to the finally block; there, each await  *)
(* swallows it as an expected error and goes on with the next part.        *)
Interrupt == IF call = NoCall THEN UNCHANGED hookVars ELSE CallInterrupted

Cancel ==
    /\ MoreEvents
    /\ cancels' = cancels + 1
    /\ Interrupt
    /\ \/ /\ pc \in TryHooks \cup {"accept", "loop", "drain"}
          /\ EnterFinally("cancelled")
       \/ /\ pc = "cleanup" /\ call # NoCall
          /\ UNCHANGED <<pc, exc, taskVars>>
       \/ /\ pc = "disconnect"
          /\ pc' = AfterDisconnect
          /\ UNCHANGED <<exc, taskVars>>
    /\ UNCHANGED <<owned, queueVars, frames, gone, sent, historyVars, hooks, released,
                   closeCode, todo>>

(***************************************************************************)
(* The pumps                                                               *)
(***************************************************************************)

PumpWebsocket ==
    /\ wsPump = "running"
    /\ wire # <<>>
    /\ wire' = Tail(wire)
    /\ PutEvent(WebsocketEvent(Head(wire)))
    /\ wsPump' = IF Head(wire) = Frame THEN "running" ELSE "ended"
    /\ UNCHANGED <<owned, pc, hookVars, chPump, inbox, envVars, historyVars, endVars>>

PumpChannel ==
    /\ chPump = "running"
    /\ inbox # <<>>
    /\ inbox' = Tail(inbox)
    /\ PutEvent(ChannelEvent(Head(inbox)))
    /\ UNCHANGED <<owned, pc, hookVars, taskVars, wire, envVars, historyVars, endVars>>

(* What a pump is once its receive has raised: nobody looks until the      *)
(* finally block awaits the task.                                          *)
AfterError(kind) == IF kind = "expected" THEN "broken" ELSE "failed"

WebsocketPumpFails(kind) ==
    /\ kind \in WebsocketPumpErrors
    /\ wsPump = "running"
    /\ wsPump' = AfterError(kind)
    /\ UNCHANGED <<owned, pc, hookVars, chPump, queueVars, envVars, historyVars, endVars>>

ChannelPumpFails(kind) ==
    /\ kind \in ChannelPumpErrors
    /\ chPump = "running"
    /\ chPump' = AfterError(kind)
    /\ UNCHANGED <<owned, pc, hookVars, wsPump, queueVars, envVars, historyVars, endVars>>

(* The event loop delivers the CancelledError.                             *)
PumpStops ==
    /\ \/ /\ wsPump = "cancelling" /\ wsPump' = "ended"
          /\ UNCHANGED chPump
       \/ /\ chPump = "cancelling" /\ chPump' = "ended"
          /\ UNCHANGED wsPump
    /\ UNCHANGED <<owned, pc, hookVars, queueVars, envVars, historyVars, endVars>>

(***************************************************************************)
(* The client and the layer                                                *)
(***************************************************************************)

ClientSends ==
    /\ gone = NoCode /\ MoreEvents
    /\ frames' = frames + 1
    /\ wire' = Append(wire, Frame)
    /\ UNCHANGED <<owned, pc, hookVars, taskVars, events, inbox, gone, sent, cancels,
                   historyVars, endVars>>

ClientLeaves(code) ==
    /\ gone = NoCode
    /\ gone' = code
    /\ wire' = Append(wire, code)
    /\ UNCHANGED <<owned, pc, hookVars, taskVars, events, inbox, frames, sent, cancels,
                   historyVars, endVars>>

LayerDelivers ==
    /\ pc # "start" /\ MoreEvents
    /\ sent' = sent + 1
    /\ inbox' = Append(inbox, sent + 1)
    /\ UNCHANGED <<owned, pc, hookVars, taskVars, events, wire, frames, gone, cancels,
                   historyVars, endVars>>

-----------------------------------------------------------------------------

Main ==
    \/ NewChannel \/ NewChannelFails \/ StartPumps \/ AcceptFails
    \/ LoopEnds \/ LoopFrame \/ LoopChannel \/ LoopDisconnect
    \/ DrainChannel \/ DrainEnds
    \/ AwaitWebsocketPump \/ AwaitChannelPump
    \/ \E g \in Groups : CleanupNext(g)
    \/ CleanupEnds
    \/ CloseLayer

HookEnds == ConnectReturns \/ DispatchReturns \/ DisconnectReturns

Next ==
    \/ Main
    \/ HookEnds
    \/ UserAccept \/ UserClose \/ HookRaises \/ SendToGone \/ DisconnectRaises
    \/ \E op \in {"add", "discard"}, g \in Groups : UserCalls(op, g)
    \/ CallApplies \/ CallReturns
    \/ \E kind \in ErrorKinds : CallRaises(kind)
    \/ Cancel
    \/ PumpWebsocket \/ PumpChannel \/ PumpStops
    \/ \E kind \in ErrorKinds : WebsocketPumpFails(kind) \/ ChannelPumpFails(kind)
    \/ ClientSends
    \/ \E code \in Codes : ClientLeaves(code)
    \/ LayerDelivers

(* The event loop runs ready tasks, the layer answers its calls, and the   *)
(* user's hooks come to an end, however many calls they make.              *)
Fairness ==
    /\ WF_vars(Main)
    /\ SF_vars(HookEnds)
    /\ WF_vars(CallApplies)
    /\ WF_vars(CallReturns)
    /\ WF_vars(PumpWebsocket)
    /\ WF_vars(PumpChannel)
    /\ WF_vars(PumpStops)

Spec == Init /\ [][Next]_vars /\ Fairness

-----------------------------------------------------------------------------
(***************************************************************************)
(* Properties                                                              *)
(***************************************************************************)

(* Type invariant: every variable has its type, and disconnect() is called *)
(* once at most.                                                           *)
TypeOK ==
    /\ owned \in BOOLEAN
    /\ pc \in Places
    /\ call \in Calls \cup {NoCall}
    /\ accepted \in BOOLEAN /\ closed \in BOOLEAN
    /\ joined \subseteq Groups /\ members \subseteq Groups
    /\ torn \subseteq Groups /\ todo \subseteq Groups
    /\ wsPump \in PumpStates /\ chPump \in PumpStates
    /\ events \in Seq([from : {"websocket", "channel"}, data : Int])
    /\ wire \in Seq(Codes \cup {Frame}) /\ inbox \in Seq(Int)
    /\ closeCode \in Codes \cup {Abnormal, NoCode}
    /\ gone \in Codes \cup {NoCode}
    /\ exc \in Origins
    /\ hooks \in 0 .. 1 /\ released \in BOOLEAN
    /\ frames \in Nat /\ sent \in Nat /\ cancels \in Nat
    /\ received \in Nat /\ dispatched \in Seq(Int) /\ drained \in BOOLEAN

(* Group membership never escapes the consumer's books: a group the layer  *)
(* has this channel in is one cleanup will visit, or its call is in        *)
(* flight, or its call raised or was cancelled half way (consumers.py      *)
(* 161-167, 213-221).                                                      *)
Tracked ==
    members \subseteq
        joined \cup torn \cup (IF call = NoCall THEN {} ELSE {call.group})

(* When disconnect() runs, and ever after, the consumer has left every     *)
(* group it joined; only a membership whose own call failed can remain     *)
(* (consumers.py 71-77, 213-221).                                          *)
LeavesEveryGroup ==
    hooks = 1 => joined = {} /\ members \subseteq
        torn \cup (IF call = NoCall THEN {} ELSE {call.group})

(* disconnect() runs after both pumps are over; __call__ ends without      *)
(* having called it only if new_channel, a pump or the group cleanup       *)
(* raised an unexpected error; and the layer is closed exactly if the      *)
(* consumer owns it and nothing in the finally block raised (consumers.py  *)
(* 60-86).                                                                 *)
Shutdown ==
    /\ hooks = 1 => {wsPump, chPump} \subseteq {"none", "ended", "broken"}
    /\ Finished /\ hooks = 0 => exc \in {"new_channel", "pump", "cleanup"}
    /\ released => owned
    /\ Finished /\ owned /\ ~released =>
          exc \in {"new_channel", "pump", "cleanup", "disconnect"}

(* Nothing is handled before the handshake: a hook for a frame or for a    *)
(* channel message runs only once the websocket was accepted (consumers.py *)
(* 40-47).                                                                 *)
AcceptedFirst == pc \in {"receive", "channel", "drainchannel"} => accepted

ChannelPositions == {i \in DOMAIN events : IsChannel(events[i])}
Occurrences(e, q) == Cardinality({i \in DOMAIN q : q[i] = e})
FramesQueued == Occurrences(WebsocketEvent(Frame), events)
FramesOnWire == Occurrences(Frame, wire)

(* Every message the layer accepted for the channel is dispatched once, in *)
(* the order of acceptance, or still waits, in that order, in the events   *)
(* queue or behind those in the layer; every frame of the client was       *)
(* handled once or waits in the events queue or on the wire (consumers.py  *)
(* 47-57, 200-231).                                                        *)
Accounting ==
    /\ dispatched = [i \in 1 .. Len(dispatched) |-> i]
    /\ Len(dispatched) + Len(inbox) =< sent
    /\ {events[i].data : i \in ChannelPositions}
          = Len(dispatched) + 1 .. sent - Len(inbox)
    /\ \A i, j \in ChannelPositions : i < j => events[i].data < events[j].data
    /\ inbox = [i \in 1 .. Len(inbox) |-> sent - Len(inbox) + i]
    /\ received + FramesQueued + FramesOnWire = frames

(* The drain comes to its end unless an exception cuts it short; from then *)
(* on, so also when disconnect() is called, no event of either pump is     *)
(* left undispatched, although the channel pump fills the queue until it   *)
(* is cancelled; and the drain, which dispatches nothing but channel       *)
(* events, meets nothing else (consumers.py 51-54, 58-63, 223-231).        *)
DrainLeavesNothing ==
    /\ hooks = 1 /\ closeCode \in Codes \ {Abnormal} /\ exc = "none" => drained
    /\ drained => events = <<>>
    /\ pc \in {"drain", "drainchannel"} =>
          \A i \in DOMAIN events : IsChannel(events[i])

(* __call__ ends once the client has left, the consumer has closed the     *)
(* websocket, or an exception has reached __call__: unless the websocket   *)
(* pump died of an error, which nobody notices (consumers.py 47-86).       *)
Ends ==
    (gone # NoCode \/ closed \/ exc # "none")
        ~> (Finished \/ wsPump \in {"broken", "failed"})

(* "ensure disconnect cleanup discards joined groups" (SKILL.md 161): when *)
(* __call__ is over, whatever ended it, the channel is in no group but     *)
(* those whose own call failed.                                            *)
CleansUpAlways == pc = "done" => members \subseteq torn

(* disconnect() is told the code the client left with, if __call__ saw the *)
(* client leave (tests/test_consumers.py 119, 137).                        *)
ReportsClientCode ==
    pc = "disconnect" /\ wsPump = "ended" /\ wire = <<>> /\ events = <<>>
        /\ gone # NoCode /\ exc = "none" => closeCode = gone

(* "Every WebSocket subscribed to that room can receive the message"       *)
(* (README.md 62): a message delivered to the channel is dispatched, or    *)
(* the consumer ends.                                                      *)
Hears == \A n \in 1 .. MaxEvents :
    sent >= n ~> (Finished \/ Len(dispatched) >= n)
=============================================================================
