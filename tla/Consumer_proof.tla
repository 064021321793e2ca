--------------------------- MODULE Consumer_proof ---------------------------
(***************************************************************************)
(* Proofs about the consumer, for every set of groups and close codes, and *)
(* with every part of the system allowed to fail in every way the          *)
(* constants can name.                                                     *)
(***************************************************************************)
EXTENDS Consumer, SequenceTheorems, FiniteSetTheorems, TLAPS

USE DEF hookVars, taskVars, queueVars, envVars, historyVars, endVars

-----------------------------------------------------------------------------
(* Types.                                                                  *)

(* What the pumps put into the events queue.                               *)
Events == [from : {"websocket"}, data : Codes \cup {Frame}]
             \cup [from : {"channel"}, data : Int]

(* TypeOK with the contents of the events queue made precise, and with the *)
(* reason why disconnect() runs at most once.                              *)
TypeInv ==
    /\ TypeOK
    /\ events \in Seq(Events)
    /\ pc \notin {"disconnect", "closelayer", "done"} => hooks = 0

LEMMA HeadAndTail ==
    ASSUME NEW S, NEW s \in Seq(S), s # <<>>
    PROVE  Head(s) \in S /\ Tail(s) \in Seq(S)
BY HeadTailProperties

LEMMA AppendType ==
    ASSUME NEW S, NEW s \in Seq(S), NEW e \in S
    PROVE  Append(s, e) \in Seq(S)
OBVIOUS

LEMMA SeqSubset ==
    ASSUME NEW S, NEW T, S \subseteq T, NEW s \in Seq(S)
    PROVE  s \in Seq(T)
OBVIOUS

(* The queue of events has TypeOK's weaker type as well.                   *)
LEMMA EventsSubtype ==
    ASSUME NEW s \in Seq(Events)
    PROVE  s \in Seq([from : {"websocket", "channel"}, data : Int])
<1>1. ASSUME NEW e \in Events
      PROVE  e \in [from : {"websocket", "channel"}, data : Int]
    <2>1. Codes \cup {Frame} \subseteq Int
        BY CodeAssumption DEF Frame
    <2>2. CASE e \in [from : {"websocket"}, data : Codes \cup {Frame}]
        BY <2>1, <2>2
    <2>3. CASE e \in [from : {"channel"}, data : Int]
        BY <2>3
    <2>4. QED
        BY <2>2, <2>3 DEF Events
<1>2. Events \subseteq [from : {"websocket", "channel"}, data : Int]
    BY <1>1
<1>3. QED
    BY <1>2, SeqSubset

LEMMA TypeInductive ==
    TypeInv /\ [Next]_vars => TypeInv'
<1> SUFFICES ASSUME TypeInv, [Next]_vars PROVE TypeInv'
    OBVIOUS
<1> USE DEF TypeInv, TypeOK, Places, Hooks, TryHooks, Calls, NoCall, PumpStates, Origins
<1>1. CASE NewChannel
    BY <1>1 DEF NewChannel
<1>2. CASE NewChannelFails
    BY <1>2 DEF NewChannelFails
<1>3. CASE StartPumps
    BY <1>3 DEF StartPumps
<1>4. CASE LoopEnds
    BY <1>4 DEF LoopEnds, EnterFinally, Cancelled
<1>5. CASE LoopFrame
    <3>1. events # <<>>
    BY <1>5 DEF LoopFrame, TakeEvent
    <3>2. Head(events) \in Events /\ Tail(events) \in Seq(Events)
    BY <3>1, HeadAndTail
    <3>3. events' \in Seq(Events)
    BY <1>5, <3>2 DEF LoopFrame, TakeEvent
    <3>4. events' \in Seq([from : {"websocket", "channel"}, data : Int])
    BY <3>3, EventsSubtype
    <3>9. QED
    BY <1>5, <3>3, <3>4, CodeAssumption DEF LoopFrame, TakeEvent
<1>6. CASE LoopChannel
    <3>1. events # <<>>
    BY <1>6 DEF LoopChannel, TakeEvent
    <3>2. Head(events) \in Events /\ Tail(events) \in Seq(Events)
    BY <3>1, HeadAndTail
    <3>3. events' \in Seq(Events)
    BY <1>6, <3>2 DEF LoopChannel, TakeEvent
    <3>4. events' \in Seq([from : {"websocket", "channel"}, data : Int])
    BY <3>3, EventsSubtype
    <3>5. dispatched' \in Seq(Int)
        <4>1. Head(events).data \in Int
            BY <3>2, CodeAssumption DEF Events, Frame
        <4>2. QED
            BY <1>6, <4>1, AppendType DEF LoopChannel
    <3>9. QED
    BY <1>6, <3>5, <3>3, <3>4, CodeAssumption DEF LoopChannel, TakeEvent
<1>7. CASE LoopDisconnect
    <3>1. events # <<>>
    BY <1>7 DEF LoopDisconnect, TakeEvent
    <3>2. Head(events) \in Events /\ Tail(events) \in Seq(Events)
    BY <3>1, HeadAndTail
    <3>3. events' \in Seq(Events)
    BY <1>7, <3>2 DEF LoopDisconnect, TakeEvent
    <3>4. events' \in Seq([from : {"websocket", "channel"}, data : Int])
    BY <3>3, EventsSubtype
    <3>5. Head(events).data \in Codes
    BY <1>7, <3>2 DEF LoopDisconnect, IsDisconnect, Events
    <3>9. QED
    BY <1>7, <3>5, <3>3, <3>4, CodeAssumption DEF LoopDisconnect, TakeEvent
<1>8. CASE DrainChannel
    <3>1. events # <<>>
    BY <1>8 DEF DrainChannel, TakeEvent
    <3>2. Head(events) \in Events /\ Tail(events) \in Seq(Events)
    BY <3>1, HeadAndTail
    <3>3. events' \in Seq(Events)
    BY <1>8, <3>2 DEF DrainChannel, TakeEvent
    <3>4. events' \in Seq([from : {"websocket", "channel"}, data : Int])
    BY <3>3, EventsSubtype
    <3>5. dispatched' \in Seq(Int)
        <4>1. Head(events).data \in Int
            BY <3>2, CodeAssumption DEF Events, Frame
        <4>2. QED
            BY <1>8, <4>1, AppendType DEF DrainChannel
    <3>9. QED
    BY <1>8, <3>5, <3>3, <3>4, CodeAssumption DEF DrainChannel, TakeEvent
<1>9. CASE DrainEnds
    BY <1>9 DEF DrainEnds, EnterFinally, Cancelled
<1>10. CASE AwaitWebsocketPump
    BY <1>10 DEF AwaitWebsocketPump, AwaitPump
<1>11. CASE AwaitChannelPump
    BY <1>11 DEF AwaitChannelPump, AwaitPump
<1>12. ASSUME NEW g \in Groups, CleanupNext(g) PROVE TypeInv'
    BY <1>12 DEF CleanupNext
<1>13. CASE CleanupEnds
    BY <1>13 DEF CleanupEnds
<1>14. CASE CloseLayer
    BY <1>14 DEF CloseLayer
<1>15. CASE ConnectReturns
    BY <1>15 DEF ConnectReturns
<1>16. CASE DispatchReturns
    BY <1>16 DEF DispatchReturns
<1>17. CASE DisconnectReturns
    BY <1>17 DEF DisconnectReturns, AfterDisconnect
<1>18. CASE UserAccept
    BY <1>18 DEF UserAccept
<1>19. CASE UserClose
    BY <1>19 DEF UserClose
<1>20. CASE HookRaises
    BY <1>20 DEF HookRaises, EnterFinally, Cancelled
<1>21. CASE SendToGone
    BY <1>21 DEF SendToGone, EnterFinally, Cancelled
<1>22. CASE DisconnectRaises
    BY <1>22 DEF DisconnectRaises
<1>23. ASSUME NEW op \in {"add", "discard"}, NEW g \in Groups, UserCalls(op, g) PROVE TypeInv'
    BY <1>23 DEF UserCalls
<1>24. CASE CallApplies
    <3>1. call \in [op : {"add", "discard"}, group : Groups, applied : BOOLEAN]
        BY <1>24 DEF CallApplies
    <3>2. call' \in [op : {"add", "discard"}, group : Groups, applied : BOOLEAN]
        BY <1>24, <3>1, Zenon DEF CallApplies
    <3>3. members' \subseteq Groups
        BY <1>24, <3>1 DEF CallApplies
    <3>9. QED
        BY <1>24, <3>2, <3>3 DEF CallApplies
<1>25. CASE CallReturns
    BY <1>25 DEF CallReturns, JoinedAfter
<1>26. ASSUME NEW kind \in ErrorKinds, CallRaises(kind) PROVE TypeInv'
    BY <1>26 DEF CallRaises, CallInterrupted, JoinedAfterFailure, LeftOpen
<1>27. CASE Cancel
    BY <1>27 DEF Cancel, EnterFinally, Cancelled, Interrupt, CallInterrupted, JoinedAfterFailure, LeftOpen, AfterDisconnect
<1>28. CASE PumpWebsocket
    <3>1. Head(wire) \in Codes \cup {Frame} /\ Tail(wire) \in Seq(Codes \cup {Frame})
    BY <1>28, HeadAndTail DEF PumpWebsocket
    <3>2. WebsocketEvent(Head(wire)) \in Events
    BY <3>1 DEF WebsocketEvent, Events
    <3>3. events' \in Seq(Events)
    BY <1>28, <3>2, AppendType DEF PumpWebsocket, PutEvent
    <3>4. events' \in Seq([from : {"websocket", "channel"}, data : Int])
    BY <3>3, EventsSubtype
    <3>5. QED
    BY <1>28, <3>1, <3>3, <3>4 DEF PumpWebsocket
<1>29. CASE PumpChannel
    <3>1. Head(inbox) \in Int /\ Tail(inbox) \in Seq(Int)
    BY <1>29, HeadAndTail DEF PumpChannel
    <3>2. ChannelEvent(Head(inbox)) \in Events
    BY <3>1 DEF ChannelEvent, Events
    <3>3. events' \in Seq(Events)
    BY <1>29, <3>2, AppendType DEF PumpChannel, PutEvent
    <3>4. events' \in Seq([from : {"websocket", "channel"}, data : Int])
    BY <3>3, EventsSubtype
    <3>5. QED
    BY <1>29, <3>1, <3>3, <3>4 DEF PumpChannel
<1>30. CASE PumpStops
    BY <1>30 DEF PumpStops
<1>31. ASSUME NEW kind \in ErrorKinds, WebsocketPumpFails(kind) PROVE TypeInv'
    BY <1>31 DEF WebsocketPumpFails, AfterError
<1>32. ASSUME NEW kind \in ErrorKinds, ChannelPumpFails(kind) PROVE TypeInv'
    BY <1>32 DEF ChannelPumpFails, AfterError
<1>33. CASE ClientSends
    <3>1. wire' \in Seq(Codes \cup {Frame})
    BY <1>33, AppendType DEF ClientSends
    <3>2. QED
    BY <1>33, <3>1 DEF ClientSends
<1>34. ASSUME NEW code \in Codes, ClientLeaves(code) PROVE TypeInv'
    <3>1. wire' \in Seq(Codes \cup {Frame})
    BY <1>34, AppendType DEF ClientLeaves
    <3>2. QED
    BY <1>34, <3>1 DEF ClientLeaves
<1>35. CASE LayerDelivers
    <3>1. inbox' \in Seq(Int)
    BY <1>35, AppendType DEF LayerDelivers
    <3>2. QED
    BY <1>35, <3>1 DEF LayerDelivers
<1>36. CASE UNCHANGED vars
    BY <1>36 DEF vars
<1>37. CASE AcceptFails
    BY <1>37 DEF AcceptFails, EnterFinally, Cancelled
<1>38. QED
    BY <1>37, <1>1, <1>2, <1>3, <1>4, <1>5, <1>6, <1>7, <1>8, <1>9, <1>10,
       <1>11, <1>12, <1>13, <1>14, <1>15, <1>16, <1>17, <1>18, <1>19,
       <1>20, <1>21, <1>22, <1>23, <1>24, <1>25, <1>26, <1>27, <1>28,
       <1>29, <1>30, <1>31, <1>32, <1>33, <1>34, <1>35, <1>36 DEF Next,
           Main, HookEnds

LEMMA TypeInit ==
    Init => TypeInv
<1>1. /\ <<>> \in Seq(Events) /\ <<>> \in Seq(Int) /\ <<>> \in Seq(Codes \cup {Frame})
      /\ <<>> \in Seq([from : {"websocket", "channel"}, data : Int])
    OBVIOUS
<1>2. ASSUME Init PROVE TypeOK
    <2>1. /\ owned \in BOOLEAN /\ accepted \in BOOLEAN /\ closed \in BOOLEAN
          /\ released \in BOOLEAN /\ drained \in BOOLEAN
        BY <1>2 DEF Init
    <2>2. /\ pc \in Places /\ exc \in Origins
          /\ wsPump \in PumpStates /\ chPump \in PumpStates
        BY <1>2 DEF Init, Places, Origins, PumpStates
    <2>3. /\ joined \subseteq Groups /\ members \subseteq Groups
          /\ torn \subseteq Groups /\ todo \subseteq Groups
          /\ call \in Calls \cup {NoCall}
        BY <1>2 DEF Init
    <2>4. /\ closeCode \in Codes \cup {Abnormal, NoCode}
          /\ gone \in Codes \cup {NoCode}
          /\ hooks \in 0 .. 1
          /\ frames \in Nat /\ sent \in Nat /\ cancels \in Nat /\ received \in Nat
        BY <1>2 DEF Init
    <2>5. /\ events \in Seq([from : {"websocket", "channel"}, data : Int])
          /\ wire \in Seq(Codes \cup {Frame}) /\ inbox \in Seq(Int)
          /\ dispatched \in Seq(Int)
        BY <1>1, <1>2 DEF Init
    <2>6. QED
        BY <2>1, <2>2, <2>3, <2>4, <2>5 DEF TypeOK
<1>3. QED
    BY <1>1, <1>2 DEF Init, TypeInv

(* Type correctness: every variable has its type in every reachable state, *)
(* and disconnect() is called at most once.                                *)
THEOREM TypeCorrect == Spec => []TypeOK
<1>1. TypeInv => TypeOK
    BY DEF TypeInv
<1>2. QED
    BY <1>1, TypeInit, TypeInductive, PTL DEF Spec

-----------------------------------------------------------------------------
(* The books: which groups the consumer remembers.                         *)

InFlight == IF call = NoCall THEN {} ELSE {call.group}

(* What _joined_groups, the layer's members and the call in flight have to *)
(* do with one another.  A discard in flight leaves the group in           *)
(* _joined_groups until it returns; cleanup only ever discards; what is    *)
(* left of its tuple covers all that is still joined.                      *)
BooksInv ==
    /\ call \in Calls \cup {NoCall}
    /\ Tracked
    /\ pc \in {"cleanup", "disconnect"} /\ call # NoCall => call.op = "discard"
    /\ call # NoCall => pc \in Hooks \cup {"cleanup"}
    /\ call # NoCall /\ call.op = "discard" =>
          /\ members \subseteq joined \cup torn
          /\ call.applied => call.group \notin members
    /\ pc = "cleanup" => joined \subseteq todo \cup InFlight
    /\ pc \in {"disconnect", "closelayer"} => joined = {}
    /\ hooks \in 0 .. 1
    /\ hooks = 1 => joined = {} /\ pc \in {"disconnect", "closelayer", "done"}

LEMMA BooksInductive ==
    BooksInv /\ [Next]_vars => BooksInv'
<1> SUFFICES ASSUME BooksInv, [Next]_vars PROVE BooksInv'
    OBVIOUS
<1> USE DEF BooksInv, Tracked, InFlight, NoCall, Calls, Hooks, TryHooks
<1>1. CASE NewChannel
    BY <1>1 DEF NewChannel
<1>2. CASE NewChannelFails
    BY <1>2 DEF NewChannelFails
<1>3. CASE StartPumps
    BY <1>3 DEF StartPumps
<1>4. CASE LoopEnds
    BY <1>4 DEF LoopEnds, EnterFinally
<1>5. CASE LoopFrame
    BY <1>5 DEF LoopFrame
<1>6. CASE LoopChannel
    BY <1>6 DEF LoopChannel
<1>7. CASE LoopDisconnect
    BY <1>7 DEF LoopDisconnect
<1>8. CASE DrainChannel
    BY <1>8 DEF DrainChannel
<1>9. CASE DrainEnds
    BY <1>9 DEF DrainEnds, EnterFinally
<1>10. CASE AwaitWebsocketPump
    BY <1>10 DEF AwaitWebsocketPump, AwaitPump
<1>11. CASE AwaitChannelPump
    BY <1>11 DEF AwaitChannelPump, AwaitPump
<1>12. ASSUME NEW g \in Groups, CleanupNext(g) PROVE BooksInv'
    BY <1>12 DEF CleanupNext
<1>13. CASE CleanupEnds
    BY <1>13 DEF CleanupEnds
<1>14. CASE CloseLayer
    BY <1>14 DEF CloseLayer
<1>15. CASE ConnectReturns
    BY <1>15 DEF ConnectReturns
<1>16. CASE DispatchReturns
    BY <1>16 DEF DispatchReturns
<1>17. CASE DisconnectReturns
    BY <1>17 DEF DisconnectReturns, AfterDisconnect
<1>18. CASE UserAccept
    BY <1>18 DEF UserAccept
<1>19. CASE UserClose
    BY <1>19 DEF UserClose
<1>20. CASE HookRaises
    BY <1>20 DEF HookRaises, EnterFinally
<1>21. CASE SendToGone
    BY <1>21 DEF SendToGone, EnterFinally
<1>22. CASE DisconnectRaises
    BY <1>22 DEF DisconnectRaises
<1>23. ASSUME NEW op \in {"add", "discard"}, NEW g \in Groups, UserCalls(op, g) PROVE BooksInv'
    BY <1>23 DEF UserCalls
<1>24. CASE CallApplies
    BY <1>24 DEF CallApplies
<1>25. CASE CallReturns
    BY <1>25 DEF CallReturns, JoinedAfter
<1>26. ASSUME NEW kind \in ErrorKinds, CallRaises(kind) PROVE BooksInv'
    BY <1>26 DEF CallRaises, CallInterrupted, JoinedAfterFailure, LeftOpen
<1>27. CASE Cancel
    BY <1>27 DEF Cancel, EnterFinally, Interrupt, CallInterrupted, JoinedAfterFailure, LeftOpen, AfterDisconnect
<1>28. CASE PumpWebsocket
    BY <1>28 DEF PumpWebsocket
<1>29. CASE PumpChannel
    BY <1>29 DEF PumpChannel
<1>30. CASE PumpStops
    BY <1>30 DEF PumpStops
<1>31. ASSUME NEW kind \in ErrorKinds, WebsocketPumpFails(kind) PROVE BooksInv'
    BY <1>31 DEF WebsocketPumpFails
<1>32. ASSUME NEW kind \in ErrorKinds, ChannelPumpFails(kind) PROVE BooksInv'
    BY <1>32 DEF ChannelPumpFails
<1>33. CASE ClientSends
    BY <1>33 DEF ClientSends
<1>34. ASSUME NEW code \in Codes, ClientLeaves(code) PROVE BooksInv'
    BY <1>34 DEF ClientLeaves
<1>35. CASE LayerDelivers
    BY <1>35 DEF LayerDelivers
<1>36. CASE UNCHANGED vars
    BY <1>36 DEF vars
<1>37. CASE AcceptFails
    BY <1>37 DEF AcceptFails, EnterFinally
<1>38. QED
    BY <1>37, <1>1, <1>2, <1>3, <1>4, <1>5, <1>6, <1>7, <1>8, <1>9, <1>10,
       <1>11, <1>12, <1>13, <1>14, <1>15, <1>16, <1>17, <1>18, <1>19,
       <1>20, <1>21, <1>22, <1>23, <1>24, <1>25, <1>26, <1>27, <1>28,
       <1>29, <1>30, <1>31, <1>32, <1>33, <1>34, <1>35, <1>36 DEF Next,
           Main, HookEnds

THEOREM BooksInvariant == Spec => []BooksInv
<1>1. Init => BooksInv
    BY DEF Init, BooksInv, Tracked, InFlight, NoCall
<1>2. QED
    BY <1>1, BooksInductive, PTL DEF Spec

(* Group membership never escapes the consumer's books.                    *)
THEOREM TrackedCorrect == Spec => []Tracked
<1>1. BooksInv => Tracked
    BY DEF BooksInv
<1>2. QED
    BY <1>1, BooksInvariant, PTL

(* When disconnect() runs, and ever after, every joined group has been     *)
(* left, but those whose own call failed.                                  *)
THEOREM LeavesEveryGroupCorrect == Spec => []LeavesEveryGroup
<1>1. BooksInv => LeavesEveryGroup
    BY DEF BooksInv, Tracked, LeavesEveryGroup
<1>2. QED
    BY <1>1, BooksInvariant, PTL

-----------------------------------------------------------------------------
(* The order of the finally block.                                         *)

Over == {"none", "ended", "broken"}

(* Each place behind an await of a pump knows that pump to be over, for    *)
(* good; disconnect() has been called behind it, and nowhere before; and   *)
(* the end says what was skipped.                                          *)
ControlInv ==
    /\ hooks \in 0 .. 1
    /\ pc \in {"disconnect", "closelayer"} => hooks = 1
    /\ pc \notin {"disconnect", "closelayer", "done"} => hooks = 0
    /\ pc \in {"awaitch", "cleanup"} => wsPump \in Over
    /\ pc = "cleanup" => chPump \in Over
    /\ hooks = 1 => wsPump \in Over /\ chPump \in Over
    /\ pc = "closelayer" => owned
    /\ Shutdown

LEMMA ControlInductive ==
    ControlInv /\ [Next]_vars => ControlInv'
<1> SUFFICES ASSUME ControlInv, [Next]_vars PROVE ControlInv'
    OBVIOUS
<1> USE DEF ControlInv, Shutdown, Over, Finished, Hooks, TryHooks
<1>1. CASE NewChannel
    BY <1>1 DEF NewChannel
<1>2. CASE NewChannelFails
    BY <1>2 DEF NewChannelFails
<1>3. CASE StartPumps
    BY <1>3 DEF StartPumps
<1>4. CASE LoopEnds
    BY <1>4 DEF LoopEnds, EnterFinally, Cancelled
<1>5. CASE LoopFrame
    BY <1>5 DEF LoopFrame
<1>6. CASE LoopChannel
    BY <1>6 DEF LoopChannel
<1>7. CASE LoopDisconnect
    BY <1>7 DEF LoopDisconnect
<1>8. CASE DrainChannel
    BY <1>8 DEF DrainChannel
<1>9. CASE DrainEnds
    BY <1>9 DEF DrainEnds, EnterFinally, Cancelled
<1>10. CASE AwaitWebsocketPump
    BY <1>10 DEF AwaitWebsocketPump, AwaitPump
<1>11. CASE AwaitChannelPump
    BY <1>11 DEF AwaitChannelPump, AwaitPump
<1>12. ASSUME NEW g \in Groups, CleanupNext(g) PROVE ControlInv'
    BY <1>12 DEF CleanupNext
<1>13. CASE CleanupEnds
    BY <1>13 DEF CleanupEnds
<1>14. CASE CloseLayer
    BY <1>14 DEF CloseLayer
<1>15. CASE ConnectReturns
    BY <1>15 DEF ConnectReturns
<1>16. CASE DispatchReturns
    BY <1>16 DEF DispatchReturns
<1>17. CASE DisconnectReturns
    BY <1>17 DEF DisconnectReturns, AfterDisconnect
<1>18. CASE UserAccept
    BY <1>18 DEF UserAccept
<1>19. CASE UserClose
    BY <1>19 DEF UserClose
<1>20. CASE HookRaises
    BY <1>20 DEF HookRaises, EnterFinally, Cancelled
<1>21. CASE SendToGone
    BY <1>21 DEF SendToGone, EnterFinally, Cancelled
<1>22. CASE DisconnectRaises
    BY <1>22 DEF DisconnectRaises
<1>23. ASSUME NEW op \in {"add", "discard"}, NEW g \in Groups, UserCalls(op, g) PROVE ControlInv'
    BY <1>23 DEF UserCalls
<1>24. CASE CallApplies
    BY <1>24 DEF CallApplies
<1>25. CASE CallReturns
    BY <1>25 DEF CallReturns
<1>26. ASSUME NEW kind \in ErrorKinds, CallRaises(kind) PROVE ControlInv'
    BY <1>26 DEF CallRaises, CallInterrupted
<1>27. CASE Cancel
    BY <1>27 DEF Cancel, EnterFinally, Cancelled, Interrupt, CallInterrupted, AfterDisconnect
<1>28. CASE PumpWebsocket
    BY <1>28 DEF PumpWebsocket
<1>29. CASE PumpChannel
    BY <1>29 DEF PumpChannel
<1>30. CASE PumpStops
    BY <1>30 DEF PumpStops
<1>31. ASSUME NEW kind \in ErrorKinds, WebsocketPumpFails(kind) PROVE ControlInv'
    BY <1>31 DEF WebsocketPumpFails, AfterError
<1>32. ASSUME NEW kind \in ErrorKinds, ChannelPumpFails(kind) PROVE ControlInv'
    BY <1>32 DEF ChannelPumpFails, AfterError
<1>33. CASE ClientSends
    BY <1>33 DEF ClientSends
<1>34. ASSUME NEW code \in Codes, ClientLeaves(code) PROVE ControlInv'
    BY <1>34 DEF ClientLeaves
<1>35. CASE LayerDelivers
    BY <1>35 DEF LayerDelivers
<1>36. CASE UNCHANGED vars
    BY <1>36 DEF vars
<1>37. CASE AcceptFails
    BY <1>37 DEF AcceptFails, EnterFinally, Cancelled
<1>38. QED
    BY <1>37, <1>1, <1>2, <1>3, <1>4, <1>5, <1>6, <1>7, <1>8, <1>9, <1>10,
       <1>11, <1>12, <1>13, <1>14, <1>15, <1>16, <1>17, <1>18, <1>19,
       <1>20, <1>21, <1>22, <1>23, <1>24, <1>25, <1>26, <1>27, <1>28,
       <1>29, <1>30, <1>31, <1>32, <1>33, <1>34, <1>35, <1>36 DEF Next,
           Main, HookEnds

(* disconnect() runs after both pumps are over, it is skipped only for an  *)
(* error the code means to report, and an owned layer is closed unless     *)
(* such an error was raised.                                               *)
THEOREM ShutdownCorrect == Spec => []Shutdown
<1>1. Init => ControlInv
    BY DEF Init, ControlInv, Shutdown, Over, Finished
<1>2. ControlInv => Shutdown
    BY DEF ControlInv
<1>3. QED
    BY <1>1, <1>2, ControlInductive, PTL DEF Spec

-----------------------------------------------------------------------------
(* The handshake.                                                          *)

(* The loop runs only with an accepted or a closed websocket, and takes an *)
(* event only if it is not closed.                                         *)
AcceptInv ==
    /\ pc = "loop" => accepted \/ closed
    /\ pc \in {"receive", "channel", "drain", "drainchannel"} => accepted

LEMMA AcceptInductive ==
    AcceptInv /\ [Next]_vars => AcceptInv'
<1> SUFFICES ASSUME AcceptInv, [Next]_vars PROVE AcceptInv'
    OBVIOUS
<1> USE DEF AcceptInv, Hooks, TryHooks
<1>1. CASE NewChannel
    BY <1>1 DEF NewChannel
<1>2. CASE NewChannelFails
    BY <1>2 DEF NewChannelFails
<1>3. CASE StartPumps
    BY <1>3 DEF StartPumps, MustAccept
<1>4. CASE LoopEnds
    BY <1>4 DEF LoopEnds, EnterFinally
<1>5. CASE LoopFrame
    BY <1>5 DEF LoopFrame
<1>6. CASE LoopChannel
    BY <1>6 DEF LoopChannel
<1>7. CASE LoopDisconnect
    BY <1>7 DEF LoopDisconnect
<1>8. CASE DrainChannel
    BY <1>8 DEF DrainChannel
<1>9. CASE DrainEnds
    BY <1>9 DEF DrainEnds, EnterFinally
<1>10. CASE AwaitWebsocketPump
    BY <1>10 DEF AwaitWebsocketPump, AwaitPump
<1>11. CASE AwaitChannelPump
    BY <1>11 DEF AwaitChannelPump, AwaitPump
<1>12. ASSUME NEW g \in Groups, CleanupNext(g) PROVE AcceptInv'
    BY <1>12 DEF CleanupNext
<1>13. CASE CleanupEnds
    BY <1>13 DEF CleanupEnds
<1>14. CASE CloseLayer
    BY <1>14 DEF CloseLayer
<1>15. CASE ConnectReturns
    BY <1>15 DEF ConnectReturns
<1>16. CASE DispatchReturns
    BY <1>16 DEF DispatchReturns
<1>17. CASE DisconnectReturns
    BY <1>17 DEF DisconnectReturns, AfterDisconnect
<1>18. CASE UserAccept
    BY <1>18 DEF UserAccept
<1>19. CASE UserClose
    BY <1>19 DEF UserClose
<1>20. CASE HookRaises
    BY <1>20 DEF HookRaises, EnterFinally
<1>21. CASE SendToGone
    BY <1>21 DEF SendToGone, EnterFinally
<1>22. CASE DisconnectRaises
    BY <1>22 DEF DisconnectRaises
<1>23. ASSUME NEW op \in {"add", "discard"}, NEW g \in Groups, UserCalls(op, g) PROVE AcceptInv'
    BY <1>23 DEF UserCalls
<1>24. CASE CallApplies
    BY <1>24 DEF CallApplies
<1>25. CASE CallReturns
    BY <1>25 DEF CallReturns
<1>26. ASSUME NEW kind \in ErrorKinds, CallRaises(kind) PROVE AcceptInv'
    BY <1>26 DEF CallRaises, CallInterrupted
<1>27. CASE Cancel
    BY <1>27 DEF Cancel, EnterFinally, Interrupt, CallInterrupted, AfterDisconnect
<1>28. CASE PumpWebsocket
    BY <1>28 DEF PumpWebsocket
<1>29. CASE PumpChannel
    BY <1>29 DEF PumpChannel
<1>30. CASE PumpStops
    BY <1>30 DEF PumpStops
<1>31. ASSUME NEW kind \in ErrorKinds, WebsocketPumpFails(kind) PROVE AcceptInv'
    BY <1>31 DEF WebsocketPumpFails
<1>32. ASSUME NEW kind \in ErrorKinds, ChannelPumpFails(kind) PROVE AcceptInv'
    BY <1>32 DEF ChannelPumpFails
<1>33. CASE ClientSends
    BY <1>33 DEF ClientSends
<1>34. ASSUME NEW code \in Codes, ClientLeaves(code) PROVE AcceptInv'
    BY <1>34 DEF ClientLeaves
<1>35. CASE LayerDelivers
    BY <1>35 DEF LayerDelivers
<1>36. CASE UNCHANGED vars
    BY <1>36 DEF vars
<1>37. CASE AcceptFails
    BY <1>37 DEF AcceptFails, EnterFinally
<1>38. QED
    BY <1>37, <1>1, <1>2, <1>3, <1>4, <1>5, <1>6, <1>7, <1>8, <1>9, <1>10,
       <1>11, <1>12, <1>13, <1>14, <1>15, <1>16, <1>17, <1>18, <1>19,
       <1>20, <1>21, <1>22, <1>23, <1>24, <1>25, <1>26, <1>27, <1>28,
       <1>29, <1>30, <1>31, <1>32, <1>33, <1>34, <1>35, <1>36 DEF Next,
           Main, HookEnds

(* No frame and no channel message is handled before the handshake.        *)
THEOREM AcceptedFirstCorrect == Spec => []AcceptedFirst
<1>1. Init => AcceptInv
    BY DEF Init, AcceptInv
<1>2. AcceptInv => AcceptedFirst
    BY DEF AcceptInv, AcceptedFirst
<1>3. QED
    BY <1>1, <1>2, AcceptInductive, PTL DEF Spec
-----------------------------------------------------------------------------
(* Accounting.                                                             *)

(* What a step may do to the queues and to what was dispatched from them.  *)
CountersStay == UNCHANGED <<frames, sent, received, dispatched>>

NothingMoves == UNCHANGED <<events, wire, inbox>> /\ CountersStay

HandlesFrame ==
    /\ TakeEvent
    /\ IsFrame(Head(events))
    /\ received' = received + 1
    /\ UNCHANGED <<frames, sent, dispatched>>

HandlesMessage ==
    /\ TakeEvent
    /\ IsChannel(Head(events))
    /\ dispatched' = Append(dispatched, Head(events).data)
    /\ UNCHANGED <<frames, sent, received>>

SeesDisconnect ==
    /\ TakeEvent
    /\ IsDisconnect(Head(events))
    /\ CountersStay

QueuesFrame ==
    /\ wire # <<>>
    /\ wire' = Tail(wire)
    /\ events' = Append(events, WebsocketEvent(Head(wire)))
    /\ UNCHANGED inbox
    /\ CountersStay

QueuesMessage ==
    /\ inbox # <<>>
    /\ inbox' = Tail(inbox)
    /\ events' = Append(events, ChannelEvent(Head(inbox)))
    /\ UNCHANGED wire
    /\ CountersStay

FrameSent ==
    /\ frames' = frames + 1
    /\ wire' = Append(wire, Frame)
    /\ UNCHANGED <<events, inbox, sent, received, dispatched>>

CodeSent(code) ==
    /\ wire' = Append(wire, code)
    /\ UNCHANGED <<events, inbox>>
    /\ CountersStay

MessageSent ==
    /\ sent' = sent + 1
    /\ inbox' = Append(inbox, sent + 1)
    /\ UNCHANGED <<events, wire, frames, received, dispatched>>

Moves ==
    \/ NothingMoves
    \/ HandlesFrame \/ HandlesMessage \/ SeesDisconnect
    \/ QueuesFrame \/ QueuesMessage
    \/ FrameSent \/ MessageSent
    \/ \E code \in Codes : CodeSent(code)

LEMMA StepMoves ==
    [Next]_vars => Moves
<1> SUFFICES ASSUME [Next]_vars PROVE Moves
    OBVIOUS
<1> USE DEF Moves, NothingMoves, CountersStay
<1>1. CASE NewChannel
    BY <1>1 DEF NewChannel
<1>2. CASE NewChannelFails
    BY <1>2 DEF NewChannelFails
<1>3. CASE StartPumps
    BY <1>3 DEF StartPumps
<1>4. CASE AcceptFails
    BY <1>4 DEF AcceptFails
<1>5. CASE LoopEnds
    BY <1>5 DEF LoopEnds
<1>6. CASE LoopFrame
    BY <1>6 DEF LoopFrame, TakeEvent, HandlesFrame
<1>7. CASE LoopChannel
    BY <1>7 DEF LoopChannel, TakeEvent, HandlesMessage
<1>8. CASE LoopDisconnect
    BY <1>8 DEF LoopDisconnect, TakeEvent, SeesDisconnect
<1>9. CASE DrainChannel
    BY <1>9 DEF DrainChannel, TakeEvent, HandlesMessage
<1>10. CASE DrainEnds
    BY <1>10 DEF DrainEnds
<1>11. CASE AwaitWebsocketPump
    BY <1>11 DEF AwaitWebsocketPump
<1>12. CASE AwaitChannelPump
    BY <1>12 DEF AwaitChannelPump
<1>13. ASSUME NEW g \in Groups, CleanupNext(g) PROVE Moves
    BY <1>13 DEF CleanupNext
<1>14. CASE CleanupEnds
    BY <1>14 DEF CleanupEnds
<1>15. CASE CloseLayer
    BY <1>15 DEF CloseLayer
<1>16. CASE ConnectReturns
    BY <1>16 DEF ConnectReturns
<1>17. CASE DispatchReturns
    BY <1>17 DEF DispatchReturns
<1>18. CASE DisconnectReturns
    BY <1>18 DEF DisconnectReturns
<1>19. CASE UserAccept
    BY <1>19 DEF UserAccept
<1>20. CASE UserClose
    BY <1>20 DEF UserClose
<1>21. CASE HookRaises
    BY <1>21 DEF HookRaises
<1>22. CASE SendToGone
    BY <1>22 DEF SendToGone
<1>23. CASE DisconnectRaises
    BY <1>23 DEF DisconnectRaises
<1>24. ASSUME NEW op \in {"add", "discard"}, NEW g \in Groups, UserCalls(op, g) PROVE Moves
    BY <1>24 DEF UserCalls
<1>25. CASE CallApplies
    BY <1>25 DEF CallApplies
<1>26. CASE CallReturns
    BY <1>26 DEF CallReturns
<1>27. ASSUME NEW kind \in ErrorKinds, CallRaises(kind) PROVE Moves
    BY <1>27 DEF CallRaises
<1>28. CASE Cancel
    BY <1>28 DEF Cancel, EnterFinally, Interrupt
<1>29. CASE PumpWebsocket
    BY <1>29 DEF PumpWebsocket, PutEvent, QueuesFrame
<1>30. CASE PumpChannel
    BY <1>30 DEF PumpChannel, PutEvent, QueuesMessage
<1>31. CASE PumpStops
    BY <1>31 DEF PumpStops
<1>32. ASSUME NEW kind \in ErrorKinds, WebsocketPumpFails(kind) PROVE Moves
    BY <1>32 DEF WebsocketPumpFails
<1>33. ASSUME NEW kind \in ErrorKinds, ChannelPumpFails(kind) PROVE Moves
    BY <1>33 DEF ChannelPumpFails
<1>34. CASE ClientSends
    BY <1>34 DEF ClientSends, FrameSent
<1>35. ASSUME NEW code \in Codes, ClientLeaves(code) PROVE Moves
    BY <1>35 DEF ClientLeaves, CodeSent
<1>36. CASE LayerDelivers
    BY <1>36 DEF LayerDelivers, MessageSent
<1>37. CASE UNCHANGED vars
    BY <1>37 DEF vars
<1>38. QED
    BY <1>1, <1>2, <1>3, <1>4, <1>5, <1>6, <1>7, <1>8, <1>9, <1>10, <1>11,
       <1>12, <1>13, <1>14, <1>15, <1>16, <1>17, <1>18, <1>19, <1>20, <1>21,
       <1>22, <1>23, <1>24, <1>25, <1>26, <1>27, <1>28, <1>29, <1>30, <1>31,
       <1>32, <1>33, <1>34, <1>35, <1>36, <1>37
    DEF Next, Main, HookEnds

(* The elements of a sequence without its first, or with one more.         *)
LEMMA TailElements ==
    ASSUME NEW S, NEW s \in Seq(S), s # <<>>
    PROVE  /\ Tail(s) \in Seq(S)
           /\ Len(s) \in Nat /\ Len(s) > 0 /\ Len(Tail(s)) = Len(s) - 1
           /\ Head(s) = s[1]
           /\ \A i \in 1 .. Len(s) - 1 : Tail(s)[i] = s[i + 1]
BY HeadTailProperties

LEMMA AppendElements ==
    ASSUME NEW S, NEW s \in Seq(S), NEW e \in S
    PROVE  /\ Append(s, e) \in Seq(S)
           /\ Len(s) \in Nat /\ Len(Append(s, e)) = Len(s) + 1
           /\ Append(s, e)[Len(s) + 1] = e
           /\ \A i \in 1 .. Len(s) : Append(s, e)[i] = s[i]
OBVIOUS

(* How often an element occurs in such a sequence.                         *)
LEMMA OccurrencesFinite ==
    ASSUME NEW S, NEW s \in Seq(S), NEW e
    PROVE  /\ IsFiniteSet({i \in DOMAIN s : s[i] = e})
           /\ Occurrences(e, s) \in Nat
<1>1. IsFiniteSet(1 .. Len(s))
    BY FS_Interval
<1>2. {i \in DOMAIN s : s[i] = e} \in SUBSET (1 .. Len(s))
    OBVIOUS
<1>3. IsFiniteSet({i \in DOMAIN s : s[i] = e})
    BY <1>1, <1>2, FS_Subset
<1>4. QED
    BY <1>3, FS_CardinalityType DEF Occurrences

LEMMA OccurrencesTail ==
    ASSUME NEW S, NEW s \in Seq(S), s # <<>>, NEW e
    PROVE  Occurrences(e, s)
              = Occurrences(e, Tail(s)) + (IF Head(s) = e THEN 1 ELSE 0)
<1> DEFINE A == {i \in DOMAIN s : s[i] = e}
           B == {i \in DOMAIN Tail(s) : Tail(s)[i] = e}
           f == [i \in B |-> i + 1]
<1>1. /\ IsFiniteSet(A) /\ IsFiniteSet(B)
      /\ Occurrences(e, s) = Cardinality(A)
      /\ Occurrences(e, Tail(s)) = Cardinality(B)
      /\ Cardinality(A) \in Nat
    BY OccurrencesFinite, TailElements DEF Occurrences
<1>2. f \in Bijection(B, A \ {1})
    <2>1. f \in [B -> A \ {1}]
        BY TailElements
    <2>2. \A i, j \in B : f[i] = f[j] => i = j
        BY TailElements
    <2>3. \A k \in A \ {1} : \E i \in B : f[i] = k
        <3> TAKE k \in A \ {1}
        <3>1. k - 1 \in B
            BY TailElements
        <3>2. f[k - 1] = k
            BY <3>1, TailElements
        <3>3. QED
            BY <3>1, <3>2
    <2>4. QED
        BY <2>1, <2>2, <2>3 DEF Bijection, Injection, Surjection, IsInjective
<1>3. 1 \in A <=> Head(s) = e
    BY TailElements
<1> HIDE DEF A, B, f
<1>4. Cardinality(A \ {1}) = Cardinality(B)
    <2>1. ExistsBijection(B, A \ {1})
        BY <1>2 DEF ExistsBijection
    <2>2. QED
        BY <1>1, <2>1, FS_Bijection
<1>5. Cardinality(A \ {1}) = IF 1 \in A THEN Cardinality(A) - 1 ELSE Cardinality(A)
    BY <1>1, FS_RemoveElement
<1>6. QED
    BY <1>1, <1>3, <1>4, <1>5

LEMMA OccurrencesAppend ==
    ASSUME NEW S, NEW s \in Seq(S), NEW x \in S, NEW e
    PROVE  Occurrences(e, Append(s, x))
              = Occurrences(e, s) + (IF x = e THEN 1 ELSE 0)
<1> DEFINE A == {i \in DOMAIN s : s[i] = e}
           B == {i \in DOMAIN Append(s, x) : Append(s, x)[i] = e}
<1>1. /\ IsFiniteSet(A)
      /\ Occurrences(e, s) = Cardinality(A)
      /\ Occurrences(e, Append(s, x)) = Cardinality(B)
      /\ Cardinality(A) \in Nat
    BY OccurrencesFinite DEF Occurrences
<1>2. Len(s) + 1 \notin A
    OBVIOUS
<1>3. CASE x = e
    <2>1. B = A \cup {Len(s) + 1}
        BY <1>3, AppendElements
    <2> HIDE DEF A, B
    <2>2. Cardinality(A \cup {Len(s) + 1}) = Cardinality(A) + 1
        BY <1>1, <1>2, FS_AddElement
    <2>3. QED
        BY <1>1, <1>3, <2>1, <2>2
<1>4. CASE x # e
    <2>1. B = A
        BY <1>4, AppendElements
    <2> HIDE DEF A, B
    <2>2. QED
        BY <1>1, <1>4, <2>1
<1>5. QED
    BY <1>3, <1>4

(* Accounting, element by element.                                         *)
Oldest == Len(dispatched) + 1
Newest == sent - Len(inbox)

MessagesInOrder ==
    /\ \A i \in 1 .. Len(dispatched) : dispatched[i] = i
    /\ Len(dispatched) =< Newest
    /\ \A i \in ChannelPositions : events[i].data \in Oldest .. Newest
    /\ \A n \in Oldest .. Newest : \E i \in ChannelPositions : events[i].data = n
    /\ \A i, j \in ChannelPositions : i < j => events[i].data < events[j].data
    /\ \A i \in 1 .. Len(inbox) : inbox[i] = Newest + i

FramesCounted == received + FramesQueued + FramesOnWire = frames

LEMMA Elementwise ==
    ASSUME TypeInv
    PROVE  Accounting <=> MessagesInOrder /\ FramesCounted
<1>1. /\ dispatched \in Seq(Int) /\ inbox \in Seq(Int) /\ sent \in Nat
      /\ Len(dispatched) \in Nat /\ Len(inbox) \in Nat
    BY DEF TypeInv, TypeOK
<1>2. dispatched = [i \in 1 .. Len(dispatched) |-> i]
         <=> \A i \in 1 .. Len(dispatched) : dispatched[i] = i
    BY <1>1
<1>3. inbox = [i \in 1 .. Len(inbox) |-> sent - Len(inbox) + i]
         <=> \A i \in 1 .. Len(inbox) : inbox[i] = Newest + i
    BY <1>1 DEF Newest
<1>4. Len(dispatched) + Len(inbox) =< sent <=> Len(dispatched) =< Newest
    BY <1>1 DEF Newest
<1>5. {events[i].data : i \in ChannelPositions}
            = Len(dispatched) + 1 .. sent - Len(inbox)
         <=> /\ \A i \in ChannelPositions : events[i].data \in Oldest .. Newest
             /\ \A n \in Oldest .. Newest :
                   \E i \in ChannelPositions : events[i].data = n
    BY DEF Oldest, Newest
<1>6. QED
    BY <1>2, <1>3, <1>4, <1>5 DEF Accounting, MessagesInOrder, FramesCounted

(* What TypeInv says of the queues.                                        *)
QueueTypes ==
    /\ events \in Seq(Events) /\ wire \in Seq(Codes \cup {Frame}) /\ inbox \in Seq(Int)
    /\ dispatched \in Seq(Int)
    /\ frames \in Nat /\ sent \in Nat /\ received \in Nat

LEMMA EventData ==
    ASSUME NEW e \in Events
    PROVE  /\ e.data \in Int
           /\ IsChannel(e) => ~IsFrame(e) /\ ~IsDisconnect(e)
           /\ e = WebsocketEvent(Frame) <=> IsFrame(e)
<1>1. CASE e \in [from : {"websocket"}, data : Codes \cup {Frame}]
    <2>1. /\ e = [from |-> "websocket", data |-> e.data]
          /\ e.from = "websocket" /\ e.data \in Codes \cup {Frame}
        BY <1>1
    <2>2. e = [from |-> "websocket", data |-> Frame] <=> e.data = Frame
        BY <2>1
    <2>3. QED
        BY <2>1, <2>2, CodeAssumption DEF IsChannel, IsFrame, IsDisconnect,
            WebsocketEvent, Frame
<1>2. CASE e \in [from : {"channel"}, data : Int]
    <2>1. e.from = "channel" /\ e.data \in Int
        BY <1>2
    <2>2. e # [from |-> "websocket", data |-> Frame]
        BY <2>1
    <2>3. QED
        BY <2>1, <2>2 DEF IsChannel, IsFrame, IsDisconnect, WebsocketEvent
<1>3. QED
    BY <1>1, <1>2 DEF Events

(* The positions of the channel messages.                                  *)
LEMMA PositionTypes ==
    ASSUME NEW s \in Seq(Events), NEW P,
           P = {i \in DOMAIN s : IsChannel(s[i])}
    PROVE  P \subseteq Nat \ {0} /\ \A i \in P : s[i].data \in Int
BY EventData

(* The queue loses its head: what is behind moves up by one.               *)
LEMMA PositionsTail ==
    ASSUME NEW s \in Seq(Events), s # <<>>, NEW P, NEW Q,
           P = {i \in DOMAIN s : IsChannel(s[i])},
           Q = {i \in DOMAIN Tail(s) : IsChannel(Tail(s)[i])}
    PROVE  /\ 1 \in P <=> IsChannel(Head(s))
           /\ \A i \in P : i # 1 => i > 1 /\ i - 1 \in Q
                                    /\ Tail(s)[i - 1].data = s[i].data
           /\ \A i \in Q : i + 1 \in P /\ Tail(s)[i].data = s[i + 1].data
BY TailElements

(* The queue grows by an event.                                            *)
LEMMA PositionsAppend ==
    ASSUME NEW s \in Seq(Events), NEW e \in Events, NEW P, NEW Q,
           P = {i \in DOMAIN s : IsChannel(s[i])},
           Q = {i \in DOMAIN Append(s, e) : IsChannel(Append(s, e)[i])}
    PROVE  /\ Len(s) + 1 \in Nat
           /\ Q = P \cup (IF IsChannel(e) THEN {Len(s) + 1} ELSE {})
           /\ \A i \in P : i < Len(s) + 1 /\ Append(s, e)[i].data = s[i].data
           /\ Append(s, e)[Len(s) + 1].data = e.data
BY AppendElements

(* Each move keeps the order of the messages.                              *)
LEMMA OrderKept ==
    ASSUME QueueTypes, MessagesInOrder, Moves
    PROVE  MessagesInOrder'
<1>1. /\ Len(dispatched) \in Nat /\ Len(inbox) \in Nat /\ sent \in Nat
      /\ events \in Seq(Events)
    BY DEF QueueTypes
<1>2. ChannelPositions \subseteq Nat /\ \A i \in ChannelPositions : events[i].data \in Int
    BY <1>1, PositionTypes DEF ChannelPositions
<1>3. CASE UNCHANGED <<events, inbox, sent, dispatched>>
    <2>1. ChannelPositions' = ChannelPositions
        BY <1>3 DEF ChannelPositions
    <2>2. QED
        BY <1>3, <2>1 DEF MessagesInOrder, Oldest, Newest
<1>4. CASE TakeEvent /\ UNCHANGED <<inbox, sent>> /\ QueueTypes'
           /\ IF IsChannel(Head(events))
              THEN dispatched' = Append(dispatched, Head(events).data)
              ELSE UNCHANGED dispatched
    <2>1. events # <<>> /\ events' = Tail(events) /\ Head(events) = events[1]
        BY <1>1, <1>4, TailElements DEF TakeEvent
    <2>2. /\ 1 \in ChannelPositions <=> IsChannel(Head(events))
          /\ \A i \in ChannelPositions :
                i # 1 => i > 1 /\ i - 1 \in ChannelPositions'
                         /\ events'[i - 1].data = events[i].data
          /\ \A i \in ChannelPositions' :
                i + 1 \in ChannelPositions /\ events'[i].data = events[i + 1].data
        BY <1>1, <2>1, PositionsTail DEF ChannelPositions
    <2>3. ChannelPositions' \subseteq Nat \ {0}
        BY <1>4, PositionTypes DEF ChannelPositions, QueueTypes
    <2>4. Newest' = Newest /\ Newest \in Int
        BY <1>1, <1>4 DEF Newest
    <2>5. \A i \in 1 .. Len(inbox') : inbox'[i] = Newest' + i
        BY <1>4, <2>4 DEF MessagesInOrder
    <2>6. \A i, j \in ChannelPositions' : i < j => events'[i].data < events'[j].data
        <3> TAKE i, j \in ChannelPositions'
        <3>1. /\ i + 1 \in ChannelPositions /\ events'[i].data = events[i + 1].data
              /\ j + 1 \in ChannelPositions /\ events'[j].data = events[j + 1].data
            BY <2>2
        <3>2. i < j => i + 1 < j + 1
            BY <2>3
        <3>3. QED
            BY <3>1, <3>2 DEF MessagesInOrder
    <2>7. CASE IsChannel(Head(events))
        <3>1. 1 \in ChannelPositions
            BY <2>2, <2>7
        <3>2. events[1].data = Oldest
            <4>1. Oldest \in Oldest .. Newest
                BY <1>1, <2>4, <3>1 DEF MessagesInOrder, Oldest
            <4>2. PICK i \in ChannelPositions : events[i].data = Oldest
                BY <4>1 DEF MessagesInOrder
            <4>3. i = 1
                BY <1>1, <1>2, <2>2, <2>4, <3>1, <4>2 DEF MessagesInOrder, Oldest
            <4>4. QED
                BY <4>2, <4>3
        <3>3. /\ Len(dispatched') = Oldest
              /\ dispatched'[Oldest] = Oldest
              /\ \A i \in 1 .. Len(dispatched) : dispatched'[i] = dispatched[i]
            <4>1. dispatched \in Seq(Int) /\ dispatched' = Append(dispatched, Oldest)
                BY <1>4, <2>1, <2>7, <3>2 DEF QueueTypes
            <4>2. Oldest \in Int
                BY <1>1 DEF Oldest
            <4>3. QED
                BY <4>1, <4>2, AppendElements DEF Oldest
        <3>4. Oldest' = Oldest + 1 /\ Oldest \in Nat /\ Oldest =< Newest
            BY <1>1, <2>4, <3>1, <3>3 DEF Oldest, MessagesInOrder
        <3>5. \A i \in 1 .. Len(dispatched') : dispatched'[i] = i
            BY <1>1, <3>3 DEF MessagesInOrder, Oldest
        <3>6. \A i \in ChannelPositions' : events'[i].data \in Oldest' .. Newest'
            <4> TAKE i \in ChannelPositions'
            <4>1. /\ i + 1 \in ChannelPositions /\ i \in ChannelPositions'
                  /\ events'[i].data = events[i + 1].data
                BY <2>2
            <4>0. i + 1 > 1
                BY <2>3, <4>1
            <4>2. events[i + 1].data > Oldest /\ events[i + 1].data \in Oldest .. Newest
                BY <3>1, <3>2, <4>1, <4>0 DEF MessagesInOrder
            <4>3. QED
                BY <2>4, <3>4, <4>1, <4>2
        <3>7. \A n \in Oldest' .. Newest' :
                 \E i \in ChannelPositions' : events'[i].data = n
            <4> TAKE n \in Oldest' .. Newest'
            <4>1. n \in Oldest .. Newest /\ n # Oldest
                BY <2>4, <3>4
            <4>2. PICK i \in ChannelPositions : events[i].data = n
                BY <4>1 DEF MessagesInOrder
            <4>3. i - 1 \in ChannelPositions' /\ events'[i - 1].data = n
                BY <2>2, <3>2, <4>1, <4>2
            <4>4. QED
                BY <4>3
        <3>8. Len(dispatched') =< Newest'
            BY <2>4, <3>3, <3>4
        <3>9. QED
            BY <2>5, <2>6, <3>5, <3>6, <3>7, <3>8 DEF MessagesInOrder
    <2>8. CASE ~IsChannel(Head(events))
        <3>1. 1 \notin ChannelPositions /\ Oldest' = Oldest /\ UNCHANGED dispatched
            BY <1>4, <2>2, <2>8 DEF Oldest
        <3>2. \A i \in ChannelPositions' : events'[i].data \in Oldest' .. Newest'
            BY <2>2, <2>4, <3>1 DEF MessagesInOrder
        <3>3. \A n \in Oldest' .. Newest' :
                 \E i \in ChannelPositions' : events'[i].data = n
            <4> TAKE n \in Oldest' .. Newest'
            <4>1. PICK i \in ChannelPositions : events[i].data = n
                BY <2>4, <3>1 DEF MessagesInOrder
            <4>2. i - 1 \in ChannelPositions' /\ events'[i - 1].data = n
                BY <2>2, <3>1, <4>1
            <4>3. QED
                BY <4>2
        <3>4. QED
            BY <2>4, <2>5, <2>6, <3>1, <3>2, <3>3 DEF MessagesInOrder
    <2>9. QED
        BY <2>7, <2>8
<1>5. CASE QueuesFrame
    <2>1. /\ events' = Append(events, WebsocketEvent(Head(wire)))
          /\ WebsocketEvent(Head(wire)) \in Events
          /\ ~IsChannel(WebsocketEvent(Head(wire)))
          /\ inbox' = inbox /\ sent' = sent /\ dispatched' = dispatched
        BY <1>5, HeadAndTail DEF QueueTypes, QueuesFrame, CountersStay, Events,
            WebsocketEvent, IsChannel
    <2>2. /\ ChannelPositions' = ChannelPositions
          /\ \A i \in ChannelPositions : events'[i].data = events[i].data
        BY <1>1, <2>1, PositionsAppend DEF ChannelPositions
    <2>3. Oldest' = Oldest /\ Newest' = Newest
        BY <2>1 DEF Oldest, Newest
    <2>4. /\ \A i \in 1 .. Len(dispatched') : dispatched'[i] = i
          /\ Len(dispatched') =< Newest'
          /\ \A i \in 1 .. Len(inbox') : inbox'[i] = Newest' + i
        BY <2>1, <2>3 DEF MessagesInOrder
    <2>5. \A i \in ChannelPositions' : events'[i].data \in Oldest' .. Newest'
        BY <2>2, <2>3 DEF MessagesInOrder
    <2>6. \A n \in Oldest' .. Newest' :
             \E i \in ChannelPositions' : events'[i].data = n
        BY <2>2, <2>3 DEF MessagesInOrder
    <2>7. \A i, j \in ChannelPositions' : i < j => events'[i].data < events'[j].data
        BY <2>2 DEF MessagesInOrder
    <2>8. QED
        BY <2>4, <2>5, <2>6, <2>7 DEF MessagesInOrder
<1>6. CASE QueuesMessage
    <2>1. /\ events' = Append(events, ChannelEvent(inbox[1]))
          /\ inbox \in Seq(Int) /\ inbox # <<>> /\ inbox[1] \in Int
          /\ inbox' = Tail(inbox)
          /\ sent' = sent /\ dispatched' = dispatched
        BY <1>6, TailElements, HeadAndTail DEF QueueTypes, QueuesMessage, CountersStay
    <2>2. /\ Len(inbox) > 0 /\ Len(inbox') = Len(inbox) - 1
          /\ \A i \in 1 .. Len(inbox) - 1 : inbox'[i] = inbox[i + 1]
        BY <2>1, TailElements
    <2>3. /\ inbox[1] = Newest + 1 /\ Newest' = Newest + 1
          /\ Oldest' = Oldest /\ Oldest \in Nat /\ Newest \in Int
        BY <1>1, <2>1, <2>2 DEF MessagesInOrder, Oldest, Newest
    <2>4. /\ ChannelEvent(inbox[1]) \in Events
          /\ IsChannel(ChannelEvent(inbox[1]))
          /\ ChannelEvent(inbox[1]).data = Newest + 1
        BY <2>1, <2>3 DEF ChannelEvent, IsChannel, Events
    <2>5. /\ Len(events) + 1 \in Nat
          /\ ChannelPositions' = ChannelPositions \cup {Len(events) + 1}
          /\ \A i \in ChannelPositions :
                i < Len(events) + 1 /\ events'[i].data = events[i].data
          /\ events'[Len(events) + 1].data = Newest + 1
        BY <1>1, <2>1, <2>4, PositionsAppend DEF ChannelPositions
    <2>6. \A i \in ChannelPositions' : events'[i].data \in Oldest' .. Newest'
        <3> TAKE i \in ChannelPositions'
        <3>1. CASE i \in ChannelPositions
            <4>1. events'[i].data \in Oldest .. Newest
                BY <2>5, <3>1 DEF MessagesInOrder
            <4>2. QED
                BY <2>3, <4>1
        <3>2. CASE i = Len(events) + 1
            <4>1. Oldest =< Newest + 1
                BY <1>1, <2>3 DEF MessagesInOrder, Oldest
            <4>2. QED
                BY <2>3, <2>5, <3>2, <4>1
        <3>3. QED
            BY <2>5, <3>1, <3>2
    <2>7. \A n \in Oldest' .. Newest' :
             \E i \in ChannelPositions' : events'[i].data = n
        <3> TAKE n \in Oldest' .. Newest'
        <3>1. CASE n = Newest + 1
            BY <2>5, <3>1
        <3>2. CASE n # Newest + 1
            <4>1. n \in Oldest .. Newest
                BY <2>3, <3>2
            <4>2. QED
                BY <2>5, <4>1 DEF MessagesInOrder
        <3>3. QED
            BY <3>1, <3>2
    <2>8. \A i, j \in ChannelPositions' : i < j => events'[i].data < events'[j].data
        <3> TAKE i, j \in ChannelPositions'
        <3>0. /\ i \in ChannelPositions \/ i = Len(events) + 1
              /\ j \in ChannelPositions \/ j = Len(events) + 1
              /\ i \in Nat /\ j \in Nat
            BY <1>2, <2>5
        <3>1. CASE i \in ChannelPositions /\ j = Len(events) + 1
            <4>1. events[i].data \in Oldest .. Newest
                BY <3>1 DEF MessagesInOrder
            <4>2. events'[i].data = events[i].data /\ events'[j].data = Newest + 1
                BY <2>5, <3>1
            <4>3. QED
                BY <2>3, <4>1, <4>2
        <3>2. CASE i \in ChannelPositions /\ j \in ChannelPositions
            BY <2>5, <3>2 DEF MessagesInOrder
        <3>3. CASE i = Len(events) + 1
            BY <2>5, <3>0, <3>3
        <3>4. QED
            BY <3>0, <3>1, <3>2, <3>3
    <2>9. \A i \in 1 .. Len(inbox') : inbox'[i] = Newest' + i
        BY <1>1, <2>2, <2>3 DEF MessagesInOrder
    <2>10. /\ \A i \in 1 .. Len(dispatched') : dispatched'[i] = i
           /\ Len(dispatched') =< Newest'
        <3>1. dispatched' = dispatched
            BY <2>1
        <3>2. QED
            BY <1>1, <2>3, <3>1 DEF MessagesInOrder
    <2>11. QED
        BY <2>6, <2>7, <2>8, <2>9, <2>10 DEF MessagesInOrder
<1>7. CASE MessageSent
    <2>1. /\ Len(inbox') = Len(inbox) + 1
          /\ inbox'[Len(inbox) + 1] = sent + 1
          /\ \A i \in 1 .. Len(inbox) : inbox'[i] = inbox[i]
        BY <1>7, AppendElements DEF QueueTypes, MessageSent
    <2>0. events' = events /\ dispatched' = dispatched /\ sent' = sent + 1
        BY <1>7 DEF MessageSent
    <2>2. Newest' = Newest /\ Oldest' = Oldest
        BY <1>1, <2>0, <2>1 DEF Newest, Oldest
    <2>3. ChannelPositions' = ChannelPositions
        BY <2>0 DEF ChannelPositions
    <2>4. \A i \in 1 .. Len(inbox') : inbox'[i] = Newest' + i
        BY <1>1, <2>1, <2>2 DEF MessagesInOrder, Newest
    <2>5. /\ \A i \in 1 .. Len(dispatched') : dispatched'[i] = i
          /\ Len(dispatched') =< Newest'
        BY <2>0, <2>2 DEF MessagesInOrder
    <2>6. \A i \in ChannelPositions' : events'[i].data \in Oldest' .. Newest'
        BY <2>0, <2>2, <2>3 DEF MessagesInOrder
    <2>7. \A n \in Oldest' .. Newest' :
             \E i \in ChannelPositions' : events'[i].data = n
        BY <2>0, <2>2, <2>3 DEF MessagesInOrder
    <2>8. \A i, j \in ChannelPositions' : i < j => events'[i].data < events'[j].data
        BY <2>0, <2>3 DEF MessagesInOrder
    <2>9. QED
        BY <2>4, <2>5, <2>6, <2>7, <2>8 DEF MessagesInOrder
<1>8. QED
    <2>1. NothingMoves \/ FrameSent \/ (\E code \in Codes : CodeSent(code))
             => UNCHANGED <<events, inbox, sent, dispatched>>
        BY DEF NothingMoves, FrameSent, CodeSent, CountersStay
    <2>2. ASSUME HandlesFrame \/ HandlesMessage \/ SeesDisconnect
          PROVE  TakeEvent /\ UNCHANGED <<inbox, sent>> /\ QueueTypes'
                 /\ IF IsChannel(Head(events))
                    THEN dispatched' = Append(dispatched, Head(events).data)
                    ELSE UNCHANGED dispatched
        <3>1. /\ events # <<>> /\ events' = Tail(events) /\ UNCHANGED <<inbox, wire>>
              /\ UNCHANGED <<sent, frames>>
            BY <2>2 DEF HandlesFrame, HandlesMessage, SeesDisconnect, TakeEvent,
                CountersStay
        <3>2. Head(events) \in Events /\ Tail(events) \in Seq(Events)
            BY <1>1, <3>1, HeadAndTail
        <3>3. Head(events).data \in Int
            BY <3>2, EventData
        <3>4. IF IsChannel(Head(events))
              THEN dispatched' = Append(dispatched, Head(events).data)
              ELSE UNCHANGED dispatched
            BY <2>2, <3>2 DEF HandlesFrame, HandlesMessage, SeesDisconnect, TakeEvent,
                CountersStay, IsFrame, IsDisconnect, IsChannel
        <3>5. dispatched' \in Seq(Int)
            BY <3>3, <3>4, AppendType DEF QueueTypes
        <3>6. received' \in Nat
            BY <2>2 DEF HandlesFrame, HandlesMessage, SeesDisconnect, CountersStay,
                QueueTypes
        <3>7. QED
            BY <2>2, <3>1, <3>2, <3>4, <3>5, <3>6 DEF QueueTypes, HandlesFrame,
                HandlesMessage, SeesDisconnect
    <2>3. QED
        BY <1>3, <1>4, <1>5, <1>6, <1>7, <2>1, <2>2 DEF Moves

(* Each move keeps the count of the frames.                                *)
LEMMA CountKept ==
    ASSUME QueueTypes, FramesCounted, Moves
    PROVE  FramesCounted'
<1> USE DEF QueueTypes, FramesCounted
<1> DEFINE w == WebsocketEvent(Frame)
<1>0. FramesQueued \in Nat /\ FramesOnWire \in Nat
    BY OccurrencesFinite DEF FramesQueued, FramesOnWire
<1>1. CASE NothingMoves \/ MessageSent
    <2>1. UNCHANGED <<events, wire, frames, received>>
        BY <1>1 DEF NothingMoves, MessageSent, CountersStay
    <2>2. QED
        BY <2>1 DEF FramesQueued, FramesOnWire
<1>2. CASE HandlesFrame \/ HandlesMessage \/ SeesDisconnect
    <2>1. /\ events # <<>> /\ events' = Tail(events)
          /\ UNCHANGED <<wire, frames>>
        BY <1>2 DEF HandlesFrame, HandlesMessage, SeesDisconnect, TakeEvent, CountersStay
    <2>2. received' = received + IF Head(events) = w THEN 1 ELSE 0
        BY <1>2, <2>1, HeadAndTail, EventData DEF HandlesFrame, HandlesMessage,
            SeesDisconnect, CountersStay, IsDisconnect, IsFrame
    <2>3. FramesQueued
            = Occurrences(w, Tail(events)) + IF Head(events) = w THEN 1 ELSE 0
        BY <2>1, OccurrencesTail DEF FramesQueued
    <2>4. Occurrences(w, Tail(events)) \in Nat
        BY <2>1, OccurrencesFinite, HeadAndTail
    <2>5. FramesOnWire' = FramesOnWire
        BY <2>1 DEF FramesQueued, FramesOnWire
    <2>6. FramesQueued' = Occurrences(w, Tail(events))
        BY <2>1 DEF FramesQueued, FramesOnWire
    <2> HIDE DEF w
    <2>7. QED
        BY <1>0, <2>1, <2>2, <2>3, <2>4, <2>5, <2>6
<1>3. CASE QueuesFrame \/ QueuesMessage
    <2> DEFINE e == IF QueuesFrame THEN WebsocketEvent(Head(wire))
                                   ELSE ChannelEvent(Head(inbox))
    <2>1. events' = Append(events, e) /\ e \in Events
        BY <1>3, HeadAndTail DEF QueuesFrame, QueuesMessage, Events, WebsocketEvent,
            ChannelEvent
    <2>2. /\ frames' = frames /\ received' = received
          /\ QueuesFrame \/ wire' = wire
        BY <1>3 DEF QueuesFrame, QueuesMessage, CountersStay
    <2>3. FramesQueued' = FramesQueued + IF e = w THEN 1 ELSE 0
        <3>1. Occurrences(w, Append(events, e))
                 = FramesQueued + IF e = w THEN 1 ELSE 0
            BY <2>1, OccurrencesAppend DEF FramesQueued
        <3>2. QED
            BY <2>1, <3>1 DEF FramesQueued, FramesOnWire
    <2>4. CASE QueuesFrame
        <3>1. wire # <<>> /\ wire' = Tail(wire)
            BY <2>4 DEF QueuesFrame
        <3>2. FramesOnWire
                 = Occurrences(Frame, Tail(wire)) + IF Head(wire) = Frame THEN 1 ELSE 0
            BY <3>1, OccurrencesTail DEF FramesOnWire
        <3>3. FramesOnWire' = Occurrences(Frame, Tail(wire))
            BY <3>1 DEF FramesQueued, FramesOnWire
        <3>4. Occurrences(Frame, Tail(wire)) \in Nat
            BY <3>1, OccurrencesFinite, HeadAndTail
        <3>5. e = w <=> Head(wire) = Frame
            BY <2>4 DEF WebsocketEvent
        <3> HIDE DEF w, e
        <3>6. QED
            BY <1>0, <2>2, <2>3, <3>2, <3>3, <3>4, <3>5
    <2>5. CASE ~QueuesFrame
        <3>1. e # w
            BY <2>5 DEF WebsocketEvent, ChannelEvent
        <3>2. FramesOnWire' = FramesOnWire
            BY <2>2, <2>5 DEF FramesQueued, FramesOnWire
        <3> HIDE DEF w, e
        <3>3. QED
            BY <1>0, <2>2, <2>3, <3>1, <3>2
    <2>6. QED
        BY <2>4, <2>5
<1>4. ASSUME NEW x \in Codes \cup {Frame},
             wire' = Append(wire, x), events' = events, received' = received,
             frames' = frames + IF x = Frame THEN 1 ELSE 0
      PROVE  FramesCounted'
    <2>1. Occurrences(Frame, Append(wire, x))
             = FramesOnWire + IF x = Frame THEN 1 ELSE 0
        BY OccurrencesAppend DEF FramesOnWire
    <2>2. /\ FramesOnWire' = Occurrences(Frame, Append(wire, x))
          /\ FramesQueued' = FramesQueued
        BY <1>4 DEF FramesQueued, FramesOnWire
    <2> HIDE DEF w
    <2>3. QED
        BY <1>0, <1>4, <2>1, <2>2
<1>5. CASE FrameSent
    BY <1>4, <1>5 DEF FrameSent
<1>6. ASSUME NEW code \in Codes, CodeSent(code) PROVE FramesCounted'
    <2>1. code # Frame
        BY CodeAssumption DEF Frame
    <2>2. QED
        BY <1>4, <1>6, <2>1 DEF CodeSent, CountersStay
<1>7. QED
    BY <1>1, <1>2, <1>3, <1>5, <1>6 DEF Moves

(* No message the layer accepted and no frame the client sent is lost,     *)
(* doubled or overtaken on its way through the two pumps and the events    *)
(* queue to the hooks.                                                     *)
THEOREM AccountingCorrect == Spec => []Accounting
<1>1. Init => TypeInv /\ Accounting
    <2>1. SUFFICES ASSUME Init PROVE TypeInv /\ Accounting
        OBVIOUS
    <2>2. TypeInv
        BY <2>1, TypeInit
    <2>3. MessagesInOrder
        BY <2>1 DEF Init, MessagesInOrder, ChannelPositions, Oldest, Newest
    <2>4. FramesCounted
        <3>1. /\ {i \in DOMAIN events : events[i] = WebsocketEvent(Frame)} = {}
              /\ {i \in DOMAIN wire : wire[i] = Frame} = {}
            BY <2>1 DEF Init
        <3>2. QED
            BY <2>1, <3>1, FS_EmptySet DEF Init, FramesCounted, FramesQueued, FramesOnWire,
                Occurrences
    <2>5. QED
        BY <2>2, <2>3, <2>4, Elementwise
<1>2. TypeInv /\ Accounting /\ [Next]_vars => TypeInv' /\ Accounting'
    <2>1. SUFFICES ASSUME TypeInv, Accounting, [Next]_vars PROVE TypeInv' /\ Accounting'
        OBVIOUS
    <2>2. TypeInv'
        BY <2>1, TypeInductive
    <2>3. QueueTypes
        BY <2>1 DEF QueueTypes, TypeInv, TypeOK
    <2>4. Moves
        BY <2>1, StepMoves
    <2>5. MessagesInOrder /\ FramesCounted
        BY <2>1, Elementwise
    <2>6. MessagesInOrder' /\ FramesCounted'
        BY <2>3, <2>4, <2>5, OrderKept, CountKept
    <2>7. (TypeInv => (Accounting <=> MessagesInOrder /\ FramesCounted))'
        BY Elementwise, PTL
    <2>8. QED
        BY <2>2, <2>6, <2>7
<1>3. QED
    BY <1>1, <1>2, PTL DEF Spec

-----------------------------------------------------------------------------
(* The drain.                                                              *)

ClientLeft == \E i \in DOMAIN events : IsDisconnect(events[i])
OnlyMessages == \A i \in DOMAIN events : IsChannel(events[i])
NoFrameBehind ==
    \A i, j \in DOMAIN events : i < j /\ IsDisconnect(events[i]) => IsChannel(events[j])

Draining == pc \in {"drain", "drainchannel"}
BeforePumps == pc \in {"start", "connect", "accept"}
BeforeDrain == BeforePumps \/ pc \in {"loop", "receive", "channel"}

(* The websocket pump stops behind the client's disconnect, so that only   *)
(* the channel pump puts anything behind it; both are cancelled in the     *)
(* step that finds the queue empty, and whoever is cancelled puts nothing  *)
(* more; a close code that is not a send's is there only in the drain and  *)
(* behind it.                                                              *)
DrainInv ==
    /\ NoFrameBehind
    /\ ClientLeft \/ Draining \/ drained => wsPump # "running"
    /\ BeforePumps => events = <<>> /\ wsPump = "none" /\ chPump = "none"
    /\ Draining => OnlyMessages
    /\ drained => events = <<>> /\ chPump # "running"
    /\ closeCode \in Codes \ {Abnormal} /\ exc = "none" => drained \/ Draining
    /\ BeforeDrain => closeCode = NoCode
    /\ BeforeDrain \/ Draining => ~drained /\ exc = "none"
    /\ pc \notin {"disconnect", "closelayer", "done"} => hooks = 0

(* What a step does to the three statements about the queue.               *)
LEMMA QueueStays ==
    ASSUME events' = events
    PROVE  /\ ClientLeft' = ClientLeft
           /\ OnlyMessages' = OnlyMessages
           /\ NoFrameBehind' = NoFrameBehind
BY DEF ClientLeft, OnlyMessages, NoFrameBehind

LEMMA QueueTaken ==
    ASSUME events \in Seq(Events), events # <<>>, events' = Tail(events)
    PROVE  /\ NoFrameBehind => NoFrameBehind'
           /\ OnlyMessages => OnlyMessages'
           /\ ClientLeft' => ClientLeft
           /\ IsDisconnect(Head(events)) => ClientLeft
           /\ IsDisconnect(Head(events)) /\ NoFrameBehind => OnlyMessages'
<1>1. /\ Len(events) \in Nat /\ Len(events) > 0 /\ Len(events') = Len(events) - 1
      /\ Head(events) = events[1]
      /\ \A i \in 1 .. Len(events) - 1 : events'[i] = events[i + 1]
    BY TailElements
<1>2. DOMAIN events = 1 .. Len(events) /\ DOMAIN events' = 1 .. Len(events) - 1
    <2>1. events' \in Seq(Events)
        BY HeadAndTail
    <2>2. QED
        BY <1>1, <2>1
<1>3. NoFrameBehind => NoFrameBehind'
    BY <1>1, <1>2 DEF NoFrameBehind
<1>4. OnlyMessages => OnlyMessages'
    BY <1>1, <1>2 DEF OnlyMessages
<1>5. ClientLeft' => ClientLeft
    BY <1>1, <1>2 DEF ClientLeft
<1>6. IsDisconnect(Head(events)) => ClientLeft
    BY <1>1, <1>2 DEF ClientLeft
<1>7. IsDisconnect(Head(events)) /\ NoFrameBehind => OnlyMessages'
    BY <1>1, <1>2 DEF NoFrameBehind, OnlyMessages
<1>8. QED
    BY <1>3, <1>4, <1>5, <1>6, <1>7

LEMMA QueueGrown ==
    ASSUME events \in Seq(Events), NEW e \in Events, events' = Append(events, e)
    PROVE  /\ IsChannel(e) /\ NoFrameBehind => NoFrameBehind'
           /\ ~ClientLeft => NoFrameBehind'
           /\ IsChannel(e) /\ OnlyMessages => OnlyMessages'
           /\ ~IsDisconnect(e) /\ ClientLeft' => ClientLeft
<1>1. /\ Len(events) \in Nat /\ Len(events') = Len(events) + 1
      /\ events'[Len(events) + 1] = e
      /\ \A i \in 1 .. Len(events) : events'[i] = events[i]
      /\ events' \in Seq(Events)
    BY AppendElements
<1>2. DOMAIN events = 1 .. Len(events) /\ DOMAIN events' = 1 .. Len(events) + 1
    BY <1>1
<1>3. IsChannel(e) /\ NoFrameBehind => NoFrameBehind'
    BY <1>1, <1>2 DEF NoFrameBehind
<1>4. ~ClientLeft => NoFrameBehind'
    BY <1>1, <1>2 DEF NoFrameBehind, ClientLeft
<1>5. IsChannel(e) /\ OnlyMessages => OnlyMessages'
    BY <1>1, <1>2 DEF OnlyMessages
<1>6. ~IsDisconnect(e) /\ ClientLeft' => ClientLeft
    BY <1>1, <1>2 DEF ClientLeft
<1>7. QED
    BY <1>3, <1>4, <1>5, <1>6

LEMMA DrainInductive ==
    TypeInv /\ DrainInv /\ [Next]_vars => DrainInv'
<1> SUFFICES ASSUME TypeInv, DrainInv, [Next]_vars PROVE DrainInv'
    OBVIOUS
<1> USE DEF DrainInv, Draining, BeforePumps, BeforeDrain
<1>0. /\ events \in Seq(Events) /\ NoCode \notin Codes
      /\ wire \in Seq(Codes \cup {Frame}) /\ inbox \in Seq(Int)
      /\ pc \in Places
    BY CodeAssumption DEF TypeInv, TypeOK
<1>1. CASE NewChannel
    BY <1>0, <1>1, QueueStays DEF NewChannel
<1>2. CASE NewChannelFails
    BY <1>0, <1>2, QueueStays DEF NewChannelFails
<1>3. CASE StartPumps
    <2>1. events = <<>> /\ ~ClientLeft
        BY <1>3 DEF StartPumps, ClientLeft
    <2>2. QED
        BY <1>0, <1>3, <2>1, QueueStays DEF StartPumps
<1>4. CASE AcceptFails
    BY <1>0, <1>4, QueueStays DEF AcceptFails, EnterFinally, Cancelled
<1>5. CASE LoopEnds
    BY <1>0, <1>5, QueueStays DEF LoopEnds, EnterFinally, Cancelled
<1>6. CASE LoopFrame
    <2>1. events # <<>> /\ events' = Tail(events)
        BY <1>6 DEF LoopFrame, TakeEvent
    <2>2. QED
        BY <1>0, <1>6, <2>1, QueueTaken DEF LoopFrame
<1>7. CASE LoopChannel
    <2>1. events # <<>> /\ events' = Tail(events)
        BY <1>7 DEF LoopChannel, TakeEvent
    <2>2. QED
        BY <1>0, <1>7, <2>1, QueueTaken DEF LoopChannel
<1>8. CASE LoopDisconnect
    <2>1. events # <<>> /\ events' = Tail(events)
        BY <1>8 DEF LoopDisconnect, TakeEvent
    <2>2. QED
        BY <1>0, <1>8, <2>1, QueueTaken DEF LoopDisconnect
<1>9. CASE DrainChannel
    <2>1. events # <<>> /\ events' = Tail(events)
        BY <1>9 DEF DrainChannel, TakeEvent
    <2>2. QED
        BY <1>0, <1>9, <2>1, QueueTaken DEF DrainChannel
<1>10. CASE DrainEnds
    BY <1>0, <1>10, QueueStays DEF DrainEnds, EnterFinally, Cancelled, Drained
<1>11. CASE AwaitWebsocketPump
    BY <1>0, <1>11, QueueStays DEF AwaitWebsocketPump, AwaitPump
<1>12. CASE AwaitChannelPump
    BY <1>0, <1>12, QueueStays DEF AwaitChannelPump, AwaitPump
<1>13. ASSUME NEW g \in Groups, CleanupNext(g) PROVE DrainInv'
    BY <1>0, <1>13, QueueStays DEF CleanupNext
<1>14. CASE CleanupEnds
    BY <1>0, <1>14, QueueStays DEF CleanupEnds
<1>15. CASE CloseLayer
    BY <1>0, <1>15, QueueStays DEF CloseLayer
<1>16. CASE ConnectReturns
    BY <1>0, <1>16, QueueStays DEF ConnectReturns
<1>17. CASE DispatchReturns
    BY <1>0, <1>17, QueueStays DEF DispatchReturns
<1>18. CASE DisconnectReturns
    BY <1>0, <1>18, QueueStays DEF DisconnectReturns, AfterDisconnect
<1>19. CASE UserAccept
    BY <1>0, <1>19, QueueStays DEF UserAccept
<1>20. CASE UserClose
    BY <1>0, <1>20, QueueStays DEF UserClose
<1>21. CASE HookRaises
    BY <1>0, <1>21, QueueStays DEF HookRaises, EnterFinally, Cancelled, TryHooks, Hooks
<1>22. CASE SendToGone
    BY <1>0, <1>22, QueueStays DEF SendToGone, EnterFinally, Cancelled, TryHooks, Hooks
<1>23. CASE DisconnectRaises
    BY <1>0, <1>23, QueueStays DEF DisconnectRaises
<1>24. ASSUME NEW op \in {"add", "discard"}, NEW g \in Groups, UserCalls(op, g) PROVE DrainInv'
    BY <1>0, <1>24, QueueStays DEF UserCalls
<1>25. CASE CallApplies
    BY <1>0, <1>25, QueueStays DEF CallApplies
<1>26. CASE CallReturns
    BY <1>0, <1>26, QueueStays DEF CallReturns
<1>27. ASSUME NEW kind \in ErrorKinds, CallRaises(kind) PROVE DrainInv'
    BY <1>0, <1>27, QueueStays DEF CallRaises
<1>28. CASE Cancel
    BY <1>0, <1>28, QueueStays DEF Cancel, EnterFinally, Cancelled, TryHooks, Hooks, AfterDisconnect
<1>29. CASE PumpWebsocket
    <2>1. /\ WebsocketEvent(Head(wire)) \in Events
          /\ events' = Append(events, WebsocketEvent(Head(wire)))
          /\ IsDisconnect(WebsocketEvent(Head(wire))) <=> Head(wire) # Frame
        BY <1>0, <1>29, HeadAndTail DEF PumpWebsocket, PutEvent, WebsocketEvent, Events,
            IsDisconnect
    <2>2. QED
        BY <1>0, <1>29, <2>1, QueueGrown DEF PumpWebsocket
<1>30. CASE PumpChannel
    <2>1. /\ ChannelEvent(Head(inbox)) \in Events
          /\ events' = Append(events, ChannelEvent(Head(inbox)))
          /\ IsChannel(ChannelEvent(Head(inbox)))
          /\ ~IsDisconnect(ChannelEvent(Head(inbox)))
        BY <1>0, <1>30, HeadAndTail DEF PumpChannel, PutEvent, ChannelEvent, Events,
            IsDisconnect, IsChannel
    <2>2. QED
        BY <1>0, <1>30, <2>1, QueueGrown DEF PumpChannel
<1>31. CASE PumpStops
    BY <1>0, <1>31, QueueStays DEF PumpStops
<1>32. ASSUME NEW kind \in ErrorKinds, WebsocketPumpFails(kind) PROVE DrainInv'
    BY <1>0, <1>32, QueueStays DEF WebsocketPumpFails, AfterError
<1>33. ASSUME NEW kind \in ErrorKinds, ChannelPumpFails(kind) PROVE DrainInv'
    BY <1>0, <1>33, QueueStays DEF ChannelPumpFails, AfterError
<1>34. CASE ClientSends
    BY <1>0, <1>34, QueueStays DEF ClientSends
<1>35. ASSUME NEW code \in Codes, ClientLeaves(code) PROVE DrainInv'
    BY <1>0, <1>35, QueueStays DEF ClientLeaves
<1>36. CASE LayerDelivers
    BY <1>0, <1>36, QueueStays DEF LayerDelivers
<1>37. CASE UNCHANGED vars
    BY <1>0, <1>37, QueueStays DEF vars
<1>38. QED
    BY <1>1, <1>2, <1>3, <1>4, <1>5, <1>6, <1>7, <1>8, <1>9, <1>10, <1>11,
       <1>12, <1>13, <1>14, <1>15, <1>16, <1>17, <1>18, <1>19, <1>20, <1>21,
       <1>22, <1>23, <1>24, <1>25, <1>26, <1>27, <1>28, <1>29, <1>30, <1>31,
       <1>32, <1>33, <1>34, <1>35, <1>36, <1>37
    DEF Next, Main, HookEnds

THEOREM DrainInvariant == Spec => []DrainInv
<1>1. Init => DrainInv
    BY CodeAssumption DEF Init, DrainInv, NoFrameBehind, ClientLeft, Draining, BeforePumps,
        BeforeDrain
<1>2. QED
    BY <1>1, TypeInit, TypeInductive, DrainInductive, PTL DEF Spec

(* The drain is finished unless an exception cuts it short, it meets       *)
(* nothing but channel messages, and once it is finished nothing is left   *)
(* in the queue and nothing comes into it.                                 *)
THEOREM DrainLeavesNothingCorrect == Spec => []DrainLeavesNothing
<1>1. DrainInv => DrainLeavesNothing
    BY DEF DrainInv, DrainLeavesNothing, OnlyMessages, Draining
<1>2. QED
    BY <1>1, DrainInvariant, PTL
-----------------------------------------------------------------------------
(* What the promises that the code does not keep come to: each of them is  *)
(* true up to the failure that its run exhibits, and no further.           *)

(* Where an exception that ends __call__ came from, and what a pump that   *)
(* is not running any more met: a pump of a consumer in its loop is        *)
(* running, or has read the client's disconnect, or has raised an error it *)
(* may raise; both are cancelled before anybody awaits them.               *)
Serving == pc \in {"loop", "receive", "channel"}
Pumping == Serving \/ Draining

FailsAs(pump, errors) ==
    \/ pump = "broken" /\ "expected" \in errors
    \/ pump = "failed" /\ "unexpected" \in errors

EndInv ==
    /\ exc = "new_channel" => pc = "refused"
    /\ exc = "pump" => wsPump = "failed" \/ chPump = "failed"
    /\ exc = "cleanup" => "unexpected" \in BackendErrors
    /\ BeforePumps => wsPump = "none" /\ chPump = "none"
    /\ chPump \in {"broken", "failed"} => FailsAs(chPump, ChannelPumpErrors)
    /\ wsPump \in {"broken", "failed"} => FailsAs(wsPump, WebsocketPumpErrors)
    /\ Pumping => chPump \in {"running", "broken", "failed"}
    /\ Serving /\ wsPump \notin {"running", "broken", "failed"} =>
          wsPump = "ended" /\ ClientLeft
    /\ pc = "awaitws" => wsPump # "running"
    /\ pc \in {"awaitws", "awaitch"} => chPump # "running"

LEMMA QueueKeepsDisconnect ==
    ASSUME events \in Seq(Events), events # <<>>, events' = Tail(events),
           ~IsDisconnect(Head(events))
    PROVE  ClientLeft => ClientLeft'
<1>1. /\ Len(events) \in Nat /\ Len(events) > 0 /\ Len(events') = Len(events) - 1
      /\ Head(events) = events[1] /\ events' \in Seq(Events)
      /\ \A i \in 1 .. Len(events) - 1 : events'[i] = events[i + 1]
    BY TailElements
<1>2. DOMAIN events = 1 .. Len(events) /\ DOMAIN events' = 1 .. Len(events) - 1
    BY <1>1
<1>3. SUFFICES ASSUME NEW i \in DOMAIN events, IsDisconnect(events[i])
      PROVE  \E j \in DOMAIN events' : IsDisconnect(events'[j])
    BY DEF ClientLeft
<1>4. i \in Int /\ i > 1 /\ i =< Len(events)
    BY <1>1, <1>2, <1>3
<1>5. i - 1 \in DOMAIN events' /\ events'[i - 1] = events[i]
    BY <1>1, <1>2, <1>4
<1>6. QED
    BY <1>3, <1>5

LEMMA QueueGainsEvent ==
    ASSUME events \in Seq(Events), NEW e \in Events, events' = Append(events, e)
    PROVE  /\ ClientLeft => ClientLeft'
           /\ IsDisconnect(e) => ClientLeft'
<1>1. /\ Len(events) \in Nat /\ Len(events') = Len(events) + 1
      /\ events'[Len(events) + 1] = e /\ events' \in Seq(Events)
      /\ \A i \in 1 .. Len(events) : events'[i] = events[i]
    BY AppendElements
<1>2. DOMAIN events = 1 .. Len(events) /\ DOMAIN events' = 1 .. Len(events) + 1
    BY <1>1
<1>3. QED
    BY <1>1, <1>2 DEF ClientLeft

LEMMA EndInductive ==
    TypeInv /\ EndInv /\ [Next]_vars => EndInv'
<1> SUFFICES ASSUME TypeInv, EndInv, [Next]_vars PROVE EndInv'
    OBVIOUS
<1> USE DEF EndInv, Serving, Pumping, Draining, BeforePumps, FailsAs
<1>0. /\ events \in Seq(Events)
      /\ wire \in Seq(Codes \cup {Frame}) /\ inbox \in Seq(Int)
      /\ pc \in Places /\ wsPump \in PumpStates /\ chPump \in PumpStates
    BY DEF TypeInv, TypeOK
<1>1. CASE NewChannel
    BY <1>0, QueueStays, <1>1 DEF NewChannel
<1>2. CASE NewChannelFails
    BY <1>0, QueueStays, <1>2 DEF NewChannelFails
<1>3. CASE StartPumps
    BY <1>0, QueueStays, <1>3 DEF StartPumps
<1>4. CASE AcceptFails
    BY <1>0, QueueStays, <1>4 DEF AcceptFails, EnterFinally, Cancelled
<1>5. CASE LoopEnds
    BY <1>0, QueueStays, <1>5 DEF LoopEnds, EnterFinally, Cancelled
<1>6. CASE LoopFrame
    <2>1. /\ events # <<>> /\ events' = Tail(events)
          /\ ~IsDisconnect(Head(events))
        BY <1>6 DEF LoopFrame, TakeEvent, IsFrame, IsDisconnect
    <2>2. QED
        BY <1>0, <1>6, <2>1, QueueKeepsDisconnect DEF LoopFrame
<1>7. CASE LoopChannel
    <2>1. /\ events # <<>> /\ events' = Tail(events)
          /\ ~IsDisconnect(Head(events))
        BY <1>7 DEF LoopChannel, TakeEvent, IsChannel, IsDisconnect
    <2>2. QED
        BY <1>0, <1>7, <2>1, QueueKeepsDisconnect DEF LoopChannel
<1>8. CASE LoopDisconnect
    BY <1>0, <1>8 DEF LoopDisconnect
<1>9. CASE DrainChannel
    BY <1>0, <1>9 DEF DrainChannel
<1>10. CASE DrainEnds
    BY <1>0, QueueStays, <1>10 DEF DrainEnds, EnterFinally, Cancelled
<1>11. CASE AwaitWebsocketPump
    BY <1>0, QueueStays, <1>11 DEF AwaitWebsocketPump, AwaitPump
<1>12. CASE AwaitChannelPump
    BY <1>0, QueueStays, <1>12 DEF AwaitChannelPump, AwaitPump
<1>13. ASSUME NEW g \in Groups, CleanupNext(g) PROVE EndInv'
    BY <1>0, QueueStays, <1>13 DEF CleanupNext
<1>14. CASE CleanupEnds
    BY <1>0, QueueStays, <1>14 DEF CleanupEnds
<1>15. CASE CloseLayer
    BY <1>0, QueueStays, <1>15 DEF CloseLayer
<1>16. CASE ConnectReturns
    BY <1>0, QueueStays, <1>16 DEF ConnectReturns
<1>17. CASE DispatchReturns
    BY <1>0, QueueStays, <1>17 DEF DispatchReturns
<1>18. CASE DisconnectReturns
    BY <1>0, QueueStays, <1>18 DEF DisconnectReturns, AfterDisconnect
<1>19. CASE UserAccept
    BY <1>0, QueueStays, <1>19 DEF UserAccept
<1>20. CASE UserClose
    BY <1>0, QueueStays, <1>20 DEF UserClose
<1>21. CASE HookRaises
    BY <1>0, QueueStays, <1>21 DEF HookRaises, EnterFinally, Cancelled, TryHooks, Hooks
<1>22. CASE SendToGone
    BY <1>0, QueueStays, <1>22 DEF SendToGone, EnterFinally, Cancelled, TryHooks, Hooks
<1>23. CASE DisconnectRaises
    BY <1>0, QueueStays, <1>23 DEF DisconnectRaises
<1>24. ASSUME NEW op \in {"add", "discard"}, NEW g \in Groups, UserCalls(op, g) PROVE EndInv'
    BY <1>0, QueueStays, <1>24 DEF UserCalls
<1>25. CASE CallApplies
    BY <1>0, QueueStays, <1>25 DEF CallApplies
<1>26. CASE CallReturns
    BY <1>0, QueueStays, <1>26 DEF CallReturns
<1>27. ASSUME NEW kind \in ErrorKinds, CallRaises(kind) PROVE EndInv'
    BY <1>0, QueueStays, <1>27 DEF CallRaises, CallInterrupted
<1>28. CASE Cancel
    BY <1>0, QueueStays, <1>28 DEF Cancel, EnterFinally, Cancelled, Interrupt, CallInterrupted, TryHooks, Hooks, AfterDisconnect
<1>29. CASE PumpWebsocket
    <2>1. /\ WebsocketEvent(Head(wire)) \in Events
          /\ events' = Append(events, WebsocketEvent(Head(wire)))
          /\ IsDisconnect(WebsocketEvent(Head(wire))) <=> Head(wire) # Frame
        BY <1>0, <1>29, HeadAndTail DEF PumpWebsocket, PutEvent, WebsocketEvent, Events,
            IsDisconnect
    <2>2. QED
        BY <1>0, <1>29, <2>1, QueueGainsEvent DEF PumpWebsocket
<1>30. CASE PumpChannel
    <2>1. /\ ChannelEvent(Head(inbox)) \in Events
          /\ events' = Append(events, ChannelEvent(Head(inbox)))
        BY <1>0, <1>30, HeadAndTail DEF PumpChannel, PutEvent, ChannelEvent, Events
    <2>2. QED
        BY <1>0, <1>30, <2>1, QueueGainsEvent DEF PumpChannel
<1>31. CASE PumpStops
    BY <1>0, QueueStays, <1>31 DEF PumpStops
<1>32. ASSUME NEW kind \in ErrorKinds, WebsocketPumpFails(kind) PROVE EndInv'
    BY <1>0, QueueStays, <1>32 DEF WebsocketPumpFails, AfterError, ErrorKinds
<1>33. ASSUME NEW kind \in ErrorKinds, ChannelPumpFails(kind) PROVE EndInv'
    BY <1>0, QueueStays, <1>33 DEF ChannelPumpFails, AfterError, ErrorKinds
<1>34. CASE ClientSends
    BY <1>0, QueueStays, <1>34 DEF ClientSends
<1>35. ASSUME NEW code \in Codes, ClientLeaves(code) PROVE EndInv'
    BY <1>0, QueueStays, <1>35 DEF ClientLeaves
<1>36. CASE LayerDelivers
    BY <1>0, QueueStays, <1>36 DEF LayerDelivers
<1>37. CASE UNCHANGED vars
    BY <1>0, QueueStays, <1>37 DEF vars
<1>38. QED
    BY <1>1, <1>2, <1>3, <1>4, <1>5, <1>6, <1>7, <1>8, <1>9, <1>10, <1>11, <1>12,
       <1>13, <1>14, <1>15, <1>16, <1>17, <1>18, <1>19, <1>20, <1>21, <1>22, <1>23,
       <1>24, <1>25, <1>26, <1>27, <1>28, <1>29, <1>30, <1>31, <1>32, <1>33, <1>34,
       <1>35, <1>36, <1>37
    DEF Next, Main, HookEnds

THEOREM EndInvariant == Spec => [](TypeInv /\ EndInv)
<1>1. Init => EndInv
    BY DEF Init, EndInv, Serving, Pumping, Draining, BeforePumps
<1>2. QED
    BY <1>1, TypeInit, TypeInductive, EndInductive, PTL DEF Spec

(* The cleanup is skipped by an error of a pump or by its own, and by      *)
(* nothing else: neither by an exception of the user's code nor by a       *)
(* cancellation (consumers.py 64-77).                                      *)
CleansUpOtherwise ==
    pc = "done" /\ exc \notin {"pump", "cleanup"} => members \subseteq torn

THEOREM CleansUpOtherwiseCorrect == Spec => []CleansUpOtherwise
<1>1. BooksInv /\ Shutdown /\ EndInv => CleansUpOtherwise
    <2>1. SUFFICES ASSUME BooksInv, Shutdown, EndInv,
                          pc = "done", exc \notin {"pump", "cleanup"}
          PROVE  members \subseteq torn
        BY DEF CleansUpOtherwise
    <2>2. hooks = 1
        BY <2>1 DEF BooksInv, Shutdown, Finished, EndInv
    <2>3. call = NoCall
        BY <2>1 DEF BooksInv, Hooks
    <2>4. QED
        BY <2>1, <2>2, <2>3 DEF BooksInv, Tracked
<1>2. QED
    BY <1>1, BooksInvariant, ShutdownCorrect, EndInvariant, PTL

(* So the promise of the documentation holds of a consumer whose layer and *)
(* websocket raise nothing but the errors of a shutdown.                   *)
THEOREM CleansUpWithoutErrors ==
    ASSUME "unexpected" \notin ChannelPumpErrors, "unexpected" \notin WebsocketPumpErrors,
           "unexpected" \notin BackendErrors
    PROVE  Spec => []CleansUpAlways
<1>1. EndInv /\ CleansUpOtherwise => CleansUpAlways
    BY DEF EndInv, FailsAs, CleansUpOtherwise, CleansUpAlways
<1>2. QED
    BY <1>1, EndInvariant, CleansUpOtherwiseCorrect, PTL

(* A consumer in its loop hears the layer unless the layer's receive has   *)
(* raised, and the client unless the websocket's has or the client's       *)
(* disconnect is in the queue (consumers.py 44-57, 200-231).               *)
HearsUnlessBroken ==
    Serving =>
        /\ chPump = "running" \/ FailsAs(chPump, ChannelPumpErrors)
        /\ \/ wsPump = "running" \/ FailsAs(wsPump, WebsocketPumpErrors)
           \/ wsPump = "ended" /\ ClientLeft

THEOREM HearsUnlessBrokenCorrect == Spec => []HearsUnlessBroken
<1>1. EndInv => HearsUnlessBroken
    BY DEF EndInv, HearsUnlessBroken, Pumping
<1>2. QED
    BY <1>1, EndInvariant, PTL

(* The client's code is on the wire, in the queue or in close_code, and no *)
(* other code is, but for the 1006 of a send to a client that has left.    *)
CodeOnWire == \E i \in DOMAIN wire : wire[i] # Frame
WireHasItsCode == \A i \in DOMAIN wire : wire[i] # Frame => wire[i] = gone
QueueHasItsCode ==
    \A i \in DOMAIN events : IsDisconnect(events[i]) => events[i].data = gone

CodeInv ==
    /\ WireHasItsCode /\ QueueHasItsCode
    /\ closeCode \in {NoCode, gone, Abnormal}
    /\ closeCode # NoCode => gone # NoCode
    /\ gone # NoCode => closeCode # NoCode \/ ClientLeft \/ CodeOnWire

LEMMA WireStays ==
    ASSUME wire' = wire, gone' = gone
    PROVE  CodeOnWire' = CodeOnWire /\ WireHasItsCode' = WireHasItsCode
BY DEF CodeOnWire, WireHasItsCode

LEMMA QueueCodeStays ==
    ASSUME events' = events, gone' = gone
    PROVE  QueueHasItsCode' = QueueHasItsCode /\ ClientLeft' = ClientLeft
BY DEF QueueHasItsCode, ClientLeft

LEMMA QueueCodeTaken ==
    ASSUME events \in Seq(Events), events # <<>>, events' = Tail(events), gone' = gone
    PROVE  /\ QueueHasItsCode => QueueHasItsCode'
           /\ QueueHasItsCode /\ IsDisconnect(Head(events)) => Head(events).data = gone
<1>1. /\ Len(events) \in Nat /\ Len(events) > 0 /\ Len(events') = Len(events) - 1
      /\ Head(events) = events[1] /\ events' \in Seq(Events)
      /\ \A i \in 1 .. Len(events) - 1 : events'[i] = events[i + 1]
    BY TailElements
<1>2. DOMAIN events = 1 .. Len(events) /\ DOMAIN events' = 1 .. Len(events) - 1
    BY <1>1
<1>3. QED
    BY <1>1, <1>2 DEF QueueHasItsCode

LEMMA QueueCodeGrown ==
    ASSUME events \in Seq(Events), NEW e \in Events, events' = Append(events, e), gone' = gone,
           QueueHasItsCode, IsDisconnect(e) => e.data = gone
    PROVE  QueueHasItsCode'
<1>1. /\ Len(events) \in Nat /\ Len(events') = Len(events) + 1
      /\ events'[Len(events) + 1] = e /\ events' \in Seq(Events)
      /\ \A i \in 1 .. Len(events) : events'[i] = events[i]
    BY AppendElements
<1>2. DOMAIN events = 1 .. Len(events) /\ DOMAIN events' = 1 .. Len(events) + 1
    BY <1>1
<1>3. QED
    BY <1>1, <1>2 DEF QueueHasItsCode

LEMMA WireTaken ==
    ASSUME wire \in Seq(Codes \cup {Frame}), wire # <<>>, wire' = Tail(wire), gone' = gone
    PROVE  /\ WireHasItsCode => WireHasItsCode'
           /\ WireHasItsCode /\ Head(wire) # Frame => Head(wire) = gone
           /\ CodeOnWire /\ Head(wire) = Frame => CodeOnWire'
<1>1. /\ Len(wire) \in Nat /\ Len(wire) > 0 /\ Len(wire') = Len(wire) - 1
      /\ Head(wire) = wire[1] /\ wire' \in Seq(Codes \cup {Frame})
      /\ \A i \in 1 .. Len(wire) - 1 : wire'[i] = wire[i + 1]
    BY TailElements
<1>2. DOMAIN wire = 1 .. Len(wire) /\ DOMAIN wire' = 1 .. Len(wire) - 1
    BY <1>1
<1>3. WireHasItsCode => WireHasItsCode'
    BY <1>1, <1>2 DEF WireHasItsCode
<1>4. WireHasItsCode /\ Head(wire) # Frame => Head(wire) = gone
    BY <1>1, <1>2 DEF WireHasItsCode
<1>5. ASSUME NEW i \in DOMAIN wire, wire[i] # Frame, Head(wire) = Frame PROVE CodeOnWire'
    <2>1. i \in Int /\ i > 1 /\ i =< Len(wire)
        BY <1>1, <1>2, <1>5
    <2>2. i - 1 \in DOMAIN wire' /\ wire'[i - 1] = wire[i]
        BY <1>1, <1>2, <2>1
    <2>3. QED
        BY <1>5, <2>2 DEF CodeOnWire
<1>6. QED
    BY <1>3, <1>4, <1>5 DEF CodeOnWire

LEMMA WireGrown ==
    ASSUME wire \in Seq(Codes \cup {Frame}), NEW f \in Codes \cup {Frame},
           wire' = Append(wire, f)
    PROVE  /\ gone' = gone /\ f = Frame /\ WireHasItsCode => WireHasItsCode'
           /\ ~CodeOnWire /\ gone' = f => WireHasItsCode'
           /\ CodeOnWire \/ f # Frame => CodeOnWire'
<1>1. /\ Len(wire) \in Nat /\ Len(wire') = Len(wire) + 1
      /\ wire'[Len(wire) + 1] = f /\ wire' \in Seq(Codes \cup {Frame})
      /\ \A i \in 1 .. Len(wire) : wire'[i] = wire[i]
    BY AppendElements
<1>2. DOMAIN wire = 1 .. Len(wire) /\ DOMAIN wire' = 1 .. Len(wire) + 1
    BY <1>1
<1>3. QED
    BY <1>1, <1>2 DEF CodeOnWire, WireHasItsCode

(* While the client is there no code is anywhere.                          *)
LEMMA NoCodeYet ==
    ASSUME TypeInv, CodeInv, gone = NoCode
    PROVE  ~CodeOnWire /\ ~ClientLeft /\ closeCode = NoCode
<1>1. /\ events \in Seq(Events) /\ wire \in Seq(Codes \cup {Frame})
      /\ NoCode \notin Codes
    BY CodeAssumption DEF TypeInv, TypeOK
<1>2. ASSUME NEW i \in DOMAIN wire, wire[i] # Frame PROVE FALSE
    <2>1. wire[i] \in Codes \cup {Frame}
        BY <1>1
    <2>2. QED
        BY <1>1, <1>2, <2>1 DEF CodeInv, WireHasItsCode
<1>3. ASSUME NEW i \in DOMAIN events, IsDisconnect(events[i]) PROVE FALSE
    <2>1. events[i] \in Events
        BY <1>1
    <2>2. events[i].data \in Codes
        BY <1>3, <2>1 DEF Events, IsDisconnect
    <2>3. QED
        BY <1>1, <1>3, <2>2 DEF CodeInv, QueueHasItsCode
<1>4. QED
    BY <1>2, <1>3 DEF CodeOnWire, ClientLeft, CodeInv

LEMMA CodeInductive ==
    TypeInv /\ CodeInv /\ [Next]_vars => CodeInv'
<1> SUFFICES ASSUME TypeInv, CodeInv, [Next]_vars PROVE CodeInv'
    OBVIOUS
<1> USE DEF CodeInv
<1>0. /\ events \in Seq(Events)
      /\ wire \in Seq(Codes \cup {Frame}) /\ inbox \in Seq(Int)
      /\ NoCode \notin Codes /\ Abnormal # NoCode
    BY CodeAssumption DEF TypeInv, TypeOK
<1>1. CASE NewChannel
    BY QueueCodeStays, WireStays, <1>0, <1>1 DEF NewChannel
<1>2. CASE NewChannelFails
    BY QueueCodeStays, WireStays, <1>0, <1>2 DEF NewChannelFails
<1>3. CASE StartPumps
    BY QueueCodeStays, WireStays, <1>0, <1>3 DEF StartPumps
<1>4. CASE AcceptFails
    BY QueueCodeStays, WireStays, <1>0, <1>4 DEF AcceptFails, EnterFinally
<1>5. CASE LoopEnds
    BY QueueCodeStays, WireStays, <1>0, <1>5 DEF LoopEnds, EnterFinally
<1>6. CASE LoopFrame
    <2>1. /\ events # <<>> /\ events' = Tail(events)
          /\ ~IsDisconnect(Head(events)) /\ gone' = gone /\ wire' = wire
        BY <1>6 DEF LoopFrame, TakeEvent, IsFrame, IsDisconnect
    <2>2. QED
        BY <1>0, <1>6, <2>1, QueueKeepsDisconnect, QueueCodeTaken, WireStays DEF LoopFrame
<1>7. CASE LoopChannel
    <2>1. /\ events # <<>> /\ events' = Tail(events)
          /\ ~IsDisconnect(Head(events)) /\ gone' = gone /\ wire' = wire
        BY <1>7 DEF LoopChannel, TakeEvent, IsChannel, IsDisconnect
    <2>2. QED
        BY <1>0, <1>7, <2>1, QueueKeepsDisconnect, QueueCodeTaken, WireStays DEF LoopChannel
<1>8. CASE LoopDisconnect
    <2>1. /\ events # <<>> /\ events' = Tail(events)
          /\ IsDisconnect(Head(events)) /\ gone' = gone /\ wire' = wire
          /\ closeCode' = Head(events).data
        BY <1>8 DEF LoopDisconnect, TakeEvent
    <2>2. Head(events).data = gone /\ QueueHasItsCode'
        BY <1>0, <2>1, QueueCodeTaken
    <2>3. gone # NoCode
        BY <2>1, <1>0, NoCodeYet, QueueTaken
    <2>4. QED
        BY <2>1, <2>2, <2>3, WireStays
<1>9. CASE DrainChannel
    <2>1. /\ events # <<>> /\ events' = Tail(events)
          /\ ~IsDisconnect(Head(events)) /\ gone' = gone /\ wire' = wire
        BY <1>9 DEF DrainChannel, TakeEvent, IsChannel, IsDisconnect
    <2>2. QED
        BY <1>0, <1>9, <2>1, QueueKeepsDisconnect, QueueCodeTaken, WireStays DEF DrainChannel
<1>10. CASE DrainEnds
    BY QueueCodeStays, WireStays, <1>0, <1>10 DEF DrainEnds, EnterFinally
<1>11. CASE AwaitWebsocketPump
    BY QueueCodeStays, WireStays, <1>0, <1>11 DEF AwaitWebsocketPump, AwaitPump
<1>12. CASE AwaitChannelPump
    BY QueueCodeStays, WireStays, <1>0, <1>12 DEF AwaitChannelPump, AwaitPump
<1>13. ASSUME NEW g \in Groups, CleanupNext(g) PROVE CodeInv'
    BY QueueCodeStays, WireStays, <1>0, <1>13 DEF CleanupNext
<1>14. CASE CleanupEnds
    BY QueueCodeStays, WireStays, <1>0, <1>14 DEF CleanupEnds
<1>15. CASE CloseLayer
    BY QueueCodeStays, WireStays, <1>0, <1>15 DEF CloseLayer
<1>16. CASE ConnectReturns
    BY QueueCodeStays, WireStays, <1>0, <1>16 DEF ConnectReturns
<1>17. CASE DispatchReturns
    BY QueueCodeStays, WireStays, <1>0, <1>17 DEF DispatchReturns
<1>18. CASE DisconnectReturns
    BY QueueCodeStays, WireStays, <1>0, <1>18 DEF DisconnectReturns, AfterDisconnect
<1>19. CASE UserAccept
    BY QueueCodeStays, WireStays, <1>0, <1>19 DEF UserAccept
<1>20. CASE UserClose
    BY QueueCodeStays, WireStays, <1>0, <1>20 DEF UserClose
<1>21. CASE HookRaises
    BY QueueCodeStays, WireStays, <1>0, <1>21 DEF HookRaises, EnterFinally
<1>22. CASE SendToGone
    BY QueueCodeStays, WireStays, <1>0, <1>22 DEF SendToGone, EnterFinally
<1>23. CASE DisconnectRaises
    BY QueueCodeStays, WireStays, <1>0, <1>23 DEF DisconnectRaises
<1>24. ASSUME NEW op \in {"add", "discard"}, NEW g \in Groups, UserCalls(op, g) PROVE CodeInv'
    BY QueueCodeStays, WireStays, <1>0, <1>24 DEF UserCalls
<1>25. CASE CallApplies
    BY QueueCodeStays, WireStays, <1>0, <1>25 DEF CallApplies
<1>26. CASE CallReturns
    BY QueueCodeStays, WireStays, <1>0, <1>26 DEF CallReturns
<1>27. ASSUME NEW kind \in ErrorKinds, CallRaises(kind) PROVE CodeInv'
    BY QueueCodeStays, WireStays, <1>0, <1>27 DEF CallRaises, CallInterrupted
<1>28. CASE Cancel
    BY QueueCodeStays, WireStays, <1>0, <1>28 DEF Cancel, EnterFinally, Interrupt, CallInterrupted, AfterDisconnect
<1>29. CASE PumpWebsocket
    <2>1. /\ wire # <<>> /\ wire' = Tail(wire) /\ gone' = gone
          /\ closeCode' = closeCode
          /\ WebsocketEvent(Head(wire)) \in Events
          /\ events' = Append(events, WebsocketEvent(Head(wire)))
          /\ IsDisconnect(WebsocketEvent(Head(wire))) <=> Head(wire) # Frame
          /\ WebsocketEvent(Head(wire)).data = Head(wire)
        BY <1>0, <1>29, HeadAndTail DEF PumpWebsocket, PutEvent, WebsocketEvent, Events,
            IsDisconnect
    <2>2. WireHasItsCode' /\ QueueHasItsCode'
        BY <1>0, <2>1, WireTaken, QueueCodeGrown
    <2>3. CodeOnWire \/ ClientLeft => CodeOnWire' \/ ClientLeft'
        BY <1>0, <2>1, WireTaken, QueueGainsEvent
    <2>4. QED
        BY <2>1, <2>2, <2>3
<1>30. CASE PumpChannel
    <2>1. /\ ChannelEvent(Head(inbox)) \in Events /\ gone' = gone /\ wire' = wire
          /\ events' = Append(events, ChannelEvent(Head(inbox)))
          /\ closeCode' = closeCode
          /\ ~IsDisconnect(ChannelEvent(Head(inbox)))
        BY <1>0, <1>30, HeadAndTail DEF PumpChannel, PutEvent, ChannelEvent, Events,
            IsDisconnect
    <2>2. QED
        BY <1>0, <2>1, QueueGainsEvent, QueueCodeGrown, WireStays
<1>31. CASE PumpStops
    BY QueueCodeStays, WireStays, <1>0, <1>31 DEF PumpStops
<1>32. ASSUME NEW kind \in ErrorKinds, WebsocketPumpFails(kind) PROVE CodeInv'
    BY QueueCodeStays, WireStays, <1>0, <1>32 DEF WebsocketPumpFails, AfterError, ErrorKinds
<1>33. ASSUME NEW kind \in ErrorKinds, ChannelPumpFails(kind) PROVE CodeInv'
    BY QueueCodeStays, WireStays, <1>0, <1>33 DEF ChannelPumpFails, AfterError, ErrorKinds
<1>34. CASE ClientSends
    <2>1. /\ Frame \in Codes \cup {Frame} /\ wire' = Append(wire, Frame)
          /\ gone' = gone /\ events' = events /\ closeCode' = closeCode
        BY <1>34 DEF ClientSends
    <2>2. QED
        BY <1>0, <2>1, QueueCodeStays, WireGrown
<1>35. ASSUME NEW code \in Codes, ClientLeaves(code) PROVE CodeInv'
    <2>1. /\ gone = NoCode /\ gone' = code /\ events' = events /\ closeCode' = closeCode
          /\ code \in Codes \cup {Frame} /\ wire' = Append(wire, code)
          /\ code # Frame /\ code # NoCode
        BY <1>0, <1>35, CodeAssumption DEF ClientLeaves, Frame
    <2>2. ~CodeOnWire /\ ~ClientLeft /\ closeCode = NoCode
        BY <2>1, NoCodeYet
    <2>3. QueueHasItsCode'
        BY <2>1, <2>2 DEF QueueHasItsCode, ClientLeft
    <2>4. WireHasItsCode' /\ CodeOnWire'
        BY <1>0, <2>1, <2>2, WireGrown
    <2>5. QED
        BY <2>1, <2>2, <2>3, <2>4
<1>36. CASE LayerDelivers
    BY QueueCodeStays, WireStays, <1>0, <1>36 DEF LayerDelivers
<1>37. CASE UNCHANGED vars
    BY QueueCodeStays, WireStays, <1>0, <1>37 DEF vars
<1>38. QED
    BY <1>1, <1>2, <1>3, <1>4, <1>5, <1>6, <1>7, <1>8, <1>9, <1>10, <1>11, <1>12,
       <1>13, <1>14, <1>15, <1>16, <1>17, <1>18, <1>19, <1>20, <1>21, <1>22, <1>23,
       <1>24, <1>25, <1>26, <1>27, <1>28, <1>29, <1>30, <1>31, <1>32, <1>33, <1>34,
       <1>35, <1>36, <1>37
    DEF Next, Main, HookEnds

(* disconnect() is given the client's code or 1006, only once the client   *)
(* has left, and the code of a client that left is lost only with the      *)
(* queue or the wire that holds it (consumers.py 49-63, 200-211).          *)
ReportsSomeCode ==
    /\ closeCode \in {NoCode, gone, Abnormal}
    /\ closeCode # NoCode => gone # NoCode
    /\ gone # NoCode /\ wire = <<>> /\ events = <<>> => closeCode # NoCode

THEOREM CodeInvariant == Spec => []CodeInv
<1>1. Init => CodeInv
    BY DEF Init, CodeInv, WireHasItsCode, QueueHasItsCode
<1>2. QED
    BY <1>1, TypeInit, TypeInductive, CodeInductive, PTL DEF Spec

THEOREM ReportsSomeCodeCorrect == Spec => []ReportsSomeCode
<1>1. CodeInv => ReportsSomeCode
    BY DEF CodeInv, ReportsSomeCode, CodeOnWire, ClientLeft
<1>2. QED
    BY <1>1, CodeInvariant, PTL

(* The safety part of Ends: once the client has left, the consumer has     *)
(* closed the websocket or an exception has reached __call__, there is no  *)
(* state in which everybody waits, unless the websocket pump died of an    *)
(* error.  At each place of __call__ what it awaits is there or under way: *)
(* in the loop an event, or the client's code on the wire before a running *)
(* pump; in the drain nothing that it would not dispatch; behind it a pump *)
(* that has been cancelled; in a hook or the cleanup the user's code or    *)
(* the layer's answer (consumers.py 47-86).                                *)
GoesOn ==
    \/ pc \in {"start", "accept", "cleanup", "closelayer"} \cup Hooks
    \/ pc = "loop" /\ (closed \/ events # <<>> \/ (wsPump = "running" /\ wire # <<>>))
    \/ pc = "drain" /\ (events = <<>> \/ IsChannel(Head(events)))
    \/ pc = "awaitws" /\ wsPump # "running"
    \/ pc = "awaitch" /\ chPump # "running"

NeverStuck ==
    gone # NoCode \/ closed \/ exc # "none" =>
        Finished \/ wsPump \in {"broken", "failed"} \/ GoesOn

THEOREM NeverStuckCorrect == Spec => []NeverStuck
<1>1. TypeInv /\ DrainInv /\ EndInv /\ CodeInv => NeverStuck
    <2>1. SUFFICES ASSUME TypeInv, DrainInv, EndInv, CodeInv,
                          gone # NoCode \/ closed \/ exc # "none",
                          wsPump \notin {"broken", "failed"}
          PROVE  Finished \/ GoesOn
        BY DEF NeverStuck
    <2>2. pc \in Places /\ events \in Seq(Events)
        BY <2>1 DEF TypeInv, TypeOK
    <2>3. CASE pc = "loop"
        <3>1. SUFFICES ASSUME ~closed, events = <<>> PROVE wsPump = "running" /\ wire # <<>>
            BY <2>3 DEF GoesOn
        <3>2. ~ClientLeft
            BY <3>1 DEF ClientLeft
        <3>3. wsPump = "running"
            BY <2>1, <2>3, <3>2 DEF EndInv, Serving
        <3>4. exc = "none" /\ closeCode = NoCode
            BY <2>1, <2>3 DEF DrainInv, BeforeDrain
        <3>5. CodeOnWire
            BY <2>1, <3>1, <3>2, <3>4 DEF CodeInv
        <3>6. QED
            BY <3>3, <3>5 DEF CodeOnWire
    <2>4. CASE pc = "drain"
        <3>1. events # <<>> => 1 \in DOMAIN events /\ Head(events) = events[1]
            BY <2>2
        <3>2. OnlyMessages
            BY <2>1, <2>4 DEF DrainInv, Draining
        <3>3. QED
            BY <2>4, <3>1, <3>2 DEF OnlyMessages, GoesOn
    <2>5. CASE pc \in {"awaitws", "awaitch"}
        BY <2>1, <2>5 DEF EndInv, GoesOn
    <2>6. QED
        BY <2>2, <2>3, <2>4, <2>5 DEF Places, GoesOn, Finished
<1>2. QED
    BY <1>1, DrainInvariant, EndInvariant, CodeInvariant, PTL
=============================================================================
