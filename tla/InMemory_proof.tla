--------------------------- MODULE InMemory_proof ---------------------------
(***************************************************************************)
(* Proofs about the in-memory layer, for every set of channels, groups and *)
(* messages, every finite set of receivers, every capacity and every       *)
(* choice of the shared channels.                                          *)
(***************************************************************************)
EXTENDS InMemory, FiniteSetTheorems, SequenceTheorems, TLAPS

-----------------------------------------------------------------------------
(* What the steps of asyncio.Queue do to the tasks that wait.              *)

(* _wakeup_next moves at most one task per queue from getters to ready,    *)
(* and exactly one where there was one to move.                            *)
LEMMA WakeupNextMoves ==
    ASSUME TypeOK, NEW cs, WakeupNext(cs)
    PROVE  /\ getters' \in [Channels -> SUBSET Receivers]
           /\ ready' \in [Channels -> SUBSET Receivers]
           /\ \A c \in Channels :
                 \/ /\ getters'[c] = getters[c]
                    /\ ready'[c] = ready[c]
                    /\ c \in cs => getters[c] = {}
                 \/ /\ c \in cs
                    /\ \E r \in getters[c] :
                          /\ getters'[c] = getters[c] \ {r}
                          /\ ready'[c] = ready[c] \cup {r}
<1>1. PICK w \in [Channels -> SUBSET Receivers] :
         /\ \A c \in Channels : w[c] \in (IF c \in cs THEN Woken(c) ELSE {{}})
         /\ getters' = [c \in Channels |-> getters[c] \ w[c]]
         /\ ready' = [c \in Channels |-> ready[c] \cup w[c]]
    BY DEF WakeupNext
<1>2. \A c \in Channels : /\ getters[c] \in SUBSET Receivers
                          /\ ready[c] \in SUBSET Receivers
                          /\ w[c] \in SUBSET Receivers
    BY <1>1 DEF TypeOK
<1>3. /\ getters' \in [Channels -> SUBSET Receivers]
      /\ ready' \in [Channels -> SUBSET Receivers]
    BY <1>1, <1>2
<1>4. ASSUME NEW c \in Channels
      PROVE  \/ /\ getters'[c] = getters[c]
                /\ ready'[c] = ready[c]
                /\ c \in cs => getters[c] = {}
             \/ /\ c \in cs
                /\ \E r \in getters[c] :
                      /\ getters'[c] = getters[c] \ {r}
                      /\ ready'[c] = ready[c] \cup {r}
    <2>1. getters'[c] = getters[c] \ w[c] /\ ready'[c] = ready[c] \cup w[c]
        BY <1>1
    <2>2. CASE c \in cs /\ getters[c] # {}
        <3>1. PICK r \in getters[c] : w[c] = {r}
            BY <1>1, <2>2 DEF Woken
        <3>2. QED
            BY <2>1, <2>2, <3>1
    <2>3. CASE ~(c \in cs /\ getters[c] # {})
        <3>1. w[c] = {}
            BY <1>1, <2>3 DEF Woken
        <3>2. QED
            BY <2>1, <2>3, <3>1
    <2>4. QED
        BY <2>2, <2>3
<1>5. QED
    BY <1>3, <1>4

(* The same of the wake-up a task passes on when it gives up.              *)
LEMMA GiveUpMoves ==
    ASSUME TypeOK, NEW c \in Channels, NEW r \in ready[c], GiveUp(c, r)
    PROVE  /\ getters' \in [Channels -> SUBSET Receivers]
           /\ ready' \in [Channels -> SUBSET Receivers]
           /\ \A d \in Channels \ {c} :
                 getters'[d] = getters[d] /\ ready'[d] = ready[d]
           /\ \/ /\ getters'[c] = getters[c]
                 /\ ready'[c] = ready[c] \ {r}
                 /\ Size(c) > 0 => getters[c] = {}
              \/ /\ Size(c) > 0
                 /\ \E x \in getters[c] :
                       /\ getters'[c] = getters[c] \ {x}
                       /\ ready'[c] = (ready[c] \ {r}) \cup {x}
<1>1. /\ getters \in [Channels -> SUBSET Receivers]
      /\ ready \in [Channels -> SUBSET Receivers]
    BY DEF TypeOK
<1>2. CASE Size(c) > 0
    <2>1. PICK w \in Woken(c) :
             /\ getters' = [getters EXCEPT ![c] = @ \ w]
             /\ ready' = [ready EXCEPT ![c] = (@ \ {r}) \cup w]
        BY <1>2 DEF GiveUp
    <2>2. CASE getters[c] = {}
        <3>1. w = {}
            BY <2>1, <2>2 DEF Woken
        <3>2. QED
            BY <1>1, <1>2, <2>1, <2>2, <3>1
    <2>3. CASE getters[c] # {}
        <3>1. PICK x \in getters[c] : w = {x}
            BY <2>1, <2>3 DEF Woken
        <3>2. QED
            BY <1>1, <1>2, <2>1, <3>1
    <2>4. QED
        BY <2>2, <2>3
<1>3. CASE ~(Size(c) > 0)
    BY <1>1, <1>3 DEF GiveUp, GiveUpAlone
<1>4. QED
    BY <1>2, <1>3

-----------------------------------------------------------------------------
(* Type correctness.                                                       *)

LEMMA PutTypes ==
    ASSUME TypeOK, NEW cs, NEW m \in Messages, Put(cs, m)
    PROVE  /\ queue' \in [Channels -> Seq(Messages)]
           /\ log' \in [Channels -> Seq(Messages)]
           /\ got' \in [Channels -> Seq(Messages)]
           /\ getters' \in [Channels -> SUBSET Receivers]
           /\ ready' \in [Channels -> SUBSET Receivers]
<1>1. WakeupNext(cs)
    BY DEF Put
<1>2. /\ getters' \in [Channels -> SUBSET Receivers]
      /\ ready' \in [Channels -> SUBSET Receivers]
    BY <1>1, WakeupNextMoves
<1>3. \A c \in Channels : /\ Append(queue[c], m) \in Seq(Messages)
                          /\ Append(log[c], m) \in Seq(Messages)
    BY DEF TypeOK
<1>4. QED
    BY <1>2, <1>3 DEF Put, TypeOK

LEMMA TakeHeadTypes ==
    ASSUME TypeOK, NEW c \in Channels, TakeHead(c)
    PROVE  /\ queue' \in [Channels -> Seq(Messages)]
           /\ log' \in [Channels -> Seq(Messages)]
           /\ got' \in [Channels -> Seq(Messages)]
<1>1. queue[c] \in Seq(Messages) /\ got[c] \in Seq(Messages) /\ queue[c] # <<>>
    BY DEF TakeHead, TypeOK
<1>2. Head(queue[c]) \in Messages /\ Tail(queue[c]) \in Seq(Messages)
    BY <1>1, HeadTailProperties
<1>3. Append(got[c], Head(queue[c])) \in Seq(Messages)
    BY <1>1, <1>2
<1>4. QED
    BY <1>2, <1>3 DEF TakeHead, TypeOK

(* Type correctness: in every reachable state of the layer every variable  *)
(* has its type, and every member of a group has a queue.                  *)
THEOREM TypeCorrect == Spec => []TypeOK
<1>1. Init => TypeOK
    <2>1. <<>> \in Seq(Messages)
        OBVIOUS
    <2>2. QED
        BY <2>1, IntCapacities DEF Init, TypeOK
<1>2. TypeOK /\ [Next]_vars => TypeOK'
    <2> SUFFICES ASSUME TypeOK, [Next]_vars PROVE TypeOK'
        OBVIOUS
    <2>1. ASSUME NEW c \in Channels, NEW m \in Messages, Send(c, m) PROVE TypeOK'
        <3>1. CASE Put({c}, m)
            BY <2>1, <3>1, PutTypes DEF Send, TypeOK
        <3>2. CASE UNCHANGED <<queue, getters, ready, history>>
            BY <2>1, <3>2 DEF Send, TypeOK, history
        <3>3. QED
            BY <2>1, <3>1, <3>2 DEF Send
    <2>2. ASSUME NEW c \in Channels, NEW r \in Receivers, Receive(c, r) PROVE TypeOK'
        <3>1. CASE TakeHead(c) /\ UNCHANGED <<getters, ready>>
            BY <2>2, <3>1, TakeHeadTypes DEF Receive, TypeOK
        <3>2. CASE /\ getters' = [getters EXCEPT ![c] = @ \cup {r}]
                   /\ UNCHANGED <<queue, ready, history>>
            BY <2>2, <3>2 DEF Receive, TypeOK, history
        <3>3. QED
            BY <2>2, <3>1, <3>2 DEF Receive
    <2>3. ASSUME NEW c \in Channels, NEW r \in Receivers, Resume(c, r) PROVE TypeOK'
        <3>1. CASE ResumeMessage(c, r)
            BY <3>1, TakeHeadTypes DEF ResumeMessage, TypeOK
        <3>2. CASE ResumeEmpty(c, r)
            BY <3>2 DEF ResumeEmpty, TypeOK, history
        <3>3. CASE ResumeClosed(c, r)
            BY <3>3 DEF ResumeClosed, TypeOK, history
        <3>4. QED
            BY <2>3, <3>1, <3>2, <3>3 DEF Resume
    <2>4. ASSUME NEW c \in Channels, NEW r \in Receivers, Abandon(c, r) PROVE TypeOK'
        <3>1. CASE r \in ready[c] /\ GiveUp(c, r)
            BY <2>4, <3>1, GiveUpMoves DEF Abandon, TypeOK, history
        <3>2. CASE /\ getters' = [getters EXCEPT ![c] = @ \ {r}]
                   /\ UNCHANGED ready
            BY <2>4, <3>2 DEF Abandon, TypeOK, history
        <3>3. QED
            BY <2>4, <3>1, <3>2 DEF Abandon
    <2>5. ASSUME NEW c \in Channels, NewChannel(c) PROVE TypeOK'
        BY <2>5 DEF NewChannel, TypeOK, history
    <2>6. ASSUME NEW g \in Groups, NEW c \in Channels, GroupAdd(g, c) PROVE TypeOK'
        BY <2>6 DEF GroupAdd, TypeOK, history
    <2>7. ASSUME NEW g \in Groups, NEW c \in Channels, GroupDiscard(g, c) PROVE TypeOK'
        BY <2>7 DEF GroupDiscard, TypeOK, history
    <2>8. ASSUME NEW g \in Groups, NEW m \in Messages, GroupSend(g, m) PROVE TypeOK'
        <3>1. PICK reached \in Reached(g) : Put(reached, m)
            BY <2>8 DEF GroupSend
        <3>2. QED
            BY <2>8, <3>1, PutTypes DEF GroupSend, TypeOK
    <2>9. CASE Close
        <3>1. WakeupNext(Wakes)
            BY <2>9 DEF Close
        <3>2. QED
            BY <2>9, <3>1, WakeupNextMoves DEF Close, Wakes, TypeOK, history
    <2>10. CASE UNCHANGED vars
        BY <2>10 DEF vars, TypeOK
    <2>11. QED
        BY <2>1, <2>2, <2>3, <2>4, <2>5, <2>6, <2>7, <2>8, <2>9, <2>10 DEF Next
<1>3. QED
    BY <1>1, <1>2, PTL DEF Spec

-----------------------------------------------------------------------------
(* No message is lost, duplicated or reordered.                            *)

(* Append(s \o t, x) = s \o Append(t, x), stated with two relations: the   *)
(* SMT backend rewrites Append and \o, and so does not recognise them when *)
(* it instantiates a lemma.                                                *)
IsConcat(u, s, t) == u = s \o t
IsAppend(v, t, x) ==
    /\ Len(v) = Len(t) + 1
    /\ \A i \in 1 .. Len(t) : v[i] = t[i]
    /\ v[Len(t) + 1] = x

LEMMA AppendToConcat ==
    ASSUME NEW S, NEW s \in Seq(S), NEW t \in Seq(S), NEW x \in S,
           NEW v \in Seq(S), IsAppend(v, t, x),
           NEW u \in Seq(S), IsConcat(u, s, t),
           NEW w \in Seq(S), IsAppend(w, u, x)
    PROVE  IsConcat(w, s, v)
<1>0. u = s \o t
    BY DEF IsConcat
<1>1. /\ s \o v \in Seq(S)
      /\ Len(s) \in Nat /\ Len(t) \in Nat
      /\ Len(u) = Len(s) + Len(t)
      /\ Len(s \o v) = Len(s) + Len(t) + 1
      /\ Len(w) = Len(s) + Len(t) + 1
    <2>1. Len(u) = Len(s) + Len(t)
        BY <1>0, ConcatProperties
    <2>2. s \o v \in Seq(S) /\ Len(s \o v) = Len(s) + Len(v)
        BY ConcatProperties
    <2>3. Len(s) \in Nat /\ Len(t) \in Nat
        OBVIOUS
    <2>4. QED
        BY <2>1, <2>2, <2>3 DEF IsAppend
<1>2. ASSUME NEW i \in 1 .. Len(w) PROVE w[i] = (s \o v)[i]
    <2>1. (s \o v)[i] = IF i <= Len(s) THEN s[i] ELSE v[i - Len(s)]
        BY <1>1, ConcatProperties DEF IsAppend
    <2>2. CASE i <= Len(s) + Len(t)
        <3>1. w[i] = u[i]
            <4>1. i \in 1 .. Len(u)
                BY <1>1, <2>2
            <4>2. QED
                BY <4>1 DEF IsAppend
        <3>2. u[i] = IF i <= Len(s) THEN s[i] ELSE t[i - Len(s)]
            <4>1. i \in 1 .. Len(s) + Len(t)
                BY <1>1, <2>2
            <4>2. QED
                BY <1>0, <4>1, ConcatProperties
        <3>3. i > Len(s) => v[i - Len(s)] = t[i - Len(s)]
            <4>1. i > Len(s) => i - Len(s) \in 1 .. Len(t)
                BY <1>1, <2>2
            <4>2. QED
                BY <4>1 DEF IsAppend
        <3>4. QED
            BY <1>1, <2>1, <3>1, <3>2, <3>3
    <2>3. CASE i = Len(s) + Len(t) + 1
        <3>1. w[i] = x /\ v[i - Len(s)] = x
            BY <1>1, <2>3 DEF IsAppend
        <3>2. QED
            BY <1>1, <2>1, <2>3, <3>1
    <2>4. QED
        BY <1>1, <2>2, <2>3
<1>3. QED
    BY <1>1, <1>2, SeqEqual DEF IsConcat

LEMMA ConcatHeadTail ==
    ASSUME NEW S, NEW s \in Seq(S), NEW t \in Seq(S), t # <<>>
    PROVE  Append(s, Head(t)) \o Tail(t) = s \o t
<1>1. Head(t) \in S /\ Tail(t) \in Seq(S) /\ Len(t) \in Nat \ {0}
    BY HeadTailProperties, EmptySeq
<1>2. Append(s, Head(t)) \in Seq(S) /\ Len(Append(s, Head(t))) = Len(s) + 1
    BY <1>1
<1>3. /\ Append(s, Head(t)) \o Tail(t) \in Seq(S)
      /\ s \o t \in Seq(S)
    BY <1>1, <1>2, ConcatProperties
<1>4. Len(Append(s, Head(t)) \o Tail(t)) = Len(s \o t)
    BY <1>1, <1>2, ConcatProperties, HeadTailProperties
<1>5. \A i \in 1 .. Len(s \o t) :
          (Append(s, Head(t)) \o Tail(t))[i] = (s \o t)[i]
    <2> TAKE i \in 1 .. Len(s \o t)
    <2>1. i \in 1 .. Len(s) + Len(t) /\ i \in 1 .. (Len(s) + 1) + Len(Tail(t))
        BY <1>1, <1>2, <1>3, <1>4, ConcatProperties, HeadTailProperties
    <2>2. (s \o t)[i] = IF i <= Len(s) THEN s[i] ELSE t[i - Len(s)]
        BY <2>1, ConcatProperties
    <2>3. (Append(s, Head(t)) \o Tail(t))[i] =
              IF i <= Len(s) + 1 THEN Append(s, Head(t))[i]
                                 ELSE Tail(t)[i - (Len(s) + 1)]
        BY <1>1, <1>2, <2>1, ConcatProperties
    <2>4. CASE i <= Len(s)
        BY <1>1, <2>1, <2>2, <2>3, <2>4
    <2>5. CASE i = Len(s) + 1
        BY <1>1, <2>1, <2>2, <2>3, <2>5
    <2>6. CASE i > Len(s) + 1
        <3>1. i - (Len(s) + 1) \in 1 .. Len(Tail(t))
            BY <1>1, <2>1, <2>6
        <3>2. Tail(t)[i - (Len(s) + 1)] = t[(i - (Len(s) + 1)) + 1]
            BY <3>1, HeadTailProperties
        <3>3. (i - (Len(s) + 1)) + 1 = i - Len(s)
            BY <2>1
        <3>4. QED
            BY <2>1, <2>2, <2>3, <2>6, <3>2, <3>3
    <2>7. QED
        BY <2>1, <2>4, <2>5, <2>6
<1>6. QED
    BY <1>3, <1>4, <1>5, SeqEqual

LEMMA PutAccounts ==
    ASSUME TypeOK, Accounting, NEW cs, NEW m \in Messages, Put(cs, m)
    PROVE  Accounting'
<1> SUFFICES ASSUME NEW c \in Channels PROVE log'[c] = got'[c] \o queue'[c]
    BY DEF Accounting
<1>1. /\ queue[c] \in Seq(Messages) /\ got[c] \in Seq(Messages)
      /\ log[c] \in Seq(Messages) /\ got' = got
    BY DEF Put, TypeOK
<1>2. CASE c \in cs
    <2>1. queue'[c] = Append(queue[c], m) /\ log'[c] = Append(log[c], m)
        BY <1>2 DEF Put
    <2>2. queue'[c] \in Seq(Messages) /\ log'[c] \in Seq(Messages)
        BY <1>1, <2>1
    <2>3. IsAppend(queue'[c], queue[c], m)
        BY <1>1, <2>1 DEF IsAppend
    <2>4. IsAppend(log'[c], log[c], m)
        BY <1>1, <2>1 DEF IsAppend
    <2>5. IsConcat(log[c], got[c], queue[c])
        BY DEF Accounting, IsConcat
    <2>6. IsConcat(log'[c], got[c], queue'[c])
        BY <1>1, <2>2, <2>3, <2>4, <2>5, AppendToConcat
    <2>7. QED
        BY <1>1, <2>6 DEF IsConcat
<1>3. CASE c \notin cs
    BY <1>1, <1>3 DEF Put, Accounting
<1>4. QED
    BY <1>2, <1>3

LEMMA TakeHeadAccounts ==
    ASSUME TypeOK, Accounting, NEW c \in Channels, TakeHead(c)
    PROVE  Accounting'
<1> SUFFICES ASSUME NEW d \in Channels PROVE log'[d] = got'[d] \o queue'[d]
    BY DEF Accounting
<1>1. /\ queue \in [Channels -> Seq(Messages)]
      /\ got \in [Channels -> Seq(Messages)]
    BY DEF TypeOK
<1>2. Append(got[c], Head(queue[c])) \o Tail(queue[c]) = got[c] \o queue[c]
    BY <1>1, ConcatHeadTail DEF TakeHead
<1>3. CASE d = c
    BY <1>1, <1>2, <1>3 DEF TakeHead, Accounting
<1>4. CASE d # c
    BY <1>1, <1>4 DEF TakeHead, Accounting
<1>5. QED
    BY <1>3, <1>4

(* Accounting: what receive has returned on a channel, followed by what is *)
(* still queued there, is always what was put into it, in that order.      *)
THEOREM NothingLost == Spec => []Accounting
<1>1. Init => Accounting
    BY ConcatEmptySeq, EmptySeq DEF Init, Accounting
<1>2. TypeOK /\ Accounting /\ [Next]_vars => Accounting'
    <2> SUFFICES ASSUME TypeOK, Accounting, [Next]_vars PROVE Accounting'
        OBVIOUS
    <2>1. ASSUME UNCHANGED <<queue, history>> PROVE Accounting'
        BY <2>1 DEF Accounting, history
    <2>2. ASSUME NEW c \in Channels, NEW m \in Messages, Send(c, m) PROVE Accounting'
        BY <2>1, <2>2, PutAccounts DEF Send, history
    <2>3. ASSUME NEW c \in Channels, NEW r \in Receivers, Receive(c, r) PROVE Accounting'
        BY <2>1, <2>3, TakeHeadAccounts DEF Receive, history
    <2>4. ASSUME NEW c \in Channels, NEW r \in Receivers, Resume(c, r) PROVE Accounting'
        BY <2>1, <2>4, TakeHeadAccounts
        DEF Resume, ResumeMessage, ResumeEmpty, ResumeClosed, history
    <2>5. ASSUME NEW g \in Groups, NEW m \in Messages, GroupSend(g, m) PROVE Accounting'
        BY <2>5, PutAccounts DEF GroupSend
    <2>6. ASSUME NEW c \in Channels, NEW r \in Receivers, Abandon(c, r) PROVE Accounting'
        BY <2>1, <2>6 DEF Abandon, history
    <2>7. ASSUME NEW c \in Channels, NewChannel(c) PROVE Accounting'
        BY <2>1, <2>7 DEF NewChannel, history
    <2>8. ASSUME NEW g \in Groups, NEW c \in Channels,
                 GroupAdd(g, c) \/ GroupDiscard(g, c)
          PROVE  Accounting'
        BY <2>1, <2>8 DEF GroupAdd, GroupDiscard, history
    <2>9. CASE Close
        BY <2>1, <2>9 DEF Close, history
    <2>10. CASE UNCHANGED vars
        BY <2>1, <2>10 DEF vars, history
    <2>11. QED
        BY <2>2, <2>3, <2>4, <2>5, <2>6, <2>7, <2>8, <2>9, <2>10 DEF Next
<1>3. QED
    BY <1>1, <1>2, TypeCorrect, PTL DEF Spec

-----------------------------------------------------------------------------
(* No lost wake-up, and a close that wakes.                                *)

(* A task waits once, and either sleeps or is on its way to the queue.     *)
Apart == \A c \in Channels : getters[c] \cap ready[c] = {}

(* A channel that is not shared has one waiting task at most, and once     *)
(* woken that task finds something: nobody else can have taken it.         *)
Sole ==
    \A c \in Channels \ Shared : \A r, s \in Waiting(c) : r = s
SoleFinds ==
    \A c \in Channels \ Shared : ready[c] # {} => Size(c) > 0

(* close() reaches the queue of every task that waits, and no sentinel is  *)
(* put before it.                                                          *)
Registered == ~closed => \A c \in Channels : Waiting(c) # {} => c \in channels
SentinelLast == ~closed => sentinel = {}

(* The inductive invariant behind NoLostWakeup and CloseWakes.             *)
WakeInv ==
    /\ Apart
    /\ Sole
    /\ SoleFinds
    /\ Registered
    /\ SentinelLast
    /\ NoLostWakeup
    /\ CloseWakes

LEMMA SizeType ==
    ASSUME TypeOK, NEW c \in Channels
    PROVE  Size(c) \in Nat
BY DEF Size, TypeOK

LEMMA ReadyFinite ==
    ASSUME TypeOK, NEW c \in Channels
    PROVE  IsFiniteSet(ready[c]) /\ Cardinality(ready[c]) \in Nat
<1>1. ready[c] \subseteq Receivers
    BY DEF TypeOK
<1>2. QED
    BY <1>1, FiniteReceivers, FS_Subset, FS_CardinalityType

(* A put, or a close, on the queues `cs`: each grows by one item and wakes *)
(* one sleeping task if it has any, so a queue that has a woken task for   *)
(* every item still has.                                                   *)
LEMMA WakeupKeepsUp ==
    ASSUME TypeOK, Apart, NoLostWakeup, Sole, NEW cs, WakeupNext(cs),
           NEW n \in [Channels -> Nat],
           \A c \in Channels : c \in cs => n[c] <= Size(c) + 1,
           \A c \in Channels : c \notin cs => n[c] = Size(c)
    PROVE  /\ \A c \in Channels : getters'[c] \cap ready'[c] = {}
           /\ \A c \in Channels :
                 getters'[c] # {} => Cardinality(ready'[c]) >= n[c]
           /\ \A c \in Channels : getters'[c] \cup ready'[c] = Waiting(c)
           /\ \A c \in Channels \ Shared : c \in cs => getters'[c] = {}
           /\ \A c \in Channels : c \notin cs =>
                 getters'[c] = getters[c] /\ ready'[c] = ready[c]
<1> SUFFICES ASSUME NEW c \in Channels
             PROVE  /\ getters'[c] \cap ready'[c] = {}
                    /\ getters'[c] # {} => Cardinality(ready'[c]) >= n[c]
                    /\ getters'[c] \cup ready'[c] = Waiting(c)
                    /\ c \notin Shared /\ c \in cs => getters'[c] = {}
                    /\ c \notin cs =>
                          getters'[c] = getters[c] /\ ready'[c] = ready[c]
    OBVIOUS
<1>1. /\ getters[c] \cap ready[c] = {}
      /\ getters[c] # {} => Cardinality(ready[c]) >= Size(c)
      /\ c \notin Shared => \A r, s \in Waiting(c) : r = s
      /\ Size(c) \in Nat /\ n[c] \in Nat
      /\ Cardinality(ready[c]) \in Nat /\ IsFiniteSet(ready[c])
    BY SizeType, ReadyFinite DEF Apart, NoLostWakeup, Sole
<1>2. CASE /\ getters'[c] = getters[c]
           /\ ready'[c] = ready[c]
           /\ c \in cs => getters[c] = {}
    BY <1>1, <1>2 DEF Waiting
<1>3. CASE /\ c \in cs
           /\ \E r \in getters[c] :
                 /\ getters'[c] = getters[c] \ {r}
                 /\ ready'[c] = ready[c] \cup {r}
    <2>1. PICK r \in getters[c] : /\ getters'[c] = getters[c] \ {r}
                                  /\ ready'[c] = ready[c] \cup {r}
        BY <1>3
    <2>2. Cardinality(ready'[c]) = Cardinality(ready[c]) + 1
        <3>1. r \notin ready[c]
            BY <1>1, <2>1
        <3>2. QED
            BY <1>1, <2>1, <3>1, FS_AddElement
    <2>3. n[c] <= Size(c) + 1
        BY <1>3
    <2>4. getters'[c] \cap ready'[c] = {} /\ getters'[c] \cup ready'[c] = Waiting(c)
        BY <1>1, <2>1 DEF Waiting
    <2>5. c \notin Shared => getters'[c] = {}
        BY <1>1, <2>1 DEF Waiting
    <2>6. QED
        BY <1>1, <1>3, <2>1, <2>2, <2>3, <2>4, <2>5
<1>4. QED
    BY <1>2, <1>3, WakeupNextMoves

LEMMA PutWakes ==
    ASSUME TypeOK, WakeInv, ~closed, NEW cs, NEW m \in Messages, Put(cs, m),
           UNCHANGED <<closed, sentinel>>, channels \subseteq channels'
    PROVE  WakeInv'
<1> DEFINE n == [c \in Channels |-> IF c \in cs THEN Size(c) + 1 ELSE Size(c)]
<1>1. /\ WakeupNext(cs) /\ ~closed' /\ sentinel' = {}
      /\ queue \in [Channels -> Seq(Messages)]
    BY DEF Put, WakeInv, SentinelLast, TypeOK
<1>2. n \in [Channels -> Nat]
    BY SizeType
<1>3. \A c \in Channels : Size(c)' = n[c]
    BY <1>1 DEF Size, Put
<1>4. /\ \A c \in Channels : getters'[c] \cap ready'[c] = {}
      /\ \A c \in Channels : getters'[c] # {} => Cardinality(ready'[c]) >= n[c]
      /\ \A c \in Channels : getters'[c] \cup ready'[c] = Waiting(c)
      /\ \A c \in Channels \ Shared : c \in cs => getters'[c] = {}
      /\ \A c \in Channels : c \notin cs =>
            getters'[c] = getters[c] /\ ready'[c] = ready[c]
    <2> HIDE DEF n
    <2>1. /\ \A c \in Channels : c \in cs => n[c] <= Size(c) + 1
          /\ \A c \in Channels : c \notin cs => n[c] = Size(c)
        BY SizeType DEF n
    <2>2. Apart /\ NoLostWakeup /\ Sole
        BY DEF WakeInv
    <2>3. QED
        BY <1>1, <1>2, <2>1, <2>2, WakeupKeepsUp
<1>5. Apart' /\ NoLostWakeup'
    BY <1>3, <1>4 DEF Apart, NoLostWakeup
<1>6. Sole' /\ Registered'
    BY <1>1, <1>4 DEF Sole, Registered, Waiting, WakeInv
<1>7. SoleFinds'
    <2> SUFFICES ASSUME NEW c \in Channels \ Shared, ready'[c] # {}
                 PROVE  n[c] > 0
        BY <1>3 DEF SoleFinds
    <2>1. CASE c \in cs
        BY <2>1, SizeType
    <2>2. CASE c \notin cs
        BY <1>4, <2>2 DEF WakeInv, SoleFinds
    <2>3. QED
        BY <2>1, <2>2
<1>8. SentinelLast' /\ CloseWakes'
    BY <1>1 DEF SentinelLast, CloseWakes
<1>9. QED
    BY <1>5, <1>6, <1>7, <1>8 DEF WakeInv

(* Steps that leave the queues and the waiting tasks alone.                *)
LEMMA QuietWakes ==
    ASSUME TypeOK, WakeInv, UNCHANGED <<closed, queue, sentinel, getters, ready>>,
           channels \subseteq channels'
    PROVE  WakeInv'
BY DEF WakeInv, Apart, Sole, SoleFinds, Registered, SentinelLast, NoLostWakeup,
       CloseWakes, Waiting, Size

LEMMA ReceiveWakes ==
    ASSUME TypeOK, WakeInv, NEW c \in Channels, NEW r \in Receivers, Receive(c, r)
    PROVE  WakeInv'
<1>1. /\ ~closed /\ ~closed' /\ sentinel = {} /\ sentinel' = {}
      /\ channels' = channels \cup {c}
      /\ \A d \in Channels : r \notin Waiting(d)
      /\ c \in Shared \/ Waiting(c) = {}
      /\ \A d \in Channels : Size(d) \in Nat /\ Cardinality(ready[d]) \in Nat
    BY SizeType, ReadyFinite DEF Receive, WakeInv, SentinelLast
<1>2. CASE TakeHead(c) /\ UNCHANGED <<getters, ready>>
    <2>1. \A d \in Channels : Size(d)' <= Size(d) /\ Size(d)' \in Nat
        <3>1. TypeOK /\ TakeHead(c) => \A d \in Channels : Len(queue'[d]) \in Nat
                                                     /\ Len(queue'[d]) <= Len(queue[d])
            BY TakeHeadTypes, HeadTailProperties DEF TakeHead, TypeOK
        <3>2. QED
            BY <1>1, <1>2, <3>1 DEF Size, TypeOK
    <2>2. \A d \in Channels : d # c => Size(d)' = Size(d)
        BY <1>1, <1>2 DEF TakeHead, Size, TypeOK
    <2>3. NoLostWakeup'
        BY <1>1, <1>2, <2>1 DEF WakeInv, NoLostWakeup
    <2>4. SoleFinds'
        BY <1>1, <1>2, <2>2 DEF WakeInv, SoleFinds, Waiting
    <2>5. Apart' /\ Sole' /\ Registered' /\ SentinelLast' /\ CloseWakes'
        BY <1>1, <1>2 DEF WakeInv, Apart, Sole, Registered, SentinelLast, CloseWakes,
                          Waiting
    <2>6. QED
        BY <2>3, <2>4, <2>5 DEF WakeInv
<1>3. CASE /\ queue[c] = <<>>
           /\ getters' = [getters EXCEPT ![c] = @ \cup {r}]
           /\ UNCHANGED <<queue, ready, history>>
    <2>1. /\ getters \in [Channels -> SUBSET Receivers]
          /\ Size(c) = 0 /\ \A d \in Channels : Size(d)' = Size(d)
        BY <1>1, <1>3 DEF Size, TypeOK
    <2>2. Apart' /\ Registered'
        BY <1>1, <1>3, <2>1 DEF WakeInv, Apart, Registered, Waiting
    <2>3. NoLostWakeup' /\ SoleFinds'
        BY <1>1, <1>3, <2>1 DEF WakeInv, NoLostWakeup, SoleFinds
    <2>4. Sole'
        BY <1>1, <1>3, <2>1 DEF WakeInv, Sole, Waiting
    <2>5. QED
        BY <1>1, <2>2, <2>3, <2>4 DEF WakeInv, SentinelLast, CloseWakes
<1>4. QED
    BY <1>2, <1>3 DEF Receive

LEMMA ResumeWakes ==
    ASSUME TypeOK, WakeInv, NEW c \in Channels, NEW r \in Receivers, Resume(c, r)
    PROVE  WakeInv'
<1>1. /\ r \in ready[c] /\ closed' = closed /\ channels' = channels
      /\ ready' = [ready EXCEPT ![c] = @ \ {r}]
      /\ ready \in [Channels -> SUBSET Receivers]
      /\ getters \in [Channels -> SUBSET Receivers]
      /\ \A d \in Channels : Size(d) \in Nat /\ Cardinality(ready[d]) \in Nat
      /\ IsFiniteSet(ready[c])
    BY SizeType, ReadyFinite
    DEF Resume, ResumeMessage, ResumeEmpty, ResumeClosed, TypeOK
<1>2. /\ Cardinality(ready'[c]) = Cardinality(ready[c]) - 1
      /\ Cardinality(ready'[c]) \in Nat
    BY <1>1, FS_RemoveElement, FS_CardinalityType
<1>3. c \notin Shared => ready'[c] = {}
    BY <1>1 DEF WakeInv, Sole, Waiting
<1>4. CASE ResumeEmpty(c, r)
    <2>a. /\ getters' = [getters EXCEPT ![c] = @ \cup {r}]
          /\ sentinel' = sentinel /\ queue' = queue /\ Size(c) = 0
        BY <1>4 DEF ResumeEmpty
    <2>b. c \in Shared
        BY <1>1, <2>a DEF WakeInv, SoleFinds
    <2>c. \A d \in Channels : Size(d)' = Size(d)
        BY <2>a DEF Size
    <2>1. /\ getters' = [getters EXCEPT ![c] = @ \cup {r}]
          /\ Size(c) = 0 /\ c \in Shared
          /\ \A d \in Channels : Size(d)' = Size(d)
          /\ sentinel' = sentinel
        BY <2>a, <2>b, <2>c
    <2>2. Apart' /\ Registered' /\ Sole' /\ SoleFinds' /\ SentinelLast' /\ CloseWakes'
        BY <1>1, <2>1 DEF WakeInv, Apart, Registered, Sole, SoleFinds, SentinelLast,
                          CloseWakes, Waiting
    <2>3. NoLostWakeup'
        BY <1>1, <1>2, <2>1 DEF WakeInv, NoLostWakeup
    <2>4. QED
        BY <2>2, <2>3 DEF WakeInv
<1>5. CASE ResumeMessage(c, r) \/ ResumeClosed(c, r)
    <2>1. /\ getters' = getters
          /\ sentinel' \subseteq sentinel
          /\ \A d \in Channels : d # c => Size(d)' = Size(d)
        BY <1>5 DEF ResumeMessage, ResumeClosed, TakeHead, Size, TypeOK
    <2>2. Size(c)' = Size(c) - 1
        <3>1. CASE ResumeMessage(c, r)
            <4>1. queue[c] \in Seq(Messages) /\ queue[c] # <<>>
                  /\ queue'[c] = Tail(queue[c])
                BY <3>1 DEF ResumeMessage, TakeHead, TypeOK
            <4>2. Len(queue'[c]) = Len(queue[c]) - 1 /\ Len(queue[c]) \in Nat
                BY <4>1, HeadTailProperties
            <4>3. sentinel' = sentinel
                BY <3>1 DEF ResumeMessage
            <4>4. QED
                BY <4>2, <4>3 DEF Size
        <3>2. CASE ResumeClosed(c, r)
            BY <3>2 DEF ResumeClosed, Size, TypeOK
        <3>3. QED
            BY <1>5, <3>1, <3>2
    <2>3. NoLostWakeup'
        BY <1>1, <1>2, <2>1, <2>2 DEF WakeInv, NoLostWakeup
    <2>4. SoleFinds'
        BY <1>1, <1>3, <2>1 DEF WakeInv, SoleFinds
    <2>5. Apart' /\ Registered' /\ Sole' /\ SentinelLast' /\ CloseWakes'
        BY <1>1, <2>1 DEF WakeInv, Apart, Registered, Sole, SentinelLast, CloseWakes,
                          Waiting
    <2>6. QED
        BY <2>3, <2>4, <2>5 DEF WakeInv
<1>6. QED
    BY <1>4, <1>5 DEF Resume

LEMMA AbandonWakes ==
    ASSUME TypeOK, WakeInv, NEW c \in Channels, NEW r \in Receivers, Abandon(c, r)
    PROVE  WakeInv'
<1>1. /\ closed' = closed /\ channels' = channels /\ sentinel' = sentinel
      /\ ready \in [Channels -> SUBSET Receivers]
      /\ getters \in [Channels -> SUBSET Receivers]
      /\ \A d \in Channels : Size(d) \in Nat /\ Cardinality(ready[d]) \in Nat
      /\ \A d \in Channels : Size(d)' = Size(d)
      /\ IsFiniteSet(ready[c])
    BY SizeType, ReadyFinite DEF Abandon, Size, TypeOK
<1>2. CASE /\ r \in getters[c]
           /\ getters' = [getters EXCEPT ![c] = @ \ {r}]
           /\ UNCHANGED ready
    BY <1>1, <1>2 DEF WakeInv, Apart, Sole, SoleFinds, Registered, SentinelLast,
                      NoLostWakeup, CloseWakes, Waiting
<1>3. CASE r \in ready[c] /\ GiveUp(c, r)
    <2>1. /\ getters' \in [Channels -> SUBSET Receivers]
          /\ ready' \in [Channels -> SUBSET Receivers]
          /\ \A d \in Channels \ {c} : getters'[d] = getters[d] /\ ready'[d] = ready[d]
          /\ \/ /\ getters'[c] = getters[c]
                /\ ready'[c] = ready[c] \ {r}
                /\ Size(c) > 0 => getters[c] = {}
             \/ /\ Size(c) > 0
                /\ \E x \in getters[c] :
                      /\ getters'[c] = getters[c] \ {x}
                      /\ ready'[c] = (ready[c] \ {r}) \cup {x}
        BY <1>3, GiveUpMoves
    <2>2. /\ Waiting(c)' \subseteq Waiting(c)
          /\ getters'[c] \subseteq getters[c]
          /\ getters'[c] \cap ready'[c] = {}
        BY <2>1 DEF Waiting, WakeInv, Apart
    <2>3. getters'[c] # {} => Cardinality(ready'[c]) >= Size(c)
        <3>1. IsFiniteSet(ready[c] \ {r})
              /\ Cardinality(ready[c] \ {r}) = Cardinality(ready[c]) - 1
            BY <1>1, <1>3, FS_RemoveElement
        <3>2. CASE /\ getters'[c] = getters[c]
                   /\ ready'[c] = ready[c] \ {r}
                   /\ Size(c) > 0 => getters[c] = {}
            <4>1. Cardinality(ready'[c]) \in Nat
                BY <3>1, <3>2, FS_CardinalityType
            <4>2. QED
                BY <1>1, <3>2, <4>1
        <3>3. CASE /\ Size(c) > 0
                   /\ \E x \in getters[c] :
                         /\ getters'[c] = getters[c] \ {x}
                         /\ ready'[c] = (ready[c] \ {r}) \cup {x}
            <4>1. PICK x \in getters[c] : /\ getters'[c] = getters[c] \ {x}
                                          /\ ready'[c] = (ready[c] \ {r}) \cup {x}
                BY <3>3
            <4>2. x \notin ready[c] \ {r}
                BY <4>1 DEF WakeInv, Apart
            <4>3. Cardinality(ready'[c]) = Cardinality(ready[c])
                <5>1. Cardinality((ready[c] \ {r}) \cup {x})
                          = Cardinality(ready[c] \ {r}) + 1
                    BY <3>1, <4>2, FS_AddElement
                <5>2. QED
                    BY <1>1, <3>1, <4>1, <5>1
            <4>4. QED
                BY <1>1, <4>1, <4>3 DEF WakeInv, NoLostWakeup
        <3>4. QED
            BY <2>1, <3>2, <3>3
    <2>4. NoLostWakeup' /\ Apart'
        BY <1>1, <2>1, <2>2, <2>3 DEF NoLostWakeup, Apart, WakeInv
    <2>5. Sole' /\ Registered' /\ CloseWakes' /\ SentinelLast'
        BY <1>1, <2>1, <2>2 DEF Sole, Registered, CloseWakes, SentinelLast, WakeInv,
                                Waiting
    <2>6. SoleFinds'
        BY <1>1, <1>3, <2>1 DEF SoleFinds, WakeInv
    <2>7. QED
        BY <2>4, <2>5, <2>6 DEF WakeInv
<1>4. QED
    BY <1>2, <1>3 DEF Abandon

LEMMA CloseStepWakes ==
    ASSUME TypeOK, WakeInv, Close
    PROVE  WakeInv'
<1> DEFINE n == [c \in Channels |-> IF c \in Wakes THEN Size(c) + 1 ELSE Size(c)]
<1>1. /\ ~closed /\ closed' = TRUE /\ sentinel = {} /\ sentinel' = Wakes
      /\ queue' = queue /\ WakeupNext(Wakes)
    BY DEF Close, WakeInv, SentinelLast
<1>2. n \in [Channels -> Nat]
    BY SizeType
<1>3. \A c \in Channels : Size(c)' = n[c]
    BY <1>1 DEF Size, TypeOK
<1>4. /\ \A c \in Channels : getters'[c] \cap ready'[c] = {}
      /\ \A c \in Channels : getters'[c] # {} => Cardinality(ready'[c]) >= n[c]
      /\ \A c \in Channels : getters'[c] \cup ready'[c] = Waiting(c)
      /\ \A c \in Channels \ Shared : c \in Wakes => getters'[c] = {}
      /\ \A c \in Channels : c \notin Wakes =>
            getters'[c] = getters[c] /\ ready'[c] = ready[c]
    <2> HIDE DEF n
    <2>1. /\ \A c \in Channels : c \in Wakes => n[c] <= Size(c) + 1
          /\ \A c \in Channels : c \notin Wakes => n[c] = Size(c)
        BY SizeType DEF n
    <2>2. Apart /\ NoLostWakeup /\ Sole
        BY DEF WakeInv
    <2>3. QED
        BY <1>1, <1>2, <2>1, <2>2, WakeupKeepsUp
<1>5. Apart' /\ NoLostWakeup'
    BY <1>3, <1>4 DEF Apart, NoLostWakeup
<1>6. Sole' /\ Registered' /\ SentinelLast'
    BY <1>1, <1>4 DEF Sole, Registered, SentinelLast, Waiting, WakeInv
<1>7. SoleFinds'
    <2> SUFFICES ASSUME NEW c \in Channels \ Shared, ready'[c] # {}
                 PROVE  n[c] > 0
        BY <1>3 DEF SoleFinds
    <2>1. CASE c \in Wakes
        BY <2>1, SizeType
    <2>2. CASE c \notin Wakes
        BY <1>4, <2>2 DEF WakeInv, SoleFinds
    <2>3. QED
        BY <2>1, <2>2
<1>8. CloseWakes'
    <2> SUFFICES ASSUME NEW c \in Channels \ Shared, getters'[c] # {}
                 PROVE  FALSE
        BY DEF CloseWakes
    <2>1. c \notin Wakes
        BY <1>4
    <2>2. c \in channels /\ getters[c] # {} /\ getters'[c] = getters[c]
        BY <1>1, <1>4, <2>1 DEF WakeInv, Registered, Waiting
    <2>3. ready[c] = {}
        BY <2>2 DEF WakeInv, Sole, Apart, Waiting
    <2>4. Size(c) = 0
        BY <2>2, <2>3, FS_EmptySet, SizeType DEF WakeInv, NoLostWakeup
    <2>5. QED
        BY <2>1, <2>2, <2>4 DEF Wakes, Full, TypeOK
<1>9. QED
    BY <1>5, <1>6, <1>7, <1>8 DEF WakeInv

(* The inductive invariant holds in every reachable state.                 *)
THEOREM WakeInvariant == Spec => []WakeInv
<1>1. Init => WakeInv
    BY FS_EmptySet DEF Init, WakeInv, Apart, Sole, SoleFinds, Registered, SentinelLast,
       NoLostWakeup, CloseWakes, Waiting
<1>2. TypeOK /\ WakeInv /\ [Next]_vars => WakeInv'
    <2> SUFFICES ASSUME TypeOK, WakeInv, [Next]_vars PROVE WakeInv'
        OBVIOUS
    <2>1. ASSUME NEW c \in Channels, NEW m \in Messages, Send(c, m) PROVE WakeInv'
        BY <2>1, PutWakes, QuietWakes DEF Send
    <2>2. ASSUME NEW g \in Groups, NEW m \in Messages, GroupSend(g, m) PROVE WakeInv'
        BY <2>2, PutWakes DEF GroupSend
    <2>3. ASSUME NEW c \in Channels, NEW r \in Receivers,
                 Receive(c, r) \/ Resume(c, r) \/ Abandon(c, r)
          PROVE  WakeInv'
        BY <2>3, ReceiveWakes, ResumeWakes, AbandonWakes
    <2>4. ASSUME NEW c \in Channels, NewChannel(c) PROVE WakeInv'
        BY <2>4, QuietWakes DEF NewChannel
    <2>5. ASSUME NEW g \in Groups, NEW c \in Channels,
                 GroupAdd(g, c) \/ GroupDiscard(g, c)
          PROVE  WakeInv'
        BY <2>5, QuietWakes DEF GroupAdd, GroupDiscard
    <2>6. CASE Close
        BY <2>6, CloseStepWakes
    <2>7. CASE UNCHANGED vars
        BY <2>7, QuietWakes DEF vars
    <2>8. QED
        BY <2>1, <2>2, <2>3, <2>4, <2>5, <2>6, <2>7 DEF Next
<1>3. QED
    BY <1>1, <1>2, TypeCorrect, PTL DEF Spec

(* No receive sleeps beside an item that no woken task is on the way to.   *)
THEOREM NoLostWakeupCorrect == Spec => []NoLostWakeup
<1>1. WakeInv => NoLostWakeup
    BY DEF WakeInv
<1>2. QED
    BY <1>1, WakeInvariant, PTL

(* Once close() is over, the task that waited alone on a channel has been  *)
(* woken.                                                                  *)
THEOREM CloseWakesCorrect == Spec => []CloseWakes
<1>1. WakeInv => CloseWakes
    BY DEF WakeInv
<1>2. QED
    BY <1>1, WakeInvariant, PTL

-----------------------------------------------------------------------------
(* Capacity.                                                               *)

(* A queue never holds more than its capacity, the sentinel included       *)
(* (inmemory.py 30, 78 and 90 ask full() before each put_nowait).          *)
Bounded == capacity > 0 => \A c \in Channels : Size(c) <= capacity

LEMMA PutBounded ==
    ASSUME TypeOK, SentinelLast, Bounded, ~closed, UNCHANGED <<capacity, sentinel>>,
           NEW cs, NEW m \in Messages, Put(cs, m),
           \A c \in Channels : c \in cs => ~Full(c)
    PROVE  Bounded'
<1> SUFFICES ASSUME capacity > 0, NEW c \in Channels PROVE Size(c)' <= capacity
    BY DEF Bounded
<1>1. Size(c) = Len(queue[c]) /\ Size(c)' = Len(queue'[c])
    <2>1. sentinel = {} /\ sentinel' = {}
        BY DEF SentinelLast
    <2>2. queue[c] \in Seq(Messages) /\ queue'[c] \in Seq(Messages)
        BY PutTypes DEF TypeOK
    <2>3. QED
        BY <2>1, <2>2 DEF Size
<1>2. CASE c \in cs
    <2>1. queue[c] \in Seq(Messages) /\ queue'[c] = Append(queue[c], m)
        BY <1>2 DEF Put, TypeOK
    <2>2. Len(queue'[c]) = Len(queue[c]) + 1
        BY <2>1
    <2>3. QED
        BY <1>1, <1>2, <2>2, SizeType DEF Full, TypeOK
<1>3. CASE c \notin cs
    BY <1>1, <1>3 DEF Put, Bounded, TypeOK
<1>4. QED
    BY <1>2, <1>3

LEMMA TakeHeadBounded ==
    ASSUME TypeOK, Bounded, NEW c \in Channels, TakeHead(c),
           UNCHANGED <<capacity, sentinel>>
    PROVE  Bounded'
<1> SUFFICES ASSUME capacity > 0, NEW d \in Channels PROVE Size(d)' <= capacity
    BY DEF Bounded
<1>1. CASE d = c
    <2>1. queue[c] \in Seq(Messages) /\ queue[c] # <<>> /\ queue'[c] = Tail(queue[c])
        BY DEF TakeHead, TypeOK
    <2>2. Len(Tail(queue[c])) = Len(queue[c]) - 1
        BY <2>1
    <2>3. Size(c)' <= Size(c)
        BY <2>1, <2>2 DEF Size
    <2>4. Size(c)' \in Int
        BY <2>1, <2>2 DEF Size
    <2>5. QED
        BY <1>1, <2>3, <2>4, SizeType DEF Bounded, TypeOK
<1>2. CASE d # c
    BY <1>2 DEF TakeHead, Size, Bounded, TypeOK
<1>3. QED
    BY <1>1, <1>2

LEMMA SendReaches ==
    ASSUME TypeOK, NEW g \in Groups, NEW reached \in Reached(g)
    PROVE  /\ reached \subseteq groups[g]
           /\ \A c \in reached : ~Full(c)
           /\ reached = groups[g] \/ \E c \in groups[g] \ reached : Full(c)
<1>1. CASE \E c \in groups[g] : Full(c)
    <2>1. reached \subseteq {c \in groups[g] : ~Full(c)}
        BY <1>1 DEF Reached
    <2>2. QED
        BY <1>1, <2>1
<1>2. CASE ~\E c \in groups[g] : Full(c)
    BY <1>2 DEF Reached
<1>3. QED
    BY <1>1, <1>2

(* No queue ever exceeds the capacity, though close() adds an item of its  *)
(* own to every queue it can.                                              *)
THEOREM BoundedCorrect == Spec => []Bounded
<1>1. Init => Bounded
    BY IntCapacities DEF Init, Bounded, Size
<1>2. TypeOK /\ WakeInv /\ Bounded /\ [Next]_vars => Bounded'
    <2> SUFFICES ASSUME TypeOK, WakeInv, Bounded, [Next]_vars PROVE Bounded'
        OBVIOUS
    <2>a. ASSUME UNCHANGED <<capacity, queue, sentinel>> PROVE Bounded'
        BY <2>a DEF Bounded, Size
    <2>b. SentinelLast
        BY DEF WakeInv
    <2>1. ASSUME NEW c \in Channels, NEW m \in Messages, Send(c, m) PROVE Bounded'
        BY <2>1, <2>a, <2>b, PutBounded DEF Send
    <2>2. ASSUME NEW g \in Groups, NEW m \in Messages, GroupSend(g, m) PROVE Bounded'
        <3>1. PICK reached \in Reached(g) : Put(reached, m)
            BY <2>2 DEF GroupSend
        <3>2. \A c \in Channels : c \in reached => ~Full(c)
            BY <3>1, SendReaches
        <3>3. ~closed /\ UNCHANGED <<capacity, sentinel>>
            BY <2>2 DEF GroupSend
        <3>4. QED
            BY <2>b, <3>1, <3>2, <3>3, PutBounded
    <2>3. ASSUME NEW c \in Channels, NEW r \in Receivers, Receive(c, r) PROVE Bounded'
        BY <2>3, <2>a, TakeHeadBounded DEF Receive
    <2>4. ASSUME NEW c \in Channels, NEW r \in Receivers, Resume(c, r) PROVE Bounded'
        <3>1. CASE ResumeMessage(c, r)
            BY <3>1, TakeHeadBounded DEF ResumeMessage
        <3>2. CASE ResumeEmpty(c, r)
            BY <3>2, <2>a DEF ResumeEmpty
        <3>3. CASE ResumeClosed(c, r)
            <4>1. /\ capacity' = capacity /\ queue' = queue
                  /\ sentinel' = sentinel \ {c}
                BY <3>3 DEF ResumeClosed
            <4>2. \A d \in Channels : Size(d)' \in Int /\ Size(d)' <= Size(d)
                BY <4>1 DEF Size, TypeOK
            <4>3. QED
                BY <4>1, <4>2, SizeType DEF Bounded, TypeOK
        <3>4. QED
            BY <2>4, <3>1, <3>2, <3>3 DEF Resume
    <2>5. ASSUME NEW c \in Channels, NEW r \in Receivers, Abandon(c, r) PROVE Bounded'
        BY <2>5, <2>a DEF Abandon
    <2>6. ASSUME NEW c \in Channels, NewChannel(c) PROVE Bounded'
        BY <2>6, <2>a DEF NewChannel
    <2>7. ASSUME NEW g \in Groups, NEW c \in Channels,
                 GroupAdd(g, c) \/ GroupDiscard(g, c)
          PROVE  Bounded'
        BY <2>7, <2>a DEF GroupAdd, GroupDiscard
    <2>8. CASE Close
        <3>1. /\ capacity' = capacity /\ queue' = queue
              /\ sentinel = {} /\ sentinel' = Wakes
            BY <2>8, <2>b DEF Close, SentinelLast
        <3>2. SUFFICES ASSUME capacity > 0, NEW c \in Channels
                       PROVE  Size(c)' <= capacity
            BY <3>1 DEF Bounded
        <3>3. Size(c) = Len(queue[c])
            BY <3>1 DEF Size
        <3>4. CASE c \in Wakes
            <4>1. Size(c)' = Size(c) + 1
                BY <3>1, <3>3, <3>4 DEF Size
            <4>2. QED
                BY <3>2, <3>4, <4>1, SizeType DEF Wakes, Full, TypeOK
        <3>5. CASE c \notin Wakes
            BY <3>1, <3>2, <3>3, <3>5 DEF Size, Bounded
        <3>6. QED
            BY <3>4, <3>5
    <2>9. CASE UNCHANGED vars
        BY <2>9, <2>a DEF vars
    <2>10. QED
        BY <2>1, <2>2, <2>3, <2>4, <2>5, <2>6, <2>7, <2>8, <2>9 DEF Next
<1>3. QED
    BY <1>1, <1>2, TypeCorrect, WakeInvariant, PTL DEF Spec

-----------------------------------------------------------------------------
(* What the promises that the code does not keep come to.                  *)

(* After close() the task that waits alone on a channel is ready to run    *)
(* and finds an item, a message or the sentinel, so that its next step is  *)
(* its last in receive: CloseUnblocks but for the event loop's fairness.   *)
ClosedFinds ==
    closed => \A c \in Channels \ Shared : \A r \in Waiting(c) :
                 r \in ready[c] /\ Size(c) > 0

THEOREM ClosedFindsCorrect == Spec => []ClosedFinds
<1>1. WakeInv => ClosedFinds
    BY DEF WakeInv, CloseWakes, SoleFinds, ClosedFinds, Waiting
<1>2. QED
    BY <1>1, WakeInvariant, PTL

(* A fan-out grows the queues it reaches and no others.                    *)
LEMMA PutReaches ==
    ASSUME TypeOK, NEW cs \in SUBSET Channels, NEW m \in Messages, Put(cs, m)
    PROVE  {c \in Channels : log'[c] # log[c]} = cs
<1>1. ASSUME NEW c \in cs PROVE log'[c] # log[c]
    <2>1. log[c] \in Seq(Messages) /\ log'[c] = Append(log[c], m)
        BY DEF Put, TypeOK
    <2>2. Len(log'[c]) = Len(log[c]) + 1 /\ Len(log[c]) \in Nat
        BY <2>1
    <2>3. QED
        BY <2>2
<1>2. ASSUME NEW c \in Channels \ cs PROVE log'[c] = log[c]
    BY DEF Put, TypeOK
<1>3. QED
    BY <1>1, <1>2

LEMMA GroupSendReaches ==
    ASSUME TypeOK, NEW g \in Groups, NEW m \in Messages, GroupSend(g, m)
    PROVE  LET reached == {c \in groups[g] : log'[c] # log[c]}
           IN  reached = groups[g] \/ \E c \in groups[g] \ reached : Full(c)
<1>1. PICK cs \in Reached(g) : Put(cs, m)
    BY DEF GroupSend
<1>2. cs \subseteq groups[g] /\ groups[g] \subseteq Channels
    BY SendReaches DEF TypeOK
<1>3. {c \in groups[g] : log'[c] # log[c]} = cs
    BY <1>1, <1>2, PutReaches
<1>4. QED
    BY <1>3, SendReaches

(* A fan-out misses a member only when a member it missed was full.        *)
FansOutUnlessFull ==
    [][\A g \in Groups, m \in Messages :
          GroupSend(g, m) =>
             LET reached == {c \in groups[g] : log'[c] # log[c]}
             IN  reached = groups[g] \/ \E c \in groups[g] \ reached : Full(c)]_vars

THEOREM FansOutUnlessFullCorrect == Spec => FansOutUnlessFull
<1>1. TypeOK /\ [Next]_vars =>
         [\A g \in Groups, m \in Messages :
             GroupSend(g, m) =>
                LET reached == {c \in groups[g] : log'[c] # log[c]}
                IN  reached = groups[g] \/ \E c \in groups[g] \ reached : Full(c)]_vars
    BY GroupSendReaches
<1>2. QED
    BY <1>1, TypeCorrect, PTL DEF Spec, FansOutUnlessFull

(* With no limit on the queues (a maxsize of zero or less) the promise of  *)
(* base.py 36 holds: a fan-out reaches every member.                       *)
THEOREM FansOutWithoutLimit ==
    ASSUME \A n \in Capacities : n <= 0
    PROVE  Spec => FansOutToAll
<1> DEFINE Unlimited == capacity \in Capacities
<1>1. Init => Unlimited
    BY DEF Init
<1>2. Unlimited /\ [Next]_vars => Unlimited'
    BY DEF Next, vars, Send, Receive, Resume, ResumeMessage, ResumeEmpty, ResumeClosed,
           Abandon, NewChannel, GroupAdd, GroupDiscard, GroupSend, Close
<1>3. TypeOK /\ Unlimited /\ [Next]_vars =>
         [\A g \in Groups, m \in Messages :
             GroupSend(g, m) =>
                LET reached == {c \in groups[g] : log'[c] # log[c]}
                IN  reached = {} \/ reached = groups[g]]_vars
    <2>1. ASSUME Unlimited, NEW c PROVE ~Full(c)
        BY <2>1, IntCapacities DEF Full
    <2>2. QED
        BY <2>1, GroupSendReaches
<1>4. QED
    BY <1>1, <1>2, <1>3, TypeCorrect, PTL DEF Spec, FansOutToAll

-----------------------------------------------------------------------------
(* Refinement.                                                             *)

(* The layer implements the safety part of the abstract channel layer: its *)
(* initial states are initial there, and each of its steps is a step there *)
(* or leaves the abstract state alone.                                     *)
THEOREM Refines == Spec => SafeChannelLayer
<1>1. Init => Abstract!Init
    BY DEF Init, Abstract!Init, Waiting
<1>2. TypeOK /\ WakeInv /\ [Next]_vars => [Abstract!Next]_(Abstract!vars)
    <2> SUFFICES ASSUME TypeOK, WakeInv, [Next]_vars
                 PROVE  Abstract!Next \/ UNCHANGED Abstract!vars
        OBVIOUS
    <2> DEFINE pending == [c \in Channels |-> Waiting(c)]
    <2>a. ASSUME UNCHANGED <<closed, groups, queue, getters, ready>>
          PROVE  UNCHANGED Abstract!vars
        BY <2>a DEF Abstract!vars, Waiting
    <2>b. ASSUME NEW cs, WakeupNext(cs) PROVE pending' = pending
        <3>1. \A c \in Channels : getters'[c] \cup ready'[c] = getters[c] \cup ready[c]
            BY <2>b, WakeupNextMoves
        <3>2. QED
            BY <3>1 DEF Waiting
    <2>1. ASSUME NEW c \in Channels, NEW m \in Messages, Send(c, m)
          PROVE  Abstract!Next \/ UNCHANGED Abstract!vars
        <3>1. CASE Put({c}, m)
            <4>1. pending' = pending
                BY <2>b, <3>1 DEF Put
            <4>2. Abstract!Send(c, m)
                BY <2>1, <3>1, <4>1
                DEF Send, Put, Abstract!Send, Abstract!Deliver
            <4>3. QED
                BY <4>2 DEF Abstract!Next
        <3>2. QED
            BY <2>1, <2>a, <3>1 DEF Send
    <2>2. ASSUME NEW c \in Channels, NEW r \in Receivers, Receive(c, r)
          PROVE  Abstract!Next \/ UNCHANGED Abstract!vars
        <3>1. CASE TakeHead(c) /\ UNCHANGED <<getters, ready>>
            <4>1. Abstract!Take(c)
                BY <2>2, <3>1 DEF Receive, TakeHead, Abstract!Take, Waiting
            <4>2. QED
                BY <4>1 DEF Abstract!Next
        <3>2. CASE /\ queue[c] = <<>>
                   /\ getters' = [getters EXCEPT ![c] = @ \cup {r}]
                   /\ UNCHANGED <<queue, ready, history>>
            <4>1. pending' = [pending EXCEPT ![c] = @ \cup {r}]
                BY <3>2 DEF Waiting, TypeOK
            <4>2. Abstract!Call(c, r)
                BY <2>2, <3>2, <4>1 DEF Receive, Abstract!Call
            <4>3. QED
                BY <4>2 DEF Abstract!Next
        <3>3. QED
            BY <2>2, <3>1, <3>2 DEF Receive
    <2>3. ASSUME NEW c \in Channels, NEW r \in Receivers, Resume(c, r)
          PROVE  Abstract!Next \/ UNCHANGED Abstract!vars
        <3>1. CASE ResumeEmpty(c, r)
            <4>1. pending' = pending
                BY <3>1 DEF ResumeEmpty, Waiting, TypeOK
            <4>2. QED
                BY <3>1, <4>1 DEF ResumeEmpty, Abstract!vars
        <3>2. CASE ResumeMessage(c, r) \/ ResumeClosed(c, r)
            <4>1. /\ r \in ready[c] /\ r \notin getters[c] /\ getters' = getters
                  /\ ready' = [ready EXCEPT ![c] = @ \ {r}]
                  /\ closed' = closed /\ groups' = groups
                BY <3>2 DEF ResumeMessage, ResumeClosed, WakeInv, Apart
            <4>2. pending' = [pending EXCEPT ![c] = @ \ {r}] /\ r \in pending[c]
                BY <4>1 DEF Waiting, TypeOK
            <4>3. CASE ResumeMessage(c, r)
                <5>1. Abstract!Return(c, r)
                    BY <4>1, <4>2, <4>3 DEF ResumeMessage, TakeHead, Abstract!Return
                <5>2. QED
                    BY <5>1 DEF Abstract!Next
            <4>4. CASE ResumeClosed(c, r)
                <5>1. Abstract!Fail(c, r)
                    BY <4>1, <4>2, <4>4 DEF ResumeClosed, Abstract!Fail
                <5>2. QED
                    BY <5>1 DEF Abstract!Next
            <4>5. QED
                BY <3>2, <4>3, <4>4
        <3>3. QED
            BY <2>3, <3>1, <3>2 DEF Resume
    <2>4. ASSUME NEW c \in Channels, NEW r \in Receivers, Abandon(c, r)
          PROVE  Abstract!Next \/ UNCHANGED Abstract!vars
        <3>1. r \in pending[c]
            BY <2>4 DEF Abandon, Waiting
        <3>2. pending' = [pending EXCEPT ![c] = @ \ {r}]
            <4>1. CASE r \in ready[c] /\ GiveUp(c, r)
                <5>1. getters'[c] \cup ready'[c] = Waiting(c) \ {r}
                    BY <4>1, GiveUpMoves DEF Waiting, WakeInv, Apart
                <5>2. \A d \in Channels \ {c} : getters'[d] \cup ready'[d] = Waiting(d)
                    BY <4>1, GiveUpMoves DEF Waiting
                <5>3. QED
                    BY <5>1, <5>2 DEF Waiting
            <4>2. CASE /\ r \in getters[c]
                       /\ getters' = [getters EXCEPT ![c] = @ \ {r}]
                       /\ UNCHANGED ready
                BY <4>2 DEF Waiting, TypeOK, WakeInv, Apart
            <4>3. QED
                BY <2>4, <4>1, <4>2 DEF Abandon
        <3>3. Abstract!Fail(c, r)
            BY <2>4, <3>1, <3>2 DEF Abandon, Abstract!Fail
        <3>4. QED
            BY <3>3 DEF Abstract!Next
    <2>5. ASSUME NEW c \in Channels, NewChannel(c) PROVE UNCHANGED Abstract!vars
        BY <2>5, <2>a DEF NewChannel
    <2>6. ASSUME NEW g \in Groups, NEW c \in Channels, GroupAdd(g, c)
          PROVE  Abstract!Next
        <3>1. Abstract!GroupAdd(g, c)
            BY <2>6 DEF GroupAdd, Abstract!GroupAdd, Waiting
        <3>2. QED
            BY <3>1 DEF Abstract!Next
    <2>7. ASSUME NEW g \in Groups, NEW c \in Channels, GroupDiscard(g, c)
          PROVE  Abstract!Next
        <3>1. Abstract!GroupDiscard(g, c)
            BY <2>7 DEF GroupDiscard, Abstract!GroupDiscard, Waiting
        <3>2. QED
            BY <3>1 DEF Abstract!Next
    <2>8. ASSUME NEW g \in Groups, NEW m \in Messages, GroupSend(g, m)
          PROVE  Abstract!Next
        <3>1. PICK reached \in Reached(g) : Put(reached, m)
            BY <2>8 DEF GroupSend
        <3>2. reached \in SUBSET groups[g]
            BY <3>1 DEF Reached
        <3>3. pending' = pending
            BY <2>b, <3>1 DEF Put
        <3>4. Abstract!GroupSend(g, m)
            BY <2>8, <3>1, <3>2, <3>3
            DEF GroupSend, Put, Abstract!GroupSend, Abstract!Deliver
        <3>5. QED
            BY <3>4 DEF Abstract!Next
    <2>9. ASSUME Close PROVE Abstract!Next
        <3>1. pending' = pending
            BY <2>9, <2>b DEF Close
        <3>2. Abstract!Close
            BY <2>9, <3>1 DEF Close, Abstract!Close
        <3>3. QED
            BY <3>2 DEF Abstract!Next
    <2>10. ASSUME UNCHANGED vars PROVE UNCHANGED Abstract!vars
        BY <2>10, <2>a DEF vars
    <2>11. QED
        BY <2>1, <2>2, <2>3, <2>4, <2>5, <2>6, <2>7, <2>8, <2>9, <2>10 DEF Next
<1>3. QED
    BY <1>1, <1>2, TypeCorrect, WakeInvariant, PTL DEF Spec, SafeChannelLayer
=============================================================================
