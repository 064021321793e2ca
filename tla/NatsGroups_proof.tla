-------------------------- MODULE NatsGroups_proof --------------------------
(***************************************************************************)
(* Proofs about a NATS group, for any number of callers and channels, any  *)
(* number of rounds and any number of failing requests.                    *)
(***************************************************************************)
EXTENDS NatsGroups, TLAPS

USE AttemptsAssumption, BoundsAssumption
USE DEF keyVars, callVars, fanVars

-----------------------------------------------------------------------------
(* Types.                                                                  *)

LEMMA ProceedType ==
    ASSUME TypeOK, NEW w \in Callers, pc[w] = "get",
           NEW entry \in [revision : Nat, channels : SUBSET Channels],
           Proceed(w, entry),
           blind' \in [Callers -> BOOLEAN], faults' \in Nat,
           failed' \in [Callers -> Nat]
    PROVE  TypeOK'
<1>1. CASE ask[w].op = "send"
    <2>1. entry.channels \in SUBSET Channels
        OBVIOUS
    <2>2. /\ pc' = [pc EXCEPT ![w] = "fan"] /\ UNCHANGED result
          /\ todo' = [todo EXCEPT ![w] = entry.channels]
        BY <1>1 DEF Proceed, Goes
    <2>3. seen' \in [Callers -> [revision : Nat, channels : SUBSET Channels]]
        BY DEF TypeOK, Proceed
    <2>4. todo' \in [Callers -> SUBSET Channels]
        BY <2>1, <2>2 DEF TypeOK
    <2>5. QED
        BY <1>1, <2>2, <2>3, <2>4 DEF TypeOK, Proceed, Places
<1>2. CASE ask[w].op # "send" /\ Mutated(w, entry.channels) = entry.channels
    <2>1. /\ pc' = [pc EXCEPT ![w] = "idle"] /\ result' = [result EXCEPT ![w] = "ok"]
          /\ UNCHANGED todo
        BY <1>2 DEF Proceed, Ends
    <2>2. seen' \in [Callers -> [revision : Nat, channels : SUBSET Channels]]
        BY DEF TypeOK, Proceed
    <2>3. QED
        BY <1>2, <2>1, <2>2 DEF TypeOK, Proceed, Places, Results
<1>3. CASE ask[w].op # "send" /\ Mutated(w, entry.channels) # entry.channels
    <2>1. pc' = [pc EXCEPT ![w] = "write"] /\ UNCHANGED <<result, todo>>
        BY <1>3 DEF Proceed, Goes
    <2>2. seen' \in [Callers -> [revision : Nat, channels : SUBSET Channels]]
        BY DEF TypeOK, Proceed
    <2>3. QED
        BY <1>3, <2>1, <2>2 DEF TypeOK, Proceed, Places
<1>4. QED
    BY <1>1, <1>2, <1>3

LEMMA EntryType ==
    ASSUME TypeOK
    PROVE  /\ Entry \in [revision : Nat, channels : SUBSET Channels]
           /\ NoEntry \in [revision : Nat, channels : SUBSET Channels]
BY DEF TypeOK, Entry, NoEntry

LEMMA RetryType ==
    ASSUME TypeOK, NEW w \in Callers, pc[w] \in {"write", "answer"}, Retry(w),
           faults' \in Nat, failed' \in [Callers -> Nat]
    PROVE  TypeOK'
<1>1. attempt[w] \in Nat /\ attempt[w] < Attempts
    BY DEF TypeOK
<1>2. attempt' = [attempt EXCEPT ![w] = attempt[w] + 1]
    BY DEF Retry
<1>3. attempt' \in [Callers -> 0 .. Attempts]
    BY <1>1, <1>2 DEF TypeOK
<1>4. CASE LastRound(w)
    <2>1. pc' = [pc EXCEPT ![w] = "idle"] /\ result' = [result EXCEPT ![w] = "raised"]
        BY <1>4 DEF Retry, Ends
    <2>2. QED
        BY <1>2, <1>3, <2>1 DEF TypeOK, Retry, Places, Results
<1>5. CASE ~LastRound(w)
    <2>1. pc' = [pc EXCEPT ![w] = "get"] /\ UNCHANGED result
        BY <1>5 DEF Retry, Goes, NextRound
    <2>2. attempt[w] + 1 < Attempts
        BY <1>1, <1>5 DEF LastRound
    <2>3. QED
        BY <1>2, <1>3, <2>1, <2>2 DEF TypeOK, Retry, Places
<1>6. QED
    BY <1>4, <1>5

LEMMA FaultType ==
    ASSUME TypeOK, NEW w \in Callers, Fault(w)
    PROVE  faults' \in Nat /\ failed' \in [Callers -> Nat]
BY DEF TypeOK, Fault

LEMMA MutatedType ==
    ASSUME TypeOK, NEW w \in Callers, ask[w].op # "send", NEW S \in SUBSET Channels
    PROVE  Mutated(w, S) \in SUBSET Channels
<1>1. ask[w] \in [op : {"add", "discard"}, channel : Channels]
    BY DEF TypeOK, Asks
<1>2. QED
    BY <1>1 DEF Mutated

LEMMA TypeInductive ==
    TypeOK /\ [Next]_vars => TypeOK'
<1> SUFFICES ASSUME TypeOK, [Next]_vars PROVE TypeOK'
    OBVIOUS
<1>1. ASSUME NEW w \in Callers, NEW a \in Asks, Call(w, a) PROVE TypeOK'
    <2>1. seen' \in [Callers -> [revision : Nat, channels : SUBSET Channels]]
        BY <1>1 DEF TypeOK, Call, NoEntry
    <2>2. QED
        BY <1>1, <2>1 DEF TypeOK, Call, Goes, Places, Results
<1>2. ASSUME NEW w \in Callers, Get(w) PROVE TypeOK'
    <2>1. /\ blind' \in [Callers -> BOOLEAN] /\ faults' \in Nat
          /\ failed' \in [Callers -> Nat]
        BY <1>2 DEF TypeOK, Get, NoFault
    <2>2. QED
        BY <1>2, <2>1, EntryType, ProceedType DEF Get
<1>3. ASSUME NEW w \in Callers, GetFails(w) PROVE TypeOK'
    <2>1. blind' \in [Callers -> BOOLEAN]
        BY <1>3 DEF TypeOK, GetFails
    <2>2. QED
        BY <1>3, <2>1, FaultType, EntryType, ProceedType DEF GetFails
<1>4. ASSUME NEW w \in Callers, Write(w) PROVE TypeOK'
    <2>1. members' \in SUBSET Channels
        BY <1>4, MutatedType DEF TypeOK, Write
    <2>2. stable' \in [Callers -> SUBSET Channels]
        BY <1>4 DEF TypeOK, Write
    <2>3. QED
        BY <1>4, <2>1, <2>2 DEF TypeOK, Write, Goes, Places, Results
<1>5. ASSUME NEW w \in Callers, Answer(w) PROVE TypeOK'
    BY <1>5 DEF TypeOK, Answer, Ends, Places, Results
<1>6. ASSUME NEW w \in Callers, Conflict(w) PROVE TypeOK'
    <2>1. faults' \in Nat /\ failed' \in [Callers -> Nat]
        BY <1>6 DEF TypeOK, Conflict, NoFault
    <2>2. QED
        BY <1>6, <2>1, RetryType DEF Conflict
<1>7. ASSUME NEW w \in Callers, WriteFails(w) PROVE TypeOK'
    BY <1>7, FaultType, RetryType DEF WriteFails
<1>8. ASSUME NEW w \in Callers, NEW c \in Channels, Publish(w, c) PROVE TypeOK'
    BY <1>8 DEF TypeOK, Publish
<1>9. ASSUME NEW w \in Callers, FanOutEnds(w) PROVE TypeOK'
    BY <1>9 DEF TypeOK, FanOutEnds, Ends, Places, Results
<1>10. ASSUME NEW w \in Callers, FanOutRaises(w) PROVE TypeOK'
    <2>1. faults' \in Nat /\ failed' \in [Callers -> Nat]
        BY <1>10, FaultType DEF TypeOK, FanOutRaises, NoFault
    <2>2. QED
        BY <1>10, <2>1 DEF TypeOK, FanOutRaises, Ends, AfterPublishError, Places, Results
<1>11. ASSUME NEW w \in Callers, Close(w) PROVE TypeOK'
    BY <1>11 DEF TypeOK, Close
<1>12. CASE UNCHANGED vars
    BY <1>12 DEF TypeOK, vars
<1>13. QED
    BY <1>1, <1>2, <1>3, <1>4, <1>5, <1>6, <1>7, <1>8, <1>9, <1>10, <1>11, <1>12
    DEF Next, Step, Fails

(* Type correctness; in particular the loop of _mutate_group_channels      *)
(* never runs a ninth round.                                               *)
THEOREM TypeCorrect == Spec => []TypeOK
<1>1. Init => TypeOK
    BY DEF Init, TypeOK, Asks, Places, Results, NoEntry
<1>2. QED
    BY <1>1, TypeInductive, PTL DEF Spec

-----------------------------------------------------------------------------
(* No round is wasted.                                                     *)

(* What RoundsAccountedFor needs to be inductive: a caller whose write the *)
(* bucket would refuse has one more write or fault on its account already. *)
RoundsOf(w) ==
    /\ attempt[w] <= (revision - begun[w]) + failed[w]
    /\ pc[w] = "write" /\ ~Accepts(w) =>
          attempt[w] + 1 <= (revision - begun[w]) + failed[w]

RoundsInv ==
    /\ TypeOK
    /\ members # {} => revision # 0
    /\ \A w \in Callers : RoundsOf(w)

(* The numbers that TypeOK promises.                                       *)
LEMMA Numbers ==
    ASSUME TypeOK, NEW w \in Callers
    PROVE  /\ revision \in Nat /\ attempt[w] \in Nat
           /\ begun[w] \in Nat /\ failed[w] \in Nat
BY DEF TypeOK

(* A caller that another's step does not touch.                            *)
LEMMA RoundsUntouched ==
    ASSUME TypeOK, NEW v \in Callers, RoundsOf(v),
           pc'[v] = pc[v], attempt'[v] = attempt[v], begun'[v] = begun[v],
           failed'[v] = failed[v], seen'[v] = seen[v],
           UNCHANGED keyVars \/ revision' = revision + 1
    PROVE  RoundsOf(v)'
<1>1. CASE UNCHANGED keyVars
    BY <1>1 DEF RoundsOf, Accepts
<1>2. CASE revision' = revision + 1
    BY <1>2, Numbers DEF RoundsOf
<1>3. QED
    BY <1>1, <1>2

(* After a read that was answered the write would be accepted.             *)
LEMMA RoundsProceed ==
    ASSUME RoundsInv, NEW w \in Callers, pc[w] = "get", NEW entry, Proceed(w, entry),
           failed' \in [Callers -> Nat],
           \/ entry = Entry /\ UNCHANGED failed
           \/ failed' = [failed EXCEPT ![w] = @ + 1]
    PROVE  \A v \in Callers : RoundsOf(v)'
<1>1. TypeOK /\ \A v \in Callers : RoundsOf(v)
    BY DEF RoundsInv
<1>2. UNCHANGED keyVars /\ UNCHANGED attempt /\ UNCHANGED begun
    BY DEF Proceed
<1>3. seen' = [seen EXCEPT ![w] = entry]
    BY DEF Proceed
<1>4. \E place : pc' = [pc EXCEPT ![w] = place]
    BY DEF Proceed, Goes, Ends
<1>5. ASSUME NEW v \in Callers, v # w PROVE RoundsOf(v)'
    <2>1. pc'[v] = pc[v] /\ seen'[v] = seen[v] /\ failed'[v] = failed[v]
        BY <1>1, <1>3, <1>4, <1>5 DEF TypeOK
    <2>2. QED
        BY <1>1, <1>2, <2>1, RoundsUntouched
<1>6. RoundsOf(w)'
    <2>1. CASE entry = Entry /\ UNCHANGED failed
        <3>1. seen'[w] = Entry
            BY <1>1, <1>3, <2>1 DEF TypeOK
        <3>2. Accepts(w)'
            BY <1>2, <3>1 DEF Accepts, Entry, NoEntry, RoundsInv
        <3>3. QED
            BY <1>1, <1>2, <2>1, <3>2 DEF RoundsOf
    <2>2. CASE failed' = [failed EXCEPT ![w] = @ + 1]
        <3>1. failed'[w] = failed[w] + 1
            BY <1>1, <2>2 DEF TypeOK
        <3>2. attempt[w] + 1 <= (revision - begun[w]) + failed'[w]
            BY <1>1, <3>1, Numbers DEF RoundsOf
        <3>3. QED
            BY <1>1, <1>2, <3>1, <3>2, Numbers DEF RoundsOf
    <2>3. QED
        BY <2>1, <2>2
<1>7. QED
    BY <1>5, <1>6

(* A round that ends without success has been paid for.                    *)
LEMMA RoundsRetry ==
    ASSUME RoundsInv, NEW w \in Callers, pc[w] \in {"write", "answer"}, Retry(w),
           \/ pc[w] = "write" /\ ~Accepts(w) /\ UNCHANGED failed
           \/ failed' = [failed EXCEPT ![w] = @ + 1]
    PROVE  \A v \in Callers : RoundsOf(v)'
<1>1. TypeOK /\ \A v \in Callers : RoundsOf(v)
    BY DEF RoundsInv
<1>2. UNCHANGED keyVars /\ UNCHANGED begun /\ UNCHANGED seen
    BY DEF Retry
<1>3. attempt' = [attempt EXCEPT ![w] = attempt[w] + 1]
    BY DEF Retry
<1>4. PICK place \in {"idle", "get"} : pc' = [pc EXCEPT ![w] = place]
    BY DEF Retry, Goes, Ends, NextRound
<1>5. ASSUME NEW v \in Callers, v # w PROVE RoundsOf(v)'
    <2>1. pc'[v] = pc[v] /\ attempt'[v] = attempt[v] /\ failed'[v] = failed[v]
        BY <1>1, <1>3, <1>4, <1>5 DEF TypeOK
    <2>2. QED
        BY <1>1, <1>2, <2>1, RoundsUntouched
<1>6. RoundsOf(w)'
    <2>1. attempt'[w] = attempt[w] + 1 /\ pc'[w] # "write"
        BY <1>1, <1>3, <1>4 DEF TypeOK
    <2>2. attempt[w] + 1 <= (revision - begun[w]) + failed'[w]
        BY <1>1, Numbers DEF RoundsOf, TypeOK
    <2>3. QED
        BY <1>2, <2>1, <2>2 DEF RoundsOf
<1>7. QED
    BY <1>5, <1>6

LEMMA RoundsInductive ==
    RoundsInv /\ [Next]_vars => RoundsInv'
<1> SUFFICES ASSUME RoundsInv, [Next]_vars PROVE RoundsInv'
    OBVIOUS
<1>1. TypeOK /\ TypeOK'
    BY TypeInductive DEF RoundsInv
<1>2. (members # {} => revision # 0)'
    <2>1. UNCHANGED keyVars \/ revision' = revision + 1
        BY DEF Next, Step, Fails, Call, Get, GetFails, Proceed, Write, Answer, Conflict,
               WriteFails, Retry, Publish, FanOutEnds, FanOutRaises, Close, vars
    <2>2. QED
        BY <1>1, <2>1 DEF RoundsInv, TypeOK
<1>3. \A v \in Callers : RoundsOf(v)'
    <2>1. ASSUME NEW w \in Callers, NEW a \in Asks, Call(w, a)
          PROVE  \A v \in Callers : RoundsOf(v)'
        <3>1. ASSUME NEW v \in Callers, v # w PROVE RoundsOf(v)'
            BY <1>1, <2>1, <3>1, RoundsUntouched DEF RoundsInv, Call, Goes, TypeOK
        <3>2. /\ attempt'[w] = 0 /\ failed'[w] = 0 /\ begun'[w] = revision
              /\ revision' = revision /\ pc'[w] = "get"
            BY <1>1, <2>1 DEF Call, Goes, TypeOK
        <3>3. RoundsOf(w)'
            BY <1>1, <3>2, Numbers DEF RoundsOf
        <3>4. QED
            BY <3>1, <3>3
    <2>2. ASSUME NEW w \in Callers, Get(w) PROVE \A v \in Callers : RoundsOf(v)'
        BY <1>1, <2>2, RoundsProceed DEF Get, NoFault, TypeOK
    <2>3. ASSUME NEW w \in Callers, GetFails(w) PROVE \A v \in Callers : RoundsOf(v)'
        BY <1>1, <2>3, RoundsProceed DEF GetFails, Fault, TypeOK
    <2>4. ASSUME NEW w \in Callers, Write(w) PROVE \A v \in Callers : RoundsOf(v)'
        <3>1. /\ revision' = revision + 1 /\ UNCHANGED <<attempt, begun, failed, seen>>
              /\ pc' = [pc EXCEPT ![w] = "answer"]
            BY <2>4 DEF Write, Goes
        <3>2. ASSUME NEW v \in Callers, v # w PROVE RoundsOf(v)'
            BY <1>1, <3>1, <3>2, RoundsUntouched DEF RoundsInv, TypeOK
        <3>3. RoundsOf(w)'
            BY <1>1, <3>1, Numbers DEF RoundsInv, RoundsOf, TypeOK
        <3>4. QED
            BY <3>2, <3>3
    <2>5. ASSUME NEW w \in Callers, Conflict(w) PROVE \A v \in Callers : RoundsOf(v)'
        BY <2>5, RoundsRetry DEF Conflict, NoFault
    <2>6. ASSUME NEW w \in Callers, WriteFails(w) PROVE \A v \in Callers : RoundsOf(v)'
        BY <2>6, RoundsRetry DEF WriteFails, Fault
    <2>7. ASSUME NEW w \in Callers, NEW place \in {"idle", "fan"},
                 pc[w] = "answer" \/ pc[w] = "fan",
                 pc' = [pc EXCEPT ![w] = place],
                 UNCHANGED <<keyVars, attempt, begun, seen>>,
                 \/ UNCHANGED failed
                 \/ failed' = [failed EXCEPT ![w] = @ + 1]
          PROVE  \A v \in Callers : RoundsOf(v)'
        <3>1. ASSUME NEW v \in Callers, v # w PROVE RoundsOf(v)'
            BY <1>1, <2>7, <3>1, RoundsUntouched DEF RoundsInv, TypeOK
        <3>2. failed'[w] >= failed[w] /\ failed'[w] \in Nat /\ pc'[w] # "write"
            BY <1>1, <2>7 DEF TypeOK
        <3>3. RoundsOf(w)'
            BY <1>1, <2>7, <3>2, Numbers DEF RoundsInv, RoundsOf
        <3>4. QED
            BY <3>1, <3>3
    <2>8. ASSUME NEW w \in Callers, Answer(w) PROVE \A v \in Callers : RoundsOf(v)'
        BY <2>7, <2>8 DEF Answer, Ends
    <2>9. ASSUME NEW w \in Callers, FanOutEnds(w) PROVE \A v \in Callers : RoundsOf(v)'
        BY <2>7, <2>9 DEF FanOutEnds, Ends
    <2>10. ASSUME NEW w \in Callers, FanOutRaises(w) PROVE \A v \in Callers : RoundsOf(v)'
        BY <2>7, <2>10 DEF FanOutRaises, Ends, Fault, NoFault
    <2>11. CASE UNCHANGED <<keyVars, pc, attempt, begun, failed, seen>>
        BY <2>11 DEF RoundsInv, RoundsOf, Accepts
    <2>12. ASSUME NEW w \in Callers, NEW c \in Channels, Publish(w, c)
           PROVE  \A v \in Callers : RoundsOf(v)'
        BY <2>11, <2>12 DEF Publish
    <2>13. ASSUME NEW w \in Callers, Close(w) PROVE \A v \in Callers : RoundsOf(v)'
        BY <2>11, <2>13 DEF Close
    <2>14. CASE UNCHANGED vars
        BY <2>11, <2>14 DEF vars
    <2>15. QED
        BY <2>1, <2>2, <2>3, <2>4, <2>5, <2>6, <2>8, <2>9, <2>10, <2>12, <2>13, <2>14
        DEF Next, Step, Fails
<1>4. QED
    BY <1>1, <1>2, <1>3 DEF RoundsInv

(* A membership call spends a round only on another caller's write or on a *)
(* request that failed: with more rounds than there are such events, it    *)
(* cannot give up.                                                         *)
THEOREM RoundsCorrect == Spec => []RoundsAccountedFor
<1>1. Init => RoundsInv
    <2>1. Init => TypeOK
        BY DEF Init, TypeOK, Asks, Places, Results, NoEntry
    <2>2. QED
        BY <2>1 DEF Init, RoundsInv, RoundsOf
<1>2. RoundsInv => RoundsAccountedFor
    BY DEF RoundsInv, RoundsOf, RoundsAccountedFor
<1>3. QED
    BY <1>1, <1>2, RoundsInductive, PTL DEF Spec

-----------------------------------------------------------------------------
(* What a caller has seen is still true where it matters.                  *)

(* A read that was answered tells of the key as it was at the revision     *)
(* read, which is the current one or an earlier one.                       *)
SeenOf(w) ==
    /\ seen[w].revision <= revision
    /\ seen[w].revision = 0 => seen[w].channels = {}
    /\ seen[w].revision # 0 /\ seen[w].revision = revision => seen[w].channels = members

(* A fan-out still covers every channel that never left; a discard whose   *)
(* read was answered has seen its channel leave once its write is accepted *)
(* or it returns.                                                          *)
StableOf(w) ==
    /\ pc[w] # "idle" => stable[w] \subseteq members
    /\ pc[w] = "fan" /\ ~blind[w] => stable[w] \subseteq todo[w] \cup reached[w]
    /\ Returned(w, "send") /\ ~blind[w] => stable[w] \subseteq reached[w]
    /\ pc[w] = "write" /\ blind[w] => ask[w].op = "add"
    /\ pc[w] = "answer" /\ ask[w].op = "discard" => ask[w].channel \notin stable[w]
    /\ Returned(w, "discard") /\ ~blind[w] => ask[w].channel \notin stable[w]

ViewInv ==
    /\ TypeOK
    /\ members # {} => revision # 0
    /\ \A w \in Callers : SeenOf(w) /\ StableOf(w)

LEMMA EntryIsCurrent ==
    ASSUME TypeOK, members # {} => revision # 0
    PROVE  /\ Entry.channels = members
           /\ Entry.revision = 0 \/ Entry.revision = revision
           /\ Entry.revision = 0 => Entry.channels = {}
           /\ NoEntry.channels = {} /\ NoEntry.revision = 0
BY DEF TypeOK, Entry, NoEntry

(* What a write leaves behind.                                             *)
LEMMA WriteEffect ==
    ASSUME ViewInv, NEW w \in Callers, Write(w)
    PROVE  /\ seen[w].channels = members
           /\ members' = Mutated(w, members)
<1>1. Accepts(w) /\ SeenOf(w)
    BY DEF ViewInv, Write
<1>2. seen[w].channels = members
    BY <1>1 DEF Accepts, SeenOf
<1>3. QED
    BY <1>2 DEF Write

LEMMA ViewSeen ==
    ASSUME ViewInv, [Next]_vars
    PROVE  (\A v \in Callers : SeenOf(v))' /\ (members # {} => revision # 0)'
<1>1. TypeOK /\ (members # {} => revision # 0)
    BY DEF ViewInv
<1>2. \A v \in Callers : SeenOf(v)
    BY DEF ViewInv
<1>3. \A v \in Callers : seen[v].revision \in Nat /\ revision \in Nat
    BY <1>1 DEF TypeOK
<1>4. ASSUME UNCHANGED <<keyVars, seen>>
      PROVE  (\A v \in Callers : SeenOf(v))' /\ (members # {} => revision # 0)'
    BY <1>1, <1>2, <1>4 DEF SeenOf
<1>5. ASSUME NEW w \in Callers, NEW entry, entry = Entry \/ entry = NoEntry,
             UNCHANGED keyVars, seen' = [seen EXCEPT ![w] = entry]
      PROVE  (\A v \in Callers : SeenOf(v))' /\ (members # {} => revision # 0)'
    <2>1. /\ entry.revision = 0 \/ entry.revision = revision
          /\ entry.revision = 0 => entry.channels = {}
          /\ entry.revision # 0 => entry.channels = members
        BY <1>1, <1>5, EntryIsCurrent
    <2>2. ASSUME NEW v \in Callers PROVE SeenOf(v)'
        <3>1. seen'[v] = IF v = w THEN entry ELSE seen[v]
            BY <1>1, <1>5 DEF TypeOK
        <3>2. CASE v = w
            BY <1>3, <1>5, <2>1, <3>1, <3>2 DEF SeenOf
        <3>3. CASE v # w
            BY <1>2, <1>5, <3>1, <3>3 DEF SeenOf
        <3>4. QED
            BY <3>2, <3>3
    <2>3. QED
        BY <1>1, <1>5, <2>2
<1>6. ASSUME NEW w \in Callers, NEW a \in Asks, Call(w, a)
      PROVE  (\A v \in Callers : SeenOf(v))' /\ (members # {} => revision # 0)'
    BY <1>5, <1>6 DEF Call
<1>7. ASSUME NEW w \in Callers, Get(w) \/ GetFails(w)
      PROVE  (\A v \in Callers : SeenOf(v))' /\ (members # {} => revision # 0)'
    BY <1>5, <1>7 DEF Get, GetFails, Proceed
<1>8. ASSUME NEW w \in Callers, Write(w)
      PROVE  (\A v \in Callers : SeenOf(v))' /\ (members # {} => revision # 0)'
    <2>1. revision' = revision + 1 /\ UNCHANGED seen
        BY <1>8 DEF Write
    <2>2. QED
        BY <1>2, <1>3, <2>1 DEF SeenOf
<1>9. QED
    BY <1>4, <1>6, <1>7, <1>8
    DEF Next, Step, Fails, Answer, Conflict, WriteFails, Retry, Publish, FanOutEnds,
        FanOutRaises, Close, vars

(* A caller that another's step does not touch.                            *)
LEMMA StableUntouched ==
    ASSUME NEW v \in Callers, StableOf(v),
           pc'[v] = pc[v], ask'[v] = ask[v], todo'[v] = todo[v],
           reached'[v] = reached[v], result'[v] = result[v], blind'[v] = blind[v],
           \/ members' = members /\ stable'[v] = stable[v]
           \/ stable'[v] = IF pc[v] = "idle" THEN stable[v] ELSE stable[v] \cap members'
    PROVE  StableOf(v)'
BY DEF StableOf, Returned

(* group_send and the membership calls go on from their read.              *)
LEMMA StableProceed ==
    ASSUME ViewInv, NEW w \in Callers, pc[w] = "get",
           NEW entry, Proceed(w, entry), NEW b \in BOOLEAN,
           blind' = [blind EXCEPT ![w] = b],
           ~b => entry.channels = members,
           b => entry.channels = {}
    PROVE  \A v \in Callers : StableOf(v)'
<1>1. TypeOK /\ \A v \in Callers : StableOf(v)
    BY DEF ViewInv
<1>2. /\ \/ pc' = [pc EXCEPT ![w] = "fan"]
         \/ pc' = [pc EXCEPT ![w] = "idle"]
         \/ pc' = [pc EXCEPT ![w] = "write"]
      /\ result' = result \/ result' = [result EXCEPT ![w] = "ok"]
      /\ todo' = todo \/ todo' = [todo EXCEPT ![w] = entry.channels]
    BY DEF Proceed, Goes, Ends
<1>3. UNCHANGED <<members, ask, reached, stable>>
    BY DEF Proceed
<1>4. ASSUME NEW v \in Callers, v # w PROVE StableOf(v)'
    <2>1. /\ pc'[v] = pc[v] /\ todo'[v] = todo[v] /\ result'[v] = result[v]
          /\ blind'[v] = blind[v]
        BY <1>1, <1>2, <1>4 DEF TypeOK
    <2>2. QED
        BY <1>1, <1>3, <2>1, StableUntouched
<1>5. StableOf(w)'
    <2>1. stable'[w] \subseteq members' /\ blind'[w] = b
        BY <1>1, <1>3 DEF StableOf, TypeOK
    <2>2. CASE ask[w].op = "send"
        <3>1. pc'[w] = "fan" /\ todo'[w] = entry.channels
            BY <1>1, <2>2 DEF Proceed, Goes, TypeOK
        <3>2. QED
            BY <1>3, <2>1, <3>1 DEF StableOf, Returned
    <2>3. CASE ask[w].op # "send" /\ ~b
        <3>1. pc'[w] # "fan" /\ pc'[w] # "answer"
            BY <1>1, <2>3 DEF Proceed, Goes, Ends, TypeOK
        <3>2. pc'[w] = "idle" /\ ask[w].op = "discard" => ask[w].channel \notin members
            <4>1. Mutated(w, entry.channels) # entry.channels => pc'[w] = "write"
                BY <1>1, <2>3 DEF Proceed, Goes, TypeOK
            <4>2. QED
                BY <2>3, <4>1 DEF Mutated
        <3>3. QED
            BY <1>3, <2>1, <2>3, <3>1, <3>2 DEF StableOf, Returned
    <2>4. CASE ask[w].op # "send" /\ b
        <3>1. pc'[w] # "fan" /\ pc'[w] # "answer"
            BY <1>1, <2>4 DEF Proceed, Goes, Ends, TypeOK
        <3>2. pc'[w] = "write" => ask[w].op = "add"
            <4>1. ask[w].op # "add" => Mutated(w, entry.channels) = entry.channels
                BY <2>4 DEF Mutated
            <4>2. QED
                BY <1>1, <2>4, <4>1 DEF Proceed, Goes, Ends, TypeOK
        <3>3. QED
            BY <1>3, <2>1, <2>4, <3>1, <3>2 DEF StableOf, Returned
    <2>5. QED
        BY <2>2, <2>3, <2>4
<1>6. QED
    BY <1>4, <1>5

LEMMA ViewStable ==
    ASSUME ViewInv, [Next]_vars
    PROVE  \A v \in Callers : StableOf(v)'
<1>1. TypeOK /\ (members # {} => revision # 0)
    BY DEF ViewInv
<1>2. \A v \in Callers : StableOf(v)
    BY DEF ViewInv
<1>3. ASSUME NEW w \in Callers, NEW a \in Asks, Call(w, a)
      PROVE  \A v \in Callers : StableOf(v)'
    <2>1. ASSUME NEW v \in Callers, v # w PROVE StableOf(v)'
        BY <1>1, <1>2, <1>3, <2>1, StableUntouched DEF Call, Goes, TypeOK
    <2>2. StableOf(w)'
        BY <1>1, <1>3 DEF StableOf, Returned, Call, Goes, TypeOK
    <2>3. QED
        BY <2>1, <2>2
<1>4. ASSUME NEW w \in Callers, Get(w) PROVE \A v \in Callers : StableOf(v)'
    BY <1>1, <1>4, EntryIsCurrent, StableProceed DEF Get
<1>5. ASSUME NEW w \in Callers, GetFails(w) PROVE \A v \in Callers : StableOf(v)'
    BY <1>1, <1>5, EntryIsCurrent, StableProceed DEF GetFails
<1>6. ASSUME NEW w \in Callers, Write(w) PROVE \A v \in Callers : StableOf(v)'
    <2>1. /\ stable' = [v \in Callers |->
                           IF pc[v] = "idle" THEN stable[v] ELSE stable[v] \cap members']
          /\ pc' = [pc EXCEPT ![w] = "answer"]
          /\ UNCHANGED <<ask, todo, reached, result, blind>>
        BY <1>6 DEF Write, Goes
    <2>2. ASSUME NEW v \in Callers, v # w PROVE StableOf(v)'
        BY <1>1, <1>2, <2>1, <2>2, StableUntouched DEF TypeOK
    <2>3. StableOf(w)'
        <3>1. pc[w] = "write" /\ pc'[w] = "answer" /\ stable'[w] = stable[w] \cap members'
            BY <1>1, <1>6, <2>1 DEF Write, TypeOK
        <3>2. ask[w].op = "discard" => ask[w].channel \notin members'
            BY <1>6, WriteEffect DEF Mutated
        <3>3. QED
            BY <2>1, <3>1, <3>2 DEF StableOf, Returned
    <2>4. QED
        BY <2>2, <2>3
(* A step that moves w to a place where nothing is promised of it.         *)
<1>7. ASSUME NEW w \in Callers, pc[w] # "idle",
             UNCHANGED <<members, stable, ask, blind, reached>>,
             \E place \in {"idle", "get"} : pc' = [pc EXCEPT ![w] = place],
             \E how \in Results : result' = [result EXCEPT ![w] = how],
             todo' = todo \/ todo' = [todo EXCEPT ![w] = {}],
             Returned(w, "send")' /\ ~blind'[w] => pc[w] = "fan" /\ todo[w] = {},
             Returned(w, "discard")' => pc[w] = "answer"
      PROVE  \A v \in Callers : StableOf(v)'
    <2>1. ASSUME NEW v \in Callers, v # w PROVE StableOf(v)'
        <3>1. /\ pc'[v] = pc[v] /\ todo'[v] = todo[v] /\ result'[v] = result[v]
            BY <1>1, <1>7, <2>1 DEF TypeOK
        <3>2. QED
            BY <1>2, <1>7, <3>1, StableUntouched
    <2>2. pc'[w] \in {"idle", "get"}
        BY <1>1, <1>7 DEF TypeOK
    <2>3. Returned(w, "discard")' => ask[w].op = "discard"
        BY <1>7 DEF Returned
    <2>4. StableOf(w)'
        BY <1>2, <1>7, <2>2, <2>3 DEF StableOf
    <2>5. QED
        BY <2>1, <2>4
<1>8. ASSUME NEW w \in Callers, Answer(w) PROVE \A v \in Callers : StableOf(v)'
    <2>1. ask'[w].op # "send"
        BY <1>1, <1>8 DEF Answer, TypeOK
    <2>2. QED
        BY <1>7, <1>8, <2>1 DEF Answer, Ends, Returned, Results
<1>9. ASSUME NEW w \in Callers, Retry(w), pc[w] \in {"write", "answer"}
      PROVE  \A v \in Callers : StableOf(v)'
    <2>1. ask'[w].op # "send"
        BY <1>1, <1>9 DEF Retry, TypeOK
    <2>2. \E how \in Results : result' = [result EXCEPT ![w] = how]
        <3>1. result = [result EXCEPT ![w] = result[w]] /\ result[w] \in Results
            BY <1>1 DEF TypeOK
        <3>2. QED
            BY <1>9, <3>1 DEF Retry, Ends, Goes, Results
    <2>3. \E place \in {"idle", "get"} : pc' = [pc EXCEPT ![w] = place]
        BY <1>9 DEF Retry, Ends, Goes, NextRound
    <2>4. result'[w] = "raised" \/ pc'[w] = "get"
        BY <1>1, <1>9 DEF Retry, Ends, Goes, NextRound, TypeOK
    <2>5. QED
        BY <1>7, <1>9, <2>1, <2>2, <2>3, <2>4 DEF Retry, Returned
<1>10. ASSUME NEW w \in Callers, Conflict(w) \/ WriteFails(w)
       PROVE  \A v \in Callers : StableOf(v)'
    BY <1>9, <1>10 DEF Conflict, WriteFails
<1>11. ASSUME NEW w \in Callers, FanOutEnds(w) PROVE \A v \in Callers : StableOf(v)'
    <2>1. ask'[w].op = "send"
        BY <1>1, <1>11 DEF FanOutEnds, TypeOK
    <2>2. QED
        BY <1>7, <1>11, <2>1 DEF FanOutEnds, Ends, Results, Returned
<1>12. ASSUME NEW w \in Callers, FanOutRaises(w) PROVE \A v \in Callers : StableOf(v)'
    <2>1. result'[w] = "raised"
        BY <1>1, <1>12 DEF FanOutRaises, Ends, AfterPublishError, TypeOK
    <2>2. QED
        BY <1>7, <1>12, <2>1 DEF FanOutRaises, Ends, AfterPublishError, Results, Returned
<1>13. ASSUME NEW w \in Callers, NEW c \in Channels, Publish(w, c)
       PROVE  \A v \in Callers : StableOf(v)'
    <2>1. ASSUME NEW v \in Callers, v # w PROVE StableOf(v)'
        BY <1>1, <1>2, <1>13, <2>1, StableUntouched DEF Publish, TypeOK
    <2>2. StableOf(w)'
        BY <1>1, <1>2, <1>13 DEF StableOf, Returned, Publish, TypeOK
    <2>3. QED
        BY <2>1, <2>2
<1>14. ASSUME NEW w \in Callers, Close(w) PROVE \A v \in Callers : StableOf(v)'
    BY <1>2, <1>14, StableUntouched DEF Close
<1>15. CASE UNCHANGED vars
    BY <1>2, <1>15, StableUntouched DEF vars
<1>16. QED
    BY <1>3, <1>4, <1>5, <1>6, <1>8, <1>10, <1>11, <1>12, <1>13, <1>14, <1>15
    DEF Next, Step, Fails

THEOREM ViewInvariant == Spec => []ViewInv
<1>1. Init => ViewInv
    <2>1. Init => TypeOK
        BY DEF Init, TypeOK, Asks, Places, Results, NoEntry
    <2>2. QED
        BY <2>1 DEF Init, ViewInv, SeenOf, StableOf, Returned, NoEntry
<1>2. ViewInv /\ [Next]_vars => ViewInv'
    BY TypeInductive, ViewSeen, ViewStable DEF ViewInv
<1>3. QED
    BY <1>1, <1>2, PTL DEF Spec

(* A fan-out that returns has reached every channel that was a member all  *)
(* the while, unless its read failed.                                      *)
THEOREM StableMembersCorrect == Spec => []StableMembersReached
<1>1. ViewInv => StableMembersReached
    BY DEF ViewInv, StableOf, StableMembersReached
<1>2. QED
    BY <1>1, ViewInvariant, PTL

(* What is left of DiscardTakesEffect: a discard that returns, and whose   *)
(* read was answered, has seen its channel leave the group since it was    *)
(* called; only a read that failed lets it return in vain (nats.py         *)
(* 105-111, 216-266).                                                      *)
DiscardsIfRead ==
    \A w \in Callers :
        Returned(w, "discard") /\ ~blind[w] => ask[w].channel \notin stable[w]

THEOREM DiscardsIfReadCorrect == Spec => []DiscardsIfRead
<1>1. ViewInv => DiscardsIfRead
    BY DEF ViewInv, StableOf, DiscardsIfRead
<1>2. QED
    BY <1>1, ViewInvariant, PTL

-----------------------------------------------------------------------------
(* The calls implement the contract.                                       *)

Phases == [w \in Callers |-> Phase(w)]

(* What a step of w alone makes of the phases.                             *)
LEMMA PhaseStep ==
    ASSUME TypeOK, NEW w \in Callers,
           \A v \in Callers \ {w} :
              pc'[v] = pc[v] /\ ask'[v] = ask[v] /\ result'[v] = result[v] /\ blind'[v] = blind[v]
    PROVE  /\ Phases' = [Phases EXCEPT ![w] = Phase(w)']
           /\ Phases[w] = Phase(w)
           /\ Phase(w)' = Phase(w) => Phases' = Phases
<1>1. ASSUME NEW v \in Callers \ {w} PROVE Phase(v)' = Phase(v)
    BY <1>1 DEF Phase
<1>2. Phases' = [Phases EXCEPT ![w] = Phase(w)']
    BY <1>1 DEF Phases
<1>3. Phases[w] = Phase(w)
    BY DEF Phases
<1>4. Phase(w)' = Phase(w) => Phases' = Phases
    BY <1>1 DEF Phases
<1>5. QED
    BY <1>2, <1>3, <1>4

(* The phases of a membership call, place by place.                        *)
LEMMA PhaseValues ==
    ASSUME NEW w \in Callers
    PROVE  /\ ask[w].op = "send" => Phase(w) = Group!NoCall
           /\ ask[w].op # "send" /\ pc[w] \in {"get", "write"} =>
                 Phase(w) = Group!Open(ask[w])
           /\ ask[w].op # "send" /\ pc[w] = "answer" => Phase(w) = Group!Effected(ask[w])
           /\ pc[w] = "idle" => Phase(w) \in {Group!NoCall, Group!Raised}
           /\ ask[w].op # "send" /\ pc[w] = "idle" /\ result[w] = "raised" =>
                 Phase(w) = Group!Raised
           /\ ask[w].op # "send" /\ pc[w] = "idle" /\ result[w] = "ok"
                 /\ ~(blind[w] /\ ask[w].op = "discard") => Phase(w) = Group!NoCall
BY DEF Phase, Group!NoCall, Group!Open, Group!Effected, Group!Raised

LEMMA AskKinds ==
    ASSUME TypeOK, NEW w \in Callers
    PROVE  ask[w].op # "send" => ask[w] \in Group!Asks
BY DEF TypeOK, Asks, Group!Asks

LEMMA MutatedIsAfter ==
    ASSUME NEW w \in Callers, NEW S
    PROVE  Mutated(w, S) = Group!After(ask[w], S)
BY DEF Mutated, Group!After

ContractStep == Group!Next \/ UNCHANGED <<members, Phases>>

LEMMA SameProceed ==
    ASSUME ViewInv, NEW w \in Callers, pc[w] = "get", NEW entry, Proceed(w, entry),
           NEW b \in BOOLEAN, blind' = [blind EXCEPT ![w] = b],
           ~b => entry.channels = members,
           b => entry.channels = {}
    PROVE  ContractStep
<1>1. TypeOK /\ UNCHANGED <<members, ask>>
    BY DEF ViewInv, Proceed
<1>2. \A v \in Callers \ {w} :
         pc'[v] = pc[v] /\ ask'[v] = ask[v] /\ result'[v] = result[v] /\ blind'[v] = blind[v]
    BY <1>1 DEF Proceed, Goes, Ends, TypeOK
<1>3. CASE ask[w].op = "send"
    <2>1. Phase(w) = Group!NoCall /\ Phase(w)' = Group!NoCall
        BY <1>1, <1>3 DEF Phase, Group!NoCall
    <2>2. QED
        BY <1>1, <1>2, <2>1, PhaseStep DEF ContractStep
<1>4. CASE ask[w].op # "send" /\ Mutated(w, entry.channels) # entry.channels
    <2>1. pc'[w] = "write"
        BY <1>1, <1>4 DEF Proceed, Goes, TypeOK
    <2>2. Phase(w) = Phase(w)'
        BY <1>1, <1>4, <2>1 DEF Phase
    <2>3. QED
        BY <1>1, <1>2, <2>2, PhaseStep DEF ContractStep
<1>5. CASE ask[w].op # "send" /\ Mutated(w, entry.channels) = entry.channels
    <2>1. pc'[w] = "idle" /\ result'[w] = "ok" /\ blind'[w] = b
        BY <1>1, <1>5 DEF Proceed, Ends, TypeOK
    <2>2. Phase(w) = Group!Open(ask[w])
        BY <1>5, PhaseValues
    <2>3. CASE b /\ ask[w].op = "discard"
        <3>1. Phase(w)' = Group!Raised
            BY <1>1, <1>5, <2>1, <2>3 DEF Phase, Group!Raised
        <3>2. Group!Raise(w, ask[w])
            BY <1>1, <1>2, <2>2, <3>1, PhaseStep DEF Group!Raise, Phases
        <3>3. QED
            BY <1>1, <1>5, <3>2, AskKinds DEF ContractStep, Group!Next
    <2>4. CASE ~(b /\ ask[w].op = "discard")
        <3>1. Phase(w)' = Group!NoCall
            BY <1>1, <1>5, <2>1, <2>4 DEF Phase, Group!NoCall
        <3>2. ~b
            <4>1. ask[w].op # "discard" => ask[w].op = "add"
                BY <1>1, <1>5 DEF TypeOK, Asks
            <4>2. QED
                BY <1>5, <2>4, <4>1 DEF Mutated
        <3>3. members = Group!After(ask[w], members)
            BY <1>5, <3>2, MutatedIsAfter
        <3>4. Group!Return(w, ask[w])
            BY <1>1, <1>2, <2>2, <3>1, <3>3, PhaseStep DEF Group!Return, Phases
        <3>5. QED
            BY <1>1, <1>5, <3>4, AskKinds DEF ContractStep, Group!Next
    <2>5. QED
        BY <2>3, <2>4
<1>6. QED
    BY <1>3, <1>4, <1>5

(* A round that ends without success repeats the call, or raises.          *)
LEMMA SameRetry ==
    ASSUME ViewInv, NEW w \in Callers, pc[w] \in {"write", "answer"}, Retry(w)
    PROVE  ContractStep
<1>1. TypeOK /\ UNCHANGED <<members, ask, blind>> /\ ask[w].op # "send"
    BY DEF ViewInv, Retry, TypeOK
<1>2. \A v \in Callers \ {w} :
         pc'[v] = pc[v] /\ ask'[v] = ask[v] /\ result'[v] = result[v] /\ blind'[v] = blind[v]
    BY <1>1 DEF Retry, Goes, Ends, TypeOK
<1>3. Phase(w) \in {Group!Open(ask[w]), Group!Effected(ask[w])}
    BY <1>1, PhaseValues
<1>4. CASE LastRound(w)
    <2>1. pc'[w] = "idle" /\ result'[w] = "raised"
        BY <1>1, <1>4 DEF Retry, Ends, TypeOK
    <2>2. Phase(w)' = Group!Raised
        BY <1>1, <2>1 DEF Phase, Group!Raised
    <2>3. Group!Raise(w, ask[w])
        BY <1>1, <1>2, <1>3, <2>2, PhaseStep DEF Group!Raise, Phases
    <2>4. QED
        BY <1>1, <2>3, AskKinds DEF ContractStep, Group!Next
<1>5. CASE ~LastRound(w)
    <2>1. pc'[w] = "get"
        BY <1>1, <1>5 DEF Retry, Goes, NextRound, TypeOK
    <2>2. Phase(w)' = Group!Open(ask[w])
        BY <1>1, <2>1 DEF Phase, Group!Open
    <2>3. CASE Phase(w) = Group!Open(ask[w])
        BY <1>1, <1>2, <2>2, <2>3, PhaseStep DEF ContractStep
    <2>4. CASE Phase(w) = Group!Effected(ask[w])
        <3>1. Group!Repeat(w, ask[w])
            BY <1>1, <1>2, <2>2, <2>4, PhaseStep DEF Group!Repeat, Phases
        <3>2. QED
            BY <1>1, <3>1, AskKinds DEF ContractStep, Group!Next
    <2>5. QED
        BY <1>3, <2>3, <2>4
<1>6. QED
    BY <1>4, <1>5

LEMMA StepImplements ==
    ASSUME ViewInv, [Next]_vars
    PROVE  ContractStep
<1>1. TypeOK /\ (members # {} => revision # 0)
    BY DEF ViewInv
<1>2. ASSUME UNCHANGED <<members, pc, ask, result, blind>> PROVE ContractStep
    BY <1>2 DEF ContractStep, Phases, Phase
<1>3. ASSUME NEW w \in Callers, NEW a \in Asks, Call(w, a) PROVE ContractStep
    <2>1. /\ UNCHANGED <<members, result>>
          /\ pc'[w] = "get" /\ ask'[w] = a
          /\ \A v \in Callers \ {w} : pc'[v] = pc[v] /\ ask'[v] = ask[v]
                                         /\ result'[v] = result[v] /\ blind'[v] = blind[v]
        BY <1>1, <1>3 DEF Call, Goes, TypeOK
    <2>2. Phase(w) \in {Group!NoCall, Group!Raised}
        BY <1>3, PhaseValues DEF Call
    <2>3. CASE a.op = "send"
        <3>1. Phase(w)' = Group!NoCall
            BY <2>1, <2>3 DEF Phase, Group!NoCall
        <3>2. CASE Phase(w) = Group!NoCall
            BY <1>1, <2>1, <3>1, <3>2, PhaseStep DEF ContractStep
        <3>3. CASE Phase(w) = Group!Raised
            <4>1. Group!Forget(w)
                BY <1>1, <2>1, <3>1, <3>3, PhaseStep DEF Group!Forget, Phases
            <4>2. QED
                BY <4>1 DEF ContractStep, Group!Next
        <3>4. QED
            BY <2>2, <3>2, <3>3
    <2>4. CASE a.op # "send"
        <3>1. Phase(w)' = Group!Open(a)
            BY <2>1, <2>4 DEF Phase, Group!Open
        <3>2. Group!Invoke(w, a)
            BY <1>1, <2>1, <2>2, <3>1, PhaseStep DEF Group!Invoke, Phases
        <3>3. a \in Group!Asks
            BY <2>4 DEF Asks, Group!Asks
        <3>4. QED
            BY <3>2, <3>3 DEF ContractStep, Group!Next
    <2>5. QED
        BY <2>3, <2>4
<1>4. ASSUME NEW w \in Callers, Get(w) PROVE ContractStep
    BY <1>1, <1>4, EntryIsCurrent, SameProceed DEF Get
<1>5. ASSUME NEW w \in Callers, GetFails(w) PROVE ContractStep
    BY <1>1, <1>5, EntryIsCurrent, SameProceed DEF GetFails
<1>6. ASSUME NEW w \in Callers, Write(w) PROVE ContractStep
    <2>1. /\ UNCHANGED <<ask, blind, result>> /\ pc'[w] = "answer" /\ ask[w].op # "send"
          /\ \A v \in Callers \ {w} : pc'[v] = pc[v] /\ ask'[v] = ask[v]
                                         /\ result'[v] = result[v] /\ blind'[v] = blind[v]
        BY <1>1, <1>6 DEF Write, Goes, TypeOK
    <2>2. Phase(w) = Group!Open(ask[w])
        BY <1>6, <2>1, PhaseValues DEF Write
    <2>3. Phase(w)' = Group!Effected(ask[w])
        BY <2>1 DEF Phase, Group!Effected
    <2>4. members' = Group!After(ask[w], members)
        BY <1>6, WriteEffect, MutatedIsAfter
    <2>5. Group!TakeEffect(w, ask[w])
        BY <1>1, <2>1, <2>2, <2>3, <2>4, PhaseStep DEF Group!TakeEffect, Phases
    <2>6. QED
        BY <1>1, <2>1, <2>5, AskKinds DEF ContractStep, Group!Next
<1>7. ASSUME NEW w \in Callers, Answer(w) PROVE ContractStep
    <2>1. /\ UNCHANGED <<members, ask, blind>> /\ ask[w].op # "send"
          /\ pc'[w] = "idle" /\ result'[w] = "ok"
          /\ \A v \in Callers \ {w} : pc'[v] = pc[v] /\ ask'[v] = ask[v]
                                         /\ result'[v] = result[v] /\ blind'[v] = blind[v]
        BY <1>1, <1>7 DEF Answer, Ends, TypeOK
    <2>2. Phase(w) = Group!Effected(ask[w])
        BY <1>7, <2>1, PhaseValues DEF Answer
    <2>3. CASE blind[w] /\ ask[w].op = "discard"
        <3>1. Phase(w)' = Group!Raised
            BY <2>1, <2>3 DEF Phase, Group!Raised
        <3>2. Group!Raise(w, ask[w])
            BY <1>1, <2>1, <2>2, <3>1, PhaseStep DEF Group!Raise, Phases
        <3>3. QED
            BY <1>1, <2>1, <3>2, AskKinds DEF ContractStep, Group!Next
    <2>4. CASE ~(blind[w] /\ ask[w].op = "discard")
        <3>1. Phase(w)' = Group!NoCall
            BY <2>1, <2>4 DEF Phase, Group!NoCall
        <3>2. Group!Return(w, ask[w])
            BY <1>1, <2>1, <2>2, <3>1, PhaseStep DEF Group!Return, Phases
        <3>3. QED
            BY <1>1, <2>1, <3>2, AskKinds DEF ContractStep, Group!Next
    <2>5. QED
        BY <2>3, <2>4
<1>8. ASSUME NEW w \in Callers, Conflict(w) \/ WriteFails(w) PROVE ContractStep
    BY <1>8, SameRetry DEF Conflict, WriteFails
<1>9. ASSUME NEW w \in Callers, pc[w] = "fan", UNCHANGED <<members, ask, blind>>,
             NEW how \in Results, Ends(w, how)
      PROVE  ContractStep
    <2>1. /\ ask[w].op = "send" /\ ask'[w].op = "send"
          /\ \A v \in Callers \ {w} : pc'[v] = pc[v] /\ ask'[v] = ask[v]
                                         /\ result'[v] = result[v] /\ blind'[v] = blind[v]
        BY <1>1, <1>9 DEF Ends, TypeOK
    <2>2. Phase(w)' = Phase(w)
        BY <2>1 DEF Phase
    <2>3. QED
        BY <1>1, <1>9, <2>1, <2>2, PhaseStep DEF ContractStep
<1>10. ASSUME NEW w \in Callers, FanOutEnds(w) \/ FanOutRaises(w) PROVE ContractStep
    BY <1>9, <1>10 DEF FanOutEnds, FanOutRaises, AfterPublishError, Results
<1>11. ASSUME NEW w \in Callers, NEW c \in Channels, Publish(w, c) PROVE ContractStep
    BY <1>2, <1>11 DEF Publish
<1>12. ASSUME NEW w \in Callers, Close(w) PROVE ContractStep
    BY <1>2, <1>12 DEF Close
<1>13. CASE UNCHANGED vars
    BY <1>2, <1>13 DEF vars
<1>14. QED
    BY <1>3, <1>4, <1>5, <1>6, <1>7, <1>8, <1>10, <1>11, <1>12, <1>13
    DEF Next, Step, Fails

(* The read-modify-write loops of any number of processes implement the    *)
(* contract: no update is lost, and a call that returns has taken effect,  *)
(* but for a discard whose read failed.                                    *)
THEOREM ContractImplemented == Spec => ImplementsContract
<1>1. Init => Group!Init
    BY DEF Init, Group!Init, Phase, Group!NoCall
<1>2. ViewInv /\ [Next]_vars => [Group!Next]_(Group!vars)
    BY StepImplements DEF ContractStep, Phases, Group!vars
<1>3. QED
    BY <1>1, <1>2, ViewInvariant, PTL DEF Spec, ImplementsContract, Group!Spec
=============================================================================
