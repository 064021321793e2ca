----------------------------- MODULE NatsGroups -----------------------------
(***************************************************************************)
(* The groups of NATSChannelLayer (backends/nats.py): one key of a         *)
(* key-value bucket per group, whose value lists the group's channels.     *)
(*                                                                         *)
(* group_add and group_discard read the key, change the set and write it   *)
(* back on condition that the revision is still the one they read, up to   *)
(* eight times; group_send reads the key and publishes to the channels it  *)
(* found, one after the other.  Callers are tasks of any number of         *)
(* processes; each await of theirs is a place where the others run.        *)
(*                                                                         *)
(* Groups share nothing, so the module is about one of them.  The bucket   *)
(* and JetStream are external: the bucket gives every write of a key,      *)
(* deletions included, the next revision, and any request may fail, a      *)
(* write also after it was applied.                                        *)
(***************************************************************************)
EXTENDS Integers, FiniteSets

CONSTANTS
    Callers,    \* tasks that call the layer
    Channels,   \* channel names
    Attempts,   \* rounds of the loop of _mutate_group_channels (8)
    MaxCalls,   \* bound on the number of calls
    MaxFaults   \* bound on the number of requests that fail

ASSUME AttemptsAssumption == Attempts \in Nat \ {0}
ASSUME BoundsAssumption == MaxCalls \in Nat /\ MaxFaults \in Nat

VARIABLES
    revision,  \* the bucket's revision of the key, 0 before its first write
    members,   \* the key's value; a missing or deleted key is the empty set
    closed,    \* the callers whose layer's _closed is set
    pc,        \* where each caller is
    ask,       \* what it was called for
    attempt,   \* rounds of the loop that have ended
    seen,      \* what its last read returned
    todo,      \* channels group_send has still to publish to
    result,    \* how its last call ended
    calls,     \* number of calls so far
    faults,    \* number of requests that failed
    blind,     \* history: the last read failed
    begun,     \* history: the revision when the call began
    failed,    \* history: failed requests of the call
    stable,    \* history: channels that were members ever since the call began
    reached    \* history: channels the call has published to

keyVars == <<revision, members>>
callVars == <<ask, calls, begun>>
fanVars == <<todo, reached>>
vars == <<keyVars, closed, pc, callVars, attempt, seen, fanVars, result,
          faults, blind, failed, stable>>

Asks == [op : {"add", "discard"}, channel : Channels] \cup {[op |-> "send"]}
Places == {"idle", "get", "write", "answer", "fan"}
Results == {"none", "ok", "raised"}

(* The entry read: _get_group_entry's None has no revision and no channel. *)
NoEntry == [revision |-> 0, channels |-> {}]
Entry == IF members = {} THEN NoEntry
         ELSE [revision |-> revision, channels |-> members]

Init ==
    /\ revision = 0 /\ members = {}
    /\ closed = {}
    /\ pc = [w \in Callers |-> "idle"]
    /\ ask = [w \in Callers |-> [op |-> "send"]]
    /\ attempt = [w \in Callers |-> 0]
    /\ seen = [w \in Callers |-> NoEntry]
    /\ todo = [w \in Callers |-> {}]
    /\ result = [w \in Callers |-> "none"]
    /\ calls = 0 /\ faults = 0
    /\ blind = [w \in Callers |-> FALSE]
    /\ begun = [w \in Callers |-> 0]
    /\ failed = [w \in Callers |-> 0]
    /\ stable = [w \in Callers |-> {}]
    /\ reached = [w \in Callers |-> {}]

(* The caller's call ends.                                                 *)
Ends(w, how) ==
    /\ pc' = [pc EXCEPT ![w] = "idle"]
    /\ result' = [result EXCEPT ![w] = how]

Goes(w, place) ==
    /\ pc' = [pc EXCEPT ![w] = place]
    /\ UNCHANGED result

(* A request of w fails.                                                   *)
Fault(w) ==
    /\ faults < MaxFaults
    /\ faults' = faults + 1
    /\ failed' = [failed EXCEPT ![w] = @ + 1]

NoFault == UNCHANGED <<faults, failed>>

(***************************************************************************)
(* group_add, group_discard and group_send                                 *)
(***************************************************************************)

(* _ensure_open is checked at the call only.                               *)
Call(w, a) ==
    /\ pc[w] = "idle"
    /\ w \notin closed
    /\ calls < MaxCalls
    /\ calls' = calls + 1
    /\ ask' = [ask EXCEPT ![w] = a]
    /\ Goes(w, "get")
    /\ attempt' = [attempt EXCEPT ![w] = 0]
    /\ seen' = [seen EXCEPT ![w] = NoEntry]
    /\ blind' = [blind EXCEPT ![w] = FALSE]
    /\ begun' = [begun EXCEPT ![w] = revision]
    /\ failed' = [failed EXCEPT ![w] = 0]
    /\ stable' = [stable EXCEPT ![w] = members]
    /\ reached' = [reached EXCEPT ![w] = {}]
    /\ UNCHANGED <<keyVars, closed, todo, faults>>

(* mutate(channels)                                                        *)
Mutated(w, channels) ==
    IF ask[w].op = "add" THEN channels \cup {ask[w].channel}
                         ELSE channels \ {ask[w].channel}

(* What w does with the entry it got: group_send walks through its         *)
(* channels, the others return early if there is nothing to change.        *)
Proceed(w, entry) ==
    /\ seen' = [seen EXCEPT ![w] = entry]
    /\ IF ask[w].op = "send"
       THEN Goes(w, "fan") /\ todo' = [todo EXCEPT ![w] = entry.channels]
       ELSE /\ UNCHANGED todo
            /\ IF Mutated(w, entry.channels) = entry.channels
               THEN Ends(w, "ok")
               ELSE Goes(w, "write")
    /\ UNCHANGED <<keyVars, closed, callVars, attempt, reached, stable>>

Get(w) ==
    /\ pc[w] = "get"
    /\ Proceed(w, Entry)
    /\ blind' = [blind EXCEPT ![w] = FALSE]
    /\ NoFault

(* `except Exception: return None`: a failed read looks like a missing key. *)
GetFails(w) ==
    /\ pc[w] = "get"
    /\ Fault(w)
    /\ Proceed(w, NoEntry)
    /\ blind' = [blind EXCEPT ![w] = TRUE]

(* Whether the bucket accepts w's write: create wants no live entry,       *)
(* update and delete want the revision that was read.                      *)
(* (AcceptsAny is a seeded fault, as are the other operators that stand    *)
(* before one of the same parameters and are used nowhere.)                *)
AcceptsAny(w) == TRUE
Accepts(w) ==
    IF seen[w].revision = 0 THEN members = {} ELSE revision = seen[w].revision

(* kv.create, kv.update or kv.delete is applied by the bucket.             *)
Write(w) ==
    /\ pc[w] = "write"
    /\ Accepts(w)
    /\ revision' = revision + 1
    /\ members' = Mutated(w, seen[w].channels)
    /\ stable' = [v \in Callers |->
                    IF pc[v] = "idle" THEN stable[v] ELSE stable[v] \cap members']
    /\ Goes(w, "answer")
    /\ UNCHANGED <<closed, callVars, attempt, seen, fanVars, faults, blind, failed>>

Answer(w) ==
    /\ pc[w] = "answer"
    /\ Ends(w, "ok")
    /\ UNCHANGED <<keyVars, closed, callVars, attempt, seen, fanVars, faults,
                   blind, failed, stable>>

(* `except Exception ... continue`: the next round reads again; after the  *)
(* last one the error is raised.                                           *)
OneRoundMore(w) == attempt[w] = Attempts
LastRound(w) == attempt[w] + 1 = Attempts
KeepEntry == "write"
NextRound == "get"
Retry(w) ==
    /\ attempt' = [attempt EXCEPT ![w] = @ + 1]
    /\ IF LastRound(w) THEN Ends(w, "raised") ELSE Goes(w, NextRound)
    /\ UNCHANGED <<keyVars, closed, callVars, seen, fanVars, blind, stable>>

Conflict(w) ==
    /\ pc[w] = "write"
    /\ ~Accepts(w)
    /\ Retry(w)
    /\ NoFault

(* The write does not reach the bucket, or its answer is lost.             *)
WriteFails(w) ==
    /\ pc[w] \in {"write", "answer"}
    /\ Fault(w)
    /\ Retry(w)

(* group_send: `await self.send(channel, message)` for each channel.       *)
Publish(w, c) ==
    /\ pc[w] = "fan"
    /\ w \notin closed
    /\ c \in todo[w]
    /\ todo' = [todo EXCEPT ![w] = @ \ {c}]
    /\ reached' = [reached EXCEPT ![w] = @ \cup {c}]
    /\ UNCHANGED <<keyVars, closed, pc, callVars, attempt, seen, result, faults,
                   blind, failed, stable>>

FanOutEnds(w) ==
    /\ pc[w] = "fan"
    /\ todo[w] = {}
    /\ Ends(w, "ok")
    /\ UNCHANGED <<keyVars, closed, callVars, attempt, seen, fanVars, faults,
                   blind, failed, stable>>

(* send raises: the publish fails, or the layer was closed in between.     *)
SwallowError == "ok"
AfterPublishError == "raised"
FanOutRaises(w) ==
    /\ pc[w] = "fan"
    /\ todo[w] # {}
    /\ \/ w \in closed /\ NoFault
       \/ w \notin closed /\ Fault(w)
    /\ Ends(w, AfterPublishError)
    /\ todo' = [todo EXCEPT ![w] = {}]
    /\ UNCHANGED <<keyVars, closed, callVars, attempt, seen, reached, blind, stable>>

Close(w) ==
    /\ w \notin closed
    /\ closed' = closed \cup {w}
    /\ UNCHANGED <<keyVars, pc, callVars, attempt, seen, fanVars, result, faults,
                   blind, failed, stable>>

Step(w) ==
    \/ Get(w) \/ Write(w) \/ Answer(w) \/ Conflict(w)
    \/ \E c \in Channels : Publish(w, c)
    \/ FanOutEnds(w) \/ FanOutRaises(w)

Fails(w) == GetFails(w) \/ WriteFails(w)

Next ==
    \/ \E w \in Callers : Step(w) \/ Fails(w)
    \/ \E w \in Callers, a \in Asks : Call(w, a)
    \/ \E w \in Callers : Close(w)

Spec == Init /\ [][Next]_vars

-----------------------------------------------------------------------------
(***************************************************************************)
(* Properties                                                              *)
(***************************************************************************)

(* Type invariant: every variable has its type; a caller that waits for an *)
(* entry or writes one is in a membership call or a fan-out as its place   *)
(* says, within the eight rounds.                                          *)
TypeOK ==
    /\ revision \in Nat /\ members \subseteq Channels
    /\ closed \subseteq Callers
    /\ pc \in [Callers -> Places]
    /\ ask \in [Callers -> Asks]
    /\ attempt \in [Callers -> 0 .. Attempts]
    /\ seen \in [Callers -> [revision : Nat, channels : SUBSET Channels]]
    /\ todo \in [Callers -> SUBSET Channels]
    /\ result \in [Callers -> Results]
    /\ calls \in Nat /\ faults \in Nat
    /\ blind \in [Callers -> BOOLEAN]
    /\ begun \in [Callers -> Nat] /\ failed \in [Callers -> Nat]
    /\ stable \in [Callers -> SUBSET Channels]
    /\ reached \in [Callers -> SUBSET Channels]
    /\ \A w \in Callers :
          /\ pc[w] \in {"write", "answer"} => ask[w].op # "send"
          /\ pc[w] = "fan" => ask[w].op = "send"
          /\ pc[w] # "idle" => attempt[w] < Attempts

Returned(w, op) == pc[w] = "idle" /\ result[w] = "ok" /\ ask[w].op = op

(* No round is wasted: every round that did not end a call was undone by   *)
(* another caller's write or by a request that failed, so a call gives up  *)
(* only if eight of them fell into it (nats.py 221-263).                   *)
RoundsAccountedFor ==
    \A w \in Callers : attempt[w] <= (revision - begun[w]) + failed[w]

(* A fan-out that returns, and whose read was answered, has published to   *)
(* every channel that was a member all the while, whatever joined or left  *)
(* in between (nats.py 113-118).                                           *)
StableMembersReached ==
    \A w \in Callers :
        Returned(w, "send") /\ ~blind[w] => stable[w] \subseteq reached[w]

(* The membership calls implement the contract for several processes: no   *)
(* write loses another's, and a call that returns has taken effect, unless *)
(* it is a discard that could not read the key (nats.py 101-111, 216-266). *)
Phase(w) ==
    IF ask[w].op = "send" THEN [at |-> "none"]
    ELSE CASE pc[w] \in {"get", "write"} -> [at |-> "open", ask |-> ask[w]]
           [] pc[w] = "answer" -> [at |-> "effected", ask |-> ask[w]]
           [] OTHER -> IF result[w] = "raised" \/ (blind[w] /\ ask[w].op = "discard")
                       THEN [at |-> "raised"] ELSE [at |-> "none"]
Group == INSTANCE GroupContract WITH phase <- [w \in Callers |-> Phase(w)]
ImplementsContract == Group!Spec

(* A discard that returns normally has removed the channel, or found it    *)
(* gone (tests/test_nats.py 192, test_group_discard_stops_future_delivery).*)
DiscardTakesEffect ==
    \A w \in Callers :
        Returned(w, "discard") => ask[w].channel \notin stable[w]
=============================================================================
