--------------------------- MODULE GroupContract ---------------------------
(***************************************************************************)
(* What the membership calls of one group promise when several processes   *)
(* share the backend: each call takes effect in one step, at least once    *)
(* before it returns normally (a call whose answer was lost is tried       *)
(* again), and a call that raises promises nothing.                        *)
(***************************************************************************)
CONSTANTS Callers, Channels

VARIABLES
    members,  \* the channels in the group
    phase     \* phase[w]: where w's call is

vars == <<members, phase>>

Asks == [op : {"add", "discard"}, channel : Channels]

(* The group after a call of which nothing has failed.                     *)
After(ask, set) ==
    IF ask.op = "add" THEN set \cup {ask.channel} ELSE set \ {ask.channel}

NoCall == [at |-> "none"]
Raised == [at |-> "raised"]
Open(ask) == [at |-> "open", ask |-> ask]
Effected(ask) == [at |-> "effected", ask |-> ask]

Init ==
    /\ members = {}
    /\ phase = [w \in Callers |-> NoCall]

Invoke(w, ask) ==
    /\ phase[w] \in {NoCall, Raised}
    /\ phase' = [phase EXCEPT ![w] = Open(ask)]
    /\ UNCHANGED members

TakeEffect(w, ask) ==
    /\ phase[w] = Open(ask)
    /\ members' = After(ask, members)
    /\ phase' = [phase EXCEPT ![w] = Effected(ask)]

(* The answer is lost: the call is made again.                             *)
Repeat(w, ask) ==
    /\ phase[w] = Effected(ask)
    /\ phase' = [phase EXCEPT ![w] = Open(ask)]
    /\ UNCHANGED members

(* A normal return: the call has taken effect, or had nothing to do.       *)
Return(w, ask) ==
    /\ \/ phase[w] = Effected(ask)
       \/ phase[w] = Open(ask) /\ members = After(ask, members)
    /\ phase' = [phase EXCEPT ![w] = NoCall]
    /\ UNCHANGED members

(* The call raises.                                                        *)
Raise(w, ask) ==
    /\ phase[w] \in {Open(ask), Effected(ask)}
    /\ phase' = [phase EXCEPT ![w] = Raised]
    /\ UNCHANGED members

Forget(w) ==
    /\ phase[w] = Raised
    /\ phase' = [phase EXCEPT ![w] = NoCall]
    /\ UNCHANGED members

Next ==
    \E w \in Callers :
        \/ Forget(w)
        \/ \E ask \in Asks :
              \/ Invoke(w, ask) \/ TakeEffect(w, ask) \/ Repeat(w, ask)
              \/ Return(w, ask) \/ Raise(w, ask)

Spec == Init /\ [][Next]_vars
=============================================================================
