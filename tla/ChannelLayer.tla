---------------------------- MODULE ChannelLayer ----------------------------
(***************************************************************************)
(* What every channel layer promises its users, taken from the interface   *)
(* BaseChannelLayer (backends/base.py) and from what consumers.py relies   *)
(* on.  A channel is an inbox read in the order it was filled, a group is  *)
(* a set of channels, and a receive that finds the inbox empty waits.      *)
(* The backends are shown to implement this specification.                 *)
(***************************************************************************)
EXTENDS Sequences

CONSTANTS
    Channels,   \* channel names
    Groups,     \* group names
    Receivers,  \* the calls of receive that may be under way at once
    Messages    \* message values

VARIABLES
    open,       \* close has not been called
    members,    \* members[g]: the channels of group g
    inbox,      \* inbox[c]: the messages accepted for c and not yet received
    pending     \* pending[c]: the receives waiting on c

vars == <<open, members, inbox, pending>>

Init ==
    /\ open = TRUE
    /\ members = [g \in Groups |-> {}]
    /\ inbox = [c \in Channels |-> <<>>]
    /\ pending = [c \in Channels |-> {}]

Deliver(cs, m) ==
    inbox' = [c \in Channels |->
                IF c \in cs THEN Append(inbox[c], m) ELSE inbox[c]]

(* "Send a message to a single channel."                                   *)
Send(c, m) ==
    /\ open
    /\ Deliver({c}, m)
    /\ UNCHANGED <<open, members, pending>>

GroupAdd(g, c) ==
    /\ open
    /\ members' = [members EXCEPT ![g] = @ \cup {c}]
    /\ UNCHANGED <<open, inbox, pending>>

GroupDiscard(g, c) ==
    /\ open
    /\ members' = [members EXCEPT ![g] = @ \ {c}]
    /\ UNCHANGED <<open, inbox, pending>>

(* A fan-out reaches members only.  Members whose channel refuses the      *)
(* message are left out, so `reached` is any set of members.               *)
GroupSend(g, m) ==
    /\ open
    /\ \E reached \in SUBSET members[g] : Deliver(reached, m)
    /\ UNCHANGED <<open, members, pending>>

(* A receive that finds a message returns it at once ...                   *)
Take(c) ==
    /\ open
    /\ inbox[c] # <<>>
    /\ inbox' = [inbox EXCEPT ![c] = Tail(@)]
    /\ UNCHANGED <<open, members, pending>>

(* ... and one that finds none waits,                                      *)
Call(c, r) ==
    /\ open
    /\ inbox[c] = <<>>
    /\ pending' = [pending EXCEPT ![c] = @ \cup {r}]
    /\ UNCHANGED <<open, members, inbox>>

(* until it returns the oldest message                                     *)
Return(c, r) ==
    /\ r \in pending[c]
    /\ inbox[c] # <<>>
    /\ inbox' = [inbox EXCEPT ![c] = Tail(@)]
    /\ pending' = [pending EXCEPT ![c] = @ \ {r}]
    /\ UNCHANGED <<open, members>>

(* or fails: a timeout, a cancelled task or a closed layer.                *)
Fail(c, r) ==
    /\ r \in pending[c]
    /\ pending' = [pending EXCEPT ![c] = @ \ {r}]
    /\ UNCHANGED <<open, members, inbox>>

Close ==
    /\ open
    /\ open' = FALSE
    /\ members' = [g \in Groups |-> {}]
    /\ UNCHANGED <<inbox, pending>>

Next ==
    \/ \E c \in Channels, m \in Messages : Send(c, m)
    \/ \E g \in Groups, c \in Channels : GroupAdd(g, c) \/ GroupDiscard(g, c)
    \/ \E g \in Groups, m \in Messages : GroupSend(g, m)
    \/ \E c \in Channels : Take(c)
    \/ \E c \in Channels, r \in Receivers :
          Call(c, r) \/ Return(c, r) \/ Fail(c, r)
    \/ Close

(* A waiting receive does not sleep beside a message for ever.             *)
Fairness == \A c \in Channels : WF_vars(\E r \in Receivers : Return(c, r))

Spec == Init /\ [][Next]_vars /\ Fairness
=============================================================================
