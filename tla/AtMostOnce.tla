----------------------------- MODULE AtMostOnce -----------------------------
(***************************************************************************)
(* What becomes of each message in a backend that keeps it outside of the *)
(* process, whatever fails: it is returned by one receive at most, only    *)
(* after it was accepted, and what was returned or lost is so for good.    *)
(* The interface (backends/base.py) has a message sent to a channel and    *)
(* received from it; this is the sense in which it is one message.  Order  *)
(* and when a message may be lost are left to each backend.                *)
(***************************************************************************)
CONSTANTS
    Receivers,  \* those that call receive
    Messages    \* messages, each with an identity of its own

VARIABLES
    accepted,   \* the messages that reached the backend
    returned,   \* returned[r]: those that a receive of r has returned
    lost        \* those that no receive will return any more

vars == <<accepted, returned, lost>>

Outstanding == (accepted \ UNION {returned[r] : r \in Receivers}) \ lost

(* A backend may hold messages of earlier processes.                       *)
Init ==
    /\ accepted \in SUBSET Messages
    /\ returned = [r \in Receivers |-> {}]
    /\ lost = {}

(* Messages arrive: of a fan-out several at once.                          *)
Accept ==
    /\ accepted \subseteq accepted' /\ accepted' \subseteq Messages
    /\ UNCHANGED <<returned, lost>>

(* receive returns an outstanding message.                                 *)
Return(r) ==
    /\ \E m \in Outstanding : returned' = [returned EXCEPT ![r] = @ \cup {m}]
    /\ UNCHANGED <<accepted, lost>>

(* A failure or an expiry takes outstanding messages, never others.        *)
Lose ==
    /\ lost \subseteq lost' /\ lost' \subseteq lost \cup Outstanding
    /\ UNCHANGED <<accepted, returned>>

Next == Accept \/ Lose \/ \E r \in Receivers : Return(r)

Spec == Init /\ [][Next]_vars
=============================================================================
