----------------------------- MODULE MCInMemory -----------------------------
(* A small in-memory layer for TLC: two channels, one of them shared by    *)
(* two tasks, one group, capacities 0 (no limit), 1 and 2.                 *)
EXTENDS InMemory

CONSTANTS a, b, g, r1, r2, m1, m2

MCChannels == {a, b}
MCGroups == {g}
MCReceivers == {r1, r2}
MCMessages == {m1, m2}
MCCapacities == {0, 1, 2}
MCShared == {b}
MCOneCapacity == {1}

(* Nobody sends to a channel directly: every message comes by a fan-out.   *)
FanOutsOnly ==
    \/ \E c \in Channels, r \in Receivers : Receive(c, r) \/ Resume(c, r)
    \/ \E x \in Groups, c \in Channels : GroupAdd(x, c) \/ GroupDiscard(x, c)
    \/ \E x \in Groups, m \in Messages : GroupSend(x, m)
FanOutSpec == Init /\ [][FanOutsOnly]_vars
=============================================================================
