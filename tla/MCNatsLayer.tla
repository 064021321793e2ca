---------------------------- MODULE MCNatsLayer -----------------------------
(* A NATS layer for TLC: three callers on one group, two tasks that make   *)
(* their layer's client and subscriptions, or both.                        *)
EXTENDS NatsLayer, TLC

CONSTANTS w1, w2, w3, r, q, x, y

MCCallers == {w1, w2, w3}
MCChannels == {x, y}
MCTasks == {r, q}
MCTimed == {r}
MCMixes ==
    [calls : {{"add", "discard", "fan"}, {"add", "fan", "close"}}, inboxes : {{}}, given : {"nothing"}]
    \cup [calls : {{"send", "receive", "shut"}}, inboxes : {MCChannels},
          given : {"nothing", "client", "jetstream"}]
    \cup [calls : {{"add", "fan", "receive"}}, inboxes : {{x}, {y}},
          given : {"jetstream"}]

(* Callers and channels are interchangeable, and no property is a liveness *)
(* one.                                                                    *)
Symmetric == Permutations(MCCallers) \cup Permutations(MCChannels)
=============================================================================
