---------------------------- MODULE MCNatsGroups ----------------------------
(* One NATS group for TLC.                                                 *)
EXTENDS NatsGroups

CONSTANTS w1, w2, w3, x, y

MCCallers == {w1, w2, w3}
MCChannels == {x, y}
=============================================================================
