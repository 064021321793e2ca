---------------------------- MODULE MCRedisQueue ----------------------------
(* One Redis inbox and one group for TLC: two senders and two receivers;   *)
(* two tasks that change the group and send to it; or a bit of everything. *)
EXTENDS RedisQueue

CONSTANTS s1, s2, r1, r2, x, y

MCSenders == {s1, s2}
MCReceivers == {r1, r2}
MCOthers == {y}
MCMixes ==
    [calls : {{"send", "receive"}}, limit : {2},
     usePubsub : BOOLEAN, expiry : BOOLEAN, groupExpiry : {FALSE}]
    \cup [calls : {{"add", "discard", "fan"}}, limit : {4},
          usePubsub : {TRUE}, expiry : {TRUE}, groupExpiry : BOOLEAN]
    \cup [calls : {{"add", "fan", "receive"}, {"add", "fan", "close"}}, limit : {2},
          usePubsub : {FALSE}, expiry : {TRUE}, groupExpiry : {TRUE}]
    \cup [calls : {{"send", "receive", "close"}}, limit : {1},
          usePubsub : {FALSE}, expiry : {FALSE}, groupExpiry : {FALSE}]
=============================================================================
