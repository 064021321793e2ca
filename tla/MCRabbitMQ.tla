----------------------------- MODULE MCRabbitMQ -----------------------------
(* One layer on RabbitMQ for TLC: two tasks, which between them make every *)
(* call; both may receive from the one channel.                            *)
EXTENDS RabbitMQ, TLC

CONSTANTS r, q, x

MCTasks == {r, q}
MCChannels == {x}
MCTimed == {r}
MCUses == (r :> {<<"receive", x>>, <<"fan", x>>})
       @@ (q :> {<<"receive", x>>, <<"send", x>>, <<"add", x>>, <<"discard", x>>})
=============================================================================
