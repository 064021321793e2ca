----------------------------- MODULE MCPostgres -----------------------------
(* One layer on PostgreSQL for TLC: two tasks, which between them make     *)
(* every call, on empty tables and on tables that others have left rows in.*)
EXTENDS Postgres, TLC

CONSTANTS r, q, x, y

MCTasks == {r, q}
MCChannels == {x, y}
MCUses == (r :> {<<"receive", x>>, <<"fan", x>>, <<"add", y>>})
       @@ (q :> {<<"receive", x>>, <<"send", x>>, <<"discard", x>>})
MCBacklog == <<x, x>>
=============================================================================
