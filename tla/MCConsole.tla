----------------------------- MODULE MCConsole -----------------------------
(* The console on two events, one of them selected when the page loads.    *)
EXTENDS Console

MCEvents == {[id |-> 1, source |-> "auth.log", severity |-> "INFO", preset |-> FALSE],
             [id |-> 2, source |-> "nginx", severity |-> "ALERT", preset |-> TRUE]}
=============================================================================
