----------------------------- MODULE MCWatchdog -----------------------------
(***************************************************************************)
(* Two agents and one reader; silence for one interval is the limit.       *)
(***************************************************************************)
EXTENDS Watchdog, TLC

Symmetry == Permutations(Agents)
=============================================================================
