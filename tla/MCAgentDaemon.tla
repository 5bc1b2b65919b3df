--------------------------- MODULE MCAgentDaemon ---------------------------
(***************************************************************************)
(* AgentDaemon on the spool of earlier runs, in which a failed Push has    *)
(* spoilt the record after it.  A start without a spool, or one that reads *)
(* none of it, begins with nothing to replay.                              *)
(***************************************************************************)
EXTENDS AgentDaemon

Rec(s, k, l) == [event |-> [source |-> s, n |-> k], legible |-> l]

MCLeft == {<<Fragment, Rec("log", 2, FALSE), Rec("files", 2, TRUE)>>}
=============================================================================
