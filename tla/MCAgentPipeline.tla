-------------------------- MODULE MCAgentPipeline --------------------------
(* AgentPipeline with a log file and a journal. *)
EXTENDS AgentPipeline

MCMaxLines == [c \in Sources |-> IF c \in Files THEN 2 ELSE 1]
=============================================================================
