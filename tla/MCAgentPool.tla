----------------------------- MODULE MCAgentPool -----------------------------
(***************************************************************************)
(* Values for model checking AgentPool, which the cfg file selects.        *)
(***************************************************************************)
EXTENDS AgentPool

LongOnly == {1}
=============================================================================
