------------------------------ MODULE MCAgentRun ------------------------------
(* Instances of AgentRun for TLC: an original with two corrections, of which   *)
(* the first is neither the root nor the latest filing of the chain.           *)
EXTENDS AgentRun, TLC

CONSTANTS o, c1, c2

ChainNames == (c1 :> {o, c1, c2}) @@ (c2 :> {o, c2})
===============================================================================
