----------------------------- MODULE MCAgentRoutes -----------------------------
(* Instances of AgentRoutes for TLC: three subjects with a filing each, one of *)
(* them a correction.                                                          *)
EXTENDS AgentRoutes, TLC

CONSTANTS a, b, c, s1, s2, s3

FilingSubjects == (a :> s1) @@ (b :> s2) @@ (c :> s3)

CorrectionNames == c :> {a, c}
===============================================================================
