\* A budget of two tool calls, which the listings and the preflight can overrun,
\* three model calls, two calls in a response; no symmetry, for the run's
\* liveness.
CONSTANTS
  o = o
  c1 = c1
  c2 = c2
  Plain = {o}
  Corrections = {c1, c2}
  Names <- ChainNames
  Reads = {r1}
  Lookups = {l1}
  NoCall = NoCall
  MaxToolCalls = 2
  MaxModelCalls = 3
  MaxTurn = 2
  MaxCompanies = 2
SPECIFICATION FairSpec
INVARIANTS
  AgentTypeOK
  ToolCallsBounded
  DraftsKnowHistory
PROPERTIES
  RunEnds
