\* The same instance without symmetry, one spelling.
CONSTANTS
  Keys = {k1}
  Spellings = {s1}
  Runs <- AnyRun
  Answers <- Responses
  Nothing = Nothing
  MaxEntries = 1
  Ttl = 1
  MaxFiling = 1
SPECIFICATION ServiceSpec
INVARIANTS
  TransientFailuresNotKept
