\* Three keys for two places, two spellings of each, one new filing, an answer
\* to each of two runs, a time limit of two ticks.
CONSTANTS
  Keys = {k1, k2, k3}
  Spellings = {s1, s2}
  Runs <- TwoRuns
  Answers <- OneAnswerEach
  Nothing = Nothing
  MaxEntries = 2
  Ttl = 2
  MaxFiling = 1
SPECIFICATION ServiceSpec
SYMMETRY ServiceSymmetry
INVARIANTS
  KeptWasReturned
PROPERTIES
  ImplementsFreshAnswers
