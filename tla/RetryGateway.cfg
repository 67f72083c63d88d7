\* A tick is 0.05 s at the lower limits; the upper ones are scaled down.
CONSTANTS
  Budgets = {0, 2, 4, 5, 10, 16, 28}
  Delays = {0, 1, 2, 4}
  HardDeadline = 20
  RetryWindow = 8
  MaxDelay = 2
  MinAttempt = 2
  MaxRetries = 1
  MinRequest = 4
  MinConnect = 1
  MaxConnect = 3
  MaxRead = 10
  MaxPieces = 1
  MaxOversleep = 1
SPECIFICATION FairSpec
INVARIANTS
  NeverLate
PROPERTIES
  ReplayIsAllowed
  CallEnds
