CONSTANTS
  b1 = b1
  w1 = w1
  w2 = w2
  w3 = w3
  Batches = {b1}
  Workers = {w1, w2, w3}
  NoWorker = NoWorker
  Limit = 2
  MaxJobAttempts = 3
SPECIFICATION PollingFairSpec
INVARIANT EndIsFinalised
INVARIANT CorrectionsAreCounted
PROPERTY EndIsFinal
PROPERTY PollingEnds
CHECK_DEADLOCK FALSE
