SPECIFICATION CompensationFairSpec
CONSTANTS
  r1 = r1
  Requests = {r1}
  Workers = {w1, w2}
  Required <- Both
  Precision <- Exact
  Shared = {r1}
  NoWorker = noworker
  NoReport = noreport
  Limit = 1
  OverrunBound = 1
INVARIANTS CompletedMeansRefunded TokenRefundedOnce
PROPERTIES PromiseKept ArmedIsClosed
CHECK_DEADLOCK FALSE
