SPECIFICATION Spec
CONSTANTS
  q1 = q1
  q2 = q2
  k1 = k1
  k2 = k2
  NoSession = NoSession
  Requests = {q1}
  Streaming = {q1}
  Tokened = {q1}
  Keys = {k1}
  Key <- OneKey
  Estimate <- TwoEach
  Costs = {1, 2}
  TokenLimit = 4
  MaxConcurrent = 1
  MaxAttempts = 2
  FaultBound = 0
INVARIANT DisconnectsAreClosed
CHECK_DEADLOCK FALSE
