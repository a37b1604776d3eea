SPECIFICATION Spec
CONSTANTS
  q1 = q1
  q2 = q2
  k1 = k1
  k2 = k2
  NoSession = NoSession
  Requests = {q1, q2}
  Streaming = {q2}
  Tokened = {q1, q2}
  Keys = {k1}
  Key <- OneKey
  Estimate <- OneAndTwo
  Costs = {1, 2, 3}
  TokenLimit = 3
  MaxConcurrent = 1
  MaxAttempts = 2
  FaultBound = 1
INVARIANT SlotsAreHeld
INVARIANT WithinLimit
INVARIANT ReservationsHaveOwners
 
INVARIANT OneAnswerPerSession
INVARIANT AnswersAreCharged
INVARIANT AnswersAreRecorded
CHECK_DEADLOCK FALSE
