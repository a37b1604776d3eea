SPECIFICATION Spec
CONSTANTS
  Requests = {p1, p2}
  Replies <- SomeReplies
  MaxIterations = 2
  MaxTools = 3
  FaultBound = 1
CONSTRAINT Bounded
SYMMETRY Interchangeable
CHECK_DEADLOCK FALSE
INVARIANT ApprovedBeforeExecuted
INVARIANT AnsweredBeforeAsked
 
INVARIANT CompletedIsFinished
 
