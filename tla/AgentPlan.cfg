SPECIFICATION Spec
CONSTANTS
  Requests = {p1, p2}
  Tools = {"read", "send"}
  Plans <- TwoPlans
  Policies <- Stricter
  MaxSteps = 4
  EditBound = 2
  DepBound = 1
  FaultBound = 1
CONSTRAINT Bounded
SYMMETRY Interchangeable
CHECK_DEADLOCK FALSE
INVARIANT PlanIsAsEdited
INVARIANT StepsRunInOrder
INVARIANT ApprovedBeforeRun
INVARIANT CompletedIsDone
INVARIANT LastDoneCompletes
