CONSTANTS
  e1 = e1
  p1 = p1
  p2 = p2
  a = a
  b = b
  c = c
  Executions = {e1}
  Processes = {p1, p2}
  Nodes = {a, b, c}
  Definitions <- AllDefinitions
  MaxRetries = 1
  MaxNodes = 3
  Guard = Guard
  NoNode = NoNode
  NoExecution = NoExecution
  EventBound = 2
SPECIFICATION Spec
INVARIANTS  SuccessIsComplete ChildrenAfterParents AttemptsBounded
PROPERTY LifecycleKept
SYMMETRY Symmetry
CHECK_DEADLOCK FALSE
