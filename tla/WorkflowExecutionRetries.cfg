CONSTANTS
  e1 = e1
  p1 = p1
  p2 = p2
  a = a
  b = b
  c = c
  Executions = {e1}
  Processes = {p1}
  Nodes = {a, b, c}
  Definitions <- AllDefinitions
  MaxRetries = 1
  MaxNodes = 3
  Guard = Guard
  NoNode = NoNode
  NoExecution = NoExecution
  EventBound = 0
SPECIFICATION FairSpec
PROPERTY RetriesHappen
CHECK_DEADLOCK FALSE
