SPECIFICATION FairSpec
CONSTANTS
  a = a  b = b
  Nodes <- TwoNodes
  MaxTasks = 4
  MaxCalls = 2
  MaxMoves = 2
CHECK_DEADLOCK FALSE
INVARIANTS OneSession
PROPERTIES EveryoneSettles
