SPECIFICATION FairSpec
CONSTANTS
  a = a  b = b  c1 = c1  c2 = c2  None = None
  Nodes <- TwoNodes
  Conns <- TwoConns
  MaxMoves = 1
CHECK_DEADLOCK FALSE
INVARIANTS StrangersLearnNothing
PROPERTIES PublishedArrives ExchangeEnds
