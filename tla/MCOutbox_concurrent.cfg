SPECIFICATION FairSpec
CONSTANTS
  m1 = m1  m2 = m2  f1 = f1  f2 = f2  NoId = NoId
  Ids <- IdsOfTwo
  Passes <- TwoPasses
  MaxSize = 2
  MaxRestarts = 1
  MaxClears = 1
  MaxWriteErrors = 1
  MaxWrites = 2
CHECK_DEADLOCK FALSE
INVARIANTS NothingForgotten DurableUntilSent
PROPERTIES EventuallySent
