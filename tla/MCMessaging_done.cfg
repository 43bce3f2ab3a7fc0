SPECIFICATION Spec
CONSTANTS
  a = a  b = b  m1 = m1  f1 = f1  NoMsg = NoMsg  Gone = Gone
  Nodes <- Pair
  Msgs <- OneMsg
  Author <- ByA
  Rank <- RankOf
  Anonymous <- None
  Rich <- None
  Passes <- OnePass
  GuestLists <- NobodyAndB
  Contacts <- Strangers
  Declared <- Undeclared
  Editors <- Pair
  MaxChanges = 4
  MaxLosses = 0
  MaxWire = 1
CHECK_DEADLOCK FALSE
INVARIANTS DoneMeansHanded
