SPECIFICATION MCSpec
CONSTANTS
  a = a  b = b  c = c  m1 = m1  m2 = m2  f1 = f1  thumb = thumb  NoMsg = NoMsg  Gone = Gone
  Nodes <- Pair
  Msgs <- OneMsg
  Author <- ByA
  Rank <- RankOf
  Anonymous <- OneMsg
  Rich <- None
  Passes <- OnePass
  GuestLists <- NobodyAndB
  Contacts <- Strangers
  Declared <- Undeclared
  Editors <- Pair
  MaxChanges = 3
  MaxLosses = 1
  MaxWire = 1
  Emojis <- OneEmoji
  MaxWrites = 3
  MaxSaves = 1
  MaxCrashes = 1
CHECK_DEADLOCK FALSE
INVARIANTS AnnouncedOnce RecordedFirst Isolation LastWord NoReplay
PROPERTIES InboundNeverAdmits RemovedStaysOut
