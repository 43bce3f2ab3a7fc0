SPECIFICATION FairSpec
CONSTANTS
  p1 = p1  p2 = p2  c1 = c1  c2 = c2  None = None
  Peers <- TwoPeers
  Calls <- TwoCalls
  Drivers <- Both
  Size = 3
  MaxEvents = 1
  MaxStorage = 2
CHECK_DEADLOCK FALSE
INVARIANTS HonestNeverCorrupt
PROPERTIES KeepsWhatArrived NeverHangsAtOnce
