SPECIFICATION FairServicesSpec
CONSTANTS
  a = a  b = b  j1 = j1  j2 = j2  j3 = j3
  s1 = s1  s2 = s2  raw = raw  word = word
  Nodes <- TwoNodes
  Asks <- AAsksB
  MaxRequests = 2
  MaxKeyCalls = 1
  MaxEpoch = 1
  Quota = 1
  MaxMoves = 2
  Jobs <- ThreeJobs
  Size = 1
  Depth = 1
  MaxResets = 1
  Seeds <- TwoPhrases
  RawKeys <- OneRawKey
  Passphrases <- OneWord
  MaxStarts = 2
  MaxEdits = 2
  MaxCalls = 1
  MaxRejects = 1
CHECK_DEADLOCK FALSE
INVARIANTS VouchersAreSigned CreditedOnce NoJobLost SameKeyOpens OneIdentity DisconnectKeeps
PROPERTIES AskersAreTold EverySubmitSettles Settles
