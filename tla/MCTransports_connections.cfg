SPECIFICATION TransportsSpec
CONSTANTS
  a = a  b = b  i1 = i1  c1 = c1  c2 = c2  None = None
  Nodes <- TwoNodes
  Dialers <- OneNode
  Ids <- OneId
  MaxPipes = 2
  MaxFrames = 1
  MaxLosses = 1
  Own <- OwnTypes
  Builds <- SomeBuilds
  LegacyCount = 1
  MaxQuicFrames = 2
  Calls <- TwoCalls
  Relays = 2
  maxRetriesPerRelay = 2
  MaxRouteResets = 1
CHECK_DEADLOCK FALSE
INVARIANTS FramesAsSent EndsAgree SameStreams GoneIsNoticed Ladder
