SPECIFICATION FairTrafficSpec
CONSTANTS
  a = a
  b = b
  Nodes = {a, b}
  Channels = {general, gated}
  Links <- Linked
  Gated = {gated}
  WindowQuota = 1
  MaxSends = 2
  MaxEpoch = 1
  MaxMoves = 1
  Replicas = {a, b}
  MaxChanges = 3
  MaxConnects = 2
  MaxSyncMoves = 1
  Subjects = {"slashing"}
INVARIANTS HonestNeverSlashed
PROPERTIES EvidenceBlacklists
CHECK_DEADLOCK FALSE
