SPECIFICATION MCSpec
CONSTANTS
  a = a  b = b  c = c  k1 = k1  k2 = k2
  Nodes <- Three
  Creator = a
  Rank <- RankOf
  Capacity = 3
  ChunkSize = 2
  Links <- Clique
  Observers <- Nobody
  Calls <- TwoForC
  Leavers <- JustB
  Tasks <- TwoTasks
  MaxLosses = 0
  MaxRestarts = 0
CHECK_DEADLOCK FALSE
INVARIANTS RemoveWins Converged
PROPERTIES ViewSpec GroupExchangesEnd
