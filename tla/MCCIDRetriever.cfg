\* Forks with shared transactions whose logs differ, and blocks that write or destroy contract a1.
CONSTANTS
  t1 = t1  t2 = t2  a1 = a1  a2 = a2  x1 = x1  x2 = x2  s1 = s1  b1 = b1  b2 = b2
  Txs <- MCTxs
  Addrs <- MCAddrs
  TopicVals <- MCTopicVals
  Positions <- MCPositions
  Slots <- MCSlots
  Branches <- MCBranches
  Diffs = {1, 2}
  TxSrc <- MCTxSrc
  TxDst <- MCTxDst
  MaxHeight = 2
  MaxHeaders = 2
  MaxTxs = 1
  UncleChoices = {FALSE, TRUE}
  NodeChoices <- MCNodes
  Filters <- MCFilters
  Logs <- MCLogs
SPECIFICATION Spec
INVARIANTS LogFilterCorrect NestedTxsLookup StorageFilterCorrect
CHECK_DEADLOCK FALSE
