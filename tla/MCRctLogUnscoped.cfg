\* Two sibling blocks holding the same transaction, whose logs differ.
CONSTANTS
  t1 = t1  t2 = t2  a1 = a1  a2 = a2  x1 = x1  x2 = x2  s1 = s1  b1 = b1  b2 = b2
  Addrs <- MCAddrs
  TopicVals <- MCTopicVals
  Slots <- MCSlots
  Branches <- MCBranches
  TxSrc <- MCTxSrc
  TxDst <- MCTxDst
  NodeChoices <- MCNoNodes
  Filters <- MCFilters
  UncleChoices = {FALSE}
  Txs <- MCOneTx
  Positions <- MCPositions
  Logs <- MCLogs
  Diffs = {1}
  MaxHeight = 1
  MaxHeaders = 2
  MaxTxs = 1
SPECIFICATION Spec
INVARIANT RctFilterCorrect
CHECK_DEADLOCK FALSE
