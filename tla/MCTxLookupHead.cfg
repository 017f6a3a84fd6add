\* Two branches whose heavier one at height 1 is not the head's ancestor.
CONSTANTS
  t1 = t1  t2 = t2  a1 = a1  a2 = a2  x1 = x1  x2 = x2  s1 = s1  b1 = b1  b2 = b2
  Addrs <- MCAddrs
  TopicVals <- MCTopicVals
  Slots <- MCSlots
  Branches <- MCBranches
  TxSrc <- MCTxSrc
  TxDst <- MCTxDst
  NodeChoices <- MCNoNodes
  Filters <- MCFilters
  UncleChoices = {FALSE}
  Txs <- MCOneTx
  Positions <- MCOnePosition
  Logs = {}
  Diffs = {1, 2}
  MaxHeight = 2
  MaxHeaders = 3
  MaxTxs = 1
SPECIFICATION Spec
INVARIANT TxLookupFollowsHead
CHECK_DEADLOCK FALSE
