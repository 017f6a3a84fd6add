\* One contract, one linear chain: a destroyed account.
CONSTANTS
  c1 = c1  c2 = c2  k1 = k1  v1 = v1  v2 = v2  a = a  b = b
  Slots <- MCSlots
  Path <- MCPath
  Contracts <- MCOneContract
  Values <- MCOneValue
  Branches <- MCOneBranch
  MaxHeight = 2
  MaxHeaders = 2
  RemovedKeyed = TRUE
SPECIFICATION Spec
INVARIANT AccountAtCorrect
CHECK_DEADLOCK FALSE
