\* One contract, one linear chain: the deletion probe alone.
CONSTANTS
  c1 = c1  c2 = c2  k1 = k1  v1 = v1  v2 = v2  a = a  b = b
  Slots <- MCSlots
  Path <- MCPath
  Contracts <- MCOneContract
  Values <- MCOneValue
  Branches <- MCOneBranch
  MaxHeight = 3
  MaxHeaders = 3
  RemovedKeyed = FALSE
SPECIFICATION Spec
INVARIANT StorageAtCorrect
CHECK_DEADLOCK FALSE
