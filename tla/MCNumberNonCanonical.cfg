\* One contract, two sibling headers at a height.
CONSTANTS
  c1 = c1  c2 = c2  k1 = k1  v1 = v1  v2 = v2  a = a  b = b
  Slots <- MCSlots
  Path <- MCPath
  Contracts <- MCOneContract
  Values <- MCValues
  Branches <- MCBranches
  MaxHeight = 1
  MaxHeaders = 2
  RemovedKeyed = TRUE
SPECIFICATION Spec
INVARIANT NumberReadsCanonical
CHECK_DEADLOCK FALSE
