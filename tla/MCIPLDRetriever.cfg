\* Forks, reorgs, two contracts sharing a storage_path, removed rows keyed.
CONSTANTS
  c1 = c1  c2 = c2  k1 = k1  v1 = v1  v2 = v2  a = a  b = b
  Slots <- MCSlots
  Path <- MCPath
  Contracts <- MCContracts
  Values <- MCValues
  Branches <- MCBranches
  MaxHeight = 2
  MaxHeaders = 4
  RemovedKeyed = TRUE
SPECIFICATION Spec
INVARIANTS NoStaleValue
PROPERTIES AccountReadStable
CHECK_DEADLOCK FALSE
