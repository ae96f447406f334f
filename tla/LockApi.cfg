SPECIFICATION Spec
CONSTANTS
  a = a
  b = b
  c = c
  l1 = l1
  l2 = l2
  Owners <- TwoOwners
  Locks <- OneLock
  RequestModes = {2, 3, 4}
  Deadlines = {1}
  DataWords = {7}
  MaxRequests = 4
SYMMETRY SymTwoOwners
CHECK_DEADLOCK FALSE
INVARIANTS TypeOK CountsExact QueueHasHolder DataDiesWithLock
