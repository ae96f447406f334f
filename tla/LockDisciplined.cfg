SPECIFICATION DisciplinedSpec
CONSTANTS
  a = a
  b = b
  c = c
  l1 = l1
  l2 = l2
  Owners <- ThreeOwners
  Locks <- TwoLocks
  RequestModes = {3, 4}
  Deadlines = {1}
  DataWords = {}
  MaxRequests = 6
VIEW KnocksApart
SYMMETRY SymThreeTwo
CHECK_DEADLOCK FALSE
INVARIANTS GrantedCompatible OneRequest WaitForAcyclic
PROPERTIES NoOvertaking PurgeIsComplete
