SPECIFICATION Spec
CONSTANTS
  o1 = o1
  o2 = o2
  o3 = o3
  relation = relation
  probe = probe
  Probe = probe
  Owners <- TwoAndProbe
  Locks <- LocksOfTwo
  Consistency <- TwoCallers
  Relations <- OneRelation
  Timeouts = {1}
  MaxTime = 1
CHECK_DEADLOCK FALSE
INVARIANTS ProtectedFromWriters
