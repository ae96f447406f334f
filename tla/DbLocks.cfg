SPECIFICATION Spec
CONSTANTS
  o1 = o1
  o2 = o2
  o3 = o3
  relation = relation
  probe = probe
  Probe = probe
  Owners <- ThreeAndProbe
  Locks <- LocksOfThree
  Consistency <- OneCaller
  Relations <- OneRelation
  Timeouts = {1}
  MaxTime = 2
CHECK_DEADLOCK FALSE
INVARIANTS TypeOK EndedMeansEnded HeldIffLive NoOrphanWait NoLostWait ProtectedFromWriters
PROPERTIES ReservationsLast GrantBeatsTimeout EveryWaitReturns
