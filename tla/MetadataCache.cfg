SPECIFICATION Spec
CONSTANTS
  Sessions = {s1, s2}
  MaxDdl = 3
  MaxReloads = 1
  Beyond = {}
SYMMETRY Symmetry
CHECK_DEADLOCK FALSE
INVARIANTS CacheIsCurrent PlansAreCurrent
