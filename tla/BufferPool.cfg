SPECIFICATION Spec
CONSTANTS
  Threads = {t1, t2}
  Pages = {p1, p2}
  Writes = {w1, w2, w3}
  NoThread = NoThread
  MaxDepth = 2
  MaxFaults = 1
  MaxReloads = 1
  AttachUnsettled = FALSE
SYMMETRY Symmetry
CHECK_DEADLOCK FALSE
INVARIANTS AckedIsDurable
PROPERTIES ImageIsAtomic
