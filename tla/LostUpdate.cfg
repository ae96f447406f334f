SPECIFICATION Spec
CONSTANTS
  Rows = {r1}
  Slots = {s1, s2}
  MaxTx = 4
  MaxVersions = 4
  MaxFaults = 0
  MaxMarks = 1
  IdsPerTip = 4
  Beyond = {"deadHead"}
SYMMETRY Symmetry
CHECK_DEADLOCK FALSE
INVARIANTS WritesOverWhatItSees
