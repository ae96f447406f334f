SPECIFICATION Spec
CONSTANTS
  Rows = {r1}
  Slots = {s1, s2}
  MaxTx = 3
  MaxVersions = 3
  MaxFaults = 1
  MaxMarks = 1
  IdsPerTip = 3
  Beyond = {}
SYMMETRY Symmetry
CHECK_DEADLOCK FALSE
INVARIANTS TypeOK RepeatableRead WritesOverWhatItSees ToldTheTruth AllOrNothing  OitIsHonest
