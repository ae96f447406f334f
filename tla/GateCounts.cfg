SPECIFICATION Spec
CONSTANTS
  Attachments = {a1, a2, a3}
  MaxKicks = 2
  Word = 8
SYMMETRY Symmetry
INVARIANT NoneOpenNoneCounted
