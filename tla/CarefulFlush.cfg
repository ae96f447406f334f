SPECIFICATION Spec
CONSTANTS
  Pages = {0, 1, 2, 3, 4}
  Header = 0
  RelatedLimit = 1000
CHECK_DEADLOCK FALSE
INVARIANTS NothingIntoSpace AllocatedBetween HeaderFirst TipLast AllWrittenOnce
PROPERTIES FlushEnds
