SPECIFICATION CacheSpec
CONSTANTS
  Pages = {1, 2, 3, 4}
  RelatedLimit = 5
INVARIANTS FirstIsDirty NoCycle StackFollowsGraph FlushLeavesNothing
PROPERTIES OperationsReturn
