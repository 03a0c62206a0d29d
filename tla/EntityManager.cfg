CONSTANTS
  InitCapacity = 1
  MaxCalls = 4
SPECIFICATION Spec
INVARIANTS
  OverflowNeedsFailure
  WildHasCause
  SearchComplete
PROPERTIES
  ImplementsList
