CONSTANTS
  Events <- MCEvents
  Granule = 2
  MaxTime = 5
SPECIFICATION Spec
INVARIANT SuccessLeavesNothing
CHECK_DEADLOCK FALSE
