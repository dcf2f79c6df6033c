CONSTANTS
  Granule = 2
  MaxTime = 6
  MaxCommits = 2
SPECIFICATION RecoverySpec
INVARIANTS
  FenceMakesTargetReachable
  CloneIsAtPoint
\* A clone that is ready, or has failed, is the end of the action.
CHECK_DEADLOCK FALSE
