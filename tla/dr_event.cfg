CONSTANTS
  Events <- MCEvents
  Granule = 2
  MaxTime = 5
SPECIFICATION FairSpec
INVARIANTS
  AppTypeOK
  BaseBackupsPrecedePoint
  PointIsEarliestPin
  OnlyRefusedRemain
  StageFailuresReported
  ResourcesOutliveCalls
  BaseBackupOutlivesClone
  DoneWhenQuiet
PROPERTIES
  ImplementsDREvent
  EventEnds
\* A finished event has no next step.
CHECK_DEADLOCK FALSE
