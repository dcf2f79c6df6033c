CONSTANTS
  p1 = p1
  p2 = p2
  p3 = p3
  PVCs <- MCPVCs
SPECIFICATION FairSpec
INVARIANTS
  FailureLeavesOnlyRefused
  PartialOnlyIfGrown
PROPERTIES
  SnapshotOutlivesBinding
  Returns
\* An operation that has returned has no next step.
CHECK_DEADLOCK FALSE
