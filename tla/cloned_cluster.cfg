SPECIFICATION Spec
INVARIANTS
  WaitsCanEnd
  ClusterNameIsFree
  NeededOutlivesUser
  OnlyRefusedOrPolicyRemains
\* A cluster that has been deleted has no next step.
CHECK_DEADLOCK FALSE
