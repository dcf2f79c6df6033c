SPECIFICATION Spec
CONSTANTS
  Configs <- MCColliding
  BackoffLimit = 0
  MaxJobs = 1
  MaxFaults = 0
INVARIANT
  PublishedIsOwnCapture
