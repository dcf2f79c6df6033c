SPECIFICATION Spec
CONSTANTS
  Configs <- MCConfigs
  BackoffLimit = 1
  MaxJobs = 2
  MaxFaults = 2
INVARIANTS
  TypeOK
  PublishedIsOwnCapture
  RestoredIsPublished
  RetriesAbsorbFailures
PROPERTIES
  DeletesOnlyItsOwn
  EveryJobEnds
