CONSTANTS
  a = a
  a_b = a_b
  c = c
  Keys <- MCKeys
  Above <- MCAbove
  Sizes <- MCSizes
  MaxTime = 3
  MaxWrites = 3
SPECIFICATION Spec
INVARIANTS
  AsOfIsWhatWasHeld
  PinnedDownloadIsExact
  FailedDownloadKeepsFiles
  RestoreIsExact
\* Nothing need happen once the application and the clock are at their bounds.
CHECK_DEADLOCK FALSE
