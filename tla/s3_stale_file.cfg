CONSTANTS
  a = a
  a_b = a_b
  c = c
  Keys <- MCKeys
  Above <- MCAbove
  Sizes <- MCSizes
  MaxTime = 3
  MaxWrites = 2
SPECIFICATION Spec
INVARIANT DownloadIsExactMirror
CHECK_DEADLOCK FALSE
