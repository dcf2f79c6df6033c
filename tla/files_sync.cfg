CONSTANTS
  v1 = v1
  v2 = v2
  old = old
  new = new
  Nothing = Nothing
  Directory = Directory
  CutShort = CutShort
  PVCs <- MCPVCs
  Paths <- MCPaths
  Contents <- MCContents
SPECIFICATION Spec
SYMMETRY PVCSymmetry
INVARIANTS
  BackupIsFilteredView
  RestoreIsExact
PROPERTIES
  NeverDeletesWhatItCopies
