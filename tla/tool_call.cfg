SPECIFICATION Spec
CONSTANTS
  Sources <- MCSources
  Managed <- MCManaged
  Longer <- MCLonger
  PipeSize = 2
  BufferSize = 1
  MaxCalls = 3
  MaxFaults = 2
INVARIANTS
  DumpIsComplete
  RestoreIsExact
PROPERTIES
  OthersAreSpared
  CallsEnd
