SPECIFICATION Spec
CONSTANTS
  Names = {a, b}
  Waits <- MCWaits
  MaxChanges = 2
  MaxExpiries = 1
INVARIANTS
  VerdictIsTrue
PROPERTIES
  NothingIsMissed
  SettledIsNoticed
