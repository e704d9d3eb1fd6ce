SPECIFICATION Spec
CONSTANTS
  Schema <- MCAdded
  TableOrder <- MCTableOrder
  Row = {r1, r2}
  Null = Null
  Default = Default
  Shared = Shared
  FkAtOpen = TRUE
  OneFilePerSecond = TRUE
  MaxCommands = 2
  MaxDeaths = 0
  MaxRows <- MCMaxRows
SYMMETRY MCRows
CHECK_DEADLOCK FALSE
INVARIANT HistoryAlwaysReplays
