SPECIFICATION Spec
CONSTANTS
  Schema <- MCSchema
  TableOrder <- MCTableOrder
  Row = {r1, r2}
  Null = Null
  Default = Default
  Shared = Shared
  FkAtOpen = TRUE
  OneFilePerSecond = TRUE
  MaxCommands = 3
  MaxDeaths = 1
  MaxRows <- MCMaxRows
SYMMETRY MCRows
CHECK_DEADLOCK FALSE
INVARIANT TypeOK
INVARIANT PushReachesSchema
INVARIANT HistoryReplays
INVARIANT InSync
PROPERTY ReferencesSurvive
PROPERTY RowsKept
