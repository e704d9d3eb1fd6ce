SPECIFICATION Spec
CONSTANTS
  Schema <- MCPictures
  TableOrder <- MCTableOrder
  Row = {r1, r2}
  Null = Null
  Default = Default
  Shared = Shared
  FkAtOpen = TRUE
  OneFilePerSecond = TRUE
  MaxCommands = 3
  MaxDeaths = 1
  MaxRows <- MCMaxRows
SYMMETRY MCRows
CHECK_DEADLOCK FALSE
INVARIANT NothingLeftToDo
