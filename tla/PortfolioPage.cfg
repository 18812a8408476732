SPECIFICATION PageSpec
CONSTANTS
  p1 = p1  p2 = p2  x = x  y = y  z = z  cx = cx  cy = cy
  Id = {p1, p2}
  Content = {x, y, z}
  ClassOf <- MCClassOf
  Kept <- MCKept
  Complete = {x}
  Stored <- MCStored
  None = None  Gone = Gone  New = New
  Tab = {"todos", cx}
  Versioned = TRUE
  MaxTurns = 1
  MaxActs = 2
  MaxCalls = 1
  MaxFaults = 1
  Product = {"p", "q"}
  Field = {"amount", "manager"}
  Value = {"1", "2", "m", "n"}
  Saves <- MCSaves
  Before = 2
  ListMax = 2
  PageSize = 1
  Logged = 2
  MaxLog = 3
  MaxHistoryCalls = 2
  MaxHistoryFaults = 1
INVARIANTS
  PageTypeOK
  PanelIsTrue
  SaveOfferedAfterTurns
  HistoryIsTrue
CHECK_DEADLOCK FALSE
