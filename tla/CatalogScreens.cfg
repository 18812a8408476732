SPECIFICATION ScreenSpec
CONSTANTS
  Nil = Nil
  o1 = o1
  o2 = o2
  old = old
  Text = {"name", "commission"}
  Words = {" x"}
  Alloc = {"asset_class"}
  Options = {o1, o2}
  Percents = {0, 1000}
  Who = {"administrator", "manager"}
  Names = {"new"}
  Scores = {75, 120}
  Alts = {"alias"}
  Rates = {"5", ".5"}
  Number <- MCNumber
  Readable = {"5"}
  Trims <- MCTrims
  Entities <- MCEntities
  Rows <- MCRows
  Excel = {"name", "administrator", "manager", "asset_class", "return_rate"}
  Order <- MCOrder
  MaxRows = 2
  MaxWrites = 1
  Budgets <- MCBudgets
  Codes = {"r"}
  Series = {"s"}
  Admins = {"a"}
  Typeable = {}
  Unnamed = ""
  Terms <- MCTerms
  Tree <- MCTree
  MaxTasks = 1
  MaxSaves = 1
  MaxFaults = 1
INVARIANTS
  ScreenTypeOK
  FormIsSound
  PageSettles
PROPERTIES
  ExcelKept
  SavedIsShown
CHECK_DEADLOCK FALSE
