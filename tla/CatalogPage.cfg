SPECIFICATION Spec
CONSTANTS
  e1 = e1  e2 = e2  f = f  g = g  x = x  y = y  z = z  some = some  deleted = deleted
  Id = {e1, e2}
  Field = {f, g}
  Value = {x, y, z}
  Inputs = {x, y}
  Query = {some, deleted}
  Finds <- MCFinds
  Searched = f
  WithDeleted = {deleted}
  Unlisted = {y}
  Named = {f}
  NameOf <- MCNameOf
  Fixes <- MCFixes
  NoScore = y
  Trimmed <- MCTrimmed
  Managed = {f}
  Coded = {e1}
  Stored <- MCStored
  First = some
  Complete <- MCComplete
  Incoming <- MCIncoming
  None = None
  MaxEvents = 2
  MaxCalls = 1
INVARIANTS
  TypeOK
  PageIsTrue
  SelectionIsVisible
  ButtonsComeBack
PROPERTY
  EditsKeepOthers
CHECK_DEADLOCK FALSE
