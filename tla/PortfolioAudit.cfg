SPECIFICATION Spec
CONSTANTS
  u1 = u1  u2 = u2  p1 = p1  p2 = p2  c1 = c1  c2 = c2  x = x
  r1 = r1  r2 = r2  r3 = r3
  Blank = Blank  Keep = Keep  NoRow = NoRow  NoOp = NoOp
  User = {u1, u2}
  Product = {p1, p2}
  Core = {c1, c2}
  Isin = {Blank, x}
  Source = {"api", "agent"}
  Request = {r1, r2, r3}
  Edits <- MCEdits
  Genesis <- MCGenesis
SYMMETRY RequestSymmetry
INVARIANTS
  TypeOK
  LogExplainsProducts
  SnapshotIsOneMoment
  ApiChangesOwnProduct
PROPERTIES
  SavedRowsAreLive
  ImplementsAuditedPortfolio
CHECK_DEADLOCK FALSE
