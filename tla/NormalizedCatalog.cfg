SPECIFICATION Spec
CONSTANTS
  p1 = p1  p2 = p2  s1 = s1  s2 = s2  a1 = a1
  r1 = r1  r2 = r2
  Product = {p1, p2}
  Series = {s1, s2}
  Admin = {a1}
  Parent <- MCTree
  NoKey = NoKey
  Request = {r1, r2}
  Num = 1
  Den = 2
  MaxOps = 2
SYMMETRY MCSymmetry
INVARIANTS
  TypeOK
  NoOrphans
  MatchesWorkbook
CHECK_DEADLOCK FALSE
