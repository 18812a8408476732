SPECIFICATION FairSpec
CONSTANTS
  u1 = u1  u2 = u2  p1 = p1  p2 = p2  c1 = c1  c2 = c2  x = x
  r1 = r1  r2 = r2  r3 = r3
  Blank = Blank  Keep = Keep  NoRow = NoRow  NoOp = NoOp
  User = {u1}
  Product = {p1, p2}
  Core = {c1}
  Isin = {Blank}
  Source = {"agent"}
  Request = {r1, r2, r3}
  Edits <- MCOneEdit
  Genesis <- MCGenesisTwo
PROPERTY
  EveryRequestAnswered
CHECK_DEADLOCK FALSE
