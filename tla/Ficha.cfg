SPECIFICATION FichaSpec
CONSTANTS
  f1 = f1  f2 = f2  a1 = a1  b1 = b1  u1 = u1  u2 = u2
  s1 = s1  s2 = s2  ad = ad
  p = p  fijo60 = fijo60  fijo = fijo  club = club  c1 = c1  c2 = c2
  Null = Null  Absent = Absent
  Empty = Empty  Junk = Junk  NoRow = NoRow  Unnamed = Unnamed
  Ficha = {f1, f2}
  Line = {a1, b1}
  FichaOf <- MCFichaOf
  ClientOf <- MCClientOf
  Filter = {"todas", "en_proceso"}
  Stored = {f1}
  InitMapped = {a1, b1}
  None = None
  MaxActs = 5
  MaxCalls = 1
  MaxFaults = 1
  CardId = {c1, c2}
  Key = {s1, s2, ad}
  Product = p
  Parent <- MCParent
  Allocation = {fijo60, fijo, club}
  Whole <- MCWhole
  StoredRows <- MCCatalog
  Grain = 3
  MaxText = 1
  Matches = {0, 18}
  MaxCardActs = 3
  MaxCardFaults = 1
SYMMETRY Cards
INVARIANTS
  FichaTypeOK
  HoldingsAreApproved
  HoldingIsWhole
  WaitingHasCalls

  
CHECK_DEADLOCK FALSE
