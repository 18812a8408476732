SPECIFICATION TabsSpec
CONSTANTS
  b = b  p1 = p1  p2 = p2  k1 = k1  k2 = k2
  User = {u}
  Browser = {b}
  Page = {p1, p2}
  Task = {k1, k2}
  Home <- MCHome
  PageOf <- MCPair
  NoToken = NoToken
  AccessTTL = 1
  RefreshTTL = 2
  MaxTime = 2
  MaxEntries = 2
  MaxFaults = 1
INVARIANTS
  TypeOK
  NoDeadCookie
PROPERTY
  EveryCallReturns
