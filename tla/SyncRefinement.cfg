SPECIFICATION FairSpec
CONSTANTS
  w1 = w1  w2 = w2  c1 = c1  c2 = c2  n1 = n1  n2 = n2  a = a  b = b  c = c
  Worker = {w1, w2}
  Run = {c1, c2, n1, n2}
  Loop = {c1, c2}
  Home <- MCHome
  Hash = {a, b, c}
  NoHash = NoHash
  Content <- MCDistinct
  MaxVersion = 3
  Conns = 3
  MaxRequests = 2
  MaxFaults = 1
  LockLoss = FALSE
PROPERTIES
  ImplementsSerialSync
  CatchesUp
