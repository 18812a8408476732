SPECIFICATION Spec
CONSTANTS
  a = a  b = b  fund = fund  bond = bond  typo = typo
  Card = {a, b}
  Name = {fund, bond, typo}
  NameOf <- MCNameOf
  Inside <- MCInside
  Other = typo
  Gaps = {b}
  None = None
  MaxTurns = 3
  MaxFaults = 1
INVARIANTS
  TypeOK
  AddedAsAgreed
  CardsTellTheTruth
PROPERTY
  TurnEnds
CHECK_DEADLOCK FALSE
