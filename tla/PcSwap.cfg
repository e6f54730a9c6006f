CONSTANTS
  p1 = p1  p2 = p2  Null = Null
  HeldByFirst = 3  HeldBySecond = 1
  Person <- MCPerson
  Held <- MCHeld
  Amount = {1, 3}
  Word = 8192
SPECIFICATION Spec
INVARIANTS TypeOK VaultsCover SharesAreSupply
PROPERTIES ShareKeepsWorth PayoutsArrive
CONSTRAINT Followed
