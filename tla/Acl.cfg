CONSTANTS
  p1 = p1
  c1 = c1  c2 = c2
  r1 = r1  r2 = r2
  Permissions = Permissions  ZeroDigest = ZeroDigest  Null = Null
  Person <- MCPerson
  Ciphertext <- MCCiphertext
  Request <- MCRequest
  Bit <- MCBit
  Word <- MCWord
  MaxChanges = 2
SPECIFICATION AnySpec
CONSTRAINT Followed
INVARIANTS TypeOK MaskIsRights
PROPERTIES ImplementsAccessControl EventuallyTold
