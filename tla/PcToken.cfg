CONSTANTS
  p1 = p1  p2 = p2  a1 = a1  b1 = b1   t1 = t1  r1 = r1  r2 = r2
  ZeroDigest = ZeroDigest  Null = Null
  Person <- MCPerson
  Allowance <- MCAllowance
  Burned <- MCBurned
  Receipt <- MCReceipt
  Ciphertext <- MCCiphertext
  Request <- MCRequest
  Amount <- MCAmount
  Purse <- MCPurse
  ToSelf = FALSE
SPECIFICATION FairPartSpec
INVARIANTS TypeOK Backed
PROPERTIES ImplementsLedger EventuallyCompleted
CONSTRAINT Followed
