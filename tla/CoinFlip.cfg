CONSTANTS
  p1 = p1  p2 = p2  p3 = p3
  c1 = c1  c2 = c2
  r1 = r1  r2 = r2
  Result = Result  ZeroDigest = ZeroDigest  Null = Null
  SDK <- MCSDK
  Person <- MCPerson
  Ciphertext <- MCCiphertext
  Request <- MCRequest
  Commitment <- MCCommitment
  Bet <- MCBet
  Purse = 1
SPECIFICATION LiveSpec
CONSTRAINT InOrder
INVARIANTS TypeOK EscrowHeld RevealedIsCoin
PROPERTIES ImplementsWager EventuallyPaid
\* A game that is paid or called off is over.
CHECK_DEADLOCK FALSE
