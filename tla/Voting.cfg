CONSTANTS
  p1 = p1  p2 = p2
  r1 = r1  r2 = r2  r3 = r3
  Yes = Yes  No = No  ZeroDigest = ZeroDigest  Null = Null  Spoiled = Spoiled
  SDK <- MCSDK
  Person <- MCPerson
  Ciphertext = {Yes, No}
  Request <- MCRequest
  MaxTotal = 1
SPECIFICATION LiveSpec
CONSTRAINT InOrder
INVARIANTS TypeOK TallyIsVotes
PROPERTIES  RevealedUnlessLost
\* The request accounts may be used up before anything is revealed.
CHECK_DEADLOCK FALSE
