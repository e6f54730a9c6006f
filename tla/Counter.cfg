CONSTANTS
  p1 = p1  p2 = p2
  r1 = r1  r2 = r2
  Value = Value  ZeroDigest = ZeroDigest  Null = Null
  SDK <- MCSDK
  Person <- MCPerson
  Ciphertext = {Value}
  Request <- MCRequest
  Modulus = 3
  MaxSteps = 4
SPECIFICATION AnySpec
INVARIANTS TypeOK CountIsSteps
PROPERTIES PublishedSinceRequest EventuallyRevealed
