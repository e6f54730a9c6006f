\* No mishap: liveness and the abstract service.
SPECIFICATION FairSpec
CONSTANTS
  u64 = u64
  Ciphertext = {a, b}
  Request = {r1}
  Value <- Bits
  ZeroValue = 0
  ZeroDigest = ZeroDigest
  Type <- OneType
  DefaultType = u64
  Width <- WidthOfOne
  MaxChunk = 1
  Graph <- AddMove
  Eval <- MCEval
  Null = Null
  MaxPending = 2
  Mishap = {}
PROPERTIES ImplementsService EveryRequestAnswered EveryOutputVerified
