\* All safety properties, with every mishap.
SPECIFICATION Spec
CONSTANTS
  u64 = u64
  Ciphertext = {a, b}
  Request = {r1, r2}
  Value <- Bits
  ZeroValue = 0
  ZeroDigest = ZeroDigest
  Type <- OneType
  DefaultType = u64
  Width <- WidthOfOne
  MaxChunk = 1
  Graph <- MoveOnly
  Eval <- MCEval
  Null = Null
  MaxPending = 2
  Mishap = {"tx_fails", "graph_fails", "unregistered", "misregistered"}
SYMMETRY Symmetric
INVARIANTS TypeOK StoreAgreesWithChain SerialResult VerifiedIsCurrent
PROPERTIES AnswerIsCurrent AnswerIsWhole CompletedIsFinal
CONSTRAINT Bounded
