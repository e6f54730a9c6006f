SPECIFICATION Spec
CONSTANTS
  ByteBits = 2
  Wide = 3
  Word = 5
  CounterMax = 255
  binary_op <- mock_binary_op
  unary_op <- mock_unary_op
  ternary_op <- mock_ternary_op
  encode_constant_bytes <- store_bytes
  decrypt <- mock_decrypt
  Encryptions <- MCEncryptions
  Literals <- MCLiterals
  Arrays <- MCArrays
  Params <- MCParams
  Inputs <- MCInputs
  Locals <- MCLocals
  Exprs <- MCExprs
  Results <- MCResults
  MaxNodes = 7
INVARIANTS TypeOK OutputsAreMeanings OverflowIsRefused ConstantsShared
\* A function has an end.
CHECK_DEADLOCK FALSE
