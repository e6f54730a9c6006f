----------------------------- MODULE MockEngine -----------------------------
(***************************************************************************)
(* The mock compute engine: its operations on plaintexts                   *)
(* (encrypt-types/src/identifier.rs) and on digests                        *)
(* (encrypt-compute/src/mock.rs).  Wide stands for the sixteen bytes of a  *)
(* u128, the integer every scalar operation works in.  The operators named *)
(* mock_... after a method of the ComputeEngine trait are the values a run *)
(* gives the constants of ComputationGraph.                                *)
(***************************************************************************)
EXTENDS FheTypes, SequencesExt, Bitwise

CONSTANTS Wide

ASSUME WideAssumption == Wide \in Nat /\ Wide >= 2

\* One more than type_bit_mask: x & mask is x % modulus(t).
modulus(t) == CASE t = "EBool" -> 2 [] t = "EUint8" -> Byte [] t = "EUint16" -> Byte ^ 2 [] OTHER -> Byte ^ Wide

type_bit_count(t) == byte_width[t] * ByteBits

bytes_to_u128(d) == FoldRight(LAMBDA b, acc : b + Byte * acc, SubSeq(d, 1, IF Len(d) < Wide THEN Len(d) ELSE Wide), 0)

\* Element i of a value, zero where the value has ended.
element(d, i) == IF i <= Len(d) THEN d[i] ELSE 0

Bit(condition) == IF condition THEN 1 ELSE 0

complement(v, t) == modulus(t) - 1 - (v % modulus(t))

\* value << n, within a u128, and value >> n.
shl(v, n) == (v * 2 ^ n) % (Byte ^ Wide)

shr(v, n) == v \div (2 ^ n)

rotate(v, amount, t, left) ==
  LET bits  == type_bit_count(t)
      shift == amount % bits
  IN  IF shift = 0 THEN v
      ELSE IF left THEN shl(v, shift) | shr(v, bits - shift)
      ELSE shr(v, shift) | shl(v, bits - shift)

is_scalar_op(op) == \E base \in DOMAIN ScalarVariant : ScalarVariant[base] = op

base_op(op) == IF is_scalar_op(op) THEN CHOOSE base \in DOMAIN ScalarVariant : ScalarVariant[base] = op ELSE op

mock_binary_compute_value(op, a, b, t) ==
  CASE op = "Add"              -> (a + b) % modulus(t)
    [] op = "Multiply"         -> (a * b) % modulus(t)
    [] op = "Subtract"         -> (a - b) % modulus(t)
    [] op = "Divide"           -> IF b = 0 THEN 0 ELSE (a \div b) % modulus(t)
    [] op = "Modulo"           -> IF b = 0 THEN 0 ELSE (a % b) % modulus(t)
    [] op = "Min"              -> IF a < b THEN a ELSE b
    [] op = "Max"              -> IF a > b THEN a ELSE b
    [] op = "Xor"              -> (a ^^ b) % modulus(t)
    [] op = "And"              -> (a & b) % modulus(t)
    [] op = "Or"               -> (a | b) % modulus(t)
    [] op = "Nor"              -> complement(a | b, t)
    [] op = "Nand"             -> complement(a & b, t)
    [] op = "ShiftLeft"        -> IF b >= type_bit_count(t) THEN 0 ELSE shl(a, b) % modulus(t)
    [] op = "ShiftRight"       -> IF b >= type_bit_count(t) THEN 0 ELSE shr(a, b) % modulus(t)
    [] op = "RotateLeft"       -> rotate(a, b, t, TRUE) % modulus(t)
    [] op = "RotateRight"      -> rotate(a, b, t, FALSE) % modulus(t)
    [] op = "IsLessThan"       -> Bit(a < b)
    [] op = "IsEqual"          -> Bit(a = b)
    [] op = "IsNotEqual"       -> Bit(a # b)
    [] op = "IsGreaterThan"    -> Bit(a > b)
    [] op = "IsGreaterOrEqual" -> Bit(a >= b)
    [] op = "IsLessOrEqual"    -> Bit(a <= b)
    [] OTHER                   -> 0

mock_unary_compute_value(op, a, t) ==
  CASE op = "Negate"      -> (-a) % modulus(t)
    [] op = "Not"         -> complement(a, t)
    [] op = "ToBoolean"   -> Bit(a # 0)
    [] op = "ExtractLsbs" -> a % 2
    [] op = "ExtractMsbs" -> shr(a, type_bit_count(t) - 1) % 2
    [] op \in {"Bootstrap", "ThinBootstrap", "Into", "PackInto"} -> a % modulus(t)
    [] OTHER              -> 0

\* Scatter and the two assignments write a's positions in the order of the indices.
write_at(base, indices, values) ==
  FoldLeft(LAMBDA acc, i : IF element(indices, i) < Elems THEN [acc EXCEPT ![element(indices, i) + 1] = element(values, i)] ELSE acc,
           base, <<1, 2>>)

Zeros(width) == [i \in 1 .. width |-> 0]

mock_vector_gather(a, b) ==
  [i \in 1 .. Elems |-> IF element(b, i) < Elems THEN element(a, element(b, i) + 1) ELSE 0]

mock_vector_scatter(a, b) == write_at(Zeros(Elems), b, a)

mock_vector_get(a, b) ==
  [i \in 1 .. Elems |-> IF i = 1 /\ element(b, 1) < Elems THEN element(a, element(b, 1) + 1) ELSE 0]

mock_vector_assign(a, b, c) == write_at(a, b, c)

mock_vector_assign_scalars(a, b, c) == write_at(a, b, [i \in 1 .. Elems |-> element(c, 1)])

mock_binary_compute_value_bytes(op, a, b, t) ==
  IF is_arithmetic_vector(t) /\ op \in {"Gather", "Scatter", "Copy", "Get"}
  THEN CASE op = "Gather"  -> mock_vector_gather(a, b)
         [] op = "Scatter" -> mock_vector_scatter(a, b)
         [] op = "Copy"    -> b
         [] op = "Get"     -> mock_vector_get(a, b)
  ELSE IF is_vector(t)
  THEN [i \in 1 .. byte_width[t] |->
          mock_binary_compute_value(base_op(op), element(a, i),
                                    IF is_scalar_op(op) THEN bytes_to_u128(b) ELSE element(b, i),
                                    "EUint8") % Byte]
  ELSE u128_to_bytes(mock_binary_compute_value(op, bytes_to_u128(a), bytes_to_u128(b), t), byte_width[t])

mock_unary_compute_value_bytes(op, a, t) ==
  IF is_vector(t)
  THEN [i \in 1 .. byte_width[t] |-> mock_unary_compute_value(op, element(a, i), "EUint8") % Byte]
  ELSE u128_to_bytes(mock_unary_compute_value(op, bytes_to_u128(a), t), byte_width[t])

mock_select_value_bytes(cond, if_true, if_false) == IF bytes_to_u128(cond) # 0 THEN if_true ELSE if_false

mock_select_scalar_bytes(cond, if_true, if_false, t) ==
  IF is_arithmetic_vector(t)
  THEN [i \in 1 .. Elems |-> IF element(cond, i) # 0 THEN element(if_true, i) ELSE element(if_false, i)]
  ELSE mock_select_value_bytes(cond, if_true, if_false)

mock_ternary_compute_value_bytes(op, a, b, c, t) ==
  CASE op = "Assign" /\ is_arithmetic_vector(t)        -> mock_vector_assign(a, b, c)
    [] op = "AssignScalars" /\ is_arithmetic_vector(t) -> mock_vector_assign_scalars(a, b, c)
    [] op = "SelectScalar"                             -> mock_select_scalar_bytes(a, b, c, t)
    [] OTHER                                           -> a

-----------------------------------------------------------------------------
(***************************************************************************)
(* The engine.  A digest is the pair it is the hash of (keccak256 has no   *)
(* collisions); Uninitialized is the all-zero digest of an account nobody  *)
(* has committed to.  Every other digest of a run is in the engine's       *)
(* table, so a lookup gives back the bytes.                                *)
(***************************************************************************)
Uninitialized == [type |-> "none", bytes |-> <<>>]

store_bytes(t, bytes) == [type |-> t, bytes |-> bytes]

lookup(digest, t) == IF digest = Uninitialized THEN Zeros(byte_width[t]) ELSE digest.bytes

lookup_raw(digest) == IF digest = Uninitialized THEN Zeros(Wide) ELSE digest.bytes

mock_binary_op(op, lhs, rhs, t) == store_bytes(t, mock_binary_compute_value_bytes(op, lookup(lhs, t), lookup(rhs, t), t))

mock_unary_op(op, operand, t) == store_bytes(t, mock_unary_compute_value_bytes(op, lookup(operand, t), t))

\* A selection does not know its type: its digest says EUint64 and its bytes have the branch's own width.
mock_select(condition, if_true, if_false) ==
  store_bytes("EUint64",
              mock_select_value_bytes(lookup(condition, "EBool"), lookup_raw(if_true), lookup_raw(if_false)))

mock_ternary_op(op, a, b, c, t) ==
  IF op = "Select" THEN mock_select(a, b, c)
  ELSE store_bytes(t, mock_ternary_compute_value_bytes(op, lookup(a, t), lookup(b, t), lookup(c, t), t))

\* The plaintext is cut, or filled with zeros, to the width of the type asked for.
mock_decrypt(digest, t) == [i \in 1 .. byte_width[t] |-> element(lookup(digest, t), i)]

=============================================================================
