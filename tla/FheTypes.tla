------------------------------ MODULE FheTypes ------------------------------
(***************************************************************************)
(* The types of encrypted values (encrypt-types/src/types.rs), shared by   *)
(* the graph, the compiler of the graph language and the mock engine.  A   *)
(* plaintext is a little-endian sequence of bytes, and ByteBits stands for *)
(* the eight bits of a byte.  One type of each class is modelled; a vector *)
(* has two elements, as EUint32768Vector has, because a read that starts   *)
(* past the end of a shorter operand panics from the third element on.     *)
(***************************************************************************)
EXTENDS Integers, Sequences

CONSTANTS ByteBits

ASSUME SizesAssumption == ByteBits \in Nat \ {0}

Byte == 2 ^ ByteBits

Elems == 2

FheType == {"EBool", "EUint8", "EUint16", "E16BitVector", "EUint8Vector"}

byte_width == [EBool |-> 1, EUint8 |-> 1, EUint16 |-> 2, E16BitVector |-> 2, EUint8Vector |-> Elems]

is_vector(t) == t \in {"E16BitVector", "EUint8Vector"}

is_arithmetic_vector(t) == t = "EUint8Vector"

scalar_element_type(t) == IF t = "EUint8Vector" THEN "EUint8" ELSE IF t = "E16BitVector" THEN "EBool" ELSE t

u128_to_bytes(v, width) == [i \in 1 .. width |-> (v \div (Byte ^ (i - 1))) % Byte]

\* The operations with a variant whose right operand is one scalar for every element.
ScalarVariant ==
  [Add |-> "AddScalar", Multiply |-> "MultiplyScalar", Subtract |-> "SubtractScalar", Divide |-> "DivideScalar",
   Modulo |-> "ModuloScalar", Min |-> "MinScalar", Max |-> "MaxScalar", Xor |-> "XorScalar", And |-> "AndScalar",
   Or |-> "OrScalar", IsLessThan |-> "IsLessThanScalar", IsEqual |-> "IsEqualScalar",
   IsNotEqual |-> "IsNotEqualScalar", IsGreaterThan |-> "IsGreaterThanScalar",
   IsGreaterOrEqual |-> "IsGreaterOrEqualScalar", IsLessOrEqual |-> "IsLessOrEqualScalar"]

=============================================================================
