----------------------------- MODULE DslMeaning -----------------------------
(***************************************************************************)
(* The graph language: its expressions, which of them its documentation    *)
(* (docs/src/dsl/operations.md, conditionals.md, constants.md, vectors.md) *)
(* gives a meaning, and what they are worth.  The operands of an           *)
(* expression are names: the compiler binds the value of every             *)
(* subexpression to a temporary and goes on with its name, so that a       *)
(* nested expression is a sequence of bindings of one operation each.  A   *)
(* value is [t, v]: a type and its lanes, one number for a scalar, one for *)
(* each element of a vector and for each byte of a bit vector.  Nothing    *)
(* here is taken from the compiler or the engine: the bitwise operations   *)
(* are operations on sets of bits, and no value is a sequence of bytes.    *)
(***************************************************************************)
EXTENDS FheTypes, FiniteSetsExt

CONSTANTS
  Literals,      \* the numbers a program writes
  Arrays         \* the arrays a program writes, of a vector's elements or of a bit vector's bytes

ASSUME LiteralsAssumption == Literals \subseteq Nat /\ Arrays \subseteq Seq(0 .. Byte - 1)

\* Expressions.
Path(name)                 == [kind |-> "Path", name |-> name]
Lit(value)                 == [kind |-> "Lit", value |-> value]
Elements(values)           == [kind |-> "Array", values |-> values]
Method(receiver, m, args)  == [kind |-> "MethodCall", receiver |-> receiver, method |-> m, args |-> args]
Binary(left, op, right)    == [kind |-> "Binary", left |-> left, op |-> op, right |-> right]
Unary(op, operand)         == [kind |-> "Unary", op |-> op, operand |-> operand]
If(cond, then, else)       == [kind |-> "If", cond |-> cond, then |-> then, else |-> else]
Call(t, constructor, arg)  == [kind |-> "Call", type |-> t, method |-> constructor, arg |-> arg]

Operand == [kind : {"Path"}, name : STRING]

Constant == [kind : {"Lit"}, value : Literals] \cup [kind : {"Array"}, values : Arrays]

Syntax ==
  Operand
  \cup [kind : {"MethodCall"}, receiver : Operand, method : STRING, args : Seq(Operand)]
  \cup [kind : {"Binary"}, left : Operand, op : STRING, right : Operand \cup Constant]
  \cup [kind : {"Unary"}, op : STRING, operand : Operand]
  \cup [kind : {"If"}, cond : Operand, then : Operand, else : Operand]
  \cup [kind : {"Call"}, type : FheType, method : STRING, arg : Operand \cup Constant]

-----------------------------------------------------------------------------
\* The bits of a lane, and how many values it has.
Width(t) == CASE t = "EBool" -> 1 [] t = "EUint16" -> 2 * ByteBits [] OTHER -> ByteBits

Size(t) == 2 ^ Width(t)

Lanes(t) == IF is_vector(t) THEN 1 .. byte_width[t] ELSE {1}

BitsOf(n, w) == {i \in 0 .. w - 1 : (n \div (2 ^ i)) % 2 = 1}

FromBits(S) == MapThenSumSet(LAMBDA i : 2 ^ i, S)

\* What an operation makes of two numbers, in a lane of w bits.
LaneOp(op, x, y, w) ==
  LET X == BitsOf(x, w)
      Y == BitsOf(y, w)
      W == 0 .. w - 1
  IN  CASE op \in {"+", "add"}      -> (x + y) % (2 ^ w)
        [] op \in {"-", "subtract"} -> (x - y) % (2 ^ w)
        [] op \in {"*", "multiply"} -> (x * y) % (2 ^ w)
        [] op \in {"/", "divide"}   -> IF y = 0 THEN 0 ELSE x \div y
        [] op \in {"%", "modulo"}   -> IF y = 0 THEN 0 ELSE x % y
        [] op = "min"               -> CHOOSE n \in {x, y} : n <= x /\ n <= y
        [] op = "max"               -> (CHOOSE n \in {x, y} : n >= x /\ n >= y) % (2 ^ w)
        [] op \in {"&", "and"}      -> FromBits(X \cap Y)
        [] op \in {"|", "or"}       -> FromBits(X \cup Y)
        [] op \in {"^", "xor"}      -> FromBits((X \ Y) \cup (Y \ X))
        [] op = "nor"               -> FromBits(W \ (X \cup Y))
        [] op = "nand"              -> FromBits(W \ (X \cap Y))
        [] op \in {"<<", "shift_left"}  -> FromBits({i \in W : i - y \in X})
        [] op \in {">>", "shift_right"} -> FromBits({i \in W : i + y \in X})
        [] op = "rotate_left"       -> FromBits({i \in W : (i - y) % w \in X})
        [] op = "rotate_right"      -> FromBits({i \in W : (i + y) % w \in X})
        [] op \in {"==", "is_equal"}            -> IF x = y THEN 1 ELSE 0
        [] op \in {"!=", "is_not_equal"}        -> IF x = y THEN 0 ELSE 1
        [] op \in {"<", "is_less_than"}         -> IF x < y THEN 1 ELSE 0
        [] op \in {"<=", "is_less_or_equal"}    -> IF x <= y THEN 1 ELSE 0
        [] op \in {">", "is_greater_than"}      -> IF y < x THEN 1 ELSE 0
        [] op \in {">=", "is_greater_or_equal"} -> IF y <= x THEN 1 ELSE 0

\* What an operation makes of one.
LaneUnary(op, x, w) ==
  CASE op \in {"-", "negate"} -> (0 - x) % (2 ^ w)
    [] op \in {"!", "not"}    -> FromBits((0 .. w - 1) \ BitsOf(x, w))
    [] op = "to_boolean"      -> IF x = 0 THEN 0 ELSE 1
    [] op = "extract_lsbs"    -> IF 0 \in BitsOf(x, w) THEN 1 ELSE 0
    [] op = "extract_msbs"    -> IF w - 1 \in BitsOf(x, w) THEN 1 ELSE 0
    [] op \in {"bootstrap", "thin_bootstrap", "pack_into"} -> x

\* A scalar on the right of a vector stands for a vector of it; the result has the left's type.
OnLanes(op, l, r) ==
  [t |-> l.t,
   v |-> [i \in Lanes(l.t) |-> LaneOp(op, l.v[i], r.v[IF is_vector(r.t) THEN i ELSE 1], Width(l.t))]]

EachLane(op, x) == [t |-> x.t, v |-> [i \in Lanes(x.t) |-> LaneUnary(op, x.v[i], Width(x.t))]]

\* The last of the lanes that name position p, or 0.
LastNaming(indices, p) ==
  LET naming == {i \in DOMAIN indices : indices[i] = p - 1} IN IF naming = {} THEN 0 ELSE Max(naming)

\* Positions a list of indices names are written, in its order; the others keep what they had.
Written(base, indices, values) ==
  [p \in DOMAIN base |-> IF LastNaming(indices, p) = 0 THEN base[p] ELSE values[LastNaming(indices, p)]]

Nothing(base) == [p \in DOMAIN base |-> 0]

At(base, index) == IF index + 1 \in DOMAIN base THEN base[index + 1] ELSE 0

\* The operations on whole vectors: the receiver, and its one or two arguments.
OnVector(method, a, args) ==
  CASE method = "gather"         -> [p \in DOMAIN a |-> At(a, args[1].v[p])]
    [] method = "scatter"        -> Written(Nothing(a), args[1].v, a)
    [] method = "copy"           -> args[1].v
    [] method = "get"            -> [Nothing(a) EXCEPT ![1] = At(a, args[1].v[1])]
    [] method = "assign"         -> Written(a, args[1].v, args[2].v)
    [] method = "assign_scalars" -> Written(a, args[1].v, [p \in DOMAIN a |-> args[2].v[1]])

\* A number as a value of a type: a scalar takes what fits in it, a bit vector its bits.
Number(t, n) == [t |-> t, v |-> [i \in Lanes(t) |-> (n \div (Size(t) ^ (i - 1))) % Size(t)]]

Repeated(t, n) == [t |-> t, v |-> [i \in Lanes(t) |-> n % Size(t)]]

-----------------------------------------------------------------------------
\* What an expression is worth, given what the names in it are worth.

Chosen(c, x, y) == IF c.v[1] # 0 THEN x ELSE y

MeaningOfMethod(m, a, args) ==
  CASE m = "select" -> Chosen(a, args[1], args[2])
    [] m = "select_scalar" ->
         [t |-> args[1].t, v |-> [i \in Lanes(args[1].t) |-> IF a.v[i] # 0 THEN args[1].v[i] ELSE args[2].v[i]]]
    [] m \in {"gather", "scatter", "copy", "get", "assign", "assign_scalars"} ->
         [t |-> a.t, v |-> OnVector(m, a.v, args)]
    [] m = "to_boolean" -> [t |-> "EBool", v |-> [i \in {1} |-> LaneUnary("to_boolean", a.v[1], Width(a.t))]]
    [] OTHER -> IF args = <<>> THEN EachLane(m, a) ELSE OnLanes(m, a, args[1])

\* A literal on the right is a value of the left's type; on the right of a vector, of its elements'.
MeaningOfLiteral(op, a, n) == OnLanes(op, a, Repeated(a.t, n))

MeaningOfConstant(t, constructor, arg) ==
  CASE constructor = "splat" /\ is_arithmetic_vector(t) -> Repeated(t, arg.value)
    [] arg.kind = "Array"                               -> [t |-> t, v |-> arg.values]
    [] OTHER                                            -> Number(t, arg.value)

Meaning(e, env) ==
  LET worth(x) == env[x.name]
  IN  CASE e.kind = "Path"       -> worth(e)
        [] e.kind = "MethodCall" ->
             MeaningOfMethod(e.method, worth(e.receiver), [i \in DOMAIN e.args |-> worth(e.args[i])])
        [] e.kind = "Binary"     -> IF e.right.kind = "Lit" THEN MeaningOfLiteral(e.op, worth(e.left), e.right.value)
                                    ELSE OnLanes(e.op, worth(e.left), worth(e.right))
        [] e.kind = "Unary"      -> EachLane(e.op, worth(e.operand))
        [] e.kind = "If"         -> Chosen(worth(e.cond), worth(e.then), worth(e.else))
        [] e.kind = "Call"       -> IF e.method = "into" THEN Number(e.type, worth(e.arg).v[1])
                                    ELSE MeaningOfConstant(e.type, e.method, e.arg)

-----------------------------------------------------------------------------
\* What the documentation gives a meaning.

\* Two scalars, two values of one type, or a vector and a scalar for all its elements; the greater of an EBool and a
\* wider number need not be an EBool.
TakesOperator(op, x, y) ==
  /\ is_vector(y.t) => x.t = y.t
  /\ op \in {"<<", ">>", "shift_left", "shift_right"} => is_vector(x.t) = is_vector(y.t)
  /\ op \in {"nor", "nand"} => x.t = y.t
  /\ op = "max" /\ x.t = "EBool" => y.t = "EBool"
  /\ op \in {"rotate_left", "rotate_right"} => x.t = y.t /\ x.t # "EBool"

\* A literal has room in the type: an EBool is 0 or 1, the other types cut a number.
Fits(t, n) == t = "EBool" => n <= 1

TakesLiteral(op, x, n) == Fits(x.t, n) /\ (is_vector(x.t) => op \notin {"<<", ">>"})

TakesMethod(m, a, args) ==
  LET vectors(xs) == \A x \in xs : x.t = "EUint8Vector"
  IN  \/ /\ m \in {"negate", "not", "bootstrap", "thin_bootstrap", "pack_into", "extract_lsbs", "extract_msbs",
                    "to_boolean"}
         /\ args = <<>>
         /\ m = "extract_msbs" => a.t # "EBool"
         /\ m = "to_boolean" => ~is_vector(a.t)
      \/ /\ m \in {"add", "subtract", "multiply", "divide", "modulo", "min", "max", "xor", "and", "or", "nor", "nand",
                    "shift_left", "shift_right", "rotate_left", "rotate_right", "is_less_than", "is_equal",
                    "is_not_equal", "is_greater_than", "is_greater_or_equal", "is_less_or_equal"}
         /\ Len(args) = 1 /\ TakesOperator(m, a, args[1])
      \/ m \in {"gather", "scatter", "copy", "get"} /\ Len(args) = 1 /\ vectors({a, args[1]})
      \/ m = "select" /\ Len(args) = 2 /\ ~is_vector(a.t) /\ args[1].t = args[2].t
      \/ m \in {"assign", "assign_scalars", "select_scalar"} /\ Len(args) = 2 /\ vectors({a, args[1], args[2]})

TakesConstant(t, constructor, arg) ==
  \/ constructor \in {"from", "splat"} /\ arg.kind = "Lit" /\ Fits(t, arg.value)
  \/ /\ arg.kind = "Array" /\ Len(arg.values) = byte_width[t]
     /\ \/ constructor = "from" /\ is_vector(t)
        \/ constructor = "from_elements" /\ is_arithmetic_vector(t)

Documented(e, env) ==
  LET worth(x) == env[x.name]
  IN  /\ e \in Syntax
      /\ e.kind = "MethodCall" =>
           TakesMethod(e.method, worth(e.receiver), [i \in DOMAIN e.args |-> worth(e.args[i])])
      /\ e.kind = "Binary" => IF e.right.kind = "Lit" THEN TakesLiteral(e.op, worth(e.left), e.right.value)
                              ELSE e.right.kind = "Path" /\ TakesOperator(e.op, worth(e.left), worth(e.right))
      /\ e.kind = "If" => ~is_vector(worth(e.cond).t) /\ worth(e.then).t = worth(e.else).t
      /\ e.kind = "Call" => IF e.method = "into" THEN ~is_vector(e.type) /\ ~is_vector(worth(e.arg).t)
                            ELSE TakesConstant(e.type, e.method, e.arg)

\* The plaintext of a value, as a decryption gives it: a little-endian sequence of bytes.
Plaintext(x) == IF x.t = "EUint16" THEN <<x.v[1] % Byte, x.v[1] \div Byte>> ELSE [i \in Lanes(x.t) |-> x.v[i]]

=============================================================================
