----------------------------- MODULE DslCompile -----------------------------
(***************************************************************************)
(* The compiler of the graph language (encrypt-dsl-compile/src/lib.rs),    *)
(* one statement of a function at a time, with what the evaluator makes of *)
(* the graph built so far.  vars is the compiler's table of names, gb the  *)
(* builder the generated code drives, inputs the digests the graph is run  *)
(* on.  meaning and expected are the ghosts: what each name, and each      *)
(* output, is worth by the documented meaning of the language              *)
(* (docs/src/dsl), reckoned on numbers and never on the graph.             *)
(***************************************************************************)
EXTENDS ComputationGraph, DslMeaning

CONSTANTS
  Encryptions,   \* the pairs of a digest the engine knows and the value it is an encryption of
  Params,        \* the parameter lists of the functions compiled: sequences of [name, type, plaintext]
  Inputs(_),     \* the encryptions a parameter of a type may be run on
  Locals,        \* the names let statements bind, and the temporaries
  Exprs(_),      \* the expressions over a table of names, that let statements and temporaries bind
  Results(_),    \* the expressions, over a table of names, a function returns
  MaxNodes       \* the nodes a function's graph is allowed

\* The index of a node is not the mark of a missing operand.
ASSUME SpaceAssumption ==
  /\ MaxNodes \in Nat /\ MaxNodes <= NoOperand
  /\ Params \subseteq Seq([name : STRING, type : FheType, plaintext : BOOLEAN])
  /\ \A ps \in Params : Len(ps) <= MaxNodes
  /\ \A p \in Encryptions : p = <<p[1], p[2]>>
  /\ \A t \in FheType : Inputs(t) \subseteq {p \in Encryptions : p[2].t = t}

VARIABLES params, vars, gb, inputs, meaning, expected

variables == <<params, vars, gb, inputs, meaning, expected>>

-----------------------------------------------------------------------------
\* The tables of operations.

method_op ==
  [add |-> "Add", multiply |-> "Multiply", negate |-> "Negate", subtract |-> "Subtract", divide |-> "Divide",
   modulo |-> "Modulo", min |-> "Min", max |-> "Max", blend |-> "Blend", xor |-> "Xor", and |-> "And",
   not |-> "Not", or |-> "Or", nor |-> "Nor", nand |-> "Nand", shift_left |-> "ShiftLeft",
   shift_right |-> "ShiftRight", rotate_left |-> "RotateLeft", rotate_right |-> "RotateRight",
   is_less_than |-> "IsLessThan", is_equal |-> "IsEqual", is_not_equal |-> "IsNotEqual",
   is_greater_than |-> "IsGreaterThan", is_greater_or_equal |-> "IsGreaterOrEqual",
   is_less_or_equal |-> "IsLessOrEqual", select_scalar |-> "SelectScalar", extract_lsbs |-> "ExtractLsbs",
   pack_into |-> "PackInto", extract_msbs |-> "ExtractMsbs", to_boolean |-> "ToBoolean", bootstrap |-> "Bootstrap",
   thin_bootstrap |-> "ThinBootstrap", gather |-> "Gather", scatter |-> "Scatter", assign |-> "Assign",
   assign_scalars |-> "AssignScalars", copy |-> "Copy", get |-> "Get"]

binop ==
  LET table == {<<"+", "Add">>, <<"-", "Subtract">>, <<"*", "Multiply">>, <<"/", "Divide">>, <<"%", "Modulo">>,
                <<"&", "And">>, <<"|", "Or">>, <<"^", "Xor">>, <<"<<", "ShiftLeft">>, <<">>", "ShiftRight">>,
                <<"==", "IsEqual">>, <<"!=", "IsNotEqual">>, <<">", "IsGreaterThan">>, <<">=", "IsGreaterOrEqual">>,
                <<"<", "IsLessThan">>, <<"<=", "IsLessOrEqual">>}
  IN  [symbol \in {row[1] : row \in table} |-> (CHOOSE row \in table : row[1] = symbol)[2]]

unop == [symbol \in {"-", "!"} |-> IF symbol = "-" THEN "Negate" ELSE "Not"]

\* A vector and a scalar: the scalar variant, where the operation has one.
maybe_scalar_op(op, left, right) ==
  IF is_vector(left) /\ ~is_vector(right) /\ op \in DOMAIN ScalarVariant THEN ScalarVariant[op] ELSE op

scalar_element_tid(t) == scalar_element_type(t)

-----------------------------------------------------------------------------
(***************************************************************************)
(* Expressions: one call of the compiler's expr, the operands of which     *)
(* have been compiled before it and are in the table under their names.    *)
(* The result is the builder after the code the expression is compiled to, *)
(* the node and the type, or ok is FALSE: the function is rejected.        *)
(***************************************************************************)
Rejected(b) == [ok |-> FALSE, gb |-> b, node |-> 0, tid |-> "EBool"]

\* The call of a builder function, as the code of an expression of the type.
Emitted(call, t) == [ok |-> TRUE, gb |-> call.gb, node |-> call.index, tid |-> t]

Known(operands, names) == \A x \in operands : x.kind = "Path" /\ x.name \in DOMAIN names

CompilePath(e, names, b) ==
  IF Known({e}, names) THEN [ok |-> TRUE, gb |-> b, node |-> names[e.name].node, tid |-> names[e.name].tid]
  ELSE Rejected(b)

\* recv.select(a, b) and its like: the receiver is the condition, except in an assignment.
CompileTernary(e, names, b, op, OfReceiver) ==
  IF Len(e.args) = 2 /\ Known({e.receiver, e.args[1], e.args[2]}, names)
  THEN LET recv == names[e.receiver.name]
           x    == names[e.args[1].name]
           t    == IF OfReceiver THEN recv.tid ELSE x.tid
       IN  Emitted(add_ternary_op(b, op, t, recv.node, x.node, names[e.args[2].name].node), t)
  ELSE Rejected(b)

CompileUnaryMethod(e, names, b) ==
  IF Known({e.receiver}, names)
  THEN LET recv == names[e.receiver.name]
           t    == IF e.method = "to_boolean" THEN "EBool" ELSE recv.tid
       IN  Emitted(add_op(b, method_op[e.method], t, recv.node, NoOperand), t)
  ELSE Rejected(b)

CompileBinaryMethod(e, names, b) ==
  IF Known({e.receiver, e.args[1]}, names)
  THEN LET recv == names[e.receiver.name]
           arg  == names[e.args[1].name]
           op   == maybe_scalar_op(method_op[e.method], recv.tid, arg.tid)
       IN  Emitted(add_op(b, op, recv.tid, recv.node, arg.node), recv.tid)
  ELSE Rejected(b)

CompileMethodCall(e, names, b) ==
  CASE e.method = "select"                      -> CompileTernary(e, names, b, "Select", FALSE)
    [] e.method \in {"blend", "select_scalar"}   -> CompileTernary(e, names, b, method_op[e.method], FALSE)
    [] e.method \in {"assign", "assign_scalars"} -> CompileTernary(e, names, b, method_op[e.method], TRUE)
    [] e.method \in {"negate", "not", "bootstrap", "pack_into", "to_boolean"} -> CompileUnaryMethod(e, names, b)
    [] OTHER -> IF e.method \notin DOMAIN method_op THEN Rejected(b)
                ELSE IF e.args = <<>> THEN CompileUnaryMethod(e, names, b)
                ELSE CompileBinaryMethod(e, names, b)

\* A literal on the right is a constant of the left's type, or of its elements'.
CompileRight(right, left, names, b) ==
  LET t == IF is_vector(left.tid) THEN scalar_element_tid(left.tid) ELSE left.tid
  IN  IF right.kind = "Lit" THEN Emitted(add_constant(b, t, right.value), t) ELSE CompilePath(right, names, b)

CompileBinary(e, names, b) ==
  IF Known({e.left}, names) /\ e.op \in DOMAIN binop
  THEN LET left  == names[e.left.name]
           right == CompileRight(e.right, left, names, b)
           op    == maybe_scalar_op(binop[e.op], left.tid, right.tid)
       IN  IF right.ok THEN Emitted(add_op(right.gb, op, left.tid, left.node, right.node), left.tid) ELSE Rejected(b)
  ELSE Rejected(b)

CompileUnary(e, names, b) ==
  IF Known({e.operand}, names) /\ e.op \in DOMAIN unop
  THEN LET operand == names[e.operand.name]
       IN  Emitted(add_op(b, unop[e.op], operand.tid, operand.node, NoOperand), operand.tid)
  ELSE Rejected(b)

\* Mutant: the branches are passed in the order of a multiplexer, the one for zero first.
CompileIf_swapped(e, names, b) ==
  IF Known({e.cond, e.then, e.else}, names)
  THEN LET yes == names[e.then.name]
       IN  Emitted(add_ternary_op(b, "Select", yes.tid, names[e.cond.name].node, names[e.else.name].node, yes.node),
                   yes.tid)
  ELSE Rejected(b)

\* Both branches are compiled; the selection has the type of the first.
CompileIf(e, names, b) ==
  IF Known({e.cond, e.then, e.else}, names)
  THEN LET yes == names[e.then.name]
       IN  Emitted(add_ternary_op(b, "Select", yes.tid, names[e.cond.name].node, yes.node, names[e.else.name].node),
                   yes.tid)
  ELSE Rejected(b)

\* The bytes of a constructor's constant: the array's, a number's, or those of one element, repeated.
ConstantBytes(t, constructor, arg) ==
  IF arg.kind = "Array" THEN arg.values
  ELSE IF constructor = "splat" /\ is_arithmetic_vector(t)
  THEN [i \in 1 .. Elems |-> u128_to_bytes(arg.value, byte_width[scalar_element_type(t)])[1]]
  ELSE u128_to_bytes(arg.value, byte_width[t])

\* from takes a number or an array, from_elements an array, splat a number, into an encrypted value.
CompileCall(e, names, b) ==
  IF \/ e.method \in {"from", "splat"} /\ e.arg.kind = "Lit"
     \/ e.method = "from" /\ e.arg.kind = "Array"
     \/ e.method = "from_elements" /\ e.arg.kind = "Array" /\ is_arithmetic_vector(e.type)
  THEN Emitted(add_constant_bytes(b, e.type, ConstantBytes(e.type, e.method, e.arg)), e.type)
  ELSE IF e.method = "into" /\ Known({e.arg}, names)
  THEN Emitted(add_op(b, "Into", e.type, names[e.arg.name].node, NoOperand), e.type)
  ELSE Rejected(b)

\* A literal, or an array, is an expression nowhere but on the right of an operator and in a constructor.
expr(e, names, b) ==
  CASE e.kind = "Path"       -> CompilePath(e, names, b)
    [] e.kind = "MethodCall" -> CompileMethodCall(e, names, b)
    [] e.kind = "Binary"     -> CompileBinary(e, names, b)
    [] e.kind = "Unary"      -> CompileUnary(e, names, b)
    [] e.kind = "If"         -> CompileIf(e, names, b)
    [] e.kind = "Call"       -> CompileCall(e, names, b)
    [] OTHER                 -> Rejected(b)

-----------------------------------------------------------------------------
(***************************************************************************)
(* What the engine is taken to do: an operation on encryptions of values   *)
(* gives an encryption of what the documentation says the operation makes  *)
(* of them, and decryption gives a value's plaintext.  The operations are  *)
(* the ones the tables above name; known is a set of digests with the      *)
(* values they are encryptions of, that the operations do not leave.       *)
(***************************************************************************)
Operators(known, p, q, op) ==
  TakesOperator(op, p[2], q[2]) =>
    <<binary_op(maybe_scalar_op(binop[op], p[2].t, q[2].t), p[1], q[1], p[2].t), OnLanes(op, p[2], q[2])>> \in known

\* A literal is encrypted as a scalar.
LiteralDigest(t, n) ==
  encode_constant_bytes(scalar_element_tid(t), u128_to_bytes(n, byte_width[scalar_element_tid(t)]))

LiteralOperators(known, p, n, op) ==
  TakesLiteral(op, p[2], n) =>
    <<binary_op(maybe_scalar_op(binop[op], p[2].t, scalar_element_tid(p[2].t)), p[1], LiteralDigest(p[2].t, n), p[2].t),
      MeaningOfLiteral(op, p[2], n)>> \in known

UnaryMethods(known, p, m) ==
  TakesMethod(m, p[2], <<>>) =>
    <<unary_op(method_op[m], p[1], IF m = "to_boolean" THEN "EBool" ELSE p[2].t), MeaningOfMethod(m, p[2], <<>>)>>
      \in known

BinaryMethods(known, p, q, m) ==
  TakesMethod(m, p[2], <<q[2]>>) =>
    <<binary_op(maybe_scalar_op(method_op[m], p[2].t, q[2].t), p[1], q[1], p[2].t), MeaningOfMethod(m, p[2], <<q[2]>>)>>
      \in known

TernaryMethods(known, p, q, r, m) ==
  TakesMethod(m, p[2], <<q[2], r[2]>>) =>
    <<ternary_op(IF m = "select" THEN "Select" ELSE method_op[m], p[1], q[1], r[1],
                 IF m \in {"assign", "assign_scalars"} THEN p[2].t ELSE q[2].t),
      MeaningOfMethod(m, p[2], <<q[2], r[2]>>)>> \in known

EncryptionsOf(known, t) == {p \in known : p[2].t = t}

EngineComputesMeanings(known) ==
  /\ \A p \in known : decrypt(p[1], p[2].t) = Plaintext(p[2])
  /\ \A p, q \in known, op \in DOMAIN binop : Operators(known, p, q, op)
  /\ \A p \in known, n \in Literals, op \in DOMAIN binop : LiteralOperators(known, p, n, op)
  /\ \A p \in known, op \in DOMAIN unop : <<unary_op(unop[op], p[1], p[2].t), EachLane(op, p[2])>> \in known
  /\ \A p \in known, m \in DOMAIN method_op : UnaryMethods(known, p, m)
  /\ \A p, q \in known, m \in DOMAIN method_op : BinaryMethods(known, p, q, m)
  /\ \A c \in known, t \in FheType : \A p, q \in EncryptionsOf(known, t) : TernaryMethods(known, c, p, q, "select")
  /\ \A p, q, r \in EncryptionsOf(known, "EUint8Vector"), m \in {"assign", "assign_scalars", "select_scalar"} :
       TernaryMethods(known, p, q, r, m)
  /\ \A p \in known, t \in FheType :
       ~is_vector(t) /\ ~is_vector(p[2].t) => <<unary_op("Into", p[1], t), Number(t, p[2].v[1])>> \in known
  /\ \A t \in FheType, constructor \in {"from", "from_elements", "splat"}, arg \in Constant :
       TakesConstant(t, constructor, arg) =>
         <<encode_constant_bytes(t, ConstantBytes(t, constructor, arg)), MeaningOfConstant(t, constructor, arg)>>
           \in known

ASSUME EngineAssumption == EngineComputesMeanings(Encryptions)

-----------------------------------------------------------------------------
\* A function's parameters are its first nodes; then its statements follow one another.

Bound(name, x, table) == [n \in {name} \cup DOMAIN table |-> IF n = name THEN x ELSE table[n]]

Init ==
  /\ params \in Params
  /\ vars = <<>> /\ gb = NewBuilder /\ inputs = <<>>
  /\ meaning = <<>> /\ expected = <<>>

ParamInit(p, encryption) ==
  /\ vars' = Bound(p.name, [node |-> Len(gb.nodes), tid |-> p.type], vars)
  /\ gb' = (IF p.plaintext THEN add_plaintext_input(gb, p.type) ELSE add_input(gb, p.type)).gb
  /\ inputs' = Append(inputs, encryption[1])
  /\ meaning' = Bound(p.name, encryption[2], meaning)

\* The next parameter, with the digest it is going to be run on.
Param ==
  /\ Len(inputs) < Len(params)
  /\ \E encryption \in Inputs(params[Len(inputs) + 1].type) : ParamInit(params[Len(inputs) + 1], encryption)
  /\ UNCHANGED <<params, expected>>

InBody == Len(inputs) = Len(params)

\* The counters of the builder have not wrapped, and the graph is within the bound.
Counted(b) ==
  /\ Len(b.nodes) <= MaxNodes
  /\ b.num_inputs <= CounterMax /\ b.num_plaintext_inputs <= CounterMax
  /\ b.num_constants <= CounterMax /\ b.num_ops <= CounterMax /\ b.num_outputs <= CounterMax

\* Mutant: a name keeps the node it was bound to first.
Let_first(name, e) ==
  LET r == expr(e, vars, gb)
  IN  /\ InBody /\ r.ok /\ Documented(e, meaning) /\ Counted(r.gb)
      /\ gb' = r.gb
      /\ vars' = IF name \in DOMAIN vars THEN vars ELSE Bound(name, [node |-> r.node, tid |-> r.tid], vars)
      /\ meaning' = Bound(name, Meaning(e, meaning), meaning)
      /\ UNCHANGED <<params, inputs, expected>>

\* let name = e, or a temporary for a subexpression; a name may be bound again.
Let(name, e) ==
  LET r == expr(e, vars, gb)
  IN  /\ InBody /\ r.ok /\ Documented(e, meaning) /\ Counted(r.gb)
      /\ gb' = r.gb
      /\ vars' = Bound(name, [node |-> r.node, tid |-> r.tid], vars)
      /\ meaning' = Bound(name, Meaning(e, meaning), meaning)
      /\ UNCHANGED <<params, inputs, expected>>

\* The graph with an output of an expression, one element of a tuple or the whole of an expression statement.
emit_output(r) == add_output(r.gb, r.tid, r.node).gb

\* An expression statement is an output, wherever in the body it stands; a tuple is its elements, one after another.
Return(e) ==
  LET r == expr(e, vars, gb)
  IN  /\ InBody /\ r.ok /\ Documented(e, meaning) /\ Counted(emit_output(r))
      /\ gb' = emit_output(r)
      /\ expected' = Append(expected, Meaning(e, meaning))
      /\ UNCHANGED <<params, vars, inputs, meaning>>

Next ==
  \/ Param
  \/ \E name \in Locals, e \in Exprs(meaning) : Let(name, e)
  \/ \E e \in Results(meaning) : Return(e)

Spec == Init /\ [][Next]_variables

-----------------------------------------------------------------------------
Of(kind) == {i \in DOMAIN gb.nodes : gb.nodes[i].kind = kind}

\* The graph is in topological order, as graph-compilation.md says, and the header's counters are those of its
\* nodes, so that the parser finds where the constants begin.
TypeOK ==
  /\ \A i \in DOMAIN gb.nodes : LET node == gb.nodes[i] IN
       /\ node.fhe_type \in FheType
       /\ node.kind = "Op" => \A operand \in {node.a, node.b, node.c} : operand \in (0 .. i - 2) \cup {NoOperand}
       /\ node.kind = "Output" => node.a \in 0 .. i - 2
       /\ node.kind = "Constant" => node.a \in 0 .. Word - 1
  /\ gb.num_inputs = Cardinality(Of("Input")) /\ gb.num_plaintext_inputs = Cardinality(Of("PlaintextInput"))
  /\ gb.num_constants = Cardinality(Of("Constant")) /\ gb.num_ops = Cardinality(Of("Op"))
  /\ gb.num_outputs = Cardinality(Of("Output"))
  /\ \A name \in DOMAIN vars : vars[name].node < Len(gb.nodes) /\ vars[name].tid = meaning[name].t

ConstantsFit == Len(gb.constants) < Word

\* Running the graph of a function, after any of its statements, gives the plaintext of every output the function
\* has emitted by then: the compiler, the builder with its shared constants, the parser, the evaluator and the engine
\* agree with the documented meaning of the language (docs/src/dsl).
OutputsAreMeanings ==
  InBody /\ ConstantsFit =>
    LET r == evaluate_graph(serialize(gb), inputs)
    IN  /\ r.err = "none"
        /\ Len(r.output_digests) = Len(expected)
        /\ \A i \in DOMAIN expected : decrypt(r.output_digests[i], expected[i].t) = Plaintext(expected[i])

\* A graph whose constants have outgrown the u16 of their length (constants_len, graph.rs:133) is refused by the
\* evaluator; it is never run on constants that offsets cut to sixteen bits have confused.
OverflowIsRefused ==
  InBody /\ ~ConstantsFit => evaluate_graph(serialize(gb), inputs).err = "InvalidGraph"

\* No two constants of a graph have one type and the same bytes: "Identical constants are automatically deduplicated
\* in the graph" (docs/src/dsl/operations.md, constants.md; add_constant_bytes, graph.rs:84).
ConstantsShared ==
  LET bytes(i) == SubSeq(gb.constants, gb.nodes[i].a + 1, gb.nodes[i].a + byte_width[gb.nodes[i].fhe_type])
  IN  ConstantsFit => \A i, j \in Of("Constant") :
        gb.nodes[i].fhe_type = gb.nodes[j].fhe_type /\ bytes(i) = bytes(j) => i = j

=============================================================================
