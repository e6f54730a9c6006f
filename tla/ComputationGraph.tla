-------------------------- MODULE ComputationGraph --------------------------
(***************************************************************************)
(* The computation graph: its builder (encrypt-dsl/src/graph.rs), the      *)
(* serialized form and its parser (encrypt-types/src/graph.rs) and the     *)
(* evaluator (encrypt-compute/src/evaluator.rs).  Word stands for the      *)
(* 2^16 bytes a u16 offset or length can name: the length of the constants *)
(* section and the offsets into it are cut to it, as the code cuts them.   *)
(* The five counters are u8 in the code; CounterMax is the bound the       *)
(* builder's users keep to.  A digest is whatever the engine makes of one. *)
(***************************************************************************)
EXTENDS FheTypes

CONSTANTS Word, CounterMax

\* The ComputeEngine trait (encrypt-compute/src/engine.rs): what the evaluator, and who decrypts, call.
CONSTANTS
  binary_op(_, _, _, _),         \* the operation, the two operands' digests and the type
  unary_op(_, _, _),
  ternary_op(_, _, _, _, _),
  encode_constant_bytes(_, _),
  decrypt(_, _)

ASSUME WordAssumption == Word \in Nat \ {0} /\ CounterMax \in Nat

NoOperand == 65535

-----------------------------------------------------------------------------
\* The builder.

NewBuilder ==
  [nodes |-> <<>>, constants |-> <<>>, num_inputs |-> 0, num_plaintext_inputs |-> 0, num_constants |-> 0,
   num_ops |-> 0, num_outputs |-> 0]

\* A call's result: the builder after it, and the index of the node.
push_node(gb, node) == [gb |-> [gb EXCEPT !.nodes = Append(@, node)], index |-> Len(gb.nodes)]

Node(kind, op, t, a, b, c) == [kind |-> kind, op_type |-> op, fhe_type |-> t, a |-> a, b |-> b, c |-> c]

add_input(gb, t) ==
  push_node([gb EXCEPT !.num_inputs = @ + 1], Node("Input", "none", t, NoOperand, NoOperand, NoOperand))

add_plaintext_input(gb, t) ==
  push_node([gb EXCEPT !.num_plaintext_inputs = @ + 1],
            Node("PlaintextInput", "none", t, NoOperand, NoOperand, NoOperand))

\* Mutant: only the first byte of the data is compared.
SameConstant_first_byte(gb, i, t, data) ==
  /\ gb.nodes[i + 1].kind = "Constant" /\ gb.nodes[i + 1].fhe_type = t
  /\ gb.nodes[i + 1].a < Len(gb.constants)
  /\ gb.constants[gb.nodes[i + 1].a + 1] = data[1]

\* Mutant: only the node added last is looked at.
SameConstant_last(gb, i, t, data) ==
  /\ i = Len(gb.nodes) - 1
  /\ gb.nodes[i + 1].kind = "Constant" /\ gb.nodes[i + 1].fhe_type = t
  /\ SubSeq(gb.constants, gb.nodes[i + 1].a + 1, gb.nodes[i + 1].a + Len(data)) = data

\* An existing constant node of the type, whose bytes begin with the data.
SameConstant(gb, i, t, data) ==
  LET node == gb.nodes[i + 1]
  IN  /\ node.kind = "Constant" /\ node.fhe_type = t
      /\ node.a + Len(data) <= Len(gb.constants)
      /\ SubSeq(gb.constants, node.a + 1, node.a + Len(data)) = data

\* Mutant: the constant is counted before the search for an equal one.
add_constant_bytes_counts(gb, t, data) ==
  LET existing == {i \in 0 .. Len(gb.nodes) - 1 : SameConstant(gb, i, t, data)}
      counted  == [gb EXCEPT !.num_constants = @ + 1]
  IN  IF existing # {}
      THEN [gb |-> counted, index |-> CHOOSE i \in existing : \A j \in existing : i <= j]
      ELSE push_node([counted EXCEPT !.constants = @ \o data],
                     Node("Constant", "none", t, Len(gb.constants) % Word, NoOperand, NoOperand))

add_constant_bytes(gb, t, data) ==
  LET existing == {i \in 0 .. Len(gb.nodes) - 1 : SameConstant(gb, i, t, data)}
  IN  IF existing # {}
      THEN [gb |-> gb, index |-> CHOOSE i \in existing : \A j \in existing : i <= j]
      ELSE push_node([gb EXCEPT !.constants = @ \o data, !.num_constants = @ + 1],
                     Node("Constant", "none", t, Len(gb.constants) % Word, NoOperand, NoOperand))

\* A value is cut, or filled with zeros, to the width of its type.
add_constant(gb, t, value) == add_constant_bytes(gb, t, u128_to_bytes(value, byte_width[t]))

add_op(gb, op, t, a, b) == push_node([gb EXCEPT !.num_ops = @ + 1], Node("Op", op, t, a, b, NoOperand))

add_ternary_op(gb, op, t, a, b, c) == push_node([gb EXCEPT !.num_ops = @ + 1], Node("Op", op, t, a, b, c))

add_output(gb, t, source) ==
  push_node([gb EXCEPT !.num_outputs = @ + 1], Node("Output", "none", t, source, NoOperand, NoOperand))

-----------------------------------------------------------------------------
(***************************************************************************)
(* The serialized graph.  Nodes have one size, so the section after the    *)
(* header is cut at the number of nodes the header's counters add up to,   *)
(* and the constants section at the length the header gives.               *)
(***************************************************************************)
serialize(gb) ==
  [num_inputs |-> gb.num_inputs, num_plaintext_inputs |-> gb.num_plaintext_inputs,
   num_constants |-> gb.num_constants, num_ops |-> gb.num_ops, num_outputs |-> gb.num_outputs,
   constants_len |-> Len(gb.constants) % Word, nodes |-> gb.nodes, constants |-> gb.constants]

num_nodes(g) == g.num_inputs + g.num_plaintext_inputs + g.num_constants + g.num_ops + g.num_outputs

\* The data ends before the nodes or the constants the header announces.
Truncated(g) == num_nodes(g) > Len(g.nodes) \/ g.constants_len > Len(g.constants)

\* Mutant: the constants section reaches to the end of the data.
constants_whole(g) == g.constants

constants(g) == SubSeq(g.constants, 1, g.constants_len)

-----------------------------------------------------------------------------
(***************************************************************************)
(* The evaluator: one digest per node, in the order of the nodes; err says *)
(* how it gave up.                                                         *)
(***************************************************************************)
Failed(ev, error) == [ev EXCEPT !.err = error]

Pushed(ev, digest) == [ev EXCEPT !.digests = Append(@, digest)]

EvalInput(ev, input_digests) ==
  IF ev.input_idx < Len(input_digests)
  THEN [Pushed(ev, input_digests[ev.input_idx + 1]) EXCEPT !.input_idx = @ + 1]
  ELSE Failed(ev, "panic")

EvalConstant(ev, node, g) ==
  LET width == byte_width[node.fhe_type]
  IN  IF node.a + width > Len(constants(g)) THEN Failed(ev, "InvalidGraph")
      ELSE Pushed(ev, encode_constant_bytes(node.fhe_type, SubSeq(constants(g), node.a + 1, node.a + width)))

\* A third operand that is not there yet is passed over, and the operation is taken for one of fewer operands.
EvalOp(ev, node) ==
  LET known  == Len(ev.digests)
      arg(i) == ev.digests[i + 1]
  IN  IF node.a >= known THEN Failed(ev, "InvalidNodeReference")
      ELSE IF node.c # NoOperand /\ node.c < known /\ node.b < known
      THEN Pushed(ev, ternary_op(node.op_type, arg(node.a), arg(node.b), arg(node.c), node.fhe_type))
      ELSE IF node.b = NoOperand THEN Pushed(ev, unary_op(node.op_type, arg(node.a), node.fhe_type))
      ELSE IF node.b >= known THEN Failed(ev, "InvalidNodeReference")
      ELSE Pushed(ev, binary_op(node.op_type, arg(node.a), arg(node.b), node.fhe_type))

\* The digest of an output is collected, and is one more that nodes can refer to.
EvalOutput(ev, node) ==
  IF node.a >= Len(ev.digests) THEN Failed(ev, "InvalidNodeReference")
  ELSE LET digest == ev.digests[node.a + 1] IN [Pushed(ev, digest) EXCEPT !.outputs = Append(@, digest)]

EvalNode(ev, node, g, input_digests) ==
  IF ev.err # "none" THEN ev
  ELSE CASE node.kind \in {"Input", "PlaintextInput"} -> EvalInput(ev, input_digests)
         [] node.kind = "Constant"                    -> EvalConstant(ev, node, g)
         [] node.kind = "Op"                          -> EvalOp(ev, node)
         [] node.kind = "Output"                      -> EvalOutput(ev, node)

Start == [digests |-> <<>>, outputs |-> <<>>, input_idx |-> 0, err |-> "none"]

\* What the evaluator has after the last node.
Walk(g, input_digests) ==
  LET ev[i \in 0 .. num_nodes(g)] ==
        IF i = 0 THEN Start ELSE EvalNode(ev[i - 1], g.nodes[i], g, input_digests)
  IN  ev[num_nodes(g)]

\* Either err is "none" and output_digests has the graph's outputs, or it has none.
evaluate_graph(g, input_digests) ==
  LET failure == IF Truncated(g) THEN "InvalidGraph"
                 ELSE IF Len(input_digests) < g.num_inputs THEN "NotEnoughInputs"
                 ELSE Walk(g, input_digests).err
  IN  [err |-> failure, output_digests |-> IF failure = "none" THEN Walk(g, input_digests).outputs ELSE <<>>]

=============================================================================
