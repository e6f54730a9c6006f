-------------------------- MODULE DslCompile_proofs --------------------------
(***************************************************************************)
(* The compiler, the builder, the parser and the evaluator, for functions  *)
(* of any statements over any parameters, any width of a byte, of a word   *)
(* and of the counters, and any engine that computes what the operations   *)
(* are documented to mean (EngineAssumption).                              *)
(*                                                                         *)
(* The invariant is IInv.  The graph is well formed (GraphOK): every node  *)
(* refers to nodes before it, the inputs come first, the counters are      *)
(* those of the nodes.  While the constants section fits in its length's   *)
(* u16, every constant is inside it and none is there twice; once it does  *)
(* not, some constant ends beyond what the parser hands over, and that one *)
(* stays in the graph.  The evaluator, run on the graph, has a digest of   *)
(* every name that is an encryption of what the name means, and a digest   *)
(* of every output.  None of these holds without the others: what a name's *)
(* node evaluates to depends on the constants the graph shares.            *)
(*                                                                         *)
(* The proof goes from the builder's functions (Pushes, GraphOK), over the *)
(* evaluator (a run on a graph with one more node is the run on the graph, *)
(* and one step more: PushedWalk), to the expressions, each of which       *)
(* leaves a graph with a node that is worth its meaning (Compiled).        *)
(***************************************************************************)
EXTENDS DslCompile, SequenceTheorems, FiniteSetTheorems, WellFoundedInduction, TLAPS

-----------------------------------------------------------------------------
(* Sequences of anything.                                                  *)

IsSeq(s) == Len(s) \in Nat /\ s = [i \in 1 .. Len(s) |-> s[i]]

ElementsOf(s) == {s[i] : i \in 1 .. Len(s)}

LEMMA SeqOfElements ==
  ASSUME NEW s, IsSeq(s), NEW S, ElementsOf(s) \subseteq S
  PROVE  s \in Seq(S)
<1>1. \A i \in 1 .. Len(s) : s[i] \in S
  BY DEF ElementsOf
<1>2. s \in [1 .. Len(s) -> S]
  BY <1>1 DEF IsSeq
<1>. QED
  BY <1>2, SeqDef DEF IsSeq

LEMMA SeqIsSeq ==
  ASSUME NEW S, NEW s \in Seq(S)
  PROVE  IsSeq(s)
BY LenProperties DEF IsSeq

LEMMA EmptyIsSeq == IsSeq(<<>>) /\ Len(<<>>) = 0
<1>1. <<>> \in Seq({})
  OBVIOUS
<1>. QED
  BY <1>1, SeqIsSeq, EmptySeq

LEMMA Appended ==
  ASSUME NEW s, IsSeq(s), NEW x
  PROVE  /\ IsSeq(Append(s, x))
         /\ Len(Append(s, x)) = Len(s) + 1
         /\ \A i \in 1 .. Len(s) : Append(s, x)[i] = s[i]
         /\ Append(s, x)[Len(s) + 1] = x
<1>. DEFINE S == ElementsOf(s) \cup {x}
<1>1. s \in Seq(S)
  BY SeqOfElements
<1>2. x \in S
  OBVIOUS
<1>3. Append(s, x) \in Seq(S) /\ Len(Append(s, x)) = Len(s) + 1
  BY <1>1, <1>2, AppendProperties
<1>4. \A i \in 1 .. Len(s) : Append(s, x)[i] = s[i]
  BY <1>1, <1>2, AppendProperties
<1>5. Append(s, x)[Len(s) + 1] = x
  BY <1>1, <1>2, AppendProperties
<1>. QED
  BY <1>3, <1>4, <1>5, SeqIsSeq

LEMMA Concatenated ==
  ASSUME NEW s, IsSeq(s), NEW u, IsSeq(u)
  PROVE  /\ IsSeq(s \o u)
         /\ Len(s \o u) = Len(s) + Len(u)
         /\ \A i \in 1 .. Len(s) : (s \o u)[i] = s[i]
         /\ \A i \in 1 .. Len(u) : (s \o u)[Len(s) + i] = u[i]
<1>. DEFINE S == ElementsOf(s) \cup ElementsOf(u)
<1>1. s \in Seq(S) /\ u \in Seq(S)
  BY SeqOfElements
<1>. HIDE DEF S
<1>2. /\ s \o u \in Seq(S)
      /\ Len(s \o u) = Len(s) + Len(u)
      /\ \A i \in 1 .. Len(s) + Len(u) : (s \o u)[i] = IF i <= Len(s) THEN s[i] ELSE u[i - Len(s)]
  BY <1>1, ConcatProperties
<1>3. Len(s) \in Nat /\ Len(u) \in Nat
  BY DEF IsSeq
<1>4. \A i \in 1 .. Len(s) : (s \o u)[i] = s[i]
  BY <1>2, <1>3
<1>5. \A i \in 1 .. Len(u) : (s \o u)[Len(s) + i] = u[i]
  <2>. TAKE i \in 1 .. Len(u)
  <2>1. Len(s) + i \in 1 .. Len(s) + Len(u) /\ ~(Len(s) + i <= Len(s)) /\ Len(s) + i - Len(s) = i
    BY <1>3
  <2>. QED
    BY <1>2, <2>1
<1>. QED
  BY <1>2, <1>4, <1>5, SeqIsSeq

(* The bytes of a constant, cut out of the section.                        *)
LEMMA Cut ==
  ASSUME NEW s, NEW m \in Nat, NEW n \in Nat
  PROVE  SubSeq(s, m + 1, m + n) = [i \in 1 .. n |-> s[m + i]]
OBVIOUS

-----------------------------------------------------------------------------
(* Runs of the evaluator.                                                  *)

LEMMA LeastOf ==
  ASSUME NEW T \in SUBSET Nat, T # {}
  PROVE  \E m \in T : \A k \in T : m <= k
<1>. DEFINE R == {ss \in Nat \X Nat : ss[1] < ss[2]}
<1>1. IsWellFoundedOn(R, Nat)
  BY NatLessThanWellFounded DEF OpToRel
<1>. HIDE DEF R
<1>2. PICK m \in T : \A k \in T : ~(<<k, m>> \in R)
  BY <1>1, WFMin
<1>3. \A k \in T : ~(k < m)
  BY <1>2 DEF R
<1>. QED
  BY <1>3

IsRun(f, n, g, ins) ==
  f = [i \in 0 .. n |-> IF i = 0 THEN Start ELSE EvalNode(f[i - 1], g.nodes[i], g, ins)]

(* There is a run of every length, by the least for which there is none.   *)
LEMMA RunExists ==
  ASSUME NEW g, NEW ins
  PROVE  \A n \in Nat : \E f : IsRun(f, n, g, ins)
<1>. DEFINE T == {n \in Nat : ~ \E f : IsRun(f, n, g, ins)}
<1>1. SUFFICES ASSUME T # {} PROVE FALSE
  OBVIOUS
<1>2. PICK n \in T : \A k \in T : n <= k
  BY <1>1, LeastOf
<1>3. n \in Nat /\ ~ \E f : IsRun(f, n, g, ins)
  OBVIOUS
<1>4. CASE n = 0
  <2>. DEFINE f == [i \in 0 .. 0 |-> Start]
  <2>1. IsRun(f, 0, g, ins)
    BY DEF IsRun
  <2>. QED
    BY <1>3, <1>4, <2>1
<1>5. CASE n # 0
  <2>1. n - 1 \in Nat /\ ~(n <= n - 1)
    BY <1>3, <1>5
  <2>2. PICK f : IsRun(f, n - 1, g, ins)
    BY <1>2, <2>1
  <2>. DEFINE h == [i \in 0 .. n |-> IF i < n THEN f[i] ELSE EvalNode(f[n - 1], g.nodes[n], g, ins)]
  <2>3. ASSUME NEW i \in 0 .. n
        PROVE  h[i] = IF i = 0 THEN Start ELSE EvalNode(h[i - 1], g.nodes[i], g, ins)
    <3>1. CASE i = 0
      BY <1>3, <1>5, <2>2, <3>1 DEF IsRun
    <3>2. CASE i # 0
      <4>1. i - 1 \in 0 .. n /\ i - 1 < n
        BY <1>3, <3>2
      <4>2. h[i - 1] = f[i - 1]
        BY <4>1
      <4>3. CASE i < n
        <5>1. i \in 0 .. n - 1 /\ h[i] = f[i]
          BY <1>3, <4>3
        <5>2. f[i] = EvalNode(f[i - 1], g.nodes[i], g, ins)
          BY <2>2, <3>2, <5>1 DEF IsRun
        <5>. QED
          BY <3>2, <4>2, <5>1, <5>2, Zenon
      <4>4. CASE i = n
        <5>1. h[i] = EvalNode(f[n - 1], g.nodes[n], g, ins)
          BY <1>3, <4>4
        <5>. QED
          BY <3>2, <4>2, <4>4, <5>1, Zenon
      <4>. QED
        BY <1>3, <4>3, <4>4
    <3>. QED
      BY <3>1, <3>2
  <2>4. IsRun(h, n, g, ins)
    <3>1. h = [i \in 0 .. n |-> h[i]]
      OBVIOUS
    <3>. HIDE DEF h
    <3>. QED
      BY <2>3, <3>1 DEF IsRun
  <2>. QED
    BY <1>3, <2>4
<1>. QED
  BY <1>4, <1>5

(* What the evaluator has in the end is the last of a run.                 *)
LEMMA WalkEnds ==
  ASSUME NEW g, NEW ins, num_nodes(g) \in Nat
  PROVE  \E f : IsRun(f, num_nodes(g), g, ins) /\ Walk(g, ins) = f[num_nodes(g)]
<1>. DEFINE f == CHOOSE ev : IsRun(ev, num_nodes(g), g, ins)
<1>1. IsRun(f, num_nodes(g), g, ins)
  BY RunExists
<1>2. Walk(g, ins) = f[num_nodes(g)]
  BY DEF Walk, IsRun
<1>. QED
  BY <1>1, <1>2

-----------------------------------------------------------------------------
(* Builders.                                                               *)

Kinds == {"Input", "PlaintextInput", "Constant", "Op", "Output"}

IsInput(node) == node.kind \in {"Input", "PlaintextInput"}

Counter(b, kind) ==
  CASE kind = "Input"          -> b.num_inputs
    [] kind = "PlaintextInput" -> b.num_plaintext_inputs
    [] kind = "Constant"       -> b.num_constants
    [] kind = "Op"             -> b.num_ops
    [] kind = "Output"         -> b.num_outputs

KindsOf(b, kind) == {i \in 1 .. Len(b.nodes) : b.nodes[i].kind = kind}

IsBuilder(b) ==
  /\ b = [nodes |-> b.nodes, constants |-> b.constants, num_inputs |-> b.num_inputs,
          num_plaintext_inputs |-> b.num_plaintext_inputs, num_constants |-> b.num_constants,
          num_ops |-> b.num_ops, num_outputs |-> b.num_outputs]
  /\ IsSeq(b.nodes) /\ IsSeq(b.constants)
  /\ \A kind \in Kinds : Counter(b, kind) \in Nat

(* A node refers to nodes before it, and to a place a u16 can name.        *)
NodeOK(node, i) ==
  /\ node.kind \in Kinds /\ node.fhe_type \in FheType
  /\ node.kind = "Op" => /\ node.a \in 0 .. i - 2
                         /\ node.b \in (0 .. i - 2) \cup {NoOperand}
                         /\ node.c \in (0 .. i - 2) \cup {NoOperand}
  /\ node.kind = "Output" => node.a \in 0 .. i - 2
  /\ node.kind = "Constant" => node.a \in 0 .. Word - 1

WidthAt(b, i) == byte_width[b.nodes[i].fhe_type]

EndAt(b, i) == b.nodes[i].a + WidthAt(b, i)

BytesAt(b, i) == SubSeq(b.constants, b.nodes[i].a + 1, EndAt(b, i))

Fit(b) == Len(b.constants) < Word

InRange(b) == \A i \in KindsOf(b, "Constant") : EndAt(b, i) <= Len(b.constants)

Crossing(b) == \E i \in KindsOf(b, "Constant") : EndAt(b, i) >= Word

Shared(b) ==
  \A i, j \in KindsOf(b, "Constant") :
    b.nodes[i].fhe_type = b.nodes[j].fhe_type /\ BytesAt(b, i) = BytesAt(b, j) => i = j

Counts(b) == \A kind \in Kinds : Counter(b, kind) = Cardinality(KindsOf(b, kind))

Sections(b) == IF Fit(b) THEN InRange(b) /\ Shared(b) ELSE Crossing(b)

(* A graph whose first m nodes are its inputs.                             *)
GraphOK(b, m) ==
  /\ IsBuilder(b)
  /\ \A i \in 1 .. Len(b.nodes) : NodeOK(b.nodes[i], i) /\ (IsInput(b.nodes[i]) <=> i <= m)
  /\ Counts(b)
  /\ num_nodes(serialize(b)) = Len(b.nodes)
  /\ m \in Nat /\ m <= Len(b.nodes) /\ b.num_inputs <= m
  /\ Len(b.nodes) <= NoOperand
  /\ Sections(b)

(* c is b with one more node, which is counted.                            *)
Pushes(b, c, node) ==
  /\ IsBuilder(c)
  /\ c.nodes = Append(b.nodes, node)
  /\ \A kind \in Kinds : Counter(c, kind) = Counter(b, kind) + (IF kind = node.kind THEN 1 ELSE 0)

LEMMA Widths ==
  ASSUME NEW t \in FheType
  PROVE  byte_width[t] \in Nat \ {0}
BY DEF byte_width, FheType, Elems

LEMMA PushedNodes ==
  ASSUME NEW b, NEW c, NEW node, IsBuilder(b), Pushes(b, c, node)
  PROVE  /\ Len(b.nodes) \in Nat /\ Len(c.nodes) = Len(b.nodes) + 1
         /\ \A i \in 1 .. Len(b.nodes) : c.nodes[i] = b.nodes[i]
         /\ c.nodes[Len(c.nodes)] = node
<1>1. IsSeq(b.nodes) /\ c.nodes = Append(b.nodes, node)
  BY DEF IsBuilder, Pushes
<1>2. Len(b.nodes) \in Nat
  BY <1>1 DEF IsSeq
<1>3. /\ Len(Append(b.nodes, node)) = Len(b.nodes) + 1
      /\ \A i \in 1 .. Len(b.nodes) : Append(b.nodes, node)[i] = b.nodes[i]
      /\ Append(b.nodes, node)[Len(b.nodes) + 1] = node
  <2>. DEFINE s == b.nodes
  <2>1. IsSeq(s)
    BY <1>1
  <2>. HIDE DEF s
  <2>2. Len(Append(s, node)) = Len(s) + 1 /\ (\A i \in 1 .. Len(s) : Append(s, node)[i] = s[i])
        /\ Append(s, node)[Len(s) + 1] = node
    BY <2>1, Appended
  <2>. QED
    BY <2>2, Zenon DEF s
<1>. QED
  BY <1>1, <1>2, <1>3, Zenon

LEMMA PushedKinds ==
  ASSUME NEW b, NEW c, NEW node, IsBuilder(b), Pushes(b, c, node), NEW kind
  PROVE  /\ node.kind = kind => KindsOf(c, kind) = KindsOf(b, kind) \cup {Len(c.nodes)}
         /\ kind # node.kind => KindsOf(c, kind) = KindsOf(b, kind)
<1>1. /\ Len(b.nodes) \in Nat /\ Len(c.nodes) = Len(b.nodes) + 1
      /\ \A i \in 1 .. Len(b.nodes) : c.nodes[i] = b.nodes[i]
      /\ c.nodes[Len(c.nodes)] = node
  BY PushedNodes
<1>2. 1 .. Len(c.nodes) = (1 .. Len(b.nodes)) \cup {Len(c.nodes)}
  BY <1>1
<1>3. \A i \in 1 .. Len(b.nodes) : i # Len(c.nodes)
  BY <1>1
<1>. QED
  BY <1>1, <1>2, <1>3 DEF KindsOf

(* The counters stay those of the nodes.                                   *)
LEMMA PushedCounts ==
  ASSUME NEW b, NEW c, NEW node, IsBuilder(b), Pushes(b, c, node), Counts(b)
  PROVE  Counts(c)
<1>. SUFFICES ASSUME NEW kind \in Kinds PROVE Counter(c, kind) = Cardinality(KindsOf(c, kind))
  BY DEF Counts
<1>1. Len(b.nodes) \in Nat /\ Len(c.nodes) = Len(b.nodes) + 1
  BY PushedNodes
<1>2. KindsOf(b, kind) \subseteq 1 .. Len(b.nodes) /\ Len(c.nodes) \notin 1 .. Len(b.nodes)
  BY <1>1 DEF KindsOf
<1>3. IsFiniteSet(1 .. Len(b.nodes))
  BY <1>1, FS_Interval
<1>4. IsFiniteSet(KindsOf(b, kind))
  BY <1>2, <1>3, FS_Subset
<1>5. Cardinality(KindsOf(b, kind) \cup {Len(c.nodes)}) = Cardinality(KindsOf(b, kind)) + 1
  BY <1>2, <1>4, FS_AddElement
<1>6. Counter(b, kind) = Cardinality(KindsOf(b, kind)) /\ Counter(b, kind) \in Nat
  BY DEF Counts, IsBuilder
<1>7. Counter(c, kind) = Counter(b, kind) + (IF kind = node.kind THEN 1 ELSE 0)
  BY DEF Pushes
<1>8. CASE kind = node.kind
  <2>1. KindsOf(c, kind) = KindsOf(b, kind) \cup {Len(c.nodes)}
    BY <1>8, PushedKinds, Zenon
  <2>2. Counter(c, kind) = Counter(b, kind) + 1
    BY <1>7, <1>8
  <2>. QED
    BY <1>5, <1>6, <2>1, <2>2
<1>9. CASE kind # node.kind
  <2>1. KindsOf(c, kind) = KindsOf(b, kind)
    BY <1>9, PushedKinds
  <2>. QED
    BY <1>6, <1>7, <1>9, <2>1
<1>. QED
  BY <1>8, <1>9

LEMMA SumOfCounters ==
  ASSUME NEW b
  PROVE  num_nodes(serialize(b)) = Counter(b, "Input") + Counter(b, "PlaintextInput") + Counter(b, "Constant")
                                   + Counter(b, "Op") + Counter(b, "Output")
BY DEF num_nodes, serialize, Counter

(* The header tells how many nodes there are.                              *)
LEMMA PushedSum ==
  ASSUME NEW b, NEW c, NEW node, IsBuilder(b), Pushes(b, c, node), node.kind \in Kinds,
         num_nodes(serialize(b)) = Len(b.nodes)
  PROVE  num_nodes(serialize(c)) = Len(c.nodes)
<1>1. \A kind \in Kinds : /\ Counter(b, kind) \in Nat
                          /\ Counter(c, kind) = Counter(b, kind) + (IF kind = node.kind THEN 1 ELSE 0)
  BY DEF IsBuilder, Pushes
<1>. DEFINE one(kind) == IF kind = node.kind THEN 1 ELSE 0
<1>2. one("Input") + one("PlaintextInput") + one("Constant") + one("Op") + one("Output") = 1
  BY DEF Kinds
<1>3. \A kind \in Kinds : one(kind) \in Nat
  OBVIOUS
<1>. HIDE DEF one
<1>4. num_nodes(serialize(c)) = num_nodes(serialize(b)) + 1
  <2>1. /\ Counter(c, "Input") = Counter(b, "Input") + one("Input")
        /\ Counter(c, "PlaintextInput") = Counter(b, "PlaintextInput") + one("PlaintextInput")
        /\ Counter(c, "Constant") = Counter(b, "Constant") + one("Constant")
        /\ Counter(c, "Op") = Counter(b, "Op") + one("Op")
        /\ Counter(c, "Output") = Counter(b, "Output") + one("Output")
    BY <1>1 DEF one, Kinds
  <2>2. /\ Counter(b, "Input") \in Nat /\ one("Input") \in Nat
        /\ Counter(b, "PlaintextInput") \in Nat /\ one("PlaintextInput") \in Nat
        /\ Counter(b, "Constant") \in Nat /\ one("Constant") \in Nat
        /\ Counter(b, "Op") \in Nat /\ one("Op") \in Nat
        /\ Counter(b, "Output") \in Nat /\ one("Output") \in Nat
    BY <1>1, <1>3 DEF Kinds
  <2>3. num_nodes(serialize(c)) = Counter(c, "Input") + Counter(c, "PlaintextInput") + Counter(c, "Constant")
                                  + Counter(c, "Op") + Counter(c, "Output")
    BY SumOfCounters
  <2>4. num_nodes(serialize(b)) = Counter(b, "Input") + Counter(b, "PlaintextInput") + Counter(b, "Constant")
                                  + Counter(b, "Op") + Counter(b, "Output")
    BY SumOfCounters
  <2>. QED
    BY <1>2, <2>1, <2>2, <2>3, <2>4
<1>. QED
  BY <1>4, PushedNodes

(* The builder's functions push the node they are named for.               *)

Record(nodes, consts, a, b, c, d, e) ==
  [nodes |-> nodes, constants |-> consts, num_inputs |-> a, num_plaintext_inputs |-> b, num_constants |-> c,
   num_ops |-> d, num_outputs |-> e]

LEMMA RecordIsBuilder ==
  ASSUME NEW nodes, NEW consts, IsSeq(nodes), IsSeq(consts),
         NEW i \in Nat, NEW p \in Nat, NEW k \in Nat, NEW o \in Nat, NEW u \in Nat
  PROVE  IsBuilder(Record(nodes, consts, i, p, k, o, u))
BY DEF IsBuilder, Record, Counter, Kinds

LEMMA BuilderIsRecord ==
  ASSUME NEW b, IsBuilder(b)
  PROVE  /\ b = Record(b.nodes, b.constants, b.num_inputs, b.num_plaintext_inputs, b.num_constants, b.num_ops,
                       b.num_outputs)
         /\ b.num_inputs \in Nat /\ b.num_plaintext_inputs \in Nat /\ b.num_constants \in Nat /\ b.num_ops \in Nat
         /\ b.num_outputs \in Nat
<1>1. \A kind \in Kinds : Counter(b, kind) \in Nat
  BY DEF IsBuilder
<1>2. /\ Counter(b, "Input") \in Nat /\ Counter(b, "PlaintextInput") \in Nat /\ Counter(b, "Constant") \in Nat
      /\ Counter(b, "Op") \in Nat /\ Counter(b, "Output") \in Nat
  BY <1>1 DEF Kinds
<1>3. b = Record(b.nodes, b.constants, b.num_inputs, b.num_plaintext_inputs, b.num_constants, b.num_ops, b.num_outputs)
  BY DEF IsBuilder, Record
<1>. QED
  BY <1>2, <1>3 DEF Counter

LEMMA PushOfRecord ==
  ASSUME NEW nodes, NEW consts, NEW i, NEW p, NEW k, NEW o, NEW u, NEW node
  PROVE  push_node(Record(nodes, consts, i, p, k, o, u), node)
           = [gb |-> Record(Append(nodes, node), consts, i, p, k, o, u), index |-> Len(nodes)]
<1>1. [Record(nodes, consts, i, p, k, o, u) EXCEPT !.nodes = Append(@, node)]
        = Record(Append(nodes, node), consts, i, p, k, o, u)
  BY DEF Record
<1>2. Record(nodes, consts, i, p, k, o, u).nodes = nodes
  BY DEF Record
<1>. QED
  BY <1>1, <1>2 DEF push_node

(* A record that is b with one more node, which its counter counts.        *)
LEMMA RecordPushed ==
  ASSUME NEW b, IsBuilder(b), NEW node, NEW consts, IsSeq(consts),
         NEW i, i = b.num_inputs + (IF node.kind = "Input" THEN 1 ELSE 0),
         NEW p, p = b.num_plaintext_inputs + (IF node.kind = "PlaintextInput" THEN 1 ELSE 0),
         NEW k, k = b.num_constants + (IF node.kind = "Constant" THEN 1 ELSE 0),
         NEW o, o = b.num_ops + (IF node.kind = "Op" THEN 1 ELSE 0),
         NEW u, u = b.num_outputs + (IF node.kind = "Output" THEN 1 ELSE 0)
  PROVE  LET c == Record(Append(b.nodes, node), consts, i, p, k, o, u)
         IN  Pushes(b, c, node) /\ c.constants = consts
<1>. DEFINE c == Record(Append(b.nodes, node), consts, i, p, k, o, u)
<1>1. i \in Nat /\ p \in Nat /\ k \in Nat /\ o \in Nat /\ u \in Nat
  BY BuilderIsRecord
<1>2. IsSeq(Append(b.nodes, node))
  BY Appended DEF IsBuilder
<1>3. IsBuilder(c)
  BY <1>1, <1>2, RecordIsBuilder
<1>4. \A kind \in Kinds : Counter(c, kind) = Counter(b, kind) + (IF kind = node.kind THEN 1 ELSE 0)
  BY DEF Counter, Record, Kinds
<1>5. c.nodes = Append(b.nodes, node) /\ c.constants = consts
  BY DEF Record
<1>. QED
  BY <1>3, <1>4, <1>5 DEF Pushes

LEMMA OpOfRecord ==
  ASSUME NEW nodes, NEW consts, NEW i, NEW p, NEW k, NEW o, NEW u, NEW op, NEW t, NEW x, NEW y, NEW z
  PROVE  add_ternary_op(Record(nodes, consts, i, p, k, o, u), op, t, x, y, z)
           = [gb    |-> Record(Append(nodes, Node("Op", op, t, x, y, z)), consts, i, p, k, o + 1, u),
              index |-> Len(nodes)]
<1>1. [Record(nodes, consts, i, p, k, o, u) EXCEPT !.num_ops = @ + 1] = Record(nodes, consts, i, p, k, o + 1, u)
  BY DEF Record
<1>. QED
  BY <1>1, PushOfRecord DEF add_ternary_op

LEMMA OpPushed ==
  ASSUME NEW b, IsBuilder(b), NEW op, NEW t, NEW x, NEW y, NEW z
  PROVE  LET r == add_ternary_op(b, op, t, x, y, z)
         IN  /\ Pushes(b, r.gb, Node("Op", op, t, x, y, z))
             /\ r.gb.constants = b.constants
             /\ r.index = Len(b.nodes)
<1>. DEFINE node == Node("Op", op, t, x, y, z)
            c    == Record(Append(b.nodes, node), b.constants, b.num_inputs, b.num_plaintext_inputs,
                           b.num_constants, b.num_ops + 1, b.num_outputs)
<1>1. add_ternary_op(b, op, t, x, y, z) = [gb |-> c, index |-> Len(b.nodes)]
  <2>. DEFINE all == Record(b.nodes, b.constants, b.num_inputs, b.num_plaintext_inputs, b.num_constants, b.num_ops,
                            b.num_outputs)
  <2>1. b = all
    BY BuilderIsRecord, Zenon
  <2>2. add_ternary_op(all, op, t, x, y, z) = [gb |-> c, index |-> Len(b.nodes)]
    BY OpOfRecord
  <2>. HIDE DEF all, c
  <2>. QED
    BY <2>1, <2>2, Zenon
<1>2. node.kind = "Op"
  BY DEF Node
<1>. HIDE DEF node
<1>3. /\ b.num_inputs = b.num_inputs + (IF node.kind = "Input" THEN 1 ELSE 0)
      /\ b.num_plaintext_inputs = b.num_plaintext_inputs + (IF node.kind = "PlaintextInput" THEN 1 ELSE 0)
      /\ b.num_constants = b.num_constants + (IF node.kind = "Constant" THEN 1 ELSE 0)
      /\ b.num_ops + 1 = b.num_ops + (IF node.kind = "Op" THEN 1 ELSE 0)
      /\ b.num_outputs = b.num_outputs + (IF node.kind = "Output" THEN 1 ELSE 0)
  BY <1>2, BuilderIsRecord
<1>4. IsSeq(b.constants)
  BY DEF IsBuilder
<1>5. Pushes(b, c, node) /\ c.constants = b.constants
  BY <1>3, <1>4, RecordPushed
<1>. HIDE DEF c
<1>. QED
  BY <1>1, <1>5 DEF node

LEMMA OutputOfRecord ==
  ASSUME NEW nodes, NEW consts, NEW i, NEW p, NEW k, NEW o, NEW u, NEW t, NEW x
  PROVE  add_output(Record(nodes, consts, i, p, k, o, u), t, x)
           = [gb    |-> Record(Append(nodes, Node("Output", "none", t, x, NoOperand, NoOperand)), consts, i, p, k, o, u + 1),
              index |-> Len(nodes)]
<1>1. [Record(nodes, consts, i, p, k, o, u) EXCEPT !.num_outputs = @ + 1] = Record(nodes, consts, i, p, k, o, u + 1)
  BY DEF Record
<1>. QED
  BY <1>1, PushOfRecord DEF add_output

LEMMA OutputPushed ==
  ASSUME NEW b, IsBuilder(b), NEW t, NEW x
  PROVE  LET r == add_output(b, t, x)
         IN  /\ Pushes(b, r.gb, Node("Output", "none", t, x, NoOperand, NoOperand))
             /\ r.gb.constants = b.constants
             /\ r.index = Len(b.nodes)
<1>. DEFINE node == Node("Output", "none", t, x, NoOperand, NoOperand)
            c    == Record(Append(b.nodes, node), b.constants, b.num_inputs, b.num_plaintext_inputs,
                           b.num_constants, b.num_ops, b.num_outputs + 1)
<1>1. add_output(b, t, x) = [gb |-> c, index |-> Len(b.nodes)]
  <2>. DEFINE all == Record(b.nodes, b.constants, b.num_inputs, b.num_plaintext_inputs, b.num_constants, b.num_ops,
                            b.num_outputs)
  <2>1. b = all
    BY BuilderIsRecord, Zenon
  <2>2. add_output(all, t, x) = [gb |-> c, index |-> Len(b.nodes)]
    BY OutputOfRecord
  <2>. HIDE DEF all, c
  <2>. QED
    BY <2>1, <2>2, Zenon
<1>2. node.kind = "Output"
  BY DEF Node
<1>. HIDE DEF node
<1>3. /\ b.num_inputs = b.num_inputs + (IF node.kind = "Input" THEN 1 ELSE 0)
      /\ b.num_plaintext_inputs = b.num_plaintext_inputs + (IF node.kind = "PlaintextInput" THEN 1 ELSE 0)
      /\ b.num_constants = b.num_constants + (IF node.kind = "Constant" THEN 1 ELSE 0)
      /\ b.num_ops = b.num_ops + (IF node.kind = "Op" THEN 1 ELSE 0)
      /\ b.num_outputs + 1 = b.num_outputs + (IF node.kind = "Output" THEN 1 ELSE 0)
  BY <1>2, BuilderIsRecord
<1>4. IsSeq(b.constants)
  BY DEF IsBuilder
<1>5. Pushes(b, c, node) /\ c.constants = b.constants
  BY <1>3, <1>4, RecordPushed
<1>. HIDE DEF c
<1>. QED
  BY <1>1, <1>5 DEF node

LEMMA InputOfRecord ==
  ASSUME NEW nodes, NEW consts, NEW i, NEW p, NEW k, NEW o, NEW u, NEW t
  PROVE  add_input(Record(nodes, consts, i, p, k, o, u), t)
           = [gb    |-> Record(Append(nodes, Node("Input", "none", t, NoOperand, NoOperand, NoOperand)), consts, i + 1, p, k, o, u),
              index |-> Len(nodes)]
<1>1. [Record(nodes, consts, i, p, k, o, u) EXCEPT !.num_inputs = @ + 1] = Record(nodes, consts, i + 1, p, k, o, u)
  BY DEF Record
<1>. QED
  BY <1>1, PushOfRecord DEF add_input

LEMMA InputPushed ==
  ASSUME NEW b, IsBuilder(b), NEW t
  PROVE  LET r == add_input(b, t)
         IN  /\ Pushes(b, r.gb, Node("Input", "none", t, NoOperand, NoOperand, NoOperand))
             /\ r.gb.constants = b.constants
             /\ r.index = Len(b.nodes)
<1>. DEFINE node == Node("Input", "none", t, NoOperand, NoOperand, NoOperand)
            c    == Record(Append(b.nodes, node), b.constants, b.num_inputs + 1, b.num_plaintext_inputs,
                           b.num_constants, b.num_ops, b.num_outputs)
<1>1. add_input(b, t) = [gb |-> c, index |-> Len(b.nodes)]
  <2>. DEFINE all == Record(b.nodes, b.constants, b.num_inputs, b.num_plaintext_inputs, b.num_constants, b.num_ops,
                            b.num_outputs)
  <2>1. b = all
    BY BuilderIsRecord, Zenon
  <2>2. add_input(all, t) = [gb |-> c, index |-> Len(b.nodes)]
    BY InputOfRecord
  <2>. HIDE DEF all, c
  <2>. QED
    BY <2>1, <2>2, Zenon
<1>2. node.kind = "Input"
  BY DEF Node
<1>. HIDE DEF node
<1>3. /\ b.num_inputs + 1 = b.num_inputs + (IF node.kind = "Input" THEN 1 ELSE 0)
      /\ b.num_plaintext_inputs = b.num_plaintext_inputs + (IF node.kind = "PlaintextInput" THEN 1 ELSE 0)
      /\ b.num_constants = b.num_constants + (IF node.kind = "Constant" THEN 1 ELSE 0)
      /\ b.num_ops = b.num_ops + (IF node.kind = "Op" THEN 1 ELSE 0)
      /\ b.num_outputs = b.num_outputs + (IF node.kind = "Output" THEN 1 ELSE 0)
  BY <1>2, BuilderIsRecord
<1>4. IsSeq(b.constants)
  BY DEF IsBuilder
<1>5. Pushes(b, c, node) /\ c.constants = b.constants
  BY <1>3, <1>4, RecordPushed
<1>. HIDE DEF c
<1>. QED
  BY <1>1, <1>5 DEF node

LEMMA PlaintextInputOfRecord ==
  ASSUME NEW nodes, NEW consts, NEW i, NEW p, NEW k, NEW o, NEW u, NEW t
  PROVE  add_plaintext_input(Record(nodes, consts, i, p, k, o, u), t)
           = [gb    |-> Record(Append(nodes, Node("PlaintextInput", "none", t, NoOperand, NoOperand, NoOperand)), consts, i, p + 1, k, o, u),
              index |-> Len(nodes)]
<1>1. [Record(nodes, consts, i, p, k, o, u) EXCEPT !.num_plaintext_inputs = @ + 1] = Record(nodes, consts, i, p + 1, k, o, u)
  BY DEF Record
<1>. QED
  BY <1>1, PushOfRecord DEF add_plaintext_input

LEMMA PlaintextInputPushed ==
  ASSUME NEW b, IsBuilder(b), NEW t
  PROVE  LET r == add_plaintext_input(b, t)
         IN  /\ Pushes(b, r.gb, Node("PlaintextInput", "none", t, NoOperand, NoOperand, NoOperand))
             /\ r.gb.constants = b.constants
             /\ r.index = Len(b.nodes)
<1>. DEFINE node == Node("PlaintextInput", "none", t, NoOperand, NoOperand, NoOperand)
            c    == Record(Append(b.nodes, node), b.constants, b.num_inputs, b.num_plaintext_inputs + 1,
                           b.num_constants, b.num_ops, b.num_outputs)
<1>1. add_plaintext_input(b, t) = [gb |-> c, index |-> Len(b.nodes)]
  <2>. DEFINE all == Record(b.nodes, b.constants, b.num_inputs, b.num_plaintext_inputs, b.num_constants, b.num_ops,
                            b.num_outputs)
  <2>1. b = all
    BY BuilderIsRecord, Zenon
  <2>2. add_plaintext_input(all, t) = [gb |-> c, index |-> Len(b.nodes)]
    BY PlaintextInputOfRecord
  <2>. HIDE DEF all, c
  <2>. QED
    BY <2>1, <2>2, Zenon
<1>2. node.kind = "PlaintextInput"
  BY DEF Node
<1>. HIDE DEF node
<1>3. /\ b.num_inputs = b.num_inputs + (IF node.kind = "Input" THEN 1 ELSE 0)
      /\ b.num_plaintext_inputs + 1 = b.num_plaintext_inputs + (IF node.kind = "PlaintextInput" THEN 1 ELSE 0)
      /\ b.num_constants = b.num_constants + (IF node.kind = "Constant" THEN 1 ELSE 0)
      /\ b.num_ops = b.num_ops + (IF node.kind = "Op" THEN 1 ELSE 0)
      /\ b.num_outputs = b.num_outputs + (IF node.kind = "Output" THEN 1 ELSE 0)
  BY <1>2, BuilderIsRecord
<1>4. IsSeq(b.constants)
  BY DEF IsBuilder
<1>5. Pushes(b, c, node) /\ c.constants = b.constants
  BY <1>3, <1>4, RecordPushed
<1>. HIDE DEF c
<1>. QED
  BY <1>1, <1>5 DEF node

NewConstant(b, t, data) ==
  push_node([b EXCEPT !.constants = @ \o data, !.num_constants = @ + 1],
            Node("Constant", "none", t, Len(b.constants) % Word, NoOperand, NoOperand))

LEMMA ConstantOfRecord ==
  ASSUME NEW nodes, NEW consts, NEW i, NEW p, NEW k, NEW o, NEW u, NEW t, NEW data
  PROVE  NewConstant(Record(nodes, consts, i, p, k, o, u), t, data)
           = [gb    |-> Record(Append(nodes, Node("Constant", "none", t, Len(consts) % Word, NoOperand, NoOperand)),
                               consts \o data, i, p, k + 1, o, u),
              index |-> Len(nodes)]
<1>. DEFINE r      == Record(nodes, consts, i, p, k, o, u)
            longer == consts \o data
            r1     == Record(nodes, longer, i, p, k, o, u)
            r2     == Record(nodes, longer, i, p, k + 1, o, u)
<1>1. r.constants = consts
  BY DEF Record
<1>2. [r EXCEPT !.constants = @ \o data, !.num_constants = @ + 1]
        = [[r EXCEPT !.constants = r.constants \o data] EXCEPT !.num_constants = @ + 1]
  BY DEF Record
<1>3. [r EXCEPT !.constants = longer] = r1
  <2>. HIDE DEF longer
  <2>. QED
    BY DEF Record
<1>4. [r1 EXCEPT !.num_constants = @ + 1] = r2
  <2>. HIDE DEF longer
  <2>. QED
    BY DEF Record
<1>5. push_node(r2, Node("Constant", "none", t, Len(consts) % Word, NoOperand, NoOperand))
        = [gb    |-> Record(Append(nodes, Node("Constant", "none", t, Len(consts) % Word, NoOperand, NoOperand)),
                            longer, i, p, k + 1, o, u),
           index |-> Len(nodes)]
  <2>. HIDE DEF longer
  <2>. QED
    BY PushOfRecord
<1>6. [r EXCEPT !.constants = @ \o data, !.num_constants = @ + 1] = r2
  <2>. HIDE DEF r, r1, r2
  <2>. QED
    BY <1>1, <1>2, <1>3, <1>4, Zenon
<1>7. NewConstant(r, t, data) = push_node(r2, Node("Constant", "none", t, Len(consts) % Word, NoOperand, NoOperand))
  <2>. HIDE DEF r, r1, r2
  <2>. QED
    BY <1>1, <1>6, Zenon DEF NewConstant
<1>. HIDE DEF r2
<1>. QED
  BY <1>5, <1>7, Zenon

LEMMA ConstantRecordPushed ==
  ASSUME NEW b, IsBuilder(b), NEW node, node.kind = "Constant", NEW consts, IsSeq(consts)
  PROVE  LET c == Record(Append(b.nodes, node), consts, b.num_inputs, b.num_plaintext_inputs, b.num_constants + 1,
                         b.num_ops, b.num_outputs)
         IN  Pushes(b, c, node) /\ c.constants = consts
<1>1. /\ b.num_inputs = b.num_inputs + (IF node.kind = "Input" THEN 1 ELSE 0)
      /\ b.num_plaintext_inputs = b.num_plaintext_inputs + (IF node.kind = "PlaintextInput" THEN 1 ELSE 0)
      /\ b.num_constants + 1 = b.num_constants + (IF node.kind = "Constant" THEN 1 ELSE 0)
      /\ b.num_ops = b.num_ops + (IF node.kind = "Op" THEN 1 ELSE 0)
      /\ b.num_outputs = b.num_outputs + (IF node.kind = "Output" THEN 1 ELSE 0)
  BY BuilderIsRecord
<1>. QED
  BY <1>1, RecordPushed

LEMMA ConstantPushed ==
  ASSUME NEW b, IsBuilder(b), NEW t, NEW data, IsSeq(data)
  PROVE  LET r == NewConstant(b, t, data)
         IN  /\ Pushes(b, r.gb, Node("Constant", "none", t, Len(b.constants) % Word, NoOperand, NoOperand))
             /\ r.gb.constants = b.constants \o data
             /\ r.index = Len(b.nodes)
<1>. DEFINE longer == b.constants \o data
            node   == Node("Constant", "none", t, Len(b.constants) % Word, NoOperand, NoOperand)
            c      == Record(Append(b.nodes, node), longer, b.num_inputs, b.num_plaintext_inputs,
                             b.num_constants + 1, b.num_ops, b.num_outputs)
<1>1. NewConstant(b, t, data) = [gb |-> c, index |-> Len(b.nodes)]
  <2>. DEFINE all == Record(b.nodes, b.constants, b.num_inputs, b.num_plaintext_inputs, b.num_constants, b.num_ops,
                            b.num_outputs)
  <2>1. b = all
    BY BuilderIsRecord, Zenon
  <2>2. NewConstant(all, t, data) = [gb |-> c, index |-> Len(b.nodes)]
    BY ConstantOfRecord
  <2>. HIDE DEF all, c
  <2>. QED
    BY <2>1, <2>2, Zenon
<1>2. node.kind = "Constant"
  BY DEF Node
<1>. HIDE DEF node
<1>3. IsSeq(longer)
  BY Concatenated DEF IsBuilder
<1>4. Pushes(b, c, node) /\ c.constants = longer
  <2>. HIDE DEF longer
  <2>. QED
    BY <1>2, <1>3, ConstantRecordPushed
<1>. HIDE DEF c
<1>. QED
  BY <1>1, <1>4 DEF node

(* Where the bytes of a constant are in the graph, it is found, and the graph is what it was. *)
LEMMA ConstantAdded ==
  ASSUME NEW b, IsBuilder(b), NEW t, NEW data
  PROVE  LET r == add_constant_bytes(b, t, data)
         IN  \/ r.gb = b /\ r.index \in 0 .. Len(b.nodes) - 1 /\ SameConstant(b, r.index, t, data)
             \/ r = NewConstant(b, t, data) /\ \A i \in 0 .. Len(b.nodes) - 1 : ~SameConstant(b, i, t, data)
<1>. DEFINE existing == {i \in 0 .. Len(b.nodes) - 1 : SameConstant(b, i, t, data)}
            first    == CHOOSE i \in existing : \A j \in existing : i <= j
<1>1. CASE existing = {}
  <2>1. add_constant_bytes(b, t, data) = NewConstant(b, t, data)
    BY <1>1 DEF add_constant_bytes, NewConstant
  <2>. QED
    BY <1>1, <2>1
<1>2. CASE existing # {}
  <2>1. Len(b.nodes) \in Nat
    BY DEF IsBuilder, IsSeq
  <2>2. existing \in SUBSET Nat
    BY <2>1
  <2>3. \E i \in existing : \A j \in existing : i <= j
    <3>. HIDE DEF existing
    <3>. QED
      BY <1>2, <2>2, LeastOf
  <2>4. first \in existing
    <3>. HIDE DEF existing
    <3>. QED
      BY <2>3
  <2>5. add_constant_bytes(b, t, data) = [gb |-> b, index |-> first]
    BY <1>2 DEF add_constant_bytes
  <2>. HIDE DEF first
  <2>. QED
    BY <2>4, <2>5
<1>. QED
  BY <1>1, <1>2

-----------------------------------------------------------------------------
(* A graph stays one under the pushes of nodes.                            *)

LEMMA PushedNodesOK ==
  ASSUME NEW b, NEW c, NEW node, NEW m, GraphOK(b, m), Pushes(b, c, node), NodeOK(node, Len(b.nodes) + 1),
         Len(b.nodes) < NoOperand,
         NEW n, n = (IF IsInput(node) THEN m + 1 ELSE m), IsInput(node) => m = Len(b.nodes)
  PROVE  /\ IsBuilder(c)
         /\ \A i \in 1 .. Len(c.nodes) : NodeOK(c.nodes[i], i) /\ (IsInput(c.nodes[i]) <=> i <= n)
         /\ Counts(c)
         /\ num_nodes(serialize(c)) = Len(c.nodes)
         /\ n \in Nat /\ n <= Len(c.nodes) /\ c.num_inputs <= n
         /\ Len(c.nodes) <= NoOperand
<1>1. IsBuilder(b) /\ Counts(b) /\ num_nodes(serialize(b)) = Len(b.nodes)
  BY DEF GraphOK
<1>2. m \in Nat /\ m <= Len(b.nodes) /\ b.num_inputs <= m
  BY DEF GraphOK
<1>3. /\ Len(b.nodes) \in Nat /\ Len(c.nodes) = Len(b.nodes) + 1
      /\ \A i \in 1 .. Len(b.nodes) : c.nodes[i] = b.nodes[i]
      /\ c.nodes[Len(c.nodes)] = node
  BY <1>1, PushedNodes
<1>4. node.kind \in Kinds
  BY DEF NodeOK
<1>5. Counts(c) /\ num_nodes(serialize(c)) = Len(c.nodes)
  BY <1>1, <1>4, PushedCounts, PushedSum
<1>6. ASSUME NEW i \in 1 .. Len(c.nodes)
      PROVE  NodeOK(c.nodes[i], i) /\ (IsInput(c.nodes[i]) <=> i <= n)
  <2>1. CASE i \in 1 .. Len(b.nodes)
    <3>1. NodeOK(b.nodes[i], i) /\ (IsInput(b.nodes[i]) <=> i <= m)
      BY <2>1 DEF GraphOK
    <3>2. c.nodes[i] = b.nodes[i]
      BY <1>3, <2>1
    <3>3. i <= m <=> i <= n
      BY <1>2, <1>3, <2>1
    <3>. QED
      BY <3>1, <3>2, <3>3
  <2>2. CASE i = Len(c.nodes)
    <3>1. c.nodes[i] = node /\ NodeOK(node, i)
      BY <1>3, <2>2
    <3>2. IsInput(node) <=> i <= n
      BY <1>2, <1>3, <2>2
    <3>. QED
      BY <3>1, <3>2
  <2>. QED
    BY <1>3, <2>1, <2>2
<1>7. c.num_inputs <= n
  <2>1. Counter(c, "Input") = Counter(b, "Input") + (IF "Input" = node.kind THEN 1 ELSE 0)
    BY DEF Pushes, Kinds
  <2>2. c.num_inputs = b.num_inputs + (IF "Input" = node.kind THEN 1 ELSE 0)
    BY <2>1 DEF Counter
  <2>3. b.num_inputs \in Nat
    BY <1>1, BuilderIsRecord
  <2>. QED
    BY <1>2, <2>2, <2>3 DEF IsInput
<1>8. n \in Nat /\ n <= Len(c.nodes) /\ Len(c.nodes) <= NoOperand
  BY <1>2, <1>3 DEF NoOperand
<1>. QED
  BY <1>5, <1>6, <1>7, <1>8 DEF Pushes

(* A node that is not a constant leaves the constants section alone.       *)
LEMMA SectionsKept ==
  ASSUME NEW b, NEW c, NEW node, IsBuilder(b), Sections(b), Pushes(b, c, node), node.kind # "Constant",
         c.constants = b.constants
  PROVE  Sections(c)
<1>1. KindsOf(c, "Constant") = KindsOf(b, "Constant")
  BY PushedKinds
<1>2. \A i \in KindsOf(b, "Constant") : c.nodes[i] = b.nodes[i]
  BY PushedNodes DEF KindsOf
<1>3. \A i \in KindsOf(b, "Constant") : EndAt(c, i) = EndAt(b, i) /\ BytesAt(c, i) = BytesAt(b, i)
  BY <1>2, Zenon DEF EndAt, WidthAt, BytesAt
<1>4. Fit(c) <=> Fit(b)
  BY DEF Fit
<1>5. CASE Fit(b)
  <2>1. InRange(b) /\ Shared(b)
    BY <1>5 DEF Sections
  <2>2. InRange(c)
    BY <1>1, <1>3, <2>1 DEF InRange
  <2>3. Shared(c)
    BY <1>1, <1>2, <1>3, <2>1, Zenon DEF Shared
  <2>. QED
    BY <1>4, <1>5, <2>2, <2>3 DEF Sections
<1>6. CASE ~Fit(b)
  BY <1>1, <1>3, <1>4, <1>6 DEF Sections, Crossing
<1>. QED
  BY <1>5, <1>6

(* A longer section has the bytes of the constants that were in the shorter one. *)
LEMMA BytesKept ==
  ASSUME NEW s, IsSeq(s), NEW u, IsSeq(u), NEW a \in Nat, NEW n \in Nat, a + n <= Len(s)
  PROVE  SubSeq(s \o u, a + 1, a + n) = SubSeq(s, a + 1, a + n)
<1>1. Len(s) \in Nat
  BY DEF IsSeq
<1>2. \A i \in 1 .. n : (s \o u)[a + i] = s[a + i]
  <2>. TAKE i \in 1 .. n
  <2>1. a + i \in 1 .. Len(s)
    BY <1>1
  <2>. QED
    BY <2>1, Concatenated
<1>3. SubSeq(s, a + 1, a + n) = [i \in 1 .. n |-> s[a + i]]
  BY Cut
<1>4. SubSeq(s \o u, a + 1, a + n) = [i \in 1 .. n |-> (s \o u)[a + i]]
  <2>. DEFINE longer == s \o u
  <2>. HIDE DEF longer
  <2>1. SubSeq(longer, a + 1, a + n) = [i \in 1 .. n |-> longer[a + i]]
    BY Cut
  <2>. QED
    BY <2>1, Zenon DEF longer
<1>. QED
  BY <1>2, <1>3, <1>4

(* The bytes appended are the ones of the constant that is there.          *)
LEMMA BytesAppended ==
  ASSUME NEW s, IsSeq(s), NEW u, IsSeq(u)
  PROVE  SubSeq(s \o u, Len(s) + 1, Len(s) + Len(u)) = u
<1>1. Len(s) \in Nat /\ Len(u) \in Nat /\ u = [i \in 1 .. Len(u) |-> u[i]]
  BY DEF IsSeq
<1>2. \A i \in 1 .. Len(u) : (s \o u)[Len(s) + i] = u[i]
  BY Concatenated
<1>3. SubSeq(s \o u, Len(s) + 1, Len(s) + Len(u)) = [i \in 1 .. Len(u) |-> (s \o u)[Len(s) + i]]
  <2>. DEFINE longer == s \o u
  <2>. HIDE DEF longer
  <2>1. SubSeq(longer, Len(s) + 1, Len(s) + Len(u)) = [i \in 1 .. Len(u) |-> longer[Len(s) + i]]
    BY <1>1, Cut
  <2>. QED
    BY <2>1, Zenon DEF longer
<1>. QED
  BY <1>1, <1>2, <1>3

LEMMA SmallMod ==
  ASSUME NEW n \in Nat, NEW w \in Nat \ {0}, n < w
  PROVE  n % w = n
OBVIOUS

LEMMA ModRange ==
  ASSUME NEW n \in Nat, NEW w \in Nat \ {0}
  PROVE  n % w \in 0 .. w - 1
OBVIOUS

(* A constant that is not there yet, added at the end of the section.      *)
LEMMA SectionsGrown ==
  ASSUME NEW b, NEW c, NEW m, GraphOK(b, m), NEW t \in FheType, NEW data, IsSeq(data), Len(data) = byte_width[t],
         Pushes(b, c, Node("Constant", "none", t, Len(b.constants) % Word, NoOperand, NoOperand)),
         c.constants = b.constants \o data,
         \A i \in 0 .. Len(b.nodes) - 1 : ~SameConstant(b, i, t, data)
  PROVE  /\ Sections(c)
         /\ Fit(c) => Fit(b) /\ EndAt(c, Len(c.nodes)) <= Len(c.constants) /\ BytesAt(c, Len(c.nodes)) = data
<1>. DEFINE node == Node("Constant", "none", t, Len(b.constants) % Word, NoOperand, NoOperand)
            new  == Len(c.nodes)
<1>1. IsBuilder(b) /\ Sections(b) /\ IsSeq(b.constants)
  BY DEF GraphOK, IsBuilder
<1>2. /\ Len(b.nodes) \in Nat /\ new = Len(b.nodes) + 1
      /\ \A i \in 1 .. Len(b.nodes) : c.nodes[i] = b.nodes[i]
      /\ c.nodes[new] = node
  BY <1>1, PushedNodes
<1>3. node.kind = "Constant" /\ node.fhe_type = t /\ node.a = Len(b.constants) % Word
  BY DEF Node
<1>4. KindsOf(c, "Constant") = KindsOf(b, "Constant") \cup {new}
  BY <1>1, <1>3, PushedKinds
<1>5. Len(b.constants) \in Nat /\ Word \in Nat \ {0} /\ byte_width[t] \in Nat \ {0}
  BY <1>1, Widths, WordAssumption DEF IsSeq
<1>6. Len(c.constants) = Len(b.constants) + byte_width[t]
  <2>1. Len(b.constants \o data) = Len(b.constants) + Len(data)
    BY <1>1, Concatenated, Zenon
  <2>. QED
    BY <2>1, Zenon
<1>7. ASSUME NEW i \in KindsOf(b, "Constant")
      PROVE  /\ i \in 1 .. Len(b.nodes) /\ b.nodes[i].kind = "Constant"
             /\ b.nodes[i].fhe_type \in FheType /\ b.nodes[i].a \in Nat
             /\ WidthAt(b, i) \in Nat /\ WidthAt(c, i) = WidthAt(b, i) /\ EndAt(c, i) = EndAt(b, i)
             /\ c.nodes[i] = b.nodes[i]
  <2>1. i \in 1 .. Len(b.nodes) /\ b.nodes[i].kind = "Constant"
    BY DEF KindsOf
  <2>2. NodeOK(b.nodes[i], i)
    BY <2>1 DEF GraphOK
  <2>3. b.nodes[i].fhe_type \in FheType /\ b.nodes[i].a \in Nat
    BY <1>5, <2>1, <2>2 DEF NodeOK
  <2>4. c.nodes[i] = b.nodes[i]
    BY <1>2, <2>1
  <2>. QED
    BY <2>1, <2>3, <2>4, Widths DEF WidthAt, EndAt
<1>. HIDE DEF node, new
<1>8. WidthAt(c, new) = byte_width[t] /\ EndAt(c, new) = (Len(b.constants) % Word) + byte_width[t]
  BY <1>2, <1>3 DEF WidthAt, EndAt
<1>9. CASE Fit(c)
  <2>1. Fit(b) /\ Len(b.constants) < Word
    BY <1>5, <1>6, <1>9 DEF Fit
  <2>2. Len(b.constants) % Word = Len(b.constants)
    BY <1>5, <2>1, SmallMod, Zenon
  <2>3. InRange(b) /\ Shared(b)
    BY <1>1, <2>1 DEF Sections
  <2>4. ASSUME NEW i \in KindsOf(b, "Constant")
        PROVE  EndAt(b, i) <= Len(b.constants) /\ BytesAt(c, i) = BytesAt(b, i)
    <3>1. EndAt(b, i) <= Len(b.constants)
      BY <2>3 DEF InRange
    <3>2. b.nodes[i].a + WidthAt(b, i) <= Len(b.constants)
      BY <3>1 DEF EndAt
    <3>3. SubSeq(b.constants \o data, b.nodes[i].a + 1, b.nodes[i].a + WidthAt(b, i))
            = SubSeq(b.constants, b.nodes[i].a + 1, b.nodes[i].a + WidthAt(b, i))
      <4>1. b.nodes[i].a \in Nat /\ WidthAt(b, i) \in Nat
        BY <1>7
      <4>. QED
        BY <1>1, <3>2, <4>1, BytesKept, Zenon
    <3>. QED
      BY <1>7, <3>1, <3>3, Zenon DEF BytesAt, EndAt
  <2>5. EndAt(c, new) = Len(c.constants) /\ BytesAt(c, new) = data
    <3>1. EndAt(c, new) = Len(b.constants) + Len(data)
      BY <1>8, <2>2
    <3>2. c.nodes[new].a = Len(b.constants)
      BY <1>2, <1>3, <2>2
    <3>3. BytesAt(c, new) = SubSeq(b.constants \o data, Len(b.constants) + 1, Len(b.constants) + Len(data))
      BY <3>1, <3>2, Zenon DEF BytesAt
    <3>. QED
      BY <1>1, <1>6, <3>1, <3>3, BytesAppended
  <2>6. InRange(c)
    <3>. SUFFICES ASSUME NEW i \in KindsOf(c, "Constant") PROVE EndAt(c, i) <= Len(c.constants)
      BY DEF InRange
    <3>1. CASE i \in KindsOf(b, "Constant")
      <4>1. EndAt(c, i) = EndAt(b, i) /\ EndAt(b, i) <= Len(b.constants) /\ EndAt(b, i) \in Int
        BY <1>7, <2>4, <3>1 DEF EndAt
      <4>. QED
        BY <1>5, <1>6, <4>1
    <3>2. CASE i = new
      BY <1>5, <1>6, <2>5, <3>2
    <3>. QED
      BY <1>4, <3>1, <3>2
  <2>7. ASSUME NEW i \in KindsOf(b, "Constant"), b.nodes[i].fhe_type = t, BytesAt(b, i) = data
        PROVE  FALSE
    <3>1. i - 1 \in 0 .. Len(b.nodes) - 1 /\ i - 1 + 1 = i
      BY <1>2, <1>7
    <3>2. EndAt(b, i) = b.nodes[i].a + Len(data)
      BY <2>7 DEF EndAt, WidthAt
    <3>3. SameConstant(b, i - 1, t, data)
      BY <1>7, <2>4, <2>7, <3>1, <3>2, Zenon DEF SameConstant, BytesAt
    <3>. QED
      BY <3>1, <3>3
  <2>8. Shared(c)
    <3>. SUFFICES ASSUME NEW i \in KindsOf(c, "Constant"), NEW j \in KindsOf(c, "Constant"),
                         c.nodes[i].fhe_type = c.nodes[j].fhe_type, BytesAt(c, i) = BytesAt(c, j)
                  PROVE  i = j
      BY DEF Shared
    <3>1. CASE i \in KindsOf(b, "Constant") /\ j \in KindsOf(b, "Constant")
      <4>1. b.nodes[i].fhe_type = b.nodes[j].fhe_type /\ BytesAt(b, i) = BytesAt(b, j)
        BY <1>7, <2>4, <3>1, Zenon
      <4>. QED
        BY <2>3, <3>1, <4>1 DEF Shared
    <3>2. CASE i \in KindsOf(b, "Constant") /\ j = new
      <4>1. b.nodes[i].fhe_type = t /\ BytesAt(b, i) = data
        BY <1>2, <1>3, <1>7, <2>4, <2>5, <3>2, Zenon
      <4>. QED
        BY <2>7, <3>2, <4>1
    <3>3. CASE i = new /\ j \in KindsOf(b, "Constant")
      <4>1. b.nodes[j].fhe_type = t /\ BytesAt(b, j) = data
        BY <1>2, <1>3, <1>7, <2>4, <2>5, <3>3, Zenon
      <4>. QED
        BY <2>7, <3>3, <4>1
    <3>4. CASE i = new /\ j = new
      BY <3>4
    <3>. QED
      BY <1>4, <3>1, <3>2, <3>3, <3>4
  <2>. QED
    BY <1>5, <1>6, <1>9, <2>1, <2>5, <2>6, <2>8 DEF Sections, new
<1>10. CASE ~Fit(c)
  <2>1. Len(b.constants) + byte_width[t] >= Word
    BY <1>5, <1>6, <1>10 DEF Fit
  <2>2. CASE Fit(b)
    <3>1. Len(b.constants) % Word = Len(b.constants)
      BY <1>5, <2>2, SmallMod, Zenon DEF Fit
    <3>2. EndAt(c, new) >= Word
      BY <1>8, <2>1, <3>1
    <3>. QED
      BY <1>4, <1>10, <3>2 DEF Sections, Crossing
  <2>3. CASE ~Fit(b)
    <3>1. PICK i \in KindsOf(b, "Constant") : EndAt(b, i) >= Word
      BY <1>1, <2>3 DEF Sections, Crossing
    <3>2. EndAt(c, i) >= Word
      BY <1>7, <3>1
    <3>. QED
      BY <1>4, <1>10, <3>2 DEF Sections, Crossing
  <2>. QED
    BY <2>2, <2>3
<1>. QED
  BY <1>9, <1>10

(* A node added to a graph, and where it is.                               *)
Adds(b, r, node) ==
  /\ Pushes(b, r.gb, node)
  /\ r.index = Len(b.nodes)

LEMMA OpGraph ==
  ASSUME NEW b, NEW m, GraphOK(b, m), NEW op, NEW t \in FheType, NEW x \in 0 .. Len(b.nodes) - 1,
         NEW y \in (0 .. Len(b.nodes) - 1) \cup {NoOperand}, NEW z \in (0 .. Len(b.nodes) - 1) \cup {NoOperand},
         Len(b.nodes) < NoOperand
  PROVE  LET r == add_ternary_op(b, op, t, x, y, z)
         IN  GraphOK(r.gb, m) /\ Adds(b, r, Node("Op", op, t, x, y, z)) /\ r.gb.constants = b.constants
<1>. DEFINE r    == add_ternary_op(b, op, t, x, y, z)
            node == Node("Op", op, t, x, y, z)
<1>1. IsBuilder(b) /\ Sections(b) /\ Len(b.nodes) \in Nat
  BY DEF GraphOK, IsBuilder, IsSeq
<1>2. Pushes(b, r.gb, node) /\ r.gb.constants = b.constants /\ r.index = Len(b.nodes)
  BY <1>1, OpPushed
<1>3. node.kind = "Op" /\ node.fhe_type = t /\ node.a = x /\ node.b = y /\ node.c = z
  BY DEF Node
<1>. HIDE DEF r, node
<1>4. NodeOK(node, Len(b.nodes) + 1) /\ ~IsInput(node)
  <2>1. Len(b.nodes) + 1 - 2 = Len(b.nodes) - 1
    BY <1>1
  <2>. QED
    BY <1>3, <2>1 DEF NodeOK, IsInput, Kinds
<1>5. Sections(r.gb)
  BY <1>1, <1>2, <1>3, SectionsKept
<1>6. GraphOK(r.gb, m)
  BY <1>2, <1>4, <1>5, PushedNodesOK DEF GraphOK
<1>. QED
  BY <1>2, <1>6 DEF Adds, r, node

LEMMA OutputGraph ==
  ASSUME NEW b, NEW m, GraphOK(b, m), NEW t \in FheType, NEW x \in 0 .. Len(b.nodes) - 1, Len(b.nodes) < NoOperand
  PROVE  LET r == add_output(b, t, x)
         IN  /\ GraphOK(r.gb, m) /\ Adds(b, r, Node("Output", "none", t, x, NoOperand, NoOperand))
             /\ r.gb.constants = b.constants
<1>. DEFINE r    == add_output(b, t, x)
            node == Node("Output", "none", t, x, NoOperand, NoOperand)
<1>1. IsBuilder(b) /\ Sections(b) /\ Len(b.nodes) \in Nat
  BY DEF GraphOK, IsBuilder, IsSeq
<1>2. Pushes(b, r.gb, node) /\ r.gb.constants = b.constants /\ r.index = Len(b.nodes)
  BY <1>1, OutputPushed
<1>3. node.kind = "Output" /\ node.fhe_type = t /\ node.a = x
  BY DEF Node
<1>. HIDE DEF r, node
<1>4. NodeOK(node, Len(b.nodes) + 1) /\ ~IsInput(node)
  <2>1. Len(b.nodes) + 1 - 2 = Len(b.nodes) - 1
    BY <1>1
  <2>. QED
    BY <1>3, <2>1 DEF NodeOK, IsInput, Kinds
<1>5. Sections(r.gb)
  BY <1>1, <1>2, <1>3, SectionsKept
<1>6. GraphOK(r.gb, m)
  BY <1>2, <1>4, <1>5, PushedNodesOK DEF GraphOK
<1>. QED
  BY <1>2, <1>6 DEF Adds, r, node

(* A parameter: while there are only parameters, there are only inputs.    *)
ParamNode(p) ==
  Node(IF p.plaintext THEN "PlaintextInput" ELSE "Input", "none", p.type, NoOperand, NoOperand, NoOperand)

ParamCall(b, p) == IF p.plaintext THEN add_plaintext_input(b, p.type) ELSE add_input(b, p.type)

LEMMA InputGraph ==
  ASSUME NEW b, NEW m, GraphOK(b, m), m = Len(b.nodes), NEW p, p.type \in FheType, p.plaintext \in BOOLEAN,
         Len(b.nodes) < NoOperand
  PROVE  /\ GraphOK(ParamCall(b, p).gb, m + 1) /\ Adds(b, ParamCall(b, p), ParamNode(p))
         /\ ParamCall(b, p).gb.constants = b.constants
<1>. DEFINE r    == ParamCall(b, p)
            node == ParamNode(p)
<1>1. IsBuilder(b) /\ Sections(b) /\ Len(b.nodes) \in Nat
  BY DEF GraphOK, IsBuilder, IsSeq
<1>2. Pushes(b, r.gb, node) /\ r.gb.constants = b.constants /\ r.index = Len(b.nodes)
  <2>1. CASE p.plaintext
    BY <1>1, <2>1, PlaintextInputPushed DEF ParamCall, ParamNode
  <2>2. CASE ~p.plaintext
    BY <1>1, <2>2, InputPushed DEF ParamCall, ParamNode
  <2>. QED
    BY <2>1, <2>2
<1>3. node.kind \in {"PlaintextInput", "Input"} /\ node.fhe_type = p.type
  BY DEF Node, ParamNode
<1>. HIDE DEF r, node
<1>4. NodeOK(node, Len(b.nodes) + 1) /\ IsInput(node)
  BY <1>3 DEF NodeOK, IsInput, Kinds
<1>5. Sections(r.gb)
  BY <1>1, <1>2, <1>3, SectionsKept
<1>6. GraphOK(r.gb, m + 1)
  <2>1. m + 1 = (IF IsInput(node) THEN m + 1 ELSE m)
    BY <1>4
  <2>2. ASSUME NEW n, n = (IF IsInput(node) THEN m + 1 ELSE m)
        PROVE  GraphOK(r.gb, n)
    <3>1. /\ IsBuilder(r.gb)
          /\ \A i \in 1 .. Len(r.gb.nodes) : NodeOK(r.gb.nodes[i], i) /\ (IsInput(r.gb.nodes[i]) <=> i <= n)
          /\ Counts(r.gb)
          /\ num_nodes(serialize(r.gb)) = Len(r.gb.nodes)
          /\ n \in Nat /\ n <= Len(r.gb.nodes) /\ r.gb.num_inputs <= n
          /\ Len(r.gb.nodes) <= NoOperand
      BY <1>2, <1>4, <2>2, PushedNodesOK
    <3>. QED
      BY <1>5, <3>1 DEF GraphOK
  <2>. QED
    BY <2>1, <2>2, Zenon
<1>. QED
  BY <1>2, <1>6 DEF Adds, r, node

(* A constant: a node that is there already, or a new one.                 *)
LEMMA ConstantGraph ==
  ASSUME NEW b, NEW m, GraphOK(b, m), NEW t \in FheType, NEW data, IsSeq(data), Len(data) = byte_width[t],
         Len(add_constant_bytes(b, t, data).gb.nodes) <= NoOperand
  PROVE  LET r == add_constant_bytes(b, t, data)
         IN  /\ GraphOK(r.gb, m)
             /\ r.index \in 0 .. Len(r.gb.nodes) - 1
             /\ r.gb.nodes[r.index + 1].kind = "Constant" /\ r.gb.nodes[r.index + 1].fhe_type = t
             /\ Fit(r.gb) => /\ EndAt(r.gb, r.index + 1) <= Len(r.gb.constants)
                             /\ BytesAt(r.gb, r.index + 1) = data
             /\ \/ r.gb = b
                \/ /\ Adds(b, r, Node("Constant", "none", t, Len(b.constants) % Word, NoOperand, NoOperand))
                   /\ r.gb.constants = b.constants \o data
<1>. DEFINE r    == add_constant_bytes(b, t, data)
            node == Node("Constant", "none", t, Len(b.constants) % Word, NoOperand, NoOperand)
<1>1. IsBuilder(b) /\ Sections(b) /\ Len(b.nodes) \in Nat /\ Len(b.constants) \in Nat
  BY DEF GraphOK, IsBuilder, IsSeq
<1>2. \/ r.gb = b /\ r.index \in 0 .. Len(b.nodes) - 1 /\ SameConstant(b, r.index, t, data)
      \/ r = NewConstant(b, t, data) /\ \A i \in 0 .. Len(b.nodes) - 1 : ~SameConstant(b, i, t, data)
  BY <1>1, ConstantAdded
<1>3. node.kind = "Constant" /\ node.fhe_type = t /\ node.a = Len(b.constants) % Word
  BY DEF Node
<1>12. Len(r.gb.nodes) <= NoOperand
  OBVIOUS
<1>. HIDE DEF r
<1>4. CASE r.gb = b /\ r.index \in 0 .. Len(b.nodes) - 1 /\ SameConstant(b, r.index, t, data)
  <2>1. b.nodes[r.index + 1].kind = "Constant" /\ b.nodes[r.index + 1].fhe_type = t
    BY <1>4 DEF SameConstant
  <2>2. EndAt(b, r.index + 1) <= Len(b.constants) /\ BytesAt(b, r.index + 1) = data
    <3>1. EndAt(b, r.index + 1) = b.nodes[r.index + 1].a + Len(data)
      BY <2>1 DEF EndAt, WidthAt
    <3>. QED
      BY <1>4, <3>1, Zenon DEF SameConstant, BytesAt
  <2>. QED
    BY <1>4, <2>1, <2>2 DEF r
<1>5. CASE r = NewConstant(b, t, data) /\ \A i \in 0 .. Len(b.nodes) - 1 : ~SameConstant(b, i, t, data)
  <2>1. Pushes(b, r.gb, node) /\ r.gb.constants = b.constants \o data /\ r.index = Len(b.nodes)
    BY <1>1, <1>5, ConstantPushed, Zenon
  <2>2. /\ Sections(r.gb)
        /\ Fit(r.gb) => /\ EndAt(r.gb, Len(r.gb.nodes)) <= Len(r.gb.constants)
                        /\ BytesAt(r.gb, Len(r.gb.nodes)) = data
    BY <1>5, <2>1, SectionsGrown, Zenon
  <2>3. Len(r.gb.nodes) = Len(b.nodes) + 1 /\ r.gb.nodes[Len(b.nodes) + 1] = node
    <3>. HIDE DEF node
    <3>. QED
      BY <1>1, <2>1, PushedNodes
  <2>4. NodeOK(node, Len(b.nodes) + 1) /\ ~IsInput(node)
    <3>. HIDE DEF node
    <3>1. node.a \in 0 .. Word - 1
      BY <1>1, <1>3, ModRange, WordAssumption, Zenon
    <3>. QED
      BY <1>3, <3>1 DEF NodeOK, IsInput, Kinds
  <2>5. GraphOK(r.gb, m)
    <3>. HIDE DEF node
    <3>1. Len(b.nodes) < NoOperand
      BY <1>1, <1>12, <2>3 DEF NoOperand
    <3>. QED
      BY <2>1, <2>2, <2>4, <3>1, PushedNodesOK DEF GraphOK
  <2>6. r.index \in 0 .. Len(r.gb.nodes) - 1 /\ r.index + 1 = Len(r.gb.nodes)
    BY <1>1, <2>1, <2>3
  <2>7. Adds(b, r, node)
    BY <2>1 DEF Adds
  <2>8. r.gb.nodes[r.index + 1].kind = "Constant" /\ r.gb.nodes[r.index + 1].fhe_type = t
    <3>. HIDE DEF node
    <3>. QED
      BY <1>3, <2>3, <2>6
  <2>. QED
    BY <2>1, <2>2, <2>5, <2>6, <2>7, <2>8, Zenon DEF r
<1>. QED
  BY <1>2, <1>4, <1>5

-----------------------------------------------------------------------------
(* The evaluator on a graph.                                               *)

Evaluation(digests, outputs, input_idx, err) ==
  [digests |-> digests, outputs |-> outputs, input_idx |-> input_idx, err |-> err]

LEMMA EvaluationFields ==
  ASSUME NEW d, NEW o, NEW k, NEW e
  PROVE  /\ Evaluation(d, o, k, e).digests = d /\ Evaluation(d, o, k, e).outputs = o
         /\ Evaluation(d, o, k, e).input_idx = k /\ Evaluation(d, o, k, e).err = e
BY DEF Evaluation

LEMMA FieldsOf ==
  ASSUME NEW x, NEW d, NEW o, NEW k, NEW e, x = Evaluation(d, o, k, e)
  PROVE  x.digests = d /\ x.outputs = o
BY DEF Evaluation

LEMMA EvaluationFailed ==
  ASSUME NEW d, NEW o, NEW k, NEW e, NEW v
  PROVE  Failed(Evaluation(d, o, k, e), v) = Evaluation(d, o, k, v)
BY DEF Evaluation, Failed

LEMMA EvaluationPushed ==
  ASSUME NEW d, NEW o, NEW k, NEW e, NEW v
  PROVE  Pushed(Evaluation(d, o, k, e), v) = Evaluation(Append(d, v), o, k, e)
<1>. DEFINE ev     == Evaluation(d, o, k, e)
            longer == Append(d, v)
<1>1. ev.digests = d
  BY EvaluationFields
<1>. HIDE DEF longer
<1>2. [ev EXCEPT !.digests = longer] = Evaluation(longer, o, k, e)
  BY DEF Evaluation
<1>. HIDE DEF ev
<1>. QED
  BY <1>1, <1>2, Zenon DEF Pushed, ev, longer

LEMMA EvaluationCounted ==
  ASSUME NEW d, NEW o, NEW k, NEW e
  PROVE  [Evaluation(d, o, k, e) EXCEPT !.input_idx = @ + 1] = Evaluation(d, o, k + 1, e)
BY DEF Evaluation

LEMMA EvaluationCollected ==
  ASSUME NEW d, NEW o, NEW k, NEW e, NEW v
  PROVE  [Evaluation(d, o, k, e) EXCEPT !.outputs = Append(@, v)] = Evaluation(d, Append(o, v), k, e)
BY DEF Evaluation

(* What the parser hands the evaluator.                                    *)
LEMMA Serialized ==
  ASSUME NEW b, IsBuilder(b)
  PROVE  /\ serialize(b).nodes = b.nodes /\ serialize(b).constants = b.constants
         /\ serialize(b).constants_len = Len(b.constants) % Word /\ serialize(b).num_inputs = b.num_inputs
         /\ Len(constants(serialize(b))) = Len(b.constants) % Word
         /\ Fit(b) => constants(serialize(b)) = b.constants
         /\ Len(b.constants) % Word \in 0 .. Word - 1 /\ Len(b.constants) % Word <= Len(b.constants)
<1>1. IsSeq(b.constants) /\ Len(b.constants) \in Nat /\ Word \in Nat \ {0}
  BY WordAssumption DEF IsBuilder, IsSeq
<1>2. /\ serialize(b).nodes = b.nodes /\ serialize(b).constants = b.constants
      /\ serialize(b).constants_len = Len(b.constants) % Word /\ serialize(b).num_inputs = b.num_inputs
  BY DEF serialize
<1>. DEFINE k == Len(b.constants) % Word
<1>3. k \in 0 .. Word - 1
  BY <1>1, ModRange, Zenon
<1>4. k <= Len(b.constants)
  <2>1. CASE Len(b.constants) < Word
    <3>1. k = Len(b.constants)
      BY <1>1, <2>1, SmallMod, Zenon
    <3>. HIDE DEF k
    <3>. QED
      BY <1>1, <3>1
  <2>2. CASE ~(Len(b.constants) < Word)
    <3>. HIDE DEF k
    <3>. QED
      BY <1>1, <1>3, <2>2
  <2>. QED
    BY <2>1, <2>2
<1>5. constants(serialize(b)) = SubSeq(b.constants, 1, k)
  BY <1>2 DEF constants
<1>. HIDE DEF k
<1>6. SubSeq(b.constants, 1, k) = [i \in 1 .. k |-> b.constants[i]]
  <2>1. SubSeq(b.constants, 0 + 1, 0 + k) = [i \in 1 .. k |-> b.constants[0 + i]]
    BY <1>3, Cut
  <2>2. 0 + 1 = 1 /\ 0 + k = k /\ \A i \in 1 .. k : 0 + i = i
    BY <1>3
  <2>. QED
    BY <2>1, <2>2
<1>7. Len(SubSeq(b.constants, 1, k)) = k
  BY <1>3, <1>6
<1>8. Fit(b) => k = Len(b.constants)
  BY <1>1, SmallMod, Zenon DEF Fit, k
<1>9. Fit(b) => SubSeq(b.constants, 1, k) = b.constants
  BY <1>1, <1>6, <1>8 DEF IsSeq
<1>. QED
  BY <1>2, <1>3, <1>4, <1>5, <1>7, <1>9, Zenon DEF k

(* What an operation makes of the digests of its operands.                 *)
OpDigest(digests, node) ==
  LET known  == Len(digests)
      arg(i) == digests[i + 1]
  IN  IF node.c # NoOperand /\ node.c < known /\ node.b < known
      THEN ternary_op(node.op_type, arg(node.a), arg(node.b), arg(node.c), node.fhe_type)
      ELSE IF node.b = NoOperand THEN unary_op(node.op_type, arg(node.a), node.fhe_type)
      ELSE binary_op(node.op_type, arg(node.a), arg(node.b), node.fhe_type)

LEMMA OpEvaluated ==
  ASSUME NEW d, NEW o, NEW k, NEW node, NEW i \in Nat, node.kind = "Op", NodeOK(node, i + 1), Len(d) = i,
         NEW g, NEW ins
  PROVE  EvalNode(Evaluation(d, o, k, "none"), node, g, ins) = Evaluation(Append(d, OpDigest(d, node)), o, k, "none")
<1>. DEFINE ev == Evaluation(d, o, k, "none")
<1>1. ev.digests = d /\ ev.err = "none"
  BY EvaluationFields
<1>2. \A v : Pushed(ev, v) = Evaluation(Append(d, v), o, k, "none")
  BY EvaluationPushed
<1>3. ~(node.a >= i) /\ (node.b = NoOperand \/ ~(node.b >= i))
  BY DEF NodeOK
<1>. HIDE DEF ev
<1>4. EvalNode(ev, node, g, ins) = EvalOp(ev, node)
  BY <1>1, Zenon DEF EvalNode
<1>5. EvalOp(ev, node) = Pushed(ev, OpDigest(d, node))
  BY <1>1, <1>3, Zenon DEF EvalOp, OpDigest
<1>. QED
  BY <1>2, <1>4, <1>5, Zenon DEF ev

LEMMA OutputEvaluated ==
  ASSUME NEW d, NEW o, NEW k, NEW node, NEW i \in Nat, node.kind = "Output", NodeOK(node, i + 1), Len(d) = i,
         NEW g, NEW ins, NEW v, v = d[node.a + 1]
  PROVE  EvalNode(Evaluation(d, o, k, "none"), node, g, ins)
           = Evaluation(Append(d, v), Append(o, v), k, "none")
<1>. DEFINE ev  == Evaluation(d, o, k, "none")
            ev1 == Evaluation(Append(d, v), o, k, "none")
<1>1. ev.digests = d /\ ev.err = "none"
  BY EvaluationFields
<1>2. Pushed(ev, v) = ev1
  BY EvaluationPushed
<1>3. [ev1 EXCEPT !.outputs = Append(@, v)]
        = Evaluation(Append(d, v), Append(o, v), k, "none")
  <2>. DEFINE l == Append(d, v)
              m == Append(o, v)
              e == Evaluation(l, o, k, "none")
  <2>. HIDE DEF l, m
  <2>1. e.outputs = o
    BY EvaluationFields
  <2>2. [e EXCEPT !.outputs = m] = Evaluation(l, m, k, "none")
    BY DEF Evaluation
  <2>. HIDE DEF e
  <2>. QED
    BY <2>1, <2>2, Zenon DEF e, l, m
<1>4. ~(node.a >= i)
  BY DEF NodeOK
<1>. HIDE DEF ev, ev1
<1>5. EvalNode(ev, node, g, ins) = EvalOutput(ev, node)
  BY <1>1, Zenon DEF EvalNode
<1>6. EvalOutput(ev, node) = [ev1 EXCEPT !.outputs = Append(@, v)]
  BY <1>1, <1>2, <1>4, Zenon DEF EvalOutput
<1>. QED
  BY <1>3, <1>5, <1>6, Zenon DEF ev

LEMMA SomeOutputEvaluated ==
  ASSUME NEW d, NEW o, NEW k, NEW node, NEW i \in Nat, node.kind = "Output", NodeOK(node, i + 1), Len(d) = i,
         NEW g, NEW ins
  PROVE  \E v : EvalNode(Evaluation(d, o, k, "none"), node, g, ins) = Evaluation(Append(d, v), Append(o, v), k, "none")
<1>1. ASSUME NEW v, v = d[node.a + 1]
      PROVE  EvalNode(Evaluation(d, o, k, "none"), node, g, ins) = Evaluation(Append(d, v), Append(o, v), k, "none")
  BY <1>1, OutputEvaluated
<1>. QED
  BY <1>1, Zenon

LEMMA InputEvaluated ==
  ASSUME NEW d, NEW o, NEW k \in Nat, NEW node, IsInput(node), NEW g, NEW ins, k < Len(ins)
  PROVE  EvalNode(Evaluation(d, o, k, "none"), node, g, ins) = Evaluation(Append(d, ins[k + 1]), o, k + 1, "none")
<1>. DEFINE ev  == Evaluation(d, o, k, "none")
            ev1 == Evaluation(Append(d, ins[k + 1]), o, k, "none")
<1>1. ev.input_idx = k /\ ev.err = "none"
  BY EvaluationFields
<1>2. Pushed(ev, ins[k + 1]) = ev1
  BY EvaluationPushed
<1>3. [ev1 EXCEPT !.input_idx = @ + 1] = Evaluation(Append(d, ins[k + 1]), o, k + 1, "none")
  BY EvaluationCounted
<1>. HIDE DEF ev, ev1
<1>4. EvalNode(ev, node, g, ins) = EvalInput(ev, ins)
  BY <1>1, Zenon DEF EvalNode, IsInput
<1>5. EvalInput(ev, ins) = [ev1 EXCEPT !.input_idx = @ + 1]
  BY <1>1, <1>2, Zenon DEF EvalInput
<1>. QED
  BY <1>3, <1>4, <1>5, Zenon DEF ev

(* The digest of a constant, where the section reaches that far.           *)
LEMMA ConstantEvaluated ==
  ASSUME NEW d, NEW o, NEW k, NEW node, node.kind = "Constant", NEW g, NEW ins
  PROVE  LET end == node.a + byte_width[node.fhe_type]
         IN  EvalNode(Evaluation(d, o, k, "none"), node, g, ins)
               = IF end > Len(constants(g)) THEN Evaluation(d, o, k, "InvalidGraph")
                 ELSE Evaluation(Append(d, encode_constant_bytes(node.fhe_type, SubSeq(constants(g), node.a + 1, end))),
                                 o, k, "none")
<1>. DEFINE ev == Evaluation(d, o, k, "none")
<1>1. ev.err = "none" /\ Failed(ev, "InvalidGraph") = Evaluation(d, o, k, "InvalidGraph")
  BY EvaluationFields, EvaluationFailed
<1>2. \A v : Pushed(ev, v) = Evaluation(Append(d, v), o, k, "none")
  BY EvaluationPushed
<1>. HIDE DEF ev
<1>3. EvalNode(ev, node, g, ins) = EvalConstant(ev, node, g)
  BY <1>1, Zenon DEF EvalNode
<1>. QED
  BY <1>1, <1>2, <1>3, Zenon DEF EvalConstant, ev

LEMMA FailureKept ==
  ASSUME NEW x, x.err # "none", NEW node, NEW g, NEW ins
  PROVE  EvalNode(x, node, g, ins) = x
BY DEF EvalNode

(* What the evaluator has after i nodes of a graph whose inputs are ins: a digest of each, or it has come to a        *)
(* constant that is cut off.                                               *)
ConstantRead(b, digests, j) ==
  /\ EndAt(b, j) <= Len(constants(serialize(b)))
  /\ digests[j] = encode_constant_bytes(b.nodes[j].fhe_type,
                                        SubSeq(constants(serialize(b)), b.nodes[j].a + 1, EndAt(b, j)))

Walked(digests, outputs, input_idx, i, b, ins) ==
  /\ IsSeq(digests) /\ Len(digests) = i
  /\ IsSeq(outputs) /\ (i <= Len(ins) => Len(outputs) = 0)
  /\ input_idx = IF i <= Len(ins) THEN i ELSE Len(ins)
  /\ \A j \in 1 .. i : /\ j <= Len(ins) => digests[j] = ins[j]
                       /\ b.nodes[j].kind = "Constant" => ConstantRead(b, digests, j)

Sound(x, i, b, ins) ==
  /\ x = Evaluation(x.digests, x.outputs, x.input_idx, x.err)
  /\ x.err \in {"none", "InvalidGraph"}
  /\ Fit(b) => x.err = "none"
  /\ x.err = "none" => Walked(x.digests, x.outputs, x.input_idx, i, b, ins)

LEMMA SoundStart ==
  ASSUME NEW b, NEW ins, Len(ins) \in Nat
  PROVE  Sound(Start, 0, b, ins)
<1>1. Start = Evaluation(<<>>, <<>>, 0, "none")
  BY DEF Start, Evaluation
<1>2. Walked(<<>>, <<>>, 0, 0, b, ins)
  BY EmptyIsSeq DEF Walked
<1>. QED
  BY <1>1, <1>2, EvaluationFields DEF Sound

(* A step of a run is what the evaluator does with the node.               *)
LEMMA WalkedOn ==
  ASSUME NEW d, NEW o, NEW k, NEW i \in Nat, NEW b, NEW ins, Len(ins) \in Nat, Walked(d, o, k, i, b, ins), NEW v,
         NEW u, IsSeq(u), i + 1 <= Len(ins) => Len(u) = 0 /\ v = ins[i + 1],
         b.nodes[i + 1].kind = "Constant" => ConstantRead(b, Append(d, v), i + 1),
         NEW l, l = (IF i + 1 <= Len(ins) THEN i + 1 ELSE Len(ins))
  PROVE  Walked(Append(d, v), u, l, i + 1, b, ins)
<1>1. IsSeq(d) /\ Len(d) = i
  BY DEF Walked
<1>2. IsSeq(Append(d, v)) /\ Len(Append(d, v)) = i + 1
  BY <1>1, Appended
<1>3. \A j \in 1 .. i : Append(d, v)[j] = d[j]
  BY <1>1, Appended
<1>4. Append(d, v)[i + 1] = v
  BY <1>1, Appended
<1>. DEFINE longer == Append(d, v)
<1>. HIDE DEF longer
<1>5. ASSUME NEW j \in 1 .. i + 1
      PROVE  /\ j <= Len(ins) => longer[j] = ins[j]
             /\ b.nodes[j].kind = "Constant" => ConstantRead(b, longer, j)
  <2>1. CASE j \in 1 .. i
    <3>1. /\ j <= Len(ins) => d[j] = ins[j]
          /\ b.nodes[j].kind = "Constant" => ConstantRead(b, d, j)
      BY <2>1 DEF Walked
    <3>2. longer[j] = d[j]
      BY <1>3, <2>1 DEF longer
    <3>. QED
      BY <3>1, <3>2 DEF ConstantRead
  <2>2. CASE j = i + 1
    BY <1>4, <2>2 DEF longer
  <2>. QED
    BY <2>1, <2>2
<1>6. IsSeq(longer) /\ Len(longer) = i + 1
  BY <1>2 DEF longer
<1>7. Walked(longer, u, l, i + 1, b, ins)
  BY <1>5, <1>6 DEF Walked
<1>. QED
  BY <1>7 DEF longer

LEMMA SoundEvaluation ==
  ASSUME NEW d, NEW o, NEW k, NEW i, NEW b, NEW ins, Walked(d, o, k, i, b, ins)
  PROVE  Sound(Evaluation(d, o, k, "none"), i, b, ins)
BY EvaluationFields DEF Sound

(* The nodes after the inputs.                                             *)
PastInputs(input_idx, i, ins) == Len(ins) \in Nat /\ ~(i + 1 <= Len(ins)) /\ input_idx = Len(ins)

LEMMA WalkedPastInputs ==
  ASSUME NEW d, NEW o, NEW k, NEW i \in Nat, NEW b, NEW ins, Walked(d, o, k, i, b, ins), PastInputs(k, i, ins), NEW v,
         NEW u, IsSeq(u), b.nodes[i + 1].kind # "Constant"
  PROVE  Walked(Append(d, v), u, k, i + 1, b, ins)
BY WalkedOn DEF PastInputs

LEMMA SoundOutput ==
  ASSUME NEW d, NEW o, NEW k, NEW i \in Nat, NEW b, NEW ins, Walked(d, o, k, i, b, ins), PastInputs(k, i, ins),
         NEW node, b.nodes[i + 1].kind # "Constant", node.kind = "Output", NodeOK(node, i + 1), NEW g
  PROVE  Sound(EvalNode(Evaluation(d, o, k, "none"), node, g, ins), i + 1, b, ins)
<1>1. Len(d) = i /\ IsSeq(o)
  BY DEF Walked
<1>2. PICK v : EvalNode(Evaluation(d, o, k, "none"), node, g, ins) = Evaluation(Append(d, v), Append(o, v), k, "none")
  BY <1>1, SomeOutputEvaluated
<1>3. IsSeq(Append(o, v))
  BY <1>1, Appended
<1>4. Walked(Append(d, v), Append(o, v), k, i + 1, b, ins)
  BY <1>3, WalkedPastInputs
<1>. QED
  BY <1>2, <1>4, SoundEvaluation, Zenon

(* A node's step gives its digest, or fails at a constant that is cut off. *)
LEMMA SoundStep ==
  ASSUME NEW b, NEW ins, GraphOK(b, Len(ins)), NEW i \in Nat, i < Len(b.nodes), NEW x, Sound(x, i, b, ins)
  PROVE  Sound(EvalNode(x, b.nodes[i + 1], serialize(b), ins), i + 1, b, ins)
<1>. DEFINE node == b.nodes[i + 1]
            g    == serialize(b)
            d    == x.digests
            o    == x.outputs
            k    == x.input_idx
<1>1. Len(ins) \in Nat /\ Len(b.nodes) \in Nat /\ IsBuilder(b)
  BY DEF GraphOK, IsBuilder, IsSeq
<1>2. i + 1 \in 1 .. Len(b.nodes)
  BY <1>1
<1>3. NodeOK(node, i + 1) /\ (IsInput(node) <=> i + 1 <= Len(ins))
  BY <1>2 DEF GraphOK
<1>4. CASE x.err # "none"
  <2>1. EvalNode(x, node, g, ins) = x
    BY <1>4, FailureKept
  <2>2. Sound(x, i + 1, b, ins)
    BY <1>4 DEF Sound
  <2>. QED
    BY <2>1, <2>2, Zenon
<1>5. CASE x.err = "none"
  <2>1. x = Evaluation(d, o, k, "none") /\ Walked(d, o, k, i, b, ins)
    BY <1>5 DEF Sound
  <2>2. /\ Len(d) = i /\ IsSeq(o) /\ (i <= Len(ins) => Len(o) = 0)
        /\ k = (IF i <= Len(ins) THEN i ELSE Len(ins))
    BY <2>1 DEF Walked
  <2>3. i + 1 <= Len(ins) => Len(o) = 0
    BY <1>1, <2>2
  <2>4. ~(i + 1 <= Len(ins)) => k = (IF i + 1 <= Len(ins) THEN i + 1 ELSE Len(ins))
    BY <1>1, <2>2
  <2>. HIDE DEF node, g, d, o, k
  <2>5. CASE IsInput(node)
    <3>1. i + 1 <= Len(ins) /\ k = i /\ k \in Nat /\ k < Len(ins)
      BY <1>1, <1>3, <2>2, <2>5
    <3>2. EvalNode(Evaluation(d, o, k, "none"), node, g, ins) = Evaluation(Append(d, ins[k + 1]), o, k + 1, "none")
      BY <2>5, <3>1, InputEvaluated
    <3>3. node.kind # "Constant"
      BY <2>5 DEF IsInput
    <3>4. Walked(Append(d, ins[i + 1]), o, i + 1, i + 1, b, ins)
      <4>1. i + 1 = (IF i + 1 <= Len(ins) THEN i + 1 ELSE Len(ins))
        BY <3>1
      <4>. QED
        BY <1>1, <2>1, <2>2, <2>3, <3>3, <4>1, WalkedOn DEF node
    <3>. QED
      BY <2>1, <3>1, <3>2, <3>4, SoundEvaluation DEF node, g
  <2>6. CASE node.kind = "Constant"
    <3>. DEFINE end == node.a + byte_width[node.fhe_type]
                v   == encode_constant_bytes(node.fhe_type, SubSeq(constants(g), node.a + 1, end))
    <3>1. ~(i + 1 <= Len(ins))
      BY <1>3, <2>6 DEF IsInput
    <3>2. EvalNode(Evaluation(d, o, k, "none"), node, g, ins)
            = IF end > Len(constants(g)) THEN Evaluation(d, o, k, "InvalidGraph")
              ELSE Evaluation(Append(d, v), o, k, "none")
      BY <2>6, ConstantEvaluated
    <3>3. end = EndAt(b, i + 1)
      BY DEF EndAt, WidthAt, node
    <3>4. node.a \in Nat /\ byte_width[node.fhe_type] \in Nat /\ Len(constants(g)) \in Nat
      BY <1>1, <1>3, <2>6, Widths, Serialized, WordAssumption DEF NodeOK, g
    <3>. HIDE DEF end
    <3>5. CASE end > Len(constants(g))
      <4>1. EvalNode(x, node, g, ins) = Evaluation(d, o, k, "InvalidGraph")
        BY <2>1, <3>2, <3>5, Zenon
      <4>2. ~Fit(b)
        <5>. SUFFICES ASSUME Fit(b) PROVE FALSE
          OBVIOUS
        <5>1. InRange(b)
          BY DEF GraphOK, Sections
        <5>2. i + 1 \in KindsOf(b, "Constant")
          BY <1>2, <2>6 DEF KindsOf, node
        <5>3. end <= Len(b.constants)
          BY <3>3, <5>1, <5>2 DEF InRange
        <5>4. constants(g) = b.constants
          BY <1>1, Serialized DEF g
        <5>5. end \in Nat
          BY <3>4 DEF end
        <5>. QED
          BY <3>4, <3>5, <5>3, <5>4, <5>5
      <4>. HIDE DEF v
      <4>3. Sound(Evaluation(d, o, k, "InvalidGraph"), i + 1, b, ins)
        BY <4>2, EvaluationFields DEF Sound
      <4>. QED
        BY <4>1, <4>3, Zenon DEF node, g
    <3>6. CASE ~(end > Len(constants(g)))
      <4>1. EvalNode(x, node, g, ins) = Evaluation(Append(d, v), o, k, "none")
        BY <2>1, <3>2, <3>6, Zenon
      <4>2. end \in Nat
        BY <3>4 DEF end
      <4>3. end <= Len(constants(g))
        BY <3>4, <3>6, <4>2
      <4>4. IsSeq(d)
        BY <2>1 DEF Walked
      <4>5. Append(d, v)[i + 1] = v
        <5>. HIDE DEF v
        <5>. QED
          BY <2>2, <4>4, Appended
      <4>6. ConstantRead(b, Append(d, v), i + 1)
        BY <3>3, <4>3, <4>5, Zenon DEF ConstantRead, node, g, v
      <4>. HIDE DEF v
      <4>7. Walked(Append(d, v), o, k, i + 1, b, ins)
        BY <1>1, <2>1, <2>2, <2>3, <2>4, <3>1, <4>6, WalkedOn
      <4>. QED
        BY <4>1, <4>7, SoundEvaluation DEF node, g
    <3>. QED
      BY <3>5, <3>6
  <2>7. CASE node.kind = "Op"
    <3>1. ~(i + 1 <= Len(ins)) /\ node.kind # "Constant"
      BY <1>3, <2>7 DEF IsInput
    <3>2. EvalNode(Evaluation(d, o, k, "none"), node, g, ins)
            = Evaluation(Append(d, OpDigest(d, node)), o, k, "none")
      BY <1>3, <2>2, <2>7, OpEvaluated
    <3>3. ASSUME NEW v PROVE Walked(Append(d, v), o, k, i + 1, b, ins)
      BY <1>1, <2>1, <2>2, <2>4, <3>1, WalkedOn DEF node
    <3>4. Walked(Append(d, OpDigest(d, node)), o, k, i + 1, b, ins)
      BY <3>3
    <3>. QED
      BY <2>1, <3>2, <3>4, SoundEvaluation DEF node, g
  <2>8. CASE node.kind = "Output"
    <3>1. ~(i + 1 <= Len(ins)) /\ node.kind # "Constant"
      BY <1>3, <2>8 DEF IsInput
    <3>2. Sound(EvalNode(Evaluation(d, o, k, "none"), node, g, ins), i + 1, b, ins)
      <4>1. PastInputs(k, i, ins)
        BY <1>1, <2>4, <3>1 DEF PastInputs
      <4>2. b.nodes[i + 1].kind # "Constant"
        BY <3>1 DEF node
      <4>. QED
        BY <1>3, <2>1, <2>8, <4>1, <4>2, SoundOutput
    <3>. QED
      BY <2>1, <3>2 DEF node, g
  <2>. QED
    BY <1>3, <2>5, <2>6, <2>7, <2>8 DEF NodeOK, Kinds, IsInput
<1>. QED
  BY <1>4, <1>5, Zenon DEF Sound

(* The run of a graph has a digest of every node it has passed.            *)
LEMMA WalkSound ==
  ASSUME NEW b, NEW ins, GraphOK(b, Len(ins))
  PROVE  Sound(Walk(serialize(b), ins), Len(b.nodes), b, ins)
<1>. DEFINE g == serialize(b)
            n == Len(b.nodes)
<1>1. Len(ins) \in Nat /\ n \in Nat /\ IsBuilder(b) /\ num_nodes(g) = n /\ g.nodes = b.nodes
  BY Serialized DEF GraphOK, IsBuilder, IsSeq
<1>2. PICK f : IsRun(f, n, g, ins) /\ Walk(g, ins) = f[n]
  BY <1>1, WalkEnds
<1>. HIDE DEF g, n
<1>. DEFINE T == {i \in 0 .. n : ~Sound(f[i], i, b, ins)}
<1>3. T = {}
  <2>. SUFFICES ASSUME T # {} PROVE FALSE
    OBVIOUS
  <2>1. T \in SUBSET Nat
    BY <1>1
  <2>. HIDE DEF T
  <2>2. PICK i \in T : \A j \in T : i <= j
    BY <2>1, LeastOf
  <2>3. i \in 0 .. n /\ ~Sound(f[i], i, b, ins)
    BY <2>2 DEF T
  <2>4. f[i] = IF i = 0 THEN Start ELSE EvalNode(f[i - 1], g.nodes[i], g, ins)
    BY <1>2, <2>3, Zenon DEF IsRun
  <2>5. CASE i = 0
    BY <1>1, <2>3, <2>4, <2>5, SoundStart
  <2>6. CASE i # 0
    <3>1. i - 1 \in 0 .. n /\ ~(i <= i - 1) /\ i - 1 \in Nat /\ i - 1 < n /\ (i - 1) + 1 = i
      BY <1>1, <2>3, <2>6
    <3>2. Sound(f[i - 1], i - 1, b, ins)
      BY <2>2, <3>1 DEF T
    <3>3. Sound(EvalNode(f[i - 1], b.nodes[(i - 1) + 1], serialize(b), ins), (i - 1) + 1, b, ins)
      BY <3>1, <3>2, SoundStep DEF n
    <3>4. f[i] = EvalNode(f[i - 1], b.nodes[i], serialize(b), ins)
      BY <1>1, <2>4, <2>6, Zenon DEF g
    <3>. QED
      BY <2>3, <3>1, <3>3, <3>4, Zenon
  <2>. QED
    BY <2>5, <2>6
<1>4. n \in 0 .. n
  BY <1>1
<1>. QED
  BY <1>2, <1>3, <1>4 DEF g, n

(* A graph whose constants fit is run to its end; one whose constants do not is refused. *)
LEMMA Evaluated ==
  ASSUME NEW b, NEW ins, GraphOK(b, Len(ins))
  PROVE  LET r == evaluate_graph(serialize(b), ins)
             x == Walk(serialize(b), ins)
         IN  /\ Fit(b) => r.err = "none" /\ r.output_digests = x.outputs
             /\ ~Fit(b) => r.err = "InvalidGraph"
<1>. DEFINE g == serialize(b)
            x == Walk(g, ins)
            r == evaluate_graph(g, ins)
<1>1. Len(ins) \in Nat /\ Len(b.nodes) \in Nat /\ IsBuilder(b) /\ num_nodes(g) = Len(b.nodes) /\ b.num_inputs <= Len(ins)
  BY DEF GraphOK, IsBuilder, IsSeq
<1>2. /\ g.nodes = b.nodes /\ g.constants = b.constants /\ g.num_inputs = b.num_inputs
      /\ g.constants_len <= Len(b.constants) /\ g.constants_len \in 0 .. Word - 1
      /\ Len(constants(g)) = g.constants_len
  BY <1>1, Serialized, Zenon
<1>3. Sound(x, Len(b.nodes), b, ins)
  BY WalkSound
<1>4. b.num_inputs \in Nat /\ Len(b.constants) \in Nat /\ Word \in Nat
  BY <1>1, BuilderIsRecord, WordAssumption DEF IsBuilder, IsSeq
<1>. HIDE DEF g, x
<1>5. ~Truncated(g) /\ ~(Len(ins) < g.num_inputs)
  BY <1>1, <1>2, <1>4 DEF Truncated
<1>6. r = [err |-> x.err, output_digests |-> IF x.err = "none" THEN x.outputs ELSE <<>>]
  BY <1>5, Zenon DEF evaluate_graph, x
<1>7. r.err = x.err /\ (x.err = "none" => r.output_digests = x.outputs)
  <2>. HIDE DEF r
  <2>. QED
    BY <1>6
<1>8. Fit(b) => x.err = "none"
  BY <1>3 DEF Sound
<1>9. ASSUME ~Fit(b), x.err = "none" PROVE FALSE
  <2>1. PICK j \in KindsOf(b, "Constant") : EndAt(b, j) >= Word
    BY <1>9 DEF GraphOK, Sections, Crossing
  <2>2. j \in 1 .. Len(b.nodes) /\ b.nodes[j].kind = "Constant"
    BY DEF KindsOf
  <2>3. ConstantRead(b, x.digests, j)
    BY <1>3, <1>9, <2>2 DEF Sound, Walked
  <2>4. EndAt(b, j) <= g.constants_len
    BY <1>2, <2>3 DEF ConstantRead, g
  <2>5. EndAt(b, j) \in Nat
    <3>1. NodeOK(b.nodes[j], j)
      BY <2>2 DEF GraphOK
    <3>2. b.nodes[j].a \in Nat /\ byte_width[b.nodes[j].fhe_type] \in Nat
      BY <1>4, <2>2, <3>1, Widths DEF NodeOK
    <3>. QED
      BY <3>2 DEF EndAt, WidthAt
  <2>. QED
    BY <1>2, <1>4, <2>1, <2>4, <2>5
<1>10. x.err \in {"none", "InvalidGraph"}
  BY <1>3 DEF Sound
<1>. HIDE DEF r
<1>11. Fit(b) => r.err = "none" /\ r.output_digests = x.outputs
  BY <1>7, <1>8
<1>12. ~Fit(b) => r.err = "InvalidGraph"
  BY <1>7, <1>9, <1>10
<1>. QED
  BY <1>11, <1>12 DEF r, x, g

(* One more node is one more step of the evaluator.                        *)
Longer(b, c) == c.constants = b.constants \/ \E data : IsSeq(data) /\ c.constants = b.constants \o data

(* A step on the longer graph is the step on the shorter one.              *)
LEMMA StepsAgree ==
  ASSUME NEW b, NEW c, NEW m, GraphOK(b, m), IsBuilder(c), Fit(b), Fit(c), Longer(b, c), NEW ins,
         NEW x, NEW i \in 1 .. Len(b.nodes)
  PROVE  EvalNode(x, b.nodes[i], serialize(b), ins) = EvalNode(x, b.nodes[i], serialize(c), ins)
<1>. DEFINE node == b.nodes[i]
            end  == node.a + byte_width[node.fhe_type]
<1>1. IsBuilder(b) /\ InRange(b) /\ NodeOK(node, i)
  BY DEF GraphOK, Sections
<1>2. constants(serialize(b)) = b.constants /\ constants(serialize(c)) = c.constants
  BY <1>1, Serialized
<1>3. CASE node.kind = "Constant"
  <2>1. i \in KindsOf(b, "Constant")
    BY <1>3 DEF KindsOf
  <2>2. end <= Len(b.constants)
    BY <1>1, <2>1 DEF InRange, EndAt, WidthAt
  <2>3. node.a \in Nat /\ byte_width[node.fhe_type] \in Nat /\ Len(b.constants) \in Nat /\ IsSeq(b.constants)
    BY <1>1, <1>3, Widths, WordAssumption DEF NodeOK, IsBuilder, IsSeq
  <2>. HIDE DEF node
  <2>4. end <= Len(c.constants) /\ SubSeq(c.constants, node.a + 1, end) = SubSeq(b.constants, node.a + 1, end)
    <3>1. CASE c.constants = b.constants
      <4>. HIDE DEF end
      <4>. QED
        BY <2>2, <3>1
    <3>2. CASE \E data : IsSeq(data) /\ c.constants = b.constants \o data
      <4>1. PICK data : IsSeq(data) /\ c.constants = b.constants \o data
        BY <3>2
      <4>2. SubSeq(b.constants \o data, node.a + 1, end) = SubSeq(b.constants, node.a + 1, end)
        <5>. DEFINE s == b.constants
                    k == node.a
                    n == byte_width[node.fhe_type]
        <5>1. IsSeq(s) /\ k \in Nat /\ n \in Nat /\ k + n <= Len(s) /\ IsSeq(data)
          BY <2>2, <2>3, <4>1
        <5>. HIDE DEF s, k, n
        <5>2. SubSeq(s \o data, k + 1, k + n) = SubSeq(s, k + 1, k + n)
          BY <5>1, BytesKept
        <5>. QED
          BY <5>2, Zenon DEF s, k, n
      <4>3. Len(b.constants \o data) = Len(b.constants) + Len(data) /\ Len(data) \in Nat
        BY <2>3, <4>1, Concatenated, Zenon DEF IsSeq
      <4>4. end <= Len(b.constants) + Len(data)
        BY <2>2, <2>3, <4>3
      <4>. QED
        BY <4>1, <4>2, <4>3, <4>4, Zenon
    <3>. QED
      BY <3>1, <3>2 DEF Longer
  <2>5. ~(end > Len(b.constants)) /\ ~(end > Len(c.constants))
    <3>1. end \in Nat /\ Len(c.constants) \in Nat
      BY <2>3 DEF IsBuilder, IsSeq
    <3>. HIDE DEF end
    <3>. QED
      BY <2>2, <2>3, <2>4, <3>1
  <2>6. EvalConstant(x, node, serialize(b)) = EvalConstant(x, node, serialize(c))
    BY <1>2, <2>4, <2>5, Zenon DEF EvalConstant
  <2>. QED
    BY <1>3, <2>6, Zenon DEF EvalNode, node
<1>4. CASE node.kind # "Constant"
  <2>1. node.kind \in Kinds
    BY <1>1 DEF NodeOK
  <2>. HIDE DEF node
  <2>. QED
    BY <1>4, <2>1 DEF EvalNode, Kinds, node
<1>. QED
  BY <1>3, <1>4

LEMMA PushedWalk ==
  ASSUME NEW b, NEW c, NEW m, GraphOK(b, m), GraphOK(c, m), Fit(b), Fit(c), NEW node, Pushes(b, c, node), Longer(b, c),
         NEW ins
  PROVE  Walk(serialize(c), ins) = EvalNode(Walk(serialize(b), ins), node, serialize(c), ins)
<1>. DEFINE g == serialize(b)
            h == serialize(c)
            n == Len(b.nodes)
<1>1. IsBuilder(b) /\ IsBuilder(c) /\ n \in Nat /\ num_nodes(g) = n /\ num_nodes(h) = Len(c.nodes)
  BY DEF GraphOK, IsBuilder, IsSeq
<1>2. g.nodes = b.nodes /\ h.nodes = c.nodes
  BY <1>1, Serialized
<1>3. Len(c.nodes) = n + 1 /\ (\A i \in 1 .. n : c.nodes[i] = b.nodes[i]) /\ c.nodes[n + 1] = node
  BY <1>1, PushedNodes
<1>4. num_nodes(h) = n + 1
  BY <1>1, <1>3
<1>. HIDE DEF g, h, n
<1>5. PICK f : IsRun(f, n, g, ins) /\ Walk(g, ins) = f[n]
  BY <1>1, WalkEnds, Zenon
<1>6. PICK e : IsRun(e, n + 1, h, ins) /\ Walk(h, ins) = e[n + 1]
  <2>1. n + 1 \in Nat
    BY <1>1
  <2>. QED
    BY <1>4, <2>1, WalkEnds, Zenon
<1>. DEFINE T == {i \in 0 .. n : e[i] # f[i]}
<1>7. T = {}
  <2>. SUFFICES ASSUME T # {} PROVE FALSE
    OBVIOUS
  <2>1. T \in SUBSET Nat
    BY <1>1
  <2>. HIDE DEF T
  <2>2. PICK i \in T : \A j \in T : i <= j
    BY <2>1, LeastOf
  <2>3. i \in 0 .. n /\ e[i] # f[i]
    BY <2>2 DEF T
  <2>4. i \in 0 .. n + 1
    BY <1>1, <2>3
  <2>5. /\ f[i] = IF i = 0 THEN Start ELSE EvalNode(f[i - 1], g.nodes[i], g, ins)
        /\ e[i] = IF i = 0 THEN Start ELSE EvalNode(e[i - 1], h.nodes[i], h, ins)
    BY <1>5, <1>6, <2>3, <2>4, Zenon DEF IsRun
  <2>6. CASE i = 0
    BY <2>3, <2>5, <2>6
  <2>7. CASE i # 0
    <3>1. i - 1 \in 0 .. n /\ ~(i <= i - 1) /\ i \in 1 .. n
      BY <1>1, <2>3, <2>7
    <3>2. e[i - 1] = f[i - 1]
      BY <2>2, <3>1 DEF T
    <3>3. EvalNode(f[i - 1], b.nodes[i], g, ins) = EvalNode(f[i - 1], b.nodes[i], h, ins)
      BY <1>1, <3>1, StepsAgree DEF g, h, n
    <3>4. g.nodes[i] = b.nodes[i] /\ h.nodes[i] = b.nodes[i]
      BY <1>2, <1>3, <3>1
    <3>. QED
      BY <2>3, <2>5, <2>7, <3>2, <3>3, <3>4, Zenon
  <2>. QED
    BY <2>6, <2>7
<1>8. e[n] = f[n]
  <2>1. n \in 0 .. n
    BY <1>1
  <2>. QED
    BY <1>7, <2>1
<1>9. e[n + 1] = EvalNode(e[n], h.nodes[n + 1], h, ins)
  <2>1. ASSUME NEW i \in 0 .. n + 1, i # 0
        PROVE  e[i] = EvalNode(e[i - 1], h.nodes[i], h, ins)
    <3>1. e[i] = IF i = 0 THEN Start ELSE EvalNode(e[i - 1], h.nodes[i], h, ins)
      BY <1>6, Zenon DEF IsRun
    <3>. QED
      BY <2>1, <3>1, Zenon
  <2>2. ASSUME NEW i, i = n + 1
        PROVE  e[i] = EvalNode(e[n], h.nodes[i], h, ins)
    <3>1. i \in 0 .. n + 1 /\ i # 0 /\ i - 1 = n
      BY <1>1, <2>2
    <3>2. e[i] = EvalNode(e[i - 1], h.nodes[i], h, ins)
      BY <2>1, <3>1, Zenon
    <3>. QED
      BY <3>1, <3>2, Zenon
  <2>. QED
    BY <2>2, Zenon
<1>. QED
  BY <1>2, <1>3, <1>5, <1>6, <1>8, <1>9, Zenon DEF g, h

-----------------------------------------------------------------------------
(* What a call of the builder does to the digests.                         *)

DigestOf(b, ins, index) == Walk(serialize(b), ins).digests[index + 1]

OutputsOf(b, ins) == Walk(serialize(b), ins).outputs

(* The nodes of b are in c, and have the digests they had.                 *)
Keeps(b, c, ins) ==
  /\ GraphOK(c, Len(ins))
  /\ Len(b.nodes) <= Len(c.nodes)
  /\ Fit(c) => /\ Fit(b)
               /\ \A j \in 0 .. Len(b.nodes) - 1 : DigestOf(c, ins, j) = DigestOf(b, ins, j)

Grown(b, c, ins) == Keeps(b, c, ins) /\ (Fit(c) => OutputsOf(c, ins) = OutputsOf(b, ins))

LEMMA WalkOf ==
  ASSUME NEW b, NEW ins, GraphOK(b, Len(ins)), Fit(b)
  PROVE  LET x == Walk(serialize(b), ins)
         IN  /\ x = Evaluation(x.digests, x.outputs, x.input_idx, "none")
             /\ Walked(x.digests, x.outputs, x.input_idx, Len(b.nodes), b, ins)
             /\ IsSeq(x.digests) /\ Len(x.digests) = Len(b.nodes) /\ IsSeq(x.outputs)
<1>. DEFINE x == Walk(serialize(b), ins)
<1>1. Sound(x, Len(b.nodes), b, ins)
  BY WalkSound
<1>. HIDE DEF x
<1>2. x = Evaluation(x.digests, x.outputs, x.input_idx, "none")
  BY <1>1 DEF Sound
<1>3. Walked(x.digests, x.outputs, x.input_idx, Len(b.nodes), b, ins)
  BY <1>1 DEF Sound
<1>. QED
  BY <1>2, <1>3, Zenon DEF Walked, x

LEMMA KeepsWhenAppended ==
  ASSUME NEW b, NEW c, NEW ins, GraphOK(b, Len(ins)), GraphOK(c, Len(ins)), Len(c.nodes) = Len(b.nodes) + 1,
         Fit(c) => Fit(b),
         NEW v, Fit(c) => Walk(serialize(c), ins).digests = Append(Walk(serialize(b), ins).digests, v)
  PROVE  Keeps(b, c, ins) /\ (Fit(c) => DigestOf(c, ins, Len(b.nodes)) = v)
<1>1. Len(b.nodes) \in Nat
  BY DEF GraphOK, IsBuilder, IsSeq
<1>2. CASE ~Fit(c)
  BY <1>1, <1>2 DEF Keeps
<1>3. CASE Fit(c)
  <2>. DEFINE d == Walk(serialize(b), ins).digests
              e == Walk(serialize(c), ins).digests
  <2>1. IsSeq(d) /\ Len(d) = Len(b.nodes)
    BY <1>3, WalkOf
  <2>2. e = Append(d, v)
    BY <1>3
  <2>. HIDE DEF d, e
  <2>3. (\A i \in 1 .. Len(d) : Append(d, v)[i] = d[i]) /\ Append(d, v)[Len(d) + 1] = v
    BY <2>1, Appended
  <2>4. \A j \in 0 .. Len(b.nodes) - 1 : e[j + 1] = d[j + 1]
    <3>. TAKE j \in 0 .. Len(b.nodes) - 1
    <3>1. j + 1 \in 1 .. Len(d)
      BY <1>1, <2>1
    <3>. QED
      BY <2>2, <2>3, <3>1, Zenon
  <2>5. e[Len(b.nodes) + 1] = v
    BY <2>1, <2>2, <2>3, Zenon
  <2>6. Len(b.nodes) <= Len(c.nodes)
    BY <1>1
  <2>. QED
    BY <1>3, <2>4, <2>5, <2>6, Zenon DEF Keeps, DigestOf, d, e
<1>. QED
  BY <1>2, <1>3

(* What the evaluator has after n nodes without an error.                  *)
Passed(w, n) == w = Evaluation(w.digests, w.outputs, w.input_idx, "none") /\ Len(w.digests) = n

LEMMA OpOfWalk ==
  ASSUME NEW w, NEW n \in Nat, Passed(w, n), NEW node, node.kind = "Op", NodeOK(node, n + 1), NEW g, NEW ins
  PROVE  /\ EvalNode(w, node, g, ins).digests = Append(w.digests, OpDigest(w.digests, node))
         /\ EvalNode(w, node, g, ins).outputs = w.outputs
<1>. DEFINE d == w.digests
            o == w.outputs
            k == w.input_idx
            l == Append(d, OpDigest(d, node))
<1>1. w = Evaluation(d, o, k, "none") /\ Len(d) = n
  BY DEF Passed
<1>. HIDE DEF d, o, k
<1>2. EvalNode(Evaluation(d, o, k, "none"), node, g, ins) = Evaluation(l, o, k, "none")
  BY <1>1, OpEvaluated
<1>. HIDE DEF l
<1>3. Evaluation(l, o, k, "none").digests = l /\ Evaluation(l, o, k, "none").outputs = o
  BY EvaluationFields
<1>. QED
  BY <1>1, <1>2, <1>3, Zenon DEF d, o, l

(* An operation's digest is what the engine makes of its operands'.        *)
LEMMA OpGrown ==
  ASSUME NEW b, NEW ins, GraphOK(b, Len(ins)), NEW op, NEW t \in FheType, NEW x \in 0 .. Len(b.nodes) - 1,
         NEW y \in (0 .. Len(b.nodes) - 1) \cup {NoOperand}, NEW z \in (0 .. Len(b.nodes) - 1) \cup {NoOperand},
         Len(b.nodes) < NoOperand
  PROVE  LET r == add_ternary_op(b, op, t, x, y, z)
         IN  /\ Grown(b, r.gb, ins) /\ Len(r.gb.nodes) = Len(b.nodes) + 1 /\ r.index = Len(b.nodes)
             /\ Fit(r.gb) => DigestOf(r.gb, ins, r.index)
                               = OpDigest(Walk(serialize(b), ins).digests, Node("Op", op, t, x, y, z))
<1>. DEFINE r    == add_ternary_op(b, op, t, x, y, z)
            c    == r.gb
            node == Node("Op", op, t, x, y, z)
            v    == OpDigest(Walk(serialize(b), ins).digests, node)
<1>1. GraphOK(c, Len(ins)) /\ Adds(b, r, node) /\ c.constants = b.constants
  BY OpGraph
<1>2. node.kind = "Op"
  BY DEF Node
<1>. HIDE DEF r, node
<1>3. Pushes(b, c, node) /\ r.index = Len(b.nodes)
  BY <1>1 DEF Adds
<1>4. IsBuilder(b) /\ Len(b.nodes) \in Nat
  BY DEF GraphOK, IsBuilder, IsSeq
<1>5. Len(c.nodes) = Len(b.nodes) + 1 /\ c.nodes[Len(b.nodes) + 1] = node
  BY <1>3, <1>4, PushedNodes
<1>6. Fit(c) <=> Fit(b)
  BY <1>1 DEF Fit
<1>7. NodeOK(node, Len(b.nodes) + 1)
  <2>1. Len(b.nodes) + 1 \in 1 .. Len(c.nodes)
    BY <1>4, <1>5
  <2>. QED
    BY <1>1, <1>5, <2>1, Zenon DEF GraphOK
<1>. HIDE DEF c, v
<1>8. Fit(c) => /\ Walk(serialize(c), ins).digests = Append(Walk(serialize(b), ins).digests, v)
                /\ Walk(serialize(c), ins).outputs = Walk(serialize(b), ins).outputs
  <2>. SUFFICES ASSUME Fit(c)
                PROVE  /\ Walk(serialize(c), ins).digests = Append(Walk(serialize(b), ins).digests, v)
                       /\ Walk(serialize(c), ins).outputs = Walk(serialize(b), ins).outputs
    OBVIOUS
  <2>. DEFINE w == Walk(serialize(b), ins)
              u == Walk(serialize(c), ins)
  <2>1. Passed(w, Len(b.nodes))
    BY <1>6, WalkOf DEF Passed
  <2>2. Longer(b, c)
    BY <1>1 DEF Longer, c
  <2>3. u = EvalNode(w, node, serialize(c), ins)
    BY <1>1, <1>3, <1>6, <2>2, PushedWalk DEF c
  <2>4. v = OpDigest(w.digests, node)
    BY DEF v
  <2>. HIDE DEF w, u
  <2>5. u.digests = Append(w.digests, v) /\ u.outputs = w.outputs
    BY <1>2, <1>4, <1>7, <2>1, <2>3, <2>4, OpOfWalk
  <2>. QED
    BY <2>5, Zenon DEF w, u
<1>9. Keeps(b, c, ins) /\ (Fit(c) => DigestOf(c, ins, Len(b.nodes)) = v)
  BY <1>1, <1>5, <1>6, <1>8, KeepsWhenAppended DEF c
<1>. QED
  BY <1>3, <1>5, <1>8, <1>9, Zenon DEF Grown, OutputsOf, c, v, r, node

LEMMA TernaryGrown ==
  ASSUME NEW b, NEW ins, GraphOK(b, Len(ins)), NEW op, NEW t \in FheType, NEW x \in 0 .. Len(b.nodes) - 1,
         NEW y \in 0 .. Len(b.nodes) - 1, NEW z \in 0 .. Len(b.nodes) - 1, Len(b.nodes) < NoOperand
  PROVE  LET r == add_ternary_op(b, op, t, x, y, z)
         IN  /\ Grown(b, r.gb, ins) /\ Len(r.gb.nodes) = Len(b.nodes) + 1 /\ r.index = Len(b.nodes)
             /\ Fit(r.gb) => DigestOf(r.gb, ins, r.index)
                               = ternary_op(op, DigestOf(b, ins, x), DigestOf(b, ins, y), DigestOf(b, ins, z), t)
<1>. DEFINE r    == add_ternary_op(b, op, t, x, y, z)
            node == Node("Op", op, t, x, y, z)
            d    == Walk(serialize(b), ins).digests
<1>1. /\ Grown(b, r.gb, ins) /\ Len(r.gb.nodes) = Len(b.nodes) + 1 /\ r.index = Len(b.nodes)
      /\ Fit(r.gb) => DigestOf(r.gb, ins, r.index) = OpDigest(d, node)
  BY OpGrown
<1>2. node.op_type = op /\ node.fhe_type = t /\ node.a = x /\ node.b = y /\ node.c = z
  BY DEF Node
<1>. HIDE DEF r, node
<1>3. Fit(r.gb) => Len(d) = Len(b.nodes)
  BY <1>1, WalkOf DEF Grown, Keeps
<1>. HIDE DEF d
<1>4. Len(b.nodes) \in Nat
  BY DEF GraphOK, IsBuilder, IsSeq
<1>5. z # NoOperand /\ z < Len(b.nodes) /\ y < Len(b.nodes)
  BY <1>4 DEF NoOperand
<1>6. Fit(r.gb) => OpDigest(d, node) = ternary_op(op, d[x + 1], d[y + 1], d[z + 1], t)
  BY <1>2, <1>3, <1>5, Zenon DEF OpDigest
<1>. QED
  BY <1>1, <1>6, Zenon DEF DigestOf, r, d

LEMMA BinaryGrown ==
  ASSUME NEW b, NEW ins, GraphOK(b, Len(ins)), NEW op, NEW t \in FheType, NEW x \in 0 .. Len(b.nodes) - 1,
         NEW y \in 0 .. Len(b.nodes) - 1, Len(b.nodes) < NoOperand
  PROVE  LET r == add_op(b, op, t, x, y)
         IN  /\ Grown(b, r.gb, ins) /\ Len(r.gb.nodes) = Len(b.nodes) + 1 /\ r.index = Len(b.nodes)
             /\ Fit(r.gb) => DigestOf(r.gb, ins, r.index) = binary_op(op, DigestOf(b, ins, x), DigestOf(b, ins, y), t)
<1>. DEFINE r    == add_ternary_op(b, op, t, x, y, NoOperand)
            node == Node("Op", op, t, x, y, NoOperand)
            d    == Walk(serialize(b), ins).digests
<1>1. /\ Grown(b, r.gb, ins) /\ Len(r.gb.nodes) = Len(b.nodes) + 1 /\ r.index = Len(b.nodes)
      /\ Fit(r.gb) => DigestOf(r.gb, ins, r.index) = OpDigest(d, node)
  <2>1. ASSUME NEW z, z \in (0 .. Len(b.nodes) - 1) \cup {NoOperand}
        PROVE  LET s == add_ternary_op(b, op, t, x, y, z)
               IN  /\ Grown(b, s.gb, ins) /\ Len(s.gb.nodes) = Len(b.nodes) + 1 /\ s.index = Len(b.nodes)
                   /\ Fit(s.gb) => DigestOf(s.gb, ins, s.index) = OpDigest(d, Node("Op", op, t, x, y, z))
    BY <2>1, OpGrown
  <2>2. NoOperand \in (0 .. Len(b.nodes) - 1) \cup {NoOperand}
    OBVIOUS
  <2>. QED
    BY <2>1, <2>2, Zenon
<1>2. node.op_type = op /\ node.fhe_type = t /\ node.a = x /\ node.b = y /\ node.c = NoOperand
  BY DEF Node
<1>3. r = add_op(b, op, t, x, y)
  BY DEF add_op, add_ternary_op
<1>. HIDE DEF r, node, d
<1>4. Len(b.nodes) \in Nat
  BY DEF GraphOK, IsBuilder, IsSeq
<1>5. y # NoOperand
  BY <1>4 DEF NoOperand
<1>6. OpDigest(d, node) = binary_op(op, d[x + 1], d[y + 1], t)
  BY <1>2, <1>5, Zenon DEF OpDigest
<1>. QED
  BY <1>1, <1>3, <1>6, Zenon DEF DigestOf, d

LEMMA UnaryGrown ==
  ASSUME NEW b, NEW ins, GraphOK(b, Len(ins)), NEW op, NEW t \in FheType, NEW x \in 0 .. Len(b.nodes) - 1,
         Len(b.nodes) < NoOperand
  PROVE  LET r == add_op(b, op, t, x, NoOperand)
         IN  /\ Grown(b, r.gb, ins) /\ Len(r.gb.nodes) = Len(b.nodes) + 1 /\ r.index = Len(b.nodes)
             /\ Fit(r.gb) => DigestOf(r.gb, ins, r.index) = unary_op(op, DigestOf(b, ins, x), t)
<1>. DEFINE r    == add_ternary_op(b, op, t, x, NoOperand, NoOperand)
            node == Node("Op", op, t, x, NoOperand, NoOperand)
            d    == Walk(serialize(b), ins).digests
<1>1. /\ Grown(b, r.gb, ins) /\ Len(r.gb.nodes) = Len(b.nodes) + 1 /\ r.index = Len(b.nodes)
      /\ Fit(r.gb) => DigestOf(r.gb, ins, r.index) = OpDigest(d, node)
  <2>1. ASSUME NEW z, z \in (0 .. Len(b.nodes) - 1) \cup {NoOperand}
        PROVE  LET s == add_ternary_op(b, op, t, x, z, z)
               IN  /\ Grown(b, s.gb, ins) /\ Len(s.gb.nodes) = Len(b.nodes) + 1 /\ s.index = Len(b.nodes)
                   /\ Fit(s.gb) => DigestOf(s.gb, ins, s.index) = OpDigest(d, Node("Op", op, t, x, z, z))
    BY <2>1, OpGrown
  <2>2. NoOperand \in (0 .. Len(b.nodes) - 1) \cup {NoOperand}
    OBVIOUS
  <2>. QED
    BY <2>1, <2>2, Zenon
<1>2. node.op_type = op /\ node.fhe_type = t /\ node.a = x /\ node.b = NoOperand /\ node.c = NoOperand
  BY DEF Node
<1>3. r = add_op(b, op, t, x, NoOperand)
  BY DEF add_op, add_ternary_op
<1>. HIDE DEF r, node, d
<1>4. OpDigest(d, node) = unary_op(op, d[x + 1], t)
  BY <1>2, Zenon DEF OpDigest
<1>. QED
  BY <1>1, <1>3, <1>4, Zenon DEF DigestOf, d

LEMMA GrownItself ==
  ASSUME NEW b, NEW ins, GraphOK(b, Len(ins))
  PROVE  Grown(b, b, ins)
<1>1. Len(b.nodes) \in Nat
  BY DEF GraphOK, IsBuilder, IsSeq
<1>. QED
  BY <1>1 DEF Grown, Keeps

(* A constant's digest is the engine's encryption of its bytes.            *)
LEMMA ConstantGrown ==
  ASSUME NEW b, NEW ins, GraphOK(b, Len(ins)), NEW t \in FheType, NEW data, IsSeq(data), Len(data) = byte_width[t],
         Len(add_constant_bytes(b, t, data).gb.nodes) <= NoOperand
  PROVE  LET r == add_constant_bytes(b, t, data)
         IN  /\ Grown(b, r.gb, ins) /\ Len(r.gb.nodes) <= Len(b.nodes) + 1
             /\ r.index \in 0 .. Len(r.gb.nodes) - 1
             /\ Fit(r.gb) => DigestOf(r.gb, ins, r.index) = encode_constant_bytes(t, data)
<1>. DEFINE r    == add_constant_bytes(b, t, data)
            c    == r.gb
            node == Node("Constant", "none", t, Len(b.constants) % Word, NoOperand, NoOperand)
<1>1. /\ GraphOK(c, Len(ins))
      /\ r.index \in 0 .. Len(c.nodes) - 1
      /\ c.nodes[r.index + 1].kind = "Constant" /\ c.nodes[r.index + 1].fhe_type = t
      /\ Fit(c) => EndAt(c, r.index + 1) <= Len(c.constants) /\ BytesAt(c, r.index + 1) = data
      /\ c = b \/ (Adds(b, r, node) /\ c.constants = b.constants \o data)
  BY ConstantGraph
<1>2. node.kind = "Constant"
  BY DEF Node
<1>3. Len(b.nodes) \in Nat /\ Len(c.nodes) \in Nat /\ IsBuilder(b) /\ IsBuilder(c)
  BY <1>1 DEF GraphOK, IsBuilder, IsSeq
<1>. HIDE DEF r, c, node
<1>4. ASSUME Fit(c) PROVE DigestOf(c, ins, r.index) = encode_constant_bytes(t, data)
  <2>. DEFINE w == Walk(serialize(c), ins)
              j == r.index + 1
  <2>1. Walked(w.digests, w.outputs, w.input_idx, Len(c.nodes), c, ins)
    BY <1>1, <1>4, WalkOf
  <2>2. j \in 1 .. Len(c.nodes)
    BY <1>1, <1>3
  <2>3. constants(serialize(c)) = c.constants
    BY <1>3, <1>4, Serialized
  <2>. HIDE DEF w
  <2>4. ConstantRead(c, w.digests, j)
    BY <1>1, <2>1, <2>2 DEF Walked
  <2>5. w.digests[j] = encode_constant_bytes(t, SubSeq(c.constants, c.nodes[j].a + 1, EndAt(c, j)))
    BY <1>1, <2>3, <2>4, Zenon DEF ConstantRead
  <2>. QED
    BY <1>1, <1>4, <2>5, Zenon DEF BytesAt, DigestOf, w
<1>5. CASE c = b
  BY <1>1, <1>3, <1>4, <1>5, GrownItself DEF c, r
<1>6. CASE Adds(b, r, node) /\ c.constants = b.constants \o data
  <2>1. Pushes(b, c, node)
    BY <1>6 DEF Adds, c
  <2>2. Len(c.nodes) = Len(b.nodes) + 1
    BY <1>3, <2>1, PushedNodes
  <2>3. Longer(b, c)
    BY <1>6, Zenon DEF Longer
  <2>4. Fit(c) => Fit(b)
    <3>1. IsSeq(b.constants) /\ Len(b.constants) \in Nat /\ Len(data) \in Nat
      BY <1>3 DEF IsBuilder, IsSeq
    <3>2. Len(b.constants \o data) = Len(b.constants) + Len(data)
      BY <3>1, Concatenated, Zenon
    <3>3. Len(c.constants) = Len(b.constants) + Len(data)
      BY <1>6, <3>2, Zenon
    <3>. QED
      BY <3>1, <3>3, WordAssumption DEF Fit
  <2>5. PICK v : Fit(c) => /\ Walk(serialize(c), ins).digests = Append(Walk(serialize(b), ins).digests, v)
                           /\ Walk(serialize(c), ins).outputs = Walk(serialize(b), ins).outputs
    <3>. SUFFICES ASSUME Fit(c)
                  PROVE  \E v : /\ Walk(serialize(c), ins).digests = Append(Walk(serialize(b), ins).digests, v)
                                /\ Walk(serialize(c), ins).outputs = Walk(serialize(b), ins).outputs
      BY Zenon
    <3>. DEFINE w   == Walk(serialize(b), ins)
                u   == Walk(serialize(c), ins)
                end == node.a + byte_width[node.fhe_type]
                v   == encode_constant_bytes(node.fhe_type, SubSeq(constants(serialize(c)), node.a + 1, end))
    <3>1. w = Evaluation(w.digests, w.outputs, w.input_idx, "none")
      BY <2>4, WalkOf
    <3>2. u = EvalNode(w, node, serialize(c), ins)
      BY <1>1, <2>1, <2>3, <2>4, PushedWalk
    <3>3. u.err = "none"
      <4>1. Sound(u, Len(c.nodes), c, ins)
        BY <1>1, WalkSound
      <4>. QED
        BY <4>1 DEF Sound
    <3>. HIDE DEF w, u
    <3>4. EvalNode(Evaluation(w.digests, w.outputs, w.input_idx, "none"), node, serialize(c), ins)
            = IF end > Len(constants(serialize(c))) THEN Evaluation(w.digests, w.outputs, w.input_idx, "InvalidGraph")
              ELSE Evaluation(Append(w.digests, v), w.outputs, w.input_idx, "none")
      BY <1>2, ConstantEvaluated
    <3>. HIDE DEF end, v
    <3>5. u # Evaluation(w.digests, w.outputs, w.input_idx, "InvalidGraph")
      BY <3>3, EvaluationFields
    <3>6. u = Evaluation(Append(w.digests, v), w.outputs, w.input_idx, "none")
      BY <3>1, <3>2, <3>4, <3>5, Zenon
    <3>7. u.digests = Append(w.digests, v) /\ u.outputs = w.outputs
      BY <3>6, FieldsOf, Zenon
    <3>. QED
      BY <3>7, Zenon DEF w, u
  <2>6. Keeps(b, c, ins)
    BY <1>1, <2>2, <2>4, <2>5, KeepsWhenAppended
  <2>7. Len(c.nodes) <= Len(b.nodes) + 1
    BY <1>3, <2>2
  <2>. QED
    BY <1>1, <1>4, <2>5, <2>6, <2>7, Zenon DEF Grown, OutputsOf, c, r
<1>. QED
  BY <1>1, <1>5, <1>6

OutputDigest(d, node) == d[node.a + 1]

LEMMA OutputOfWalk ==
  ASSUME NEW w, NEW n \in Nat, Passed(w, n), NEW node, node.kind = "Output", NodeOK(node, n + 1), NEW g, NEW ins
  PROVE  /\ EvalNode(w, node, g, ins).digests = Append(w.digests, OutputDigest(w.digests, node))
         /\ EvalNode(w, node, g, ins).outputs = Append(w.outputs, OutputDigest(w.digests, node))
<1>. DEFINE d == w.digests
            o == w.outputs
            k == w.input_idx
            v == d[node.a + 1]
            l == Append(d, v)
            m == Append(o, v)
<1>1. w = Evaluation(d, o, k, "none") /\ Len(d) = n
  BY DEF Passed
<1>. HIDE DEF d, o, k
<1>2. EvalNode(Evaluation(d, o, k, "none"), node, g, ins) = Evaluation(l, m, k, "none")
  <2>1. ASSUME NEW y, y = d[node.a + 1]
        PROVE  EvalNode(Evaluation(d, o, k, "none"), node, g, ins) = Evaluation(Append(d, y), Append(o, y), k, "none")
    BY <1>1, <2>1, OutputEvaluated
  <2>. QED
    BY <2>1, Zenon
<1>. HIDE DEF l, m
<1>3. Evaluation(l, m, k, "none").digests = l /\ Evaluation(l, m, k, "none").outputs = m
  BY EvaluationFields
<1>. QED
  BY <1>1, <1>2, <1>3, Zenon DEF d, o, v, l, m, OutputDigest

(* An output is one more digest, that of its node.                         *)
LEMMA OutputGrown ==
  ASSUME NEW b, NEW ins, GraphOK(b, Len(ins)), NEW t \in FheType, NEW x \in 0 .. Len(b.nodes) - 1,
         Len(b.nodes) < NoOperand
  PROVE  LET c == add_output(b, t, x).gb
         IN  /\ Keeps(b, c, ins) /\ Len(c.nodes) = Len(b.nodes) + 1
             /\ Fit(c) => OutputsOf(c, ins) = Append(OutputsOf(b, ins), DigestOf(b, ins, x))
<1>. DEFINE r    == add_output(b, t, x)
            c    == r.gb
            node == Node("Output", "none", t, x, NoOperand, NoOperand)
            v    == Walk(serialize(b), ins).digests[x + 1]
<1>1. GraphOK(c, Len(ins)) /\ Adds(b, r, node) /\ c.constants = b.constants
  BY OutputGraph
<1>2. node.kind = "Output" /\ node.a = x
  BY DEF Node
<1>. HIDE DEF r, node
<1>3. Pushes(b, c, node)
  BY <1>1 DEF Adds
<1>4. IsBuilder(b) /\ Len(b.nodes) \in Nat
  BY DEF GraphOK, IsBuilder, IsSeq
<1>5. Len(c.nodes) = Len(b.nodes) + 1 /\ c.nodes[Len(b.nodes) + 1] = node
  BY <1>3, <1>4, PushedNodes
<1>6. Fit(c) <=> Fit(b)
  BY <1>1 DEF Fit
<1>7. NodeOK(node, Len(b.nodes) + 1)
  <2>1. Len(b.nodes) + 1 \in 1 .. Len(c.nodes)
    BY <1>4, <1>5
  <2>. QED
    BY <1>1, <1>5, <2>1, Zenon DEF GraphOK
<1>. HIDE DEF c, v
<1>8. Fit(c) => /\ Walk(serialize(c), ins).digests = Append(Walk(serialize(b), ins).digests, v)
                /\ Walk(serialize(c), ins).outputs = Append(Walk(serialize(b), ins).outputs, v)
  <2>. SUFFICES ASSUME Fit(c)
                PROVE  /\ Walk(serialize(c), ins).digests = Append(Walk(serialize(b), ins).digests, v)
                       /\ Walk(serialize(c), ins).outputs = Append(Walk(serialize(b), ins).outputs, v)
    OBVIOUS
  <2>. DEFINE w == Walk(serialize(b), ins)
              u == Walk(serialize(c), ins)
  <2>1. Passed(w, Len(b.nodes))
    BY <1>6, WalkOf DEF Passed
  <2>2. Longer(b, c)
    BY <1>1 DEF Longer, c
  <2>3. u = EvalNode(w, node, serialize(c), ins)
    BY <1>1, <1>3, <1>6, <2>2, PushedWalk DEF c
  <2>4. v = OutputDigest(w.digests, node)
    BY <1>2, Zenon DEF v, OutputDigest
  <2>. HIDE DEF w, u
  <2>5. node.kind = "Output" /\ Len(b.nodes) \in Nat
    BY <1>2, <1>4
  <2>6. u.digests = Append(w.digests, v) /\ u.outputs = Append(w.outputs, v)
    BY <1>7, <2>1, <2>3, <2>4, <2>5, OutputOfWalk
  <2>. QED
    BY <2>6, Zenon DEF w, u
<1>9. Keeps(b, c, ins)
  BY <1>1, <1>5, <1>6, <1>8, KeepsWhenAppended DEF c
<1>. QED
  BY <1>5, <1>8, <1>9, Zenon DEF DigestOf, OutputsOf, c, v, r

(* Before the body, the digests are the inputs.                            *)
LEMMA InputsOnly ==
  ASSUME NEW b, NEW ins, GraphOK(b, Len(ins)), Len(b.nodes) = Len(ins), Fit(b)
  PROVE  (\A j \in 0 .. Len(b.nodes) - 1 : DigestOf(b, ins, j) = ins[j + 1]) /\ Len(OutputsOf(b, ins)) = 0
<1>. DEFINE x == Walk(serialize(b), ins)
            n == Len(b.nodes)
<1>1. Walked(x.digests, x.outputs, x.input_idx, n, b, ins)
  BY WalkOf
<1>2. n \in Nat
  BY DEF GraphOK, IsBuilder, IsSeq
<1>. HIDE DEF x
<1>3. (\A j \in 1 .. n : x.digests[j] = ins[j]) /\ Len(x.outputs) = 0
  BY <1>1, <1>2 DEF Walked
<1>4. ASSUME NEW j \in 0 .. n - 1 PROVE x.digests[j + 1] = ins[j + 1]
  <2>1. j + 1 \in 1 .. n
    BY <1>2
  <2>. QED
    BY <1>3, <2>1
<1>. QED
  BY <1>3, <1>4, Zenon DEF DigestOf, OutputsOf, x, n

(* The length of a graph, for any builder.                                 *)
LEMMA OpLength ==
  ASSUME NEW b, IsBuilder(b), NEW op, NEW t, NEW x, NEW y, NEW z
  PROVE  LET c == add_ternary_op(b, op, t, x, y, z).gb IN IsBuilder(c) /\ Len(c.nodes) = Len(b.nodes) + 1
BY OpPushed, PushedNodes DEF Pushes

LEMMA OutputLength ==
  ASSUME NEW b, IsBuilder(b), NEW t, NEW x
  PROVE  LET c == add_output(b, t, x).gb IN IsBuilder(c) /\ Len(c.nodes) = Len(b.nodes) + 1
BY OutputPushed, PushedNodes DEF Pushes

LEMMA ConstantLength ==
  ASSUME NEW b, IsBuilder(b), NEW t, NEW data, IsSeq(data)
  PROVE  LET c == add_constant_bytes(b, t, data).gb IN IsBuilder(c) /\ Len(b.nodes) <= Len(c.nodes)
<1>. DEFINE r == add_constant_bytes(b, t, data)
<1>1. Len(b.nodes) \in Nat
  BY DEF IsBuilder, IsSeq
<1>2. r.gb = b \/ r = NewConstant(b, t, data)
  BY ConstantAdded
<1>. HIDE DEF r
<1>3. CASE r.gb = b
  BY <1>1, <1>3 DEF r
<1>4. CASE r = NewConstant(b, t, data)
  <2>. DEFINE node == Node("Constant", "none", t, Len(b.constants) % Word, NoOperand, NoOperand)
  <2>1. Pushes(b, r.gb, node)
    BY <1>4, ConstantPushed, Zenon
  <2>. HIDE DEF node
  <2>2. IsBuilder(r.gb) /\ Len(r.gb.nodes) = Len(b.nodes) + 1
    BY <2>1, PushedNodes DEF Pushes
  <2>. QED
    BY <1>1, <2>2 DEF r
<1>. QED
  BY <1>2, <1>3, <1>4

-----------------------------------------------------------------------------
(* Expressions.                                                            *)

(* A node of the graph has a digest that is an encryption of x.            *)
Encrypts(b, ins, index, x) ==
  /\ index \in 0 .. Len(b.nodes) - 1
  /\ EngineComputesMeanings(Encryptions) /\ Fit(b) => <<DigestOf(b, ins, index), x>> \in Encryptions

(* The names a function has bound are worth what the table of meanings says. *)
KnownNames(names, env, b, ins) ==
  /\ DOMAIN names = DOMAIN env
  /\ \A n \in DOMAIN env : /\ names[n].tid \in FheType /\ names[n].tid = env[n].t
                           /\ Encrypts(b, ins, names[n].node, env[n])

(* The code of an expression computes x, and leaves what was there alone.  *)
Compiled(b, r, x, ins) ==
  /\ Grown(b, r.gb, ins)
  /\ r.tid \in FheType /\ r.tid = x.t
  /\ Encrypts(r.gb, ins, r.node, x)

LEMMA EncryptsKept ==
  ASSUME NEW b, NEW c, NEW ins, GraphOK(b, Len(ins)), Keeps(b, c, ins), NEW index, NEW x, Encrypts(b, ins, index, x)
  PROVE  Encrypts(c, ins, index, x)
<1>1. Len(b.nodes) \in Nat /\ Len(b.nodes) <= Len(c.nodes) /\ Len(c.nodes) \in Nat /\ index \in 0 .. Len(b.nodes) - 1
  BY DEF GraphOK, IsBuilder, IsSeq, Keeps, Encrypts
<1>2. index \in 0 .. Len(c.nodes) - 1
  BY <1>1
<1>3. Fit(c) => Fit(b) /\ DigestOf(c, ins, index) = DigestOf(b, ins, index)
  BY <1>1, Zenon DEF Keeps
<1>. QED
  BY <1>2, <1>3, Zenon DEF Encrypts

LEMMA NamesKept ==
  ASSUME NEW b, NEW c, NEW ins, GraphOK(b, Len(ins)), Keeps(b, c, ins), NEW names, NEW env, KnownNames(names, env, b, ins)
  PROVE  KnownNames(names, env, c, ins)
<1>1. \A n \in DOMAIN env : Encrypts(b, ins, names[n].node, env[n])
  BY DEF KnownNames
<1>2. \A index, x : Encrypts(b, ins, index, x) => Encrypts(c, ins, index, x)
  BY EncryptsKept
<1>. QED
  BY <1>1, <1>2, Zenon DEF KnownNames

(* A name bound to a node that is worth what the name means.               *)
LEMMA NameBound ==
  ASSUME NEW b, NEW ins, NEW names, NEW env, KnownNames(names, env, b, ins), NEW name, NEW index, NEW t \in FheType,
         NEW x, x.t = t, Encrypts(b, ins, index, x)
  PROVE  KnownNames(Bound(name, [node |-> index, tid |-> t], names), Bound(name, x, env), b, ins)
<1>. DEFINE names1 == Bound(name, [node |-> index, tid |-> t], names)
            env1   == Bound(name, x, env)
<1>1. DOMAIN names1 = {name} \cup DOMAIN env /\ DOMAIN env1 = {name} \cup DOMAIN env
  BY DEF Bound, KnownNames
<1>2. \A n \in {name} \cup DOMAIN env : /\ names1[n] = IF n = name THEN [node |-> index, tid |-> t] ELSE names[n]
                                        /\ env1[n] = IF n = name THEN x ELSE env[n]
  BY DEF Bound, KnownNames
<1>. HIDE DEF names1, env1
<1>3. ASSUME NEW n \in DOMAIN env1
      PROVE  names1[n].tid \in FheType /\ names1[n].tid = env1[n].t /\ Encrypts(b, ins, names1[n].node, env1[n])
  <2>1. CASE n = name
    <3>1. names1[n] = [node |-> index, tid |-> t] /\ env1[n] = x
      BY <1>1, <1>2, <2>1
    <3>2. names1[n].node = index /\ names1[n].tid = t
      BY <3>1
    <3>. QED
      BY <3>1, <3>2, Zenon
  <2>2. CASE n # name
    <3>1. n \in DOMAIN env /\ names1[n] = names[n] /\ env1[n] = env[n]
      BY <1>1, <1>2, <2>2
    <3>. QED
      BY <3>1, Zenon DEF KnownNames
  <2>. QED
    BY <2>1, <2>2
<1>. QED
  BY <1>1, <1>3, Zenon DEF KnownNames, names1, env1

(* Operations on operands that are worth something, and what they compute. *)
LEMMA TernaryCompiled ==
  ASSUME NEW b, NEW ins, GraphOK(b, Len(ins)), Len(b.nodes) < NoOperand, NEW op, NEW t \in FheType,
         NEW i, NEW x, Encrypts(b, ins, i, x), NEW j, NEW y, Encrypts(b, ins, j, y), NEW k, NEW z, Encrypts(b, ins, k, z),
         NEW u, u.t = t,
         EngineComputesMeanings(Encryptions) =>
           \A p, q, r : <<p, x>> \in Encryptions /\ <<q, y>> \in Encryptions /\ <<r, z>> \in Encryptions
                          => <<ternary_op(op, p, q, r, t), u>> \in Encryptions
  PROVE  Compiled(b, Emitted(add_ternary_op(b, op, t, i, j, k), t), u, ins)
<1>. DEFINE call == add_ternary_op(b, op, t, i, j, k)
            r    == Emitted(call, t)
            c    == call.gb
<1>1. i \in 0 .. Len(b.nodes) - 1 /\ j \in 0 .. Len(b.nodes) - 1 /\ k \in 0 .. Len(b.nodes) - 1
  BY DEF Encrypts
<1>2. /\ Grown(b, c, ins) /\ Len(c.nodes) = Len(b.nodes) + 1 /\ call.index = Len(b.nodes)
      /\ Fit(c) => DigestOf(c, ins, call.index)
                     = ternary_op(op, DigestOf(b, ins, i), DigestOf(b, ins, j), DigestOf(b, ins, k), t)
  BY <1>1, TernaryGrown
<1>3. r.gb = c /\ r.node = call.index /\ r.tid = t
  BY DEF Emitted
<1>. HIDE DEF call, r
<1>4. Fit(c) => Fit(b)
  BY <1>2 DEF Grown, Keeps
<1>5. Len(b.nodes) \in Nat
  BY DEF GraphOK, IsBuilder, IsSeq
<1>6. call.index \in 0 .. Len(c.nodes) - 1
  BY <1>2, <1>5
<1>7. EngineComputesMeanings(Encryptions) /\ Fit(c) => <<DigestOf(c, ins, call.index), u>> \in Encryptions
  BY <1>2, <1>4, Zenon DEF Encrypts
<1>. QED
  BY <1>2, <1>3, <1>6, <1>7, Zenon DEF Compiled, Encrypts, r, call

LEMMA BinaryCompiled ==
  ASSUME NEW b, NEW ins, GraphOK(b, Len(ins)), Len(b.nodes) < NoOperand, NEW op, NEW t \in FheType,
         NEW i, NEW x, Encrypts(b, ins, i, x), NEW j, NEW y, Encrypts(b, ins, j, y), NEW u, u.t = t,
         EngineComputesMeanings(Encryptions) =>
           \A p, q : <<p, x>> \in Encryptions /\ <<q, y>> \in Encryptions => <<binary_op(op, p, q, t), u>> \in Encryptions
  PROVE  Compiled(b, Emitted(add_op(b, op, t, i, j), t), u, ins)
<1>. DEFINE call == add_op(b, op, t, i, j)
            r    == Emitted(call, t)
            c    == call.gb
<1>1. i \in 0 .. Len(b.nodes) - 1 /\ j \in 0 .. Len(b.nodes) - 1
  BY DEF Encrypts
<1>2. /\ Grown(b, c, ins) /\ Len(c.nodes) = Len(b.nodes) + 1 /\ call.index = Len(b.nodes)
      /\ Fit(c) => DigestOf(c, ins, call.index) = binary_op(op, DigestOf(b, ins, i), DigestOf(b, ins, j), t)
  BY <1>1, BinaryGrown
<1>3. r.gb = c /\ r.node = call.index /\ r.tid = t
  BY DEF Emitted
<1>. HIDE DEF call, r
<1>4. Fit(c) => Fit(b)
  BY <1>2 DEF Grown, Keeps
<1>5. Len(b.nodes) \in Nat
  BY DEF GraphOK, IsBuilder, IsSeq
<1>6. call.index \in 0 .. Len(c.nodes) - 1
  BY <1>2, <1>5
<1>7. EngineComputesMeanings(Encryptions) /\ Fit(c) => <<DigestOf(c, ins, call.index), u>> \in Encryptions
  BY <1>2, <1>4, Zenon DEF Encrypts
<1>. QED
  BY <1>2, <1>3, <1>6, <1>7, Zenon DEF Compiled, Encrypts, r, call

LEMMA UnaryCompiled ==
  ASSUME NEW b, NEW ins, GraphOK(b, Len(ins)), Len(b.nodes) < NoOperand, NEW op, NEW t \in FheType,
         NEW i, NEW x, Encrypts(b, ins, i, x), NEW u, u.t = t,
         EngineComputesMeanings(Encryptions) => \A p : <<p, x>> \in Encryptions => <<unary_op(op, p, t), u>> \in Encryptions
  PROVE  Compiled(b, Emitted(add_op(b, op, t, i, NoOperand), t), u, ins)
<1>. DEFINE call == add_op(b, op, t, i, NoOperand)
            r    == Emitted(call, t)
            c    == call.gb
<1>1. i \in 0 .. Len(b.nodes) - 1
  BY DEF Encrypts
<1>2. /\ Grown(b, c, ins) /\ Len(c.nodes) = Len(b.nodes) + 1 /\ call.index = Len(b.nodes)
      /\ Fit(c) => DigestOf(c, ins, call.index) = unary_op(op, DigestOf(b, ins, i), t)
  BY <1>1, UnaryGrown
<1>3. r.gb = c /\ r.node = call.index /\ r.tid = t
  BY DEF Emitted
<1>. HIDE DEF call, r
<1>4. Fit(c) => Fit(b)
  BY <1>2 DEF Grown, Keeps
<1>5. Len(b.nodes) \in Nat
  BY DEF GraphOK, IsBuilder, IsSeq
<1>6. call.index \in 0 .. Len(c.nodes) - 1
  BY <1>2, <1>5
<1>7. EngineComputesMeanings(Encryptions) /\ Fit(c) => <<DigestOf(c, ins, call.index), u>> \in Encryptions
  BY <1>2, <1>4, Zenon DEF Encrypts
<1>. QED
  BY <1>2, <1>3, <1>6, <1>7, Zenon DEF Compiled, Encrypts, r, call

LEMMA ConstantCompiled ==
  ASSUME NEW b, NEW ins, GraphOK(b, Len(ins)), NEW t \in FheType, NEW data, IsSeq(data),
         Len(data) = byte_width[t], Len(add_constant_bytes(b, t, data).gb.nodes) <= NoOperand, NEW u, u.t = t,
         EngineComputesMeanings(Encryptions) => <<encode_constant_bytes(t, data), u>> \in Encryptions
  PROVE  Compiled(b, Emitted(add_constant_bytes(b, t, data), t), u, ins)
<1>. DEFINE call == add_constant_bytes(b, t, data)
            r    == Emitted(call, t)
            c    == call.gb
<1>1. /\ Grown(b, c, ins) /\ call.index \in 0 .. Len(c.nodes) - 1
      /\ Fit(c) => DigestOf(c, ins, call.index) = encode_constant_bytes(t, data)
  BY ConstantGrown
<1>2. r.gb = c /\ r.node = call.index /\ r.tid = t
  BY DEF Emitted
<1>. HIDE DEF call, r
<1>. QED
  BY <1>1, <1>2, Zenon DEF Compiled, Encrypts, r, call

LEMMA KeepsTwice ==
  ASSUME NEW ins, NEW b, NEW c, NEW d, GraphOK(b, Len(ins)), Keeps(b, c, ins), Keeps(c, d, ins)
  PROVE  Keeps(b, d, ins)
<1>1. Len(b.nodes) \in Nat /\ Len(c.nodes) \in Nat /\ Len(d.nodes) \in Nat
  BY DEF GraphOK, IsBuilder, IsSeq, Keeps
<1>2. Len(b.nodes) <= Len(c.nodes) /\ Len(c.nodes) <= Len(d.nodes)
  BY DEF Keeps
<1>3. Len(b.nodes) <= Len(d.nodes) /\ \A j \in 0 .. Len(b.nodes) - 1 : j \in 0 .. Len(c.nodes) - 1
  BY <1>1, <1>2
<1>4. Fit(d) => Fit(c) /\ \A j \in 0 .. Len(c.nodes) - 1 : DigestOf(d, ins, j) = DigestOf(c, ins, j)
  BY Zenon DEF Keeps
<1>5. Fit(c) => Fit(b) /\ \A j \in 0 .. Len(b.nodes) - 1 : DigestOf(c, ins, j) = DigestOf(b, ins, j)
  BY Zenon DEF Keeps
<1>6. Fit(d) => Fit(b) /\ \A j \in 0 .. Len(b.nodes) - 1 : DigestOf(d, ins, j) = DigestOf(b, ins, j)
  BY <1>3, <1>4, <1>5, Zenon
<1>7. GraphOK(d, Len(ins))
  BY DEF Keeps
<1>. QED
  BY <1>3, <1>6, <1>7, Zenon DEF Keeps

LEMMA GrownTwice ==
  ASSUME NEW ins, NEW b, NEW c, NEW d, GraphOK(b, Len(ins)), Grown(b, c, ins), Grown(c, d, ins)
  PROVE  Grown(b, d, ins)
<1>1. Keeps(b, c, ins) /\ Keeps(c, d, ins)
  BY DEF Grown
<1>2. Keeps(b, d, ins)
  BY <1>1, KeepsTwice
<1>3. Fit(d) => Fit(c)
  BY <1>1, Zenon DEF Keeps
<1>. QED
  BY <1>2, <1>3, Zenon DEF Grown

(* A literal on the right is a constant before the operation.              *)
LiteralComputes(op, x, s, data, t, u) ==
  EngineComputesMeanings(Encryptions) =>
    \A p : <<p, x>> \in Encryptions => <<binary_op(op, p, encode_constant_bytes(s, data), t), u>> \in Encryptions

LEMMA LiteralCompiled ==
  ASSUME NEW b, NEW ins, GraphOK(b, Len(ins)), NEW op, NEW t \in FheType,
         NEW i, NEW x, Encrypts(b, ins, i, x), NEW s \in FheType, NEW data, IsSeq(data), Len(data) = byte_width[s],
         Len(add_constant_bytes(b, s, data).gb.nodes) < NoOperand, NEW u, u.t = t, LiteralComputes(op, x, s, data, t, u)
  PROVE  LET const == add_constant_bytes(b, s, data)
         IN  Compiled(b, Emitted(add_op(const.gb, op, t, i, const.index), t), u, ins)
<1>. DEFINE const == add_constant_bytes(b, s, data)
            c     == const.gb
            call  == add_op(c, op, t, i, const.index)
            r     == Emitted(call, t)
            d     == call.gb
<1>14. Len(c.nodes) <= NoOperand
  <2>1. IsBuilder(c)
    BY ConstantLength DEF GraphOK
  <2>. HIDE DEF const
  <2>2. Len(c.nodes) \in Nat
    BY <2>1 DEF IsBuilder, IsSeq
  <2>. QED
    BY <2>2 DEF const, NoOperand
<1>1. /\ Grown(b, c, ins) /\ const.index \in 0 .. Len(c.nodes) - 1
      /\ Fit(c) => DigestOf(c, ins, const.index) = encode_constant_bytes(s, data)
  BY <1>14, ConstantGrown
<1>2. Len(c.nodes) < NoOperand
  OBVIOUS
<1>. HIDE DEF const
<1>3. GraphOK(c, Len(ins)) /\ Keeps(b, c, ins)
  BY <1>1 DEF Grown, Keeps
<1>4. Encrypts(c, ins, i, x)
  BY <1>3, EncryptsKept
<1>5. i \in 0 .. Len(c.nodes) - 1
  BY <1>4 DEF Encrypts
<1>6. Len(d.nodes) = Len(c.nodes) + 1 /\ call.index = Len(c.nodes)
  <2>. HIDE DEF c
  <2>. QED
    BY <1>1, <1>2, <1>3, <1>5, BinaryGrown
<1>7. /\ Grown(c, d, ins)
      /\ Fit(d) => DigestOf(d, ins, call.index) = binary_op(op, DigestOf(c, ins, i), DigestOf(c, ins, const.index), t)
  <2>. HIDE DEF c
  <2>. QED
    BY <1>1, <1>2, <1>3, <1>5, BinaryGrown
<1>8. r.gb = d /\ r.node = call.index /\ r.tid = t
  BY DEF Emitted
<1>. HIDE DEF call, r
<1>9. Fit(d) => Fit(c)
  BY <1>7 DEF Grown, Keeps
<1>10. Len(c.nodes) \in Nat
  BY <1>3 DEF GraphOK, IsBuilder, IsSeq
<1>11. call.index \in 0 .. Len(d.nodes) - 1
  BY <1>6, <1>10
<1>12. EngineComputesMeanings(Encryptions) /\ Fit(d) => <<DigestOf(d, ins, call.index), u>> \in Encryptions
  BY <1>1, <1>4, <1>7, <1>9, Zenon DEF Encrypts, LiteralComputes
<1>13. Grown(b, d, ins)
  BY <1>1, <1>7, GrownTwice
<1>. QED
  BY <1>8, <1>11, <1>12, <1>13, Zenon DEF Compiled, Encrypts, r, call, const

(* What the engine is taken to do, for one operation on some digests.      *)
LEMMA EngineOperator ==
  ASSUME EngineComputesMeanings(Encryptions), NEW x, NEW y, NEW op \in DOMAIN binop, TakesOperator(op, x, y),
         NEW p, NEW q, <<p, x>> \in Encryptions, <<q, y>> \in Encryptions
  PROVE  <<binary_op(maybe_scalar_op(binop[op], x.t, y.t), p, q, x.t), OnLanes(op, x, y)>> \in Encryptions
<1>1. Operators(Encryptions, <<p, x>>, <<q, y>>, op)
  BY Zenon DEF EngineComputesMeanings
<1>2. <<p, x>>[1] = p /\ <<p, x>>[2] = x /\ <<q, y>>[1] = q /\ <<q, y>>[2] = y
  OBVIOUS
<1>. QED
  BY <1>1, <1>2, Zenon DEF Operators

LEMMA EngineLiteral ==
  ASSUME EngineComputesMeanings(Encryptions), NEW x, NEW n \in Literals, NEW op \in DOMAIN binop, TakesLiteral(op, x, n),
         NEW p, <<p, x>> \in Encryptions
  PROVE  <<binary_op(maybe_scalar_op(binop[op], x.t, scalar_element_tid(x.t)), p, LiteralDigest(x.t, n), x.t),
           MeaningOfLiteral(op, x, n)>> \in Encryptions
<1>1. LiteralOperators(Encryptions, <<p, x>>, n, op)
  BY Zenon DEF EngineComputesMeanings
<1>2. <<p, x>>[1] = p /\ <<p, x>>[2] = x
  OBVIOUS
<1>. QED
  BY <1>1, <1>2, Zenon DEF LiteralOperators

LEMMA EngineUnary ==
  ASSUME EngineComputesMeanings(Encryptions), NEW x, NEW op \in DOMAIN unop, NEW p, <<p, x>> \in Encryptions
  PROVE  <<unary_op(unop[op], p, x.t), EachLane(op, x)>> \in Encryptions
<1>1. <<unary_op(unop[op], <<p, x>>[1], <<p, x>>[2].t), EachLane(op, <<p, x>>[2])>> \in Encryptions
  BY Zenon DEF EngineComputesMeanings
<1>2. <<p, x>>[1] = p /\ <<p, x>>[2] = x
  OBVIOUS
<1>. QED
  BY <1>1, <1>2, Zenon

LEMMA EngineUnaryMethod ==
  ASSUME EngineComputesMeanings(Encryptions), NEW x, NEW m \in DOMAIN method_op, TakesMethod(m, x, <<>>), NEW p, <<p, x>> \in Encryptions
  PROVE  <<unary_op(method_op[m], p, IF m = "to_boolean" THEN "EBool" ELSE x.t), MeaningOfMethod(m, x, <<>>)>>
           \in Encryptions
<1>1. UnaryMethods(Encryptions, <<p, x>>, m)
  BY Zenon DEF EngineComputesMeanings
<1>2. <<p, x>>[1] = p /\ <<p, x>>[2] = x
  OBVIOUS
<1>. QED
  BY <1>1, <1>2, Zenon DEF UnaryMethods

LEMMA EngineBinaryMethod ==
  ASSUME EngineComputesMeanings(Encryptions), NEW x, NEW y, NEW m \in DOMAIN method_op, TakesMethod(m, x, <<y>>),
         NEW p, NEW q, <<p, x>> \in Encryptions, <<q, y>> \in Encryptions
  PROVE  <<binary_op(maybe_scalar_op(method_op[m], x.t, y.t), p, q, x.t), MeaningOfMethod(m, x, <<y>>)>> \in Encryptions
<1>1. BinaryMethods(Encryptions, <<p, x>>, <<q, y>>, m)
  BY Zenon DEF EngineComputesMeanings
<1>2. <<p, x>>[1] = p /\ <<p, x>>[2] = x /\ <<q, y>>[1] = q /\ <<q, y>>[2] = y
  OBVIOUS
<1>. QED
  BY <1>1, <1>2, Zenon DEF BinaryMethods

LEMMA EngineSelect ==
  ASSUME EngineComputesMeanings(Encryptions), NEW x, NEW y, NEW z, TakesMethod("select", x, <<y, z>>), y.t \in FheType, y.t = z.t,
         NEW p, NEW q, NEW r, <<p, x>> \in Encryptions, <<q, y>> \in Encryptions, <<r, z>> \in Encryptions
  PROVE  <<ternary_op("Select", p, q, r, y.t), MeaningOfMethod("select", x, <<y, z>>)>> \in Encryptions
<1>1. <<p, x>>[1] = p /\ <<p, x>>[2] = x /\ <<q, y>>[1] = q /\ <<q, y>>[2] = y /\ <<r, z>>[1] = r /\ <<r, z>>[2] = z
  OBVIOUS
<1>2. <<q, y>> \in EncryptionsOf(Encryptions, y.t) /\ <<r, z>> \in EncryptionsOf(Encryptions, y.t)
  BY <1>1 DEF EncryptionsOf
<1>3. TernaryMethods(Encryptions, <<p, x>>, <<q, y>>, <<r, z>>, "select")
  BY <1>2, Zenon DEF EngineComputesMeanings
<1>4. "select" \notin {"assign", "assign_scalars"}
  OBVIOUS
<1>. QED
  BY <1>1, <1>3, <1>4, Zenon DEF TernaryMethods

LEMMA EngineOnVectors ==
  ASSUME EngineComputesMeanings(Encryptions), NEW x, NEW y, NEW z, NEW m \in {"assign", "assign_scalars", "select_scalar"},
         TakesMethod(m, x, <<y, z>>), x.t = "EUint8Vector", y.t = "EUint8Vector", z.t = "EUint8Vector",
         NEW p, NEW q, NEW r, <<p, x>> \in Encryptions, <<q, y>> \in Encryptions, <<r, z>> \in Encryptions
  PROVE  <<ternary_op(method_op[m], p, q, r, IF m \in {"assign", "assign_scalars"} THEN x.t ELSE y.t),
           MeaningOfMethod(m, x, <<y, z>>)>> \in Encryptions
<1>1. <<p, x>>[1] = p /\ <<p, x>>[2] = x /\ <<q, y>>[1] = q /\ <<q, y>>[2] = y /\ <<r, z>>[1] = r /\ <<r, z>>[2] = z
  OBVIOUS
<1>2. {<<p, x>>, <<q, y>>, <<r, z>>} \subseteq EncryptionsOf(Encryptions, "EUint8Vector")
  BY <1>1 DEF EncryptionsOf
<1>3. TernaryMethods(Encryptions, <<p, x>>, <<q, y>>, <<r, z>>, m)
  BY <1>2, Zenon DEF EngineComputesMeanings
<1>4. m # "select"
  OBVIOUS
<1>. QED
  BY <1>1, <1>3, <1>4, Zenon DEF TernaryMethods

LEMMA EngineInto ==
  ASSUME EngineComputesMeanings(Encryptions), NEW x, NEW t \in FheType, ~is_vector(t), ~is_vector(x.t), NEW p, <<p, x>> \in Encryptions
  PROVE  <<unary_op("Into", p, t), Number(t, x.v[1])>> \in Encryptions
<1>1. ~is_vector(t) /\ ~is_vector(<<p, x>>[2].t) =>
        <<unary_op("Into", <<p, x>>[1], t), Number(t, <<p, x>>[2].v[1])>> \in Encryptions
  BY Zenon DEF EngineComputesMeanings
<1>2. <<p, x>>[1] = p /\ <<p, x>>[2] = x
  OBVIOUS
<1>. QED
  BY <1>1, <1>2, Zenon

LEMMA EngineConstant ==
  ASSUME EngineComputesMeanings(Encryptions), NEW t \in FheType, NEW constructor \in {"from", "from_elements", "splat"},
         NEW arg \in Constant, TakesConstant(t, constructor, arg)
  PROVE  <<encode_constant_bytes(t, ConstantBytes(t, constructor, arg)), MeaningOfConstant(t, constructor, arg)>>
           \in Encryptions
BY Zenon DEF EngineComputesMeanings

LEMMA TableIsSeq ==
  ASSUME NEW n \in Nat, NEW f, f = [i \in 1 .. n |-> f[i]]
  PROVE  IsSeq(f) /\ Len(f) = n
<1>. DEFINE S == {f[i] : i \in 1 .. n}
<1>1. f \in [1 .. n -> S]
  <2>1. \A i \in 1 .. n : f[i] \in S
    OBVIOUS
  <2>. HIDE DEF S
  <2>. QED
    BY <2>1
<1>. HIDE DEF S
<1>2. f \in Seq(S) /\ Len(f) = n
  BY <1>1, SeqDef, LenProperties
<1>. QED
  BY <1>2, SeqIsSeq

LEMMA BytesOfNumber ==
  ASSUME NEW v, NEW t \in FheType
  PROVE  IsSeq(u128_to_bytes(v, byte_width[t])) /\ Len(u128_to_bytes(v, byte_width[t])) = byte_width[t]
<1>1. byte_width[t] \in Nat
  BY Widths
<1>2. u128_to_bytes(v, byte_width[t]) = [i \in 1 .. byte_width[t] |-> u128_to_bytes(v, byte_width[t])[i]]
  BY DEF u128_to_bytes
<1>. QED
  BY <1>1, <1>2, TableIsSeq

LEMMA OperationLength ==
  ASSUME NEW b, IsBuilder(b), NEW op, NEW t, NEW x, NEW y
  PROVE  LET c == add_op(b, op, t, x, y).gb IN IsBuilder(c) /\ Len(c.nodes) = Len(b.nodes) + 1
<1>1. add_op(b, op, t, x, y) = add_ternary_op(b, op, t, x, y, NoOperand)
  BY DEF add_op, add_ternary_op
<1>2. ASSUME NEW z
      PROVE  LET c == add_ternary_op(b, op, t, x, y, z).gb IN IsBuilder(c) /\ Len(c.nodes) = Len(b.nodes) + 1
  BY OpLength
<1>. QED
  BY <1>1, <1>2, Zenon

(* The names of operands are in both tables.                               *)
LEMMA OperandKnown ==
  ASSUME NEW b, NEW ins, NEW names, NEW env, KnownNames(names, env, b, ins), NEW operands, Known(operands, names),
         NEW x \in operands
  PROVE  /\ names[x.name].tid \in FheType /\ names[x.name].tid = env[x.name].t
         /\ Encrypts(b, ins, names[x.name].node, env[x.name])
BY Zenon DEF KnownNames, Known

LEMMA RejectedIsNotOk == \A b : ~Rejected(b).ok
BY DEF Rejected

LEMMA EmittedFields ==
  ASSUME NEW call, NEW t
  PROVE  /\ Emitted(call, t).ok /\ Emitted(call, t).gb = call.gb /\ Emitted(call, t).node = call.index
         /\ Emitted(call, t).tid = t
BY DEF Emitted

LEMMA TypesOfMeanings ==
  ASSUME NEW x, NEW y, NEW op, NEW n, NEW t
  PROVE  /\ OnLanes(op, x, y).t = x.t /\ EachLane(op, x).t = x.t /\ MeaningOfLiteral(op, x, n).t = x.t
         /\ Number(t, n).t = t /\ Repeated(t, n).t = t
BY DEF OnLanes, EachLane, MeaningOfLiteral, Number, Repeated

LEMMA PathCompiled ==
  ASSUME NEW b, NEW ins, GraphOK(b, Len(ins)), NEW names, NEW env, KnownNames(names, env, b, ins), NEW e,
         e.kind = "Path", CompilePath(e, names, b).ok
  PROVE  Compiled(b, CompilePath(e, names, b), Meaning(e, env), ins)
<1>. DEFINE r == CompilePath(e, names, b)
<1>1. Known({e}, names)
  BY RejectedIsNotOk, Zenon DEF CompilePath
<1>2. r = [ok |-> TRUE, gb |-> b, node |-> names[e.name].node, tid |-> names[e.name].tid]
  BY <1>1 DEF CompilePath
<1>. HIDE DEF r
<1>3. r.gb = b /\ r.node = names[e.name].node /\ r.tid = names[e.name].tid
  BY <1>2
<1>4. Meaning(e, env) = env[e.name]
  BY DEF Meaning
<1>5. names[e.name].tid \in FheType /\ names[e.name].tid = env[e.name].t /\ Encrypts(b, ins, names[e.name].node, env[e.name])
  BY <1>1, OperandKnown
<1>6. Grown(b, b, ins)
  BY GrownItself
<1>. QED
  BY <1>3, <1>4, <1>5, <1>6, Zenon DEF Compiled, r

(* The expressions, one kind after another.                                *)
LEMMA UnaryOperatorCompiled ==
  ASSUME NEW b, NEW ins, GraphOK(b, Len(ins)), NEW names, NEW env, KnownNames(names, env, b, ins), NEW e,
         e.kind = "Unary", CompileUnary(e, names, b).ok, Len(CompileUnary(e, names, b).gb.nodes) <= NoOperand
  PROVE  Compiled(b, CompileUnary(e, names, b), Meaning(e, env), ins)
<1>. DEFINE a    == names[e.operand.name]
            x    == env[e.operand.name]
            call == add_op(b, unop[e.op], a.tid, a.node, NoOperand)
<1>1. Known({e.operand}, names) /\ e.op \in DOMAIN unop
  BY RejectedIsNotOk, Zenon DEF CompileUnary
<1>2. CompileUnary(e, names, b) = Emitted(call, a.tid)
  BY <1>1, Zenon DEF CompileUnary
<1>3. a.tid \in FheType /\ a.tid = x.t /\ Encrypts(b, ins, a.node, x)
  BY <1>1, OperandKnown
<1>4. Meaning(e, env) = EachLane(e.op, x)
  BY DEF Meaning
<1>5. IsBuilder(b) /\ Len(b.nodes) \in Nat
  BY DEF GraphOK, IsBuilder, IsSeq
<1>6. Len(b.nodes) < NoOperand
  <2>1. Len(call.gb.nodes) = Len(b.nodes) + 1
    BY <1>5, OperationLength
  <2>2. CompileUnary(e, names, b).gb = call.gb
    <3>. HIDE DEF call, a
    <3>1. Emitted(call, a.tid).gb = call.gb
      BY EmittedFields
    <3>. QED
      BY <1>2, <3>1
  <2>. HIDE DEF call, a
  <2>. QED
    BY <1>5, <2>1, <2>2 DEF NoOperand
<1>7. EngineComputesMeanings(Encryptions) =>
        \A p : <<p, x>> \in Encryptions => <<unary_op(unop[e.op], p, a.tid), EachLane(e.op, x)>> \in Encryptions
  BY <1>1, <1>3, EngineUnary, Zenon
<1>8. EachLane(e.op, x).t = a.tid
  BY <1>3, TypesOfMeanings
<1>. HIDE DEF a, x
<1>9. ASSUME NEW u, u.t = a.tid,
             EngineComputesMeanings(Encryptions) =>
               \A p : <<p, x>> \in Encryptions => <<unary_op(unop[e.op], p, a.tid), u>> \in Encryptions
      PROVE  Compiled(b, Emitted(call, a.tid), u, ins)
  BY <1>3, <1>6, <1>9, UnaryCompiled
<1>. HIDE DEF call
<1>. QED
  BY <1>2, <1>4, <1>7, <1>8, <1>9, Zenon

(* Room for a node more: the graph it is in is within the bound.           *)
LEMMA RoomForOperation ==
  ASSUME NEW b, NEW ins, GraphOK(b, Len(ins)), NEW op, NEW t, NEW x, NEW y, NEW r,
         r = Emitted(add_op(b, op, t, x, y), t), Len(r.gb.nodes) <= NoOperand
  PROVE  Len(b.nodes) < NoOperand
<1>. DEFINE call == add_op(b, op, t, x, y)
<1>1. IsBuilder(b) /\ Len(b.nodes) \in Nat
  BY DEF GraphOK, IsBuilder, IsSeq
<1>2. Len(call.gb.nodes) = Len(b.nodes) + 1
  BY <1>1, OperationLength
<1>. HIDE DEF call
<1>3. r.gb = call.gb
  BY EmittedFields DEF call
<1>. QED
  BY <1>1, <1>2, <1>3 DEF NoOperand

LEMMA RoomForTernary ==
  ASSUME NEW b, NEW ins, GraphOK(b, Len(ins)), NEW op, NEW t, NEW x, NEW y, NEW z, NEW r,
         r = Emitted(add_ternary_op(b, op, t, x, y, z), t), Len(r.gb.nodes) <= NoOperand
  PROVE  Len(b.nodes) < NoOperand
<1>. DEFINE call == add_ternary_op(b, op, t, x, y, z)
<1>1. IsBuilder(b) /\ Len(b.nodes) \in Nat
  BY DEF GraphOK, IsBuilder, IsSeq
<1>2. Len(call.gb.nodes) = Len(b.nodes) + 1
  BY <1>1, OpLength
<1>. HIDE DEF call
<1>3. r.gb = call.gb
  BY EmittedFields DEF call
<1>. QED
  BY <1>1, <1>2, <1>3 DEF NoOperand

LEMMA RoomAfterLiteral ==
  ASSUME NEW b, NEW ins, GraphOK(b, Len(ins)), NEW s, NEW data, IsSeq(data), NEW op, NEW t, NEW x, NEW y, NEW r,
         r = Emitted(add_op(add_constant_bytes(b, s, data).gb, op, t, x, y), t), Len(r.gb.nodes) <= NoOperand
  PROVE  Len(add_constant_bytes(b, s, data).gb.nodes) < NoOperand
<1>. DEFINE c    == add_constant_bytes(b, s, data).gb
            call == add_op(c, op, t, x, y)
<1>1. IsBuilder(b) /\ Len(b.nodes) \in Nat
  BY DEF GraphOK, IsBuilder, IsSeq
<1>2. IsBuilder(c) /\ Len(b.nodes) <= Len(c.nodes)
  BY <1>1, ConstantLength
<1>. HIDE DEF c
<1>3. Len(call.gb.nodes) = Len(c.nodes) + 1
  BY <1>2, OperationLength
<1>4. r = Emitted(call, t)
  BY DEF c
<1>. HIDE DEF call
<1>5. r.gb = call.gb
  BY <1>4, EmittedFields
<1>6. Len(c.nodes) \in Nat
  BY <1>2 DEF IsBuilder, IsSeq
<1>7. Len(c.nodes) < NoOperand
  BY <1>1, <1>2, <1>3, <1>5, <1>6 DEF NoOperand
<1>. QED
  BY <1>7 DEF c

LEMMA LiteralsElement ==
  ASSUME NEW t \in FheType
  PROVE  /\ scalar_element_tid(t) \in FheType
         /\ (IF is_vector(t) THEN scalar_element_tid(t) ELSE t) = scalar_element_tid(t)
BY DEF scalar_element_tid, scalar_element_type, is_vector, FheType

LEMMA LiteralOperatorCompiled ==
  ASSUME NEW b, NEW ins, GraphOK(b, Len(ins)), NEW names, NEW env, KnownNames(names, env, b, ins), NEW e,
         e.kind = "Binary", e.right.kind = "Lit", e.right.value \in Literals,
         TakesLiteral(e.op, env[e.left.name], e.right.value),
         CompileBinary(e, names, b).ok, Len(CompileBinary(e, names, b).gb.nodes) <= NoOperand
  PROVE  Compiled(b, CompileBinary(e, names, b), Meaning(e, env), ins)
<1>. DEFINE a     == names[e.left.name]
            x     == env[e.left.name]
            s     == scalar_element_tid(a.tid)
            data  == u128_to_bytes(e.right.value, byte_width[s])
            const == add_constant_bytes(b, s, data)
            op    == maybe_scalar_op(binop[e.op], a.tid, s)
            call  == add_op(const.gb, op, a.tid, a.node, const.index)
            r     == CompileBinary(e, names, b)
<1>1. Known({e.left}, names) /\ e.op \in DOMAIN binop
  BY RejectedIsNotOk, Zenon DEF CompileBinary
<1>2. a.tid \in FheType /\ a.tid = x.t /\ Encrypts(b, ins, a.node, x)
  BY <1>1, OperandKnown
<1>3. s \in FheType /\ (IF is_vector(a.tid) THEN scalar_element_tid(a.tid) ELSE a.tid) = s
  BY <1>2, LiteralsElement
<1>4. CompileRight(e.right, a, names, b) = Emitted(const, s)
  BY <1>3, Zenon DEF CompileRight, add_constant
<1>5. /\ Emitted(const, s).ok /\ Emitted(const, s).gb = const.gb /\ Emitted(const, s).node = const.index
      /\ Emitted(const, s).tid = s
  <2>. HIDE DEF const, s
  <2>. QED
    BY EmittedFields
<1>6. r = Emitted(call, a.tid)
  BY <1>1, <1>4, <1>5, Zenon DEF CompileBinary
<1>7. IsSeq(data) /\ Len(data) = byte_width[s]
  BY <1>3, BytesOfNumber
<1>8. Meaning(e, env) = MeaningOfLiteral(e.op, x, e.right.value)
  BY DEF Meaning
<1>9. MeaningOfLiteral(e.op, x, e.right.value).t = a.tid
  BY <1>2, TypesOfMeanings
<1>10. data = u128_to_bytes(e.right.value, byte_width[scalar_element_tid(x.t)]) /\ s = scalar_element_tid(x.t)
  BY <1>2
<1>11. EngineComputesMeanings(Encryptions) =>
         \A p : <<p, x>> \in Encryptions =>
           <<binary_op(op, p, encode_constant_bytes(s, data), a.tid), MeaningOfLiteral(e.op, x, e.right.value)>>
             \in Encryptions
  BY <1>1, <1>2, <1>10, EngineLiteral, Zenon DEF LiteralDigest
<1>12. Len(r.gb.nodes) <= NoOperand
  OBVIOUS
<1>. HIDE DEF a, x, s, data, op, r
<1>13. Len(const.gb.nodes) < NoOperand
  BY <1>6, <1>7, <1>12, RoomAfterLiteral
<1>14. ASSUME NEW u, u.t = a.tid, LiteralComputes(op, x, s, data, a.tid, u)
       PROVE  Compiled(b, Emitted(call, a.tid), u, ins)
  BY <1>2, <1>3, <1>7, <1>13, <1>14, LiteralCompiled
<1>. HIDE DEF call
<1>. QED
  BY <1>6, <1>8, <1>9, <1>11, <1>14, Zenon DEF r, LiteralComputes

LEMMA OperatorCompiled ==
  ASSUME NEW b, NEW ins, GraphOK(b, Len(ins)), NEW names, NEW env, KnownNames(names, env, b, ins), NEW e,
         e.kind = "Binary", e.right.kind = "Path", TakesOperator(e.op, env[e.left.name], env[e.right.name]),
         CompileBinary(e, names, b).ok, Len(CompileBinary(e, names, b).gb.nodes) <= NoOperand
  PROVE  Compiled(b, CompileBinary(e, names, b), Meaning(e, env), ins)
<1>. DEFINE a    == names[e.left.name]
            x    == env[e.left.name]
            c    == names[e.right.name]
            y    == env[e.right.name]
            path == CompilePath(e.right, names, b)
            op   == maybe_scalar_op(binop[e.op], a.tid, c.tid)
            call == add_op(b, op, a.tid, a.node, c.node)
            r    == CompileBinary(e, names, b)
<1>1. Known({e.left}, names) /\ e.op \in DOMAIN binop
  BY RejectedIsNotOk, Zenon DEF CompileBinary
<1>2. CompileRight(e.right, a, names, b) = path
  BY DEF CompileRight
<1>3. path.ok
  BY <1>1, <1>2, RejectedIsNotOk, Zenon DEF CompileBinary
<1>4. Known({e.right}, names)
  BY <1>3, RejectedIsNotOk, Zenon DEF CompilePath
<1>5. path = [ok |-> TRUE, gb |-> b, node |-> c.node, tid |-> c.tid]
  BY <1>4 DEF CompilePath
<1>6. path.gb = b /\ path.node = c.node /\ path.tid = c.tid
  <2>. HIDE DEF path
  <2>. QED
    BY <1>5
<1>7. r = Emitted(call, a.tid)
  BY <1>1, <1>2, <1>3, <1>6, Zenon DEF CompileBinary
<1>8. a.tid \in FheType /\ a.tid = x.t /\ Encrypts(b, ins, a.node, x)
  BY <1>1, OperandKnown
<1>9. c.tid = y.t /\ Encrypts(b, ins, c.node, y)
  BY <1>4, OperandKnown
<1>10. Meaning(e, env) = OnLanes(e.op, x, y)
  BY DEF Meaning
<1>11. OnLanes(e.op, x, y).t = a.tid
  BY <1>8, TypesOfMeanings
<1>12. EngineComputesMeanings(Encryptions) =>
         \A p, q : <<p, x>> \in Encryptions /\ <<q, y>> \in Encryptions
                     => <<binary_op(op, p, q, a.tid), OnLanes(e.op, x, y)>> \in Encryptions
  BY <1>1, <1>8, <1>9, EngineOperator, Zenon
<1>13. Len(r.gb.nodes) <= NoOperand
  OBVIOUS
<1>. HIDE DEF a, x, c, y, op, r
<1>14. Len(b.nodes) < NoOperand
  BY <1>7, <1>13, RoomForOperation
<1>15. ASSUME NEW u, u.t = a.tid,
              EngineComputesMeanings(Encryptions) =>
                \A p, q : <<p, x>> \in Encryptions /\ <<q, y>> \in Encryptions
                            => <<binary_op(op, p, q, a.tid), u>> \in Encryptions
       PROVE  Compiled(b, Emitted(call, a.tid), u, ins)
  BY <1>8, <1>9, <1>14, <1>15, BinaryCompiled
<1>. HIDE DEF call
<1>. QED
  BY <1>7, <1>10, <1>11, <1>12, <1>15, Zenon DEF r

LEMMA IfCompiled ==
  ASSUME NEW b, NEW ins, GraphOK(b, Len(ins)), NEW names, NEW env, KnownNames(names, env, b, ins), NEW e,
         e.kind = "If", ~is_vector(env[e.cond.name].t), env[e.then.name].t = env[e.else.name].t,
         CompileIf(e, names, b).ok, Len(CompileIf(e, names, b).gb.nodes) <= NoOperand
  PROVE  Compiled(b, CompileIf(e, names, b), Meaning(e, env), ins)
<1>. DEFINE a    == names[e.cond.name]
            x    == env[e.cond.name]
            c    == names[e.then.name]
            y    == env[e.then.name]
            d    == names[e.else.name]
            z    == env[e.else.name]
            call == add_ternary_op(b, "Select", c.tid, a.node, c.node, d.node)
            r    == CompileIf(e, names, b)
<1>1. Known({e.cond, e.then, e.else}, names)
  BY RejectedIsNotOk, Zenon DEF CompileIf
<1>2. r = Emitted(call, c.tid)
  BY <1>1, Zenon DEF CompileIf
<1>3. Encrypts(b, ins, a.node, x)
  BY <1>1, OperandKnown
<1>4. c.tid \in FheType /\ c.tid = y.t /\ Encrypts(b, ins, c.node, y)
  BY <1>1, OperandKnown
<1>5. Encrypts(b, ins, d.node, z)
  BY <1>1, OperandKnown
<1>6. Meaning(e, env) = Chosen(x, y, z)
  BY DEF Meaning
<1>7. y.t = z.t /\ ~is_vector(x.t)
  OBVIOUS
<1>8. Len(r.gb.nodes) <= NoOperand
  OBVIOUS
<1>. HIDE DEF a, x, c, y, d, z, r
<1>9. Chosen(x, y, z).t = c.tid
  BY <1>4, <1>7 DEF Chosen
<1>10. <<y, z>>[1] = y /\ <<y, z>>[2] = z /\ Len(<<y, z>>) = 2
  OBVIOUS
<1>11. TakesMethod("select", x, <<y, z>>)
  BY <1>7, <1>10, Zenon DEF TakesMethod
<1>12. MeaningOfMethod("select", x, <<y, z>>) = Chosen(x, y, z)
  BY <1>10, Zenon DEF MeaningOfMethod
<1>13. EngineComputesMeanings(Encryptions) =>
         \A p, q, s : <<p, x>> \in Encryptions /\ <<q, y>> \in Encryptions /\ <<s, z>> \in Encryptions
                        => <<ternary_op("Select", p, q, s, c.tid), Chosen(x, y, z)>> \in Encryptions
  BY <1>4, <1>7, <1>11, <1>12, EngineSelect
<1>14. Len(b.nodes) < NoOperand
  BY <1>2, <1>8, RoomForTernary
<1>15. ASSUME NEW u, u.t = c.tid,
              EngineComputesMeanings(Encryptions) =>
                \A p, q, s : <<p, x>> \in Encryptions /\ <<q, y>> \in Encryptions /\ <<s, z>> \in Encryptions
                               => <<ternary_op("Select", p, q, s, c.tid), u>> \in Encryptions
       PROVE  Compiled(b, Emitted(call, c.tid), u, ins)
  BY <1>3, <1>4, <1>5, <1>14, <1>15, TernaryCompiled
<1>. HIDE DEF call
<1>. QED
  BY <1>2, <1>6, <1>9, <1>13, <1>15, Zenon DEF r

LEMMA ConstantBytesOfCall ==
  ASSUME NEW t \in FheType, NEW constructor, NEW arg \in Constant, TakesConstant(t, constructor, arg)
  PROVE  IsSeq(ConstantBytes(t, constructor, arg)) /\ Len(ConstantBytes(t, constructor, arg)) = byte_width[t]
<1>1. CASE arg.kind = "Array"
  <2>1. arg.values \in Arrays /\ Len(arg.values) = byte_width[t]
    BY <1>1 DEF Constant, TakesConstant
  <2>2. arg.values \in Seq(0 .. Byte - 1)
    BY <2>1, LiteralsAssumption
  <2>3. ConstantBytes(t, constructor, arg) = arg.values
    BY <1>1 DEF ConstantBytes
  <2>. QED
    BY <2>1, <2>2, <2>3, SeqIsSeq, Zenon
<1>2. CASE arg.kind # "Array" /\ constructor = "splat" /\ is_arithmetic_vector(t)
  <2>. DEFINE f == [i \in 1 .. Elems |-> u128_to_bytes(arg.value, byte_width[scalar_element_type(t)])[1]]
  <2>1. ConstantBytes(t, constructor, arg) = f
    BY <1>2, Zenon DEF ConstantBytes
  <2>2. Elems \in Nat /\ byte_width[t] = Elems
    BY <1>2 DEF is_arithmetic_vector, byte_width, Elems
  <2>3. f = [i \in 1 .. Elems |-> f[i]]
    OBVIOUS
  <2>. HIDE DEF f
  <2>. QED
    BY <2>1, <2>2, <2>3, TableIsSeq
<1>3. CASE arg.kind # "Array" /\ ~(constructor = "splat" /\ is_arithmetic_vector(t))
  <2>1. ConstantBytes(t, constructor, arg) = u128_to_bytes(arg.value, byte_width[t])
    BY <1>3, Zenon DEF ConstantBytes
  <2>. QED
    BY <2>1, BytesOfNumber
<1>. QED
  BY <1>1, <1>2, <1>3

LEMMA CallCompiled ==
  ASSUME NEW b, NEW ins, GraphOK(b, Len(ins)), NEW names, NEW env, KnownNames(names, env, b, ins), NEW e,
         e.kind = "Call", e.type \in FheType, e.arg \in Operand \cup Constant,
         IF e.method = "into" THEN ~is_vector(e.type) /\ ~is_vector(env[e.arg.name].t)
         ELSE TakesConstant(e.type, e.method, e.arg),
         CompileCall(e, names, b).ok, Len(CompileCall(e, names, b).gb.nodes) <= NoOperand
  PROVE  Compiled(b, CompileCall(e, names, b), Meaning(e, env), ins)
<1>. DEFINE r     == CompileCall(e, names, b)
            t     == e.type
            const == \/ e.method \in {"from", "splat"} /\ e.arg.kind = "Lit"
                     \/ e.method = "from" /\ e.arg.kind = "Array"
                     \/ e.method = "from_elements" /\ e.arg.kind = "Array" /\ is_arithmetic_vector(e.type)
<1>1. CASE const
  <2>. DEFINE data == ConstantBytes(e.type, e.method, e.arg)
              call == add_constant_bytes(b, t, data)
  <2>1. e.method # "into" /\ e.method \in {"from", "from_elements", "splat"} /\ e.arg.kind \in {"Lit", "Array"}
    BY <1>1
  <2>2. TakesConstant(t, e.method, e.arg)
    BY <2>1
  <2>3. e.arg \in Constant
    BY <2>1 DEF Operand
  <2>4. r = Emitted(call, t)
    BY <1>1, Zenon DEF CompileCall
  <2>5. Meaning(e, env) = MeaningOfConstant(t, e.method, e.arg)
    BY <2>1 DEF Meaning
  <2>6. MeaningOfConstant(t, e.method, e.arg).t = t
    BY TypesOfMeanings DEF MeaningOfConstant
  <2>7. IsSeq(data) /\ Len(data) = byte_width[t]
    BY <2>2, <2>3, ConstantBytesOfCall
  <2>8. EngineComputesMeanings(Encryptions) => <<encode_constant_bytes(t, data), MeaningOfConstant(t, e.method, e.arg)>> \in Encryptions
    BY <2>1, <2>2, <2>3, EngineConstant, Zenon
  <2>9. Len(r.gb.nodes) <= NoOperand /\ t \in FheType
    OBVIOUS
  <2>. HIDE DEF r, t, data
  <2>10. r.gb = call.gb
    <3>. HIDE DEF call
    <3>. QED
      BY <2>4, EmittedFields
  <2>11. Len(call.gb.nodes) <= NoOperand
    <3>. HIDE DEF call
    <3>. QED
      BY <2>9, <2>10
  <2>12. ASSUME NEW u, u.t = t, EngineComputesMeanings(Encryptions) => <<encode_constant_bytes(t, data), u>> \in Encryptions
         PROVE  Compiled(b, Emitted(call, t), u, ins)
    BY <2>7, <2>9, <2>11, <2>12, ConstantCompiled
  <2>. HIDE DEF call
  <2>. QED
    BY <2>4, <2>5, <2>6, <2>8, <2>12, Zenon DEF r
<1>2. CASE ~const
  <2>. DEFINE a    == names[e.arg.name]
              x    == env[e.arg.name]
              call == add_op(b, "Into", t, a.node, NoOperand)
  <2>1. e.method = "into" /\ Known({e.arg}, names)
    BY <1>2, RejectedIsNotOk, Zenon DEF CompileCall
  <2>2. r = Emitted(call, t)
    BY <1>2, <2>1, Zenon DEF CompileCall
  <2>3. Encrypts(b, ins, a.node, x)
    BY <2>1, OperandKnown
  <2>4. ~is_vector(t) /\ ~is_vector(x.t)
    BY <2>1
  <2>5. Meaning(e, env) = Number(t, x.v[1])
    BY <2>1 DEF Meaning
  <2>6. Number(t, x.v[1]).t = t
    BY TypesOfMeanings
  <2>7. Len(r.gb.nodes) <= NoOperand /\ t \in FheType
    OBVIOUS
  <2>. HIDE DEF r, t, a, x
  <2>8. Len(b.nodes) < NoOperand
    BY <2>2, <2>7, RoomForOperation
  <2>9. EngineComputesMeanings(Encryptions) =>
          \A p : <<p, x>> \in Encryptions => <<unary_op("Into", p, t), Number(t, x.v[1])>> \in Encryptions
    BY <2>4, <2>7, EngineInto, Zenon
  <2>10. ASSUME NEW u, u.t = t,
                EngineComputesMeanings(Encryptions) =>
                  \A p : <<p, x>> \in Encryptions => <<unary_op("Into", p, t), u>> \in Encryptions
         PROVE  Compiled(b, Emitted(call, t), u, ins)
    BY <2>3, <2>7, <2>8, <2>10, UnaryCompiled
  <2>. HIDE DEF call
  <2>. QED
    BY <2>2, <2>5, <2>6, <2>9, <2>10, Zenon DEF r
<1>. QED
  BY <1>1, <1>2

(* A method's arguments, as the documented meaning takes them.             *)
Arguments(e, env) == [i \in DOMAIN e.args |-> env[e.args[i].name]]

LEMMA NoArguments ==
  ASSUME NEW e, NEW env, e.args \in Seq(Operand), Arguments(e, env) = <<>>
  PROVE  e.args = <<>>
<1>1. DOMAIN Arguments(e, env) = DOMAIN e.args
  BY DEF Arguments
<1>2. DOMAIN e.args = {}
  BY <1>1
<1>. QED
  BY <1>2, EmptySeq

LEMMA LengthOfArguments ==
  ASSUME NEW e, NEW env, e.args \in Seq(Operand)
  PROVE  Len(Arguments(e, env)) = Len(e.args)
<1>. DEFINE n == Len(e.args)
            f == Arguments(e, env)
<1>1. n \in Nat /\ DOMAIN e.args = 1 .. n
  BY LenProperties
<1>2. f = [i \in 1 .. n |-> f[i]]
  BY <1>1 DEF Arguments
<1>. HIDE DEF f
<1>3. Len(f) = n
  BY <1>1, <1>2, TableIsSeq
<1>. QED
  BY <1>3 DEF f

LEMMA OneArgument ==
  ASSUME NEW e, NEW env, e.args \in Seq(Operand), Len(Arguments(e, env)) = 1
  PROVE  Arguments(e, env) = <<env[e.args[1].name]>> /\ e.args # <<>>
<1>1. Len(e.args) = 1
  BY LengthOfArguments
<1>2. DOMAIN e.args = 1 .. 1
  BY <1>1, LenProperties
<1>3. Arguments(e, env) = [i \in 1 .. 1 |-> env[e.args[i].name]]
  BY <1>2, Zenon DEF Arguments
<1>4. [i \in 1 .. 1 |-> env[e.args[i].name]] = <<env[e.args[1].name]>>
  OBVIOUS
<1>. QED
  BY <1>1, <1>3, <1>4

LEMMA TwoArguments ==
  ASSUME NEW e, NEW env, e.args \in Seq(Operand), Len(Arguments(e, env)) = 2
  PROVE  Arguments(e, env) = <<env[e.args[1].name], env[e.args[2].name]>>
<1>1. Len(e.args) = 2
  BY LengthOfArguments
<1>2. DOMAIN e.args = 1 .. 2
  BY <1>1, LenProperties
<1>3. Arguments(e, env) = [i \in 1 .. 2 |-> env[e.args[i].name]]
  BY <1>2, Zenon DEF Arguments
<1>4. [i \in 1 .. 2 |-> env[e.args[i].name]] = <<env[e.args[1].name], env[e.args[2].name]>>
  OBVIOUS
<1>. QED
  BY <1>3, <1>4

UnaryNames == {"negate", "not", "bootstrap", "thin_bootstrap", "pack_into", "extract_lsbs", "extract_msbs", "to_boolean"}

BinaryNames ==
  {"add", "subtract", "multiply", "divide", "modulo", "min", "max", "xor", "and", "or", "nor", "nand", "shift_left",
   "shift_right", "rotate_left", "rotate_right", "is_less_than", "is_equal", "is_not_equal", "is_greater_than",
   "is_greater_or_equal", "is_less_or_equal", "gather", "scatter", "copy", "get"}

LEMMA MethodTables ==
  /\ UnaryNames \cup BinaryNames \cup {"assign", "assign_scalars", "select_scalar"} \subseteq DOMAIN method_op
  /\ "select" \notin DOMAIN method_op
BY DEF UnaryNames, BinaryNames, method_op

LEMMA UnaryMethodCompiled ==
  ASSUME NEW b, NEW ins, GraphOK(b, Len(ins)), NEW names, NEW env, KnownNames(names, env, b, ins), NEW e,
         e.method \in UnaryNames, NEW u, u = MeaningOfMethod(e.method, env[e.receiver.name], <<>>),
         TakesMethod(e.method, env[e.receiver.name], <<>>),
         NEW r, r = CompileUnaryMethod(e, names, b), r.ok, Len(r.gb.nodes) <= NoOperand
  PROVE  Compiled(b, r, u, ins)
<1>. DEFINE a    == names[e.receiver.name]
            x    == env[e.receiver.name]
            t    == IF e.method = "to_boolean" THEN "EBool" ELSE a.tid
            m    == e.method
            call == add_op(b, method_op[m], t, a.node, NoOperand)
<1>1. Known({e.receiver}, names)
  BY RejectedIsNotOk, Zenon DEF CompileUnaryMethod
<1>2. r = Emitted(call, t)
  BY <1>1, Zenon DEF CompileUnaryMethod
<1>3. a.tid \in FheType /\ a.tid = x.t /\ Encrypts(b, ins, a.node, x)
  BY <1>1, OperandKnown
<1>4. t \in FheType
  BY <1>3 DEF FheType
<1>5. m \in DOMAIN method_op /\ t = (IF m = "to_boolean" THEN "EBool" ELSE x.t)
  BY <1>3, MethodTables
<1>6. u = MeaningOfMethod(m, x, <<>>) /\ TakesMethod(m, x, <<>>) /\ m \in UnaryNames
  OBVIOUS
<1>7. EngineComputesMeanings(Encryptions) =>
        \A p : <<p, x>> \in Encryptions => <<unary_op(method_op[m], p, t), u>> \in Encryptions
  <2>. HIDE DEF m, x, t, a
  <2>. QED
    BY <1>5, <1>6, EngineUnaryMethod, Zenon
<1>. HIDE DEF a, x, t, m
<1>8. u.t = t
  <2>1. CASE m = "to_boolean"
    <3>1. u = [t |-> "EBool", v |-> [i \in {1} |-> LaneUnary("to_boolean", x.v[1], Width(x.t))]]
      BY <1>6, <2>1 DEF MeaningOfMethod
    <3>. QED
      BY <1>5, <2>1, <3>1
  <2>2. CASE m # "to_boolean"
    <3>1. u = EachLane(m, x)
      BY <1>6, <2>2 DEF MeaningOfMethod, UnaryNames
    <3>2. EachLane(m, x).t = x.t
      BY TypesOfMeanings
    <3>. QED
      BY <1>5, <2>2, <3>1, <3>2, Zenon
  <2>. QED
    BY <2>1, <2>2
<1>9. Len(b.nodes) < NoOperand
  BY <1>2, RoomForOperation
<1>. QED
  BY <1>2, <1>3, <1>4, <1>7, <1>8, <1>9, UnaryCompiled

LEMMA BinaryMethodCompiled ==
  ASSUME NEW b, NEW ins, GraphOK(b, Len(ins)), NEW names, NEW env, KnownNames(names, env, b, ins), NEW e,
         e.method \in BinaryNames,
         NEW u, u = MeaningOfMethod(e.method, env[e.receiver.name], <<env[e.args[1].name]>>),
         TakesMethod(e.method, env[e.receiver.name], <<env[e.args[1].name]>>),
         NEW r, r = CompileBinaryMethod(e, names, b), r.ok, Len(r.gb.nodes) <= NoOperand
  PROVE  Compiled(b, r, u, ins)
<1>. DEFINE a    == names[e.receiver.name]
            x    == env[e.receiver.name]
            c    == names[e.args[1].name]
            y    == env[e.args[1].name]
            m    == e.method
            op   == maybe_scalar_op(method_op[m], a.tid, c.tid)
            call == add_op(b, op, a.tid, a.node, c.node)
<1>1. Known({e.receiver, e.args[1]}, names)
  BY RejectedIsNotOk, Zenon DEF CompileBinaryMethod
<1>2. r = Emitted(call, a.tid)
  BY <1>1, Zenon DEF CompileBinaryMethod
<1>3. a.tid \in FheType /\ a.tid = x.t /\ Encrypts(b, ins, a.node, x)
  BY <1>1, OperandKnown
<1>4. c.tid = y.t /\ Encrypts(b, ins, c.node, y)
  BY <1>1, OperandKnown
<1>5. m \in DOMAIN method_op
  BY MethodTables
<1>6. u = MeaningOfMethod(m, x, <<y>>) /\ TakesMethod(m, x, <<y>>) /\ m \in BinaryNames
  OBVIOUS
<1>. HIDE DEF a, x, c, y, m
<1>7. EngineComputesMeanings(Encryptions) =>
        \A p, q : <<p, x>> \in Encryptions /\ <<q, y>> \in Encryptions => <<binary_op(op, p, q, a.tid), u>> \in Encryptions
  BY <1>3, <1>4, <1>5, <1>6, EngineBinaryMethod, Zenon
<1>8. u.t = a.tid
  <2>1. CASE m \in {"gather", "scatter", "copy", "get"}
    <3>1. u = [t |-> x.t, v |-> OnVector(m, x.v, <<y>>)]
      BY <1>6, <2>1 DEF MeaningOfMethod
    <3>. QED
      BY <1>3, <3>1
  <2>2. CASE m \notin {"gather", "scatter", "copy", "get"}
    <3>1. <<y>> # <<>> /\ <<y>>[1] = y
      OBVIOUS
    <3>2. u = OnLanes(m, x, y)
      BY <1>6, <2>2, <3>1 DEF MeaningOfMethod, BinaryNames
    <3>. QED
      BY <1>3, <3>2, TypesOfMeanings
  <2>. QED
    BY <2>1, <2>2
<1>. HIDE DEF op
<1>9. Len(b.nodes) < NoOperand
  BY <1>2, RoomForOperation
<1>. QED
  BY <1>2, <1>3, <1>4, <1>7, <1>8, <1>9, BinaryCompiled

(* The engine makes an encryption of u of encryptions of x, y and z.       *)
TernaryComputes(op, x, y, z, t, u) ==
  EngineComputesMeanings(Encryptions) =>
    \A p, q, s : <<p, x>> \in Encryptions /\ <<q, y>> \in Encryptions /\ <<s, z>> \in Encryptions
                   => <<ternary_op(op, p, q, s, t), u>> \in Encryptions

LEMMA TernaryMethodCompiled ==
  ASSUME NEW b, NEW ins, GraphOK(b, Len(ins)), NEW names, NEW env, KnownNames(names, env, b, ins), NEW e,
         NEW op, NEW u, NEW r, r.ok, Len(r.gb.nodes) <= NoOperand,
         NEW x, x = env[e.receiver.name], NEW y, y = env[e.args[1].name], NEW z, z = env[e.args[2].name], NEW t, u.t = t,
         \/ r = CompileTernary(e, names, b, op, TRUE) /\ t = x.t
         \/ r = CompileTernary(e, names, b, op, FALSE) /\ t = y.t,
         TernaryComputes(op, x, y, z, t, u)
  PROVE  Compiled(b, r, u, ins)
<1>. DEFINE a    == names[e.receiver.name]
            c    == names[e.args[1].name]
            d    == names[e.args[2].name]
            call == add_ternary_op(b, op, t, a.node, c.node, d.node)
<1>1. Len(e.args) = 2 /\ Known({e.receiver, e.args[1], e.args[2]}, names)
  BY RejectedIsNotOk, Zenon DEF CompileTernary
<1>2. a.tid \in FheType /\ a.tid = x.t /\ Encrypts(b, ins, a.node, x)
  BY <1>1, OperandKnown
<1>3. c.tid \in FheType /\ c.tid = y.t /\ Encrypts(b, ins, c.node, y)
  BY <1>1, OperandKnown
<1>4. Encrypts(b, ins, d.node, z)
  BY <1>1, OperandKnown
<1>5. t \in FheType
  BY <1>2, <1>3
<1>6. r = Emitted(call, t)
  <2>1. CASE r = CompileTernary(e, names, b, op, TRUE) /\ t = x.t
    <3>1. t = a.tid
      BY <1>2, <2>1
    <3>. QED
      BY <1>1, <2>1, <3>1, Zenon DEF CompileTernary
  <2>2. CASE r = CompileTernary(e, names, b, op, FALSE) /\ t = y.t
    <3>1. t = c.tid
      BY <1>3, <2>2
    <3>. QED
      BY <1>1, <2>2, <3>1, Zenon DEF CompileTernary
  <2>. QED
    BY <2>1, <2>2
<1>. HIDE DEF a, c, d
<1>7. Len(b.nodes) < NoOperand
  BY <1>6, RoomForTernary
<1>8. ASSUME NEW i, Encrypts(b, ins, i, x), NEW j, Encrypts(b, ins, j, y), NEW k, Encrypts(b, ins, k, z)
      PROVE  Compiled(b, Emitted(add_ternary_op(b, op, t, i, j, k), t), u, ins)
  BY <1>5, <1>7, <1>8, TernaryCompiled DEF TernaryComputes
<1>. QED
  BY <1>2, <1>3, <1>4, <1>6, <1>8, Zenon

LEMMA MethodsTaken ==
  ASSUME NEW m, NEW a, NEW args, TakesMethod(m, a, args)
  PROVE  \/ m \in UnaryNames /\ args = <<>>
         \/ m \in BinaryNames /\ Len(args) = 1
         \/ m = "select" /\ Len(args) = 2 /\ args[1].t = args[2].t
         \/ /\ m \in {"assign", "assign_scalars", "select_scalar"} /\ Len(args) = 2
            /\ a.t = "EUint8Vector" /\ args[1].t = "EUint8Vector" /\ args[2].t = "EUint8Vector"
BY DEF TakesMethod, UnaryNames, BinaryNames

LEMMA MethodCompiled ==
  ASSUME NEW b, NEW ins, GraphOK(b, Len(ins)), NEW names, NEW env, KnownNames(names, env, b, ins), NEW e,
         e.args \in Seq(Operand), TakesMethod(e.method, env[e.receiver.name], Arguments(e, env)),
         NEW u, u = MeaningOfMethod(e.method, env[e.receiver.name], Arguments(e, env)),
         NEW r, r = CompileMethodCall(e, names, b), r.ok, Len(r.gb.nodes) <= NoOperand
  PROVE  Compiled(b, r, u, ins)
<1>. DEFINE x    == env[e.receiver.name]
            y    == env[e.args[1].name]
            z    == env[e.args[2].name]
            args == Arguments(e, env)
            m    == e.method
<1>1. \/ m \in UnaryNames /\ args = <<>>
      \/ m \in BinaryNames /\ Len(args) = 1
      \/ m = "select" /\ Len(args) = 2 /\ args[1].t = args[2].t
      \/ /\ m \in {"assign", "assign_scalars", "select_scalar"} /\ Len(args) = 2
         /\ x.t = "EUint8Vector" /\ args[1].t = "EUint8Vector" /\ args[2].t = "EUint8Vector"
  BY MethodsTaken, Zenon
<1>2. CASE m \in UnaryNames /\ args = <<>>
  <2>1. e.args = <<>>
    BY <1>2, NoArguments
  <2>2. m \in DOMAIN method_op
    BY <1>2, MethodTables
  <2>3. r = CompileUnaryMethod(e, names, b)
    BY <1>2, <2>1, <2>2 DEF CompileMethodCall, UnaryNames
  <2>4. u = MeaningOfMethod(m, x, <<>>) /\ TakesMethod(m, x, <<>>)
    BY <1>2
  <2>. QED
    BY <1>2, <2>3, <2>4, UnaryMethodCompiled
<1>3. CASE m \in BinaryNames /\ Len(args) = 1
  <2>1. args = <<y>> /\ e.args # <<>>
    BY <1>3, OneArgument
  <2>2. m \in DOMAIN method_op
    BY <1>3, MethodTables
  <2>3. r = CompileBinaryMethod(e, names, b)
    BY <1>3, <2>1, <2>2 DEF CompileMethodCall, BinaryNames
  <2>4. u = MeaningOfMethod(m, x, <<y>>) /\ TakesMethod(m, x, <<y>>)
    BY <2>1
  <2>. QED
    BY <1>3, <2>3, <2>4, BinaryMethodCompiled
<1>4. CASE m = "select" /\ Len(args) = 2 /\ args[1].t = args[2].t
  <2>1. args = <<y, z>>
    BY <1>4, TwoArguments
  <2>2. r = CompileTernary(e, names, b, "Select", FALSE)
    BY <1>4 DEF CompileMethodCall
  <2>3. u = MeaningOfMethod("select", x, <<y, z>>) /\ TakesMethod("select", x, <<y, z>>)
    BY <1>4, <2>1
  <2>4. <<y, z>>[1] = y /\ <<y, z>>[2] = z
    OBVIOUS
  <2>5. y.t = z.t
    BY <1>4, <2>1, <2>4, Zenon
  <2>6. u = Chosen(x, y, z)
    BY <2>3, <2>4, Zenon DEF MeaningOfMethod
  <2>7. Known({e.receiver, e.args[1], e.args[2]}, names)
    BY <2>2, RejectedIsNotOk, Zenon DEF CompileTernary
  <2>8. y.t \in FheType
    BY <2>7, OperandKnown
  <2>. HIDE DEF x, y, z, m, args
  <2>9. u.t = y.t
    BY <2>5, <2>6 DEF Chosen
  <2>10. TernaryComputes("Select", x, y, z, y.t, u)
    BY <2>3, <2>5, <2>8, EngineSelect, Zenon DEF TernaryComputes
  <2>11. x = env[e.receiver.name] /\ y = env[e.args[1].name] /\ z = env[e.args[2].name]
    BY DEF x, y, z
  <2>. QED
    BY <2>2, <2>9, <2>10, <2>11, TernaryMethodCompiled
<1>5. CASE /\ m \in {"assign", "assign_scalars", "select_scalar"} /\ Len(args) = 2
           /\ x.t = "EUint8Vector" /\ args[1].t = "EUint8Vector" /\ args[2].t = "EUint8Vector"
  <2>. DEFINE t == IF m \in {"assign", "assign_scalars"} THEN x.t ELSE y.t
  <2>1. args = <<y, z>>
    BY <1>5, TwoArguments
  <2>2. \/ r = CompileTernary(e, names, b, method_op[m], TRUE) /\ t = x.t
        \/ r = CompileTernary(e, names, b, method_op[m], FALSE) /\ t = y.t
    <3>1. CASE m \in {"assign", "assign_scalars"}
      BY <3>1 DEF CompileMethodCall
    <3>2. CASE m = "select_scalar"
      BY <3>2 DEF CompileMethodCall
    <3>. QED
      BY <1>5, <3>1, <3>2
  <2>3. u = MeaningOfMethod(m, x, <<y, z>>) /\ TakesMethod(m, x, <<y, z>>)
    BY <2>1
  <2>4. <<y, z>>[1] = y /\ <<y, z>>[2] = z
    OBVIOUS
  <2>5. y.t = "EUint8Vector" /\ z.t = "EUint8Vector" /\ x.t = "EUint8Vector"
    BY <1>5, <2>1, <2>4, Zenon
  <2>. HIDE DEF x, y, z, m, args
  <2>6. u.t = "EUint8Vector"
    <3>1. CASE m = "select_scalar"
      <4>1. u = [t |-> y.t, v |-> [i \in Lanes(y.t) |-> IF x.v[i] # 0 THEN y.v[i] ELSE z.v[i]]]
        BY <2>3, <2>4, <3>1, Zenon DEF MeaningOfMethod
      <4>. QED
        BY <2>5, <4>1
    <3>2. CASE m \in {"assign", "assign_scalars"}
      <4>1. u = [t |-> x.t, v |-> OnVector(m, x.v, <<y, z>>)]
        BY <2>3, <3>2 DEF MeaningOfMethod
      <4>. QED
        BY <2>5, <4>1
    <3>. QED
      BY <1>5, <3>1, <3>2
  <2>7. TernaryComputes(method_op[m], x, y, z, t, u)
    BY <1>5, <2>3, <2>5, EngineOnVectors, Zenon DEF TernaryComputes
  <2>8. u.t = t
    BY <2>5, <2>6
  <2>. HIDE DEF t
  <2>9. x = env[e.receiver.name] /\ y = env[e.args[1].name] /\ z = env[e.args[2].name]
    BY DEF x, y, z
  <2>. QED
    BY <2>2, <2>7, <2>8, <2>9, TernaryMethodCompiled
<1>. QED
  BY <1>1, <1>2, <1>3, <1>4, <1>5

LEMMA SyntaxOfKinds ==
  ASSUME NEW e \in Syntax
  PROVE  /\ e.kind \in {"Path", "MethodCall", "Binary", "Unary", "If", "Call"}
         /\ e.kind = "MethodCall" => e.args \in Seq(Operand)
         /\ e.kind = "Binary" => e.right \in Operand \cup Constant
         /\ e.kind = "Call" => e.type \in FheType /\ e.arg \in Operand \cup Constant
BY DEF Syntax, Operand

(* Whatever the expression, its code computes its meaning.                 *)
LEMMA ExpressionCompiled ==
  ASSUME NEW b, NEW ins, GraphOK(b, Len(ins)), NEW names, NEW env, KnownNames(names, env, b, ins), NEW e,
         Documented(e, env), NEW r, r = expr(e, names, b), r.ok, Len(r.gb.nodes) <= NoOperand
  PROVE  Compiled(b, r, Meaning(e, env), ins)
<1>1. /\ e.kind \in {"Path", "MethodCall", "Binary", "Unary", "If", "Call"}
      /\ e.kind = "MethodCall" => e.args \in Seq(Operand)
      /\ e.kind = "Binary" => e.right \in Operand \cup Constant
      /\ e.kind = "Call" => e.type \in FheType /\ e.arg \in Operand \cup Constant
  BY SyntaxOfKinds DEF Documented
<1>2. CASE e.kind = "Path"
  <2>1. r = CompilePath(e, names, b)
    BY <1>2 DEF expr
  <2>. QED
    BY <1>2, <2>1, PathCompiled
<1>3. CASE e.kind = "MethodCall"
  <2>1. r = CompileMethodCall(e, names, b)
    BY <1>3 DEF expr
  <2>2. TakesMethod(e.method, env[e.receiver.name], Arguments(e, env))
    BY <1>3, Zenon DEF Documented, Arguments
  <2>3. Meaning(e, env) = MeaningOfMethod(e.method, env[e.receiver.name], Arguments(e, env))
    BY <1>3 DEF Meaning, Arguments
  <2>4. ASSUME NEW u, u = MeaningOfMethod(e.method, env[e.receiver.name], Arguments(e, env))
        PROVE  Compiled(b, r, u, ins)
    BY <1>1, <1>3, <2>1, <2>2, <2>4, MethodCompiled
  <2>. QED
    BY <2>3, <2>4, Zenon
<1>4. CASE e.kind = "Binary"
  <2>1. r = CompileBinary(e, names, b)
    BY <1>4 DEF expr
  <2>2. CASE e.right.kind = "Lit"
    <3>1. TakesLiteral(e.op, env[e.left.name], e.right.value)
      BY <1>4, <2>2, Zenon DEF Documented
    <3>2. e.right.value \in Literals
      BY <1>1, <1>4, <2>2 DEF Operand, Constant
    <3>. QED
      BY <1>4, <2>1, <2>2, <3>1, <3>2, LiteralOperatorCompiled
  <2>3. CASE e.right.kind # "Lit"
    <3>1. e.right.kind = "Path" /\ TakesOperator(e.op, env[e.left.name], env[e.right.name])
      BY <1>4, <2>3, Zenon DEF Documented
    <3>. QED
      BY <1>4, <2>1, <3>1, OperatorCompiled
  <2>. QED
    BY <2>2, <2>3
<1>5. CASE e.kind = "Unary"
  <2>1. r = CompileUnary(e, names, b)
    BY <1>5 DEF expr
  <2>. QED
    BY <1>5, <2>1, UnaryOperatorCompiled
<1>6. CASE e.kind = "If"
  <2>1. r = CompileIf(e, names, b)
    BY <1>6 DEF expr
  <2>2. ~is_vector(env[e.cond.name].t) /\ env[e.then.name].t = env[e.else.name].t
    BY <1>6, Zenon DEF Documented
  <2>. QED
    BY <1>6, <2>1, <2>2, IfCompiled
<1>7. CASE e.kind = "Call"
  <2>1. r = CompileCall(e, names, b)
    BY <1>7 DEF expr
  <2>2. IF e.method = "into" THEN ~is_vector(e.type) /\ ~is_vector(env[e.arg.name].t)
        ELSE TakesConstant(e.type, e.method, e.arg)
    BY <1>7, Zenon DEF Documented
  <2>. QED
    BY <1>1, <1>7, <2>1, <2>2, CallCompiled
<1>. QED
  BY <1>1, <1>2, <1>3, <1>4, <1>5, <1>6, <1>7

(* The graph an expression leaves is a builder's, whatever its length.     *)
LEMMA EmittedBuilders ==
  ASSUME NEW b, IsBuilder(b), NEW op, NEW t, NEW x, NEW y, NEW z
  PROVE  /\ IsBuilder(Emitted(add_op(b, op, t, x, y), t).gb)
         /\ IsBuilder(Emitted(add_ternary_op(b, op, t, x, y, z), t).gb)
         /\ IsBuilder(Rejected(b).gb)
<1>1. IsBuilder(add_op(b, op, t, x, y).gb)
  BY OperationLength
<1>2. IsBuilder(add_ternary_op(b, op, t, x, y, z).gb)
  BY OpLength
<1>3. \A call : Emitted(call, t).gb = call.gb
  BY EmittedFields
<1>4. Rejected(b).gb = b
  BY DEF Rejected
<1>. QED
  BY <1>1, <1>2, <1>3, <1>4, Zenon

LEMMA MethodBuilder ==
  ASSUME NEW b, IsBuilder(b), NEW names, NEW e
  PROVE  IsBuilder(CompileMethodCall(e, names, b).gb)
<1>1. IsBuilder(Rejected(b).gb)
  BY EmittedBuilders
<1>2. IsBuilder(CompileUnaryMethod(e, names, b).gb)
  BY EmittedBuilders, Zenon DEF CompileUnaryMethod
<1>3. IsBuilder(CompileBinaryMethod(e, names, b).gb)
  BY EmittedBuilders, Zenon DEF CompileBinaryMethod
<1>4. ASSUME NEW op, NEW f PROVE IsBuilder(CompileTernary(e, names, b, op, f).gb)
  BY EmittedBuilders, Zenon DEF CompileTernary
<1>5. \/ CompileMethodCall(e, names, b) = CompileTernary(e, names, b, "Select", FALSE)
      \/ CompileMethodCall(e, names, b) = CompileTernary(e, names, b, method_op[e.method], FALSE)
      \/ CompileMethodCall(e, names, b) = CompileTernary(e, names, b, method_op[e.method], TRUE)
      \/ CompileMethodCall(e, names, b) = CompileUnaryMethod(e, names, b)
      \/ CompileMethodCall(e, names, b) = CompileBinaryMethod(e, names, b)
      \/ CompileMethodCall(e, names, b) = Rejected(b)
  BY DEF CompileMethodCall
<1>. QED
  BY <1>1, <1>2, <1>3, <1>4, <1>5, Zenon

LEMMA BinaryBuilder ==
  ASSUME NEW b, NEW ins, IsBuilder(b), NEW names, NEW env, KnownNames(names, env, b, ins), NEW e
  PROVE  IsBuilder(CompileBinary(e, names, b).gb)
<1>. DEFINE a     == names[e.left.name]
            right == CompileRight(e.right, a, names, b)
            op    == maybe_scalar_op(binop[e.op], a.tid, right.tid)
<1>1. IsBuilder(Rejected(b).gb)
  BY EmittedBuilders
<1>2. ASSUME Known({e.left}, names)
      PROVE  IsBuilder(right.gb)
  <2>1. a.tid \in FheType
    BY <1>2, OperandKnown
  <2>2. CASE e.right.kind = "Lit"
    <3>. DEFINE s     == scalar_element_tid(a.tid)
                data  == u128_to_bytes(e.right.value, byte_width[s])
                const == add_constant_bytes(b, s, data)
    <3>1. s \in FheType /\ (IF is_vector(a.tid) THEN scalar_element_tid(a.tid) ELSE a.tid) = s
      BY <2>1, LiteralsElement
    <3>2. right = Emitted(const, s)
      BY <2>2, <3>1, Zenon DEF CompileRight, add_constant
    <3>3. IsSeq(data)
      BY <3>1, BytesOfNumber
    <3>4. IsBuilder(const.gb)
      BY <3>3, ConstantLength
    <3>5. Emitted(const, s).gb = const.gb
      <4>. HIDE DEF const, s
      <4>. QED
        BY EmittedFields
    <3>. QED
      BY <3>2, <3>4, <3>5, Zenon
  <2>3. CASE e.right.kind # "Lit"
    <3>1. right = CompilePath(e.right, names, b)
      BY <2>3 DEF CompileRight
    <3>2. CompilePath(e.right, names, b).gb = b
      BY DEF CompilePath, Rejected
    <3>. QED
      BY <3>1, <3>2, Zenon
  <2>. QED
    BY <2>2, <2>3
<1>3. \/ CompileBinary(e, names, b) = Rejected(b)
      \/ /\ Known({e.left}, names)
         /\ CompileBinary(e, names, b) = Emitted(add_op(right.gb, op, a.tid, a.node, right.node), a.tid)
  BY Zenon DEF CompileBinary
<1>4. \A c, o, t, x, y : IsBuilder(c) => IsBuilder(Emitted(add_op(c, o, t, x, y), t).gb)
  BY EmittedBuilders
<1>. HIDE DEF right, op, a
<1>. QED
  BY <1>1, <1>2, <1>3, <1>4, Zenon

LEMMA CallBuilder ==
  ASSUME NEW b, IsBuilder(b), NEW names, NEW e, e.type \in FheType, e.arg \in Operand \cup Constant,
         e.method = "into" \/ TakesConstant(e.type, e.method, e.arg)
  PROVE  IsBuilder(CompileCall(e, names, b).gb)
<1>. DEFINE const == \/ e.method \in {"from", "splat"} /\ e.arg.kind = "Lit"
                     \/ e.method = "from" /\ e.arg.kind = "Array"
                     \/ e.method = "from_elements" /\ e.arg.kind = "Array" /\ is_arithmetic_vector(e.type)
            data  == ConstantBytes(e.type, e.method, e.arg)
            call  == add_constant_bytes(b, e.type, data)
<1>1. CASE const
  <2>1. e.arg \in Constant /\ TakesConstant(e.type, e.method, e.arg)
    BY <1>1 DEF Operand
  <2>2. IsSeq(data)
    BY <2>1, ConstantBytesOfCall
  <2>3. IsBuilder(call.gb)
    BY <2>2, ConstantLength
  <2>4. CompileCall(e, names, b) = Emitted(call, e.type)
    BY <1>1, Zenon DEF CompileCall
  <2>5. Emitted(call, e.type).gb = call.gb
    <3>. HIDE DEF call
    <3>. QED
      BY EmittedFields
  <2>. QED
    BY <2>3, <2>4, <2>5, Zenon
<1>2. CASE ~const
  BY <1>2, EmittedBuilders, Zenon DEF CompileCall
<1>. QED
  BY <1>1, <1>2

LEMMA ExpressionBuilder ==
  ASSUME NEW b, NEW ins, IsBuilder(b), NEW names, NEW env, KnownNames(names, env, b, ins), NEW e, Documented(e, env)
  PROVE  IsBuilder(expr(e, names, b).gb)
<1>1. /\ e.kind \in {"Path", "MethodCall", "Binary", "Unary", "If", "Call"}
      /\ e.kind = "Call" => e.type \in FheType /\ e.arg \in Operand \cup Constant
  BY SyntaxOfKinds DEF Documented
<1>2. CASE e.kind = "Path"
  <2>1. expr(e, names, b) = CompilePath(e, names, b)
    BY <1>2 DEF expr
  <2>2. CompilePath(e, names, b).gb = b
    BY DEF CompilePath, Rejected
  <2>. QED
    BY <2>1, <2>2, Zenon
<1>3. CASE e.kind = "MethodCall"
  <2>1. expr(e, names, b) = CompileMethodCall(e, names, b)
    BY <1>3 DEF expr
  <2>. QED
    BY <2>1, MethodBuilder, Zenon
<1>4. CASE e.kind = "Binary"
  <2>1. expr(e, names, b) = CompileBinary(e, names, b)
    BY <1>4 DEF expr
  <2>2. IsBuilder(CompileBinary(e, names, b).gb)
    BY BinaryBuilder
  <2>. QED
    BY <2>1, <2>2, Zenon
<1>5. CASE e.kind = "Unary"
  <2>1. expr(e, names, b) = CompileUnary(e, names, b)
    BY <1>5 DEF expr
  <2>. QED
    BY <2>1, EmittedBuilders, Zenon DEF CompileUnary
<1>6. CASE e.kind = "If"
  <2>1. expr(e, names, b) = CompileIf(e, names, b)
    BY <1>6 DEF expr
  <2>. QED
    BY <2>1, EmittedBuilders, Zenon DEF CompileIf
<1>7. CASE e.kind = "Call"
  <2>1. expr(e, names, b) = CompileCall(e, names, b)
    BY <1>7 DEF expr
  <2>2. e.method = "into" \/ TakesConstant(e.type, e.method, e.arg)
    BY <1>7, Zenon DEF Documented
  <2>3. IsBuilder(CompileCall(e, names, b).gb)
    BY <1>1, <1>7, <2>2, CallBuilder
  <2>. QED
    BY <2>1, <2>3, Zenon
<1>. QED
  BY <1>1, <1>2, <1>3, <1>4, <1>5, <1>6, <1>7

-----------------------------------------------------------------------------
(* The inductive invariant.                                                *)

(* What the graph's outputs are encryptions of.                            *)
OutputsMean(b, ins, values) ==
  Fit(b) => /\ Len(OutputsOf(b, ins)) = Len(values)
            /\ EngineComputesMeanings(Encryptions) => \A i \in 1 .. Len(values) : <<OutputsOf(b, ins)[i], values[i]>> \in Encryptions

IInv ==
  /\ params \in Params
  /\ IsSeq(inputs) /\ Len(inputs) <= Len(params)
  /\ GraphOK(gb, Len(inputs))
  /\ ~InBody => Len(gb.nodes) = Len(inputs) /\ expected = <<>>
  /\ KnownNames(vars, meaning, gb, inputs)
  /\ IsSeq(expected) /\ OutputsMean(gb, inputs, expected)

(* A builder without nodes.                                                *)
LEMMA NewBuilderOK == GraphOK(NewBuilder, 0) /\ Len(NewBuilder.nodes) = 0
<1>. DEFINE b == Record(<<>>, <<>>, 0, 0, 0, 0, 0)
<1>1. NewBuilder = b
  BY DEF NewBuilder, Record
<1>2. IsSeq(<<>>) /\ Len(<<>>) = 0
  BY EmptyIsSeq
<1>3. IsBuilder(b)
  BY <1>2, RecordIsBuilder
<1>4. b.nodes = <<>> /\ b.constants = <<>> /\ b.num_inputs = 0
  BY DEF Record
<1>5. \A kind : KindsOf(b, kind) = {}
  BY <1>2, <1>4 DEF KindsOf
<1>6. \A kind \in Kinds : Counter(b, kind) = 0
  BY DEF Counter, Record, Kinds
<1>7. Counts(b)
  BY <1>5, <1>6, FS_EmptySet DEF Counts
<1>8. num_nodes(serialize(b)) = 0
  BY SumOfCounters, <1>6 DEF Kinds
<1>9. Fit(b) /\ InRange(b) /\ Shared(b)
  BY <1>2, <1>4, <1>5, WordAssumption DEF Fit, InRange, Shared
<1>. HIDE DEF b
<1>10. GraphOK(b, 0)
  BY <1>2, <1>3, <1>4, <1>7, <1>8, <1>9 DEF GraphOK, Sections, NoOperand
<1>. QED
  BY <1>1, <1>2, <1>4, <1>10, Zenon

LEMMA ParamsAreSequences ==
  ASSUME NEW ps \in Params
  PROVE  /\ Len(ps) \in Nat /\ Len(ps) <= MaxNodes
         /\ \A i \in 1 .. Len(ps) : ps[i].type \in FheType /\ ps[i].plaintext \in BOOLEAN
<1>1. ps \in Seq([name : STRING, type : FheType, plaintext : BOOLEAN]) /\ Len(ps) <= MaxNodes
  BY SpaceAssumption
<1>. DEFINE P == [name : STRING, type : FheType, plaintext : BOOLEAN]
<1>2. Len(ps) \in Nat /\ \A i \in 1 .. Len(ps) : ps[i] \in P
  <2>. HIDE DEF P
  <2>. QED
    BY <1>1, LenProperties, ElementOfSeq DEF P
<1>. QED
  BY <1>1, <1>2

LEMMA InitIInv == Init => IInv
<1>. SUFFICES ASSUME Init PROVE IInv
  OBVIOUS
<1>1. params \in Params /\ vars = <<>> /\ gb = NewBuilder /\ inputs = <<>> /\ meaning = <<>> /\ expected = <<>>
  BY DEF Init
<1>2. IsSeq(<<>>) /\ Len(<<>>) = 0 /\ DOMAIN <<>> = {}
  BY EmptyIsSeq
<1>3. Len(params) \in Nat
  BY <1>1, ParamsAreSequences
<1>4. GraphOK(gb, Len(inputs)) /\ Len(gb.nodes) = Len(inputs)
  BY <1>1, <1>2, NewBuilderOK
<1>5. KnownNames(vars, meaning, gb, inputs)
  BY <1>1, <1>2 DEF KnownNames
<1>6. Fit(gb) => Len(OutputsOf(gb, inputs)) = 0
  BY <1>4, InputsOnly
<1>7. OutputsMean(gb, inputs, expected)
  BY <1>1, <1>2, <1>6 DEF OutputsMean
<1>. QED
  BY <1>1, <1>2, <1>3, <1>4, <1>5, <1>7 DEF IInv

(* A parameter's input is one more digest, and every node is an input.     *)
ParamAdded(b, ins, c, longer, digest) ==
  /\ GraphOK(c, Len(longer)) /\ Len(c.nodes) = Len(longer) /\ Len(longer) = Len(ins) + 1
  /\ \A index, x : Encrypts(b, ins, index, x) => Encrypts(c, longer, index, x)
  /\ Fit(c) => DigestOf(c, longer, Len(ins)) = digest /\ Len(OutputsOf(c, longer)) = 0

LEMMA ParamKeeps ==
  ASSUME NEW b, NEW ins, IsSeq(ins), GraphOK(b, Len(ins)), Len(b.nodes) = Len(ins), Len(b.nodes) < NoOperand,
         NEW p, p.type \in FheType, p.plaintext \in BOOLEAN, NEW digest,
         NEW c, c = ParamCall(b, p).gb, NEW longer, longer = Append(ins, digest)
  PROVE  ParamAdded(b, ins, c, longer, digest)
<1>1. IsBuilder(b) /\ Len(ins) \in Nat
  BY DEF GraphOK, IsBuilder, IsSeq
<1>2. /\ GraphOK(c, Len(ins) + 1) /\ Adds(b, ParamCall(b, p), ParamNode(p)) /\ c.constants = b.constants
  BY InputGraph
<1>3. /\ IsSeq(longer) /\ Len(longer) = Len(ins) + 1 /\ longer[Len(ins) + 1] = digest
      /\ \A i \in 1 .. Len(ins) : longer[i] = ins[i]
  BY Appended
<1>4. Len(c.nodes) = Len(ins) + 1
  <2>. DEFINE node == ParamNode(p)
  <2>1. Pushes(b, c, node)
    BY <1>2 DEF Adds
  <2>. HIDE DEF node
  <2>. QED
    BY <1>1, <2>1, PushedNodes
<1>5. GraphOK(c, Len(longer)) /\ Len(c.nodes) = Len(longer)
  BY <1>2, <1>3, <1>4, Zenon
<1>6. Fit(c) <=> Fit(b)
  BY <1>2 DEF Fit
<1>7. Fit(c) => (\A j \in 0 .. Len(c.nodes) - 1 : DigestOf(c, longer, j) = longer[j + 1]) /\ Len(OutputsOf(c, longer)) = 0
  BY <1>5, InputsOnly
<1>8. Fit(b) => \A j \in 0 .. Len(b.nodes) - 1 : DigestOf(b, ins, j) = ins[j + 1]
  BY InputsOnly
<1>9. ASSUME NEW index, NEW x, Encrypts(b, ins, index, x)
      PROVE  Encrypts(c, longer, index, x)
  <2>1. index \in 0 .. Len(b.nodes) - 1
    BY <1>9 DEF Encrypts
  <2>2. index \in 0 .. Len(c.nodes) - 1 /\ index + 1 \in 1 .. Len(ins)
    BY <1>1, <1>4, <2>1
  <2>3. Fit(c) => DigestOf(c, longer, index) = DigestOf(b, ins, index)
    BY <1>3, <1>6, <1>7, <1>8, <2>1, <2>2, Zenon
  <2>. QED
    BY <1>6, <1>9, <2>2, <2>3, Zenon DEF Encrypts
<1>10. Fit(c) => DigestOf(c, longer, Len(ins)) = digest
  <2>1. Len(ins) \in 0 .. Len(c.nodes) - 1
    BY <1>1, <1>4
  <2>. QED
    BY <1>3, <1>7, <2>1, Zenon
<1>. QED
  BY <1>3, <1>5, <1>7, <1>9, <1>10, Zenon DEF ParamAdded

LEMMA ParamIInv ==
  ASSUME IInv, Param
  PROVE  IInv'
<1>. DEFINE p == params[Len(inputs) + 1]
<1>1. PICK encryption \in Inputs(p.type) : ParamInit(p, encryption)
  BY DEF Param
<1>2. /\ Len(inputs) < Len(params) /\ params' = params /\ expected' = expected
  BY DEF Param
<1>3. /\ vars' = Bound(p.name, [node |-> Len(gb.nodes), tid |-> p.type], vars)
      /\ gb' = ParamCall(gb, p).gb
      /\ inputs' = Append(inputs, encryption[1])
      /\ meaning' = Bound(p.name, encryption[2], meaning)
  BY <1>1, Zenon DEF ParamInit, ParamCall
<1>4. /\ params \in Params /\ IsSeq(inputs) /\ GraphOK(gb, Len(inputs)) /\ KnownNames(vars, meaning, gb, inputs)
      /\ Len(gb.nodes) = Len(inputs) /\ expected = <<>>
  BY <1>2 DEF IInv, InBody, IsSeq
<1>5. Len(inputs) \in Nat /\ Len(params) \in Nat /\ Len(params) <= MaxNodes
  BY <1>4, ParamsAreSequences DEF IsSeq
<1>6. p.type \in FheType /\ p.plaintext \in BOOLEAN
  <2>1. Len(inputs) + 1 \in 1 .. Len(params)
    BY <1>2, <1>5
  <2>. QED
    BY <1>4, <2>1, ParamsAreSequences
<1>7. Len(gb.nodes) < NoOperand
  BY <1>2, <1>4, <1>5, SpaceAssumption DEF NoOperand
<1>8. encryption \in Encryptions /\ encryption[2].t = p.type /\ encryption = <<encryption[1], encryption[2]>>
  BY <1>1, <1>6, SpaceAssumption
<1>. HIDE DEF p
<1>9. /\ GraphOK(gb', Len(inputs')) /\ Len(gb'.nodes) = Len(inputs') /\ Len(inputs') = Len(inputs) + 1
      /\ \A index, x : Encrypts(gb, inputs, index, x) => Encrypts(gb', inputs', index, x)
      /\ Fit(gb') => DigestOf(gb', inputs', Len(inputs)) = encryption[1] /\ Len(OutputsOf(gb', inputs')) = 0
  <2>. DEFINE digest == encryption[1]
              longer == inputs'
              c      == gb'
  <2>1. c = ParamCall(gb, p).gb /\ longer = Append(inputs, digest)
    BY <1>3
  <2>. HIDE DEF digest, longer, c
  <2>2. ParamAdded(gb, inputs, c, longer, digest)
    BY <1>4, <1>6, <1>7, <2>1, ParamKeeps
  <2>. QED
    BY <2>2, Zenon DEF ParamAdded, digest, longer, c
<1>10. KnownNames(vars, meaning, gb', inputs')
  BY <1>4, <1>9, Zenon DEF KnownNames
<1>11. Encrypts(gb', inputs', Len(gb.nodes), encryption[2])
  <2>1. Len(gb.nodes) \in 0 .. Len(gb'.nodes) - 1
    BY <1>4, <1>5, <1>9
  <2>2. Fit(gb') => <<DigestOf(gb', inputs', Len(gb.nodes)), encryption[2]>> \in Encryptions
    BY <1>4, <1>8, <1>9, Zenon
  <2>. QED
    BY <2>1, <2>2, Zenon DEF Encrypts
<1>12. KnownNames(vars', meaning', gb', inputs')
  BY <1>3, <1>6, <1>8, <1>10, <1>11, NameBound
<1>13. IsSeq(inputs')
  BY <1>3, <1>4, Appended
<1>14. OutputsMean(gb', inputs', expected')
  BY <1>2, <1>4, <1>9, EmptyIsSeq DEF OutputsMean
<1>15. Len(inputs') <= Len(params')
  BY <1>2, <1>5, <1>9
<1>. QED
  BY <1>2, <1>4, <1>9, <1>12, <1>13, <1>14, <1>15, EmptyIsSeq, Zenon DEF IInv

(* A name is bound to the node of its expression.                          *)
LEMMA LetIInv ==
  ASSUME IInv, NEW name \in Locals, NEW e, Let(name, e)
  PROVE  IInv'
<1>. DEFINE r == expr(e, vars, gb)
            u == Meaning(e, meaning)
<1>1. /\ r.ok /\ Documented(e, meaning) /\ Counted(r.gb) /\ gb' = r.gb
      /\ vars' = Bound(name, [node |-> r.node, tid |-> r.tid], vars)
      /\ meaning' = Bound(name, u, meaning)
      /\ params' = params /\ inputs' = inputs /\ expected' = expected /\ InBody
  BY Zenon DEF Let
<1>2. GraphOK(gb, Len(inputs)) /\ KnownNames(vars, meaning, gb, inputs)
  BY DEF IInv
<1>3. Len(r.gb.nodes) <= NoOperand
  <2>. HIDE DEF r
  <2>1. IsBuilder(r.gb)
    <3>1. IsBuilder(gb)
      BY <1>2 DEF GraphOK
    <3>. QED
      BY <1>1, <1>2, <3>1, ExpressionBuilder DEF r
  <2>2. Len(r.gb.nodes) \in Nat
    BY <2>1 DEF IsBuilder, IsSeq
  <2>. QED
    BY <1>1, <2>2, SpaceAssumption DEF Counted, NoOperand
<1>4. Compiled(gb, r, u, inputs)
  BY <1>1, <1>2, <1>3, ExpressionCompiled
<1>. HIDE DEF r, u
<1>5. Grown(gb, gb', inputs) /\ r.tid \in FheType /\ u.t = r.tid /\ Encrypts(gb', inputs, r.node, u)
  BY <1>1, <1>4 DEF Compiled
<1>6. Keeps(gb, gb', inputs) /\ (Fit(gb') => OutputsOf(gb', inputs) = OutputsOf(gb, inputs))
  BY <1>5, Zenon DEF Grown
<1>7. GraphOK(gb', Len(inputs)) /\ (Fit(gb') => Fit(gb))
  BY <1>6, Zenon DEF Keeps
<1>8. KnownNames(vars, meaning, gb', inputs)
  BY <1>2, <1>6, NamesKept
<1>9. KnownNames(vars', meaning', gb', inputs)
  BY <1>1, <1>5, <1>8, NameBound
<1>10. OutputsMean(gb', inputs, expected)
  BY <1>6, <1>7, Zenon DEF IInv, OutputsMean
<1>11. InBody'
  BY <1>1 DEF InBody
<1>. QED
  BY <1>1, <1>7, <1>9, <1>10, <1>11, Zenon DEF IInv

(* An output of a node that is worth x is an encryption of x.              *)
LEMMA OutputMeans ==
  ASSUME NEW b, NEW ins, GraphOK(b, Len(ins)), Len(b.nodes) < NoOperand, NEW t \in FheType, NEW index, NEW x,
         Encrypts(b, ins, index, x), NEW values, IsSeq(values), OutputsMean(b, ins, values),
         NEW c, c = add_output(b, t, index).gb
  PROVE  Keeps(b, c, ins) /\ OutputsMean(c, ins, Append(values, x))
<1>. DEFINE d == DigestOf(b, ins, index)
            o == OutputsOf(b, ins)
            v == Append(values, x)
<1>1. index \in 0 .. Len(b.nodes) - 1
  BY DEF Encrypts
<1>2. Keeps(b, c, ins) /\ (Fit(c) => OutputsOf(c, ins) = Append(o, d))
  BY <1>1, OutputGrown
<1>. HIDE DEF d, o, v
<1>3. ASSUME Fit(c)
      PROVE  /\ Len(OutputsOf(c, ins)) = Len(v)
             /\ EngineComputesMeanings(Encryptions) => \A i \in 1 .. Len(v) : <<OutputsOf(c, ins)[i], v[i]>> \in Encryptions
  <2>1. Fit(b) /\ IsSeq(o)
    BY <1>2, <1>3, WalkOf DEF Keeps, o, OutputsOf
  <2>2. Len(o) = Len(values) /\ (EngineComputesMeanings(Encryptions) => \A i \in 1 .. Len(values) : <<o[i], values[i]>> \in Encryptions)
    BY <2>1, Zenon DEF OutputsMean, o
  <2>3. /\ Len(v) = Len(values) + 1 /\ (\A i \in 1 .. Len(values) : v[i] = values[i]) /\ v[Len(values) + 1] = x
    BY Appended DEF v
  <2>4. /\ Len(Append(o, d)) = Len(o) + 1 /\ (\A i \in 1 .. Len(o) : Append(o, d)[i] = o[i])
        /\ Append(o, d)[Len(o) + 1] = d
    BY <2>1, Appended
  <2>5. Len(values) \in Nat
    BY DEF IsSeq
  <2>6. OutputsOf(c, ins) = Append(o, d)
    BY <1>2, <1>3
  <2>7. EngineComputesMeanings(Encryptions) => <<d, x>> \in Encryptions
    BY <2>1, Zenon DEF Encrypts, d
  <2>8. ASSUME EngineComputesMeanings(Encryptions), NEW i \in 1 .. Len(v)
        PROVE  <<OutputsOf(c, ins)[i], v[i]>> \in Encryptions
    <3>1. CASE i \in 1 .. Len(values)
      BY <2>2, <2>3, <2>4, <2>6, <2>8, <3>1, Zenon
    <3>2. CASE i = Len(values) + 1
      BY <2>2, <2>3, <2>4, <2>6, <2>7, <2>8, <3>2, Zenon
    <3>. QED
      BY <2>3, <2>5, <3>1, <3>2
  <2>9. Len(OutputsOf(c, ins)) = Len(v)
    BY <2>2, <2>3, <2>4, <2>6, Zenon
  <2>. QED
    BY <2>8, <2>9
<1>4. OutputsMean(c, ins, v)
  BY <1>3, Zenon DEF OutputsMean
<1>. QED
  BY <1>2, <1>4 DEF v

LEMMA ReturnIInv ==
  ASSUME IInv, NEW e, Return(e)
  PROVE  IInv'
<1>. DEFINE r == expr(e, vars, gb)
            u == Meaning(e, meaning)
            c == r.gb
            d == add_output(c, r.tid, r.node).gb
<1>1. /\ r.ok /\ Documented(e, meaning) /\ Counted(d) /\ gb' = d /\ expected' = Append(expected, u)
      /\ params' = params /\ inputs' = inputs /\ vars' = vars /\ meaning' = meaning /\ InBody
  BY Zenon DEF Return, emit_output
<1>2. GraphOK(gb, Len(inputs)) /\ KnownNames(vars, meaning, gb, inputs) /\ IsSeq(expected)
  BY DEF IInv
<1>3. IsBuilder(c)
  <2>1. IsBuilder(gb)
    BY <1>2 DEF GraphOK
  <2>. QED
    BY <1>1, <1>2, <2>1, ExpressionBuilder
<1>4. Len(c.nodes) \in Nat /\ Len(c.nodes) < NoOperand /\ Len(c.nodes) <= NoOperand
  <2>. HIDE DEF c
  <2>1. Len(d.nodes) = Len(c.nodes) + 1
    BY <1>3, OutputLength
  <2>. HIDE DEF d
  <2>2. Len(c.nodes) \in Nat
    BY <1>3 DEF IsBuilder, IsSeq
  <2>. QED
    BY <1>1, <2>1, <2>2, SpaceAssumption DEF Counted, NoOperand
<1>5. Compiled(gb, r, u, inputs)
  BY <1>1, <1>2, <1>4, ExpressionCompiled
<1>. HIDE DEF r, u
<1>6. Grown(gb, c, inputs) /\ r.tid \in FheType /\ Encrypts(c, inputs, r.node, u)
  BY <1>5 DEF Compiled
<1>7. Keeps(gb, c, inputs) /\ (Fit(c) => OutputsOf(c, inputs) = OutputsOf(gb, inputs))
  BY <1>6, Zenon DEF Grown
<1>8. GraphOK(c, Len(inputs)) /\ (Fit(c) => Fit(gb))
  BY <1>7, Zenon DEF Keeps
<1>9. OutputsMean(c, inputs, expected)
  BY <1>7, <1>8, Zenon DEF IInv, OutputsMean
<1>10. gb' = d
  BY <1>1
<1>. HIDE DEF c
<1>11. Keeps(c, d, inputs) /\ OutputsMean(d, inputs, Append(expected, u))
  <2>1. ASSUME NEW g, g = d
        PROVE  Keeps(c, g, inputs) /\ OutputsMean(g, inputs, Append(expected, u))
    BY <1>2, <1>4, <1>6, <1>8, <1>9, <2>1, OutputMeans
  <2>. QED
    BY <2>1, Zenon
<1>. HIDE DEF d
<1>12. Keeps(gb, d, inputs)
  BY <1>2, <1>7, <1>11, KeepsTwice
<1>13. KnownNames(vars, meaning, d, inputs)
  BY <1>2, <1>12, NamesKept
<1>14. GraphOK(d, Len(inputs))
  BY <1>12 DEF Keeps
<1>15. IsSeq(expected')
  BY <1>1, <1>2, Appended
<1>16. InBody'
  BY <1>1 DEF InBody
<1>. QED
  BY <1>1, <1>11, <1>13, <1>14, <1>15, <1>16, Zenon DEF IInv

LEMMA NextIInv == IInv /\ [Next]_variables => IInv'
<1>. SUFFICES ASSUME IInv, [Next]_variables PROVE IInv'
  OBVIOUS
<1>1. CASE Param
  BY <1>1, ParamIInv
<1>2. CASE \E name \in Locals, e \in Exprs(meaning) : Let(name, e)
  BY <1>2, LetIInv
<1>3. CASE \E e \in Results(meaning) : Return(e)
  BY <1>3, ReturnIInv
<1>4. CASE UNCHANGED variables
  BY <1>4, Zenon DEF variables, IInv, InBody
<1>. QED
  BY <1>1, <1>2, <1>3, <1>4 DEF Next

LEMMA Invariance == Spec => []IInv
BY InitIInv, NextIInv, PTL DEF Spec

-----------------------------------------------------------------------------
(* What the invariant says of the graph and its outputs.                   *)

LEMMA OfIsKindsOf ==
  ASSUME IInv, NEW kind
  PROVE  Of(kind) = KindsOf(gb, kind) /\ DOMAIN gb.nodes = 1 .. Len(gb.nodes)
<1>1. gb.nodes = [i \in 1 .. Len(gb.nodes) |-> gb.nodes[i]]
  BY DEF IInv, GraphOK, IsBuilder, IsSeq
<1>2. DOMAIN gb.nodes = 1 .. Len(gb.nodes)
  BY <1>1
<1>. QED
  BY <1>2 DEF Of, KindsOf

LEMMA IInvTypeOK == IInv => TypeOK
<1>. SUFFICES ASSUME IInv PROVE TypeOK
  OBVIOUS
<1>1. GraphOK(gb, Len(inputs)) /\ KnownNames(vars, meaning, gb, inputs)
  BY DEF IInv
<1>2. Len(gb.nodes) \in Nat
  BY <1>1 DEF GraphOK, IsBuilder, IsSeq
<1>3. ASSUME NEW i \in DOMAIN gb.nodes, NEW node, node = gb.nodes[i]
      PROVE  /\ node.fhe_type \in FheType
             /\ node.kind = "Op" => \A operand \in {node.a, node.b, node.c} : operand \in (0 .. i - 2) \cup {NoOperand}
             /\ node.kind = "Output" => node.a \in 0 .. i - 2
             /\ node.kind = "Constant" => node.a \in 0 .. Word - 1
  <2>1. i \in 1 .. Len(gb.nodes)
    BY OfIsKindsOf
  <2>2. NodeOK(node, i)
    BY <1>1, <1>3, <2>1, Zenon DEF GraphOK
  <2>. QED
    BY <2>2 DEF NodeOK
<1>4. \A kind \in Kinds : Counter(gb, kind) = Cardinality(Of(kind))
  BY <1>1, OfIsKindsOf DEF GraphOK, Counts
<1>5. /\ gb.num_inputs = Cardinality(Of("Input")) /\ gb.num_plaintext_inputs = Cardinality(Of("PlaintextInput"))
      /\ gb.num_constants = Cardinality(Of("Constant")) /\ gb.num_ops = Cardinality(Of("Op"))
      /\ gb.num_outputs = Cardinality(Of("Output"))
  <2>1. /\ Counter(gb, "Input") = gb.num_inputs /\ Counter(gb, "PlaintextInput") = gb.num_plaintext_inputs
        /\ Counter(gb, "Constant") = gb.num_constants /\ Counter(gb, "Op") = gb.num_ops
        /\ Counter(gb, "Output") = gb.num_outputs
    BY DEF Counter
  <2>2. {"Input", "PlaintextInput", "Constant", "Op", "Output"} \subseteq Kinds
    BY DEF Kinds
  <2>. QED
    BY <1>4, <2>1, <2>2
<1>6. ASSUME NEW name \in DOMAIN vars
      PROVE  vars[name].node < Len(gb.nodes) /\ vars[name].tid = meaning[name].t
  <2>1. vars[name].tid = meaning[name].t /\ vars[name].node \in 0 .. Len(gb.nodes) - 1
    BY <1>1 DEF KnownNames, Encrypts
  <2>. QED
    BY <1>2, <2>1
<1>. QED
  BY <1>3, <1>5, <1>6, Zenon DEF TypeOK

LEMMA IInvOverflow == IInv => OverflowIsRefused
<1>. SUFFICES ASSUME IInv, ~ConstantsFit PROVE evaluate_graph(serialize(gb), inputs).err = "InvalidGraph"
  BY DEF OverflowIsRefused
<1>1. ~Fit(gb)
  BY DEF ConstantsFit, Fit
<1>. QED
  BY <1>1, Evaluated DEF IInv

LEMMA IInvShared == IInv => ConstantsShared
<1>. SUFFICES ASSUME IInv, ConstantsFit, NEW i \in Of("Constant"), NEW j \in Of("Constant"),
                     gb.nodes[i].fhe_type = gb.nodes[j].fhe_type,
                     SubSeq(gb.constants, gb.nodes[i].a + 1, gb.nodes[i].a + byte_width[gb.nodes[i].fhe_type])
                       = SubSeq(gb.constants, gb.nodes[j].a + 1, gb.nodes[j].a + byte_width[gb.nodes[j].fhe_type])
              PROVE  i = j
  BY Zenon DEF ConstantsShared
<1>1. Shared(gb)
  BY DEF IInv, GraphOK, Sections, ConstantsFit, Fit
<1>2. BytesAt(gb, i) = BytesAt(gb, j)
  BY Zenon DEF BytesAt, EndAt, WidthAt
<1>3. i \in KindsOf(gb, "Constant") /\ j \in KindsOf(gb, "Constant")
  BY OfIsKindsOf
<1>. QED
  BY <1>1, <1>2, <1>3 DEF Shared

LEMMA IInvOutputs == IInv => OutputsAreMeanings
<1>. DEFINE r == evaluate_graph(serialize(gb), inputs)
<1>. SUFFICES ASSUME IInv, ConstantsFit
              PROVE  /\ r.err = "none"
                     /\ Len(r.output_digests) = Len(expected)
                     /\ \A i \in DOMAIN expected : decrypt(r.output_digests[i], expected[i].t) = Plaintext(expected[i])
  BY DEF OutputsAreMeanings
<1>1. Fit(gb)
  BY DEF ConstantsFit, Fit
<1>2. r.err = "none" /\ r.output_digests = OutputsOf(gb, inputs)
  BY <1>1, Evaluated DEF IInv, OutputsOf
<1>3. /\ Len(OutputsOf(gb, inputs)) = Len(expected)
      /\ \A i \in 1 .. Len(expected) : <<OutputsOf(gb, inputs)[i], expected[i]>> \in Encryptions
  BY <1>1, EngineAssumption, Zenon DEF IInv, OutputsMean
<1>4. DOMAIN expected = 1 .. Len(expected)
  <2>1. expected = [i \in 1 .. Len(expected) |-> expected[i]]
    BY DEF IInv, IsSeq
  <2>. QED
    BY <2>1
<1>5. ASSUME NEW d, NEW x, <<d, x>> \in Encryptions
      PROVE  decrypt(d, x.t) = Plaintext(x)
  <2>1. decrypt(<<d, x>>[1], <<d, x>>[2].t) = Plaintext(<<d, x>>[2])
    BY <1>5, EngineAssumption, Zenon DEF EngineComputesMeanings
  <2>2. <<d, x>>[1] = d /\ <<d, x>>[2] = x
    OBVIOUS
  <2>. QED
    BY <2>1, <2>2, Zenon
<1>. HIDE DEF r
<1>. QED
  BY <1>2, <1>3, <1>4, <1>5, Zenon

(* The graph a function is compiled to is in topological order, with operands that are nodes before the one they are  *)
(* of, and a header that counts its nodes: push_node, the builder's functions and expr (encrypt-dsl/src/graph.rs,      *)
(* encrypt-dsl-compile/src/lib.rs) leave it so after every statement.                                                 *)
THEOREM GraphsWellFormed == Spec => []TypeOK
BY Invariance, IInvTypeOK, PTL

(* While the constants section fits in the u16 of its length, add_constant_bytes files no constant twice.             *)
THEOREM ConstantsAreShared == Spec => []ConstantsShared
BY Invariance, IInvShared, PTL

(* A graph whose constants section does not fit is refused by evaluate_graph, at every later statement too: the       *)
(* constant that made it too long stays in the graph, and the parser never hands over the bytes it ends with.         *)
THEOREM OverflowRefused == Spec => []OverflowIsRefused
BY Invariance, IInvOverflow, PTL

(* Run by evaluate_graph on encryptions of its inputs, the graph of a function gives an encryption of every value the *)
(* function returns, by the documented meaning of the language, whichever statements, constants and operations it has *)
(* and whichever of them share a constant: of the engine it takes EngineAssumption, of the rest nothing.              *)
THEOREM OutputsMeanWhatIsDocumented == Spec => []OutputsAreMeanings
BY Invariance, IInvOutputs, PTL

=============================================================================
