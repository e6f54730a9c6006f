---------------------------- MODULE MCDslCompile ----------------------------
(***************************************************************************)
(* The compiler on functions of two parameters, run on the mock engine.  A *)
(* let statement adds a literal, compares, selects, or builds a constant;  *)
(* a function that has only its parameters returns every operation of the  *)
(* language on them.  What the engine is taken to do is checked for every  *)
(* value of every type in its known encryptions.                           *)
(***************************************************************************)
EXTENDS DslCompile, MockEngine

P(name, t, plain) == [name |-> name, type |-> t, plaintext |-> plain]

MCParams ==
  {<<P("x", "EUint8", FALSE), P("y", "EUint8", FALSE)>>,
   <<P("x", "EUint16", FALSE), P("y", "EUint8", TRUE)>>,
   <<P("x", "EBool", TRUE), P("y", "EBool", FALSE)>>,
   <<P("x", "E16BitVector", FALSE), P("y", "E16BitVector", FALSE)>>,
   <<P("x", "EUint8Vector", FALSE), P("y", "EUint8Vector", TRUE)>>,
   <<P("x", "EBool", FALSE), P("y", "EUint8Vector", FALSE)>>}

\* Every value of a type.
ValuesOf(t) == {[t |-> t, v |-> v] : v \in [Lanes(t) -> 0 .. Size(t) - 1]}

\* A digest the engine makes of a value, one a selection makes, and, of a scalar, the digest of an account nobody has
\* committed to and a selection's of that one.
EncryptionsOfValue(x) ==
  {<<store_bytes(t, Plaintext(x)), x>> : t \in {x.t, "EUint64"}}
  \cup {<<digest, x>> : digest \in IF x = Number(x.t, 0) /\ ~is_vector(x.t)
                                  THEN {Uninitialized, store_bytes("EUint64", Zeros(Wide))} ELSE {}}

KnownEncryptions == UNION {UNION {EncryptionsOfValue(x) : x \in ValuesOf(t)} : t \in FheType}

MCEncryptions == KnownEncryptions

MCLiterals == 0 .. 6

MCArrays == {<<1, 2>>, <<3, 0>>}

\* An account nobody has committed to holds a scalar, of one byte here.
MCInputs(t) ==
  LET of(bytes) == {<<store_bytes(t, Plaintext(x)), x>> : x \in {y \in ValuesOf(t) : Plaintext(y) \in bytes}}
  IN  of(CASE t = "EBool"        -> {<<1>>}
           [] t = "EUint8"       -> {<<3>>}
           [] t = "EUint16"      -> {<<3, 1>>}
           [] t = "E16BitVector" -> {<<1, 2>>, <<3, 1>>}
           [] t = "EUint8Vector" -> {<<1, 0>>, <<3, 1>>})
      \cup IF t \in {"EBool", "EUint8"} THEN {<<Uninitialized, Number(t, 0)>>} ELSE {}

Scalars(env) == {a \in DOMAIN env : ~is_vector(env[a].t)}

\* Two names an operator takes: a scalar and a scalar, two values of one type, or a vector and a scalar.
Pairs(env) ==
  {p \in (DOMAIN env) \X (DOMAIN env) : is_vector(env[p[2]].t) => env[p[1]].t = env[p[2]].t}

SameType(env) == {p \in (DOMAIN env) \X (DOMAIN env) : env[p[1]].t = env[p[2]].t}

Vectors(env) == {p \in SameType(env) : env[p[1]].t = "EUint8Vector"}

\* A literal is a number; one that an EBool has no room for is left to the other types, which cut it.
Numbers(env) == {a \in DOMAIN env : env[a].t # "EBool"}

MCLocals == {"x", "z"}

\* Two let statements, or three: the second may use the first's name, as the temporary of a subexpression is used, and
\* bind the first parameter's again.
MCExprs(env) ==
  IF gb.num_ops + gb.num_constants > 2 \/ gb.num_outputs > 1 THEN {} ELSE
  {Binary(Path(a), "+", Lit(1)) : a \in (DOMAIN env) \ {"y"}}
  \cup {Binary(Path(a), "*", Lit(5)) : a \in Numbers(env) \cap {"y"}}
  \cup {Binary(Path("x"), "==", Lit(1)) : a \in Scalars(env) \cap {"x"}}
  \cup {If(Path(a), Path(p[1]), Path(p[2])) :
          a \in Scalars(env) \cap {"z"}, p \in {q \in SameType(env) : q[1] # q[2]}}
  \cup {Call("EUint16", "into", Path(a)) : a \in Scalars(env) \cap {"y"}}
  \cup {Call("EUint8Vector", "from_elements", Elements(<<1, 2>>)), Call("EUint16", "from", Lit(5))}

\* Every operator and method, on the names in scope.
Operations(env) ==
  {Binary(Path(p[1]), op, Path(p[2])) : p \in Pairs(env), op \in (DOMAIN binop) \ {"<<", ">>"}}
  \cup {Binary(Path(p[1]), op, Path(p[2])) :
          p \in {q \in Pairs(env) : is_vector(env[q[1]].t) = is_vector(env[q[2]].t)}, op \in {"<<", ">>"}}
  \cup {Binary(Path(a), op, Lit(n)) : a \in Numbers(env), op \in {"+", "&", "==", "%"}, n \in {0, 2}}
  \cup {Method(Path(p[1]), m, <<Path(p[2])>>) :
          p \in Pairs(env), m \in {"add", "subtract", "min", "max", "xor", "is_less_than"}}
  \cup {Method(Path(p[1]), m, <<Path(p[2])>>) : p \in SameType(env), m \in {"nor", "nand"}}
  \cup {Method(Path(p[1]), m, <<Path(p[2])>>) :
          p \in {q \in SameType(env) : env[q[1]].t # "EBool"}, m \in {"rotate_left", "rotate_right", "shift_left"}}
  \cup {Unary(op, Path(a)) : a \in DOMAIN env, op \in DOMAIN unop}
  \cup {Method(Path(a), m, <<>>) :
          a \in DOMAIN env, m \in {"negate", "not", "bootstrap", "thin_bootstrap", "pack_into", "extract_lsbs"}}
  \cup {Method(Path(a), "extract_msbs", <<>>) : a \in {b \in DOMAIN env : env[b].t # "EBool"}}
  \cup {Method(Path(a), "to_boolean", <<>>) : a \in Scalars(env)}
  \cup {Method(Path(a), "select", <<Path(p[1]), Path(p[2])>>) : a \in Scalars(env), p \in SameType(env)}
  \cup {Method(Path(p[1]), m, <<Path(p[2])>>) : p \in Vectors(env), m \in {"gather", "scatter", "copy", "get"}}
  \cup {Method(Path(p[1]), m, <<Path(p[2]), Path(p[1])>>) :
          p \in Vectors(env), m \in {"assign", "assign_scalars", "select_scalar"}}
  \cup {Call(t, "splat", Lit(3)) : t \in FheType \ {"EBool"}}

\* A function with local names returns them, with a literal more or a selection between them.
WithLocals(env) ==
  {Path(a) : a \in DOMAIN env}
  \cup {Binary(Path(a), "*", Lit(2)) : a \in Numbers(env) \cap {"x", "z"}}
  \cup {If(Path(a), Path(p[1]), Path(p[2])) :
          a \in Scalars(env) \cap {"z"}, p \in {q \in SameType(env) : q[1] # q[2] /\ q[1] \in Numbers(env)}}

\* One statement of every operation, or two of what has been computed, with let statements between them.
MCResults(env) ==
  IF Len(gb.nodes) = 2 THEN Operations(env) ELSE IF gb.num_outputs < 2 THEN WithLocals(env) ELSE {}

=============================================================================
