----------------------- MODULE EncryptHarness_proofs -----------------------
(***************************************************************************)
(* Proofs about EncryptHarness, for every set of ciphertexts, requests,    *)
(* graphs and mishaps.  The first half is about store, chain and what      *)
(* answers and verified outputs say; the second shows that the chunks of   *)
(* an answer belong together, whatever goes wrong, and that the harness    *)
(* implements FheService when nothing goes wrong.                          *)
(***************************************************************************)
EXTENDS EncryptHarness, WellFoundedInduction, TLAPS

-----------------------------------------------------------------------------
(* Lemmas about the serial meaning of a graph execution.                   *)

(* Every digest stands for a plaintext.                                    *)
LEMMA DecodeType == \A d \in Digest : Decode(d) \in Value
  BY ValueAssumption DEF Digest, Decode

(* No output set, nothing changed.                                         *)
LEMMA OverwriteNone ==
  ASSUME NEW view \in View, NEW outs, NEW res
  PROVE  Overwrite(view, outs, res, 0) = view
  BY DEF Overwrite, View

(* Setting one output more changes one ciphertext, and the later of two    *)
(* outputs to it wins.                                                     *)
LEMMA OverwriteNext ==
  ASSUME NEW view \in View, NEW outs \in Seq(Ciphertext), NEW res, NEW n \in Nat,
         n < Len(outs)
  PROVE  Overwrite(view, outs, res, n + 1)
           = [Overwrite(view, outs, res, n) EXCEPT ![outs[n + 1]] = Decode(res[n + 1])]
<1>. DEFINE Last(c, m, j) == outs[j] = c /\ \A k \in (j + 1)..m : outs[k] # c
            Pick(c, m) == CHOOSE j \in 1..m : Last(c, m, j)
<1>1. outs[n + 1] \in Ciphertext
  OBVIOUS
<1>2. Last(outs[n + 1], n + 1, n + 1) /\ Pick(outs[n + 1], n + 1) = n + 1
  <2>1. \A j \in 1..(n + 1) : Last(outs[n + 1], n + 1, j) <=> j = n + 1
    OBVIOUS
  <2>. QED
    BY <2>1
<1>3. \A c \in Ciphertext : c # outs[n + 1] =>
        \A j : (j \in 1..(n + 1) /\ Last(c, n + 1, j)) <=> (j \in 1..n /\ Last(c, n, j))
  OBVIOUS
<1>4. \A m \in Nat : Overwrite(view, outs, res, m) =
        [c \in Ciphertext |-> IF \E j \in 1..m : Last(c, m, j) THEN Decode(res[Pick(c, m)])
                              ELSE view[c]]
  BY DEF Overwrite
<1>5. \A c \in Ciphertext : \A i, j \in 1..n : Last(c, n, i) /\ Last(c, n, j) => i = j
  OBVIOUS
<1>. HIDE DEF Last
<1>6. ASSUME NEW c \in Ciphertext, c # outs[n + 1], \E j \in 1..n : Last(c, n, j)
      PROVE  Pick(c, n + 1) = Pick(c, n)
  <2>1. Pick(c, n) \in 1..n /\ Last(c, n, Pick(c, n))
    BY <1>6
  <2>2. Pick(c, n + 1) \in 1..n /\ Last(c, n, Pick(c, n + 1))
    BY <1>3, <1>6
  <2>. QED
    BY <1>5, <2>1, <2>2
<1>. HIDE DEF Pick
<1>7. ASSUME NEW c \in Ciphertext
      PROVE  Overwrite(view, outs, res, n + 1)[c] =
               [Overwrite(view, outs, res, n) EXCEPT ![outs[n + 1]] = Decode(res[n + 1])][c]
  <2>1. CASE c = outs[n + 1]
    <3>1. n + 1 \in 1..(n + 1) /\ n + 1 \in Nat
      OBVIOUS
    <3>2. Overwrite(view, outs, res, n + 1)[c] = Decode(res[n + 1])
      BY <3>1, <2>1, <1>1, <1>2, <1>4
    <3>. QED
      BY <3>2, <2>1, <1>1, <1>4
  <2>2. CASE c # outs[n + 1]
    <3>1. (\E j \in 1..(n + 1) : Last(c, n + 1, j)) <=> (\E j \in 1..n : Last(c, n, j))
      BY <2>2, <1>3
    <3>2. Overwrite(view, outs, res, n + 1)[c] = Overwrite(view, outs, res, n)[c]
      <4>1. Overwrite(view, outs, res, n + 1)[c] =
              IF \E j \in 1..(n + 1) : Last(c, n + 1, j) THEN Decode(res[Pick(c, n + 1)])
              ELSE view[c]
        BY <1>4, n + 1 \in Nat
      <4>2. Overwrite(view, outs, res, n)[c] =
              IF \E j \in 1..n : Last(c, n, j) THEN Decode(res[Pick(c, n)]) ELSE view[c]
        BY <1>4
      <4>. QED
        BY <4>1, <4>2, <3>1, <2>2, <1>6, Zenon
    <3>. QED
      BY <3>2, <2>2, <1>4
  <2>. QED
    BY <2>1, <2>2
<1>. QED
  BY <1>1, <1>4, <1>7, n + 1 \in Nat

(* Only the plaintexts of the results matter.                              *)
LEMMA OverwriteSame ==
  ASSUME NEW view, NEW outs, NEW n \in Nat, NEW res, NEW other,
         \A j \in 1..n : Decode(res[j]) = Decode(other[j])
  PROVE  Overwrite(view, outs, res, n) = Overwrite(view, outs, other, n)
<1>1. ASSUME NEW c \in Ciphertext
      PROVE  Overwrite(view, outs, res, n)[c] = Overwrite(view, outs, other, n)[c]
  <2>. DEFINE Last(j) == outs[j] = c /\ \A k \in (j + 1)..n : outs[k] # c
  <2>1. (\E j \in 1..n : Last(j)) => (CHOOSE j \in 1..n : Last(j)) \in 1..n
    OBVIOUS
  <2>. QED
    BY <2>1, <1>1 DEF Overwrite
<1>. QED
  BY <1>1 DEF Overwrite

(* A ciphertext that is no output keeps its plaintext.                     *)
LEMMA OverwriteOther ==
  ASSUME NEW view, NEW outs, NEW res, NEW n \in Nat, NEW c \in Ciphertext,
         \A j \in 1..n : outs[j] # c
  PROVE  Overwrite(view, outs, res, n)[c] = view[c]
  BY DEF Overwrite

(* Results that are digests give a view.                                   *)
LEMMA OverwriteType ==
  ASSUME NEW view \in View, NEW outs, NEW res, NEW n \in Nat, \A j \in 1..n : res[j] \in Digest
  PROVE  Overwrite(view, outs, res, n) \in View
<1>1. ASSUME NEW c \in Ciphertext
      PROVE  Overwrite(view, outs, res, n)[c] \in Value
  <2>. DEFINE Last(j) == outs[j] = c /\ \A k \in (j + 1)..n : outs[k] # c
  <2>1. (\E j \in 1..n : Last(j)) => (CHOOSE j \in 1..n : Last(j)) \in 1..n
    OBVIOUS
  <2>. QED
    BY <2>1, <1>1, DecodeType DEF Overwrite, View
<1>. QED
  BY <1>1 DEF Overwrite, View

(* A graph applied to digests yields digests.                              *)
LEMMA EvalType ==
  ASSUME NEW x \in Execution, NEW ds, DOMAIN ds = DOMAIN x.ins,
         ds = [i \in DOMAIN ds |-> ds[i]], \A i \in DOMAIN ds : ds[i] \in Digest
  PROVE  /\ ds \in Inputs(x.graph)
         /\ Eval(x.graph, ds) \in [DOMAIN x.outs -> Digest]
<1>1. ds \in Inputs(x.graph) /\ x.graph \in Graph
  BY DEF Execution, Inputs
<1>. QED
  BY <1>1, EvalAssumption DEF Execution

(* Applying an execution to a view gives a view.                           *)
LEMMA ApplyType ==
  ASSUME NEW x \in Execution, NEW view \in View
  PROVE  Apply(x, view) \in View
<1>. DEFINE ds == [i \in DOMAIN x.ins |-> view[x.ins[i]]]
<1>1. \A i \in DOMAIN x.ins : x.ins[i] \in Ciphertext
  BY DEF Execution
<1>2. \A i \in DOMAIN ds : ds[i] \in Digest
  BY <1>1 DEF View, Digest
<1>3. Eval(x.graph, ds) \in [DOMAIN x.outs -> Digest]
  BY <1>2, EvalType
<1>4. Len(x.outs) \in Nat /\ DOMAIN x.outs = 1..Len(x.outs)
  BY DEF Execution
<1>. QED
  BY <1>3, <1>4, OverwriteType DEF Apply

-----------------------------------------------------------------------------
(* Type correctness.  TypeOK is not inductive by itself: the next output   *)
(* of a graph exists, and a response has a request to write to, because of *)
(* what the phase of process_pending says about its locals.                *)

WorkerShape ==
  /\ phase = "idle" => execs = <<>> /\ decs = <<>>
  /\ phase # "idle" => executions = <<>> /\ decryptions = <<>>
  /\ IF phase = "commit"
     THEN /\ execs # <<>> /\ committed < Len(execs[1].outs)
          /\ DOMAIN result = DOMAIN execs[1].outs
     ELSE committed = 0
  /\ IF phase = "respond"
     THEN /\ execs = <<>> /\ decs # <<>>
          /\ store[decs[1].ct] # Null
          /\ offset < Width[decs[1].type]
     ELSE offset = 0
  /\ Len(views) = Len(Outstanding) + 1

(* Every queued decryption is for a request account of its ciphertext.     *)
Asks(d) == request[d.req] # Null /\ request[d.req].ct = d.ct

RequestShape ==
  /\ \A k \in DOMAIN decryptions : Asks(decryptions[k])
  /\ \A k \in DOMAIN decs : Asks(decs[k])

TypeInv == TypeOK /\ WorkerShape /\ RequestShape

LEMMA CurrentType == TypeInv => Current \in View
<1>. SUFFICES ASSUME TypeInv PROVE Current \in View
  OBVIOUS
<1>1. Len(Outstanding) \in Nat
  BY DEF TypeInv, TypeOK, Outstanding
<1>. QED
  BY <1>1 DEF TypeInv, TypeOK, WorkerShape, Current

LEMMA StoreViewType == TypeInv => StoreView \in View
  BY DecodeType, ValueAssumption DEF TypeInv, TypeOK, StoreView, View, Entry

LEMMA TypeInit == Init => TypeInv
  BY ValueAssumption, TypeAssumption
  DEF Init, TypeInv, TypeOK, WorkerShape, RequestShape, Outstanding, Absent, Account, Digest, View

LEMMA IntroduceType ==
  ASSUME TypeInv, NEW c \in Ciphertext, NEW v \in Value, Introduce(c, v)
  PROVE  views' \in Seq(View) /\ Len(views') = Len(views)
<1>1. views \in Seq(View) /\ views' = [i \in 1..Len(views) |-> [views[i] EXCEPT ![c] = v]]
  BY DEF TypeInv, TypeOK, Introduce
<1>2. \A i \in 1..Len(views) : [views[i] EXCEPT ![c] = v] \in View
  BY <1>1 DEF View
<1>. QED
  BY <1>1, <1>2

LEMMA RecountType ==
  ASSUME TypeInv, Recount
  PROVE  views' \in Seq(View) /\ Len(views') = Len(views)
<1>1. views \in Seq(View) /\ views' \in [1..Len(views) -> View] /\ Len(views) \in Nat
  BY DEF TypeInv, TypeOK, Recount
<1>. QED
  BY <1>1

LEMMA TypeClient == TypeInv /\ Client => TypeInv'
<1>. SUFFICES ASSUME TypeInv, Client PROVE TypeInv'
  OBVIOUS
<1>. USE DEF TypeInv
<1>1. ASSUME NEW c \in Ciphertext, NEW v \in Value, NEW t \in Type,
             CreateInput(c, v, t) \/ CreatePlaintext(c, v, t)
      PROVE  TypeInv'
  <2>1. views' \in Seq(View) /\ Len(views') = Len(views)
    BY <1>1, IntroduceType DEF CreateInput, InputTx, CreatePlaintext, PlaintextTx
  <2>2. account' \in [Ciphertext -> Account]
    <3>1. \A s \in {"pending", "verified"}, q \in Digest :
            [account EXCEPT ![c] = [status |-> s, digest |-> q, type |-> t]] \in [Ciphertext -> Account]
      BY DEF Account, TypeOK
    <3>2. v \in Digest /\ ZeroDigest \in Digest
      BY DEF Digest
    <3>. QED
      BY <1>1, <3>1, <3>2 DEF CreateInput, InputTx, CreatePlaintext, PlaintextTx
  <2>3. store' \in [Ciphertext -> Entry \cup {Null}]
    <3>1. store' = [store EXCEPT ![c] = [digest |-> v, type |-> t]]
      BY <1>1 DEF CreateInput, InputTx, CreatePlaintext, PlaintextTx
    <3>. QED
      BY <3>1 DEF Entry, Digest, TypeOK
  <2>4. UNCHANGED <<request, queue, worker>> /\ phase = "idle"
    BY <1>1 DEF CreateInput, InputTx, CreatePlaintext, PlaintextTx
  <2>. QED
    BY <2>1, <2>2, <2>3, <2>4
    DEF TypeOK, WorkerShape, RequestShape, Asks, Outstanding, queue, worker
<1>2. ASSUME NEW c \in Ciphertext, NEW t \in Type, CpiCreatePlaintext(c, t)
      PROVE  TypeInv'
  <2>1. views' \in Seq(View) /\ Len(views') = Len(views)
    BY <1>2, IntroduceType, ValueAssumption DEF CpiCreatePlaintext, PlaintextTx
  <2>2. account' \in [Ciphertext -> Account]
    BY <1>2 DEF CpiCreatePlaintext, PlaintextTx, Account, Digest, TypeOK
  <2>. QED
    BY <1>2, <2>1, <2>2
    DEF CpiCreatePlaintext, PlaintextTx, TypeOK, WorkerShape, RequestShape, Asks, Outstanding, queue, worker
<1>3. ASSUME NEW c \in Ciphertext, Register(c)
      PROVE  TypeInv'
  <2>1. store' \in [Ciphertext -> Entry \cup {Null}]
    BY <1>3 DEF Register, Entry, Account, TypeOK
  <2>2. views' \in Seq(View) /\ Len(views') = Len(views)
    BY <1>3, RecountType DEF Register, TypeOK
  <2>. QED
    BY <1>3, <2>1, <2>2
    DEF Register, TypeOK, WorkerShape, RequestShape, Asks, Outstanding, chain, queue, worker
<1>4. ASSUME NEW g \in Graph, NEW ins \in [DOMAIN g.ins -> Ciphertext],
             NEW outs \in [DOMAIN g.outs -> Ciphertext], ExecuteGraph(g, ins, outs)
      PROVE  TypeInv'
  <2>. DEFINE x == [graph |-> g, ins |-> ins, outs |-> outs]
  <2>1. x \in Execution
    <3>1. g.ins \in Seq(Type) /\ g.outs \in Seq(Type)
      BY GraphAssumption
    <3>2. ins \in Seq(Ciphertext) /\ outs \in Seq(Ciphertext)
      BY <3>1
    <3>. QED
      BY <3>2 DEF Execution
  <2>2. Apply(x, Current) \in View
    BY <2>1, ApplyType, CurrentType
  <2>3. account' \in [Ciphertext -> Account]
    <3>1. ASSUME NEW c \in Ciphertext, \E j \in DOMAIN outs : outs[j] = c
          PROVE  g.outs[CHOOSE j \in DOMAIN outs : outs[j] = c] \in Type
      <4>1. (CHOOSE j \in DOMAIN outs : outs[j] = c) \in DOMAIN g.outs
        BY <3>1
      <4>2. \A j \in DOMAIN g.outs : g.outs[j] \in Type
        BY GraphAssumption
      <4>. QED
        BY <4>1, <4>2
    <3>. QED
      BY <1>4, <3>1 DEF ExecuteGraph, GraphTx, Account, Digest, TypeOK
  <2>. HIDE DEF x
  <2>4. /\ executions' = Append(executions, x) /\ views' = Append(views, Apply(x, Current))
        /\ UNCHANGED <<request, store, decryptions, phase, execs, decs, result, committed, offset>>
        /\ phase = "idle"
    BY <1>4 DEF ExecuteGraph, GraphTx, x, worker
  <2>5. executions' \in Seq(Execution) /\ Len(executions') = Len(executions) + 1
    BY <2>1, <2>4 DEF TypeOK
  <2>6. views' \in Seq(View) /\ Len(views') = Len(views) + 1
    BY <2>2, <2>4 DEF TypeOK
  <2>. QED
    BY <2>3, <2>4, <2>5, <2>6 DEF TypeOK, WorkerShape, RequestShape, Asks, Outstanding
<1>5. ASSUME NEW r \in Request, NEW c \in Ciphertext, RequestDecryption(r, c)
      PROVE  TypeInv'
  <2>. DEFINE d == [req |-> r, ct |-> c, type |-> store[c].type]
  <2>1. d \in Decryption
    BY <1>5 DEF RequestDecryption, RequestTx, Entry, Decryption, TypeOK
  <2>2. request' \in [Request -> DecryptionRequest \cup {Null}]
    BY <1>5, TypeAssumption, ValueAssumption
    DEF RequestDecryption, RequestTx, DecryptionRequest, Account, TypeOK
  <2>3. request'[r] # Null /\ request'[r].ct = c
    BY <1>5, TypeAssumption, ValueAssumption, NullAssumption
    DEF RequestDecryption, RequestTx, DecryptionRequest, Account, TypeOK
  <2>4. \A q \in Request : q # r => request'[q] = request[q]
    BY <1>5 DEF RequestDecryption, RequestTx, TypeOK
  <2>. HIDE DEF d
  <2>5. /\ decryptions' = Append(decryptions, d)
        /\ d.req = r /\ d.ct = c
        /\ UNCHANGED <<account, store, executions, views, phase, execs, decs, result, committed, offset>>
        /\ phase = "idle" /\ request[r] = Null
    BY <1>5 DEF RequestDecryption, RequestTx, d, worker
  <2>6. /\ decryptions' \in Seq(Decryption)
        /\ \A k \in DOMAIN decryptions' : decryptions'[k] \in Decryption /\
              (decryptions'[k] = d \/ (k \in DOMAIN decryptions /\ decryptions'[k] = decryptions[k]))
    BY <2>1, <2>5 DEF TypeOK
  <2>7. ASSUME NEW k \in DOMAIN decryptions'
        PROVE  request'[decryptions'[k].req] # Null
               /\ request'[decryptions'[k].req].ct = decryptions'[k].ct
    <3>1. CASE decryptions'[k] = d
      BY <3>1, <2>3, <2>5
    <3>2. CASE k \in DOMAIN decryptions /\ decryptions'[k] = decryptions[k]
      <4>1. decryptions[k].req \in Request /\ Asks(decryptions[k])
        BY <3>2, <2>6 DEF Decryption, RequestShape
      <4>. QED
        BY <4>1, <3>2, <2>4, <2>5 DEF Asks
    <3>. QED
      BY <2>6, <3>1, <3>2
  <2>8. WorkerShape' /\ decs' = <<>>
    BY <2>5 DEF WorkerShape, Outstanding
  <2>9. RequestShape'
    BY <2>7, <2>8 DEF RequestShape, Asks
  <2>. QED
    BY <2>2, <2>5, <2>6, <2>8, <2>9 DEF TypeOK
<1>. QED
  BY <1>1, <1>2, <1>3, <1>4, <1>5 DEF Client

(* A store entry of an execution in hand.                                  *)
LEMMA HeadExecution ==
  ASSUME TypeInv, execs # <<>>
  PROVE  /\ Head(execs) = execs[1] /\ execs[1] \in Execution
         /\ execs[1].ins \in Seq(Ciphertext) /\ execs[1].outs \in Seq(Ciphertext)
         /\ execs[1].graph \in Graph
         /\ Len(execs[1].outs) \in Nat \ {0}
         /\ Tail(execs) \in Seq(Execution) /\ Len(Tail(execs)) = Len(execs) - 1
<1>1. execs \in Seq(Execution)
  BY DEF TypeInv, TypeOK
<1>2. Head(execs) = execs[1] /\ execs[1] \in Execution /\ Tail(execs) \in Seq(Execution)
      /\ Len(Tail(execs)) = Len(execs) - 1
  BY <1>1
<1>3. execs[1].graph \in Graph /\ execs[1].ins \in Seq(Ciphertext) /\ execs[1].outs \in Seq(Ciphertext)
      /\ DOMAIN execs[1].outs = DOMAIN execs[1].graph.outs
  BY <1>2 DEF Execution
<1>4. execs[1].graph.outs \in Seq(Type) /\ execs[1].graph.outs # <<>>
  BY <1>3, GraphAssumption
<1>. QED
  BY <1>2, <1>3, <1>4

LEMMA HeadDecryption ==
  ASSUME TypeInv, decs # <<>>
  PROVE  /\ Head(decs) = decs[1] /\ decs[1] \in Decryption
         /\ request[decs[1].req] \in DecryptionRequest
         /\ request[decs[1].req].ct = decs[1].ct
         /\ Tail(decs) \in Seq(Decryption)
         /\ \A k \in DOMAIN Tail(decs) : Tail(decs)[k] = decs[k + 1] /\ k + 1 \in DOMAIN decs
<1>1. decs \in Seq(Decryption)
  BY DEF TypeInv, TypeOK
<1>2. Head(decs) = decs[1] /\ 1 \in DOMAIN decs /\ decs[1] \in Decryption /\ Tail(decs) \in Seq(Decryption)
      /\ \A k \in DOMAIN Tail(decs) : Tail(decs)[k] = decs[k + 1] /\ k + 1 \in DOMAIN decs
  BY <1>1
<1>3. decs[1].req \in Request /\ Asks(decs[1])
  BY <1>2 DEF Decryption, TypeInv, RequestShape
<1>. QED
  BY <1>2, <1>3 DEF Asks, TypeInv, TypeOK

(* A chunk is not empty and does not pass the end of the plaintext.        *)
LEMMA ChunkInside ==
  ASSUME TypeInv, phase = "respond"
  PROVE  /\ ChunkEnd \in Nat /\ offset < ChunkEnd /\ ChunkEnd <= Width[decs[1].type]
         /\ Width[decs[1].type] \in Nat
<1>1. decs # <<>> /\ offset \in Nat /\ offset < Width[decs[1].type]
  BY DEF TypeInv, TypeOK, WorkerShape
<1>2. Head(decs) = decs[1] /\ decs[1].type \in Type
  BY <1>1, HeadDecryption DEF Decryption
<1>3. Width[decs[1].type] \in Nat
  BY <1>2, TypeAssumption
<1>. QED
  BY <1>1, <1>2, <1>3, TypeAssumption DEF ChunkEnd

LEMMA TypeWorker == TypeInv /\ ProcessPending => TypeInv'
<1>. SUFFICES ASSUME TypeInv, ProcessPending PROVE TypeInv'
  OBVIOUS
<1>. USE DEF TypeInv
<1>1. CASE Drain
  BY <1>1 DEF Drain, TypeOK, WorkerShape, RequestShape, Asks, Outstanding, chain
<1>2. CASE Evaluate
  <2>. DEFINE x == execs[1]
              ds == [i \in DOMAIN x.ins |-> store[x.ins[i]].digest]
  <2>1. execs # <<>> /\ phase = "loop" /\ ~Missing
    BY <1>2 DEF Evaluate
  <2>2. /\ Head(execs) = x /\ x \in Execution /\ x.ins \in Seq(Ciphertext)
        /\ x.outs \in Seq(Ciphertext) /\ Len(x.outs) \in Nat \ {0}
    BY <2>1, HeadExecution
  <2>3. ASSUME NEW i \in DOMAIN x.ins
        PROVE  store[x.ins[i]].digest \in Digest
    <3>1. x.ins[i] \in Ciphertext /\ x.ins[i] \in Needed
      BY <2>1, <2>2 DEF Needed, Range
    <3>2. store[x.ins[i]] \in Entry
      BY <3>1, <2>1 DEF Missing, TypeOK
    <3>. QED
      BY <3>2 DEF Entry
  <2>4. Eval(x.graph, ds) \in [DOMAIN x.outs -> Digest]
    BY <2>2, <2>3, EvalType
  <2>5. result' = Eval(x.graph, ds)
    BY <1>2, <2>2 DEF Evaluate
  <2>. HIDE DEF x, ds
  <2>6. result' \in Seq(Digest) /\ DOMAIN result' = DOMAIN x.outs
    BY <2>2, <2>4, <2>5
  <2>7. /\ phase' = "commit" /\ committed' = 0
        /\ UNCHANGED <<account, request, store, executions, decryptions, execs, decs, offset, views>>
    BY <1>2 DEF Evaluate, chain, queue
  <2>8. WorkerShape'
    BY <2>1, <2>2, <2>6, <2>7 DEF WorkerShape, Outstanding, x
  <2>. QED
    BY <2>6, <2>7, <2>8 DEF TypeOK, RequestShape, Asks
<1>3. CASE CommitOutput
  <2>. DEFINE x == execs[1]
              out == x.outs[committed + 1]
              new == result[committed + 1]
  <2>1. /\ phase = "commit" /\ execs # <<>> /\ committed < Len(x.outs)
        /\ committed \in Nat /\ DOMAIN result = DOMAIN x.outs
    BY <1>3 DEF CommitOutput, CommitTx, TypeOK, WorkerShape
  <2>2. /\ Head(execs) = x /\ x.outs \in Seq(Ciphertext) /\ Len(x.outs) \in Nat
        /\ Tail(execs) \in Seq(Execution) /\ Len(Tail(execs)) = Len(execs) - 1
        /\ execs \in Seq(Execution)
    BY <2>1, HeadExecution DEF TypeOK
  <2>3. out \in Ciphertext /\ new \in Digest
    BY <2>1, <2>2 DEF TypeOK
  <2>. HIDE DEF x, out, new
  <2>4. /\ account' = [account EXCEPT ![out].status = "verified", ![out].digest = new]
        /\ store' = [store EXCEPT ![out] =
             [digest |-> new, type |-> IF store[out] = Null THEN DefaultType ELSE store[out].type]]
        /\ UNCHANGED <<request, executions, decryptions, decs, offset>>
    BY <1>3, <2>2 DEF CommitOutput, CommitTx, NewDigest, NewEntry, LastOutput, queue, x, out, new
  <2>5. account' \in [Ciphertext -> Account]
    BY <2>3, <2>4 DEF TypeOK, Account
  <2>6. store' \in [Ciphertext -> Entry \cup {Null}]
    BY <2>3, <2>4, TypeAssumption DEF TypeOK, Entry
  <2>7. CASE committed + 1 = Len(x.outs)
    <3>1. /\ phase' = "loop" /\ committed' = 0 /\ result' = <<>>
          /\ execs' = Tail(execs) /\ views' = Tail(views)
      BY <1>3, <2>2, <2>7 DEF CommitOutput, CommitTx, NewDigest, NewEntry, LastOutput, x
    <3>2. views' \in Seq(View) /\ Len(views') = Len(views) - 1
      BY <3>1, <2>1 DEF TypeOK, WorkerShape, Outstanding
    <3>3. WorkerShape'
      BY <2>1, <2>2, <2>4, <3>1, <3>2 DEF WorkerShape, Outstanding
    <3>. QED
      BY <2>2, <2>4, <2>5, <2>6, <3>1, <3>2, <3>3 DEF TypeOK, RequestShape, Asks
  <2>8. CASE committed + 1 # Len(x.outs)
    <3>1. committed' = committed + 1 /\ UNCHANGED <<phase, result, execs, views>>
      BY <1>3, <2>2, <2>8 DEF CommitOutput, CommitTx, NewDigest, NewEntry, LastOutput, x
    <3>2. WorkerShape'
      BY <2>1, <2>2, <2>4, <2>8, <3>1 DEF WorkerShape, Outstanding, x
    <3>. QED
      BY <2>1, <2>4, <2>5, <2>6, <3>1, <3>2 DEF TypeOK, RequestShape, Asks
  <2>. QED
    BY <2>7, <2>8
<1>4. CASE StartResponse
  <2>1. /\ phase = "loop" /\ execs = <<>> /\ decs # <<>> /\ ~Missing
        /\ phase' = "respond" /\ offset' = 0
        /\ UNCHANGED <<account, request, store, executions, decryptions, execs, decs, result, committed, views>>
    BY <1>4 DEF StartResponse, chain, queue
  <2>2. store[decs[1].ct] # Null /\ 0 < Width[decs[1].type]
    BY <2>1, HeadDecryption, TypeAssumption DEF Missing, Needed, Decryption
  <2>. QED
    BY <2>1, <2>2 DEF TypeOK, WorkerShape, RequestShape, Asks, Outstanding
<1>5. CASE RespondChunk
  <2>. DEFINE d == decs[1]
  <2>1. /\ phase = "respond" /\ execs = <<>> /\ decs # <<>> /\ store[d.ct] # Null
        /\ offset \in Nat
    BY <1>5 DEF RespondChunk, RespondTx, HasRoom, WorkerShape, TypeOK
  <2>2. /\ Head(decs) = d /\ d.req \in Request /\ d.ct \in Ciphertext
        /\ request[d.req] \in DecryptionRequest
        /\ request[d.req].ct = d.ct
    BY <2>1, HeadDecryption DEF Decryption
  <2>3. ChunkEnd \in Nat /\ offset < ChunkEnd /\ ChunkEnd <= Width[d.type]
    BY <2>1, ChunkInside
  <2>4. Decode(store[d.ct].digest) \in Value
    BY <2>1, <2>2, DecodeType DEF TypeOK, Entry
  <2>. HIDE DEF d
  <2>5. /\ request' = [request EXCEPT ![d.req].written = @ + (ChunkEnd - offset),
                                      ![d.req].value = Decode(store[d.ct].digest)]
        /\ UNCHANGED <<account, store, executions, decryptions, execs, result, committed, views>>
    BY <1>5, <2>2 DEF RespondChunk, RespondTx, HasRoom, queue, d
  <2>. DEFINE new == [request[d.req] EXCEPT !.written = @ + (ChunkEnd - offset),
                                           !.value = Decode(store[d.ct].digest)]
  <2>6. new \in DecryptionRequest /\ new.ct = request[d.req].ct
    <3>1. request[d.req].written + (ChunkEnd - offset) \in Nat
      BY <2>1, <2>2, <2>3 DEF DecryptionRequest
    <3>. QED
      BY <2>2, <2>4, <3>1 DEF DecryptionRequest
  <2>a. request' = [request EXCEPT ![d.req] = new] /\ request \in [Request -> DecryptionRequest \cup {Null}]
    BY <2>5 DEF TypeOK
  <2>. HIDE DEF new
  <2>b. request' \in [Request -> DecryptionRequest \cup {Null}] /\ request'[d.req] \in DecryptionRequest
    BY <2>2, <2>6, <2>a
  <2>c. \A q \in Request : request[q] # Null => request'[q] # Null /\ request'[q].ct = request[q].ct
    BY <2>2, <2>6, <2>a, NullAssumption
  <2>7. ASSUME NEW k \in DOMAIN decs
        PROVE  decs[k].req \in Request /\ request[decs[k].req] # Null
               /\ request[decs[k].req].ct = decs[k].ct
    <3>1. decs[k] \in Decryption
      BY DEF TypeOK
    <3>. QED
      BY <3>1 DEF RequestShape, Decryption, Asks
  <2>8. \A k \in DOMAIN decs : request'[decs[k].req] # Null /\ request'[decs[k].req].ct = decs[k].ct
    BY <2>c, <2>7
  <2>9. DOMAIN decryptions' = {}
    BY <2>1, <2>5 DEF WorkerShape
  <2>10. CASE ChunkEnd < Width[d.type]
    <3>1. offset' = ChunkEnd /\ UNCHANGED <<phase, decs>>
      BY <1>5, <2>2, <2>10 DEF RespondChunk, RespondTx, HasRoom
    <3>2. RequestShape'
      BY <2>8, <2>9, <3>1 DEF RequestShape, Asks
    <3>3. WorkerShape'
      BY <2>1, <2>3, <2>5, <2>10, <3>1 DEF WorkerShape, Outstanding, d
    <3>. QED
      BY <2>3, <2>5, <2>b, <3>1, <3>2, <3>3 DEF TypeOK
  <2>11. CASE ~(ChunkEnd < Width[d.type])
    <3>1. offset' = 0 /\ phase' = "loop" /\ decs' = Tail(decs)
      BY <1>5, <2>2, <2>11 DEF RespondChunk, RespondTx, HasRoom
    <3>2. /\ Tail(decs) \in Seq(Decryption)
          /\ \A k \in DOMAIN Tail(decs) : Tail(decs)[k] = decs[k + 1] /\ k + 1 \in DOMAIN decs
      BY <2>1, HeadDecryption
    <3>3. RequestShape'
      BY <2>8, <2>9, <3>1, <3>2 DEF RequestShape, Asks
    <3>. QED
      BY <2>1, <2>5, <2>b, <3>1, <3>2, <3>3 DEF TypeOK, WorkerShape, Outstanding
  <2>. QED
    BY <2>10, <2>11
<1>6. CASE Return
  BY <1>6 DEF Return, TypeOK, WorkerShape, RequestShape, Asks, Outstanding, chain, queue
<1>7. ASSUME GiveUp, phase # "idle"
      PROVE  TypeInv'
  <2>1. StoreView \in View
    BY StoreViewType
  <2>2. /\ phase' = "idle" /\ execs' = <<>> /\ decs' = <<>> /\ result' = <<>>
        /\ committed' = 0 /\ offset' = 0 /\ views' = <<StoreView>>
        /\ UNCHANGED <<account, request, store, executions, decryptions>>
        /\ executions = <<>> /\ decryptions = <<>>
    BY <1>7 DEF GiveUp, chain, queue, WorkerShape
  <2>. QED
    BY <2>1, <2>2 DEF TypeOK, WorkerShape, RequestShape, Outstanding
<1>. QED
  BY <1>1, <1>2, <1>3, <1>4, <1>5, <1>6, <1>7
  DEF ProcessPending, CiphertextNotFound, GraphError, CommitRejected, ResponseRejected

LEMMA TypeStutter == TypeInv /\ UNCHANGED vars => TypeInv'
  BY DEF vars, TypeInv, TypeOK, WorkerShape, RequestShape, Asks, Outstanding

LEMMA TypeInductive == Spec => []TypeInv
<1>1. TypeInv /\ [Next]_vars => TypeInv'
  BY TypeClient, TypeWorker, TypeStutter DEF Next
<1>. QED
  BY TypeInit, <1>1, PTL DEF Spec

(* Every variable of the harness keeps the shape of the Rust value it      *)
(* stands for: process_pending never indexes past the outputs of a graph   *)
(* and never writes to a request that is not there.                        *)
THEOREM TypeCorrect == Spec => []TypeOK
<1>1. TypeInv => TypeOK
  BY DEF TypeInv
<1>. QED
  BY TypeInductive, <1>1, PTL

-----------------------------------------------------------------------------
(* Store and chain.                                                        *)

(* The strengthening of StoreAgreesWithChain: what an account holds while  *)
(* the store has no entry for it is the zero digest, which is why a        *)
(* registration changes no plaintext.                                      *)
ChainInv ==
  /\ StoreAgreesWithChain
  /\ \A c \in Ciphertext : ~Exists(c) => store[c] = Null
  /\ \A c \in Ciphertext : store[c] = Null => account[c].digest = ZeroDigest

LEMMA ChainInit == Init => ChainInv
  BY DEF Init, ChainInv, StoreAgreesWithChain, Exists, Absent

LEMMA ChainKept ==
  ASSUME ChainInv, UNCHANGED <<account, store>>
  PROVE  ChainInv'
  BY DEF ChainInv, StoreAgreesWithChain, Exists

(* An entry put in the store is not Null.                                  *)
LEMMA EntryNotNull == \A q \in Digest, t \in Type : [digest |-> q, type |-> t] # Null
  BY NullAssumption DEF Entry

(* One account and one entry are set together, to the same digest unless   *)
(* the account is pending.                                                 *)
LEMMA ChainSet ==
  ASSUME TypeInv, ChainInv, NEW c \in Ciphertext, NEW q \in Digest, NEW t \in Type, NEW new \in Account,
         account' = [account EXCEPT ![c] = new],
         store' = [store EXCEPT ![c] = [digest |-> q, type |-> t]],
         new.status = "verified" => new.digest = q, new.status # "absent"
  PROVE  ChainInv'
<1>1. account' [c] = new /\ store'[c] # Null /\ store'[c].digest = q
  BY EntryNotNull DEF TypeInv, TypeOK
<1>2. \A b \in Ciphertext : b # c => account'[b] = account[b] /\ store'[b] = store[b]
  OBVIOUS
<1>3. \A b \in Ciphertext :
        /\ account'[b].status = "verified" => store'[b] # Null /\ store'[b].digest = account'[b].digest
        /\ account'[b].status = "absent" => store'[b] = Null
        /\ store'[b] = Null => account'[b].digest = ZeroDigest
  BY <1>1, <1>2 DEF ChainInv, StoreAgreesWithChain, Exists
<1>. QED
  BY <1>3 DEF ChainInv, StoreAgreesWithChain, Exists

LEMMA ChainNext == TypeInv /\ ChainInv /\ [Next]_vars => ChainInv'
<1>. SUFFICES ASSUME TypeInv, ChainInv, [Next]_vars PROVE ChainInv'
  OBVIOUS
<1>1. ASSUME NEW c \in Ciphertext, NEW v \in Value, NEW t \in Type, CreateInput(c, v, t)
      PROVE  ChainInv'
  <2>. DEFINE new == [status |-> "verified", digest |-> v, type |-> t]
  <2>1. new \in Account /\ v \in Digest
    BY DEF Account, Digest
  <2>2. /\ account' = [account EXCEPT ![c] = new]
        /\ store' = [store EXCEPT ![c] = [digest |-> v, type |-> t]]
    BY <1>1 DEF CreateInput, InputTx
  <2>3. (new.status = "verified" => new.digest = v) /\ new.status # "absent"
    OBVIOUS
  <2>. HIDE DEF new
  <2>. QED
    BY <2>1, <2>2, <2>3, ChainSet
<1>2. ASSUME NEW c \in Ciphertext, NEW v \in Value, NEW t \in Type, CreatePlaintext(c, v, t)
      PROVE  ChainInv'
  <2>. DEFINE new == [status |-> "pending", digest |-> ZeroDigest, type |-> t]
  <2>1. new \in Account /\ v \in Digest
    BY DEF Account, Digest
  <2>2. /\ account' = [account EXCEPT ![c] = new]
        /\ store' = [store EXCEPT ![c] = [digest |-> v, type |-> t]]
    BY <1>2 DEF CreatePlaintext, PlaintextTx
  <2>3. (new.status = "verified" => new.digest = v) /\ new.status # "absent"
    OBVIOUS
  <2>. HIDE DEF new
  <2>. QED
    BY <2>1, <2>2, <2>3, ChainSet
<1>3. ASSUME NEW c \in Ciphertext, NEW t \in Type, CpiCreatePlaintext(c, t)
      PROVE  ChainInv'
  <2>1. /\ account' = [account EXCEPT ![c] = [status |-> "pending", digest |-> ZeroDigest, type |-> t]]
        /\ store' = store /\ account[c].status = "absent"
    BY <1>3 DEF CpiCreatePlaintext, PlaintextTx, Exists
  <2>2. \A b \in Ciphertext :
          account'[b] = IF b = c THEN [status |-> "pending", digest |-> ZeroDigest, type |-> t] ELSE account[b]
    BY <2>1 DEF TypeInv, TypeOK
  <2>. QED
    BY <2>1, <2>2 DEF ChainInv, StoreAgreesWithChain, Exists
<1>4. ASSUME NEW c \in Ciphertext, Register(c)
      PROVE  ChainInv'
  <2>1. /\ account' = account /\ account[c] \in Account
        /\ store' = [store EXCEPT ![c] = [digest |-> account[c].digest, type |-> account[c].type]]
        /\ account[c].status # "absent"
    BY <1>4 DEF Register, Exists, chain, TypeInv, TypeOK
  <2>2. account' = [account EXCEPT ![c] = account[c]]
    BY <2>1 DEF TypeInv, TypeOK
  <2>3. account[c].digest \in Digest /\ account[c].type \in Type
    BY <2>1 DEF Account
  <2>. QED
    BY <2>1, <2>2, <2>3, ChainSet
<1>5. ASSUME NEW g \in Graph, NEW ins \in [DOMAIN g.ins -> Ciphertext],
             NEW outs \in [DOMAIN g.outs -> Ciphertext], ExecuteGraph(g, ins, outs)
      PROVE  ChainInv'
  <2>1. ASSUME NEW c \in Ciphertext
        PROVE  \/ account'[c] = account[c]
               \/ account'[c].status = "pending" /\ account'[c].digest = ZeroDigest
    BY <1>5 DEF ExecuteGraph, GraphTx
  <2>2. store' = store
    BY <1>5 DEF ExecuteGraph, GraphTx
  <2>. QED
    BY <2>1, <2>2 DEF ChainInv, StoreAgreesWithChain, Exists
<1>6. CASE CommitOutput
  <2>. DEFINE out == execs[1].outs[committed + 1]
              q == result[committed + 1]
              t == IF store[out] = Null THEN DefaultType ELSE store[out].type
  <2>1. execs # <<>> /\ committed < Len(execs[1].outs) /\ DOMAIN result = DOMAIN execs[1].outs
        /\ committed \in Nat /\ result \in Seq(Digest)
    BY <1>6 DEF CommitOutput, CommitTx, TypeInv, TypeOK, WorkerShape
  <2>2. Head(execs) = execs[1] /\ execs[1].outs \in Seq(Ciphertext)
    BY <2>1, HeadExecution
  <2>3. out \in Ciphertext /\ q \in Digest
    BY <2>1, <2>2
  <2>4. /\ account' = [account EXCEPT ![out].status = "verified", ![out].digest = q]
        /\ store' = [store EXCEPT ![out] = [digest |-> q, type |-> t]]
    BY <1>6, <2>2 DEF CommitOutput, CommitTx, NewDigest, NewEntry, LastOutput
  <2>5. t \in Type
    BY <2>3, TypeAssumption DEF TypeInv, TypeOK, Entry
  <2>. HIDE DEF out, q, t
  <2>. DEFINE new == [account[out] EXCEPT !.status = "verified", !.digest = q]
  <2>6. new \in Account /\ new.status = "verified" /\ new.digest = q
    BY <2>3 DEF TypeInv, TypeOK, Account
  <2>7. account' = [account EXCEPT ![out] = new]
    BY <2>4
  <2>. QED
    BY <2>3, <2>4, <2>5, <2>6, <2>7, ChainSet
<1>7. ASSUME UNCHANGED <<account, store>>
      PROVE  ChainInv'
  BY <1>7, ChainKept
<1>. QED
  BY <1>1, <1>2, <1>3, <1>4, <1>5, <1>6, <1>7
  DEF Next, Client, ProcessPending, RequestDecryption, RequestTx, Drain, Evaluate, StartResponse, RespondChunk, RespondTx, HasRoom,
      Return, CiphertextNotFound, GraphError, CommitRejected, ResponseRejected, GiveUp, vars, chain

LEMMA ChainInductive == Spec => []ChainInv
  BY ChainInit, ChainNext, TypeInductive, PTL DEF Spec

(* Whatever is created, registered, executed or lost, a verified account   *)
(* holds the digest the executor computes on.                              *)
THEOREM StoreAgrees == Spec => []StoreAgreesWithChain
<1>1. ChainInv => StoreAgreesWithChain
  BY DEF ChainInv
<1>. QED
  BY ChainInductive, <1>1, PTL

-----------------------------------------------------------------------------
(* The serial result.                                                      *)

Outcome(x, view) == Eval(x.graph, [i \in DOMAIN x.ins |-> view[x.ins[i]]])

(* What outstanding graphs mention exists, so a new ciphertext is none of  *)
(* theirs.                                                                 *)
Mentioned ==
  \A k \in DOMAIN Outstanding :
    /\ \A i \in DOMAIN Outstanding[k].ins : Exists(Outstanding[k].ins[i])
    /\ \A j \in DOMAIN Outstanding[k].outs : Exists(Outstanding[k].outs[j])

(* The store is the first view, or is on its way to the second: the first  *)
(* outputs of the graph in hand are set, to what it yields on that view.   *)
StoreIsFirstView ==
  IF phase = "commit"
  THEN /\ StoreView = Overwrite(views[1], execs[1].outs, result, committed)
       /\ \A j \in DOMAIN result : Decode(result[j]) = Decode(Outcome(execs[1], views[1])[j])
  ELSE StoreView = views[1]

(* Each view is the one before with the next graph applied at once.        *)
ViewsAreSerial ==
  \A k \in DOMAIN Outstanding : views[k + 1] = Apply(Outstanding[k], views[k])

(* A ciphertext no later graph writes has its final plaintext already.     *)
QuietIsCurrent ==
  \A i \in DOMAIN views, c \in Ciphertext :
    (\A k \in DOMAIN Outstanding : k >= i => c \notin Range(Outstanding[k].outs))
      => views[i][c] = Current[c]

SerialInv == Mentioned /\ StoreIsFirstView /\ ViewsAreSerial /\ QuietIsCurrent

(* The ciphertexts an execution names.                                     *)
LEMMA ExecutionShape ==
  ASSUME NEW y \in Execution
  PROVE  /\ \A i \in DOMAIN y.ins : y.ins[i] \in Ciphertext
         /\ \A j \in DOMAIN y.outs : y.outs[j] \in Ciphertext
  BY DEF Execution

LEMMA SerialInit == Init => SerialInv
<1>. SUFFICES ASSUME Init PROVE SerialInv
  OBVIOUS
<1>1. Outstanding = <<>> /\ phase = "idle" /\ views = <<[c \in Ciphertext |-> ZeroValue]>>
      /\ store = [c \in Ciphertext |-> Null]
  BY DEF Init, Outstanding
<1>2. StoreView = views[1] /\ Current = views[1]
  BY <1>1 DEF StoreView, Current
<1>3. DOMAIN Outstanding = {} /\ DOMAIN views = {1}
  BY <1>1
<1>. HIDE DEF Outstanding
<1>. QED
  BY <1>1, <1>2, <1>3 DEF SerialInv, Mentioned, StoreIsFirstView, ViewsAreSerial, QuietIsCurrent

(* The facts about Outstanding every step below uses.                      *)
LEMMA OutstandingType ==
  ASSUME TypeInv
  PROVE  /\ Outstanding \in Seq(Execution) /\ Len(Outstanding) \in Nat
         /\ views \in Seq(View) /\ Len(views) = Len(Outstanding) + 1
         /\ \A k \in DOMAIN Outstanding :
              /\ Outstanding[k] \in Execution
              /\ k \in Nat /\ k \in DOMAIN views /\ k + 1 \in DOMAIN views
              /\ views[k] \in View /\ views[k + 1] \in View
         /\ 1 \in DOMAIN views /\ views[1] \in View
<1>1. Outstanding \in Seq(Execution) /\ views \in Seq(View) /\ Len(views) = Len(Outstanding) + 1
  BY DEF TypeInv, TypeOK, WorkerShape, Outstanding
<1>. HIDE DEF Outstanding
<1>. QED
  BY <1>1

LEMMA SerialKept ==
  ASSUME SerialInv, StoreView' = StoreView, Outstanding' = Outstanding, views' = views,
         phase # "commit", phase' # "commit", \A c \in Ciphertext : Exists(c) => Exists(c)',
         TypeInv
  PROVE  SerialInv'
<1>1. Mentioned'
  <2>1. ASSUME NEW k \in DOMAIN Outstanding
        PROVE  /\ \A i \in DOMAIN Outstanding[k].ins : Outstanding[k].ins[i] \in Ciphertext
               /\ \A j \in DOMAIN Outstanding[k].outs : Outstanding[k].outs[j] \in Ciphertext
    BY OutstandingType DEF Execution
  <2>. QED
    BY <2>1 DEF SerialInv, Mentioned
<1>2. Current' = Current
  BY DEF Current
<1>. QED
  BY <1>1, <1>2 DEF SerialInv, StoreIsFirstView, ViewsAreSerial, QuietIsCurrent

(* A graph neither reads nor writes a ciphertext it does not mention.      *)
LEMMA ApplyIntroduced ==
  ASSUME NEW x \in Execution, NEW view \in View, NEW c \in Ciphertext, NEW v \in Value,
         \A i \in DOMAIN x.ins : x.ins[i] # c, \A j \in DOMAIN x.outs : x.outs[j] # c
  PROVE  Apply(x, [view EXCEPT ![c] = v]) = [Apply(x, view) EXCEPT ![c] = v]
<1>. DEFINE new == [view EXCEPT ![c] = v]
<1>1. x.ins \in Seq(Ciphertext) /\ x.outs \in Seq(Ciphertext) /\ Len(x.outs) \in Nat
  BY DEF Execution
<1>2. [i \in DOMAIN x.ins |-> new[x.ins[i]]] = [i \in DOMAIN x.ins |-> view[x.ins[i]]]
  BY <1>1 DEF View
<1>. DEFINE res == Outcome(x, view)
            n == Len(x.outs)
<1>3. Apply(x, new) = Overwrite(new, x.outs, res, n) /\ Apply(x, view) = Overwrite(view, x.outs, res, n)
  BY <1>2 DEF Apply, Outcome
<1>4. new \in View /\ new[c] = v /\ \A b \in Ciphertext : b # c => new[b] = view[b]
  BY DEF View
<1>. HIDE DEF res, new
<1>5. Overwrite(new, x.outs, res, n)[c] = v
  BY <1>1, <1>4, OverwriteOther
<1>6. ASSUME NEW b \in Ciphertext, b # c
      PROVE  Overwrite(new, x.outs, res, n)[b] = Overwrite(view, x.outs, res, n)[b]
  BY <1>4, <1>6 DEF Overwrite
<1>7. /\ Overwrite(new, x.outs, res, n) = [b \in Ciphertext |-> Overwrite(new, x.outs, res, n)[b]]
      /\ Overwrite(view, x.outs, res, n) = [b \in Ciphertext |-> Overwrite(view, x.outs, res, n)[b]]
  BY DEF Overwrite
<1>8. Overwrite(new, x.outs, res, n) = [Overwrite(view, x.outs, res, n) EXCEPT ![c] = v]
  BY <1>5, <1>6, <1>7
<1>. QED
  BY <1>3, <1>8 DEF new

LEMMA SerialIntroduced ==
  ASSUME TypeInv, SerialInv, NEW c \in Ciphertext, NEW v \in Value,
         phase = "idle", phase' = "idle", ~Exists(c), Introduce(c, v),
         StoreView' = [StoreView EXCEPT ![c] = v], executions' = executions,
         \A b \in Ciphertext : Exists(b) => Exists(b)'
  PROVE  SerialInv'
<1>1. Outstanding' = Outstanding
  BY DEF Outstanding
<1>2. /\ DOMAIN views' = DOMAIN views
      /\ \A i \in DOMAIN views : views'[i] = [views[i] EXCEPT ![c] = v]
      /\ \A i \in DOMAIN views : views[i] \in View
      /\ Len(views') = Len(views) /\ Len(views) \in DOMAIN views
  <2>1. views \in Seq(View) /\ Len(views) = Len(Outstanding) + 1 /\ Len(Outstanding) \in Nat
    BY OutstandingType
  <2>2. views' = [i \in 1..Len(views) |-> [views[i] EXCEPT ![c] = v]]
    BY <2>1 DEF Introduce
  <2>. QED
    BY <2>1, <2>2
<1>. HIDE DEF Outstanding
<1>3. ASSUME NEW k \in DOMAIN Outstanding
      PROVE  /\ Outstanding[k] \in Execution /\ k \in DOMAIN views /\ k + 1 \in DOMAIN views
             /\ \A i \in DOMAIN Outstanding[k].ins :
                   Outstanding[k].ins[i] \in Ciphertext /\ Exists(Outstanding[k].ins[i])
             /\ \A j \in DOMAIN Outstanding[k].outs :
                   Outstanding[k].outs[j] \in Ciphertext /\ Exists(Outstanding[k].outs[j])
  <2>1. Outstanding[k] \in Execution /\ k \in DOMAIN views /\ k + 1 \in DOMAIN views
    BY OutstandingType
  <2>2. /\ \A i \in DOMAIN Outstanding[k].ins : Outstanding[k].ins[i] \in Ciphertext
        /\ \A j \in DOMAIN Outstanding[k].outs : Outstanding[k].outs[j] \in Ciphertext
    BY <2>1, ExecutionShape
  <2>3. /\ \A i \in DOMAIN Outstanding[k].ins : Exists(Outstanding[k].ins[i])
        /\ \A j \in DOMAIN Outstanding[k].outs : Exists(Outstanding[k].outs[j])
    BY DEF SerialInv, Mentioned
  <2>. QED
    BY <2>1, <2>2, <2>3
<1>4. Mentioned'
  BY <1>1, <1>3 DEF Mentioned
<1>5. StoreIsFirstView'
  BY <1>2, OutstandingType DEF SerialInv, StoreIsFirstView
<1>6. ViewsAreSerial'
  <2>1. ASSUME NEW k \in DOMAIN Outstanding
        PROVE  views'[k + 1] = Apply(Outstanding[k], views'[k])
    <3>1. Apply(Outstanding[k], [views[k] EXCEPT ![c] = v]) = [Apply(Outstanding[k], views[k]) EXCEPT ![c] = v]
      BY <1>2, <1>3, ApplyIntroduced, SMTT(20)
    <3>. QED
      BY <1>2, <1>3, <3>1 DEF SerialInv, ViewsAreSerial
  <2>. QED
    BY <1>1, <2>1 DEF ViewsAreSerial
<1>7. QuietIsCurrent'
  <2>1. Current' = [Current EXCEPT ![c] = v] /\ Current \in View
    BY <1>2 DEF Current
  <2>2. ASSUME NEW i \in DOMAIN views, NEW b \in Ciphertext,
               \A k \in DOMAIN Outstanding : k >= i => b \notin Range(Outstanding[k].outs)
        PROVE  views'[i][b] = Current'[b]
    <3>1. views[i][b] = Current[b]
      BY <2>2 DEF SerialInv, QuietIsCurrent
    <3>. QED
      BY <1>2, <2>1, <3>1 DEF View
  <2>. QED
    BY <1>1, <1>2, <2>2 DEF QuietIsCurrent
<1>. QED
  BY <1>4, <1>5, <1>6, <1>7 DEF SerialInv

(* Setting a store entry changes the store's view in one place.            *)
LEMMA StoreViewSet ==
  ASSUME TypeInv, NEW c \in Ciphertext, NEW q \in Digest, NEW t \in Type,
         store' = [store EXCEPT ![c] = [digest |-> q, type |-> t]]
  PROVE  StoreView' = [StoreView EXCEPT ![c] = Decode(q)]
<1>1. store'[c] # Null /\ store'[c].digest = q
  BY EntryNotNull DEF TypeInv, TypeOK
<1>2. \A b \in Ciphertext : b # c => store'[b] = store[b]
  OBVIOUS
<1>3. StoreView'[c] = Decode(q) /\ StoreView' = [b \in Ciphertext |-> StoreView'[b]]
  BY <1>1 DEF StoreView
<1>4. \A b \in Ciphertext : b # c => StoreView'[b] = StoreView[b]
  BY <1>2 DEF StoreView
<1>. QED
  BY <1>3, <1>4, StoreViewType DEF View

LEMMA DecodeValue == \A v \in Value : Decode(v) = v /\ v \in Digest
  BY ValueAssumption DEF Decode, Digest

(* Counting down to the first that fails.                                  *)
LEMMA LeastOf ==
  ASSUME NEW S \in SUBSET Nat, S # {}
  PROVE  \E m \in S : \A k \in S : m <= k
<1>. DEFINE Less == {ss \in Nat \X Nat : ss[1] < ss[2]}
<1>1. IsWellFoundedOn(Less, Nat)
  BY NatLessThanWellFounded DEF OpToRel
<1>. HIDE DEF Less
<1>2. S \subseteq Nat /\ S # {}
  OBVIOUS
<1>3. PICK m \in S : \A k \in S : ~(<<k, m>> \in Less)
  BY <1>1, <1>2, WFMin, Zenon
<1>4. \A k \in S : ~(k < m)
  BY <1>2, <1>3 DEF Less
<1>. QED
  BY <1>2, <1>4

(* Replayed from a store changed by hand, what no graph writes stays.      *)
LEMMA ReplayQuiet ==
  ASSUME NEW xs \in Seq(Execution), NEW vs \in [1..(Len(xs) + 1) -> View],
         \A k \in DOMAIN xs : vs[k + 1] = Apply(xs[k], vs[k]),
         NEW i \in DOMAIN vs, NEW c \in Ciphertext,
         \A k \in DOMAIN xs : k >= i => c \notin Range(xs[k].outs)
  PROVE  vs[i][c] = vs[Len(xs) + 1][c]
<1>. DEFINE n == Len(xs)
            S == {m \in 0..(n + 1 - i) : vs[n + 1 - m][c] # vs[n + 1][c]}
<1>1. n \in Nat /\ DOMAIN xs = 1..n /\ DOMAIN vs = 1..(n + 1) /\ i \in 1..(n + 1)
  OBVIOUS
<1>2. ASSUME NEW k \in 1..n, k >= i PROVE vs[k + 1][c] = vs[k][c]
  <2>1. xs[k] \in Execution /\ c \notin Range(xs[k].outs) /\ vs[k + 1] = Apply(xs[k], vs[k])
    BY <1>1, <1>2
  <2>2. xs[k].outs \in Seq(Ciphertext)
    BY <2>1 DEF Execution
  <2>3. Len(xs[k].outs) \in Nat /\ \A j \in 1..Len(xs[k].outs) : xs[k].outs[j] # c
    BY <2>1, <2>2 DEF Range
  <2>. QED
    <3>. DEFINE res == Eval(xs[k].graph, [j \in DOMAIN xs[k].ins |-> vs[k][xs[k].ins[j]]])
    <3>1. vs[k + 1] = Overwrite(vs[k], xs[k].outs, res, Len(xs[k].outs))
      BY <2>1 DEF Apply
    <3>. HIDE DEF res
    <3>2. ASSUME NEW outs, NEW len \in Nat, \A j \in 1..len : outs[j] # c
          PROVE  Overwrite(vs[k], outs, res, len)[c] = vs[k][c]
      BY <3>2, OverwriteOther
    <3>3. Overwrite(vs[k], xs[k].outs, res, Len(xs[k].outs))[c] = vs[k][c]
      BY <2>3, <3>2
    <3>. QED
      BY <3>1, <3>3
<1>. HIDE DEF n
<1>3. ASSUME S # {} PROVE FALSE
  <2>1. S \in SUBSET Nat
    BY <1>1
  <2>. HIDE DEF S
  <2>2. PICK m \in S : \A k \in S : m <= k
    BY <1>3, <2>1, LeastOf
  <2>3. m \in 0..(n + 1 - i) /\ vs[n + 1 - m][c] # vs[n + 1][c]
    BY <2>2 DEF S
  <2>4. m # 0
    BY <1>1, <2>3
  <2>5. m - 1 \in 0..(n + 1 - i) /\ n + 1 - m \in 1..n /\ n + 1 - m >= i
        /\ n + 1 - (m - 1) = (n + 1 - m) + 1
    BY <1>1, <2>3, <2>4
  <2>6. vs[n + 1 - (m - 1)][c] # vs[n + 1][c]
    BY <1>2, <2>3, <2>5
  <2>7. m - 1 \in S
    BY <2>5, <2>6 DEF S
  <2>. QED
    BY <1>1, <2>2, <2>3, <2>7
<1>4. n + 1 - i \in 0..(n + 1 - i) /\ n + 1 - (n + 1 - i) = i
  BY <1>1
<1>5. n + 1 - i \notin S
  BY <1>3
<1>. QED
  BY <1>4, <1>5 DEF n

LEMMA SerialRecounted ==
  ASSUME TypeInv, SerialInv, Recount, phase = "idle", phase' = "idle",
         executions' = executions, execs' = execs, \A c \in Ciphertext : Exists(c) => Exists(c)'
  PROVE  SerialInv'
<1>1. Outstanding = executions /\ Outstanding' = executions
  BY DEF Outstanding
<1>2. /\ executions \in Seq(Execution) /\ DOMAIN views = 1..(Len(executions) + 1)
      /\ Len(executions) \in Nat
  BY <1>1, OutstandingType
<1>3. PICK vs \in [1..(Len(executions) + 1) -> View] :
        /\ vs[1] = StoreView'
        /\ \A k \in DOMAIN executions : vs[k + 1] = Apply(executions[k], vs[k])
        /\ views' = vs
  BY <1>2 DEF Recount
<1>4. Mentioned'
  <2>1. ASSUME NEW k \in DOMAIN executions
        PROVE  /\ \A i \in DOMAIN executions[k].ins :
                    executions[k].ins[i] \in Ciphertext /\ Exists(executions[k].ins[i])
               /\ \A j \in DOMAIN executions[k].outs :
                    executions[k].outs[j] \in Ciphertext /\ Exists(executions[k].outs[j])
    <3>1. executions[k] \in Execution
      BY <1>2
    <3>. QED
      BY <1>1, <3>1, ExecutionShape DEF SerialInv, Mentioned
  <2>. QED
    BY <1>1, <2>1 DEF Mentioned
<1>5. StoreIsFirstView'
  BY <1>3 DEF StoreIsFirstView
<1>6. ViewsAreSerial'
  BY <1>1, <1>3 DEF ViewsAreSerial
<1>7. QuietIsCurrent'
  <2>1. Current' = vs[Len(executions) + 1] /\ DOMAIN views' = DOMAIN vs
    <3>1. Len(vs) = Len(executions) + 1
      BY <1>2, <1>3
    <3>. QED
      BY <1>3, <3>1 DEF Current
  <2>2. ASSUME NEW i \in DOMAIN vs, NEW c \in Ciphertext,
               \A k \in DOMAIN executions : k >= i => c \notin Range(executions[k].outs)
        PROVE  vs[i][c] = vs[Len(executions) + 1][c]
    BY <1>2, <1>3, <2>2, ReplayQuiet
  <2>. QED
    BY <1>1, <1>3, <2>1, <2>2 DEF QuietIsCurrent
<1>. QED
  BY <1>4, <1>5, <1>6, <1>7 DEF SerialInv

LEMMA SerialClient == TypeInv /\ ChainInv /\ SerialInv /\ Client => SerialInv'
<1>. SUFFICES ASSUME TypeInv, ChainInv, SerialInv, Client PROVE SerialInv'
  OBVIOUS
<1>1. ASSUME NEW c \in Ciphertext, NEW v \in Value, NEW t \in Type,
             CreateInput(c, v, t) \/ CreatePlaintext(c, v, t)
      PROVE  SerialInv'
  <2>1. /\ phase = "idle" /\ phase' = "idle" /\ ~Exists(c) /\ Introduce(c, v)
        /\ store' = [store EXCEPT ![c] = [digest |-> v, type |-> t]]
        /\ executions' = executions
    BY <1>1 DEF CreateInput, InputTx, CreatePlaintext, PlaintextTx, queue, worker
  <2>2. StoreView' = [StoreView EXCEPT ![c] = v]
    BY <2>1, StoreViewSet, DecodeValue
  <2>3. \A b \in Ciphertext : b # c => account'[b] = account[b]
    BY <1>1 DEF CreateInput, InputTx, CreatePlaintext, PlaintextTx, TypeInv, TypeOK
  <2>4. \A b \in Ciphertext : Exists(b) => Exists(b)'
    BY <2>1, <2>3 DEF Exists
  <2>. QED
    BY <2>1, <2>2, <2>4, SerialIntroduced
<1>2. ASSUME NEW c \in Ciphertext, NEW t \in Type, CpiCreatePlaintext(c, t)
      PROVE  SerialInv'
  <2>1. /\ phase = "idle" /\ phase' = "idle" /\ ~Exists(c) /\ Introduce(c, ZeroValue)
        /\ store' = store /\ executions' = executions
    BY <1>2 DEF CpiCreatePlaintext, PlaintextTx, queue, worker
  <2>2. StoreView' = [StoreView EXCEPT ![c] = ZeroValue]
    BY <2>1 DEF StoreView, ChainInv
  <2>3. \A b \in Ciphertext : b # c => account'[b] = account[b]
    BY <1>2 DEF CpiCreatePlaintext, PlaintextTx, TypeInv, TypeOK
  <2>4. \A b \in Ciphertext : Exists(b) => Exists(b)'
    BY <2>1, <2>3 DEF Exists
  <2>. QED
    BY <2>1, <2>2, <2>4, SerialIntroduced, ValueAssumption
<1>3. ASSUME NEW c \in Ciphertext, Register(c)
      PROVE  SerialInv'
  <2>1. /\ phase = "idle" /\ phase' = "idle" /\ account' = account
        /\ executions' = executions /\ execs' = execs
        /\ store' = [store EXCEPT ![c] = [digest |-> account[c].digest, type |-> account[c].type]]
        /\ (InStep(c) /\ views' = views) \/ Recount
    BY <1>3 DEF Register, chain, queue, worker
  <2>0. CASE Recount
    BY <2>0, <2>1, SerialRecounted DEF Exists
  <2>. SUFFICES ASSUME InStep(c), views' = views PROVE SerialInv'
    BY <2>0, <2>1
  <2>2. account[c].digest \in Digest /\ account[c].type \in Type
    BY DEF TypeInv, TypeOK, Account
  <2>3. StoreView' = [StoreView EXCEPT ![c] = Decode(account[c].digest)]
    BY <2>1, <2>2, StoreViewSet
  <2>4. StoreView[c] = Decode(account[c].digest)
    BY DEF InStep, StoreView, ChainInv, StoreAgreesWithChain, Decode
  <2>5. StoreView' = StoreView
    BY <2>3, <2>4 DEF StoreView
  <2>6. Outstanding' = Outstanding
    BY <2>1 DEF Outstanding
  <2>. QED
    BY <2>1, <2>5, <2>6, SerialKept DEF Exists
<1>4. ASSUME NEW g \in Graph, NEW ins \in [DOMAIN g.ins -> Ciphertext],
             NEW outs \in [DOMAIN g.outs -> Ciphertext], ExecuteGraph(g, ins, outs)
      PROVE  SerialInv'
  <2>. DEFINE x == [graph |-> g, ins |-> ins, outs |-> outs]
              n == Len(Outstanding)
              next == Apply(x, Current)
  <2>1. x.graph = g /\ x.ins = ins /\ x.outs = outs
    OBVIOUS
  <2>. HIDE DEF x
  <2>2. /\ phase = "idle" /\ phase' = "idle" /\ store' = store
        /\ executions' = Append(executions, x) /\ views' = Append(views, next)
    BY <1>4 DEF ExecuteGraph, GraphTx, worker, x
  <2>. HIDE DEF next
  <2>3. /\ Outstanding \in Seq(Execution) /\ n \in Nat /\ views \in Seq(View) /\ Len(views) = n + 1
        /\ DOMAIN Outstanding = 1..n /\ DOMAIN views = 1..(n + 1) /\ Current = views[n + 1]
    BY OutstandingType DEF Current
  <2>4. Outstanding' = Append(Outstanding, x)
    BY <2>2 DEF Outstanding
  <2>. HIDE DEF Outstanding
  <2>5. /\ DOMAIN Outstanding' = 1..(n + 1)
        /\ \A k \in 1..n : Outstanding'[k] = Outstanding[k]
        /\ Outstanding'[n + 1] = x
    BY <2>3, <2>4
  <2>6. /\ DOMAIN views' = 1..(n + 2)
        /\ \A k \in 1..(n + 1) : views'[k] = views[k]
        /\ views'[n + 2] = next /\ Current' = next
    BY <2>2, <2>3 DEF Current
  <2>. HIDE DEF n
  <2>7. \A b \in Ciphertext : Exists(b) \/ (\E j \in DOMAIN outs : outs[j] = b) => Exists(b)'
    BY <1>4 DEF ExecuteGraph, GraphTx, Exists
  <2>8. Mentioned'
    <3>1. ASSUME NEW k \in 1..n
          PROVE  /\ \A i \in DOMAIN Outstanding[k].ins :
                      Outstanding[k].ins[i] \in Ciphertext /\ Exists(Outstanding[k].ins[i])
                 /\ \A j \in DOMAIN Outstanding[k].outs :
                      Outstanding[k].outs[j] \in Ciphertext /\ Exists(Outstanding[k].outs[j])
      BY <2>3, OutstandingType DEF SerialInv, Mentioned, Execution
    <3>2. \A i \in DOMAIN ins : ins[i] \in Ciphertext /\ Exists(ins[i])
      BY <1>4 DEF ExecuteGraph, GraphTx, Fits
    <3>3. ASSUME NEW k \in 1..(n + 1)
          PROVE  /\ \A i \in DOMAIN Outstanding'[k].ins : Exists(Outstanding[k].ins[i])'
                 /\ \A j \in DOMAIN Outstanding'[k].outs : Exists(Outstanding[k].outs[j])'
      <4>1. CASE k \in 1..n
        BY <4>1, <3>1, <2>5, <2>7 DEF Exists
      <4>2. CASE k = n + 1
        BY <4>2, <3>2, <2>1, <2>5, <2>7 DEF Exists
      <4>. QED
        BY <4>1, <4>2, <2>3
    <3>. QED
      BY <3>3, <2>5 DEF Mentioned
  <2>9. StoreIsFirstView'
    BY <2>2, <2>3, <2>6 DEF SerialInv, StoreIsFirstView, StoreView
  <2>10. ViewsAreSerial'
    <3>1. ASSUME NEW k \in 1..(n + 1)
          PROVE  views'[k + 1] = Apply(Outstanding'[k], views'[k])
      <4>1. CASE k \in 1..n
        <5>1. Outstanding'[k] = Outstanding[k] /\ views'[k] = views[k] /\ views'[k + 1] = views[k + 1]
          BY <4>1, <2>3, <2>5, <2>6
        <5>2. views[k + 1] = Apply(Outstanding[k], views[k])
          BY <4>1, <2>3 DEF SerialInv, ViewsAreSerial
        <5>. QED
          BY <5>1, <5>2
      <4>2. CASE k = n + 1
        BY <4>2, <2>3, <2>5, <2>6 DEF next
      <4>. QED
        BY <4>1, <4>2, <2>3
    <3>. QED
      BY <3>1, <2>5 DEF ViewsAreSerial
  <2>11. QuietIsCurrent'
    <3>1. ASSUME NEW i \in 1..(n + 1), NEW b \in Ciphertext,
                 \A k \in 1..(n + 1) : k >= i => b \notin Range(Outstanding'[k].outs)
          PROVE  views'[i][b] = next[b]
      <4>1. \A k \in DOMAIN Outstanding : k >= i => b \notin Range(Outstanding[k].outs)
        BY <3>1, <2>3, <2>5
      <4>2. views[i][b] = Current[b]
        BY <4>1, <2>3 DEF SerialInv, QuietIsCurrent
      <4>3. b \notin Range(x.outs)
        BY <3>1, <2>3, <2>5
      <4>4. \A j \in 1..Len(x.outs) : x.outs[j] # b
        <5>1. x.outs \in Seq(Ciphertext)
          BY <2>1, GraphAssumption
        <5>. QED
          BY <5>1, <4>3 DEF Range
      <4>5. Len(x.outs) \in Nat
        BY <2>1, GraphAssumption
      <4>6. next[b] = Current[b]
        BY <4>4, <4>5, OverwriteOther DEF next, Apply
      <4>. QED
        BY <4>2, <4>6, <2>6
    <3>2. \A i \in 1..(n + 2) : i \in 1..(n + 1) \/ i = n + 2
      BY <2>3
    <3>. QED
      BY <3>1, <3>2, <2>5, <2>6 DEF QuietIsCurrent
  <2>. QED
    BY <2>8, <2>9, <2>10, <2>11 DEF SerialInv
<1>5. ASSUME NEW r \in Request, NEW c \in Ciphertext, RequestDecryption(r, c)
      PROVE  SerialInv'
  <2>1. phase = "idle" /\ UNCHANGED <<account, store, executions, execs, phase, views>>
    BY <1>5 DEF RequestDecryption, RequestTx, worker
  <2>2. StoreView' = StoreView /\ Outstanding' = Outstanding
    BY <2>1 DEF StoreView, Outstanding
  <2>. QED
    BY <2>1, <2>2, SerialKept DEF Exists
<1>. QED
  BY <1>1, <1>2, <1>3, <1>4, <1>5 DEF Client

LEMMA SerialEvaluate == TypeInv /\ SerialInv /\ Evaluate => SerialInv'
<1>. SUFFICES ASSUME TypeInv, SerialInv, Evaluate PROVE SerialInv'
  OBVIOUS
<1>. DEFINE x == execs[1]
            ds == [i \in DOMAIN x.ins |-> store[x.ins[i]].digest]
            vs == [i \in DOMAIN x.ins |-> views[1][x.ins[i]]]
<1>1. /\ phase = "loop" /\ execs # <<>> /\ ~Missing /\ phase' = "commit" /\ committed' = 0
      /\ UNCHANGED <<account, store, execs, executions, views>>
  BY DEF Evaluate, chain, queue
<1>2. /\ Head(execs) = x /\ x \in Execution /\ x.ins \in Seq(Ciphertext) /\ x.graph \in Graph
      /\ x.outs \in Seq(Ciphertext)
  BY <1>1, HeadExecution
<1>3. result' = Eval(x.graph, ds)
  BY <1>2 DEF Evaluate
<1>4. views[1] \in View /\ StoreView = views[1] /\ Len(Outstanding) \in Nat
      /\ Outstanding = execs /\ Outstanding' = execs
  BY <1>1, OutstandingType DEF SerialInv, StoreIsFirstView, Outstanding
<1>5. ASSUME NEW i \in DOMAIN x.ins
      PROVE  ds[i] \in Digest /\ vs[i] \in Digest /\ Decode(ds[i]) = Decode(vs[i])
  <2>1. x.ins[i] \in Ciphertext /\ x.ins[i] \in Needed
    BY <1>1, <1>2 DEF Needed, Range
  <2>2. store[x.ins[i]] \in Entry
    BY <2>1, <1>1 DEF Missing, TypeInv, TypeOK
  <2>3. views[1][x.ins[i]] = Decode(store[x.ins[i]].digest) /\ views[1][x.ins[i]] \in Value
    BY <1>4, <2>1, <2>2, NullAssumption DEF StoreView, View
  <2>. QED
    BY <2>2, <2>3, DecodeValue DEF Entry
<1>6. ds \in Inputs(x.graph) /\ vs \in Inputs(x.graph) /\ Eval(x.graph, ds) \in [DOMAIN x.outs -> Digest]
  BY <1>2, <1>5, EvalType
<1>7. DOMAIN x.ins = DOMAIN x.graph.ins /\ DOMAIN x.outs = DOMAIN x.graph.outs
  BY <1>2 DEF Execution
<1>. HIDE DEF ds, vs
<1>8. \A j \in DOMAIN x.outs : Decode(Eval(x.graph, ds)[j]) = Decode(Eval(x.graph, vs)[j])
  BY <1>2, <1>5, <1>6, <1>7, EvalAssumption
<1>9. DOMAIN result' = DOMAIN x.outs
  BY <1>3, <1>6
<1>10. \A j \in DOMAIN result' : Decode(result'[j]) = Decode(Outcome(x, views[1])[j])
  BY <1>3, <1>8, <1>9 DEF Outcome, vs
<1>11. Overwrite(views[1], x.outs, result', 0) = views[1]
  BY <1>4, OverwriteNone
<1>12. StoreView' = StoreView /\ Current' = Current
  BY <1>1 DEF StoreView, Current
<1>13. StoreIsFirstView'
  BY <1>1, <1>4, <1>10, <1>11, <1>12 DEF StoreIsFirstView, Outcome
<1>14. Mentioned' /\ ViewsAreSerial' /\ QuietIsCurrent'
  BY <1>1, <1>4, <1>12 DEF SerialInv, Mentioned, ViewsAreSerial, QuietIsCurrent, Exists
<1>. QED
  BY <1>13, <1>14 DEF SerialInv

LEMMA SerialCommit == TypeInv /\ SerialInv /\ CommitOutput => SerialInv'
<1>. SUFFICES ASSUME TypeInv, SerialInv, CommitOutput PROVE SerialInv'
  OBVIOUS
<1>. DEFINE x == execs[1]
            out == x.outs[committed + 1]
            q == result[committed + 1]
            t == IF store[out] = Null THEN DefaultType ELSE store[out].type
<1>1. /\ phase = "commit" /\ execs # <<>> /\ committed \in Nat /\ committed < Len(x.outs)
      /\ DOMAIN result = DOMAIN x.outs /\ result \in Seq(Digest)
      /\ Outstanding = execs
  BY DEF CommitOutput, CommitTx, TypeInv, TypeOK, WorkerShape, Outstanding
<1>2. /\ Head(execs) = x /\ x \in Execution /\ x.outs \in Seq(Ciphertext) /\ Len(x.outs) \in Nat
      /\ DOMAIN x.outs = 1..Len(x.outs)
  BY <1>1, HeadExecution
<1>3. out \in Ciphertext /\ q \in Digest
  BY <1>1, <1>2
<1>4. t \in Type
  BY <1>3, TypeAssumption DEF TypeInv, TypeOK, Entry
<1>5. /\ account' = [account EXCEPT ![out].status = "verified", ![out].digest = q]
      /\ store' = [store EXCEPT ![out] = [digest |-> q, type |-> t]]
      /\ executions' = executions
  BY <1>2 DEF CommitOutput, CommitTx, NewDigest, NewEntry, LastOutput, queue
<1>6. /\ views[1] \in View /\ views \in Seq(View) /\ Len(views) = Len(execs) + 1
      /\ execs \in Seq(Execution) /\ Len(execs) \in Nat \ {0}
  BY <1>1, OutstandingType
<1>7. StoreView' = Overwrite(views[1], x.outs, result, committed + 1)
  <2>1. StoreView' = [StoreView EXCEPT ![out] = Decode(q)]
    BY <1>3, <1>4, <1>5, StoreViewSet
  <2>2. StoreView = Overwrite(views[1], x.outs, result, committed)
    BY <1>1 DEF SerialInv, StoreIsFirstView
  <2>. QED
    <3>. HIDE DEF x
    <3>1. Overwrite(views[1], x.outs, result, committed + 1)
            = [Overwrite(views[1], x.outs, result, committed) EXCEPT ![out] = Decode(q)]
      <4>1. committed \in Nat /\ committed < Len(x.outs)
        BY <1>1
      <4>. QED
        BY <4>1, <1>2, <1>6, OverwriteNext
    <3>. QED
      BY <2>1, <2>2, <3>1
<1>8. \A b \in Ciphertext : Exists(b) => Exists(b)'
  BY <1>3, <1>5 DEF Exists, TypeInv, TypeOK, Account
<1>9. ASSUME NEW k \in DOMAIN execs
      PROVE  /\ \A i \in DOMAIN execs[k].ins : execs[k].ins[i] \in Ciphertext /\ Exists(execs[k].ins[i])
             /\ \A j \in DOMAIN execs[k].outs : execs[k].outs[j] \in Ciphertext /\ Exists(execs[k].outs[j])
  <2>1. execs[k] \in Execution
    BY <1>6
  <2>2. /\ \A i \in DOMAIN execs[k].ins : execs[k].ins[i] \in Ciphertext
        /\ \A j \in DOMAIN execs[k].outs : execs[k].outs[j] \in Ciphertext
    BY <2>1, ExecutionShape
  <2>3. /\ \A i \in DOMAIN execs[k].ins : Exists(execs[k].ins[i])
        /\ \A j \in DOMAIN execs[k].outs : Exists(execs[k].outs[j])
    BY <1>1 DEF SerialInv, Mentioned
  <2>. QED
    BY <2>2, <2>3
<1>10. CASE committed + 1 # Len(x.outs)
  <2>1. committed' = committed + 1 /\ UNCHANGED <<phase, result, execs, views>>
    BY <1>2, <1>10 DEF CommitOutput, CommitTx, NewDigest, NewEntry, LastOutput
  <2>2. Outstanding' = execs /\ Current' = Current
    BY <1>1, <2>1 DEF Outstanding, Current
  <2>3. StoreIsFirstView'
    BY <1>1, <1>7, <2>1 DEF SerialInv, StoreIsFirstView, Outcome
  <2>4. Mentioned'
    BY <1>8, <1>9, <2>1, <2>2 DEF Mentioned, Exists
  <2>5. ViewsAreSerial' /\ QuietIsCurrent'
    BY <1>1, <2>1, <2>2 DEF SerialInv, ViewsAreSerial, QuietIsCurrent
  <2>. QED
    BY <2>3, <2>4, <2>5 DEF SerialInv
<1>11. CASE committed + 1 = Len(x.outs)
  <2>1. phase' = "loop" /\ execs' = Tail(execs) /\ views' = Tail(views)
    BY <1>2, <1>11 DEF CommitOutput, CommitTx, NewDigest, NewEntry, LastOutput
  <2>. HIDE DEF x, out, q, t
  <2>2. /\ Outstanding' = Tail(execs)
        /\ DOMAIN Tail(execs) = 1..(Len(execs) - 1)
        /\ \A k \in 1..(Len(execs) - 1) : Tail(execs)[k] = execs[k + 1] /\ k + 1 \in DOMAIN execs
    BY <1>6, <2>1 DEF Outstanding
  <2>3. /\ DOMAIN Tail(views) = 1..Len(execs)
        /\ \A k \in 1..Len(execs) : Tail(views)[k] = views[k + 1] /\ k + 1 \in DOMAIN views
        /\ Current' = Current
    BY <1>6, <2>1 DEF Current
  <2>4. StoreIsFirstView'
    <3>1. \A j \in 1..Len(x.outs) : Decode(result[j]) = Decode(Outcome(x, views[1])[j])
      BY <1>1, <1>2 DEF SerialInv, StoreIsFirstView, x
    <3>2. Overwrite(views[1], x.outs, result, Len(x.outs)) = Apply(x, views[1])
      BY <3>1, <1>2, OverwriteSame DEF Apply, Outcome
    <3>3. 1 \in DOMAIN Outstanding /\ Outstanding[1] = x
      BY <1>1, <1>6 DEF x
    <3>4. views[2] = Apply(x, views[1])
      BY <3>3 DEF SerialInv, ViewsAreSerial
    <3>5. views'[1] = views[2]
      BY <1>6, <2>1, <2>3
    <3>. QED
      BY <1>7, <1>11, <2>1, <3>2, <3>4, <3>5 DEF StoreIsFirstView
  <2>5. Mentioned'
    <3>1. ASSUME NEW k \in 1..(Len(execs) - 1)
          PROVE  /\ \A i \in DOMAIN execs'[k].ins : account'[execs'[k].ins[i]].status # "absent"
                 /\ \A j \in DOMAIN execs'[k].outs : account'[execs'[k].outs[j]].status # "absent"
      BY <1>8, <1>9, <2>1, <2>2 DEF Exists
    <3>2. Outstanding' = execs' /\ DOMAIN execs' = 1..(Len(execs) - 1)
      BY <2>1, <2>2
    <3>. QED
      BY <3>1, <3>2 DEF Mentioned, Exists
  <2>6. ViewsAreSerial'
    <3>1. ASSUME NEW k \in 1..(Len(execs) - 1)
          PROVE  Tail(views)[k + 1] = Apply(Tail(execs)[k], Tail(views)[k])
      <4>1. k + 1 \in 1..Len(execs) /\ k \in 1..Len(execs)
        BY <1>6
      <4>2. views[(k + 1) + 1] = Apply(execs[k + 1], views[k + 1])
        BY <1>1, <2>2 DEF SerialInv, ViewsAreSerial
      <4>. QED
        BY <2>2, <2>3, <4>1, <4>2
    <3>. QED
      BY <2>1, <2>2, <3>1 DEF ViewsAreSerial
  <2>7. QuietIsCurrent'
    <3>1. ASSUME NEW i \in 1..Len(execs), NEW b \in Ciphertext,
                 \A k \in 1..(Len(execs) - 1) : k >= i => b \notin Range(Tail(execs)[k].outs)
          PROVE  Tail(views)[i][b] = Current[b]
      <4>1. ASSUME NEW k \in DOMAIN execs, k >= i + 1
            PROVE  b \notin Range(execs[k].outs)
        <5>1. k - 1 \in 1..(Len(execs) - 1) /\ k - 1 >= i /\ (k - 1) + 1 = k
          BY <1>6, <4>1
        <5>. QED
          BY <2>2, <3>1, <5>1
      <4>2. i + 1 \in DOMAIN views
        BY <2>3
      <4>3. views[i + 1][b] = Current[b]
        BY <1>1, <4>1, <4>2 DEF SerialInv, QuietIsCurrent
      <4>. QED
        BY <2>3, <4>3
    <3>. QED
      BY <2>1, <2>2, <2>3, <3>1 DEF QuietIsCurrent
  <2>. QED
    BY <2>4, <2>5, <2>6, <2>7 DEF SerialInv
<1>. QED
  BY <1>10, <1>11

LEMMA SerialWorker == TypeInv /\ SerialInv /\ ProcessPending => SerialInv'
<1>. SUFFICES ASSUME TypeInv, SerialInv, ProcessPending PROVE SerialInv'
  OBVIOUS
<1>1. CASE Drain \/ StartResponse \/ RespondChunk \/ Return
  <2>1. UNCHANGED <<account, store, views>> /\ phase # "commit" /\ phase' # "commit"
    BY <1>1 DEF Drain, StartResponse, RespondChunk, RespondTx, HasRoom, Return, chain
  <2>2. Outstanding' = Outstanding
    BY <1>1 DEF Drain, StartResponse, RespondChunk, RespondTx, HasRoom, Return, Outstanding, queue, TypeInv, WorkerShape
  <2>3. StoreView' = StoreView
    BY <2>1 DEF StoreView
  <2>. QED
    BY <2>1, <2>2, <2>3, SerialKept DEF Exists
<1>2. ASSUME GiveUp, phase # "idle"
      PROVE  SerialInv'
  <2>1. /\ phase' = "idle" /\ views' = <<StoreView>> /\ store' = store
        /\ executions' = <<>>
    BY <1>2 DEF GiveUp, queue, TypeInv, WorkerShape
  <2>2. Outstanding' = <<>> /\ StoreView' = StoreView /\ Current' = StoreView
    BY <2>1 DEF Outstanding, StoreView, Current
  <2>3. DOMAIN Outstanding' = {} /\ DOMAIN views' = {1} /\ views'[1] = StoreView
    BY <2>1, <2>2
  <2>. HIDE DEF Outstanding
  <2>. QED
    BY <2>1, <2>2, <2>3 DEF SerialInv, Mentioned, StoreIsFirstView, ViewsAreSerial, QuietIsCurrent
<1>. QED
  BY <1>1, <1>2, SerialEvaluate, SerialCommit
  DEF ProcessPending, CiphertextNotFound, GraphError, CommitRejected, ResponseRejected

LEMMA SerialStutter == TypeInv /\ SerialInv /\ UNCHANGED vars => SerialInv'
  BY DEF vars, SerialInv, Mentioned, StoreIsFirstView, ViewsAreSerial, QuietIsCurrent,
         Outstanding, StoreView, Current, Exists, Outcome

LEMMA SerialInductive == Spec => []SerialInv
<1>1. TypeInv /\ ChainInv /\ SerialInv /\ [Next]_vars => SerialInv'
  BY SerialClient, SerialWorker, SerialStutter DEF Next
<1>. QED
  BY SerialInit, <1>1, TypeInductive, ChainInductive, PTL DEF Spec

(* With nothing outstanding the store is the result of running the graphs  *)
(* one after the other, each at once: process_pending is serial although   *)
(* it commits output by output into the store it reads.                    *)
THEOREM SerialExecution == Spec => []SerialResult
<1>1. TypeInv /\ SerialInv => SerialResult
  <2>. SUFFICES ASSUME TypeInv, SerialInv, Outstanding = <<>> PROVE StoreView = Current
    BY DEF SerialResult
  <2>1. phase # "commit"
    BY DEF TypeInv, WorkerShape, Outstanding
  <2>2. Len(views) = 1
    BY OutstandingType
  <2>. QED
    BY <2>1, <2>2 DEF SerialInv, StoreIsFirstView, Current
<1>. QED
  BY <1>1, TypeInductive, SerialInductive, PTL

(* The plaintext the store has for what no outstanding graph writes.       *)
LEMMA QuietStore ==
  ASSUME TypeInv, SerialInv, NEW c \in Ciphertext,
         \A k \in DOMAIN Outstanding : c \notin Range(Outstanding[k].outs)
  PROVE  StoreView[c] = Current[c]
<1>1. views[1][c] = Current[c]
  BY OutstandingType DEF SerialInv, QuietIsCurrent
<1>2. CASE phase = "commit"
  <2>1. /\ execs # <<>> /\ execs \in Seq(Execution) /\ Outstanding = execs
        /\ committed \in Nat /\ committed < Len(execs[1].outs)
    BY <1>2 DEF TypeInv, TypeOK, WorkerShape, Outstanding
  <2>2. c \notin Range(execs[1].outs) /\ DOMAIN execs[1].outs = 1..Len(execs[1].outs)
    BY <2>1, HeadExecution
  <2>3. \A j \in 1..committed : execs[1].outs[j] # c
    BY <2>1, <2>2, HeadExecution DEF Range
  <2>. QED
    BY <1>1, <1>2, <2>1, <2>3, OverwriteOther DEF SerialInv, StoreIsFirstView
<1>3. CASE phase # "commit"
  BY <1>1, <1>3 DEF SerialInv, StoreIsFirstView
<1>. QED
  BY <1>2, <1>3

(* A client that sees a ciphertext verified, and knows of no outstanding   *)
(* graph that writes it, sees the value of the serial execution.           *)
THEOREM VerifiedCurrent == Spec => []VerifiedIsCurrent
<1>1. TypeInv /\ ChainInv /\ SerialInv => VerifiedIsCurrent
  BY QuietStore DEF ChainInv, StoreAgreesWithChain, StoreView, VerifiedIsCurrent
<1>. QED
  BY <1>1, TypeInductive, ChainInductive, SerialInductive, PTL

(* An answer is never older than the graphs sent before it.                *)
THEOREM AnswersAreCurrent == Spec => AnswerIsCurrent
<1>. DEFINE A == \A r \in Request :
       request[r] # Null /\ request'[r].written > request[r].written
         => request'[r].value = Current[request[r].ct]
<1>1. TypeInv /\ SerialInv /\ [Next]_vars => A
  <2>. SUFFICES ASSUME TypeInv, SerialInv, [Next]_vars, NEW r \in Request, request[r] # Null,
                       request'[r].written > request[r].written
                PROVE  request'[r].value = Current[request[r].ct]
    OBVIOUS
  <2>1. request[r] \in DecryptionRequest
    BY DEF TypeInv, TypeOK
  <2>2. request'[r] # request[r]
    BY <2>1 DEF DecryptionRequest
  <2>3. CASE RespondChunk
    <3>. DEFINE d == decs[1]
    <3>1. phase = "respond" /\ execs = <<>> /\ decs # <<>> /\ store[d.ct] # Null
      BY <2>3 DEF RespondChunk, RespondTx, HasRoom, TypeInv, WorkerShape
    <3>2. Head(decs) = d /\ d.req \in Request /\ d.ct \in Ciphertext /\ request[d.req].ct = d.ct
          /\ request[d.req] \in DecryptionRequest
      BY <3>1, HeadDecryption DEF Decryption
    <3>. HIDE DEF d
    <3>3. request' = [request EXCEPT ![d.req].written = @ + (ChunkEnd - offset),
                                     ![d.req].value = Decode(store[d.ct].digest)]
      BY <2>3, <3>2 DEF RespondChunk, RespondTx, HasRoom
    <3>4. r = d.req
      BY <2>2, <3>2, <3>3 DEF TypeInv, TypeOK
    <3>5. request'[r].value = Decode(store[d.ct].digest)
      BY <3>2, <3>3, <3>4 DEF TypeInv, TypeOK, DecryptionRequest
    <3>6. StoreView = Current
      <4>1. Outstanding = <<>> /\ Len(views) = 1
        BY <3>1, OutstandingType DEF Outstanding
      <4>. QED
        BY <3>1, <4>1 DEF SerialInv, StoreIsFirstView, Current
    <3>. QED
      BY <3>1, <3>2, <3>4, <3>5, <3>6 DEF StoreView
  <2>4. CASE \E q \in Request, c \in Ciphertext : RequestDecryption(q, c)
    <3>1. \A q \in Request : request[q] = Null \/ request'[q] = request[q]
      BY <2>4 DEF RequestDecryption, RequestTx, TypeInv, TypeOK
    <3>. QED
      BY <2>2, <3>1
  <2>5. CASE UNCHANGED request
    BY <2>2, <2>5
  <2>. QED
    BY <2>3, <2>4, <2>5
    DEF Next, Client, ProcessPending, CreateInput, InputTx, CreatePlaintext, PlaintextTx, CpiCreatePlaintext, Register,
        ExecuteGraph, GraphTx, Drain, Evaluate, CommitOutput, CommitTx, StartResponse, Return, CiphertextNotFound,
        GraphError, CommitRejected, ResponseRejected, GiveUp, vars, chain
<1>. QED
  BY <1>1, TypeInductive, SerialInductive, PTL DEF Spec, AnswerIsCurrent

(* A complete request is never written again.                              *)
THEOREM CompletedStays == Spec => CompletedIsFinal
<1>. DEFINE A == \A r \in Request : Complete(r) => request'[r] = request[r]
<1>1. TypeInv /\ [Next]_vars => A
  <2>. SUFFICES ASSUME TypeInv, [Next]_vars, NEW r \in Request, Complete(r)
                PROVE  request'[r] = request[r]
    OBVIOUS
  <2>1. request[r] \in DecryptionRequest /\ request[r].written = request[r].total
    BY DEF TypeInv, TypeOK, Complete
  <2>2. CASE RespondChunk
    <3>. DEFINE d == decs[1]
    <3>1. phase = "respond" /\ decs # <<>> /\ offset \in Nat
      BY <2>2 DEF RespondChunk, RespondTx, HasRoom, TypeInv, WorkerShape, TypeOK
    <3>2. Head(decs) = d /\ d.req \in Request
      BY <3>1, HeadDecryption DEF Decryption
    <3>. HIDE DEF d
    <3>3. request' = [request EXCEPT ![d.req].written = @ + (ChunkEnd - offset),
                                     ![d.req].value = Decode(store[d.ct].digest)]
          /\ request[d.req].written + (ChunkEnd - offset) <= request[d.req].total
      BY <2>2, <3>1, <3>2 DEF RespondChunk, RespondTx, HasRoom, Room
    <3>4. ChunkEnd \in Nat /\ offset < ChunkEnd
      BY <3>1, ChunkInside
    <3>5. r # d.req
      BY <2>1, <3>1, <3>3, <3>4 DEF DecryptionRequest
    <3>. QED
      BY <3>2, <3>3, <3>5 DEF TypeInv, TypeOK
  <2>3. CASE \E q \in Request, c \in Ciphertext : RequestDecryption(q, c)
    <3>1. \A q \in Request : request[q] = Null \/ request'[q] = request[q]
      BY <2>3 DEF RequestDecryption, RequestTx, TypeInv, TypeOK
    <3>. QED
      BY <3>1 DEF Complete
  <2>4. CASE UNCHANGED request
    BY <2>4
  <2>. QED
    BY <2>2, <2>3, <2>4
    DEF Next, Client, ProcessPending, CreateInput, InputTx, CreatePlaintext, PlaintextTx, CpiCreatePlaintext, Register,
        ExecuteGraph, GraphTx, Drain, Evaluate, CommitOutput, CommitTx, StartResponse, Return, CiphertextNotFound,
        GraphError, CommitRejected, ResponseRejected, GiveUp, vars, chain
<1>. QED
  BY <1>1, TypeInductive, PTL DEF Spec, CompletedIsFinal

-----------------------------------------------------------------------------
(* Answers and the abstract service.                                       *)

(* No request is queued twice, and one that waits has no answer yet; the   *)
(* one in hand has as many bytes as were sent, of what the store holds.    *)
EachOnce(ds) == \A i, j \in DOMAIN ds : ds[i].req = ds[j].req => i = j
Unanswered(ds, n) == \A k \in DOMAIN ds : k > n => request[ds[k].req].written = 0

AnswerInv ==
  /\ EachOnce(decryptions) /\ EachOnce(decs)
  /\ Unanswered(decryptions, 0)
  /\ Unanswered(decs, IF phase = "respond" THEN 1 ELSE 0)
  /\ phase = "respond" =>
       /\ request[decs[1].req].written = offset
       /\ offset > 0 => request[decs[1].req].value = Decode(store[decs[1].ct].digest)

-----------------------------------------------------------------------------
LEMMA AnswerInit == Init => AnswerInv
BY DEF Init, AnswerInv, EachOnce, Unanswered

(* A client acts while nothing is in hand, and its request is a new one.   *)
LEMMA AnswerClient == TypeInv /\ AnswerInv /\ Client => AnswerInv'
<1>. SUFFICES ASSUME TypeInv, AnswerInv, Client PROVE AnswerInv'
  OBVIOUS
<1>1. ASSUME UNCHANGED <<request, decryptions, decs, phase>>, phase = "idle"
      PROVE  AnswerInv'
  BY <1>1 DEF AnswerInv, EachOnce, Unanswered
<1>2. ASSUME NEW r \in Request, NEW c \in Ciphertext, RequestDecryption(r, c)
      PROVE  AnswerInv'
  <2>. DEFINE new == [req |-> r, ct |-> c, type |-> store[c].type]
              fresh == [ct |-> c, digest |-> account[c].digest, total |-> Width[account[c].type],
                        written |-> 0, value |-> ZeroValue]
  <2>1. /\ phase = "idle" /\ request[r] = Null /\ decs = <<>>
        /\ request' = [request EXCEPT ![r] = fresh]
        /\ decryptions' = Append(decryptions, new)
        /\ UNCHANGED <<decs, phase>>
    BY <1>2 DEF RequestDecryption, RequestTx, worker, TypeInv, WorkerShape
  <2>2. \A k \in DOMAIN decryptions : decryptions[k].req \in Request /\ decryptions[k].req # r
    <3>. TAKE k \in DOMAIN decryptions
    <3>1. decryptions[k] \in Decryption
      BY DEF TypeInv, TypeOK
    <3>2. decryptions[k].req \in Request /\ request[decryptions[k].req] # Null
      BY <3>1 DEF Decryption, TypeInv, RequestShape, Asks
    <3>. QED
      BY <2>1, <3>2
  <2>3. new.req = r /\ fresh.written = 0
    OBVIOUS
  <2>. HIDE DEF new, fresh
  <2>4. decryptions \in Seq(Decryption)
    BY DEF TypeInv, TypeOK
  <2>5. \A k \in DOMAIN decryptions' :
          \/ k \in DOMAIN decryptions /\ decryptions'[k] = decryptions[k]
          \/ k = Len(decryptions) + 1 /\ decryptions'[k] = new
    BY <2>1, <2>4
  <2>6. EachOnce(decryptions)'
    BY <2>2, <2>3, <2>4, <2>5 DEF EachOnce, AnswerInv
  <2>7. Unanswered(decryptions, 0)'
    BY <2>1, <2>2, <2>3, <2>4, <2>5 DEF Unanswered, AnswerInv, TypeInv, TypeOK
  <2>. QED
    BY <2>1, <2>6, <2>7 DEF AnswerInv, EachOnce, Unanswered
<1>. QED
  BY <1>1, <1>2
  DEF Client, CreateInput, CreatePlaintext, CpiCreatePlaintext, Register, ExecuteGraph, queue, worker, chain

(* A chunk is written to the request in hand only, behind what it has.     *)
LEMMA ChunkWritten ==
  ASSUME TypeInv, AnswerInv, RespondChunk
  PROVE  /\ decs # <<>> /\ decs[1] \in Decryption /\ Head(decs) = decs[1]
         /\ request[decs[1].req] \in DecryptionRequest
         /\ request[decs[1].req].ct = decs[1].ct
         /\ execs = <<>> /\ store[decs[1].ct] # Null
         /\ ChunkEnd \in Nat /\ offset \in Nat /\ offset < ChunkEnd
         /\ request' = [request EXCEPT ![decs[1].req] =
              [request[decs[1].req] EXCEPT !.written = ChunkEnd,
                                           !.value = Decode(store[decs[1].ct].digest)]]
<1>. DEFINE d == decs[1]
<1>1. phase = "respond" /\ decs # <<>> /\ execs = <<>> /\ offset \in Nat /\ store[d.ct] # Null
  BY DEF RespondChunk, RespondTx, HasRoom, TypeInv, WorkerShape, TypeOK
<1>2. /\ Head(decs) = d /\ d \in Decryption /\ d.req \in Request
      /\ request[d.req] \in DecryptionRequest /\ request[d.req].ct = d.ct
  BY <1>1, HeadDecryption DEF Decryption
<1>3. ChunkEnd \in Nat /\ offset < ChunkEnd
  BY <1>1, ChunkInside
<1>4. request[d.req].written = offset
  BY <1>1 DEF AnswerInv
<1>5. request' = [request EXCEPT ![d.req].written = @ + (ChunkEnd - offset),
                                 ![d.req].value = Decode(store[d.ct].digest)]
  BY <1>2 DEF RespondChunk, RespondTx, HasRoom
<1>. HIDE DEF d
<1>6. request[d.req].written + (ChunkEnd - offset) = ChunkEnd
  BY <1>1, <1>3, <1>4
<1>7. request \in [Request -> DecryptionRequest \cup {Null}]
  BY DEF TypeInv, TypeOK
<1>8. request' = [request EXCEPT ![d.req] =
        [request[d.req] EXCEPT !.written = ChunkEnd, !.value = Decode(store[d.ct].digest)]]
  BY <1>2, <1>5, <1>6, <1>7
<1>. QED
  BY <1>1, <1>2, <1>3, <1>8 DEF d

LEMMA AnswerChunk == TypeInv /\ AnswerInv /\ RespondChunk => AnswerInv'
<1>. SUFFICES ASSUME TypeInv, AnswerInv, RespondChunk PROVE AnswerInv'
  OBVIOUS
<1>. DEFINE d == decs[1]
            new == [request[d.req] EXCEPT !.written = ChunkEnd, !.value = Decode(store[d.ct].digest)]
<1>1. /\ decs # <<>> /\ d \in Decryption /\ d.req \in Request /\ Head(decs) = d
      /\ request[d.req] \in DecryptionRequest
      /\ ChunkEnd \in Nat /\ offset \in Nat /\ offset < ChunkEnd
      /\ request' = [request EXCEPT ![d.req] = new]
  BY ChunkWritten DEF Decryption
<1>2. new.written = ChunkEnd /\ new.value = Decode(store[d.ct].digest)
  BY <1>1 DEF DecryptionRequest
<1>3. request'[d.req] = new /\ \A r \in Request : r # d.req => request'[r] = request[r]
  BY <1>1 DEF TypeInv, TypeOK
<1>. HIDE DEF new
<1>4. decs \in Seq(Decryption) /\ \A k \in DOMAIN decs : decs[k].req \in Request
  <2>1. decs \in Seq(Decryption) /\ \A k \in DOMAIN decs : decs[k] \in Decryption
    BY DEF TypeInv, TypeOK
  <2>. QED
    BY <2>1 DEF Decryption
<1>5. phase = "respond" /\ decryptions = <<>> /\ UNCHANGED <<store, decryptions>>
  BY DEF RespondChunk, RespondTx, HasRoom, queue, TypeInv, WorkerShape
<1>6. \A k \in DOMAIN decs : k > 1 => decs[k].req # d.req /\ request'[decs[k].req].written = 0
  BY <1>1, <1>3, <1>4, <1>5 DEF AnswerInv, EachOnce, Unanswered
<1>7. EachOnce(decryptions)' /\ Unanswered(decryptions, 0)'
  BY <1>5 DEF EachOnce, Unanswered
<1>8. CASE ChunkEnd < Width[d.type]
  <2>1. offset' = ChunkEnd /\ UNCHANGED <<phase, decs>>
    BY <1>1, <1>8 DEF RespondChunk, RespondTx, HasRoom
  <2>2. EachOnce(decs)' /\ Unanswered(decs, 1)'
    BY <1>6, <2>1 DEF AnswerInv, EachOnce, Unanswered
  <2>. QED
    BY <1>2, <1>3, <1>5, <1>7, <2>1, <2>2 DEF AnswerInv
<1>9. CASE ~(ChunkEnd < Width[d.type])
  <2>1. phase' = "loop" /\ decs' = Tail(decs)
    BY <1>1, <1>9 DEF RespondChunk, RespondTx, HasRoom
  <2>2. \A k \in DOMAIN decs' : k \in Nat \ {0} /\ k + 1 \in DOMAIN decs /\ decs'[k] = decs[k + 1]
    BY <1>1, <1>4, <2>1
  <2>3. EachOnce(decs)' /\ Unanswered(decs, 0)'
    BY <1>6, <2>2 DEF AnswerInv, EachOnce, Unanswered
  <2>. QED
    BY <1>7, <2>1, <2>3 DEF AnswerInv
<1>. QED
  BY <1>8, <1>9

LEMMA AnswerWorker == TypeInv /\ AnswerInv /\ ProcessPending => AnswerInv'
<1>. SUFFICES ASSUME TypeInv, AnswerInv, ProcessPending PROVE AnswerInv'
  OBVIOUS
<1>1. CASE Drain
  BY <1>1 DEF Drain, chain, AnswerInv, EachOnce, Unanswered, TypeInv, WorkerShape
<1>2. CASE Evaluate \/ CommitOutput \/ Return
  <2>1. /\ phase \in {"loop", "commit"} /\ phase' # "respond"
        /\ UNCHANGED <<request, decryptions, decs>>
    BY <1>2 DEF Evaluate, CommitOutput, CommitTx, Return, LastOutput, chain, queue
  <2>. QED
    BY <2>1 DEF AnswerInv, EachOnce, Unanswered
<1>3. CASE StartResponse
  <2>1. /\ phase = "loop" /\ decs # <<>> /\ offset' = 0 /\ phase' = "respond"
        /\ UNCHANGED <<request, decryptions, decs>>
    BY <1>3 DEF StartResponse, chain, queue
  <2>2. 1 \in DOMAIN decs
    BY <2>1 DEF TypeInv, TypeOK
  <2>3. Unanswered(decs, 0)
    BY <2>1 DEF AnswerInv
  <2>4. request[decs[1].req].written = 0 /\ Unanswered(decs, 1)'
    BY <2>1, <2>2, <2>3 DEF Unanswered, TypeInv, TypeOK
  <2>5. EachOnce(decryptions)' /\ EachOnce(decs)' /\ Unanswered(decryptions, 0)'
    BY <2>1 DEF AnswerInv, EachOnce, Unanswered
  <2>. QED
    BY <2>1, <2>4, <2>5 DEF AnswerInv
<1>4. ASSUME GiveUp, phase # "idle" PROVE AnswerInv'
  BY <1>4 DEF GiveUp, chain, queue, AnswerInv, EachOnce, Unanswered, TypeInv, WorkerShape
<1>. QED
  BY <1>1, <1>2, <1>3, <1>4, AnswerChunk
  DEF ProcessPending, CiphertextNotFound, GraphError, CommitRejected, ResponseRejected

LEMMA AnswerInductive == Spec => []AnswerInv
<1>1. TypeInv /\ AnswerInv /\ UNCHANGED vars => AnswerInv'
  BY DEF vars, AnswerInv, EachOnce, Unanswered
<1>2. TypeInv /\ AnswerInv /\ [Next]_vars => AnswerInv'
  BY <1>1, AnswerClient, AnswerWorker DEF Next
<1>. QED
  BY AnswerInit, <1>2, TypeInductive, PTL DEF Spec

(* The bytes a request has are a prefix of one plaintext: no transaction   *)
(* of a client comes between two chunks, and an answer a rejected          *)
(* transaction has cut off is not taken up again by a later run.           *)
THEOREM AnswersAreWhole == Spec => AnswerIsWhole
<1>. DEFINE A == \A r \in Request :
       request[r] # Null /\ request[r].written > 0 => request'[r] \in
         {request[r], [request[r] EXCEPT !.written = request'[r].written]}
<1>1. TypeInv /\ AnswerInv /\ [Next]_vars => A
  <2>. SUFFICES ASSUME TypeInv, AnswerInv, [Next]_vars, NEW r \in Request,
                       request[r] # Null, request[r].written > 0, request'[r] # request[r]
                PROVE  request'[r] = [request[r] EXCEPT !.written = request'[r].written]
    OBVIOUS
  <2>1. CASE RespondChunk
    <3>. DEFINE d == decs[1]
                new == [request[d.req] EXCEPT !.written = ChunkEnd,
                                              !.value = Decode(store[d.ct].digest)]
    <3>1. /\ d.req \in Request /\ request[d.req] \in DecryptionRequest
          /\ request' = [request EXCEPT ![d.req] = new]
      BY <2>1, ChunkWritten DEF Decryption
    <3>2. r = d.req
      BY <3>1 DEF TypeInv, TypeOK
    <3>3. request'[r] = new
      BY <3>1, <3>2 DEF TypeInv, TypeOK
    <3>4. request[r].value = Decode(store[d.ct].digest)
      BY <2>1, <3>2 DEF RespondChunk, RespondTx, HasRoom, AnswerInv
    <3>5. new = [request[r] EXCEPT !.written = ChunkEnd, !.value = request[r].value]
      BY <3>2, <3>4
    <3>6. request[r] \in DecryptionRequest
      BY <3>1, <3>2
    <3>. HIDE DEF new
    <3>7. new = [request[r] EXCEPT !.written = ChunkEnd] /\ new.written = ChunkEnd
      BY <3>5, <3>6 DEF DecryptionRequest
    <3>. QED
      BY <3>3, <3>7
  <2>2. CASE \E q \in Request, c \in Ciphertext : RequestDecryption(q, c)
    <3>1. \A q \in Request : request[q] = Null \/ request'[q] = request[q]
      BY <2>2 DEF RequestDecryption, RequestTx, TypeInv, TypeOK
    <3>. QED
      BY <3>1
  <2>3. CASE UNCHANGED request
    BY <2>3
  <2>. QED
    BY <2>1, <2>2, <2>3
    DEF Next, Client, ProcessPending, CreateInput, InputTx, CreatePlaintext, PlaintextTx, CpiCreatePlaintext, Register,
        ExecuteGraph, GraphTx, Drain, Evaluate, CommitOutput, CommitTx, StartResponse, Return, CiphertextNotFound,
        GraphError, CommitRejected, ResponseRejected, GiveUp, vars, chain
<1>. QED
  BY <1>1, TypeInductive, AnswerInductive, PTL DEF Spec, AnswerIsWhole

-----------------------------------------------------------------------------
(* The refinement holds when nothing goes wrong, and when the default type *)
(* an output is filed under is as wide as its own.                         *)
NoMishap == Mishap = {} /\ \A t \in Type : Width[t] = Width[DefaultType]

(* What the k-th of the executions xs may read: it is in the store st, or  *)
(* an earlier execution writes it.                                         *)
Supplied(st, xs, c, k) == st[c] # Null \/ \E j \in 1..(k - 1) : c \in Range(xs[j].outs)
AllSupplied(st, xs) ==
  \A k \in DOMAIN xs : \A i \in DOMAIN xs[k].ins : Supplied(st, xs, xs[k].ins[i], k)

SupplyInv ==
  /\ AllSupplied(store, Outstanding)
  /\ phase = "commit" => \A j \in 1..committed : store[execs[1].outs[j]] # Null
  /\ \A k \in DOMAIN decryptions : store[decryptions[k].ct] # Null
  /\ \A k \in DOMAIN decs : store[decs[k].ct] # Null

(* A request is for a ciphertext there is, and as long as any plaintext.   *)
RequestInv ==
  \A r \in Request : request[r] # Null =>
    Exists(request[r].ct) /\ request[r].total = Width[DefaultType]

ServiceInv == TypeInv /\ SerialInv /\ AnswerInv /\ SupplyInv /\ RequestInv

-----------------------------------------------------------------------------
LEMMA SupplyInit == Init => SupplyInv /\ RequestInv
BY DEF Init, SupplyInv, RequestInv, Outstanding, AllSupplied

(* The store forgets nothing.                                              *)
LEMMA StoreGrows ==
  ASSUME TypeInv, [Next]_vars
  PROVE  \A c \in Ciphertext : store[c] # Null => store'[c] # Null
<1>1. CASE UNCHANGED store
  BY <1>1
<1>2. ASSUME NEW c \in Ciphertext, NEW e \in Entry, store' = [store EXCEPT ![c] = e]
      PROVE  \A b \in Ciphertext : store[b] # Null => store'[b] # Null
  BY <1>2, NullAssumption DEF TypeInv, TypeOK
<1>3. ASSUME NEW c \in Ciphertext, NEW v \in Value, NEW t \in Type,
             CreateInput(c, v, t) \/ CreatePlaintext(c, v, t)
      PROVE  \A b \in Ciphertext : store[b] # Null => store'[b] # Null
  <2>1. [digest |-> v, type |-> t] \in Entry
    BY DEF Entry, Digest
  <2>. QED
    BY <1>2, <1>3, <2>1 DEF CreateInput, CreatePlaintext
<1>4. ASSUME NEW c \in Ciphertext, Register(c)
      PROVE  \A b \in Ciphertext : store[b] # Null => store'[b] # Null
  <2>1. [digest |-> account[c].digest, type |-> account[c].type] \in Entry
    BY DEF Entry, TypeInv, TypeOK, Account
  <2>. QED
    BY <1>2, <1>4, <2>1 DEF Register
<1>5. ASSUME CommitOutput
      PROVE  \A b \in Ciphertext : store[b] # Null => store'[b] # Null
  <2>1. /\ phase = "commit" /\ execs # <<>> /\ committed \in Nat
        /\ committed < Len(execs[1].outs) /\ DOMAIN result = DOMAIN execs[1].outs
        /\ result \in Seq(Digest)
    BY <1>5 DEF CommitOutput, TypeInv, TypeOK, WorkerShape
  <2>2. /\ Head(execs) = execs[1] /\ execs[1].outs \in Seq(Ciphertext)
        /\ Len(execs[1].outs) \in Nat
    BY <2>1, HeadExecution
  <2>3. execs[1].outs[committed + 1] \in Ciphertext /\ NewDigest \in Digest
    BY <2>1, <2>2 DEF NewDigest
  <2>4. NewEntry(execs[1].outs[committed + 1]) \in Entry
    BY <2>3, TypeAssumption DEF NewEntry, Entry, TypeInv, TypeOK
  <2>. QED
    BY <1>2, <1>5, <2>2, <2>3, <2>4 DEF CommitOutput
<1>. QED
  BY <1>1, <1>3, <1>4, <1>5
  DEF Next, Client, ProcessPending, CpiCreatePlaintext, ExecuteGraph, RequestDecryption,
      Drain, Evaluate, StartResponse, RespondChunk, Return, CiphertextNotFound,
      GraphError, CommitRejected, ResponseRejected, GiveUp, vars, chain

(* Nothing is missing in the loop, and a chunk has room: no run of         *)
(* process_pending is left half way.                                       *)
LEMMA NothingGivenUp ==
  ASSUME ServiceInv, NoMishap, ProcessPending
  PROVE  \/ Drain \/ Evaluate \/ CommitOutput \/ StartResponse \/ RespondChunk \/ Return
<1>1. phase = "loop" => ~Missing
  <2>. SUFFICES ASSUME phase = "loop", NEW c \in Needed PROVE store[c] # Null
    BY DEF Missing
  <2>1. CASE execs # <<>>
    <3>1. Outstanding = execs /\ 1 \in DOMAIN execs /\ Head(execs) = execs[1]
      BY <2>1 DEF Outstanding, ServiceInv, TypeInv, TypeOK
    <3>2. PICK i \in DOMAIN execs[1].ins : c = execs[1].ins[i]
      BY <2>1, <3>1 DEF Needed, Range
    <3>3. Supplied(store, execs, c, 1)
      BY <3>1, <3>2 DEF ServiceInv, SupplyInv, AllSupplied
    <3>. QED
      BY <3>3 DEF Supplied
  <2>2. CASE execs = <<>> /\ decs # <<>>
    <3>1. c = decs[1].ct /\ 1 \in DOMAIN decs
      BY <2>2 DEF Needed, ServiceInv, TypeInv, TypeOK
    <3>. QED
      BY <3>1 DEF ServiceInv, SupplyInv
  <2>. QED
    BY <2>1, <2>2 DEF Needed
<1>2. phase = "respond" => Room
  <2>. SUFFICES ASSUME phase = "respond" PROVE Room
    OBVIOUS
  <2>1. decs # <<>> /\ offset \in Nat /\ request[decs[1].req].written = offset
    BY DEF ServiceInv, TypeInv, TypeOK, WorkerShape, AnswerInv
  <2>2. /\ Head(decs) = decs[1] /\ decs[1] \in Decryption /\ decs[1].req \in Request
        /\ request[decs[1].req] \in DecryptionRequest
    BY <2>1, HeadDecryption DEF ServiceInv, Decryption
  <2>3. ChunkEnd \in Nat /\ offset < ChunkEnd /\ ChunkEnd <= Width[decs[1].type]
    BY ChunkInside DEF ServiceInv
  <2>4. request[decs[1].req].total = Width[decs[1].type]
    BY <2>2, NullAssumption DEF ServiceInv, RequestInv, NoMishap, Decryption
  <2>. QED
    BY <2>1, <2>2, <2>3, <2>4 DEF Room, HasRoom, DecryptionRequest
<1>. QED
  BY <1>1, <1>2
  DEF ProcessPending, CiphertextNotFound, GraphError, CommitRejected, ResponseRejected, NoMishap

-----------------------------------------------------------------------------
(* What is supplied stays so: as the store grows, when an execution joins  *)
(* the queue, and when the first leaves it with all it writes stored.      *)
LEMMA SuppliedGrows ==
  ASSUME NEW st, NEW st2, NEW xs \in Seq(Execution), AllSupplied(st, xs),
         \A c \in Ciphertext : st[c] # Null => st2[c] # Null
  PROVE  AllSupplied(st2, xs)
<1>. SUFFICES ASSUME NEW k \in DOMAIN xs, NEW i \in DOMAIN xs[k].ins
              PROVE  Supplied(st2, xs, xs[k].ins[i], k)
  BY DEF AllSupplied
<1>1. xs[k].ins[i] \in Ciphertext
  BY ExecutionShape
<1>2. Supplied(st, xs, xs[k].ins[i], k)
  BY DEF AllSupplied
<1>. QED
  BY <1>1, <1>2 DEF Supplied

LEMMA SuppliedAppend ==
  ASSUME NEW st, NEW xs \in Seq(Execution), NEW x \in Execution, AllSupplied(st, xs),
         \A i \in DOMAIN x.ins :
           st[x.ins[i]] # Null \/ \E k \in DOMAIN xs : x.ins[i] \in Range(xs[k].outs)
  PROVE  AllSupplied(st, Append(xs, x))
<1>. DEFINE ys == Append(xs, x)
            n == Len(xs)
<1>1. /\ n \in Nat /\ DOMAIN xs = 1..n /\ DOMAIN ys = 1..(n + 1)
      /\ \A k \in 1..n : ys[k] = xs[k]
      /\ ys[n + 1] = x
  OBVIOUS
<1>. HIDE DEF ys, n
<1>2. ASSUME NEW k \in 1..n, NEW i \in DOMAIN ys[k].ins
      PROVE  Supplied(st, ys, ys[k].ins[i], k)
  <2>1. Supplied(st, xs, ys[k].ins[i], k)
    BY <1>1, <1>2 DEF AllSupplied
  <2>2. \A j \in 1..(k - 1) : ys[j] = xs[j]
    BY <1>1
  <2>. QED
    BY <2>1, <2>2 DEF Supplied
<1>3. ASSUME NEW i \in DOMAIN x.ins
      PROVE  Supplied(st, ys, x.ins[i], n + 1)
  <2>1. CASE st[x.ins[i]] # Null
    BY <2>1 DEF Supplied
  <2>2. ASSUME NEW k \in DOMAIN xs, x.ins[i] \in Range(xs[k].outs)
        PROVE  Supplied(st, ys, x.ins[i], n + 1)
    <3>1. k \in 1..((n + 1) - 1) /\ x.ins[i] \in Range(ys[k].outs)
      BY <1>1, <2>2
    <3>. QED
      BY <3>1 DEF Supplied
  <2>. QED
    BY <2>1, <2>2
<1>4. \A k \in DOMAIN ys : k \in 1..n \/ k = n + 1
  BY <1>1
<1>5. AllSupplied(st, ys)
  BY <1>1, <1>2, <1>3, <1>4 DEF AllSupplied
<1>. QED
  BY <1>5 DEF ys

LEMMA SuppliedTail ==
  ASSUME NEW st, NEW st2, NEW xs \in Seq(Execution), xs # <<>>, AllSupplied(st, xs),
         \A c \in Ciphertext : st[c] # Null => st2[c] # Null,
         \A j \in DOMAIN xs[1].outs : st2[xs[1].outs[j]] # Null
  PROVE  AllSupplied(st2, Tail(xs))
<1>. DEFINE ys == Tail(xs)
<1>1. \A k \in DOMAIN ys : k \in Nat \ {0} /\ k + 1 \in DOMAIN xs /\ ys[k] = xs[k + 1]
  OBVIOUS
<1>2. \A k \in DOMAIN ys : \A j \in 1..(k - 1) : j \in DOMAIN ys
  OBVIOUS
<1>. HIDE DEF ys
<1>3. ASSUME NEW k \in DOMAIN ys, NEW i \in DOMAIN ys[k].ins
      PROVE  Supplied(st2, ys, ys[k].ins[i], k)
  <2>. DEFINE c == ys[k].ins[i]
  <2>1. k \in Nat \ {0} /\ k + 1 \in DOMAIN xs /\ ys[k] = xs[k + 1] /\ xs[k + 1] \in Execution
    BY <1>1
  <2>2. c \in Ciphertext
    BY <2>1, ExecutionShape
  <2>3. Supplied(st, xs, c, k + 1)
    BY <2>1 DEF AllSupplied
  <2>. HIDE DEF c
  <2>4. ASSUME st[c] # Null
        PROVE  Supplied(st2, ys, c, k)
    BY <2>2, <2>4 DEF Supplied
  <2>5. ASSUME NEW j \in 1..k, c \in Range(xs[j].outs)
        PROVE  Supplied(st2, ys, c, k)
    <3>1. CASE j = 1
      BY <2>5, <3>1 DEF Supplied, Range
    <3>2. CASE j # 1
      <4>1. j - 1 \in 1..(k - 1) /\ (j - 1) + 1 = j
        BY <2>1, <3>2
      <4>2. ys[j - 1] = xs[j]
        BY <1>1, <1>2, <4>1
      <4>. QED
        BY <2>5, <4>1, <4>2 DEF Supplied
    <3>. QED
      BY <3>1, <3>2
  <2>6. (k + 1) - 1 = k
    BY <2>1
  <2>. QED
    BY <2>3, <2>4, <2>5, <2>6 DEF Supplied, c
<1>4. AllSupplied(st2, ys)
  BY <1>3 DEF AllSupplied
<1>. QED
  BY <1>4 DEF ys

LEMMA SupplyKept ==
  ASSUME TypeInv, SupplyInv, [Next]_vars, Outstanding' = Outstanding,
         phase' = "commit" => committed' = 0,
         \/ UNCHANGED <<decryptions, decs>>
         \/ decs' = decryptions /\ decryptions' = <<>>
  PROVE  SupplyInv'
<1>1. AllSupplied(store', Outstanding')
  <2>1. Outstanding \in Seq(Execution) /\ AllSupplied(store, Outstanding)
    BY OutstandingType DEF SupplyInv
  <2>2. \A c \in Ciphertext : store[c] # Null => store'[c] # Null
    BY StoreGrows
  <2>3. AllSupplied(store', Outstanding)
    BY <2>1, <2>2, SuppliedGrows
  <2>. QED
    BY <2>3
<1>3. /\ \A k \in DOMAIN decryptions : decryptions[k].ct \in Ciphertext
      /\ \A k \in DOMAIN decs : decs[k].ct \in Ciphertext
  <2>1. /\ \A k \in DOMAIN decryptions : decryptions[k] \in Decryption
        /\ \A k \in DOMAIN decs : decs[k] \in Decryption
    BY DEF TypeInv, TypeOK
  <2>. QED
    BY <2>1 DEF Decryption
<1>4. /\ \A k \in DOMAIN decryptions' : store'[decryptions'[k].ct] # Null
      /\ \A k \in DOMAIN decs' : store'[decs'[k].ct] # Null
  BY <1>3, StoreGrows DEF SupplyInv
<1>5. phase' = "commit" => \A j \in 1..committed' : store'[execs'[1].outs[j]] # Null
  OBVIOUS
<1>. QED
  BY <1>1, <1>4, <1>5 DEF SupplyInv, AllSupplied, Supplied

(* A client names inputs the store will know.                              *)
LEMMA SupplyClient == ServiceInv /\ NoMishap /\ Client => SupplyInv'
<1>. SUFFICES ASSUME ServiceInv, NoMishap, Client PROVE SupplyInv'
  OBVIOUS
<1>0. [Next]_vars /\ TypeInv /\ SupplyInv
  BY DEF Next, ServiceInv
<1>1. ASSUME UNCHANGED <<executions, decryptions, decs, phase>>, phase = "idle"
      PROVE  SupplyInv'
  BY <1>0, <1>1, SupplyKept DEF Outstanding
<1>2. ASSUME NEW g \in Graph, NEW ins \in [DOMAIN g.ins -> Ciphertext],
             NEW outs \in [DOMAIN g.outs -> Ciphertext], ExecuteGraph(g, ins, outs)
      PROVE  SupplyInv'
  <2>. DEFINE x == [graph |-> g, ins |-> ins, outs |-> outs]
  <2>1. /\ phase = "idle" /\ executions' = Append(executions, x)
        /\ UNCHANGED <<store, decryptions, decs, phase>>
        /\ \A i \in DOMAIN ins : Known(ins[i])
    BY <1>2 DEF ExecuteGraph, worker, NoMishap
  <2>2. x \in Execution /\ x.ins = ins
    <3>1. ins \in Seq(Ciphertext) /\ outs \in Seq(Ciphertext)
      BY GraphAssumption
    <3>. QED
      BY <3>1 DEF Execution
  <2>. HIDE DEF x
  <2>3. executions \in Seq(Execution) /\ AllSupplied(store, executions)
    BY <1>0, <2>1 DEF TypeInv, TypeOK, SupplyInv, Outstanding
  <2>4. AllSupplied(store, Append(executions, x))
    BY <2>1, <2>2, <2>3, SuppliedAppend DEF Known
  <2>5. Outstanding' = Append(executions, x)
    BY <2>1 DEF Outstanding
  <2>6. AllSupplied(store', Outstanding')
    BY <2>1, <2>4, <2>5
  <2>. QED
    BY <1>0, <2>1, <2>6 DEF SupplyInv, AllSupplied, Supplied
<1>3. ASSUME NEW r \in Request, NEW c \in Ciphertext, RequestDecryption(r, c)
      PROVE  SupplyInv'
  <2>. DEFINE new == [req |-> r, ct |-> c, type |-> store[c].type]
  <2>1. /\ phase = "idle" /\ store[c] # Null /\ decryptions' = Append(decryptions, new)
        /\ UNCHANGED <<store, executions, phase, execs, decs>>
    BY <1>3 DEF RequestDecryption, worker
  <2>2. new.ct = c
    OBVIOUS
  <2>. HIDE DEF new
  <2>3. \A k \in DOMAIN decryptions' : store'[decryptions'[k].ct] # Null
    <3>1. decryptions \in Seq(Decryption)
      BY <1>0 DEF TypeInv, TypeOK
    <3>2. \A k \in DOMAIN decryptions' :
            \/ k \in DOMAIN decryptions /\ decryptions'[k] = decryptions[k]
            \/ decryptions'[k] = new
      BY <2>1, <3>1
    <3>. QED
      BY <1>0, <2>1, <2>2, <3>2 DEF SupplyInv
  <2>4. Outstanding' = Outstanding
    BY <2>1 DEF Outstanding
  <2>5. AllSupplied(store', Outstanding')
    BY <1>0, <2>1, <2>4 DEF SupplyInv
  <2>. QED
    BY <1>0, <2>1, <2>3, <2>5 DEF SupplyInv, AllSupplied, Supplied
<1>. QED
  BY <1>1, <1>2, <1>3
  DEF Client, CreateInput, CreatePlaintext, CpiCreatePlaintext, Register, queue, worker

(* An execution leaves the queue when all it writes is in the store.       *)
LEMMA SupplyCommit == ServiceInv /\ CommitOutput => SupplyInv'
<1>. SUFFICES ASSUME ServiceInv, CommitOutput PROVE SupplyInv'
  OBVIOUS
<1>. DEFINE x == execs[1]
            out == x.outs[committed + 1]
<1>0. [Next]_vars /\ TypeInv /\ SupplyInv
  BY DEF Next, ProcessPending, ServiceInv
<1>1. /\ phase = "commit" /\ execs # <<>> /\ committed \in Nat /\ committed < Len(x.outs)
      /\ DOMAIN result = DOMAIN x.outs /\ result \in Seq(Digest) /\ execs \in Seq(Execution)
      /\ decryptions = <<>> /\ Outstanding = execs
  BY <1>0 DEF CommitOutput, TypeInv, TypeOK, WorkerShape, Outstanding
<1>2. /\ Head(execs) = x /\ x.outs \in Seq(Ciphertext) /\ Len(x.outs) \in Nat
  BY <1>0, <1>1, HeadExecution
<1>. HIDE DEF x
<1>3. /\ out \in Ciphertext /\ store' = [store EXCEPT ![out] = NewEntry(out)]
      /\ UNCHANGED <<decryptions, decs>>
  <2>1. committed + 1 \in 1..Len(x.outs)
    BY <1>1, <1>2
  <2>2. out \in Ciphertext
    BY <1>2, <2>1
  <2>. QED
    BY <1>2, <2>2 DEF CommitOutput, queue
<1>4. store'[out] # Null
  <2>1. NewEntry(out) \in Entry
    BY <1>0, <1>1, <1>2, <1>3, TypeAssumption DEF NewEntry, NewDigest, Entry, TypeInv, TypeOK
  <2>. QED
    BY <1>0, <1>3, <2>1, NullAssumption DEF TypeInv, TypeOK
<1>5. \A c \in Ciphertext : store[c] # Null => store'[c] # Null
  BY <1>0, StoreGrows
<1>6. \A j \in 1..(committed + 1) : store'[x.outs[j]] # Null
  <2>1. \A j \in 1..committed : x.outs[j] \in Ciphertext /\ store[x.outs[j]] # Null
    BY <1>0, <1>1, <1>2 DEF SupplyInv, x
  <2>. QED
    BY <1>1, <1>4, <1>5, <2>1
<1>7. /\ \A k \in DOMAIN decs' : store'[decs'[k].ct] # Null
      /\ \A k \in DOMAIN decryptions' : store'[decryptions'[k].ct] # Null
  <2>1. \A k \in DOMAIN decs : decs[k] \in Decryption
    BY <1>0 DEF TypeInv, TypeOK
  <2>. QED
    BY <1>0, <1>1, <1>3, <1>5, <2>1 DEF SupplyInv, Decryption
<1>8. CASE LastOutput
  <2>1. phase' = "loop" /\ execs' = Tail(execs) /\ committed + 1 = Len(x.outs)
    BY <1>2, <1>8 DEF CommitOutput, LastOutput
  <2>2. Outstanding' = Tail(execs)
    BY <2>1 DEF Outstanding
  <2>3. \A j \in DOMAIN execs[1].outs : store'[execs[1].outs[j]] # Null
    BY <1>2, <1>6, <2>1 DEF x
  <2>4. AllSupplied(store, execs)
    BY <1>0, <1>1 DEF SupplyInv
  <2>5. AllSupplied(store', Tail(execs))
    BY <1>1, <1>5, <2>3, <2>4, SuppliedTail
  <2>6. AllSupplied(store', Outstanding')
    BY <2>2, <2>5
  <2>. QED
    BY <1>7, <2>1, <2>6 DEF SupplyInv, AllSupplied, Supplied
<1>9. CASE ~LastOutput
  <2>1. committed' = committed + 1 /\ phase' = phase /\ execs' = execs
    BY <1>9 DEF CommitOutput
  <2>2. Outstanding' = execs
    BY <1>1, <2>1 DEF Outstanding
  <2>3. AllSupplied(store, execs)
    BY <1>0, <1>1 DEF SupplyInv
  <2>4. AllSupplied(store', execs)
    BY <1>1, <1>5, <2>3, SuppliedGrows
  <2>5. AllSupplied(store', Outstanding')
    BY <2>2, <2>4
  <2>. QED
    BY <1>6, <1>7, <2>1, <2>5 DEF SupplyInv, AllSupplied, Supplied, x
<1>. QED
  BY <1>8, <1>9

LEMMA SupplyWorker == ServiceInv /\ NoMishap /\ ProcessPending => SupplyInv'
<1>. SUFFICES ASSUME ServiceInv, NoMishap, ProcessPending PROVE SupplyInv'
  OBVIOUS
<1>0. [Next]_vars /\ TypeInv /\ SupplyInv
  BY DEF Next, ServiceInv
<1>1. CASE Drain \/ Evaluate \/ StartResponse \/ Return
  <2>1. Outstanding' = Outstanding
    BY <1>0, <1>1 DEF Drain, Evaluate, StartResponse, Return, queue, Outstanding, TypeInv, WorkerShape
  <2>2. /\ phase' = "commit" => committed' = 0
        /\ \/ UNCHANGED <<decryptions, decs>>
           \/ decs' = decryptions /\ decryptions' = <<>>
    BY <1>1 DEF Drain, Evaluate, StartResponse, Return, queue
  <2>. QED
    BY <1>0, <2>1, <2>2, SupplyKept
<1>2. CASE RespondChunk
  <2>1. /\ phase = "respond" /\ phase' # "commit" /\ execs = <<>> /\ execs' = <<>>
        /\ UNCHANGED <<store, decryptions, executions>> /\ decryptions = <<>> /\ executions = <<>>
        /\ decs # <<>> /\ decs' \in {decs, Tail(decs)}
    <3>1. Head(decs) = decs[1] /\ decs # <<>>
      BY <1>0, <1>2, HeadDecryption DEF RespondChunk, TypeInv, WorkerShape
    <3>. QED
      BY <1>0, <1>2, <3>1 DEF RespondChunk, queue, TypeInv, WorkerShape
  <2>2. \A k \in DOMAIN Tail(decs) : Tail(decs)[k] = decs[k + 1] /\ k + 1 \in DOMAIN decs
    BY <1>0, <2>1, HeadDecryption
  <2>3. \A k \in DOMAIN decs' : \E i \in DOMAIN decs : decs'[k] = decs[i]
    BY <2>1, <2>2
  <2>4. Outstanding' = <<>>
    BY <2>1 DEF Outstanding
  <2>5. AllSupplied(store', Outstanding')
    BY <2>4 DEF AllSupplied
  <2>. QED
    BY <1>0, <2>1, <2>3, <2>5 DEF SupplyInv, AllSupplied, Supplied
<1>. QED
  BY <1>1, <1>2, NothingGivenUp, SupplyCommit

-----------------------------------------------------------------------------
(* Accounts are never removed.                                             *)
LEMMA AccountsStay ==
  ASSUME TypeInv, [Next]_vars
  PROVE  \A c \in Ciphertext : account[c].status # "absent" => account'[c].status # "absent"
<1>1. ASSUME NEW c \in Ciphertext, NEW a, a.status # "absent", account' = [account EXCEPT ![c] = a]
      PROVE  \A b \in Ciphertext : account[b].status # "absent" => account'[b].status # "absent"
  BY <1>1 DEF TypeInv, TypeOK
<1>2. ASSUME NEW c \in Ciphertext, NEW v \in Value, NEW t \in Type,
             CreateInput(c, v, t) \/ CreatePlaintext(c, v, t) \/ CpiCreatePlaintext(c, t)
      PROVE  \A b \in Ciphertext : account[b].status # "absent" => account'[b].status # "absent"
  BY <1>1, <1>2 DEF CreateInput, CreatePlaintext, CpiCreatePlaintext, InputTx, PlaintextTx
<1>3. ASSUME NEW g \in Graph, NEW ins \in [DOMAIN g.ins -> Ciphertext],
             NEW outs \in [DOMAIN g.outs -> Ciphertext], ExecuteGraph(g, ins, outs)
      PROVE  \A b \in Ciphertext : account[b].status # "absent" => account'[b].status # "absent"
  BY <1>3 DEF ExecuteGraph, GraphTx
<1>4. ASSUME CommitOutput
      PROVE  \A b \in Ciphertext : account[b].status # "absent" => account'[b].status # "absent"
  <2>. DEFINE out == Head(execs).outs[committed + 1]
  <2>1. account' = [account EXCEPT ![out].status = "verified", ![out].digest = NewDigest]
    BY <1>4 DEF CommitOutput, CommitTx
  <2>2. \A b \in Ciphertext : account[b] \in Account
    BY DEF TypeInv, TypeOK
  <2>. HIDE DEF out
  <2>3. \A b \in Ciphertext : b # out => account'[b] = account[b]
    BY <2>1 DEF TypeInv, TypeOK
  <2>4. out \in Ciphertext => account'[out].status = "verified"
    BY <2>1, <2>2 DEF TypeInv, TypeOK, Account
  <2>. QED
    BY <2>3, <2>4
<1>5. CASE UNCHANGED account
  BY <1>5
<1>. QED
  BY <1>2, <1>3, <1>4, <1>5, ValueAssumption
  DEF Next, Client, ProcessPending, Register, RequestDecryption,
      Drain, Evaluate, StartResponse, RespondChunk, Return, CiphertextNotFound,
      GraphError, CommitRejected, ResponseRejected, GiveUp, vars, chain

LEMMA RequestNext == ServiceInv /\ NoMishap /\ [Next]_vars => RequestInv'
<1>. SUFFICES ASSUME ServiceInv, NoMishap, [Next]_vars, NEW r \in Request, request'[r] # Null
              PROVE  /\ account'[request'[r].ct].status # "absent"
                     /\ request'[r].total = Width[DefaultType]
  BY DEF RequestInv, Exists
<1>0. TypeInv /\ RequestInv
  BY DEF ServiceInv
<1>1. CASE request'[r] = request[r]
  <2>1. request[r] \in DecryptionRequest
    BY <1>0, <1>1 DEF TypeInv, TypeOK
  <2>2. /\ request[r].ct \in Ciphertext /\ account[request[r].ct].status # "absent"
        /\ request[r].total = Width[DefaultType]
    BY <1>0, <1>1, <2>1 DEF RequestInv, DecryptionRequest, Exists
  <2>. QED
    BY <1>0, <1>1, <2>2, AccountsStay
<1>2. ASSUME NEW q \in Request, NEW c \in Ciphertext, RequestDecryption(q, c)
      PROVE  /\ account'[request'[r].ct].status # "absent"
             /\ request'[r].total = Width[DefaultType]
  <2>1. CASE r = q
    <3>1. /\ account[c].status # "absent" /\ request'[r].ct = c
          /\ request'[r].total = Width[account[c].type]
      BY <1>0, <1>2, <2>1 DEF RequestDecryption, RequestTx, Exists, TypeInv, TypeOK
    <3>2. account[c].type \in Type
      BY <1>0 DEF TypeInv, TypeOK, Account
    <3>. QED
      BY <1>0, <3>1, <3>2, AccountsStay DEF NoMishap
  <2>2. CASE r # q
    BY <1>0, <1>1, <1>2, <2>2 DEF RequestDecryption, RequestTx, TypeInv, TypeOK
  <2>. QED
    BY <2>1, <2>2
<1>3. CASE RespondChunk
  <2>. DEFINE d == decs[1]
              new == [request[d.req] EXCEPT !.written = ChunkEnd,
                                            !.value = Decode(store[d.ct].digest)]
  <2>1. /\ d.req \in Request /\ request[d.req] \in DecryptionRequest
        /\ request' = [request EXCEPT ![d.req] = new]
    BY <1>0, <1>3, ChunkWritten DEF Decryption, ServiceInv
  <2>2. new.ct = request[d.req].ct /\ new.total = request[d.req].total
    BY <2>1 DEF DecryptionRequest
  <2>. HIDE DEF new
  <2>3. CASE r # d.req
    BY <1>0, <1>1, <2>1, <2>3 DEF TypeInv, TypeOK
  <2>4. CASE r = d.req
    <3>1. request'[r].ct = request[r].ct /\ request'[r].total = request[r].total
      BY <1>0, <2>1, <2>2, <2>4 DEF TypeInv, TypeOK
    <3>2. request[r].ct \in Ciphertext /\ request[r] # Null
      BY <2>1, <2>4, NullAssumption DEF DecryptionRequest
    <3>3. account[request[r].ct].status # "absent" /\ request[r].total = Width[DefaultType]
      BY <1>0, <3>2 DEF RequestInv, Exists
    <3>. QED
      BY <1>0, <3>1, <3>2, <3>3, AccountsStay
  <2>. QED
    BY <2>3, <2>4
<1>4. CASE UNCHANGED request
  BY <1>1, <1>4
<1>. QED
  BY <1>2, <1>3, <1>4
  DEF Next, Client, ProcessPending, CreateInput, InputTx, CreatePlaintext, PlaintextTx, CpiCreatePlaintext, Register,
      ExecuteGraph, GraphTx, Drain, Evaluate, CommitOutput, CommitTx, StartResponse, Return, CiphertextNotFound,
      GraphError, CommitRejected, ResponseRejected, GiveUp, vars, chain

LEMMA ServiceInductive == ASSUME NoMishap PROVE Spec => []ServiceInv
<1>1. Init => SupplyInv /\ RequestInv
  BY SupplyInit
<1>2. ServiceInv /\ UNCHANGED vars => SupplyInv'
  BY DEF vars, ServiceInv, Outstanding, SupplyInv, AllSupplied, Supplied
<1>3. TypeInv /\ SerialInv /\ AnswerInv /\ SupplyInv /\ RequestInv /\ [Next]_vars
        => (SupplyInv /\ RequestInv)'
  BY <1>2, SupplyClient, SupplyWorker, RequestNext DEF Next, ServiceInv
<1>. QED
  BY <1>1, <1>3, TypeInductive, SerialInductive, AnswerInductive, PTL DEF Spec, ServiceInv

-----------------------------------------------------------------------------
(* How a step moves the value and the answer a program sees.               *)
LEMMA ValueSame ==
  ASSUME \A c \in Ciphertext : account'[c].status # "absent" <=> account[c].status # "absent",
         Current' = Current
  PROVE  ServiceValue' = ServiceValue
BY DEF ServiceValue, Exists

LEMMA AnswerSame ==
  ASSUME request' = request
  PROVE  ServiceAnswer' = ServiceAnswer
BY DEF ServiceAnswer, Complete

(* A new ciphertext: only its own value appears.                           *)
LEMMA CreateMapped ==
  ASSUME TypeInv, NEW c \in Ciphertext, NEW v \in Value, NEW a,
         a.status # "absent", ~Exists(c), account' = [account EXCEPT ![c] = a],
         Introduce(c, v), request' = request
  PROVE  Abstract!Create(c)
<1>1. Current' = [Current EXCEPT ![c] = v]
  <2>1. /\ views \in Seq(View) /\ Len(views) \in Nat \ {0}
        /\ views' \in Seq(View) /\ Len(views') = Len(views)
        /\ views' = [i \in DOMAIN views |-> [views[i] EXCEPT ![c] = v]]
    <3>1. views' \in Seq(View) /\ Len(views') = Len(views)
      BY IntroduceType
    <3>2. views \in Seq(View) /\ Len(views) \in Nat \ {0}
      BY OutstandingType
    <3>. QED
      BY <3>1, <3>2 DEF Introduce
  <2>2. Len(views) \in DOMAIN views
    BY <2>1
  <2>3. views'[Len(views)] = [views[Len(views)] EXCEPT ![c] = v]
    BY <2>1, <2>2
  <2>. QED
    BY <2>1, <2>3 DEF Current
<1>2. Current \in View
  BY CurrentType
<1>3. account \in [Ciphertext -> Account]
  BY DEF TypeInv, TypeOK
<1>4. /\ account'[c].status # "absent" /\ Current'[c] = v
      /\ \A b \in Ciphertext : b # c => account'[b] = account[b] /\ Current'[b] = Current[b]
  BY <1>1, <1>2, <1>3 DEF View
<1>5. ServiceValue' = [ServiceValue EXCEPT ![c] = v]
  BY <1>4 DEF ServiceValue, Exists
<1>6. ServiceValue[c] = Null
  BY DEF ServiceValue
<1>. QED
  BY <1>5, <1>6, AnswerSame DEF Abstract!Create

(* Of the places where the outputs of a graph name a ciphertext one is the *)
(* last.                                                                   *)
LEMMA LastPlace ==
  ASSUME NEW n \in Nat, NEW J \in SUBSET (1..n), J # {}
  PROVE  \E m \in J : \A i \in J : i <= m
<1>. DEFINE R == {ss \in Nat \X Nat : ss[1] < ss[2]}
            T == {n - j : j \in J}
<1>1. IsWellFoundedOn(R, Nat)
  BY NatLessThanWellFounded DEF OpToRel
<1>2. T \subseteq Nat /\ T # {}
  <2>1. \A j \in J : n - j \in Nat
    OBVIOUS
  <2>. QED
    BY <2>1, Zenon
<1>. HIDE DEF R, T
<1>3. PICK t \in T : \A s \in T : ~(<<s, t>> \in R)
  BY <1>1, <1>2, WFMin
<1>4. PICK m \in J : t = n - m
  BY DEF T
<1>5. \A i \in J : n - i \in T /\ ~(n - i < n - m)
  <2>1. \A s \in T : ~(s < t)
    BY <1>2, <1>3 DEF R
  <2>. QED
    BY <1>4, <2>1 DEF T
<1>. QED
  BY <1>5

(* The last place where the outputs name c.                                *)
LastAt(outs, c, j) == outs[j] = c /\ \A k \in DOMAIN outs : k > j => outs[k] # c
Named(outs, c) == \E j \in DOMAIN outs : LastAt(outs, c, j)
Place(outs, c) == CHOOSE j \in DOMAIN outs : LastAt(outs, c, j)

(* Setting the outputs in order leaves what FheService's Run sets at once. *)
LEMMA OverwriteIsRun ==
  ASSUME NEW view \in View, NEW n \in Nat, NEW outs \in [1..n -> Ciphertext], NEW res,
         NEW c \in Ciphertext
  PROVE  Overwrite(view, outs, res, n)[c] =
           IF Named(outs, c) THEN Decode(res[Place(outs, c)]) ELSE view[c]
<1>. DEFINE Last(j) == LastAt(outs, c, j)
            Late(j) == outs[j] = c /\ \A k \in (j + 1)..n : outs[k] # c
<1>1. DOMAIN outs = 1..n
  OBVIOUS
<1>2. \A j \in 1..n : Last(j) <=> Late(j)
  BY <1>1 DEF LastAt
<1>3. Overwrite(view, outs, res, n)[c] =
        IF \E j \in 1..n : Late(j) THEN Decode(res[CHOOSE j \in 1..n : Late(j)]) ELSE view[c]
  BY DEF Overwrite
<1>4. \A i, j \in 1..n : Late(i) /\ Late(j) => i = j
  OBVIOUS
<1>. HIDE DEF Last, Late
<1>5. (\E j \in 1..n : Last(j)) <=> (\E j \in 1..n : Late(j))
  BY <1>2
<1>6. ASSUME \E j \in 1..n : Late(j)
      PROVE  (CHOOSE j \in 1..n : Last(j)) = (CHOOSE j \in 1..n : Late(j))
  <2>1. (CHOOSE j \in 1..n : Late(j)) \in 1..n /\ Late(CHOOSE j \in 1..n : Late(j))
    BY <1>6
  <2>2. (CHOOSE j \in 1..n : Last(j)) \in 1..n /\ Last(CHOOSE j \in 1..n : Last(j))
    BY <1>5, <1>6
  <2>. QED
    BY <1>2, <1>4, <2>1, <2>2
<1>7. Overwrite(view, outs, res, n)[c] =
        IF \E j \in 1..n : Last(j) THEN Decode(res[CHOOSE j \in 1..n : Last(j)]) ELSE view[c]
  BY <1>3, <1>5, <1>6
<1>8. /\ Named(outs, c) <=> \E j \in 1..n : Last(j)
      /\ Place(outs, c) = CHOOSE j \in 1..n : Last(j)
  BY <1>1 DEF Named, Place, Last
<1>. QED
  BY <1>7, <1>8

LEMMA NamedSomewhere ==
  ASSUME NEW n \in Nat, NEW outs \in [1..n -> Ciphertext], NEW c \in Ciphertext
  PROVE  /\ Named(outs, c) <=> \E j \in DOMAIN outs : outs[j] = c
         /\ Named(outs, c) => Place(outs, c) \in DOMAIN outs
<1>1. ASSUME NEW j \in 1..n, outs[j] = c
      PROVE  Named(outs, c)
  <2>. DEFINE J == {i \in 1..n : outs[i] = c}
  <2>1. J \in SUBSET (1..n) /\ J # {}
    BY <1>1
  <2>2. PICK m \in J : \A i \in J : i <= m
    BY <2>1, LastPlace
  <2>. QED
    BY <2>2 DEF Named, LastAt
<1>2. Named(outs, c) => \E j \in DOMAIN outs : outs[j] = c
  BY DEF Named, LastAt
<1>. QED
  BY <1>1, <1>2 DEF Named, Place

(* Queueing an execution is, to a program, its whole effect.               *)
LEMMA RunMapped ==
  ASSUME TypeInv, NEW g \in Graph, NEW ins \in [DOMAIN g.ins -> Ciphertext],
         NEW outs \in [DOMAIN g.outs -> Ciphertext], ExecuteGraph(g, ins, outs)
  PROVE  Abstract!Run(g, ins, outs)
<1>. DEFINE x == [graph |-> g, ins |-> ins, outs |-> outs]
            vs == [i \in DOMAIN ins |-> Current[ins[i]]]
            n == Len(g.outs)
<1>1. /\ Current \in View /\ account \in [Ciphertext -> Account]
      /\ views \in Seq(View) /\ n \in Nat /\ outs \in [1..n -> Ciphertext]
      /\ g.ins \in Seq(Type)
  BY CurrentType, GraphAssumption DEF TypeInv, TypeOK
<1>2. \A i \in DOMAIN ins : Exists(ins[i]) /\ ins[i] \in Ciphertext
  BY DEF ExecuteGraph, GraphTx, Fits
<1>3. \A i \in DOMAIN ins : ServiceValue[ins[i]] = Current[ins[i]] /\ Current[ins[i]] \in Value
  BY <1>1, <1>2 DEF ServiceValue, View
<1>4. [i \in DOMAIN ins |-> ServiceValue[ins[i]]] = vs
  BY <1>3
<1>5. \A i \in DOMAIN ins : ServiceValue[ins[i]] # Null
  BY <1>3, NullAssumption
<1>6. Eval(g, vs) \in [DOMAIN outs -> Digest]
  <2>1. vs \in Inputs(g)
    BY <1>3 DEF Inputs, Digest
  <2>. QED
    BY <2>1, EvalAssumption
<1>. DEFINE res == ServiceResult(g, [i \in DOMAIN ins |-> ServiceValue[ins[i]]])
<1>7. \A j \in DOMAIN outs : res[j] = Decode(Eval(g, vs)[j])
  BY <1>4, <1>6 DEF ServiceResult
<1>8. Current' = Overwrite(Current, outs, Eval(g, vs), n)
  <2>1. Current' = Apply(x, Current)
    BY <1>1 DEF ExecuteGraph, Current
  <2>2. Len(outs) = n
    BY <1>1
  <2>. QED
    BY <2>1, <2>2 DEF Apply
<1>9. \A c \in Ciphertext :
        Current'[c] = IF Named(outs, c) THEN Decode(Eval(g, vs)[Place(outs, c)])
                      ELSE Current[c]
  BY <1>1, <1>8, OverwriteIsRun
<1>10. \A c \in Ciphertext :
         /\ Named(outs, c) <=> \E j \in DOMAIN outs : outs[j] = c
         /\ Named(outs, c) => Place(outs, c) \in DOMAIN outs
  BY <1>1, NamedSomewhere
<1>. HIDE DEF vs
<1>12. \A c \in Ciphertext :
         IF Named(outs, c) THEN account'[c].status # "absent" ELSE account'[c] = account[c]
  <2>1. account' = [c \in Ciphertext |->
          IF \E j \in DOMAIN outs : outs[j] = c
          THEN [status |-> "pending", digest |-> ZeroDigest,
                type |-> g.outs[CHOOSE j \in DOMAIN outs : outs[j] = c]]
          ELSE account[c]]
    BY DEF ExecuteGraph, GraphTx
  <2>. QED
    BY <2>1, <1>10
<1>13. ASSUME NEW c \in Ciphertext
       PROVE  ServiceValue'[c] = IF Named(outs, c) THEN res[Place(outs, c)] ELSE ServiceValue[c]
  <2>1. ServiceValue'[c] = IF account'[c].status # "absent" THEN Current'[c] ELSE Null
    BY DEF ServiceValue, Exists
  <2>2. ServiceValue[c] = IF account[c].status # "absent" THEN Current[c] ELSE Null
    BY DEF ServiceValue, Exists
  <2>. HIDE DEF res
  <2>3. CASE Named(outs, c)
    BY <2>1, <2>3, <1>7, <1>9, <1>10, <1>12
  <2>4. CASE ~Named(outs, c)
    BY <2>1, <2>2, <2>4, <1>9, <1>12
  <2>. QED
    BY <2>3, <2>4
<1>14. ServiceValue' = [c \in Ciphertext |-> IF Named(outs, c) THEN res[Place(outs, c)] ELSE ServiceValue[c]]
  <2>. HIDE DEF res
  <2>1. ServiceValue' = [c \in Ciphertext |-> ServiceValue'[c]]
    BY DEF ServiceValue
  <2>. QED
    BY <1>13, <2>1
<1>15. request' = request
  BY DEF ExecuteGraph
<1>. QED
  BY <1>5, <1>14, <1>15, AnswerSame DEF Abstract!Run, Named, Place, LastAt

LEMMA AskMapped ==
  ASSUME TypeInv, NEW r \in Request, NEW c \in Ciphertext, RequestDecryption(r, c)
  PROVE  Abstract!Ask(r, c)
<1>. DEFINE fresh == [ct |-> c, digest |-> account[c].digest, total |-> Width[account[c].type],
                      written |-> 0, value |-> ZeroValue]
            ans == [ct |-> c, done |-> FALSE, value |-> ZeroValue]
<1>1. /\ request[r] = Null /\ Exists(c) /\ request' = [request EXCEPT ![r] = fresh]
      /\ account' = account /\ views' = views
  BY DEF RequestDecryption, RequestTx
<1>2. /\ Current \in View /\ request \in [Request -> DecryptionRequest \cup {Null}]
      /\ account[c] \in Account
  BY CurrentType DEF TypeInv, TypeOK
<1>3. ServiceValue[c] # Null /\ ServiceAnswer[r] = Null
  BY <1>1, <1>2, NullAssumption DEF ServiceValue, ServiceAnswer, View
<1>4. fresh # Null /\ fresh.total # 0
  <2>1. account[c].type \in Type /\ account[c].digest \in Digest
    BY <1>2 DEF Account
  <2>2. Width[account[c].type] \in Nat \ {0}
    BY <2>1, TypeAssumption
  <2>3. fresh \in DecryptionRequest
    BY <2>1, <2>2, ValueAssumption DEF DecryptionRequest
  <2>. QED
    BY <2>2, <2>3, NullAssumption
<1>5. /\ request'[r] = fresh /\ \A q \in Request : q # r => request'[q] = request[q]
  BY <1>1, <1>2
<1>6. ServiceAnswer'[r] = ans
  <2>1. request'[r].written # request'[r].total /\ request'[r] # Null /\ request'[r].ct = c
    BY <1>4, <1>5
  <2>. QED
    BY <2>1 DEF ServiceAnswer, Complete
<1>7. \A q \in Request : q # r => ServiceAnswer'[q] = ServiceAnswer[q]
  BY <1>5 DEF ServiceAnswer, Complete
<1>. HIDE DEF ans
<1>8. ServiceAnswer' = [ServiceAnswer EXCEPT ![r] = ans]
  BY <1>6, <1>7 DEF ServiceAnswer
<1>9. Current' = Current
  BY <1>1 DEF Current
<1>10. ServiceValue' = ServiceValue
  BY <1>1, <1>9, ValueSame
<1>. QED
  BY <1>3, <1>8, <1>10 DEF Abstract!Ask, ans

(* A chunk before the last shows nothing, the last one the whole answer.   *)
LEMMA ChunkMapped ==
  ASSUME ServiceInv, NoMishap, RespondChunk
  PROVE  \/ UNCHANGED <<ServiceValue, ServiceAnswer>>
         \/ \E r \in Request : Abstract!Answer(r)
<1>. DEFINE d == decs[1]
            r == d.req
            v == Decode(store[d.ct].digest)
            new == [request[r] EXCEPT !.written = ChunkEnd, !.value = v]
            ans == [ct |-> d.ct, done |-> TRUE, value |-> v]
<1>1. TypeInv /\ AnswerInv /\ RequestInv /\ SerialInv
  BY DEF ServiceInv
<1>2. /\ decs # <<>> /\ r \in Request /\ d.ct \in Ciphertext /\ d.type \in Type
      /\ request[r] \in DecryptionRequest /\ request[r] # Null /\ request[r].ct = d.ct
      /\ execs = <<>> /\ store[d.ct] # Null
      /\ ChunkEnd \in Nat /\ offset \in Nat /\ offset < ChunkEnd
      /\ request' = [request EXCEPT ![r] = new]
  BY <1>1, ChunkWritten, NullAssumption DEF Decryption
<1>3. phase = "respond" /\ account' = account /\ views' = views
  BY DEF RespondChunk
<1>4. new.written = ChunkEnd /\ new.value = v /\ new.ct = d.ct /\ new.total = request[r].total
      /\ new \in DecryptionRequest
  <2>1. v \in Value
    BY <1>1, <1>2, DecodeType DEF TypeInv, TypeOK, Entry
  <2>. QED
    BY <1>2, <2>1 DEF DecryptionRequest
<1>5. new # Null
  BY <1>4, NullAssumption
<1>. HIDE DEF new
<1>6. /\ request'[r] = new /\ \A q \in Request : q # r => request'[q] = request[q]
  BY <1>1, <1>2 DEF TypeInv, TypeOK
<1>7. /\ request[r].total = Width[d.type] /\ ChunkEnd <= Width[d.type]
      /\ Width[d.type] \in Nat /\ request[r].written = offset
  <2>1. request[r].total = Width[DefaultType] /\ Width[d.type] = Width[DefaultType]
    BY <1>1, <1>2 DEF RequestInv, NoMishap
  <2>2. request[r].written = offset
    BY <1>1, <1>3 DEF AnswerInv
  <2>. QED
    BY <1>1, <1>3, <2>1, <2>2, ChunkInside
<1>8. ServiceValue' = ServiceValue
  <2>1. Current' = Current
    BY <1>3 DEF Current
  <2>. QED
    BY <1>3, <2>1, ValueSame
<1>9. request[r].written # request[r].total /\ \A q \in Request : q # r => ServiceAnswer'[q] = ServiceAnswer[q]
  BY <1>2, <1>6, <1>7 DEF Complete, ServiceAnswer
<1>10. ServiceAnswer[r] = [ct |-> d.ct, done |-> FALSE, value |-> ZeroValue]
  BY <1>2, <1>9 DEF ServiceAnswer, Complete
<1>11. CASE ChunkEnd # Width[d.type]
  <2>1. request'[r].written # request'[r].total /\ request'[r] # Null /\ request'[r].ct = d.ct
    BY <1>4, <1>5, <1>6, <1>7, <1>11
  <2>2. ServiceAnswer'[r] = [ct |-> d.ct, done |-> FALSE, value |-> ZeroValue]
    BY <1>2, <2>1 DEF ServiceAnswer, Complete
  <2>3. ServiceAnswer' = ServiceAnswer
    <3>1. \A q \in Request : ServiceAnswer'[q] = ServiceAnswer[q]
      BY <1>9, <1>10, <2>2
    <3>2. /\ ServiceAnswer = [q \in Request |-> ServiceAnswer[q]]
          /\ ServiceAnswer' = [q \in Request |-> ServiceAnswer'[q]]
      BY DEF ServiceAnswer
    <3>. QED
      BY <3>1, <3>2
  <2>. QED
    BY <1>8, <2>3
<1>12. CASE ChunkEnd = Width[d.type]
  <2>1. /\ request'[r].written = request'[r].total /\ request'[r] # Null
        /\ request'[r].ct = d.ct /\ request'[r].value = v
    BY <1>4, <1>5, <1>6, <1>7, <1>12
  <2>2. ServiceAnswer'[r] = ans
    BY <1>2, <2>1 DEF ServiceAnswer, Complete
  <2>3. ServiceValue[d.ct] = v
    <3>1. Exists(d.ct)
      BY <1>1, <1>2 DEF RequestInv
    <3>2. StoreView = Current
      <4>1. Outstanding = <<>>
        BY <1>2, <1>3 DEF Outstanding
      <4>2. Len(views) = 1
        BY <1>1, <4>1, OutstandingType
      <4>. QED
        BY <1>1, <1>3, <4>2 DEF SerialInv, StoreIsFirstView, Current
    <3>3. StoreView[d.ct] = v
      BY <1>2 DEF StoreView
    <3>. QED
      BY <1>2, <3>1, <3>2, <3>3 DEF ServiceValue
  <2>. HIDE DEF ans
  <2>4. ServiceAnswer' = [ServiceAnswer EXCEPT ![r] = ans]
    BY <1>9, <2>2, ZenonT(60) DEF ServiceAnswer
  <2>5. /\ ServiceAnswer[r] # Null /\ ~ServiceAnswer[r].done /\ ServiceAnswer[r].ct = d.ct
    <3>1. ServiceAnswer[r] # Null
      <4>1. [ct |-> d.ct, done |-> FALSE, value |-> ZeroValue]
              \in [ct : Ciphertext, done : BOOLEAN, value : Value]
        BY <1>2, ValueAssumption
      <4>. QED
        BY <1>10, <4>1, NullAssumption
    <3>. QED
      BY <1>10, <3>1
  <2>6. ans = [ct |-> ServiceAnswer[r].ct, done |-> TRUE, value |-> ServiceValue[ServiceAnswer[r].ct]]
    BY <2>3, <2>5 DEF ans
  <2>7. Abstract!Answer(r)
    BY <1>8, <2>4, <2>5, <2>6 DEF Abstract!Answer
  <2>. QED
    BY <1>2, <2>7
<1>. QED
  BY <1>11, <1>12

(* The last output takes the execution out of the queue and its view with  *)
(* it; the value after everything outstanding is the same.                 *)
LEMMA CommitMapped ==
  ASSUME TypeInv, SerialInv, CommitOutput
  PROVE  UNCHANGED <<ServiceValue, ServiceAnswer>>
<1>. DEFINE out == execs[1].outs[committed + 1]
<1>1. /\ phase = "commit" /\ execs # <<>> /\ committed \in Nat /\ committed < Len(execs[1].outs)
      /\ Outstanding = execs /\ execs \in Seq(Execution) /\ request' = request
  BY DEF CommitOutput, TypeInv, TypeOK, WorkerShape, Outstanding
<1>2. /\ Head(execs) = execs[1] /\ execs[1].outs \in Seq(Ciphertext)
      /\ Len(execs[1].outs) \in Nat
  BY <1>1, HeadExecution
<1>3. committed + 1 \in DOMAIN execs[1].outs /\ out \in Ciphertext
  BY <1>1, <1>2
<1>4. account[out].status # "absent"
  <2>1. 1 \in DOMAIN Outstanding
    BY <1>1
  <2>. QED
    BY <1>1, <1>3, <2>1 DEF SerialInv, Mentioned, Exists
<1>5. /\ account'[out].status = "verified"
      /\ \A c \in Ciphertext : c # out => account'[c] = account[c]
  <2>. DEFINE new == NewDigest
  <2>1. account' = [account EXCEPT ![out].status = "verified", ![out].digest = new]
    BY <1>2 DEF CommitOutput, CommitTx
  <2>2. account \in [Ciphertext -> Account] /\ account[out] \in Account
    BY <1>3 DEF TypeInv, TypeOK
  <2>. HIDE DEF out, new
  <2>. QED
    BY <1>3, <2>1, <2>2 DEF Account
<1>6. Current' = Current
  <2>1. views \in Seq(View) /\ Len(views) >= 2
    <3>1. Len(views) = Len(execs) + 1 /\ views \in Seq(View)
      BY <1>1, OutstandingType
    <3>. QED
      BY <1>1, <3>1
  <2>2. CASE views' = views
    BY <2>2 DEF Current
  <2>3. CASE views' = Tail(views)
    BY <2>1, <2>3 DEF Current
  <2>. QED
    BY <2>2, <2>3 DEF CommitOutput
<1>7. \A c \in Ciphertext : account'[c].status # "absent" <=> account[c].status # "absent"
  BY <1>4, <1>5
<1>. QED
  BY <1>1, <1>6, <1>7, ValueSame, AnswerSame

LEMMA StepMapped ==
  ASSUME ServiceInv, NoMishap, [Next]_vars
  PROVE  [Abstract!ServiceNext]_Abstract!serviceVars
<1>. SUFFICES Abstract!ServiceNext \/ UNCHANGED <<ServiceValue, ServiceAnswer>>
  BY DEF Abstract!serviceVars
<1>0. TypeInv /\ SerialInv
  BY DEF ServiceInv
<1>1. ASSUME UNCHANGED <<account, request, views>>
      PROVE  UNCHANGED <<ServiceValue, ServiceAnswer>>
  <2>1. Current' = Current
    BY <1>1 DEF Current
  <2>. QED
    BY <1>1, <2>1, ValueSame, AnswerSame
<1>2. ASSUME NEW c \in Ciphertext, NEW v \in Value, NEW t \in Type,
             CreateInput(c, v, t) \/ CreatePlaintext(c, v, t) \/ CpiCreatePlaintext(c, t)
      PROVE  Abstract!ServiceNext
  <2>1. Abstract!Create(c)
    <3>1. CASE CreateInput(c, v, t)
      <4>. DEFINE a == [status |-> "verified", digest |-> v, type |-> t]
      <4>1. a.status # "absent"
        OBVIOUS
      <4>2. /\ ~Exists(c) /\ account' = [account EXCEPT ![c] = a] /\ Introduce(c, v)
            /\ request' = request
        BY <3>1 DEF CreateInput, InputTx
      <4>. HIDE DEF a
      <4>. QED
        BY <1>0, <4>1, <4>2, CreateMapped
    <3>2. ASSUME NEW w \in Value, PlaintextTx(c, t), Introduce(c, w), request' = request
          PROVE  Abstract!Create(c)
      <4>. DEFINE a == [status |-> "pending", digest |-> ZeroDigest, type |-> t]
      <4>1. a.status # "absent"
        OBVIOUS
      <4>2. ~Exists(c) /\ account' = [account EXCEPT ![c] = a]
        BY <3>2 DEF PlaintextTx
      <4>. HIDE DEF a
      <4>. QED
        BY <1>0, <3>2, <4>1, <4>2, CreateMapped
    <3>3. CASE CreatePlaintext(c, v, t)
      BY <3>2, <3>3 DEF CreatePlaintext
    <3>4. CASE CpiCreatePlaintext(c, t)
      BY <3>2, <3>4, ValueAssumption DEF CpiCreatePlaintext
    <3>. QED
      BY <1>2, <3>1, <3>3, <3>4
  <2>. QED
    BY <2>1 DEF Abstract!ServiceNext
<1>3. ASSUME NEW g \in Graph, NEW ins \in [DOMAIN g.ins -> Ciphertext],
             NEW outs \in [DOMAIN g.outs -> Ciphertext], ExecuteGraph(g, ins, outs)
      PROVE  Abstract!ServiceNext
  <2>1. Abstract!Run(g, ins, outs)
    BY <1>0, <1>3, RunMapped
  <2>. QED
    BY <2>1 DEF Abstract!ServiceNext
<1>4. ASSUME NEW r \in Request, NEW c \in Ciphertext, RequestDecryption(r, c)
      PROVE  Abstract!ServiceNext
  <2>1. Abstract!Ask(r, c)
    BY <1>0, <1>4, AskMapped
  <2>. QED
    BY <2>1 DEF Abstract!ServiceNext
<1>5. ASSUME ProcessPending
      PROVE  Abstract!ServiceNext \/ UNCHANGED <<ServiceValue, ServiceAnswer>>
  <2>1. CASE Drain \/ Evaluate \/ StartResponse \/ Return
    BY <1>1, <2>1 DEF Drain, Evaluate, StartResponse, Return, chain
  <2>2. CASE CommitOutput
    BY <1>0, <2>2, CommitMapped
  <2>3. CASE RespondChunk
    BY <2>3, ChunkMapped DEF Abstract!ServiceNext
  <2>. QED
    BY <1>5, <2>1, <2>2, <2>3, NothingGivenUp
<1>6. CASE UNCHANGED vars
  BY <1>1, <1>6 DEF vars
<1>7. ASSUME NEW c \in Ciphertext, Register(c)
      PROVE  UNCHANGED <<ServiceValue, ServiceAnswer>>
  BY <1>1, <1>7 DEF Register, chain, NoMishap
<1>8. CASE Client
  <2>1. ASSUME NEW c \in Ciphertext, NEW t \in Type, CpiCreatePlaintext(c, t)
        PROVE  Abstract!ServiceNext
    BY <1>2, <2>1, ValueAssumption
  <2>. QED
    BY <1>2, <1>3, <1>4, <1>7, <1>8, <2>1 DEF Client
<1>. QED
  BY <1>5, <1>6, <1>8 DEF Next

LEMMA InitMapped == Init => Abstract!ServiceInit
<1>. SUFFICES ASSUME Init PROVE Abstract!ServiceInit
  OBVIOUS
<1>1. \A c \in Ciphertext : ~Exists(c)
  BY DEF Init, Exists, Absent
<1>2. \A r \in Request : request[r] = Null
  BY DEF Init
<1>3. ServiceValue = [c \in Ciphertext |-> Null]
  BY <1>1 DEF ServiceValue
<1>4. ServiceAnswer = [r \in Request |-> Null]
  BY <1>2 DEF ServiceAnswer
<1>. QED
  BY <1>3, <1>4 DEF Abstract!ServiceInit

(* With no mishap and types of one width, every behaviour of queue, store  *)
(* and executor is, to a program, one of FheService: a graph takes effect  *)
(* at once when its transaction does, an answer is the value of its        *)
(* moment, and nothing in between shows.                                   *)
THEOREM HarnessImplementsService == ASSUME NoMishap PROVE Spec => ImplementsService
<1>1. ServiceInv /\ [Next]_vars => [Abstract!ServiceNext]_Abstract!serviceVars
  BY StepMapped
<1>. QED
  BY InitMapped, <1>1, ServiceInductive, PTL DEF Spec, ImplementsService, Abstract!Service
=============================================================================
