--------------------------- MODULE EncryptHarness ---------------------------
(***************************************************************************)
(* The Encrypt executor and decryptor (EncryptTestHarness) together with   *)
(* the ciphertext accounts and decryption requests of the on-chain program *)
(* it serves.                                                              *)
(*                                                                         *)
(* Clients send transactions that create ciphertexts, execute computation  *)
(* graphs over them and request decryptions; each such call leaves an item *)
(* in the work queue.  process_pending drains both queues, evaluates every *)
(* graph over the digests of its own store, commits one output per         *)
(* transaction, and then answers the decryption requests, in chunks.  All  *)
(* calls borrow the harness mutably, so a client acts only between two     *)
(* runs of process_pending; every transaction of a run is a step here.     *)
(*                                                                         *)
(* Data: a digest is the mock engine's hash of a plaintext, so it is       *)
(* represented by that plaintext, or is ZeroDigest, the all-zero bytes an  *)
(* account starts with and an update resets it to.                         *)
(***************************************************************************)
EXTENDS Integers, Sequences, FiniteSets, Functions

CONSTANTS
  Ciphertext,   \* ciphertext accounts
  Request,      \* decryption request accounts
  Value,        \* plaintexts
  ZeroValue,    \* the plaintext the engine reads from the zero digest
  ZeroDigest,   \* [0; 32]
  Type,         \* FHE types
  DefaultType,  \* FheType::EUint64, what process_pending stores when it must guess
  Width,        \* Width[t]: bytes of a plaintext of type t
  MaxChunk,     \* bytes of plaintext one respond_decryption transaction carries
  Graph,        \* graphs: records with the input and output types ins and outs
  Eval(_, _),   \* Eval(g, ds): the output digests of g on the input digests ds
  Null,         \* no store entry, no request
  MaxPending,   \* bound on the graph executions waiting in the work queue
  Mishap        \* what may go wrong: see the set below

Mishaps == {"tx_fails",      \* a transaction of process_pending is rejected
            "graph_fails",   \* evaluate_graph returns an error
            "unregistered",  \* a graph reads a ciphertext the store never heard of
            "misregistered"} \* an account is registered over a newer store entry

Digest == Value \cup {ZeroDigest}

(* MockComputeEngine::lookup. *)
Decode(d) == IF d = ZeroDigest THEN ZeroValue ELSE d

(* The digest sequences a graph may be applied to. *)
Inputs(g) == [DOMAIN g.ins -> Digest]

ASSUME ValueAssumption ==
  /\ ZeroValue \in Value
  /\ ZeroDigest \notin Value

ASSUME TypeAssumption ==
  /\ DefaultType \in Type
  /\ Width \in [Type -> Nat \ {0}]
  /\ MaxChunk \in Nat \ {0}

ASSUME GraphAssumption ==
  \A g \in Graph :
    /\ g.ins \in Seq(Type)
    /\ g.outs \in Seq(Type)
    /\ g.outs # <<>>

(* A graph is a function of the plaintexts its inputs stand for.           *)
ASSUME EvalAssumption ==
  \A g \in Graph : \A ds \in Inputs(g) :
    /\ Eval(g, ds) \in [DOMAIN g.outs -> Digest]
    /\ \A es \in Inputs(g) :
         (\A i \in DOMAIN g.ins : Decode(ds[i]) = Decode(es[i]))
           => \A j \in DOMAIN g.outs : Decode(Eval(g, ds)[j]) = Decode(Eval(g, es)[j])

ASSUME BoundAssumption == MaxPending \in Nat /\ Mishap \subseteq Mishaps

VARIABLES
  account,      \* account[c]: status, digest and type of the ciphertext account
  request,      \* request[r]: Null, or the decryption request account
  store,        \* store[c]: Null, or digest and type in the executor's store
  executions,   \* work queue: graph executions, oldest first
  decryptions,  \* work queue: decryptions, oldest first
  phase,        \* where process_pending stands: idle outside of it
  execs,        \* its drained executions; the first is the one in hand
  decs,         \* its drained decryptions; the first is the one in hand
  result,       \* output digests of the graph in hand
  committed,    \* how many outputs of the graph in hand are committed
  offset,       \* bytes of the answer in hand already sent
  views         \* auxiliary: the plaintexts before each outstanding execution, in
                \* order, and last the plaintexts once all of them are done

chain  == <<account, request>>
queue  == <<executions, decryptions>>
worker == <<phase, execs, decs, result, committed, offset>>
vars   == <<account, request, store, executions, decryptions,
            phase, execs, decs, result, committed, offset, views>>

Absent == [status |-> "absent", digest |-> ZeroDigest, type |-> DefaultType]

Account == [status : {"absent", "pending", "verified"}, digest : Digest, type : Type]
Entry == [digest : Digest, type : Type]
Execution == {x \in [graph : Graph, ins : Seq(Ciphertext), outs : Seq(Ciphertext)] :
                DOMAIN x.ins = DOMAIN x.graph.ins /\ DOMAIN x.outs = DOMAIN x.graph.outs}
Decryption == [req : Request, ct : Ciphertext, type : Type]
DecryptionRequest == [ct : Ciphertext, digest : Digest, total : Nat,
                      written : Nat, value : Value]
View == [Ciphertext -> Value]

(* The last set: what FheService shows of a request.                       *)
ASSUME NullAssumption ==
  Null \notin Entry \cup DecryptionRequest \cup Value
                \cup [ct : Ciphertext, done : BOOLEAN, value : Value]

-----------------------------------------------------------------------------
(* The serial meaning of the outstanding graph executions.                 *)

Exists(c) == account[c].status # "absent"

(* The executions whose outputs are not all committed yet, oldest first:   *)
(* while process_pending runs the work queue is empty.                     *)
Outstanding == IF phase = "idle" THEN executions ELSE execs

(* The plaintexts the store stands for.                                    *)
StoreView == [c \in Ciphertext |-> IF store[c] = Null THEN ZeroValue
                                   ELSE Decode(store[c].digest)]

(* The plaintexts once everything outstanding is done.                     *)
Current == views[Len(views)]

(* view, after the first n outputs of an execution were set from res: of   *)
(* two outputs to one ciphertext the later one stays.                      *)
Overwrite(view, outs, res, n) ==
  [c \in Ciphertext |->
     LET Last(j) == outs[j] = c /\ \A k \in (j + 1)..n : outs[k] # c
     IN  IF \E j \in 1..n : Last(j)
         THEN Decode(res[CHOOSE j \in 1..n : Last(j)])
         ELSE view[c]]

Apply(x, view) ==
  Overwrite(view, x.outs, Eval(x.graph, [i \in DOMAIN x.ins |-> view[x.ins[i]]]),
            Len(x.outs))

-----------------------------------------------------------------------------
Init ==
  /\ account = [c \in Ciphertext |-> Absent]
  /\ request = [r \in Request |-> Null]
  /\ store = [c \in Ciphertext |-> Null]
  /\ executions = <<>> /\ decryptions = <<>>
  /\ phase = "idle"
  /\ execs = <<>> /\ decs = <<>>
  /\ result = <<>> /\ committed = 0 /\ offset = 0
  /\ views = <<[c \in Ciphertext |-> ZeroValue]>>

(* The transactions, as the program carries them out.                      *)

InputTx(c, v, t) ==
  /\ ~Exists(c)
  /\ account' = [account EXCEPT ![c] = [status |-> "verified", digest |-> v, type |-> t]]

PlaintextTx(c, t) ==
  /\ ~Exists(c)
  /\ account' = [account EXCEPT ![c] = [status |-> "pending", digest |-> ZeroDigest, type |-> t]]

(* The accounts fit the graph: inputs exist, an output is new or already   *)
(* has its type, new ones are distinct and come first.                     *)
Fits(g, ins, outs) ==
  /\ \A i \in DOMAIN ins : Exists(ins[i]) /\ account[ins[i]].type = g.ins[i]
  /\ \A j \in DOMAIN outs :
       \/ ~Exists(outs[j]) /\ \A k \in 1..(j - 1) : ~Exists(outs[k]) /\ outs[k] # outs[j]
       \/ Exists(outs[j]) /\ account[outs[j]].type = g.outs[j]

(* Every output becomes pending with the zero digest, also one that was    *)
(* verified.                                                               *)
GraphTx(g, ins, outs) ==
  /\ Fits(g, ins, outs)
  /\ account' = [c \in Ciphertext |->
       IF \E j \in DOMAIN outs : outs[j] = c
       THEN [status |-> "pending", digest |-> ZeroDigest,
             type |-> g.outs[CHOOSE j \in DOMAIN outs : outs[j] = c]]
       ELSE account[c]]

(* Mutant: a request account is used again.                                *)
RequestTxAgain(r, c) ==
  /\ Exists(c)
  /\ request' = [request EXCEPT ![r] =
       [ct |-> c, digest |-> account[c].digest, total |-> Width[account[c].type],
        written |-> 0, value |-> ZeroValue]]

(* The request account snapshots the digest of the ciphertext, and its     *)
(* length is the width of the ciphertext's type.                           *)
RequestTx(r, c) ==
  /\ request[r] = Null
  /\ Exists(c)
  /\ request' = [request EXCEPT ![r] =
       [ct |-> c, digest |-> account[c].digest, total |-> Width[account[c].type],
        written |-> 0, value |-> ZeroValue]]

(* previous_digest must be the digest the account has.                     *)
CommitTx(out, previous, new) ==
  /\ account[out].digest = previous
  /\ account' = [account EXCEPT ![out].status = "verified", ![out].digest = new]

(* n bytes of the plaintext v; there must be room for them.                *)
HasRoom(r, n) == request[r].written + n <= request[r].total

RespondTx(r, n, v) ==
  /\ HasRoom(r, n)
  /\ request' = [request EXCEPT ![r].written = @ + n, ![r].value = v]

-----------------------------------------------------------------------------
(* A new ciphertext has the value v in every view: nothing outstanding     *)
(* mentions it.                                                            *)
Introduce(c, v) == views' = [i \in DOMAIN views |-> [views[i] EXCEPT ![c] = v]]

(* create_input_ciphertext: the authority vouches for the digest, so the   *)
(* account is verified at once.                                            *)
CreateInput(c, v, t) ==
  /\ phase = "idle"
  /\ InputTx(c, v, t)
  /\ store' = [store EXCEPT ![c] = [digest |-> v, type |-> t]]
  /\ Introduce(c, v)
  /\ UNCHANGED <<request, queue, worker>>

(* Mutant: the store gets the digest the account has.                      *)
CreatePlaintextZero(c, v, t) ==
  /\ phase = "idle"
  /\ PlaintextTx(c, t)
  /\ store' = [store EXCEPT ![c] = [digest |-> ZeroDigest, type |-> t]]
  /\ Introduce(c, v)
  /\ UNCHANGED <<request, queue, worker>>

(* create_plaintext_ciphertext of the harness: the store gets the digest   *)
(* of the plaintext, the account stays pending with the zero digest.       *)
CreatePlaintext(c, v, t) ==
  /\ phase = "idle"
  /\ PlaintextTx(c, t)
  /\ store' = [store EXCEPT ![c] = [digest |-> v, type |-> t]]
  /\ Introduce(c, v)
  /\ UNCHANGED <<request, queue, worker>>

(* create_plaintext of a program (CPI): the harness is not told.           *)
CpiCreatePlaintext(c, t) ==
  /\ phase = "idle"
  /\ PlaintextTx(c, t)
  /\ Introduce(c, ZeroValue)
  /\ UNCHANGED <<request, store, queue, worker>>

(* The store has nothing for c that its account does not have yet.  The    *)
(* repository's callers of register_ciphertext keep to such accounts.      *)
InStep(c) == store[c] = Null \/ account[c].status = "verified"

(* The views, once the store is changed by hand.                           *)
Recount ==
  \E vs \in [DOMAIN views -> View] :
    /\ vs[1] = StoreView'
    /\ \A k \in DOMAIN executions : vs[k + 1] = Apply(executions[k], vs[k])
    /\ views' = vs

(* Mutant: nobody keeps from registering an account too early.             *)
RegisterEarly(c) ==
  /\ phase = "idle"
  /\ Exists(c)
  /\ store' = [store EXCEPT ![c] = [digest |-> account[c].digest, type |-> account[c].type]]
  /\ \/ InStep(c) /\ UNCHANGED views
     \/ ~InStep(c) /\ Recount
  /\ UNCHANGED <<chain, queue, worker>>

(* register_ciphertext copies an account into the store, whatever the      *)
(* store has: a plaintext not committed yet is then forgotten.             *)
Register(c) ==
  /\ phase = "idle"
  /\ Exists(c)
  /\ store' = [store EXCEPT ![c] = [digest |-> account[c].digest, type |-> account[c].type]]
  /\ \/ InStep(c) /\ UNCHANGED views
     \/ ~InStep(c) /\ "misregistered" \in Mishap /\ Recount
  /\ UNCHANGED <<chain, queue, worker>>

(* The store will have an entry for c when the next execution is evaluated. *)
Known(c) ==
  \/ store[c] # Null
  \/ \E k \in DOMAIN executions : c \in Range(executions[k].outs)

(* execute_graph, and a program's CPI followed by enqueue_execution: the   *)
(* outputs become pending with the zero digest, and the work is queued.    *)
ExecuteGraph(g, ins, outs) ==
  LET x == [graph |-> g, ins |-> ins, outs |-> outs]
  IN  /\ phase = "idle"
      /\ Len(executions) < MaxPending
      /\ GraphTx(g, ins, outs)
      /\ "unregistered" \notin Mishap => \A i \in DOMAIN ins : Known(ins[i])
      /\ executions' = Append(executions, x)
      /\ views' = Append(views, Apply(x, Current))
      /\ UNCHANGED <<request, store, decryptions, worker>>

(* request_decryption needs an entry in the store: the width the decryptor *)
(* will use comes from there.                                              *)
RequestDecryption(r, c) ==
  /\ phase = "idle"
  /\ store[c] # Null
  /\ RequestTx(r, c)
  /\ decryptions' = Append(decryptions, [req |-> r, ct |-> c, type |-> store[c].type])
  /\ UNCHANGED <<account, store, executions, worker, views>>

-----------------------------------------------------------------------------
(* process_pending.                                                        *)

(* Mutant: the newest execution first.                                     *)
DrainNewestFirst ==
  /\ phase = "idle"
  /\ executions # <<>> \/ decryptions # <<>>
  /\ phase' = "loop"
  /\ execs' = [k \in DOMAIN executions |-> executions[Len(executions) + 1 - k]]
  /\ decs' = decryptions
  /\ executions' = <<>> /\ decryptions' = <<>>
  /\ UNCHANGED <<chain, store, result, committed, offset, views>>

(* Mutant: a drain with executions loses the decryptions.                  *)
DrainEither ==
  /\ phase = "idle"
  /\ executions # <<>> \/ decryptions # <<>>
  /\ phase' = "loop"
  /\ execs' = executions
  /\ decs' = IF executions = <<>> THEN decryptions ELSE <<>>
  /\ executions' = <<>> /\ decryptions' = <<>>
  /\ UNCHANGED <<chain, store, result, committed, offset, views>>

Drain ==
  /\ phase = "idle"
  /\ executions # <<>> \/ decryptions # <<>>
  /\ phase' = "loop"
  /\ execs' = executions /\ decs' = decryptions
  /\ executions' = <<>> /\ decryptions' = <<>>
  /\ UNCHANGED <<chain, store, result, committed, offset, views>>

(* Ciphertexts the next item of the run needs from the store.              *)
Needed == IF execs # <<>> THEN Range(Head(execs).ins)
          ELSE IF decs # <<>> THEN {Head(decs).ct} ELSE {}

Missing == \E c \in Needed : store[c] = Null

Evaluate ==
  /\ phase = "loop"
  /\ execs # <<>>
  /\ ~Missing
  /\ LET x == Head(execs)
     IN  result' = Eval(x.graph, [i \in DOMAIN x.ins |-> store[x.ins[i]].digest])
  /\ phase' = "commit" /\ committed' = 0
  /\ UNCHANGED <<chain, store, queue, execs, decs, offset, views>>

(* Mutant: the outputs are taken from the end.                             *)
DigestFromTheEnd == result[Len(result) - committed]

(* Mutant: the loop over the outputs is left after the first.              *)
FirstOutputIsLast == committed = 0

(* The digest committed next, and whether it is the graph's last.          *)
NewDigest == result[committed + 1]
LastOutput == committed + 1 = Len(Head(execs).outs)

(* Mutant: no default for the type of a ciphertext the store does not have. *)
EntryWithoutType(out) ==
  [digest |-> NewDigest, type |-> IF store[out] = Null THEN Null ELSE store[out].type]

(* Mutant: an entry that is there is not updated.                          *)
EntryOnlyOnce(out) ==
  IF store[out] = Null THEN [digest |-> NewDigest, type |-> DefaultType] ELSE store[out]

(* Its entry: a ciphertext the store does not have is given the default    *)
(* type.                                                                   *)
NewEntry(out) == [digest |-> NewDigest,
                  type   |-> IF store[out] = Null THEN DefaultType ELSE store[out].type]

(* One output: commit_ciphertext, then store.put.  previous_digest is read *)
(* from the account just before, so the program's test of it passes.       *)
CommitOutput ==
  LET out == Head(execs).outs[committed + 1]
  IN  /\ phase = "commit"
      /\ CommitTx(out, account[out].digest, NewDigest)
      /\ store' = [store EXCEPT ![out] = NewEntry(out)]
      /\ IF LastOutput
         THEN /\ phase' = "loop" /\ committed' = 0 /\ result' = <<>>
              /\ execs' = Tail(execs)
              /\ views' = Tail(views)
         ELSE /\ committed' = committed + 1
              /\ UNCHANGED <<phase, result, execs, views>>
      /\ UNCHANGED <<request, queue, decs, offset>>

(* Mutant: decryptions do not wait for the executions.                     *)
RespondFirst ==
  /\ phase = "loop"
  /\ decs # <<>>
  /\ ~Missing
  /\ store[Head(decs).ct] # Null
  /\ phase' = "respond" /\ offset' = 0
  /\ UNCHANGED <<chain, store, queue, execs, decs, result, committed, views>>

StartResponse ==
  /\ phase = "loop"
  /\ execs = <<>> /\ decs # <<>>
  /\ ~Missing
  /\ phase' = "respond" /\ offset' = 0
  /\ UNCHANGED <<chain, store, queue, execs, decs, result, committed, views>>

(* The end of the chunk that starts at offset.                             *)
ChunkEnd == LET len == Width[Head(decs).type]
            IN  IF offset + MaxChunk < len THEN offset + MaxChunk ELSE len

Room == HasRoom(Head(decs).req, ChunkEnd - offset)

(* One transaction of respond_decryption.                                  *)
RespondChunk ==
  LET d == Head(decs)
  IN  /\ phase = "respond"
      /\ RespondTx(d.req, ChunkEnd - offset, Decode(store[d.ct].digest))
      /\ IF ChunkEnd < Width[d.type]
         THEN /\ offset' = ChunkEnd
              /\ UNCHANGED <<phase, decs>>
         ELSE /\ offset' = 0 /\ phase' = "loop"
              /\ decs' = Tail(decs)
      /\ UNCHANGED <<account, store, queue, execs, result, committed, views>>

Return ==
  /\ phase = "loop"
  /\ execs = <<>> /\ decs = <<>>
  /\ phase' = "idle"
  /\ UNCHANGED <<chain, store, queue, execs, decs, result, committed, offset, views>>

(* Mutant: the decryptions not done go back to the queue.                  *)
GiveUpAndRetry ==
  /\ phase' = "idle"
  /\ execs' = <<>> /\ decs' = <<>>
  /\ result' = <<>> /\ committed' = 0 /\ offset' = 0
  /\ views' = <<StoreView>>
  /\ decryptions' = decs
  /\ UNCHANGED <<chain, store, executions>>

(* `?` leaves process_pending: what was drained and not done is lost.      *)
GiveUp ==
  /\ phase' = "idle"
  /\ execs' = <<>> /\ decs' = <<>>
  /\ result' = <<>> /\ committed' = 0 /\ offset' = 0
  /\ views' = <<StoreView>>
  /\ UNCHANGED <<chain, store, queue>>

CiphertextNotFound == phase = "loop" /\ Missing /\ GiveUp
GraphError == phase = "loop" /\ execs # <<>> /\ "graph_fails" \in Mishap /\ GiveUp
CommitRejected == phase = "commit" /\ "tx_fails" \in Mishap /\ GiveUp
ResponseRejected == phase = "respond" /\ ("tx_fails" \in Mishap \/ ~Room) /\ GiveUp

-----------------------------------------------------------------------------
Client ==
  \/ \E c \in Ciphertext, v \in Value, t \in Type : CreateInput(c, v, t)
  \/ \E c \in Ciphertext, v \in Value, t \in Type : CreatePlaintext(c, v, t)
  \/ \E c \in Ciphertext, t \in Type : CpiCreatePlaintext(c, t)
  \/ \E c \in Ciphertext : Register(c)
  \/ \E g \in Graph : \E ins \in [DOMAIN g.ins -> Ciphertext],
                         outs \in [DOMAIN g.outs -> Ciphertext] :
       ExecuteGraph(g, ins, outs)
  \/ \E r \in Request, c \in Ciphertext : RequestDecryption(r, c)

ProcessPending ==
  \/ Drain
  \/ Evaluate
  \/ CommitOutput
  \/ StartResponse
  \/ RespondChunk
  \/ Return
  \/ CiphertextNotFound
  \/ GraphError
  \/ CommitRejected
  \/ ResponseRejected

Next == Client \/ ProcessPending

Spec == Init /\ [][Next]_vars

(* Callers call process_pending when there is work, and a call runs to its *)
(* end; nothing obliges a client to send anything.                         *)
FairSpec == Spec /\ WF_vars(ProcessPending)

-----------------------------------------------------------------------------
(* Properties.                                                             *)

(* Every variable keeps the shape of the Rust value it stands for, and the *)
(* locals of process_pending are in step with its phase.                   *)
TypeOK ==
  /\ account \in [Ciphertext -> Account]
  /\ request \in [Request -> DecryptionRequest \cup {Null}]
  /\ store \in [Ciphertext -> Entry \cup {Null}]
  /\ executions \in Seq(Execution) /\ execs \in Seq(Execution)
  /\ decryptions \in Seq(Decryption) /\ decs \in Seq(Decryption)
  /\ phase \in {"idle", "loop", "commit", "respond"}
  /\ result \in Seq(Digest)
  /\ committed \in Nat /\ offset \in Nat
  /\ views \in Seq(View)

(* A verified account and the executor's store hold the same digest: the   *)
(* commit and the store.put of process_pending, create_input and           *)
(* register_ciphertext never leave a program reading one value on chain    *)
(* and the executor computing on another.                                  *)
StoreAgreesWithChain ==
  \A c \in Ciphertext :
    account[c].status = "verified" =>
      store[c] # Null /\ store[c].digest = account[c].digest

(* process_pending evaluates over the store as it is at the moment, one    *)
(* output at a time, inputs and outputs overlapping, yet the store ends up *)
(* as if each graph had run at once, in the order of the transactions.     *)
SerialResult == Outstanding = <<>> => StoreView = Current

(* The status a client polls: a verified ciphertext that no outstanding    *)
(* graph writes holds the value of the serial execution; with a graph      *)
(* outstanding "verified" may only mean an earlier graph was committed.    *)
VerifiedIsCurrent ==
  \A c \in Ciphertext :
    /\ account[c].status = "verified"
    /\ \A k \in DOMAIN Outstanding : c \notin Range(Outstanding[k].outs)
    => Decode(account[c].digest) = Current[c]

Complete(r) == request[r] # Null /\ request[r].written = request[r].total

(* An answer is the value the ciphertext has once every graph sent before  *)
(* the answer is done: the decryptor never answers with an older value.    *)
AnswerIsCurrent ==
  [][\A r \in Request :
       request[r] # Null /\ request'[r].written > request[r].written
         => request'[r].value = Current[request[r].ct]]_vars

(* The chunks of one answer come from one plaintext: nothing a program can *)
(* do changes the ciphertext between two chunks, and no answer is resumed  *)
(* by a later run.                                                         *)
AnswerIsWhole ==
  [][\A r \in Request :
       request[r] # Null /\ request[r].written > 0 => request'[r] \in
         {request[r], [request[r] EXCEPT !.written = request'[r].written]}]_vars

(* What a reveal instruction reads stays what it read: a complete request  *)
(* is never written again.                                                 *)
CompletedIsFinal ==
  [][\A r \in Request : Complete(r) => request'[r] = request[r]]_vars

(* Every request is answered in full.                                      *)
EveryRequestAnswered ==
  \A r \in Request : request[r] # Null ~> Complete(r)

(* Every output of a graph is verified in the end, however many graphs     *)
(* write it.                                                               *)
EveryOutputVerified ==
  \A c \in Ciphertext :
    (\E k \in DOMAIN Outstanding : c \in Range(Outstanding[k].outs))
      ~> account[c].status = "verified"

(* docs/src/on-chain/decryption.md: read_decrypted_verified protects a     *)
(* program against an update between request and response, so the answer   *)
(* it lets through is the plaintext of the digest snapshot.                *)
VerifiedReadIsSnapshot ==
  \A r \in Request :
    Complete(r) /\ request[r].digest # ZeroDigest
      => request[r].value = Decode(request[r].digest)

(* The abstract service: the value of a ciphertext is the one all          *)
(* outstanding graphs leave, an answer is done when it is complete.        *)
ServiceValue == [c \in Ciphertext |-> IF Exists(c) THEN Current[c] ELSE Null]
ServiceAnswer ==
  [r \in Request |->
     IF request[r] = Null THEN Null
     ELSE [ct    |-> request[r].ct,
           done  |-> Complete(r),
           value |-> IF Complete(r) THEN request[r].value ELSE ZeroValue]]
ServiceResult(g, vs) == LET res == Eval(g, vs) IN [j \in DOMAIN res |-> Decode(res[j])]

Abstract == INSTANCE FheService WITH
  value <- ServiceValue, answer <- ServiceAnswer,
  Result <- ServiceResult, Nothing <- Null

(* Queue, store and executor are invisible: what a program sees is the     *)
(* service of FheService, graphs atomic and answers current.               *)
ImplementsService == Abstract!Service

=============================================================================
