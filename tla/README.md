# Encrypt pre-alpha: TLA+ models, checks and proofs

Encrypt lets Solana programs compute on encrypted values. A program owns
*ciphertext accounts* (a digest, a type, a status) and sends *computation
graphs* over them to the Encrypt program; an off-chain *executor* evaluates each
graph and commits the digests of its outputs; a *decryptor* answers requests for
a plaintext. This repository holds the SDK: the graph DSL, a mock compute
engine, the executor and decryptor of the test harness, the CPI contexts of four
frameworks, and example programs. The Encrypt program itself is here only as a
binary (`bin/encrypt_program.so`) with its interface file and documentation.

## The system

| Component | State | Operations | Hard behaviour | What makes it correct |
|---|---|---|---|---|
| Executor and decryptor: `chains/solana/test/src/harness.rs`, `crates/encrypt-service` | ciphertext store, work queue of executions and of decryptions, engine table | create_input, create_plaintext, execute_graph, request_decryption, enqueue_execution, register_ciphertext, process_pending | two queues drained together and never refilled on error; outputs committed one transaction at a time; inputs and outputs overlap; answers computed after the executions | store and chain agree; results are those of a serial execution; answers are current, whole, final; everything is answered |
| Encrypt program (binary): `bin/`, `chains/solana/idl`, called from `chains/solana/dev/src/tx_builder.rs` and the SDKs | ciphertext and request accounts, deposits, authorities | 22 instructions | snapshots at request time; chunked answers; authorisation | request accounts are written once and in order |
| Compute engine and evaluator: `crates/encrypt-compute`, `encrypt-types/src/identifier.rs` | digest to plaintext table | evaluate_graph, unary, binary, ternary and vector operations of each width | node order, truncation, wrapping, unknown digests | one output digest per output node; arithmetic modulo the width |
| Graph format and DSL: `encrypt-types/src/graph.rs`, `encrypt-dsl`, `encrypt-dsl-compile` | nodes, constant pool, counters of the builder | add nodes, deduplicate constants, serialize, parse, shape queries | 8 and 16 bit counters; references to earlier nodes only | what is built is what is parsed and evaluated |
| Ciphertext stores: `encrypt-service/src/store.rs`, `sqlite_store.rs` | entries by identifier | put, get, remove, open | restart with a store but no queue; errors swallowed | what was put is read back |
| SDK CPI contexts: `chains/solana/program-sdk` | none | 14 calls per framework | digest read before the CPI | the digest returned is the snapshot |
| Voting, coin-flip, counter, ACL (each in four frameworks), pc-token, pc-swap, vector-ops: `chains/solana/examples` | one account per proposal, game, counter, resource, vault, pool, ... holding ciphertext identifiers and `pending_digest` | create, update by graph, request decryption, reveal, close or cancel | several parties; a second request overwrites the digest of the first; nothing ties a request account to the ciphertext of the program's state | tallies and balances conserved, escrow paid once, revealed values final |
| gRPC service and clients | none | create_input, read_ciphertext | pure I/O | |

The parts interact through accounts. A client transaction calls an example
program; it calls the Encrypt program (CPI), which creates accounts or marks them
pending; the harness is told with `enqueue_execution`; `process_pending` reads
its store, evaluates, and sends `commit_ciphertext` and `respond_decryption`
transactions; the program reads the request account with
`read_decrypted_verified`.

## Modules

| Module | What it is |
|---|---|
| `EncryptHarness` | executor, decryptor, and the ciphertext and request accounts they serve |
| `FheService` | what that system promises, without queue, store and executor |
| `EncryptHarness_proofs` | theorems about `EncryptHarness`, and its refinement of `FheService` |
| `FheTypes` | the types of encrypted values, their widths and elements |
| `MockEngine` | bytes, values and every operation of the mock compute engine |
| `ComputationGraph` | graph builder, serialized form, parser, evaluator, over any compute engine |
| `DslMeaning` | syntax of the graph language and its documented meaning |
| `DslCompile` | the compiler, statement by statement, over builder and evaluator |
| `DslCompile_proofs` | theorems about compiler, builder, parser and evaluator together |
| `EncryptClient` | Encrypt as an example program sees it: CPI calls, a pass of the executor as one step |
| `Voting`, `VotingPrograms` | the confidential voting programs: what they share; the four of them |
| `Ballot` | what they promise: one vote each, final counts published |
| `CoinFlip`, `CoinFlipPrograms` | the coin-flip programs, likewise |
| `Wager` | what they promise: the pot goes once, whole, to the side the coin fell for |
| `Counter`, `CounterPrograms` | the confidential counter programs, likewise |
| `Acl`, `AclPrograms` | the confidential access-control programs, likewise |
| `AccessControl` | what they promise: a verdict is the rights of its moment and is told to its checker |
| `PcToken` | the confidential token |
| `TokenLedger` | what it promises, in the clear |
| `PcSwap` | the swap pool of two such tokens |
| `Sums` | totals of balances and shares |
| `Voting_proofs`, `CoinFlip_proofs`, `Counter_proofs`, `Acl_proofs` | theorems about the four programs of each example |
| `PcToken_proofs`, `PcSwap_proofs` | theorems about token and swap |
| `MC...` | constants, compositions and fairness of the TLC instances |

Three layers fit on each other. `ComputationGraph` and `MockEngine` say what one
graph yields; `EncryptHarness` takes a graph as a function (`Eval`) and says how
executor, store and chain carry many of them; `EncryptClient` takes a run of the
executor as one step, and the example programs are written on it.

### EncryptHarness

State. `account[c]` and `request[r]` are the on-chain accounts; `store` is the
ciphertext store of the executor; `executions` and `decryptions` the two queues
of `WorkQueue`; `phase`, `execs`, `decs`, `result`, `committed` and `offset` are
the program counter and the locals of `process_pending`. `views` is auxiliary:
the plaintexts a serial execution would have after each outstanding graph.

Actions. One per client call (`CreateInput`, `CreatePlaintext`,
`CpiCreatePlaintext`, `Register`, `ExecuteGraph`, `RequestDecryption`) and one
per transaction or error exit of `process_pending` (`Drain`, `Evaluate`,
`CommitOutput`, `StartResponse`, `RespondChunk`, `Return`, and the four exits of
its `?` operators). A client acts only while `process_pending` is not running:
all calls take `&mut self`.

Decisions.

- A digest is the mock engine's hash of a plaintext and is represented by that
  plaintext. `ZeroDigest`, the bytes an account starts with, is a value of its
  own which the engine decodes to the zero plaintext.
- A graph is a record of its input and output types; `Eval` maps input
  digests to output digests. Inputs and outputs are any ciphertexts, also the same
  one twice, as the accounts of a transaction may be.
- `ExecuteGraph` is the harness call, and equally the CPI of a program followed
  by `enqueue_execution`, which leaves the same state.
- The plaintext of a ciphertext a program makes by CPI is not told to the
  harness: such a ciphertext is unknown to the store until a graph writes it,
  unless `register_ciphertext` copies it. `Register` has no guard, as the code has
  none: where the store has a newer plaintext than the account, it is overwritten
  (`litesvm.rs:282-292`). That is the mishap `misregistered`: the callers in the
  repository register right after creating an account or after
  `process_pending`. `views` is then counted anew from what the store has
  (`Recount`), as that is what later graphs will read. With the mutant
  `RegisterEarly`, which lets it happen in a run without mishaps, `ImplementsService`
  fails.
- `commit_ciphertext` is accepted whatever the status of the account is. The
  `previous_digest` it carries is read from the account in the step before, so
  its comparison cannot fail here. Everything else the program may refuse is the
  mishap `tx_fails`; an evaluation error is `graph_fails`; a graph that names a
  ciphertext the harness was never told about is `unregistered`.
- Authorisation, fees, deposits and events are left out.

### Graphs, engine and compiler

`FheTypes` and `MockEngine` have the five classes of types (boolean, scalars of
one and of two bytes, bit vector, arithmetic vector) as byte sequences, with the
widths scaled down: `ByteBits` stands for the eight bits of a byte, `Wide` for the
sixteen bytes of a `u128`. `ComputationGraph` has the builder with its
deduplication of constants and its sixteen-bit offsets (`Word`), the layout and
the checks of the parser, and the evaluator's walk. The `ComputeEngine` trait it
calls is five operators it takes as constants, as the code is generic in it; the
configuration gives them the mock engine's (`mock_binary_op` and so on).

`DslCompile` processes a function a statement at a time: `Param` registers a
parameter and the digest it is run on, `Let` and `Return` compile one expression
each. An expression has names for operands: the code's `expr` compiles the
operands of an expression first and goes on with their nodes, so a nested
expression is a few `Let` steps that bind temporaries, in the order the code
compiles them. Beside the graph the module keeps what each name is worth by
`DslMeaning` (`meaning`, `expected`), which knows neither bytes nor nodes.

What the engine owes the rest is one assumption, `EngineAssumption`: on
`Encryptions`, pairs of a digest and the value it encrypts, every operation
yields an encryption of what the documentation says of it, and decryption yields
the value's plaintext. TLC evaluates it on the mock engine, for every operation
on every value of the five types at the widths of the configuration, however the
digest came about (stored under its type, under the default type, or the zero
digest of a fresh account); so it is also the check of the engine.

The clients of the builder keep to what the code's own callers do: at most 255
nodes of a kind (`CounterMax`; the `u8` counters wrap beyond it), no more nodes
than an index has room for (`MaxNodes`), full arrays in
`from_elements`, branches of one type, literals an `EBool` has room for where
the type is `EBool`, and uninitialised (zero) digests for scalars only.

### EncryptClient and the example programs

`EncryptClient` keeps, for each ciphertext, its digest, whether a graph that
writes it is pending, and the plaintext it has once all graphs are done; for each
request its snapshot and its answer. `ProcessPending` is a whole run of the
executor. That this is a fair picture is what `EncryptHarness` shows:
`SerialResult` (values are those of a serial execution), `AnswerIsCurrent`
(answers are given after all graphs sent before), `ImplementsService`, and the
absence of clients during a run.

Each instruction is one action, with its checks as guards; a failing instruction
changes nothing, because a Solana transaction is atomic, and is no step. Who
sends a transaction chooses its accounts; a guard compares them only where the
code does. The request and reveal handlers of the examples compare little: a
request takes any ciphertext, from anyone, and stores its snapshot; a reveal takes
any request account whose snapshot equals the stored digest, and the snapshot of
every ciphertext that a graph is due for is zero. What a property may claim then
depends on what was named, and history variables record it: `lastAsked` what the last
request was of, `lastShown`, `decidedBy`, `toldBy` and `shownBy` what the answer
was of that a reveal stored. The properties claim that an answer of the
right ciphertext is the right value, and that it is revealed unless a later
request of another ciphertext took its place; an answer of another ciphertext is
in the models and is claimed nothing about. Each example that exists
in four frameworks has a shared module with state, properties and the
instructions the four have in common, and a `...Programs` module with the
instructions of each version. An account belongs to one program: in voting and
coin flip an unchanging variable `sdk` says to which, because what is true
depends on it. For counter and ACL `Next` allows the instructions of all four on
one account, which is more than can happen and is what the theorems are about;
the instances keep one program to a behaviour (`sdk`, for the ACL `client`).

**Voting.** One proposal with two counters. `record[p]` is the vote record
account of a voter; it only exists or not, and what it carries in the model, the
ciphertext its vote raised, is auxiliary. `cast_vote` takes any two ciphertexts for
counters: a vote counts for the ciphertext it raises (`VotedFor`), and for none
(`Spoiled`) if it is for yes and names one ciphertext twice, as the second output
then stays. So `TallyIsVotes` is about every ciphertext, and `Ballot` has every
ciphertext for an option. `RequestTally` takes any ciphertext for either side and
`RevealTally` compares digests; what is revealed for a side counts as published if
it is an answer of that side's counter (`lastShown`). The Anchor version takes counters its client made (`create_input`)
and does not write the proposal back in `request_tally_decryption`; the Quasar
version has a 32-bit public total and fails at its limit (`MaxTotal`); the native
version addresses its account by bytes, and the digest of the no counter ends in
the byte where the bump is (`byte218`).

**Coin flip.** One game, with the lamports of its account above rent (`escrow`)
and those of each person (`wallet`). Anyone may create it (and have anyone pay),
join it, ask for the result, and reveal it; the one who created it may cancel it
before it is joined. A commitment may be 2, since nothing checks it; the result is then
neither 0 nor 1. The one who joins names any second commitment, also the first one
again. `coinIsA` is the coin: it falls when the graph is sent. A request takes
any ciphertext, so the answer that pays may be one of a commitment: then the
game is "misjudged" in `Wager`, where the pot still goes once, whole, and to one
of the two. The Quasar version stores
the bet and moves no lamports, so each of its games is a wager for nothing:
`EscrowHeld` says that its escrow stays empty.

**Counter.** Anyone moves the count; only the authority asks and reveals.
`Modulus` stands for 2^64. `ups`, `downs`, `last` and `since` (the counts there
were since each request) are bookkeeping for the properties.

**ACL.** Permissions, grants, revocation masks and verdicts are bitmasks: words,
of which `Word[bits]` is the one with exactly these bits. `Word` is any injection
of the sets of bits into the numbers that gives the empty set 0, which is all a
bitwise operation depends on. A check creates the ciphertext of its result; a
checker has one check. Requests for a check or for the permissions take any
ciphertext, and the Anchor version also takes any for the permissions to change
and for the result to write: once such a graph has gone elsewhere (`strayed`)
the properties claim nothing more. `rights` and `ever` (the rights there were at
some time) are bookkeeping. The administrator is the first person of the instance: persons
are interchangeable.

**Token.** One mint, its vault, a token account per person. The plaintext of a
balance is what it is after all graphs sent. `wrap` moves SPL tokens in and
mints; `unwrap_burn`, `unwrap_decrypt` and `unwrap_complete` take them out with a
receipt that stays open between; `approve`, `transfer_from`, `revoke`,
`freeze_account` and `thaw_account` are there; `mint_to` and `burn` exist in the
source but are not dispatched. Transfers from an account to itself are taken only
with `ToSelf`.

The program ties little together, and the model no more. `wrap(owner, n, m, ours)`
pays `n` into the vault that the call names, ours or another mint's, and mints
the encrypted `m`; `unwrap_burn` notes an amount and burns another, into any
ciphertext; `unwrap_decrypt` asks about any; `unwrap_complete` takes any request
whose snapshot fits, and pays from our vault for a receipt of another mint too
(`unwrap_complete_foreign`). `tied` is true as long as calls kept these together,
as the clients of the tests do, and the properties speak of that long: without
it the program promises no backing.

A drain of the queues fails at an output whose account was closed, and loses all
that follows it (`harness.rs:304-305`). `revoke` closes an allowance whatever
is due for it, so `marks` keeps, for each allowance with outstanding graphs, what
an error there would leave; `DrainFails` then leaves exactly that, with all
waiting requests unanswered. Payments may be taken back by it, and tokens lost:
from there on (`failed`) balances are at most the vault, no longer equal to it.

**Swap.** One pool, the two token accounts it owns, the two encrypted mirrors of
their balances it computes with, and shares. A transaction of several graphs is
one action with the values after all of them; a transaction with a failing token
call is no step. Products are taken modulo `Word`. Nothing compares the token
program a call names with `PC_TOKEN_ID`, so each call is either the token's or
another program's (`ours`): a foreign receipt says what it likes (`Receipt`) and
moves no token (`ExchangeBy`). `genuine` is true while all calls named the token,
and the properties speak of that long. The receipts of deposits are closed by
the transaction that makes them, so the harness of this repository would fail at
their commit; the model is for an executor that commits the other outputs, as
the end-to-end client waits for them (`pc-swap/e2e/main.ts:165-174`).

## Runs

| Run | Instance | What it shows |
|---|---|---|
| `harness` | 2 ciphertexts, 2 requests, plaintexts 0 and 1, a graph with two inputs and two outputs, 2 queued executions (1 when both requests are used), answers of 2 chunks, every mishap | types; store agrees with chain; serial results; verified accounts current; answers current, whole, final |
| `harness_live` | 1 request, two graphs, no mishap | the harness implements `FheService`; requests answered, outputs verified |
| `voting` | four versions; 2 voters, 3 requests, any ciphertexts named, Quasar total limited to 1 | counters, records and total agree; `Ballot` implemented; a count that is asked for is published (except by Anchor) unless another ciphertext is asked for |
| `coinflip` | four versions; 3 persons with 1 lamport each, bets 0 and 1, commitments 0 to 2, 2 requests of any ciphertext | escrow is what was staked; an answer of the result is the exclusive or; `Wager` implemented; a matched game whose result is asked for is paid, unless another ciphertext is asked for |
| `counter` | four versions; 2 persons, 4 steps modulo 3, 2 requests | no step lost across the wrap; nothing published that is older than its request; the last count is shown |
| `acl` | four versions; 1 checker, 2 ciphertexts besides the permissions, 2 bits, `Word` the binary numbers 0 to 3, 2 changes, 2 requests of any ciphertext | the mask is the rights; `AccessControl` implemented; a checker is told, unless another ciphertext is asked for |
| `token` | 2 owners with 2 and 1 tokens, amounts 1 and 2, one allowance, receipt and burned amount, 2 requests, drains that fail | as long as amounts are tied: every token backed; `TokenLedger` implemented; an unwrap is completed |
| `swap_pool` | 2 persons with 3 and 1 tokens of each side, amounts 1 and 3, `Word` 8192: denominators fit, numerators wrap | as long as calls name the token: vaults cover mirrors; shares add up; no step lowers the worth of a share; payouts arrive |
| `dsl` | six pairs of parameters, every operator and method, two or three let statements and up to two outputs, constants section of 5 bytes; 667,821 states | what compiler, builder, parser, evaluator and engine compute is what the language means; overflow is refused; equal constants are shared |
| `stale_answer` | as `harness_live` | **violation**: a verified read returns a plaintext that is not that of the digest snapshot |
| `anchor_reveal` | as `voting`, Anchor alone | **violation**: a count that is asked for and answered is never revealed |
| `self_transfer` | as `token`, with `ToSelf` | **violation**: a transfer to oneself makes tokens that nothing backs |

### Bounds

- `harness`: `MaxPending` = 2 queued executions: the interesting orders are those
  of two graphs over shared ciphertexts, with a graph whose outputs are its own
  inputs. While both requests are used one graph is outstanding (`Bounded`). Two
  ciphertexts let inputs and outputs coincide, cross or differ. Two
  plaintexts tell an old value from a new one. Answers of two chunks (`Width` 2,
  `MaxChunk` 1) have a first, a last and a gap between. There is one type: a
  second one changes only the length of an answer. Symmetry (ciphertexts and
  requests) is used here only; no liveness is checked with it.
- Examples: request accounts are interchangeable, and so are ciphertexts no role is
  fixed for. The instances take them up in one order (`InOrder`, `Followed`):
  every behaviour is one of these with names exchanged, and the properties and the
  fairness say the same of both, so nothing is lost, for liveness either.
- Two requests let a request be repeated, which overwrites a digest, and be one of
  the wrong ciphertext; `voting` has a third, for its two counters. Two voters
  reach a vote for each counter, for the same one, for a ciphertext twice, before and
  after an executor run, and one past the Quasar limit; three persons of a game
  are two sides and a stranger. Four steps modulo 3 wrap the count in both directions. Two
  bits and two changes reach grant and revocation of the same and of different
  bits; one checker is enough because checks share nothing but the permissions, and a
  request of another ciphertext needs no other checker.
- `acl`, `token`, `swap_pool`: a behaviour is followed up to the first step after
  which the properties claim nothing, which is `strayed`, an untied amount, or a
  call of a foreign program. These steps are in the model and are taken; beyond
  them the properties would hold for no reason.
- `token`: a behaviour either sends and spends or unwraps (`part`): the two share
  only `wrap` and the freeze, and the product of both is out of reach. So a drain
  that fails at a closed allowance is checked with transfers, not with answers
  waiting; the theorems have no such bound. The second person is not the freeze
  authority. Purses of 2 and 1 let an amount be covered, just covered and not
  covered.
- `swap_pool`: with 3 and 1 tokens a side and amounts 1 and 3 deposits are
  refused, quotients round to zero and not, and shares are first, last and in
  between. `Word` = 8192 is above every denominator (1000 * 4) and every number of
  shares, and below 3 * 997 * 4, a numerator: products wrap as the code's do.
- `dsl`: two-bit bytes make every carry, shift and truncation happen; a constants
  section of five bytes is filled and overfilled by three literals; vectors have
  two elements because the engine panics from the third element on where an
  operand is shorter. Let statements bind a temporary that the next one uses and
  a parameter's name again, which is what a nested expression and a shadowing do;
  the engine is checked apart from them, on all values of its types.

Deadlock is checked except where the system does stop: a game that is paid or
called off (`coinflip`), a compiled function (`dsl`), and a ballot whose request
accounts are used up before anything is revealed (`voting`, `anchor_reveal`).

### Fairness

All of it is weak. The executor keeps running: callers call `process_pending`
when there is work, and a call runs to its end (`harness_live` assumes only
that). Beyond that the examples assume what their end-to-end clients do:

- `voting`: the authority reveals, for each side, an answer of that side's counter
  when one passes. Closing, voting and asking are never forced.
- `coinflip`: somebody reveals an answer of the result when one passes. Joining,
  cancelling and asking are never forced.
- `counter`: the authority tries each of its requests; asking is never forced, and
  the property speaks of a last request after the last step.
- `acl`: a checker reveals an answer of its result when one passes; asking is not
  forced.
- `token`: an owner completes an unwrap it has had decrypted, with a request of the
  burned amount and our vault.

Nobody is assumed to refrain from asking about another ciphertext: the
properties say that the answer comes unless somebody's last request is such a one.

### Disagreements shown by a run

1. `stale_answer`: `docs/src/on-chain/decryption.md` says that the stored digest
   protects a program against an update between request and reveal. It does not
   protect against an update between request and answer: the decryptor answers
   from its store at that time (`harness.rs:317-329`).
2. `anchor_reveal`: the Anchor voting program's `RequestTallyDecryption.proposal`
   is not `mut` (`voting/anchor/src/lib.rs:267`), so the pending digest is lost
   and stays zero: the answer of a counter that was up to date when it was asked
   for never passes. (One asked for while a graph was due has a zero snapshot, and
   would.)
3. `self_transfer`: `pc-token` transfers from an account to itself leave balance
   plus amount, since both outputs go to one ciphertext; the source says that
   tokens enter only through wrap (`pc-token/pinocchio/src/lib.rs:186`).

### Seen while modelling

The models follow the code in each of these; none has a run of its own.

- In voting, coin flip and ACL, in all frameworks, a request takes any ciphertext
  and a reveal compares digests only (`voting/pinocchio/src/lib.rs:363-463`,
  `coin-flip/pinocchio/src/lib.rs:254-320`, `acl/pinocchio/src/lib.rs:439-576`). So
  the answer of another ciphertext can be stored as a count, a result or a
  verdict, and a game can be paid by one of a commitment: `Wager` calls it misjudged.
  Counter's request and reveal are the authority's alone.
- `cast_vote` does not compare the counters it is given with the proposal's
  (`voting/pinocchio/src/lib.rs:254-326`); the Anchor ACL compares neither the
  permissions nor the result with the accounts that name them.
- `wrap` ties neither the encrypted amount to the amount it moves nor the vault to
  the mint (`pc-token/pinocchio/src/lib.rs:462-486`); `unwrap_decrypt` and
  `unwrap_complete` tie neither ciphertext nor request to the receipt, nor the
  receipt to a mint (`529-576`).
- The swap's `PC_TOKEN_ID` is never compared with the token program a call names
  (`pc-swap/pinocchio/src/lib.rs:44`), though `02-program.md:156` relies on the
  receipt to keep a depositor from claiming more than was moved.
- A failed commit loses every graph and every request drained with it
  (`harness.rs:304-305`); closing an allowance that a graph is due for is enough.
  The swap closes its receipts in the transaction that makes them, so that happens
  with every swap and deposit on the harness.

- `harness.rs:307-312` files an output its store does not know as `EUint64`,
  whatever the type of its account; a decryption is queued with that type.
- The native voting program writes its pending digests one byte later than its
  comment says (`voting/native/src/lib.rs:137` against `313-315`), over the bump.
  Votes and reveals do not suffer: reads and writes agree and the bump is never
  read.
- The Quasar coin flip says that it escrows both bets and pays the winner
  (`coin-flip/quasar/src/lib.rs:7`, `71`) and moves no lamports.
- The counter's `reveal_value` compares with the digest of the last request, so an
  older answer with the same snapshot (two requests while a graph is due) passes
  as well; it is still no older than its own request.
- When the mirrors make a swap come out as nothing (slippage), `swap` keeps the
  deposit's receipt out of the reserves but the tokens stay in the vault
  (`pc-swap/pinocchio/src/lib.rs:988`).
- The products of the swap graph have 64 bits. A numerator (receipt * 997 *
  reserve) that wraps, as it does with reserves of about 2^27 each, makes the
  payout smaller than its price and never larger: the trader loses, the pool does
  not (`WorthKept`). A denominator (1000 * supply) that wraps could make it
  larger; from there on `ShareKeepsWorth` and `VaultsCover` are no claims of the
  model. In 64 bits that takes a supply of 1.8 * 10^16 units.
- `graph-compilation.md` describes a header of 13 bytes with 16-bit counts; the
  code writes 8 bytes with 8-bit counts.
- The length of the constants section is cut to sixteen bits when it is written;
  the parser then refuses the graph (`OverflowIsRefused`).
- `from_elements` with fewer elements than the type has makes constants that are
  compared at the wrong length (`encrypt-dsl/src/graph.rs:78`).
- A bare literal as a branch of a nested conditional, as in `conditionals.md`, is
  refused by the compiler. A literal shift amount is not broadcast to a vector.
- `evaluator.rs:60` speaks of encrypted inputs only; plaintext inputs consume
  input digests too.
- `!` of a comparison is bitwise, so it is never 0 for a scalar wider than a bit;
  `blend` in the mock engine returns its mask; a vector operation on a selected
  uninitialised vector reads past its sixteen bytes.

## Proofs

Checked by TLAPS for every value of the constants.

**`EncryptHarness_proofs`** rests on the assumptions of `EncryptHarness` about
its constants: `ValueAssumption` (the zero plaintext is one), `TypeAssumption`
(widths are positive, chunks are not empty), `GraphAssumption`, `EvalAssumption`
(evaluation yields one digest per output, a function of the plaintexts),
`BoundAssumption` and `NullAssumption`. Its invariant has three layers:

- `TypeInv` = `TypeOK` with `WorkerShape` (in each phase the locals have the
  shape the next step needs: a result per output in "commit", a head of the
  queue) and `RequestShape` (queued and in-progress requests exist). Without
  them heads and indices would have no type.
- `ChainInv` = `StoreAgreesWithChain` with: no entry for an account that does
  not exist, and only zero digests where there is no entry. It is what makes
  evaluation over the store the same as over the chain.
- `SerialInv`: the ciphertexts of outstanding graphs exist (`Mentioned`), so a new
  one is none of theirs; the store is the first of `views` (`StoreIsFirstView`);
  each view is the one before with the next graph applied (`ViewsAreSerial`); a
  ciphertext that no later graph writes has its final plaintext already
  (`QuietIsCurrent`). A half-committed graph is the delicate case: the store is
  then the first view overwritten with the outputs committed so far, which the
  lemmas on `Overwrite` handle. A `Register` that forgets a plaintext counts the
  views anew (`SerialRecounted`): that what no later graph writes is final in
  them again is `ReplayQuiet`, from the last view that differs.

Theorems: `TypeCorrect`, `StoreAgrees`, `SerialExecution`, `VerifiedCurrent`,
`AnswersAreCurrent`, `CompletedStays`.

The second half, up to the refinement of `FheService`, adds two more layers. `AnswerInv`: no request is
queued twice, one that waits has no byte yet, and the one in hand has as many
bytes as were sent, of what the store holds; hence `AnswersAreWhole`, under every
mishap. `SupplyInv` and `RequestInv` hold when nothing goes wrong (`NoMishap`: no
mishap, and all types as wide as the default type, since an output may be filed
under it): what an outstanding execution reads is in the store or written by an
earlier one (`AllSupplied`), and what is to be decrypted is in the store. Then no
error exit of `process_pending` can be taken (`NothingGivenUp`), and every step
is a step of `FheService` or shows nothing: `ExecuteGraph` is `Run`, taking effect
when its transaction does although evaluation and commits come later; the last
`RespondChunk` is `Answer`; drain, evaluation, commits and earlier chunks
stutter. That the outputs set one by one are those set at once
(`OverwriteIsRun`) needs the last of the places that name a ciphertext, which
`LastPlace` gets from the well-foundedness of the numbers. Theorems:
`AnswersAreWhole`, `HarnessImplementsService`.

**`Voting_proofs`** assumes `ClientAssumption`, `VotingAssumption`, `VotingNull`
and `ProgramsAssumption` (two different counters, finitely many voters, known
versions). Every instruction of every program is one of `Instruction`
(`NextStep`), where the programs differ in who makes the counters and in whether
a request keeps its digest; the rest is proved about `Instruction`, a lemma for
each of its disjuncts. The invariant `VInv` adds to `TypeOK` and `TallyIsVotes`:
nothing is recorded before `create_proposal`, what a vote raises or a request
asks for exists (`Created`; more would be false of Anchor, whose counters come
when their client likes), and a request implies that the ballot is closed and its
complete answer is the final number of votes for its ciphertext, whichever that
is (`AnswersAreFinal`). The digest compared by a reveal does not tell which
ciphertext an answer is of, so the refinement is of answers of the side's own
counter (`result`); for these the invariant says that what is published is
final, although requests may be repeated and their digests overwritten. Theorems:
`VotingTypeCorrect`, `TallyCorrect` and `VotingImplementsBallot`, a refinement.

**`CoinFlip_proofs`** assumes in the same way `ClientAssumption`,
`CoinFlipAssumption`, `CoinFlipNull` and, for what is said of the four,
`SDKAssumption`. What the programs do alike to game and ciphertexts is proved
apart from the lamports, which one of them leaves alone. `GameInv`: the types,
that a played game has a second side and a result (`Committed`), that the result
ciphertext is 1 from then on if and only if the coin fell for the creator
(`CoinIsCast`), that every complete answer of it is its value
(`AnswersAreCoin`), and what is stored (`RevealedIsCoin`). Nothing writes the
result again, so a game that is decided by an answer of it is paid to the right
side, whatever else was asked about. A game decided by another answer is not, and
the refinement says no more of it than `Wager` does of "misjudged".
`FInv` adds that escrow and wallets are not overdrawn, that the escrow is the
stakes (`EscrowHeld`), and that a paying program stores a result if and only if
it pays (`ResultIsStored`), so it pays once. A second reveal of the Quasar
program, which is possible and stores the same, is a step of `Wager` that
changes nothing (`RevealAgain`). Theorems: `FlipTypeCorrect`, `EscrowCorrect`,
`RevealedIsTheCoin` and the refinement `FlipImplementsWager`.

**`Counter_proofs`**. The invariant `CInv` is `TypeOK`, the count within the
modulus, `CountIsSteps`, and that the answer of a request is one of the counts
since it was made (`SinceIsKept`). The modulus is any positive number; `ModIs`
and the lemmas up to `ModStep` derive the few facts about remainders the steps
need from the definition of division. Theorems: `CounterTypeCorrect`,
`CountCorrect`, `PublishedCorrect`.

**`Acl_proofs`** assumes `ClientAssumption`, `AclAssumption`, `WordAssumption`
(`Word` tells sets of bits apart) and `AclNull`. The invariant `AInv` has two
parts. `Base` holds in any case: the types, and that what is named exists and every
answer is a mask. `Good` holds until a graph strays: the mask is the present
rights, which are among those there ever were (`RightsHeld`), each check has a
result of its own (`Own`), and an answer of a result says its verdict, one of the
permissions rights that there were (`AnswersHeld`). Theorems:
`AclTypeCorrect`, `MaskCorrect`, `AclImplementsAccessControl`: the verdict that an
answer of the result tells is that of the moment of the check, whatever is
granted or revoked before it is told.

**`DslCompile_proofs`** is about functions of any length, over any parameters and
expressions, and any engine: `Word`, `CounterMax` and `ByteBits` are any numbers,
and of the assumptions only `EngineAssumption` says anything of what operations
do. Three of its four theorems do without it. The proof goes up the layers:

- The builder. Each of its calls appends one node or, for a constant that is
  there already, none (`Pushes`, and a lemma for each call). They keep `GraphOK`:
  operands before the node they are of, inputs first, the header's counters those
  of the nodes (a counter for each kind is a cardinality; `SumOfCounters` adds them
  up), and `Sections`: while the constants fit in their sixteen-bit length
  every constant is inside the section and no two of a type have the same bytes; once
  they do not fit, some constant ends past every length the header can give. That
  one stays, whatever is appended later, which is why an overflow is never
  forgotten.
- The evaluator. It is a recursive function over the nodes; `RunExists` and
  `WalkEnds` get its values by the well-foundedness of the numbers (the library's
  induction theorems are out of reach), `WalkSound` says that it
  ends with a digest per node and no error on a graph that is `GraphOK`, and `PushedWalk` that
  appending a node makes it take one more step and changes none before it: the bytes
  of the constants it has read are still the same.
- The compiler. For each kind of expression, a lemma says that a documented
  expression over names with encrypted meanings compiles to a graph that is
  `GraphOK` with a node whose digest encrypts the expression's meaning (`Compiled`).

The inductive invariant `IInv` joins them: the graph is `GraphOK`, the digest of
every name in the table is an encryption of what the name is worth (`KnownNames`),
and the outputs' digests are encryptions of what is expected (`OutputsMean`).
`OutputsAreMeanings` alone is not inductive: it says nothing of names that are not
yet returned. Theorems: `GraphsWellFormed`, `ConstantsAreShared`,
`OverflowRefused`, `OutputsMeanWhatIsDocumented`. With `HarnessImplementsService`,
which takes a graph as a function of its inputs, the chain from source text to
what a program reads on chain is proved but for the operations of an engine.

**`PcToken_proofs`** and **`PcSwap_proofs`** begin with lemmas about `Total`, the
number of the units of a
function: what the total is of parts, of a function changed at one place
(`TotalOneChange`) and of one with an amount moved between two places
(`TotalMove`). A total so defined needs no recursion, and so no induction beyond
the library's facts about cardinality.

**`PcToken_proofs`** assumes `ClientAssumption`, `TokenAssumption` (the kinds of
ciphertexts are disjoint; finitely many owners and burned amounts) and
`TokenNull`, and speaks of clients that do not transfer from an account to
itself: with them `Backed` is false, as `self_transfer` shows. What is claimed is
claimed as long as amounts are tied, so every lemma about a step has `tied'` for a
hypothesis. The invariant `TInv(k)` adds to the types that what accounts and
receipts name exists, that no two accounts have one allowance ciphertext
(`AllowancesHeld`), that a burned amount is all that was asked for or nothing
(`BurnsHeld`), one that was not used yet is zero (`UnusedHeld`), an answer is it
(`AnswersAreBurned`), and that the vault is the balances, what is on its way out,
and `k` more (`VaultHolds`). `k` is the number of tokens nobody can account for:
0 until a drain fails. For `DrainFails` the invariant has to say of every state a
drain may fall back to that it would be sound: `MarksHeld` keeps, for each
outstanding allowance, that the plaintexts left there are in `Left`, in which
balances and burned amounts are no more than the vault; no step takes a state out of
`Left`, since wrapping makes the vault larger and a withdrawal takes out of it what
an answer has shown, which is the same in all of `Left`. An
unwrap whose balance did not cover it pays nothing out when it is completed, and
one that did pays exactly once. Theorems: `TokenTypeCorrect`, `TokensBacked`, and
the refinement `TokenImplementsLedger`, in which a failed drain is the one step
that is none of the ledger's.

**`PcSwap_proofs`** assumes `SwapAssumption` (the supply of each token fits in a
word). As long as every call names the token's program (`genuine`), receipts are the
token's; beyond that a mirror may grow without a deposit, and only the types are
claimed. That tokens are conserved and everything stays a word holds without more:
`SwapTypeCorrect`. The other theorems have two hypotheses, without which they
are false of modular arithmetic: `FeeFits` (1000 times the supply of a token
fits in a word) and, in every state, `SharesFit` (the shares a deposit would make
fit). Numerators may wrap. From them: `VaultsCovered`, `SharesCounted`,
`WorthKept` (the constant-product argument with the fee, over quotients that
round down and numerators reduced modulo `Word`), `PayoutsMade`. That the
hypotheses can be met is a theorem too: `SmallPoolsFit` derives both from the
supplies alone, when twice the square of the larger one and a thousand times it
fit in a word (`SmallPool`; up to 3 * 10^9 units in 64 bits), by the invariant
that the square of the shares is bounded by the product of the reserves.

Only model-checked: everything about liveness and fairness, `RevealedUnlessLost`,
`EventuallyPaid`, `EventuallyRevealed`, `EventuallyTold` and their like; the mock
engine's operations (`EngineAssumption`), whose bytes are converted by folds over
their sequences; that the one-operation steps of `DslCompile` are what the code's
recursion over a syntax tree does, which is by construction;
and the disagreements, which are counterexamples.
Neither checked nor proved: token self-transfers beyond `self_transfer`, swaps
beyond the hypotheses above, and what the programs do once calls have strayed, are
untied or foreign.

## Not modelled

- The Encrypt program itself: the repository has its binary and interface only.
  Access control of ciphertexts, deposits, fees and administrative instructions
  have no caller here that keeps state about them; `transfer_ciphertext`,
  `copy_ciphertext` and `make_public` change only who may use a ciphertext.
- `SqliteStore`: nothing but its own unit tests opens it, so there is no process
  whose restart could be modelled; its `put` and `get` are those of the in-memory
  store.
- `decrypt_and_respond` and `execute_and_commit`: two modelled calls in a row.
- In the engine: random and key operations, `blend`, and the compute paths for
  128-bit digests nobody calls. In the compiler: the CPI helpers the macro
  generates, and shape queries.
- pc-token's `mint_to` and `burn`, which no instruction reaches.
- A second proposal, game, resource, mint or pool. The instructions of another one
  can name the same ciphertexts; what that does to the first is outside the models,
  but for the vaults and receipts of another mint. Accounts are those the program
  made; one that another program made with equal bytes is not considered.
- The allowance of a revoked `approve` is not made again at the same address while
  graphs that write it are due.
- The ciphertexts a swap takes for the least amount out and for the amounts paid
  out are the caller's own and used for nothing else. A failure between two
  graphs of one swap transaction is not considered.
- vector-ops is a list of stateless graphs, whose operations `dsl` checks; the
  gRPC service and clients are pure I/O; fuzz targets, scripts and front ends.

## What is left

The plan is carried out but for these: a proof that the mock engine meets
`EngineAssumption` for every width of a byte, which needs induction over the
digits of a number; the swap beyond the width of its denominators; and the
token's two halves (spending and unwrapping), which TLC checks one at a time and
the theorems together.
