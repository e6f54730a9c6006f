------------------------------- MODULE PcToken -------------------------------
(***************************************************************************)
(* The confidential token: one mint, its vault of SPL tokens, and one      *)
(* token account for each person, whose balance is a ciphertext named here *)
(* by the person.  Tokens enter through wrap and leave through unwrap.     *)
(*                                                                         *)
(* The program ties little together: the encrypted amount of a wrap or an  *)
(* unwrap need not be the one in its data, a burned amount may go to any   *)
(* ciphertext, and any request whose snapshot fits completes an unwrap.    *)
(* The clients of the tests keep all this together, which tied records.    *)
(* Amounts do not wrap: all balances together are then at most the SPL     *)
(* supply, which has 64 bits.                                              *)
(***************************************************************************)
EXTENDS EncryptClient, Sums, Sequences

CONSTANTS
  Person,       \* owners, delegates and the freeze authority
  Allowance,    \* ciphertexts for allowances
  Burned,       \* ciphertexts for burned amounts
  Receipt,      \* ciphertexts for the receipts of transfers
  Amount,       \* the amounts clients use
  Purse,        \* Purse[p]: bound: the SPL tokens p starts with
  ToSelf        \* whether clients transfer from an account to itself

VARIABLES
  mint,         \* Null, or the Mint account
  vault,        \* Null, or the SPL tokens of the vault
  wallet,       \* wallet[p]: the SPL tokens of p
  token,        \* token[p]: Null, or the TokenAccount of p
  receipt,      \* receipt[c]: Null, or the WithdrawalReceipt for the burned amount c
  marks,        \* for each allowance that graphs have yet to write, in the order
                \* of the first graph that does: what that graph leaves, see Mark
  tied,         \* history: amounts, burned ciphertexts and requests belonged together
  failed        \* history: process_pending has returned an error

programVars == <<mint, vault, wallet, token, receipt>>
historyVars == <<tied, failed>>
tokenVars == <<clientVars, programVars, marks, historyVars>>

ASSUME TokenAssumption ==
  /\ Ciphertext = Person \cup Allowance \cup Burned \cup Receipt
  /\ Person \cap (Allowance \cup Burned \cup Receipt) = {}
  /\ Allowance \cap (Burned \cup Receipt) = {} /\ Burned \cap Receipt = {}
  /\ IsFiniteSet(Person) /\ IsFiniteSet(Burned)
  /\ Amount \subseteq Nat \ {0}
  /\ Purse \in [Person -> Nat] /\ ToSelf \in BOOLEAN

MintAccount == [freeze_authority : Person \cup {Null}]
TokenAccount ==
  [delegate : Person \cup {Null}, allowance : Allowance \cup {Null}, frozen : BOOLEAN]
WithdrawalReceipt == [owner : Person, amount : Nat, pending_digest : Digest]
Delegation == [by : Person, left : Nat]
MarkOf == [ct : Allowance, left : [Ciphertext -> Nat], done : SUBSET Ciphertext]

ASSUME TokenNull ==
  /\ Null \notin Nat /\ Null \notin Person /\ Null \notin Allowance
  /\ Null \notin MintAccount \cup TokenAccount \cup WithdrawalReceipt \cup Delegation

TypeOK ==
  /\ ClientTypeOK
  /\ mint \in MintAccount \cup {Null}
  /\ vault \in Nat \cup {Null}
  /\ wallet \in [Person -> Nat]
  /\ token \in [Person -> TokenAccount \cup {Null}]
  /\ receipt \in [Ciphertext -> WithdrawalReceipt \cup {Null}]
  /\ marks \in Seq(MarkOf)
  /\ {tied, failed} \subseteq BOOLEAN

Init ==
  /\ ClientInit
  /\ mint = Null /\ vault = Null
  /\ wallet = Purse
  /\ token = [p \in Person |-> Null]
  /\ receipt = [c \in Ciphertext |-> Null]
  /\ marks = <<>> /\ tied = TRUE /\ failed = FALSE

Opened(p) == token[p] # Null
Liquid(p) == Opened(p) /\ ~token[p].frozen
Enough(c, n) == cipher[c].value >= n

-----------------------------------------------------------------------------
(* The graphs: what their outputs are, by ciphertext.  Of two outputs that *)
(* go to one ciphertext the second is what it ends up with.                *)
mint_to_graph(balance, n) == [c \in {balance} |-> cipher[balance].value + n]

(* Mutant: what is sent is not compared with what there is.                *)
transfer_graph_unchecked(from, to, n) ==
  [c \in {from, to} |-> IF c = to THEN cipher[to].value + n ELSE cipher[from].value - n]

(* Mutant: the receiver's new balance is not selected.                     *)
transfer_graph_unpaid(from, to, n) ==
  [c \in {from, to} |->
    IF c = to THEN cipher[to].value + n
    ELSE IF Enough(from, n) THEN cipher[from].value - n ELSE cipher[from].value]

transfer_graph(from, to, n) ==
  [c \in {from, to} |->
    IF ~Enough(from, n) THEN cipher[c].value
    ELSE IF c = to THEN cipher[to].value + n
    ELSE cipher[from].value - n]

transfer_receipt_graph(from, to, receipt_ct, n) ==
  [c \in {from, to, receipt_ct} |->
    IF c = receipt_ct THEN IF Enough(from, n) THEN n ELSE 0
    ELSE transfer_graph(from, to, n)[c]]

(* Mutant: the allowance is not looked at.                                 *)
transfer_from_graph_unlimited(from, to, allowance, n) ==
  [c \in {from, to, allowance} |->
    IF c # allowance THEN transfer_graph(from, to, n)[c]
    ELSE IF Enough(allowance, n) THEN cipher[c].value - n ELSE 0]

transfer_from_graph(from, to, allowance, n) ==
  [c \in {from, to, allowance} |->
    IF ~(Enough(from, n) /\ Enough(allowance, n)) THEN cipher[c].value
    ELSE IF c = allowance THEN cipher[c].value - n
    ELSE transfer_graph(from, to, n)[c]]

(* Mutant: the burned amount is what was asked for.                        *)
unwrap_burn_graph_asked(balance, burned, n) ==
  [c \in {balance, burned} |->
    IF c = burned THEN n
    ELSE IF Enough(balance, n) THEN cipher[balance].value - n ELSE cipher[balance].value]

unwrap_burn_graph(balance, burned, n) ==
  [c \in {balance, burned} |->
    IF c = burned THEN IF Enough(balance, n) THEN n ELSE 0
    ELSE IF Enough(balance, n) THEN cipher[balance].value - n ELSE cipher[balance].value]

-----------------------------------------------------------------------------
(* A graph's outputs are committed one by one, the balances before the     *)
(* allowance, and a drain of the queues fails at the first output whose    *)
(* account is closed.  What it leaves if it fails at the allowance a:      *)
(* the plaintexts of now, where ciphertexts to be made later have 0, and   *)
(* which of them graphs have written.                                      *)
Mark(a) ==
  [ct |-> a,
   left |-> [c \in Ciphertext |-> IF cipher[c] = Null THEN 0 ELSE cipher[c].value],
   done |-> {c \in Ciphertext : cipher[c] # Null /\ cipher[c].due}]
Outstanding == {marks[i].ct : i \in DOMAIN marks}

(* execute_graph, by the program.                                          *)
RunGraph(out) ==
  /\ ExecuteGraph(out)
  /\ \/ DOMAIN out \cap Allowance \subseteq Outstanding /\ marks' = marks
     \/ \E a \in (DOMAIN out \cap Allowance) \ Outstanding : marks' = Append(marks, Mark(a)')

initialize_mint(freeze_authority) ==
  /\ mint = Null
  /\ mint' = [freeze_authority |-> freeze_authority]
  /\ UNCHANGED <<clientVars, vault, wallet, token, receipt, marks, historyVars>>

initialize_vault ==
  /\ mint # Null /\ vault = Null
  /\ vault' = 0
  /\ UNCHANGED <<clientVars, mint, wallet, token, receipt, marks, historyVars>>

initialize_account(owner) ==
  /\ mint # Null /\ ~Opened(owner)
  /\ CreateZeros({owner})
  /\ token' = [token EXCEPT ![owner] =
       [delegate |-> Null, allowance |-> Null, frozen |-> FALSE]]
  /\ UNCHANGED <<mint, vault, wallet, receipt, marks, historyVars>>

transfer(from, to, n) ==
  /\ Liquid(from) /\ Liquid(to)
  /\ RunGraph(transfer_graph(from, to, n))
  /\ UNCHANGED <<programVars, historyVars>>

(* The receipt goes to the program that asked for it, see PcSwap.          *)
transfer_with_receipt(from, to, n, receipt_ct) ==
  /\ Liquid(from) /\ Liquid(to)
  /\ CreateAndExecute({receipt_ct}, transfer_receipt_graph(from, to, receipt_ct, n))
  /\ UNCHANGED <<programVars, marks, historyVars>>

(* The allowance is a zero to which the amount is minted.  Bound: while    *)
(* graphs have yet to write an allowance its address is not used again.    *)
approve(owner, delegate, n, allow_ct) ==
  /\ Liquid(owner)
  /\ allow_ct \notin Outstanding
  /\ CreateAndExecute({allow_ct}, [c \in {allow_ct} |-> n])
  /\ token' = [token EXCEPT ![owner].delegate = delegate, ![owner].allowance = allow_ct]
  /\ marks' = Append([i \in DOMAIN marks |-> [marks[i] EXCEPT !.left[allow_ct] = 0]],
                     Mark(allow_ct)')
  /\ UNCHANGED <<mint, vault, wallet, receipt, historyVars>>

(* Of a frozen account too, and while graphs write the allowance.          *)
revoke(owner) ==
  /\ Opened(owner) /\ token[owner].delegate # Null
  /\ CloseCiphertext(token[owner].allowance)
  /\ token' = [token EXCEPT ![owner].delegate = Null, ![owner].allowance = Null]
  /\ UNCHANGED <<mint, vault, wallet, receipt, marks, historyVars>>

transfer_from(delegate, from, to, n) ==
  /\ Liquid(from) /\ Liquid(to)
  /\ token[from].delegate = delegate
  /\ RunGraph(transfer_from_graph(from, to, token[from].allowance, n))
  /\ UNCHANGED <<programVars, historyVars>>

freeze_account(freeze_auth, p) ==
  /\ mint # Null /\ freeze_auth = mint.freeze_authority
  /\ Opened(p)
  /\ token' = [token EXCEPT ![p].frozen = TRUE]
  /\ UNCHANGED <<clientVars, mint, vault, wallet, receipt, marks, historyVars>>

thaw_account(freeze_auth, p) ==
  /\ mint # Null /\ freeze_auth = mint.freeze_authority
  /\ Opened(p) /\ token[p].frozen
  /\ token' = [token EXCEPT ![p].frozen = FALSE]
  /\ UNCHANGED <<clientVars, mint, vault, wallet, receipt, marks, historyVars>>

(* n tokens are paid, m are minted.  The tokens go to the vault that the   *)
(* call names, ours or that of another mint, which may hold other tokens.  *)
(* The SPL transfer fails when the owner has too little.                   *)
wrap(owner, n, m, ours) ==
  /\ Liquid(owner)
  /\ \/ /\ ours
        /\ vault # Null /\ n <= wallet[owner]
        /\ wallet' = [wallet EXCEPT ![owner] = @ - n]
        /\ vault' = vault + n
     \/ ~ours /\ UNCHANGED <<vault, wallet>>
  /\ RunGraph(mint_to_graph(owner, m))
  /\ tied' = (tied /\ ours /\ n = m)
  /\ UNCHANGED <<mint, token, receipt, failed>>

(* The client's input, with 0, that unwrap_burn overwrites.                *)
create_burned(c) ==
  /\ CreateInput(c, 0)
  /\ UNCHANGED <<programVars, marks, historyVars>>

Requests(c) == {r \in Request : asked[r] # Null /\ asked[r].ct = c}
(* Made for a burned amount, and used for no other.                        *)
Fresh(c) == c \in Burned /\ receipt[c] = Null /\ Requests(c) = {}

(* n is the amount in the receipt, m is burned.                            *)
unwrap_burn(owner, burned_ct, n, m) ==
  /\ vault # Null
  /\ Liquid(owner)
  /\ receipt[burned_ct] = Null
  /\ RunGraph(unwrap_burn_graph(owner, burned_ct, m))
  /\ receipt' = [receipt EXCEPT ![burned_ct] =
       [owner |-> owner, amount |-> n, pending_digest |-> ZeroDigest]]
  /\ tied' = (tied /\ n = m /\ Fresh(burned_ct))
  /\ UNCHANGED <<mint, vault, wallet, token, failed>>

(* The receipt for receipt_ct gets the digest of whatever is named here.   *)
unwrap_decrypt(owner, receipt_ct, burned_ct, req_acct) ==
  /\ receipt[receipt_ct] # Null /\ owner = receipt[receipt_ct].owner
  /\ RequestDecryption(req_acct, burned_ct)
  /\ receipt' = [receipt EXCEPT ![receipt_ct].pending_digest = Snapshot(burned_ct)]
  /\ tied' = (tied /\ burned_ct = receipt_ct)
  /\ UNCHANGED <<mint, vault, wallet, token, marks, failed>>

(* The receipt is closed in any case; nothing is paid when the balance did *)
(* not cover the amount.  The vault named need not be ours, nor the        *)
(* request one for the burned amount.                                      *)
unwrap_complete(owner, receipt_ct, req_acct, ours) ==
  LET requested == receipt[receipt_ct].amount
      burned == asked[req_acct].value
  IN
  /\ receipt[receipt_ct] # Null /\ owner = receipt[receipt_ct].owner
  /\ Verified(req_acct, receipt[receipt_ct].pending_digest)
  /\ receipt' = [receipt EXCEPT ![receipt_ct] = Null]
  /\ \/ (burned # requested \/ ~ours) /\ UNCHANGED <<vault, wallet>>
     \/ /\ burned = requested /\ ours
        /\ requested <= vault
        /\ vault' = vault - requested
        /\ wallet' = [wallet EXCEPT ![owner] = @ + requested]
  /\ tied' = (tied /\ ours /\ asked[req_acct].ct = receipt_ct)
  /\ UNCHANGED <<clientVars, mint, token, marks, failed>>

(* A receipt does not say which mint it is of: one of another mint is paid *)
(* from our vault when the call names it.                                  *)
unwrap_complete_foreign(owner, n) ==
  /\ vault # Null /\ n <= vault
  /\ vault' = vault - n
  /\ wallet' = [wallet EXCEPT ![owner] = @ + n]
  /\ tied' = FALSE
  /\ UNCHANGED <<clientVars, mint, token, receipt, marks, failed>>

(* The drain that reaches an allowance which is closed by then.            *)
Stops == {i \in DOMAIN marks : cipher[marks[i].ct] = Null}
Stop == marks[CHOOSE i \in Stops : \A j \in Stops : i <= j]

(* Mutant: what later graphs pay in is committed all the same.             *)
DrainFails_unordered ==
  /\ Stops # {}
  /\ cipher' = [c \in Ciphertext |->
       IF cipher[c] = Null \/ ~cipher[c].due THEN cipher[c]
       ELSE LET v == IF cipher[c].value > Stop.left[c] THEN cipher[c].value ELSE Stop.left[c]
            IN [value |-> v, digest |-> v, due |-> FALSE]]
  /\ asked' = [r \in Request |-> IF asked[r] # Null /\ asked[r].done THEN asked[r] ELSE Null]
  /\ marks' = <<>> /\ failed' = TRUE
  /\ UNCHANGED <<programVars, tied>>

(* Outputs up to there are committed; later ones keep the plaintext they   *)
(* had then and the zero digest, and nothing is due any more.  Nobody will *)
(* answer the requests that were waiting: they are left out.               *)
DrainFails ==
  /\ Stops # {}
  /\ cipher' = [c \in Ciphertext |->
       IF cipher[c] = Null \/ ~cipher[c].due THEN cipher[c]
       ELSE [value |-> Stop.left[c], due |-> FALSE,
             digest |-> IF c \in Stop.done THEN Stop.left[c] ELSE ZeroDigest]]
  /\ asked' = [r \in Request |-> IF asked[r] # Null /\ asked[r].done THEN asked[r] ELSE Null]
  /\ marks' = <<>> /\ failed' = TRUE
  /\ UNCHANGED <<programVars, tied>>

ExecutorStep ==
  \/ /\ Stops = {}
     /\ ProcessPending
     /\ marks' = <<>>
     /\ UNCHANGED <<programVars, historyVars>>
  \/ DrainFails

-----------------------------------------------------------------------------
Other(p) == IF ToSelf THEN Person ELSE Person \ {p}

Setup ==
  \/ \E p \in Person \cup {Null} : initialize_mint(p)
  \/ initialize_vault
  \/ \E p \in Person : initialize_account(p)
Transfers ==
  \E p \in Person : \E q \in Other(p), n \in Amount :
    \/ transfer(p, q, n)
    \/ \E c \in Receipt : transfer_with_receipt(p, q, n, c)
    \/ \E d \in Person : transfer_from(d, p, q, n)
Rights ==
  \E p, q \in Person :
    \/ \E n \in Amount, c \in Allowance : approve(p, q, n, c)
    \/ freeze_account(p, q) \/ thaw_account(p, q)
    \/ revoke(p)
Wraps == \E p \in Person, n, m \in Amount, ours \in BOOLEAN : wrap(p, n, m, ours)
Unwraps ==
  \/ \E c \in Burned : create_burned(c)
  \/ \E p \in Person, c \in Ciphertext :
       \/ \E n, m \in Amount : unwrap_burn(p, c, n, m)
       \/ \E d \in Ciphertext, r \in Request : unwrap_decrypt(p, c, d, r)
       \/ \E r \in Request, ours \in BOOLEAN : unwrap_complete(p, c, r, ours)
  \/ \E p \in Person, n \in Amount : unwrap_complete_foreign(p, n)

Next == Setup \/ Transfers \/ Rights \/ Wraps \/ Unwraps \/ ExecutorStep

Spec == Init /\ [][Next]_tokenVars

-----------------------------------------------------------------------------
Balance(p) == IF Opened(p) THEN cipher[p].value ELSE 0
Outgoing(c) == IF receipt[c] # Null THEN cipher[c].value ELSE 0
OutgoingOf(p, c) == IF receipt[c] # Null /\ receipt[c].owner = p THEN cipher[c].value ELSE 0
Leaving(p) == Total([c \in Burned |-> OutgoingOf(p, c)])
Limit(p) ==
  IF ~Opened(p) \/ token[p].delegate = Null THEN Null
  ELSE [by |-> token[p].delegate, left |-> cipher[token[p].allowance].value]

Balances == [p \in Person |-> Balance(p)]
Outgoings == [c \in Burned |-> Outgoing(c)]
Leavings == [p \in Person |-> Leaving(p)]
Limits == [p \in Person |-> Limit(p)]

(* Tokens enter only through wrap and leave only through unwrap.  As long  *)
(* as clients keep amounts together, every confidential token is backed by *)
(* one SPL token in the vault, in whatever order graphs, answers and       *)
(* completions come, and though a drain fails and drops graphs.  Until one *)
(* does, every SPL token in the vault is that of a balance or of a burned  *)
(* amount whose receipt is open.                                           *)
Backed ==
  tied /\ vault # Null =>
    LET issued == Total(Balances) + Total(Outgoings)
    IN issued <= vault /\ (~failed => issued = vault)

(* The encrypted balances and allowances are an ordinary ledger, as long   *)
(* as clients keep amounts together, save that a drain that fails takes    *)
(* payments back.                                                          *)
Ledger == INSTANCE TokenLedger WITH
  Holder <- Person, Nobody <- Null, pocket <- wallet,
  opened <- {p \in Person : Opened(p)},
  frozen <- {p \in Person : Opened(p) /\ token[p].frozen},
  balance <- Balances, leaving <- Leavings, limit <- Limits

ImplementsLedger ==
  Ledger!LedgerInit /\ [][~tied' \/ DrainFails \/ Ledger!LedgerNext]_(Ledger!ledgerVars)

(* An unwrap that was sent to be decrypted is completed, though a second   *)
(* request overwrites the digest of the first, and though its account may  *)
(* be frozen by then; unless a drain has failed, which answers nothing.    *)
EventuallyCompleted ==
  \A c \in Burned :
    (receipt[c] # Null /\ Requests(c) # {}) ~> (receipt[c] = Null \/ failed \/ ~tied)
=============================================================================
