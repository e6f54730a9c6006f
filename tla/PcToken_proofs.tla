--------------------------- MODULE PcToken_proofs ---------------------------
(***************************************************************************)
(* The confidential token, for any finite number of owners and of burned   *)
(* amounts, any allowances, receipts, requests, amounts and purses: as     *)
(* long as clients keep amounts together every token is backed, whichever  *)
(* drains fail, and the encrypted balances are a TokenLedger.  Clients do  *)
(* not transfer from an account to itself; with ToSelf neither holds.      *)
(***************************************************************************)
EXTENDS PcToken, FiniteSetTheorems, WellFoundedInduction, TLAPS

-----------------------------------------------------------------------------
(* Sums over a finite set of holders: that they are numbers, bound each    *)
(* summand, and change by what one summand changes.                        *)

LEMMA UnitsAre ==
  ASSUME NEW S, NEW f \in [S -> Nat], NEW u
  PROVE  u \in Units(f) <=> \E x \in S : \E i \in 1 .. f[x] : u = <<x, i>>
<1>1. u \in Units(f) <=> \E x \in S : u \in Slice(f, x)
  BY DEF Units
<1>2. \A x \in S : u \in Slice(f, x) <=> \E i \in 1 .. f[x] : u = <<x, i>>
  BY DEF Slice
<1>. QED
  BY <1>1, <1>2

(* A slice has as many units as its summand says.                          *)
LEMMA SliceCount ==
  ASSUME NEW S, NEW f \in [S -> Nat], NEW x \in S
  PROVE  IsFiniteSet(Slice(f, x)) /\ Cardinality(Slice(f, x)) = f[x]
<1>1. IsFiniteSet({x}) /\ Cardinality({x}) = 1
  BY FS_Singleton
<1>2. IsFiniteSet(1 .. f[x]) /\ Cardinality(1 .. f[x]) = f[x]
  <2>1. f[x] \in Nat /\ 1 \in Int /\ f[x] \in Int
    OBVIOUS
  <2>2. IsFiniteSet(1 .. f[x]) /\ Cardinality(1 .. f[x]) = IF 1 > f[x] THEN 0 ELSE f[x] - 1 + 1
    BY <2>1, FS_Interval, Zenon
  <2>. QED
    BY <2>1, <2>2
<1>3. /\ IsFiniteSet({x} \X (1 .. f[x]))
      /\ Cardinality({x} \X (1 .. f[x])) = Cardinality({x}) * Cardinality(1 .. f[x])
  BY <1>1, <1>2, FS_Product, Zenon
<1>. QED
  BY <1>1, <1>2, <1>3 DEF Slice

LEMMA UnitsFinite ==
  ASSUME NEW S, IsFiniteSet(S), NEW f \in [S -> Nat]
  PROVE  IsFiniteSet(Units(f))
<1>. DEFINE slices == {Slice(f, x) : x \in S}
<1>1. IsFiniteSet(slices)
  <2>. DEFINE g == [x \in S |-> Slice(f, x)]
  <2>1. g \in Surjection(S, slices)
    BY DEF Surjection
  <2>. QED
    BY <2>1, FS_Surjection, Zenon
<1>2. \A T \in slices : IsFiniteSet(T)
  BY SliceCount
<1>3. IsFiniteSet(UNION slices)
  BY <1>1, <1>2, FS_UNION, Zenon
<1>4. Units(f) \subseteq UNION slices
  <2>. SUFFICES ASSUME NEW u \in Units(f) PROVE u \in UNION slices
    OBVIOUS
  <2>1. PICK x \in S : \E i \in 1 .. f[x] : u = <<x, i>>
    BY UnitsAre
  <2>2. u \in Slice(f, x)
    BY <2>1 DEF Slice
  <2>. QED
    BY <2>2
<1>. QED
  BY <1>3, <1>4, FS_Subset, Zenon

(* A sum is a number, and the empty sum is 0.                              *)
LEMMA TotalType ==
  ASSUME NEW S, IsFiniteSet(S), NEW f \in [S -> Nat]
  PROVE  Total(f) \in Nat
BY UnitsFinite, FS_CardinalityType DEF Total

LEMMA TotalZero ==
  ASSUME NEW S, NEW f \in [S -> Nat], \A x \in S : f[x] = 0
  PROVE  Total(f) = 0
<1>1. Units(f) = {}
  <2>. SUFFICES ASSUME NEW u \in Units(f) PROVE FALSE
    OBVIOUS
  <2>1. PICK x \in S : \E i \in 1 .. f[x] : u = <<x, i>>
    BY UnitsAre
  <2>. QED
    BY <2>1
<1>. QED
  BY <1>1, FS_EmptySet DEF Total

(* The sum without one summand.                                            *)
Rest(f, x) == Units(f) \ Slice(f, x)

LEMMA TotalSplit ==
  ASSUME NEW S, IsFiniteSet(S), NEW f \in [S -> Nat], NEW x \in S
  PROVE  /\ IsFiniteSet(Rest(f, x)) /\ Cardinality(Rest(f, x)) \in Nat
         /\ Total(f) = Cardinality(Rest(f, x)) + f[x]
<1>1. IsFiniteSet(Units(f)) /\ Cardinality(Units(f)) \in Nat
  BY UnitsFinite, FS_CardinalityType
<1>2. Units(f) \cap Slice(f, x) = Slice(f, x)
  <2>. SUFFICES ASSUME NEW u \in Slice(f, x) PROVE u \in Units(f)
    OBVIOUS
  <2>1. PICK i \in 1 .. f[x] : u = <<x, i>>
    BY DEF Slice
  <2>. QED
    BY <2>1, UnitsAre
<1>3. /\ IsFiniteSet(Rest(f, x))
      /\ Cardinality(Rest(f, x)) = Cardinality(Units(f)) - Cardinality(Slice(f, x))
  BY <1>1, <1>2, FS_Difference DEF Rest
<1>4. Cardinality(Rest(f, x)) \in Nat
  BY <1>3, FS_CardinalityType
<1>5. Cardinality(Slice(f, x)) = f[x] /\ f[x] \in Nat
  BY SliceCount
<1>. QED
  BY <1>1, <1>3, <1>4, <1>5 DEF Total

(* No summand is larger than the sum.                                      *)
LEMMA SummandAtMostTotal ==
  ASSUME NEW S, IsFiniteSet(S), NEW f \in [S -> Nat], NEW x \in S
  PROVE  f[x] <= Total(f)
BY TotalSplit

(* A sum changes by what its only changed summand changes.                 *)
LEMMA TotalOneChange ==
  ASSUME NEW S, IsFiniteSet(S), NEW f \in [S -> Nat], NEW g \in [S -> Nat], NEW x \in S,
         \A y \in S \ {x} : g[y] = f[y]
  PROVE  Total(g) + f[x] = Total(f) + g[x]
<1>1. ASSUME NEW h \in [S -> Nat], NEW u
      PROVE  u \in Rest(h, x) <=> \E y \in S \ {x} : \E i \in 1 .. h[y] : u = <<y, i>>
  <2>1. u \in Slice(h, x) <=> \E i \in 1 .. h[x] : u = <<x, i>>
    BY DEF Slice
  <2>2. u \in Units(h) <=> \E y \in S : \E i \in 1 .. h[y] : u = <<y, i>>
    BY UnitsAre
  <2>3. ASSUME u \in Rest(h, x) PROVE \E y \in S \ {x} : \E i \in 1 .. h[y] : u = <<y, i>>
    <3>1. PICK y \in S : \E i \in 1 .. h[y] : u = <<y, i>>
      BY <2>2, <2>3 DEF Rest
    <3>2. y # x
      BY <2>1, <2>3, <3>1 DEF Rest
    <3>. QED
      BY <3>1, <3>2
  <2>4. ASSUME NEW y \in S \ {x}, NEW i \in 1 .. h[y], u = <<y, i>> PROVE u \in Rest(h, x)
    <3>1. u \in Units(h)
      BY <2>2, <2>4
    <3>2. u \notin Slice(h, x)
      BY <2>1, <2>4
    <3>. QED
      BY <3>1, <3>2 DEF Rest
  <2>. QED
    BY <2>3, <2>4
<1>2. ASSUME NEW u PROVE u \in Rest(g, x) <=> u \in Rest(f, x)
  BY <1>1
<1>3. Rest(g, x) = Rest(f, x)
  BY <1>2
<1>4. Total(f) = Cardinality(Rest(f, x)) + f[x]
  BY TotalSplit
<1>5. Total(g) = Cardinality(Rest(g, x)) + g[x]
  BY TotalSplit
<1>6. Cardinality(Rest(f, x)) \in Nat /\ f[x] \in Nat /\ g[x] \in Nat
  BY TotalSplit
<1>. QED
  BY <1>3, <1>4, <1>5, <1>6

(* Moving an amount from one summand to another leaves the sum.            *)
LEMMA TotalMove ==
  ASSUME NEW S, IsFiniteSet(S), NEW f \in [S -> Nat], NEW g \in [S -> Nat],
         NEW x \in S, NEW y \in S, x # y, NEW n \in Nat,
         f[x] = g[x] + n, g[y] = f[y] + n, \A z \in S \ {x, y} : g[z] = f[z]
  PROVE  Total(g) = Total(f)
<1>. DEFINE h == [f EXCEPT ![x] = g[x]]
<1>1. /\ h \in [S -> Nat] /\ h[x] = g[x] /\ h[y] = f[y]
      /\ \A z \in S \ {x} : h[z] = f[z]
      /\ \A z \in S \ {y} : g[z] = h[z]
  OBVIOUS
<1>. HIDE DEF h
<1>2. Total(h) + f[x] = Total(f) + h[x]
  BY <1>1, TotalOneChange
<1>3. Total(g) + h[y] = Total(h) + g[y]
  BY <1>1, TotalOneChange
<1>4. Total(f) \in Nat /\ Total(g) \in Nat /\ Total(h) \in Nat
  BY <1>1, TotalType
<1>5. f[x] \in Nat /\ g[x] \in Nat /\ f[y] \in Nat /\ g[y] \in Nat
  OBVIOUS
<1>. QED
  BY <1>1, <1>2, <1>3, <1>4, <1>5

-----------------------------------------------------------------------------
(* The invariant.                                                          *)

(* A balance exists as long as its account.                                *)
BalancesHeld == \A p \in Person : Opened(p) <=> cipher[p] # Null

(* A delegate has an allowance, and no two accounts have the same.         *)
AllowancesHeld ==
  \A p \in Person : Opened(p) =>
    /\ token[p].delegate = Null <=> token[p].allowance = Null
    /\ token[p].allowance # Null =>
         /\ cipher[token[p].allowance] # Null
         /\ \A q \in Person \ {p} : Opened(q) => token[q].allowance # token[p].allowance

(* What was burned is all that was asked for, or nothing.                  *)
BurnsHeld ==
  /\ \A c \in Ciphertext : receipt[c] # Null => c \in Burned /\ cipher[c] # Null
  /\ \A c \in Burned : receipt[c] # Null =>
       receipt[c].amount # 0 /\ cipher[c].value \in {0, receipt[c].amount}

(* What was not burned yet is 0.                                           *)
Unused(c) ==
  receipt[c] = Null /\ \A r \in Request : asked[r] # Null /\ asked[r].done => asked[r].ct # c
UnusedHeld == \A c \in Burned : Unused(c) /\ cipher[c] # Null => cipher[c].value = 0

(* Requests are for burned amounts, which nobody writes once they are      *)
(* asked for: an answer, of whichever request, is what was burned.         *)
AnswersAreBurned ==
  \A r \in Request : asked[r] # Null =>
    /\ asked[r].ct \in Burned /\ cipher[asked[r].ct] # Null
    /\ asked[r].done => asked[r].value = cipher[asked[r].ct].value

Held == BalancesHeld /\ AllowancesHeld /\ BurnsHeld /\ UnusedHeld /\ AnswersAreBurned

(* Before there is a vault there is nothing to back; k tokens there are    *)
(* those of graphs that were dropped.                                      *)
InVault == IF vault = Null THEN 0 ELSE vault
VaultHolds(k) == InVault = Total(Balances) + Total(Outgoings) + k

Typed ==
  /\ ClientTypeOK
  /\ mint \in MintAccount \cup {Null}
  /\ vault \in Nat \cup {Null}
  /\ wallet \in [Person -> Nat]
  /\ token \in [Person -> TokenAccount \cup {Null}]
  /\ receipt \in [Ciphertext -> WithdrawalReceipt \cup {Null}]

TInv(k) == Typed /\ Held /\ VaultHolds(k)

USE ClientAssumption, TokenAssumption, TokenNull

-----------------------------------------------------------------------------
(* What exists is not Null, and has a plaintext.                           *)
LEMMA CipherExists ==
  ASSUME Typed, NEW c \in Ciphertext, cipher[c] # Null
  PROVE  cipher[c] \in CipherAccount /\ cipher[c].value \in Nat /\ cipher[c].digest \in Digest
BY DEF Typed, ClientTypeOK, CipherAccount

LEMMA TokenExists ==
  ASSUME Typed, NEW p \in Person, Opened(p)
  PROVE  /\ token[p] \in TokenAccount
         /\ token[p].delegate \in Person \cup {Null}
         /\ token[p].allowance \in Allowance \cup {Null}
         /\ token[p].frozen \in BOOLEAN
BY DEF Typed, Opened, TokenAccount

LEMMA ReceiptExists ==
  ASSUME Typed, NEW c \in Ciphertext, receipt[c] # Null
  PROVE  /\ receipt[c] \in WithdrawalReceipt
         /\ receipt[c].owner \in Person /\ receipt[c].amount \in Nat
BY DEF Typed, WithdrawalReceipt

LEMMA RequestExists ==
  ASSUME Typed, NEW r \in Request, asked[r] # Null
  PROVE  /\ asked[r] \in RequestAccount
         /\ asked[r].value \in Nat /\ asked[r].done \in BOOLEAN /\ asked[r].ct \in Ciphertext
BY DEF Typed, ClientTypeOK, RequestAccount

(* What the properties add up are numbers.                                 *)
LEMMA AmountTypes ==
  ASSUME Typed, Held
  PROVE  /\ Balances \in [Person -> Nat] /\ Outgoings \in [Burned -> Nat]
         /\ \A p \in Person : [c \in Burned |-> OutgoingOf(p, c)] \in [Burned -> Nat]
         /\ Leavings \in [Person -> Nat]
<1>1. \A p \in Person : Balance(p) \in Nat
  BY CipherExists DEF Balance, Held, BalancesHeld
<1>2. \A c \in Burned : receipt[c] # Null => cipher[c].value \in Nat
  BY CipherExists DEF Held, BurnsHeld
<1>3. \A p \in Person : [c \in Burned |-> OutgoingOf(p, c)] \in [Burned -> Nat]
  BY <1>2 DEF OutgoingOf
<1>4. \A p \in Person : Leaving(p) \in Nat
  BY <1>3, TotalType DEF Leaving
<1>. QED
  BY <1>1, <1>2, <1>3, <1>4 DEF Balances, Outgoings, Outgoing, Leavings

-----------------------------------------------------------------------------
(* A step that gives the ciphertexts in the domain of v these plaintexts,  *)
(* and touches no other.                                                   *)
Wrote(v) ==
  /\ \A c \in DOMAIN v : cipher'[c] \in CipherAccount /\ cipher'[c].value = v[c]
  /\ \A c \in Ciphertext \ DOMAIN v : cipher'[c] = cipher[c]
  /\ cipher' \in [Ciphertext -> CipherAccount \cup {Null}]
  /\ asked' = asked

LEMMA GraphWrites ==
  ASSUME Typed, NEW D \in SUBSET Ciphertext, NEW v \in [D -> Nat],
         ExecuteGraph(v) \/ \E new \in SUBSET D : CreateAndExecute(new, v)
  PROVE  Wrote(v)
<1>1. /\ cipher' = [c \in Ciphertext |->
           IF c \in D THEN [value |-> v[c], digest |-> ZeroDigest, due |-> TRUE] ELSE cipher[c]]
      /\ asked' = asked
  BY DEF ExecuteGraph, CreateAndExecute
<1>2. \A c \in D : /\ [value |-> v[c], digest |-> ZeroDigest, due |-> TRUE] \in CipherAccount
                   /\ [value |-> v[c], digest |-> ZeroDigest, due |-> TRUE].value = v[c]
  BY DEF CipherAccount, Digest
<1>. QED
  BY <1>1, <1>2 DEF Wrote, Typed, ClientTypeOK

LEMMA CreationWrites ==
  ASSUME Typed, NEW c \in Ciphertext, CreateZeros({c}) \/ CreateInput(c, 0)
  PROVE  Wrote([x \in {c} |-> 0]) /\ cipher[c] = Null
<1>. DEFINE Made(d) ==
       cipher' = [x \in Ciphertext |->
         IF x = c THEN [value |-> 0, digest |-> d, due |-> FALSE] ELSE cipher[x]]
<1>1. (\E d \in Digest : Made(d)) /\ asked' = asked /\ cipher[c] = Null
  <2>1. CASE CreateZeros({c})
    <3>1. Made(ZeroDigest)
      BY <2>1 DEF CreateZeros
    <3>. QED
      BY <2>1, <3>1 DEF CreateZeros, Digest
  <2>2. CASE CreateInput(c, 0)
    <3>1. Made(0)
      BY <2>2 DEF CreateInput, Typed, ClientTypeOK
    <3>. QED
      BY <2>2, <3>1 DEF CreateInput, Digest
  <2>. QED
    BY <2>1, <2>2
<1>2. PICK d \in Digest : Made(d)
  BY <1>1
<1>3. /\ [value |-> 0, digest |-> d, due |-> FALSE] \in CipherAccount
      /\ [value |-> 0, digest |-> d, due |-> FALSE].value = 0
  BY DEF CipherAccount
<1>. QED
  BY <1>1, <1>2, <1>3, ZenonT(60) DEF Wrote, Typed, ClientTypeOK

(* Writing creates and never closes.                                       *)
LEMMA WriteCreates ==
  ASSUME Typed, NEW D \in SUBSET Ciphertext, NEW v \in [D -> Nat], Wrote(v)
  PROVE  /\ ClientTypeOK'
         /\ \A c \in D : cipher'[c] # Null /\ cipher'[c].value = v[c]
         /\ \A c \in Ciphertext : cipher[c] # Null => cipher'[c] # Null
BY DEF Wrote, Typed, ClientTypeOK

(* Writing no burned amount leaves what accounts and receipts name.        *)
LEMMA WriteKeepsHeld ==
  ASSUME Typed, Held, NEW D \in SUBSET (Ciphertext \ Burned), NEW v \in [D -> Nat], Wrote(v),
         \A p \in D \cap Person : Opened(p), UNCHANGED <<token, receipt>>
  PROVE  Held' /\ Outgoings' = Outgoings /\ Leavings' = Leavings
<1>1. /\ \A c \in Burned : cipher'[c] = cipher[c]
      /\ \A c \in Ciphertext : cipher[c] # Null => cipher'[c] # Null
      /\ asked' = asked
  BY WriteCreates DEF Wrote
<1>2. BalancesHeld' /\ BurnsHeld'
  <2>1. \A p \in Person \ D : cipher'[p] = cipher[p]
    BY DEF Wrote
  <2>2. BalancesHeld'
    BY <1>1, <2>1 DEF Held, BalancesHeld, Opened
  <2>3. BurnsHeld'
    BY <1>1 DEF Held, BurnsHeld
  <2>. QED
    BY <2>2, <2>3
<1>3. AllowancesHeld'
  BY <1>1, TokenExists DEF Held, AllowancesHeld, Opened
<1>4. AnswersAreBurned' /\ UnusedHeld'
  BY <1>1 DEF Held, AnswersAreBurned, UnusedHeld, Unused
<1>5. Outgoings' = Outgoings
  BY <1>1 DEF Outgoings, Outgoing
<1>6. \A p \in Person, c \in Burned : OutgoingOf(p, c)' = OutgoingOf(p, c)
  BY <1>1 DEF OutgoingOf
<1>7. Leavings' = Leavings
  BY <1>6 DEF Leavings, Leaving
<1>. QED
  BY <1>2, <1>3, <1>4, <1>5, <1>7 DEF Held

(* What is written is the balance or what is left of the allowance.        *)
LEMMA WriteShows ==
  ASSUME Typed, Held, NEW D \in SUBSET Ciphertext, NEW v \in [D -> Nat], Wrote(v),
         UNCHANGED token
  PROVE  /\ \A p \in Person : Balance(p)' = IF p \in D /\ Opened(p) THEN v[p] ELSE Balance(p)
         /\ \A p \in Person :
              Limit(p)' = IF Limit(p) # Null /\ token[p].allowance \in D
                          THEN [by |-> token[p].delegate, left |-> v[token[p].allowance]]
                          ELSE Limit(p)
<1>1. \A c \in D : cipher'[c].value = v[c]
  BY WriteCreates
<1>2. \A c \in Ciphertext \ D : cipher'[c] = cipher[c]
  BY DEF Wrote
<1>3. \A p \in Person : Balance(p)' = IF p \in D /\ Opened(p) THEN v[p] ELSE Balance(p)
  BY <1>1, <1>2 DEF Balance, Opened
<1>4. ASSUME NEW p \in Person
      PROVE  Limit(p)' = IF Limit(p) # Null /\ token[p].allowance \in D
                         THEN [by |-> token[p].delegate, left |-> v[token[p].allowance]]
                         ELSE Limit(p)
  <2>1. CASE ~Opened(p) \/ token[p].delegate = Null
    BY <2>1 DEF Limit, Opened
  <2>2. CASE Opened(p) /\ token[p].delegate # Null
    <3>1. token[p].allowance \in Allowance /\ token[p].allowance \in Ciphertext
          /\ token[p].delegate \in Person /\ cipher[token[p].allowance] # Null
      BY <2>2, TokenExists DEF Held, AllowancesHeld
    <3>2. Limit(p) = [by |-> token[p].delegate, left |-> cipher[token[p].allowance].value]
      BY <2>2 DEF Limit
    <3>3. Limit(p) \in Delegation
      BY <3>1, <3>2, CipherExists DEF Delegation
    <3>4. Limit(p) # Null
      BY <3>3
    <3>5. Limit(p)' = [by |-> token[p].delegate, left |-> cipher'[token[p].allowance].value]
      BY <2>2 DEF Limit, Opened
    <3>. QED
      BY <1>1, <1>2, <3>1, <3>2, <3>4, <3>5
  <2>. QED
    BY <2>1, <2>2
<1>. QED
  BY <1>3, <1>4

-----------------------------------------------------------------------------
LEMMA TokenInit == Init => TInv(0)
<1>. SUFFICES ASSUME Init PROVE TInv(0)
  OBVIOUS
<1>. USE DEF Init, ClientInit
<1>1. Typed
  BY DEF Typed, ClientTypeOK
<1>2. Held
  BY DEF Held, BalancesHeld, AllowancesHeld, BurnsHeld, UnusedHeld, Unused, AnswersAreBurned, Opened
<1>3. /\ Balances \in [Person -> Nat] /\ Outgoings \in [Burned -> Nat]
      /\ \A p \in Person : Balances[p] = 0
      /\ \A c \in Burned : Outgoings[c] = 0
  BY DEF Balances, Outgoings, Balance, Outgoing, Opened
<1>4. Total(Balances) = 0 /\ Total(Outgoings) = 0
  BY <1>3, TotalZero
<1>. QED
  BY <1>1, <1>2, <1>4 DEF TInv, VaultHolds, InVault

(* Nobody sees a step that changes no amount, no account and no wallet.    *)
LEMMA NothingShows ==
  ASSUME Balances' = Balances, Leavings' = Leavings, Limits' = Limits, UNCHANGED <<wallet, token>>
  PROVE  UNCHANGED Ledger!ledgerVars
BY DEF Ledger!ledgerVars, Opened

(* initialize_mint and initialize_vault: nothing to back yet.              *)
LEMMA SetupKeeps ==
  ASSUME NEW k \in Nat, TInv(k), initialize_vault \/ \E p \in Person \cup {Null} : initialize_mint(p)
  PROVE  TInv(k)' /\ UNCHANGED Ledger!ledgerVars
<1>. USE DEF TInv
<1>1. /\ UNCHANGED <<clientVars, wallet, token, receipt>>
      /\ (IF vault = Null THEN 0 ELSE vault)' = IF vault = Null THEN 0 ELSE vault
      /\ vault' \in Nat \cup {Null} /\ mint' \in MintAccount \cup {Null}
  <2>1. CASE initialize_vault
    BY <2>1 DEF initialize_vault, Typed
  <2>2. ASSUME NEW p \in Person \cup {Null}, initialize_mint(p)
        PROVE  /\ UNCHANGED <<clientVars, vault, wallet, token, receipt>>
               /\ vault \in Nat \cup {Null} /\ mint' \in MintAccount
    BY <2>2 DEF initialize_mint, Typed, MintAccount
  <2>. QED
    BY <2>1, <2>2
<1>2. Typed'
  BY <1>1 DEF Typed, ClientTypeOK, clientVars
<1>3. Held'
  BY <1>1 DEF clientVars, Held, BalancesHeld, AllowancesHeld, BurnsHeld, UnusedHeld, Unused, AnswersAreBurned, Opened
<1>4. /\ Balances' = Balances /\ Outgoings' = Outgoings
      /\ Leavings' = Leavings /\ Limits' = Limits
  BY <1>1 DEF clientVars, Balances, Balance, Outgoings, Outgoing, Leavings, Leaving, OutgoingOf,
              Limits, Limit, Opened
<1>5. VaultHolds(k)'
  BY <1>1, <1>4 DEF VaultHolds, InVault
<1>. QED
  BY <1>1, <1>2, <1>3, <1>4, <1>5, NothingShows

(* initialize_account: an empty balance that nothing names.                *)
LEMMA OpenKeeps ==
  ASSUME NEW k \in Nat, TInv(k), NEW p \in Person, initialize_account(p)
  PROVE  TInv(k)' /\ Ledger!Open(p)
<1>. USE DEF TInv, initialize_account
<1>. DEFINE new == [delegate |-> Null, allowance |-> Null, frozen |-> FALSE]
<1>1. /\ new \in TokenAccount /\ new # Null
      /\ new.delegate = Null /\ new.allowance = Null /\ ~new.frozen
  <2>1. new \in TokenAccount /\ new.delegate = Null /\ new.allowance = Null /\ ~new.frozen
    BY DEF TokenAccount
  <2>. QED
    BY <2>1
<1>2. /\ ~Opened(p) /\ token'[p] = new /\ \A q \in Person \ {p} : token'[q] = token[q]
      /\ token' \in [Person -> TokenAccount \cup {Null}]
  BY <1>1 DEF Typed, Opened
<1>. HIDE DEF new
<1>. DEFINE zero == [x \in {p} |-> 0]
<1>3. Wrote(zero) /\ cipher[p] = Null /\ zero \in [{p} -> Nat] /\ zero[p] = 0
  BY CreationWrites
<1>. HIDE DEF zero
<1>4. /\ cipher'[p] \in CipherAccount /\ cipher'[p] # Null /\ cipher'[p].value = 0
      /\ \A c \in Ciphertext \ {p} : cipher'[c] = cipher[c]
      /\ \A c \in Ciphertext : cipher[c] # Null => cipher'[c] # Null
      /\ ClientTypeOK' /\ asked' = asked
  BY <1>3, WriteCreates DEF Wrote
<1>5. Typed'
  BY <1>2, <1>4 DEF Typed
<1>6. \A q \in Person : Opened(q)' <=> q = p \/ Opened(q)
  BY <1>1, <1>2 DEF Opened
<1>7. Held'
  <2>1. BalancesHeld'
    BY <1>4, <1>6 DEF Held, BalancesHeld
  <2>2. AllowancesHeld'
    BY <1>1, <1>2, <1>4, <1>6, TokenExists DEF Held, AllowancesHeld
  <2>3. BurnsHeld' /\ UnusedHeld' /\ AnswersAreBurned'
    BY <1>4 DEF Held, BurnsHeld, UnusedHeld, Unused, AnswersAreBurned
  <2>. QED
    BY <2>1, <2>2, <2>3 DEF Held
<1>8. Balances' = Balances
  <2>1. \A q \in Person : Balance(q)' = Balance(q)
    BY <1>2, <1>4, <1>6 DEF Balance
  <2>. QED
    BY <2>1 DEF Balances
<1>9. Outgoings' = Outgoings /\ Leavings' = Leavings
  <2>1. \A c \in Burned : cipher'[c] = cipher[c]
    BY <1>4
  <2>2. \A q \in Person, c \in Burned : OutgoingOf(q, c)' = OutgoingOf(q, c)
    BY <2>1 DEF OutgoingOf
  <2>. QED
    BY <2>1, <2>2 DEF Outgoings, Outgoing, Leavings, Leaving
<1>10. Limits' = Limits
  <2>1. \A q \in Person : Limit(q)' = Limit(q)
    <3>1. Limit(p)' = Null /\ Limit(p) = Null
      BY <1>1, <1>2 DEF Limit
    <3>2. ASSUME NEW q \in Person \ {p} PROVE Limit(q)' = Limit(q)
      BY <1>2, <1>4, <1>6, TokenExists DEF Limit, Held, AllowancesHeld
    <3>. QED
      BY <3>1, <3>2
  <2>. QED
    BY <2>1 DEF Limits
<1>11. VaultHolds(k)'
  BY <1>8, <1>9 DEF VaultHolds, InVault
<1>12. Ledger!Open(p)
  <2>1. {q \in Person : Opened(q)}' = {q \in Person : Opened(q)} \cup {p}
    BY <1>6
  <2>2. {q \in Person : Opened(q) /\ token[q].frozen}' = {q \in Person : Opened(q) /\ token[q].frozen}
    BY <1>1, <1>2, <1>6
  <2>. QED
    BY <1>8, <1>9, <1>10, <2>1, <2>2 DEF Ledger!Open
<1>. QED
  BY <1>5, <1>7, <1>11, <1>12

-----------------------------------------------------------------------------
(* A graph that takes m from one balance, which has it, and gives m to     *)
(* another, and writes whatever else but no burned amount.                 *)
Moves(v, p, q, m) ==
  /\ v[p] + m = cipher[p].value
  /\ v[q] = cipher[q].value + m

LEMMA MoveKeeps ==
  ASSUME NEW k \in Nat, TInv(k), NEW p \in Person, NEW q \in Person, p # q, Liquid(p), Liquid(q),
         NEW D \in SUBSET (Ciphertext \ Burned), D \cap Person = {p, q},
         NEW v \in [D -> Nat], Wrote(v), NEW m \in Nat, Moves(v, p, q, m),
         UNCHANGED <<mint, vault, wallet, token, receipt>>
  PROVE  /\ TInv(k)'
         /\ Balances' = [Balances EXCEPT ![p] = @ - m, ![q] = @ + m]
         /\ m <= Balances[p] /\ Leavings' = Leavings
<1>. USE DEF TInv
<1>1. Held' /\ Outgoings' = Outgoings /\ Leavings' = Leavings
  BY WriteKeepsHeld DEF Liquid
<1>2. Typed'
  BY WriteCreates DEF Typed
<1>3. Balances \in [Person -> Nat] /\ Outgoings \in [Burned -> Nat]
  BY AmountTypes
<1>4. /\ \A x \in Person : Balance(x)' = IF x \in D /\ Opened(x) THEN v[x] ELSE Balance(x)
      /\ Balances' \in [Person -> Nat]
  <2>1. \A x \in Person : Balance(x)' = IF x \in D /\ Opened(x) THEN v[x] ELSE Balance(x)
    BY WriteShows
  <2>2. \A x \in Person : Balance(x)' \in Nat
    BY <1>3, <2>1 DEF Balances
  <2>. QED
    BY <2>1, <2>2 DEF Balances
<1>5. /\ Balances[p] = cipher[p].value /\ Balances[q] = cipher[q].value
      /\ Balances'[p] = v[p] /\ Balances'[q] = v[q]
      /\ \A x \in Person \ {p, q} : Balances'[x] = Balances[x]
  BY <1>4 DEF Balances, Balance, Liquid
<1>6. Balances[p] = Balances'[p] + m /\ Balances'[q] = Balances[q] + m
  BY <1>5 DEF Moves
<1>7. Total(Balances') = Total(Balances)
  BY <1>3, <1>4, <1>5, <1>6, TotalMove
<1>8. VaultHolds(k)'
  BY <1>1, <1>7 DEF VaultHolds, InVault
<1>9. Balances' = [Balances EXCEPT ![p] = @ - m, ![q] = @ + m]
  BY <1>3, <1>4, <1>5, <1>6
<1>10. m <= Balances[p]
  BY <1>3, <1>4, <1>6
<1>. QED
  BY <1>1, <1>2, <1>8, <1>9, <1>10

(* Limits are what they were when no allowance is written.                 *)
LEMMA NoAllowanceWritten ==
  ASSUME NEW k \in Nat, TInv(k), NEW D \in SUBSET (Ciphertext \ Allowance), NEW v \in [D -> Nat], Wrote(v),
         UNCHANGED token
  PROVE  Limits' = Limits
<1>1. ASSUME NEW x \in Person PROVE Limit(x)' = Limit(x)
  <2>1. Limit(x) # Null => token[x].allowance \in Allowance
    BY TokenExists DEF TInv, Held, AllowancesHeld, Limit
  <2>. QED
    BY <2>1, WriteShows DEF TInv
<1>. QED
  BY <1>1 DEF Limits

(* A move that touches no allowance is a payment, or nothing.              *)
LEMMA MovePays ==
  ASSUME NEW k \in Nat, TInv(k), NEW p \in Person, NEW q \in Person, Liquid(p), Liquid(q), NEW m \in Nat,
         Balances' = [Balances EXCEPT ![p] = @ - m, ![q] = @ + m], m <= Balances[p],
         Leavings' = Leavings, Limits' = Limits, UNCHANGED <<wallet, token>>
  PROVE  [Ledger!LedgerNext]_(Ledger!ledgerVars)
<1>1. Balances \in [Person -> Nat]
  BY AmountTypes DEF TInv
<1>2. CASE m = 0
  <2>1. Balances' = Balances
    BY <1>1, <1>2
  <2>. QED
    BY <2>1, NothingShows
<1>3. CASE m # 0
  <2>1. m \in 1 .. Balances[p]
    BY <1>1, <1>3
  <2>2. Ledger!Pay(p, q, m)
    BY DEF Ledger!Pay, Ledger!Move, Ledger!Liquid, Liquid, Opened
  <2>. QED
    BY <2>1, <2>2 DEF Ledger!LedgerNext
<1>. QED
  BY <1>2, <1>3

(* What the graphs of a transfer write.                                    *)
LEMMA TransferGraph ==
  ASSUME Typed, NEW p \in Person, NEW q \in Person, p # q, NEW n \in Nat,
         cipher[p] # Null, cipher[q] # Null
  PROVE  LET v == transfer_graph(p, q, n)
             m == IF Enough(p, n) THEN n ELSE 0
         IN /\ v \in [{p, q} -> Nat] /\ m \in Nat
            /\ Moves(v, p, q, m)
<1>1. cipher[p].value \in Nat /\ cipher[q].value \in Nat
  BY CipherExists
<1>. QED
  BY <1>1 DEF transfer_graph, Enough, Moves

(* transfer: nothing is sent that is not there.                            *)
LEMMA TransferKeeps ==
  ASSUME NEW k \in Nat, TInv(k), NEW p \in Person, NEW q \in Person, p # q, NEW n \in Amount, transfer(p, q, n)
  PROVE  TInv(k)' /\ [Ledger!LedgerNext]_(Ledger!ledgerVars)
<1>. DEFINE v == transfer_graph(p, q, n)
            m == IF Enough(p, n) THEN n ELSE 0
<1>1. /\ cipher[p] # Null /\ cipher[q] # Null /\ Liquid(p) /\ Liquid(q)
      /\ ExecuteGraph(v) /\ UNCHANGED <<mint, vault, wallet, token, receipt>>
  BY DEF TInv, Held, BalancesHeld, transfer, RunGraph, programVars, Liquid
<1>2. v \in [{p, q} -> Nat] /\ m \in Nat /\ Moves(v, p, q, m)
  BY <1>1, TransferGraph DEF TInv
<1>. HIDE DEF v, m
<1>3. Wrote(v)
  BY <1>1, <1>2, GraphWrites DEF TInv
<1>4. /\ TInv(k)' /\ Leavings' = Leavings
      /\ Balances' = [Balances EXCEPT ![p] = @ - m, ![q] = @ + m] /\ m <= Balances[p]
  BY <1>1, <1>2, <1>3, MoveKeeps
<1>5. Limits' = Limits
  BY <1>1, <1>2, <1>3, NoAllowanceWritten
<1>. QED
  BY <1>1, <1>2, <1>4, <1>5, MovePays

(* transfer_with_receipt: the same, whatever the receipt says.             *)
LEMMA ReceiptKeeps ==
  ASSUME NEW k \in Nat, TInv(k), NEW p \in Person, NEW q \in Person, p # q, NEW n \in Amount,
         NEW c \in Receipt, transfer_with_receipt(p, q, n, c)
  PROVE  TInv(k)' /\ [Ledger!LedgerNext]_(Ledger!ledgerVars)
<1>. DEFINE g == transfer_graph(p, q, n)
            v == transfer_receipt_graph(p, q, c, n)
            m == IF Enough(p, n) THEN n ELSE 0
<1>1. /\ cipher[p] # Null /\ cipher[q] # Null /\ Liquid(p) /\ Liquid(q)
      /\ CreateAndExecute({c}, v) /\ UNCHANGED <<mint, vault, wallet, token, receipt>>
  BY DEF TInv, Held, BalancesHeld, transfer_with_receipt, programVars, Liquid
<1>2. g \in [{p, q} -> Nat] /\ m \in Nat /\ Moves(g, p, q, m)
  BY <1>1, TransferGraph DEF TInv
<1>3. /\ v \in [{p, q, c} -> Nat] /\ c \notin Person /\ c \notin Allowance /\ c \notin Burned
      /\ v[p] = g[p] /\ v[q] = g[q]
  BY <1>2 DEF transfer_receipt_graph
<1>4. Moves(v, p, q, m)
  BY <1>2, <1>3 DEF Moves
<1>. HIDE DEF g, v, m
<1>5. Wrote(v)
  BY <1>1, <1>3, GraphWrites DEF TInv
<1>6. /\ TInv(k)' /\ Leavings' = Leavings
      /\ Balances' = [Balances EXCEPT ![p] = @ - m, ![q] = @ + m] /\ m <= Balances[p]
  <2>1. {p, q, c} \in SUBSET (Ciphertext \ Burned) /\ {p, q, c} \cap Person = {p, q}
    BY <1>3
  <2>. QED
    BY <1>1, <1>2, <1>3, <1>4, <1>5, <2>1, MoveKeeps
<1>7. Limits' = Limits
  <2>1. {p, q, c} \in SUBSET (Ciphertext \ Allowance)
    BY <1>3
  <2>. QED
    BY <1>1, <1>3, <1>5, <2>1, NoAllowanceWritten
<1>. QED
  BY <1>1, <1>2, <1>6, <1>7, MovePays

(* transfer_from: no more than the delegate's allowance either, which goes *)
(* down by what is sent; no other allowance does.                          *)
LEMMA TransferFromKeeps ==
  ASSUME NEW k \in Nat, TInv(k), NEW d \in Person, NEW p \in Person, NEW q \in Person, p # q, NEW n \in Amount,
         transfer_from(d, p, q, n)
  PROVE  TInv(k)' /\ [Ledger!LedgerNext]_(Ledger!ledgerVars)
<1>. DEFINE a == token[p].allowance
            v == transfer_from_graph(p, q, a, n)
            m == IF Enough(p, n) /\ Enough(a, n) THEN n ELSE 0
<1>1. /\ Opened(p) /\ Liquid(p) /\ Liquid(q) /\ token[p].delegate = d
      /\ ExecuteGraph(v) /\ UNCHANGED <<mint, vault, wallet, token, receipt>>
  BY DEF transfer_from, RunGraph, programVars, Liquid
<1>2. /\ cipher[p] # Null /\ cipher[q] # Null /\ cipher[a] # Null
      /\ a \in Allowance /\ a \in Ciphertext /\ a \notin Person /\ a \notin Burned
  BY <1>1, TokenExists DEF TInv, Held, BalancesHeld, AllowancesHeld, Liquid
<1>3. cipher[p].value \in Nat /\ cipher[q].value \in Nat /\ cipher[a].value \in Nat
  BY <1>2, CipherExists DEF TInv
<1>4. /\ v \in [{p, q, a} -> Nat] /\ m \in Nat
      /\ Moves(v, p, q, m)
      /\ v[a] = cipher[a].value - m /\ m <= cipher[a].value
  <2>1. p # a /\ q # a
    BY <1>2
  <2>2. CASE Enough(p, n) /\ Enough(a, n)
    <3>1. /\ v = [c \in {p, q, a} |->
               IF c = a THEN cipher[c].value - n ELSE transfer_graph(p, q, n)[c]]
          /\ m = n /\ n <= cipher[p].value /\ n <= cipher[a].value
      BY <1>3, <2>2 DEF transfer_from_graph, Enough
    <3>2. v[p] = cipher[p].value - n /\ v[q] = cipher[q].value + n /\ v[a] = cipher[a].value - n
      BY <2>1, <2>2, <3>1 DEF transfer_graph
    <3>. QED
      BY <1>3, <3>1, <3>2 DEF Moves
  <2>3. CASE ~(Enough(p, n) /\ Enough(a, n))
    <3>1. v = [c \in {p, q, a} |-> cipher[c].value] /\ m = 0
      BY <2>3 DEF transfer_from_graph
    <3>. QED
      BY <1>3, <3>1 DEF Moves
  <2>. QED
    BY <2>2, <2>3
<1>. HIDE DEF v, m
<1>5. Wrote(v)
  BY <1>1, <1>2, <1>4, GraphWrites DEF TInv
<1>6. /\ TInv(k)' /\ Leavings' = Leavings
      /\ Balances' = [Balances EXCEPT ![p] = @ - m, ![q] = @ + m] /\ m <= Balances[p]
  <2>1. {p, q, a} \in SUBSET (Ciphertext \ Burned) /\ {p, q, a} \cap Person = {p, q}
    BY <1>2
  <2>. QED
    BY <1>1, <1>4, <1>5, <2>1, MoveKeeps
<1>7. Limit(p) = [by |-> d, left |-> cipher[a].value] /\ Limit(p) # Null
  <2>1. Limit(p) = [by |-> d, left |-> cipher[a].value]
    BY <1>1 DEF Limit
  <2>2. Limit(p) \in Delegation
    BY <1>3, <2>1 DEF Delegation
  <2>. QED
    BY <2>1, <2>2
<1>8. \A x \in Person : Limit(x)' = IF x = p THEN [by |-> d, left |-> v[a]] ELSE Limit(x)
  <2>1. {p, q, a} \in SUBSET Ciphertext
    BY <1>2
  <2>2. \A x \in Person :
          Limit(x)' = IF Limit(x) # Null /\ token[x].allowance \in {p, q, a}
                      THEN [by |-> token[x].delegate, left |-> v[token[x].allowance]]
                      ELSE Limit(x)
    BY <1>1, <1>4, <1>5, <2>1, WriteShows DEF TInv
  <2>3. \A x \in Person \ {p} : Limit(x) # Null => token[x].allowance \notin {p, q, a}
    BY <1>1, <1>2, TokenExists DEF TInv, Held, AllowancesHeld, Limit
  <2>. QED
    BY <1>1, <1>7, <2>2, <2>3
<1>9. CASE m = 0
  <2>1. \A x \in Person : Limit(x)' = Limit(x)
    BY <1>3, <1>4, <1>7, <1>8, <1>9
  <2>2. Limits' = Limits
    BY <2>1 DEF Limits
  <2>. QED
    BY <1>1, <1>6, <1>9, <2>2, MovePays
<1>10. CASE m # 0
  <2>1. Balances \in [Person -> Nat]
    BY AmountTypes DEF TInv
  <2>2. m \in 1 .. Balances[p]
    BY <1>4, <1>6, <1>10, <2>1
  <2>3. Limits' = [Limits EXCEPT ![p].left = @ - m]
    <3>1. Limits[p] = [by |-> d, left |-> cipher[a].value]
      BY <1>7 DEF Limits
    <3>2. [Limits[p] EXCEPT !.left = @ - m] = [by |-> d, left |-> v[a]]
      BY <1>4, <3>1
    <3>3. Limits' = [Limits EXCEPT ![p] = [by |-> d, left |-> v[a]]]
      BY <1>8 DEF Limits
    <3>. QED
      BY <3>2, <3>3
  <2>4. Limits[p] # Null /\ m <= Limits[p].left
    BY <1>4, <1>7 DEF Limits
  <2>5. Ledger!PayForHolder(p, q, m)
    BY <1>1, <1>6, <2>3, <2>4 DEF Ledger!PayForHolder, Ledger!Move, Ledger!Liquid, Liquid, Opened
  <2>. QED
    BY <1>6, <2>2, <2>5 DEF Ledger!LedgerNext
<1>. QED
  BY <1>6, <1>9, <1>10

-----------------------------------------------------------------------------
(* An account that changes what it allows holds what it held.              *)
LEMMA RightsKeep ==
  ASSUME NEW k \in Nat, TInv(k), ClientTypeOK', \A c \in Ciphertext \ Allowance : cipher'[c] = cipher[c],
         asked' = asked, UNCHANGED <<mint, vault, wallet, receipt>>,
         token' \in [Person -> TokenAccount \cup {Null}],
         \A p \in Person : Opened(p)' = Opened(p), AllowancesHeld'
  PROVE  TInv(k)' /\ Balances' = Balances /\ Leavings' = Leavings
<1>. USE DEF TInv
<1>1. Typed'
  BY DEF Typed
<1>2. /\ \A p \in Person : cipher'[p] = cipher[p]
      /\ \A c \in Burned : cipher'[c] = cipher[c]
  OBVIOUS
<1>3. Held'
  BY <1>2 DEF Held, BalancesHeld, BurnsHeld, UnusedHeld, Unused, AnswersAreBurned
<1>4. \A p \in Person : Balance(p)' = Balance(p)
  BY <1>2 DEF Balance
<1>5. Balances' = Balances /\ Outgoings' = Outgoings
  BY <1>2, <1>4 DEF Balances, Outgoings, Outgoing
<1>6. \A p \in Person, c \in Burned : OutgoingOf(p, c)' = OutgoingOf(p, c)
  BY <1>2 DEF OutgoingOf
<1>7. Leavings' = Leavings
  BY <1>6 DEF Leavings, Leaving
<1>8. VaultHolds(k)'
  BY <1>5 DEF VaultHolds, InVault
<1>. QED
  BY <1>1, <1>3, <1>5, <1>7, <1>8

(* The one limit that a new set of rights changes.                         *)
LEMMA LimitIsSet ==
  ASSUME NEW k \in Nat, TInv(k), NEW p \in Person, Opened(p), Balances' = Balances, Leavings' = Leavings,
         UNCHANGED wallet, \A q \in Person \ {p} : Limit(q)' = Limit(q),
         \A q \in Person : Opened(q)' = Opened(q),
         \A q \in Person : Opened(q) => token'[q].frozen = token[q].frozen
  PROVE  Ledger!LedgerNext
<1>1. Limits' = [Limits EXCEPT ![p] = Limits'[p]]
  BY DEF Limits
<1>2. /\ {q \in Person : Opened(q)}' = {q \in Person : Opened(q)}
      /\ {q \in Person : Opened(q) /\ token[q].frozen}' = {q \in Person : Opened(q) /\ token[q].frozen}
  OBVIOUS
<1>3. Ledger!SetLimit(p)
  BY <1>1, <1>2 DEF Ledger!SetLimit
<1>. QED
  BY <1>3 DEF Ledger!LedgerNext

(* approve: a new allowance, which is nobody else's.                       *)
LEMMA ApproveKeeps ==
  ASSUME NEW k \in Nat, TInv(k), NEW p \in Person, NEW d \in Person, NEW n \in Amount, NEW a \in Allowance,
         approve(p, d, n, a)
  PROVE  TInv(k)' /\ Ledger!LedgerNext
<1>. DEFINE v == [c \in {a} |-> n]
<1>1. /\ Opened(p) /\ CreateAndExecute({a}, v) /\ UNCHANGED <<mint, vault, wallet, receipt>>
      /\ cipher[a] = Null /\ v \in [{a} -> Nat] /\ a \in Ciphertext
  BY DEF approve, Liquid, CreateAndExecute
<1>2. Wrote(v)
  BY <1>1, GraphWrites DEF TInv
<1>3. /\ ClientTypeOK' /\ cipher'[a] # Null
      /\ \A c \in Ciphertext \ {a} : cipher'[c] = cipher[c]
      /\ asked' = asked
  BY <1>1, <1>2, WriteCreates DEF TInv, Wrote
<1>4. /\ token' \in [Person -> TokenAccount \cup {Null}]
      /\ token'[p] \in TokenAccount /\ token'[p].delegate = d /\ token'[p].allowance = a
      /\ token'[p].frozen = token[p].frozen
      /\ \A q \in Person \ {p} : token'[q] = token[q]
  <2>1. token \in [Person -> TokenAccount \cup {Null}] /\ token[p] \in TokenAccount
    BY <1>1, TokenExists DEF TInv, Typed
  <2>2. token' = [token EXCEPT ![p] = [token[p] EXCEPT !.delegate = d, !.allowance = a]]
    BY <2>1 DEF approve
  <2>3. [token[p] EXCEPT !.delegate = d, !.allowance = a] \in TokenAccount
    BY <2>1 DEF TokenAccount
  <2>4. token'[p] = [token[p] EXCEPT !.delegate = d, !.allowance = a]
    BY <2>1, <2>2
  <2>5. /\ token'[p].delegate = d /\ token'[p].allowance = a
        /\ token'[p].frozen = token[p].frozen
    BY <2>1, <2>4 DEF TokenAccount
  <2>6. /\ token' \in [Person -> TokenAccount \cup {Null}]
        /\ \A q \in Person \ {p} : token'[q] = token[q]
    BY <2>1, <2>2, <2>3
  <2>. QED
    BY <2>3, <2>4, <2>5, <2>6
<1>5. \A q \in Person : Opened(q)' = Opened(q)
  BY <1>1, <1>4 DEF Opened
<1>6. \A q \in Person : Opened(q) => token[q].allowance # a
  BY <1>1 DEF TInv, Held, AllowancesHeld
<1>7. AllowancesHeld'
  BY <1>3, <1>4, <1>5, <1>6, TokenExists DEF TInv, Held, AllowancesHeld
<1>8. TInv(k)' /\ Balances' = Balances /\ Leavings' = Leavings
  BY <1>1, <1>3, <1>4, <1>5, <1>7, RightsKeep
<1>9. \A q \in Person \ {p} : Limit(q)' = Limit(q)
  BY <1>3, <1>4, <1>5, <1>6, TokenExists DEF Limit, TInv, Held, AllowancesHeld
<1>. QED
  BY <1>1, <1>4, <1>5, <1>8, <1>9, LimitIsSet

(* revoke: the allowance is closed, and nobody else's.                     *)
LEMMA RevokeKeeps ==
  ASSUME NEW k \in Nat, TInv(k), NEW p \in Person, revoke(p)
  PROVE  TInv(k)' /\ Ledger!LedgerNext
<1>. DEFINE a == token[p].allowance
<1>1. /\ Opened(p) /\ token[p].delegate # Null /\ CloseCiphertext(a)
      /\ UNCHANGED <<mint, vault, wallet, receipt>>
  BY DEF revoke
<1>2. a \in Allowance /\ a \in Ciphertext
  BY <1>1, TokenExists DEF TInv, Held, AllowancesHeld
<1>3. /\ ClientTypeOK'
      /\ \A c \in Ciphertext \ {a} : cipher'[c] = cipher[c]
      /\ asked' = asked
  BY <1>1, <1>2 DEF CloseCiphertext, TInv, Typed, ClientTypeOK
<1>4. /\ token' \in [Person -> TokenAccount \cup {Null}]
      /\ token'[p] \in TokenAccount /\ token'[p].delegate = Null /\ token'[p].allowance = Null
      /\ token'[p].frozen = token[p].frozen
      /\ \A q \in Person \ {p} : token'[q] = token[q]
  BY <1>1, TokenExists DEF revoke, TInv, Typed, TokenAccount
<1>5. \A q \in Person : Opened(q)' = Opened(q)
  BY <1>1, <1>4 DEF Opened
<1>6. \A q \in Person \ {p} : Opened(q) => token[q].allowance # a
  BY <1>1, <1>2 DEF TInv, Held, AllowancesHeld
<1>7. AllowancesHeld'
  BY <1>3, <1>4, <1>5, <1>6, TokenExists DEF TInv, Held, AllowancesHeld
<1>8. TInv(k)' /\ Balances' = Balances /\ Leavings' = Leavings
  BY <1>1, <1>2, <1>3, <1>4, <1>5, <1>7, RightsKeep
<1>9. \A q \in Person \ {p} : Limit(q)' = Limit(q)
  BY <1>3, <1>4, <1>5, <1>6, TokenExists DEF Limit, TInv, Held, AllowancesHeld
<1>. QED
  BY <1>1, <1>4, <1>5, <1>8, <1>9, LimitIsSet

(* freeze_account and thaw_account.                                        *)
LEMMA FreezeKeeps ==
  ASSUME NEW k \in Nat, TInv(k), NEW f \in Person, NEW p \in Person, freeze_account(f, p) \/ thaw_account(f, p)
  PROVE  TInv(k)' /\ Ledger!LedgerNext
<1>1. PICK b \in BOOLEAN : token' = [token EXCEPT ![p].frozen = b]
  BY DEF freeze_account, thaw_account
<1>2. Opened(p) /\ UNCHANGED <<clientVars, mint, vault, wallet, receipt>>
  BY DEF freeze_account, thaw_account
<1>3. /\ token' \in [Person -> TokenAccount \cup {Null}]
      /\ token'[p] \in TokenAccount /\ token'[p].delegate = token[p].delegate
      /\ token'[p].allowance = token[p].allowance /\ token'[p].frozen = b
      /\ \A q \in Person \ {p} : token'[q] = token[q]
  BY <1>1, <1>2, TokenExists DEF TInv, Typed, TokenAccount
<1>4. \A q \in Person : Opened(q)' = Opened(q)
  BY <1>2, <1>3 DEF Opened
<1>5. AllowancesHeld'
  BY <1>2, <1>3, <1>4 DEF TInv, Held, AllowancesHeld, clientVars
<1>6. ClientTypeOK'
  BY <1>2 DEF TInv, Typed, ClientTypeOK, clientVars
<1>7. TInv(k)' /\ Balances' = Balances /\ Leavings' = Leavings
  BY <1>2, <1>3, <1>4, <1>5, <1>6, RightsKeep DEF clientVars
<1>8. Limits' = Limits
  <2>1. \A q \in Person : Limit(q)' = Limit(q)
    BY <1>2, <1>3, <1>4 DEF Limit, clientVars
  <2>. QED
    BY <2>1 DEF Limits
<1>9. Ledger!Freeze(p)
  <2>. DEFINE frozen == {q \in Person : Opened(q) /\ token[q].frozen}
  <2>1. {q \in Person : Opened(q)}' = {q \in Person : Opened(q)}
    BY <1>4
  <2>2. frozen' = IF b THEN frozen \cup {p} ELSE frozen \ {p}
    BY <1>2, <1>3, <1>4
  <2>. QED
    BY <1>2, <1>7, <1>8, <2>1, <2>2 DEF Ledger!Freeze
<1>. QED
  BY <1>7, <1>9 DEF Ledger!LedgerNext

-----------------------------------------------------------------------------
(* wrap: as much goes into the balance as into the vault.                  *)
LEMMA WrapKeeps ==
  ASSUME NEW k \in Nat, TInv(k), NEW p \in Person, NEW n \in Amount, wrap(p, n, n, TRUE)
  PROVE  TInv(k)' /\ Ledger!LedgerNext
<1>. DEFINE v == mint_to_graph(p, n)
<1>1. /\ Liquid(p) /\ vault # Null /\ n <= wallet[p] /\ ExecuteGraph(v)
      /\ cipher[p] # Null /\ UNCHANGED <<mint, token, receipt>>
      /\ n \in Nat \ {0} /\ vault \in Nat /\ wallet[p] \in Nat
      /\ vault' = vault + n /\ wallet' = [wallet EXCEPT ![p] = @ - n]
  BY DEF wrap, RunGraph, Liquid, TInv, Typed, Held, BalancesHeld
<1>2. v \in [{p} -> Nat] /\ v[p] = cipher[p].value + n
  BY <1>1, CipherExists DEF mint_to_graph, TInv
<1>. HIDE DEF v
<1>3. Wrote(v) /\ Opened(p) /\ {p} \in SUBSET (Ciphertext \ Burned) /\ {p} \in SUBSET (Ciphertext \ Allowance)
  BY <1>1, <1>2, GraphWrites DEF TInv, Liquid
<1>4. Held' /\ Outgoings' = Outgoings /\ Leavings' = Leavings /\ Limits' = Limits
  BY <1>1, <1>2, <1>3, WriteKeepsHeld, NoAllowanceWritten DEF TInv
<1>5. ClientTypeOK'
  BY <1>2, <1>3, WriteCreates DEF TInv
<1>6. wallet' \in [Person -> Nat]
  BY <1>1 DEF TInv, Typed
<1>7. Typed'
  BY <1>1, <1>5, <1>6 DEF TInv, Typed
<1>8. Balances \in [Person -> Nat] /\ Outgoings \in [Burned -> Nat]
  BY AmountTypes DEF TInv
<1>9. Balances' = [Balances EXCEPT ![p] = @ + n]
  <2>1. \A q \in Person : Balance(q)' = IF q \in {p} /\ Opened(q) THEN v[q] ELSE Balance(q)
    BY <1>1, <1>2, <1>3, WriteShows DEF TInv
  <2>2. Balance(p) = cipher[p].value
    BY <1>1 DEF Balance, Liquid
  <2>3. \A q \in Person : Balance(q)' = IF q = p THEN Balance(p) + n ELSE Balance(q)
    BY <1>1, <1>2, <2>1, <2>2 DEF Liquid
  <2>. QED
    BY <2>3 DEF Balances
<1>10. Total(Balances') = Total(Balances) + n
  <2>1. /\ Balances' \in [Person -> Nat] /\ Balances'[p] = Balances[p] + n
        /\ \A q \in Person \ {p} : Balances'[q] = Balances[q]
    BY <1>1, <1>8, <1>9
  <2>2. Total(Balances') + Balances[p] = Total(Balances) + Balances'[p]
    BY <1>8, <2>1, TotalOneChange
  <2>3. Total(Balances) \in Nat /\ Total(Balances') \in Nat /\ Balances[p] \in Nat
    BY <1>8, <2>1, TotalType
  <2>. QED
    BY <1>1, <2>1, <2>2, <2>3
<1>11. VaultHolds(k)'
  <2>1. Total(Balances) \in Nat /\ Total(Outgoings) \in Nat
    BY <1>8, TotalType
  <2>. QED
    BY <1>1, <1>4, <1>10, <2>1 DEF TInv, VaultHolds, InVault
<1>12. Ledger!Deposit(p, n) /\ n \in 1 .. wallet[p]
  BY <1>1, <1>4, <1>9 DEF Ledger!Deposit, Ledger!Liquid, Liquid, Opened
<1>. QED
  BY <1>4, <1>7, <1>11, <1>12 DEF TInv, Ledger!LedgerNext

(* A step that changes one outgoing amount changes what leaves for its     *)
(* owner and the sum by as much.                                           *)
LEMMA OutgoingChange ==
  ASSUME NEW k \in Nat, TInv(k), NEW p \in Person, NEW c \in Burned, NEW x \in Nat, NEW y \in Nat,
         Outgoing(c) = x, Outgoing(c)' = y, OutgoingOf(p, c) = x, OutgoingOf(p, c)' = y,
         \A b \in Burned \ {c} : Outgoing(b)' = Outgoing(b),
         \A q \in Person, b \in Burned : (q # p \/ b # c) => OutgoingOf(q, b)' = OutgoingOf(q, b)
  PROVE  /\ x <= Total(Outgoings) /\ x <= Leavings[p]
         /\ Total(Outgoings') = Total(Outgoings) - x + y
         /\ Total(Outgoings) \in Nat /\ Total(Outgoings') \in Nat
         /\ Leavings \in [Person -> Nat]
         /\ Leavings' = [Leavings EXCEPT ![p] = @ - x + y]
<1>1. /\ Outgoings \in [Burned -> Nat] /\ Leavings \in [Person -> Nat]
      /\ \A q \in Person : [b \in Burned |-> OutgoingOf(q, b)] \in [Burned -> Nat]
  BY AmountTypes DEF TInv
<1>2. /\ Outgoings' \in [Burned -> Nat] /\ Outgoings[c] = x /\ Outgoings'[c] = y
      /\ \A b \in Burned \ {c} : Outgoings'[b] = Outgoings[b]
  BY <1>1 DEF Outgoings
<1>3. x <= Total(Outgoings) /\ Total(Outgoings) \in Nat /\ Total(Outgoings') \in Nat
  BY <1>1, <1>2, SummandAtMostTotal, TotalType
<1>4. Total(Outgoings') + x = Total(Outgoings) + y
  BY <1>1, <1>2, TotalOneChange
<1>5. Total(Outgoings') = Total(Outgoings) - x + y
  BY <1>3, <1>4
<1>. DEFINE f == [b \in Burned |-> OutgoingOf(p, b)]
<1>6. /\ f \in [Burned -> Nat] /\ f' \in [Burned -> Nat] /\ f[c] = x /\ f'[c] = y
      /\ \A b \in Burned \ {c} : f'[b] = f[b]
      /\ Leaving(p) = Total(f) /\ Leaving(p)' = Total(f')
  <2>1. \A b \in Burned : OutgoingOf(p, b) \in Nat
    BY <1>1
  <2>2. \A b \in Burned : OutgoingOf(p, b)' = IF b = c THEN y ELSE OutgoingOf(p, b)
    OBVIOUS
  <2>. QED
    BY <2>1, <2>2 DEF Leaving
<1>. HIDE DEF f
<1>7. x <= Total(f) /\ Total(f) \in Nat /\ Total(f') \in Nat
  BY <1>6, SummandAtMostTotal, TotalType
<1>8. Total(f') + x = Total(f) + y
  BY <1>6, TotalOneChange
<1>9. x <= Leavings[p] /\ Leaving(p)' = Leavings[p] - x + y
  BY <1>6, <1>7, <1>8 DEF Leavings
<1>10. \A q \in Person \ {p} : Leaving(q)' = Leavings[q]
  BY DEF Leavings, Leaving
<1>11. Leavings' = [Leavings EXCEPT ![p] = @ - x + y]
  BY <1>1, <1>9, <1>10 DEF Leavings
<1>. QED
  BY <1>1, <1>3, <1>5, <1>9, <1>11

(* The client's create_input for a burned amount: nothing names it yet.    *)
LEMMA CreateBurnedKeeps ==
  ASSUME NEW k \in Nat, TInv(k), NEW c \in Burned, create_burned(c)
  PROVE  TInv(k)' /\ UNCHANGED Ledger!ledgerVars
<1>. USE DEF TInv
<1>. DEFINE zero == [x \in {c} |-> 0]
<1>1. Wrote(zero) /\ cipher[c] = Null /\ zero \in [{c} -> Nat] /\ {c} \in SUBSET Ciphertext
  BY CreationWrites DEF create_burned
<1>12. zero[c] = 0
  OBVIOUS
<1>. HIDE DEF zero
<1>2. /\ ClientTypeOK' /\ asked' = asked
      /\ \A b \in Ciphertext \ {c} : cipher'[b] = cipher[b]
      /\ \A b \in Ciphertext : cipher[b] # Null => cipher'[b] # Null
      /\ UNCHANGED <<mint, vault, wallet, token, receipt>>
  BY <1>1, WriteCreates DEF Wrote, create_burned, programVars
<1>3. Typed'
  BY <1>2 DEF Typed
<1>11. cipher'[c].value = 0
  BY <1>1, <1>12, WriteCreates
<1>4. receipt[c] = Null /\ \A r \in Request : asked[r] # Null => asked[r].ct # c
  BY <1>1 DEF Held, BurnsHeld, UnusedHeld, Unused, AnswersAreBurned
<1>5. Held'
  <2>1. BalancesHeld' /\ BurnsHeld' /\ AnswersAreBurned'
    BY <1>2, <1>4 DEF Held, BalancesHeld, BurnsHeld, AnswersAreBurned, Opened
  <2>3. UnusedHeld'
    BY <1>1, <1>2, <1>11 DEF Held, UnusedHeld, Unused
  <2>2. AllowancesHeld'
    BY <1>2, TokenExists DEF Held, AllowancesHeld, Opened
  <2>. QED
    BY <2>1, <2>2, <2>3 DEF Held
<1>6. Balances' = Balances
  <2>1. \A q \in Person : Balance(q)' = Balance(q)
    BY <1>2 DEF Balance, Opened
  <2>. QED
    BY <2>1 DEF Balances
<1>7. Limits' = Limits
  BY <1>1, <1>2, NoAllowanceWritten
<1>8. Outgoings' = Outgoings
  <2>1. \A b \in Burned : Outgoing(b)' = Outgoing(b)
    BY <1>2, <1>4 DEF Outgoing
  <2>. QED
    BY <2>1 DEF Outgoings
<1>9. Leavings' = Leavings
  <2>1. \A q \in Person, b \in Burned : OutgoingOf(q, b)' = OutgoingOf(q, b)
    BY <1>2, <1>4 DEF OutgoingOf
  <2>. QED
    BY <2>1 DEF Leavings, Leaving
<1>10. VaultHolds(k)'
  BY <1>2, <1>6, <1>8 DEF VaultHolds, InVault
<1>. QED
  BY <1>2, <1>3, <1>5, <1>6, <1>7, <1>9, <1>10, NothingShows

(* unwrap_burn: what leaves the balance is in the burned amount, for which *)
(* nobody has asked.                                                       *)
LEMMA BurnKeeps ==
  ASSUME NEW k \in Nat, TInv(k), NEW p \in Person, NEW c \in Burned, NEW n \in Amount,
         Fresh(c), unwrap_burn(p, c, n, n)
  PROVE  TInv(k)' /\ [Ledger!LedgerNext]_(Ledger!ledgerVars)
<1>. DEFINE v == unwrap_burn_graph(p, c, n)
            m == IF Enough(p, n) THEN n ELSE 0
            new == [owner |-> p, amount |-> n, pending_digest |-> ZeroDigest]
<1>1. /\ Liquid(p) /\ receipt[c] = Null /\ cipher[c] # Null /\ cipher[p] # Null
      /\ ExecuteGraph(v) /\ UNCHANGED <<mint, vault, wallet, token>>
      /\ receipt' = [receipt EXCEPT ![c] = new]
      /\ \A r \in Request : asked[r] # Null => asked[r].ct # c
      /\ p # c /\ c \notin Person /\ c \notin Allowance
  BY DEF unwrap_burn, RunGraph, ExecuteGraph, unwrap_burn_graph, Fresh, Requests, Liquid, TInv, Held, BalancesHeld
<1>2. /\ v \in [{p, c} -> Nat] /\ m \in {0, n} /\ n \in Nat \ {0} /\ m \in Nat
      /\ v[p] = cipher[p].value - m /\ v[c] = m /\ m <= cipher[p].value /\ cipher[p].value \in Nat
  <2>1. cipher[p].value \in Nat /\ n \in Nat \ {0}
    BY <1>1, CipherExists DEF TInv
  <2>2. m \in {0, n} /\ m \in Nat /\ m <= cipher[p].value
    BY <2>1 DEF Enough
  <2>3. v = [b \in {p, c} |-> IF b = c THEN m ELSE cipher[p].value - m]
    BY <1>1, <2>1 DEF unwrap_burn_graph
  <2>. HIDE DEF v, m
  <2>4. cipher[p].value - m \in Nat
    BY <2>1, <2>2
  <2>. QED
    BY <1>1, <2>1, <2>2, <2>3, <2>4
<1>3. /\ receipt' \in [Ciphertext -> WithdrawalReceipt \cup {Null}]
      /\ receipt'[c] # Null /\ receipt'[c].owner = p /\ receipt'[c].amount = n
      /\ \A b \in Ciphertext \ {c} : receipt'[b] = receipt[b]
  <2>1. new \in WithdrawalReceipt /\ new.owner = p /\ new.amount = n
    BY <1>2 DEF WithdrawalReceipt, Digest
  <2>2. new # Null
    BY <2>1
  <2>. QED
    BY <1>1, <2>1, <2>2 DEF TInv, Typed
<1>. HIDE DEF v, m, new
<1>4. Wrote(v) /\ {p, c} \in SUBSET Ciphertext
  BY <1>1, <1>2, GraphWrites DEF TInv
<1>5. /\ ClientTypeOK' /\ asked' = asked
      /\ cipher'[c] # Null /\ cipher'[c].value = m
      /\ \A b \in Ciphertext \ {p, c} : cipher'[b] = cipher[b]
      /\ \A b \in Ciphertext : cipher[b] # Null => cipher'[b] # Null
  BY <1>2, <1>4, WriteCreates DEF Wrote, TInv
<1>6. Typed'
  BY <1>1, <1>3, <1>5 DEF TInv, Typed
<1>7. Held'
  <2>1. BalancesHeld'
    BY <1>1, <1>5 DEF TInv, Held, BalancesHeld, Opened
  <2>2. AllowancesHeld'
    BY <1>1, <1>5, TokenExists DEF TInv, Held, AllowancesHeld, Opened
  <2>3. BurnsHeld'
    <3>1. receipt'[c].amount # 0 /\ cipher'[c].value \in {0, receipt'[c].amount}
      BY <1>2, <1>3, <1>5
    <3>2. \A b \in Burned \ {c} : cipher'[b] = cipher[b]
      BY <1>1, <1>5
    <3>. QED
      BY <1>3, <1>5, <3>1, <3>2 DEF TInv, Held, BurnsHeld
  <2>4. AnswersAreBurned'
    <3>1. \A r \in Request : asked[r] # Null => asked[r].ct \in Ciphertext \ {p, c}
      BY <1>1 DEF TInv, Held, AnswersAreBurned
    <3>. QED
      BY <1>5, <3>1 DEF TInv, Held, AnswersAreBurned
  <2>5. UnusedHeld'
    <3>1. \A b \in Burned \ {c} : cipher'[b] = cipher[b]
      BY <1>1, <1>5
    <3>. QED
      BY <1>3, <1>5, <3>1 DEF TInv, Held, UnusedHeld, Unused
  <2>. QED
    BY <2>1, <2>2, <2>3, <2>4, <2>5 DEF Held
<1>8. Balances \in [Person -> Nat] /\ Outgoings \in [Burned -> Nat]
  BY AmountTypes DEF TInv
<1>9. /\ Balances' = [Balances EXCEPT ![p] = @ - m] /\ m <= Balances[p]
      /\ Balances' \in [Person -> Nat]
  <2>1. \A q \in Person : Balance(q)' = IF q \in {p, c} /\ Opened(q) THEN v[q] ELSE Balance(q)
    BY <1>1, <1>2, <1>4, WriteShows DEF TInv
  <2>2. Balance(p) = cipher[p].value /\ Balances[p] = cipher[p].value
    BY <1>1 DEF Balance, Balances, Liquid
  <2>3. \A q \in Person : Balance(q)' = IF q = p THEN Balance(p) - m ELSE Balance(q)
    BY <1>1, <1>2, <2>1, <2>2 DEF Liquid
  <2>4. Balances' = [Balances EXCEPT ![p] = @ - m]
    BY <2>3 DEF Balances
  <2>. QED
    BY <1>2, <1>8, <2>2, <2>4
<1>10. Limits' = Limits
  BY <1>1, <1>2, <1>4, NoAllowanceWritten
<1>11. /\ Total(Outgoings') = Total(Outgoings) + m
       /\ Leavings' = [Leavings EXCEPT ![p] = @ + m]
       /\ Total(Outgoings) \in Nat
  <2>1. Outgoing(c) = 0 /\ Outgoing(c)' = m /\ OutgoingOf(p, c) = 0 /\ OutgoingOf(p, c)' = m
    BY <1>1, <1>3, <1>5 DEF Outgoing, OutgoingOf
  <2>2. \A b \in Burned \ {c} : cipher'[b] = cipher[b]
    BY <1>1, <1>5
  <2>3. \A b \in Burned \ {c} : Outgoing(b)' = Outgoing(b)
    BY <1>3, <2>2 DEF Outgoing
  <2>4. \A q \in Person, b \in Burned : (q # p \/ b # c) => OutgoingOf(q, b)' = OutgoingOf(q, b)
    BY <1>1, <1>3, <2>2 DEF OutgoingOf
  <2>5. /\ Total(Outgoings') = Total(Outgoings) - 0 + m
        /\ Leavings' = [Leavings EXCEPT ![p] = @ - 0 + m]
        /\ Total(Outgoings) \in Nat /\ Leavings \in [Person -> Nat]
    <3>1. 0 \in Nat /\ m \in Nat
      BY <1>2
    <3>. QED
      BY <2>1, <2>3, <2>4, <3>1, OutgoingChange
  <2>6. Leavings[p] - 0 + m = Leavings[p] + m /\ Total(Outgoings) - 0 + m = Total(Outgoings) + m
    BY <1>2, <2>5
  <2>7. [Leavings EXCEPT ![p] = @ - 0 + m] = [Leavings EXCEPT ![p] = @ + m]
    BY <2>5, <2>6
  <2>. QED
    BY <2>5, <2>6, <2>7
<1>12. VaultHolds(k)'
  <2>1. Total(Balances') + Balances[p] = Total(Balances) + Balances'[p]
    <3>1. /\ Balances' \in [Person -> Nat]
          /\ \A q \in Person \ {p} : Balances'[q] = Balances[q]
      BY <1>8, <1>9
    <3>. QED
      BY <1>8, <3>1, TotalOneChange
  <2>2. Total(Balances) \in Nat /\ Total(Balances') \in Nat
    BY <1>8, <1>9, TotalType
  <2>3. Balances'[p] = Balances[p] - m /\ Balances[p] \in Nat /\ m \in Nat
    BY <1>2, <1>8, <1>9
  <2>4. Total(Balances') + Total(Outgoings') = Total(Balances) + Total(Outgoings)
    BY <1>11, <2>1, <2>2, <2>3
  <2>. QED
    BY <1>1, <2>4 DEF TInv, VaultHolds, InVault
<1>13. CASE m = 0
  <2>1. Balances' = Balances /\ Leavings' = Leavings
    <3>1. Leavings \in [Person -> Nat]
      BY AmountTypes DEF TInv
    <3>. QED
      BY <1>8, <1>9, <1>11, <1>13, <3>1
  <2>. QED
    BY <1>1, <1>6, <1>7, <1>10, <1>12, <2>1, NothingShows DEF TInv
<1>14. CASE m # 0
  <2>1. m \in 1 .. Balances[p]
    BY <1>2, <1>8, <1>9, <1>14
  <2>2. Ledger!Leave(p, m)
    BY <1>1, <1>9, <1>10, <1>11 DEF Ledger!Leave, Ledger!Liquid, Liquid, Opened
  <2>. QED
    BY <1>6, <1>7, <1>12, <2>1, <2>2 DEF TInv, Ledger!LedgerNext
<1>. QED
  BY <1>13, <1>14

(* unwrap_decrypt: a request without an answer, for a burned amount.       *)
LEMMA DecryptKeeps ==
  ASSUME NEW k \in Nat, TInv(k), NEW p \in Person, NEW c \in Burned, NEW r \in Request, unwrap_decrypt(p, c, c, r)
  PROVE  TInv(k)' /\ UNCHANGED Ledger!ledgerVars
<1>. USE DEF TInv
<1>1. /\ receipt[c] # Null /\ cipher[c] # Null /\ asked[r] = Null
      /\ UNCHANGED <<cipher, mint, vault, wallet, token>>
      /\ receipt' = [receipt EXCEPT ![c].pending_digest = Snapshot(c)]
      /\ asked' = [asked EXCEPT ![r] = [ct |-> c, digest |-> Snapshot(c), done |-> FALSE, value |-> 0]]
  BY DEF unwrap_decrypt, RequestDecryption
<1>2. Snapshot(c) \in Digest
  BY <1>1, CipherExists DEF Snapshot
<1>3. /\ receipt' \in [Ciphertext -> WithdrawalReceipt \cup {Null}]
      /\ receipt'[c].owner = receipt[c].owner /\ receipt'[c].amount = receipt[c].amount
      /\ receipt'[c] # Null
      /\ \A b \in Ciphertext \ {c} : receipt'[b] = receipt[b]
  <2>1. receipt[c] \in WithdrawalReceipt
    BY <1>1, ReceiptExists
  <2>2. /\ receipt'[c] = [receipt[c] EXCEPT !.pending_digest = Snapshot(c)]
        /\ receipt'[c] \in WithdrawalReceipt
    BY <1>1, <1>2, <2>1 DEF Typed, WithdrawalReceipt
  <2>. QED
    BY <1>1, <2>1, <2>2 DEF Typed, WithdrawalReceipt
<1>4. /\ asked' \in [Request -> RequestAccount \cup {Null}]
      /\ asked'[r].ct = c /\ ~asked'[r].done
      /\ \A q \in Request \ {r} : asked'[q] = asked[q]
  BY <1>1, <1>2 DEF Typed, ClientTypeOK, RequestAccount
<1>5. Typed'
  BY <1>1, <1>3, <1>4 DEF Typed, ClientTypeOK
<1>6. Held'
  <2>1. BalancesHeld' /\ AllowancesHeld'
    BY <1>1 DEF Held, BalancesHeld, AllowancesHeld, Opened
  <2>2. BurnsHeld'
    BY <1>1, <1>3 DEF Held, BurnsHeld
  <2>3. AnswersAreBurned'
    BY <1>1, <1>4 DEF Held, AnswersAreBurned
  <2>4. UnusedHeld'
    BY <1>1, <1>3, <1>4 DEF Held, UnusedHeld, Unused, RequestAccount
  <2>. QED
    BY <2>1, <2>2, <2>3, <2>4 DEF Held
<1>7. Balances' = Balances /\ Limits' = Limits
  BY <1>1 DEF Balances, Balance, Limits, Limit, Opened
<1>8. Outgoings' = Outgoings
  <2>1. \A b \in Burned : Outgoing(b)' = Outgoing(b)
    BY <1>1, <1>3 DEF Outgoing
  <2>. QED
    BY <2>1 DEF Outgoings
<1>9. Leavings' = Leavings
  <2>1. \A q \in Person, b \in Burned : OutgoingOf(q, b)' = OutgoingOf(q, b)
    BY <1>1, <1>3 DEF OutgoingOf
  <2>. QED
    BY <2>1 DEF Leavings, Leaving
<1>10. VaultHolds(k)'
  BY <1>1, <1>7, <1>8 DEF VaultHolds, InVault
<1>. QED
  BY <1>1, <1>5, <1>6, <1>7, <1>9, <1>10, NothingShows

(* unwrap_complete: what is paid is what was burned.                       *)
LEMMA CompleteKeeps ==
  ASSUME NEW k \in Nat, TInv(k), NEW p \in Person, NEW c \in Burned, NEW r \in Request, r \in Requests(c),
         unwrap_complete(p, c, r, TRUE)
  PROVE  TInv(k)' /\ [Ledger!LedgerNext]_(Ledger!ledgerVars)
<1>. DEFINE requested == receipt[c].amount
            m == cipher[c].value
<1>1. /\ receipt[c] # Null /\ receipt[c].owner = p /\ asked[r].value = m
      /\ UNCHANGED <<clientVars, mint, token>>
      /\ receipt' = [receipt EXCEPT ![c] = Null]
      /\ \/ m # requested /\ UNCHANGED <<vault, wallet>>
         \/ m = requested /\ vault' = vault - m /\ wallet' = [wallet EXCEPT ![p] = @ + m]
  BY DEF unwrap_complete, Requests, Verified, TInv, Held, AnswersAreBurned
<1>2. m \in {0, requested} /\ requested \in Nat \ {0} /\ m \in Nat
  BY <1>1, ReceiptExists DEF TInv, Held, BurnsHeld
<1>3. /\ receipt' \in [Ciphertext -> WithdrawalReceipt \cup {Null}]
      /\ receipt'[c] = Null /\ \A b \in Ciphertext \ {c} : receipt'[b] = receipt[b]
  BY <1>1 DEF TInv, Typed
<1>4. /\ m <= Total(Outgoings) /\ m <= Leavings[p]
      /\ Total(Outgoings') = Total(Outgoings) - m
      /\ Total(Outgoings) \in Nat /\ Leavings \in [Person -> Nat]
      /\ Leavings' = [Leavings EXCEPT ![p] = @ - m]
  <2>1. Outgoing(c) = m /\ Outgoing(c)' = 0 /\ OutgoingOf(p, c) = m /\ OutgoingOf(p, c)' = 0
    BY <1>1, <1>3 DEF Outgoing, OutgoingOf
  <2>2. \A b \in Burned \ {c} : Outgoing(b)' = Outgoing(b)
    BY <1>1, <1>3 DEF Outgoing, clientVars
  <2>3. \A q \in Person, b \in Burned : (q # p \/ b # c) => OutgoingOf(q, b)' = OutgoingOf(q, b)
    BY <1>1, <1>3 DEF OutgoingOf, clientVars
  <2>4. /\ m <= Total(Outgoings) /\ m <= Leavings[p]
        /\ Total(Outgoings') = Total(Outgoings) - m + 0
        /\ Total(Outgoings) \in Nat /\ Leavings \in [Person -> Nat]
        /\ Leavings' = [Leavings EXCEPT ![p] = @ - m + 0]
    <3>. HIDE DEF m
    <3>1. 0 \in Nat /\ m \in Nat
      BY <1>2
    <3>. QED
      BY <2>1, <2>2, <2>3, <3>1, OutgoingChange
  <2>5. Leavings[p] - m + 0 = Leavings[p] - m /\ Total(Outgoings) - m + 0 = Total(Outgoings) - m
    BY <1>2, <2>4
  <2>. QED
    BY <2>4, <2>5
<1>5. Balances' = Balances /\ Limits' = Limits
  BY <1>1 DEF clientVars, Balances, Balance, Limits, Limit, Opened
<1>6. Total(Balances) \in Nat
  BY AmountTypes, TotalType DEF TInv
<1>. HIDE DEF m, requested
<1>7. ClientTypeOK' /\ mint' \in MintAccount \cup {Null} /\ token' \in [Person -> TokenAccount \cup {Null}]
  BY <1>1 DEF clientVars, TInv, Typed, ClientTypeOK
<1>8. Held'
  <2>1. BalancesHeld' /\ AllowancesHeld' /\ AnswersAreBurned'
    BY <1>1 DEF clientVars, TInv, Held, BalancesHeld, AllowancesHeld, AnswersAreBurned, Opened
  <2>2. BurnsHeld'
    BY <1>1, <1>3 DEF clientVars, TInv, Held, BurnsHeld
  <2>3. UnusedHeld'
    BY <1>1, <1>3 DEF clientVars, TInv, Held, UnusedHeld, Unused, Requests, unwrap_complete, Verified
  <2>. QED
    BY <2>1, <2>2, <2>3 DEF Held
<1>9. CASE m # requested
  <2>1. m = 0 /\ UNCHANGED <<vault, wallet>>
    BY <1>1, <1>2, <1>9
  <2>2. Typed'
    BY <1>3, <1>7, <2>1 DEF TInv, Typed
  <2>3. VaultHolds(k)'
    <3>1. Total(Outgoings') = Total(Outgoings)
      BY <1>4, <2>1
    <3>. QED
      BY <1>5, <2>1, <3>1 DEF TInv, VaultHolds, InVault
  <2>4. Leavings' = Leavings
    BY <1>4, <2>1
  <2>. QED
    BY <1>1, <1>5, <1>8, <2>1, <2>2, <2>3, <2>4, NothingShows DEF TInv
<1>10. CASE m = requested
  <2>1. /\ m # 0 /\ vault' = vault - m /\ wallet' = [wallet EXCEPT ![p] = @ + m]
    BY <1>1, <1>2, <1>10
  <2>2. vault \in Nat /\ m <= vault
    <3>1. m <= Total(Balances) + Total(Outgoings)
      BY <1>2, <1>4, <1>6
    <3>2. m <= InVault
      BY <1>2, <1>4, <1>6, <3>1 DEF TInv, VaultHolds
    <3>. QED
      BY <1>2, <2>1, <3>2 DEF TInv, Typed, InVault
  <2>3. Typed'
    BY <1>2, <1>3, <1>7, <2>1, <2>2 DEF TInv, Typed
  <2>4. VaultHolds(k)'
    <3>1. vault # Null /\ vault' # Null
      BY <1>2, <2>1, <2>2
    <3>. QED
      BY <1>2, <1>4, <1>5, <1>6, <2>1, <2>2, <3>1 DEF TInv, VaultHolds, InVault
  <2>5. m \in 1 .. Leavings[p]
    BY <1>2, <1>4, <2>1
  <2>6. Ledger!Arrive(p, m)
    BY <1>1, <1>4, <1>5, <2>1 DEF Ledger!Arrive, Opened
  <2>. QED
    BY <1>8, <2>3, <2>4, <2>5, <2>6 DEF TInv, Ledger!LedgerNext
<1>. QED
  BY <1>9, <1>10

-----------------------------------------------------------------------------
(* process_pending: no plaintext changes, and what an answer says is what  *)
(* was burned.                                                             *)
LEMMA DrainKeeps ==
  ASSUME NEW k \in Nat, TInv(k), ProcessPending, UNCHANGED programVars
  PROVE  TInv(k)' /\ UNCHANGED Ledger!ledgerVars
<1>. USE DEF TInv
<1>1. UNCHANGED <<mint, vault, wallet, token, receipt>>
  BY DEF programVars
<1>2. /\ \A c \in Ciphertext : cipher'[c] = Null <=> cipher[c] = Null
      /\ \A c \in Ciphertext : cipher[c] # Null => cipher'[c].value = cipher[c].value
      /\ cipher' \in [Ciphertext -> CipherAccount \cup {Null}]
  <2>1. ASSUME NEW c \in Ciphertext
        PROVE  /\ cipher'[c] \in CipherAccount \cup {Null}
               /\ cipher'[c] = Null <=> cipher[c] = Null
               /\ cipher[c] # Null => cipher'[c].value = cipher[c].value
    <3>. DEFINE done == [value |-> cipher[c].value, digest |-> cipher[c].value, due |-> FALSE]
    <3>1. cipher'[c] = IF cipher[c] # Null /\ cipher[c].due THEN done ELSE cipher[c]
      BY DEF ProcessPending
    <3>2. ASSUME cipher[c] # Null
          PROVE  done \in CipherAccount /\ done.value = cipher[c].value
      BY <3>2, CipherExists DEF CipherAccount, Digest
    <3>3. cipher[c] \in CipherAccount \cup {Null}
      BY DEF Typed, ClientTypeOK
    <3>. HIDE DEF done
    <3>. QED
      BY <3>1, <3>2, <3>3
  <2>2. cipher' = [c \in Ciphertext |-> cipher'[c]]
    BY DEF ProcessPending
  <2>. QED
    BY <2>1, <2>2
<1>3. /\ \A r \in Request : asked'[r] = Null <=> asked[r] = Null
      /\ \A r \in Request : asked[r] # Null =>
           /\ asked'[r].ct = asked[r].ct
           /\ asked'[r].done => asked'[r].value = cipher[asked[r].ct].value
           /\ asked[r].done => asked'[r] = asked[r]
      /\ asked' \in [Request -> RequestAccount \cup {Null}]
  <2>1. ASSUME NEW r \in Request
        PROVE  /\ asked'[r] \in RequestAccount \cup {Null}
               /\ asked'[r] = Null <=> asked[r] = Null
               /\ asked[r] # Null =>
                    /\ asked'[r].ct = asked[r].ct
                    /\ asked'[r].done => asked'[r].value = cipher[asked[r].ct].value
                    /\ asked[r].done => asked'[r] = asked[r]
    <3>. DEFINE answer == [asked[r] EXCEPT !.done = TRUE, !.value = cipher[asked[r].ct].value]
    <3>1. asked'[r] = IF asked[r] # Null /\ ~asked[r].done THEN answer ELSE asked[r]
      BY DEF ProcessPending
    <3>2. ASSUME asked[r] # Null
          PROVE  /\ answer \in RequestAccount /\ answer.ct = asked[r].ct
                 /\ answer.value = cipher[asked[r].ct].value
      <4>1. asked[r] \in RequestAccount /\ asked[r].ct \in Ciphertext /\ cipher[asked[r].ct] # Null
        BY <3>2, RequestExists DEF Held, AnswersAreBurned
      <4>2. cipher[asked[r].ct].value \in Nat
        BY <4>1, CipherExists
      <4>. QED
        BY <4>1, <4>2 DEF RequestAccount
    <3>3. asked[r] \in RequestAccount \cup {Null}
      BY DEF Typed, ClientTypeOK
    <3>4. asked[r] # Null /\ asked[r].done => asked[r].value = cipher[asked[r].ct].value
      BY DEF Held, AnswersAreBurned
    <3>. HIDE DEF answer
    <3>. QED
      BY <3>1, <3>2, <3>3, <3>4
  <2>2. asked' = [r \in Request |-> asked'[r]]
    BY DEF ProcessPending
  <2>. QED
    BY <2>1, <2>2
<1>4. Typed'
  BY <1>1, <1>2, <1>3 DEF Typed, ClientTypeOK
<1>5. Held'
  <2>1. BalancesHeld' /\ BurnsHeld'
    BY <1>1, <1>2 DEF Held, BalancesHeld, BurnsHeld, Opened
  <2>2. AllowancesHeld'
    BY <1>1, <1>2, TokenExists DEF Held, AllowancesHeld, Opened
  <2>3. AnswersAreBurned'
    BY <1>2, <1>3 DEF Held, AnswersAreBurned
  <2>4. UnusedHeld'
    BY <1>1, <1>2, <1>3 DEF Held, UnusedHeld, Unused
  <2>. QED
    BY <2>1, <2>2, <2>3, <2>4 DEF Held
<1>6. Balances' = Balances
  <2>1. \A p \in Person : Balance(p)' = Balance(p)
    BY <1>1, <1>2 DEF Balance, Opened, Held, BalancesHeld
  <2>. QED
    BY <2>1 DEF Balances
<1>7. Limits' = Limits
  <2>1. ASSUME NEW p \in Person PROVE Limit(p)' = Limit(p)
    <3>1. CASE Opened(p) /\ token[p].delegate # Null
      <4>1. token[p].allowance \in Ciphertext /\ cipher[token[p].allowance] # Null
        BY <3>1, TokenExists DEF Held, AllowancesHeld
      <4>. QED
        BY <1>1, <1>2, <4>1 DEF Limit, Opened
    <3>2. CASE ~(Opened(p) /\ token[p].delegate # Null)
      BY <1>1, <3>2 DEF Limit, Opened
    <3>. QED
      BY <3>1, <3>2
  <2>. QED
    BY <2>1 DEF Limits
<1>8. Outgoings' = Outgoings /\ Leavings' = Leavings
  <2>1. \A p \in Person, c \in Burned :
          Outgoing(c)' = Outgoing(c) /\ OutgoingOf(p, c)' = OutgoingOf(p, c)
    BY <1>1, <1>2 DEF Outgoing, OutgoingOf, Held, BurnsHeld
  <2>2. \A c \in Burned : Outgoing(c)' = Outgoing(c)
    BY <1>1, <1>2 DEF Outgoing, Held, BurnsHeld
  <2>. QED
    BY <2>1, <2>2 DEF Outgoings, Leavings, Leaving
<1>9. VaultHolds(k)'
  BY <1>1, <1>6, <1>8 DEF VaultHolds, InVault
<1>. QED
  BY <1>1, <1>4, <1>5, <1>6, <1>7, <1>8, <1>9, NothingShows

-----------------------------------------------------------------------------
(* What a drain that fails leaves.                                         *)

(* The plaintexts left, if a drain were to leave them now: balances and    *)
(* burned amounts are backed, nothing is burned that was not, and what no  *)
(* graph has yet to write or has been revealed stays.                      *)
LeftFor(left) == [c \in Burned |-> IF receipt[c] # Null THEN left[c] ELSE 0]
LeftIn(left) == [p \in Person |-> left[p]]
Left ==
  {left \in [Ciphertext -> Nat] :
    /\ \A p \in Person : ~Opened(p) => left[p] = 0
    /\ \A c \in Burned :
         /\ receipt[c] # Null => left[c] \in {0, receipt[c].amount}
         /\ Unused(c) => left[c] = 0
    /\ \A r \in Request : asked[r] # Null /\ asked[r].done => left[asked[r].ct] = asked[r].value
    /\ \A c \in Person \cup Burned :
         cipher[c] # Null /\ ~cipher[c].due => left[c] = cipher[c].value
    /\ Total(LeftIn(left)) + Total(LeftFor(left)) <= InVault}

MarksHeld == marks \in Seq(MarkOf) /\ \A i \in DOMAIN marks : marks[i].left \in Left

LEMMA LeftTypes ==
  ASSUME NEW left \in [Ciphertext -> Nat]
  PROVE  /\ LeftIn(left) \in [Person -> Nat] /\ LeftFor(left) \in [Burned -> Nat]
         /\ Total(LeftIn(left)) \in Nat /\ Total(LeftFor(left)) \in Nat
<1>1. LeftIn(left) \in [Person -> Nat] /\ LeftFor(left) \in [Burned -> Nat]
  BY DEF LeftIn, LeftFor
<1>. QED
  BY <1>1, TotalType

(* A mark is made of the plaintexts of now.                                *)
Sound == \E k \in Nat : TInv(k)
MarksFit == \A a \in Allowance : Mark(a) \in MarkOf /\ Mark(a).left \in Left

LEMMA MarkLeaves == Sound => MarksFit
<1>. SUFFICES ASSUME NEW k \in Nat, TInv(k), NEW a \in Allowance
              PROVE  Mark(a) \in MarkOf /\ Mark(a).left \in Left
  BY DEF Sound, MarksFit
<1>. DEFINE left == [c \in Ciphertext |-> IF cipher[c] = Null THEN 0 ELSE cipher[c].value]
<1>1. left \in [Ciphertext -> Nat]
  BY CipherExists DEF TInv
<1>2. Mark(a).left = left /\ Mark(a) \in MarkOf
  BY <1>1 DEF Mark, MarkOf
<1>3. \A p \in Person : left[p] = Balance(p) /\ (~Opened(p) => left[p] = 0)
  BY DEF TInv, Held, BalancesHeld, Balance
<1>4. \A c \in Burned : receipt[c] # Null => left[c] = cipher[c].value
  BY DEF TInv, Held, BurnsHeld
<1>5. \A c \in Burned : /\ receipt[c] # Null => left[c] \in {0, receipt[c].amount}
                        /\ Unused(c) => left[c] = 0
  BY <1>4 DEF TInv, Held, BurnsHeld, UnusedHeld
<1>6. \A r \in Request : asked[r] # Null /\ asked[r].done => left[asked[r].ct] = asked[r].value
  BY DEF TInv, Held, AnswersAreBurned
<1>7. Total(LeftIn(left)) + Total(LeftFor(left)) <= InVault
  <2>1. LeftIn(left) = Balances
    BY <1>3 DEF LeftIn, Balances
  <2>2. LeftFor(left) = Outgoings
    BY <1>4 DEF LeftFor, Outgoings, Outgoing
  <2>3. Total(Balances) \in Nat /\ Total(Outgoings) \in Nat
    BY AmountTypes, TotalType DEF TInv
  <2>. QED
    BY <2>1, <2>2, <2>3 DEF TInv, VaultHolds
<1>. QED
  BY <1>1, <1>2, <1>3, <1>5, <1>6, <1>7 DEF Left

(* The step leaves what a drain would leave: what it creates is 0, and     *)
(* what else it writes is due.                                             *)
LEMMA StillLeft ==
  ASSUME NEW left \in Left,
         \A p \in Person : Opened(p) => Opened(p)',
         \A c \in Burned : /\ (receipt'[c] = Null) = (receipt[c] = Null)
                           /\ receipt[c] # Null => receipt'[c].amount = receipt[c].amount,
         \A r \in Request : /\ asked[r] # Null /\ asked[r].done => asked'[r] = asked[r]
                            /\ asked'[r] # Null /\ asked'[r].done => asked'[r] = asked[r],
         \A c \in Person \cup Burned :
           cipher'[c] # Null /\ ~cipher'[c].due => left[c] = cipher'[c].value,
         InVault \in Nat, InVault' \in Nat, InVault <= InVault'
  PROVE  left \in Left'
<1>1. left \in [Ciphertext -> Nat]
  BY DEF Left
<1>2. \A p \in Person : ~Opened(p)' => left[p] = 0
  BY DEF Left
<1>3. \A c \in Burned : Unused(c)' => Unused(c)
  BY DEF Unused
<1>4. \A c \in Burned : /\ receipt'[c] # Null => left[c] \in {0, receipt'[c].amount}
                        /\ Unused(c)' => left[c] = 0
  BY <1>3 DEF Left
<1>5. \A r \in Request : asked'[r] # Null /\ asked'[r].done => left[asked'[r].ct] = asked'[r].value
  BY DEF Left
<1>6. LeftFor(left)' = LeftFor(left) /\ LeftIn(left)' = LeftIn(left)
  BY DEF LeftFor, LeftIn
<1>7. Total(LeftIn(left))' + Total(LeftFor(left))' <= InVault'
  <2>1. Total(LeftIn(left)) + Total(LeftFor(left)) <= InVault
    BY DEF Left
  <2>2. Total(LeftIn(left)) \in Nat /\ Total(LeftFor(left)) \in Nat
    BY <1>1, LeftTypes
  <2>. QED
    BY <1>6, <2>1, <2>2
<1>. QED
  BY <1>1, <1>2, <1>4, <1>5, <1>7 DEF Left

(* Accounts are opened, delegated, frozen, and the vault filled.           *)
LEMMA DueLeaves ==
  ASSUME NEW k \in Nat, TInv(k), NEW v,
         cipher' = [c \in Ciphertext |->
           IF c \in DOMAIN v THEN [value |-> v[c], digest |-> ZeroDigest, due |-> TRUE] ELSE cipher[c]],
         asked' = asked, receipt' = receipt, \A p \in Person : Opened(p) => Opened(p)',
         InVault' \in Nat, InVault <= InVault'
  PROVE  Left \subseteq Left'
<1>1. InVault \in Nat
  BY DEF TInv, Typed, InVault
<1>2. \A c \in Person \cup Burned :
        cipher'[c] # Null /\ ~cipher'[c].due => cipher[c] # Null /\ ~cipher[c].due /\ cipher'[c] = cipher[c]
  OBVIOUS
<1>. SUFFICES ASSUME NEW left \in Left PROVE left \in Left'
  OBVIOUS
<1>3. \A c \in Person \cup Burned : cipher'[c] # Null /\ ~cipher'[c].due => left[c] = cipher'[c].value
  BY <1>2 DEF Left
<1>. QED
  BY <1>1, <1>3, StillLeft

LEMMA CreatedLeaves ==
  ASSUME NEW k \in Nat, TInv(k), NEW new, NEW v, CreateAndExecute(new, v),
         receipt' = receipt, \A p \in Person : Opened(p) => Opened(p)', InVault' = InVault
  PROVE  Left \subseteq Left'
<1>1. InVault \in Nat
  BY DEF TInv, Typed, InVault
<1>2. InVault' \in Nat /\ InVault <= InVault'
  BY <1>1
<1>. QED
  BY <1>2, DueLeaves DEF CreateAndExecute

LEMMA SameLeaves ==
  ASSUME NEW k \in Nat, TInv(k), \A c \in Person \cup Burned : cipher'[c] = cipher[c],
         asked' = asked, receipt' = receipt, \A p \in Person : Opened(p) => Opened(p)',
         InVault' \in Nat, InVault <= InVault'
  PROVE  Left \subseteq Left'
<1>1. InVault \in Nat
  BY DEF TInv, Typed, InVault
<1>. SUFFICES ASSUME NEW left \in Left PROVE left \in Left'
  OBVIOUS
<1>2. \A c \in Person \cup Burned : cipher'[c] # Null /\ ~cipher'[c].due => left[c] = cipher'[c].value
  BY DEF Left
<1>. QED
  BY <1>1, <1>2, StillLeft

(* What is created is 0, as is what is left of it.                         *)
LEMMA CreationLeaves ==
  ASSUME NEW k \in Nat, TInv(k), NEW c \in Person \cup Burned, Wrote([x \in {c} |-> 0]), cipher[c] = Null,
         receipt' = receipt, \A p \in Person : Opened(p) => Opened(p)', vault' = vault
  PROVE  Left \subseteq Left'
<1>1. InVault \in Nat /\ InVault' = InVault
  BY DEF TInv, Typed, InVault
<1>2. c \in Person => ~Opened(c)
  BY DEF TInv, Held, BalancesHeld
<1>3. c \in Burned => Unused(c)
  BY DEF TInv, Held, BurnsHeld, AnswersAreBurned, Unused
<1>4. cipher'[c].value = 0 /\ asked' = asked /\ \A x \in Ciphertext \ {c} : cipher'[x] = cipher[x]
  BY DEF Wrote
<1>. SUFFICES ASSUME NEW left \in Left PROVE left \in Left'
  OBVIOUS
<1>5. left[c] = 0
  BY <1>2, <1>3 DEF Left
<1>6. \A x \in Person \cup Burned : cipher'[x] # Null /\ ~cipher'[x].due => left[x] = cipher'[x].value
  BY <1>4, <1>5 DEF Left
<1>. QED
  BY <1>1, <1>4, <1>6, StillLeft

LEMMA MarksStay ==
  ASSUME MarksHeld, Left \subseteq Left', marks' = marks
  PROVE  MarksHeld'
BY DEF MarksHeld

LEMMA AppendFits ==
  ASSUME NEW M, NEW L, NEW old \in Seq(M), NEW mark \in M, mark.left \in L,
         \A i \in DOMAIN old : old[i].left \in L
  PROVE  /\ Append(old, mark) \in Seq(M)
         /\ \A i \in DOMAIN Append(old, mark) : Append(old, mark)[i].left \in L
<1>1. Append(old, mark) \in Seq(M) /\ Len(old) \in Nat
  OBVIOUS
<1>2. ASSUME NEW i \in DOMAIN Append(old, mark) PROVE Append(old, mark)[i].left \in L
  <2>1. CASE i = Len(old) + 1
    BY <1>1, <2>1
  <2>2. CASE i # Len(old) + 1
    <3>1. i \in DOMAIN old /\ Append(old, mark)[i] = old[i]
      BY <1>1, <1>2, <2>2
    <3>. QED
      BY <3>1
  <2>. QED
    BY <2>1, <2>2
<1>. QED
  BY <1>1, <1>2

(* A graph marks what it leaves.                                           *)
LEMMA MarksRun ==
  ASSUME MarksHeld, Left \subseteq Left', Sound', NEW v, RunGraph(v)
  PROVE  MarksHeld'
<1>1. MarksFit'
  BY MarkLeaves, PTL
<1>2. CASE marks' = marks
  BY <1>2, MarksStay
<1>3. ASSUME NEW a \in Allowance, marks' = Append(marks, Mark(a)') PROVE MarksHeld'
  <2>1. Mark(a)' \in MarkOf /\ Mark(a)'.left \in Left'
    BY <1>1 DEF MarksFit
  <2>2. marks \in Seq(MarkOf) /\ \A i \in DOMAIN marks : marks[i].left \in Left'
    BY DEF MarksHeld
  <2>. QED
    BY <1>3, <2>1, <2>2, AppendFits DEF MarksHeld
<1>. QED
  BY <1>2, <1>3 DEF RunGraph

(* approve: what the closed allowance of that address had is forgotten.    *)
LEMMA AllowanceForgotten ==
  ASSUME NEW k \in Nat, TInv(k), NEW left \in Left, NEW a \in Allowance
  PROVE  [left EXCEPT ![a] = 0] \in Left
<1>. DEFINE new == [left EXCEPT ![a] = 0]
<1>1. /\ new \in [Ciphertext -> Nat]
      /\ \A c \in Person \cup Burned : new[c] = left[c]
      /\ \A r \in Request : asked[r] # Null => asked[r].ct \in Burned
  BY DEF Left, TInv, Held, AnswersAreBurned
<1>. HIDE DEF new
<1>2. LeftIn(new) = LeftIn(left) /\ LeftFor(new) = LeftFor(left)
  BY <1>1 DEF LeftIn, LeftFor
<1>3. new \in Left
  BY <1>1, <1>2 DEF Left
<1>. QED
  BY <1>3 DEF new

LEMMA MarksApproved ==
  ASSUME NEW k \in Nat, TInv(k), MarksHeld, Left \subseteq Left', Sound', NEW a \in Allowance,
         marks' = Append([i \in DOMAIN marks |-> [marks[i] EXCEPT !.left[a] = 0]], Mark(a)')
  PROVE  MarksHeld'
<1>1. MarksFit'
  BY MarkLeaves, PTL
<1>2. Mark(a)' \in MarkOf /\ Mark(a)'.left \in Left'
  BY <1>1 DEF MarksFit
<1>. DEFINE old == [i \in DOMAIN marks |-> [marks[i] EXCEPT !.left[a] = 0]]
<1>3. ASSUME NEW i \in DOMAIN marks PROVE old[i] \in MarkOf /\ old[i].left \in Left'
  <2>1. marks[i] \in MarkOf /\ marks[i].left \in Left
    BY DEF MarksHeld
  <2>2. [marks[i].left EXCEPT ![a] = 0] \in Left
    BY <2>1, AllowanceForgotten
  <2>3. [marks[i].left EXCEPT ![a] = 0] \in [Ciphertext -> Nat]
    BY <2>2 DEF Left
  <2>4. old[i] = [marks[i] EXCEPT !.left = [marks[i].left EXCEPT ![a] = 0]]
    BY <2>1 DEF MarkOf
  <2>. QED
    BY <2>1, <2>2, <2>3, <2>4 DEF MarkOf
<1>4. Len(marks) \in Nat /\ DOMAIN marks = 1 .. Len(marks)
  BY DEF MarksHeld
<1>5. old \in Seq(MarkOf) /\ Len(old) = Len(marks)
  <2>1. old \in [1 .. Len(marks) -> MarkOf]
    BY <1>3, <1>4
  <2>. HIDE DEF old
  <2>. QED
    BY <1>4, <2>1
<1>6. \A i \in DOMAIN old : old[i].left \in Left'
  BY <1>3
<1>. HIDE DEF old
<1>7. /\ Append(old, Mark(a)') \in Seq(MarkOf)
      /\ \A i \in DOMAIN Append(old, Mark(a)') : Append(old, Mark(a)')[i].left \in Left'
  BY <1>2, <1>5, <1>6, AppendFits
<1>8. marks' = Append(old, Mark(a)')
  BY DEF old
<1>. QED
  BY <1>7, <1>8 DEF MarksHeld

(* unwrap_burn: of what is burned a drain may leave nothing.               *)
LEMMA BurnLeaves ==
  ASSUME NEW k \in Nat, TInv(k), NEW p \in Person, NEW c \in Burned, NEW n \in Amount,
         Fresh(c), unwrap_burn(p, c, n, n)
  PROVE  Left \subseteq Left'
<1>. DEFINE v == unwrap_burn_graph(p, c, n)
<1>1. /\ cipher' = [x \in Ciphertext |->
           IF x \in {p, c} THEN [value |-> v[x], digest |-> ZeroDigest, due |-> TRUE] ELSE cipher[x]]
      /\ asked' = asked /\ UNCHANGED <<vault, token>>
      /\ receipt' = [receipt EXCEPT ![c] = [owner |-> p, amount |-> n, pending_digest |-> ZeroDigest]]
  BY DEF unwrap_burn, RunGraph, ExecuteGraph, unwrap_burn_graph
<1>2. receipt'[c].amount = n /\ \A b \in Burned \ {c} : receipt'[b] = receipt[b]
  BY <1>1 DEF TInv, Typed
<1>3. \A b \in Person \cup Burned : cipher'[b] # Null /\ ~cipher'[b].due => cipher'[b] = cipher[b]
  BY <1>1
<1>4. Unused(c)
  BY DEF Fresh, Requests, Unused
<1>. SUFFICES ASSUME NEW left \in Left PROVE left \in Left'
  OBVIOUS
<1>5. left \in [Ciphertext -> Nat] /\ left[c] = 0
  BY <1>4 DEF Left
<1>6. \A q \in Person : ~Opened(q)' => left[q] = 0
  BY <1>1 DEF Left, Opened
<1>7. \A b \in Burned : /\ receipt'[b] # Null => left[b] \in {0, receipt'[b].amount}
                        /\ Unused(b)' => left[b] = 0
  <2>1. \A b \in Burned : Unused(b)' => b = c \/ Unused(b)
    BY <1>1, <1>2 DEF Unused
  <2>. QED
    BY <1>2, <1>5, <2>1 DEF Left
<1>8. LeftFor(left)' = LeftFor(left) /\ LeftIn(left)' = LeftIn(left)
  <2>1. \A b \in Burned : (IF receipt'[b] # Null THEN left[b] ELSE 0) = IF receipt[b] # Null THEN left[b] ELSE 0
    BY <1>2, <1>5
  <2>. QED
    BY <2>1 DEF LeftFor, LeftIn
<1>9. InVault' = InVault
  BY <1>1 DEF InVault
<1>10. Total(LeftIn(left))' + Total(LeftFor(left))' <= InVault'
  BY <1>8, <1>9 DEF Left
<1>. QED
  BY <1>1, <1>3, <1>5, <1>6, <1>7, <1>10 DEF Left

(* unwrap_decrypt: a request that is waiting binds nothing.                *)
LEMMA DecryptLeaves ==
  ASSUME NEW k \in Nat, TInv(k), NEW p \in Person, NEW c \in Burned, NEW r \in Request,
         unwrap_decrypt(p, c, c, r)
  PROVE  Left \subseteq Left'
<1>1. /\ receipt[c] # Null /\ asked[r] = Null /\ UNCHANGED <<cipher, vault, token>>
      /\ receipt' = [receipt EXCEPT ![c].pending_digest = Snapshot(c)]
      /\ asked' = [asked EXCEPT ![r] = [ct |-> c, digest |-> Snapshot(c), done |-> FALSE, value |-> 0]]
  BY DEF unwrap_decrypt, RequestDecryption
<1>2. receipt[c] \in WithdrawalReceipt
  BY <1>1, ReceiptExists DEF TInv
<1>3. Snapshot(c) \in Digest
  BY <1>1, CipherExists DEF TInv, Held, BurnsHeld, Snapshot
<1>4. \A b \in Burned : /\ (receipt'[b] = Null) = (receipt[b] = Null)
                        /\ receipt[b] # Null => receipt'[b].amount = receipt[b].amount
  <2>1. /\ receipt'[c] = [receipt[c] EXCEPT !.pending_digest = Snapshot(c)]
        /\ \A b \in Burned \ {c} : receipt'[b] = receipt[b]
    BY <1>1 DEF TInv, Typed
  <2>2. receipt'[c] \in WithdrawalReceipt /\ receipt'[c].amount = receipt[c].amount
    BY <1>2, <1>3, <2>1 DEF WithdrawalReceipt
  <2>. QED
    BY <1>1, <2>1, <2>2
<1>5. \A q \in Request : /\ asked[q] # Null /\ asked[q].done => asked'[q] = asked[q]
                         /\ asked'[q] # Null /\ asked'[q].done => asked'[q] = asked[q]
  <2>1. ~asked'[r].done /\ \A q \in Request \ {r} : asked'[q] = asked[q]
    BY <1>1 DEF TInv, Typed, ClientTypeOK
  <2>. QED
    BY <1>1, <2>1
<1>6. InVault' = InVault /\ InVault \in Nat
  BY <1>1 DEF TInv, Typed, InVault
<1>. SUFFICES ASSUME NEW left \in Left PROVE left \in Left'
  OBVIOUS
<1>7. \A b \in Person \cup Burned : cipher'[b] # Null /\ ~cipher'[b].due => left[b] = cipher'[b].value
  BY <1>1 DEF Left
<1>8. \A q \in Person : Opened(q) => Opened(q)'
  BY <1>1 DEF Opened
<1>. QED
  BY <1>4, <1>5, <1>6, <1>7, <1>8, StillLeft

(* unwrap_complete: what was revealed is left in any case.                 *)
LEMMA CompleteLeaves ==
  ASSUME NEW k \in Nat, TInv(k), NEW p \in Person, NEW c \in Burned, NEW r \in Request,
         r \in Requests(c), unwrap_complete(p, c, r, TRUE)
  PROVE  Left \subseteq Left'
<1>. DEFINE m == asked[r].value
<1>1. /\ receipt[c] # Null /\ asked[r] # Null /\ asked[r].done /\ asked[r].ct = c
      /\ UNCHANGED <<cipher, asked, token>>
      /\ receipt' = [receipt EXCEPT ![c] = Null]
      /\ vault' = vault \/ (m = receipt[c].amount /\ vault' = vault - m)
  BY DEF unwrap_complete, Requests, Verified, clientVars
<1>2. m \in Nat
  BY <1>1, RequestExists DEF TInv
<1>3. receipt'[c] = Null /\ \A b \in Burned \ {c} : receipt'[b] = receipt[b]
  BY <1>1 DEF TInv, Typed
<1>. SUFFICES ASSUME NEW left \in Left PROVE left \in Left'
  OBVIOUS
<1>4. left \in [Ciphertext -> Nat] /\ left[c] = m
  BY <1>1 DEF Left
<1>5. \A q \in Person : ~Opened(q)' => left[q] = 0
  BY <1>1 DEF Left, Opened
<1>6. \A b \in Burned : /\ receipt'[b] # Null => left[b] \in {0, receipt'[b].amount}
                        /\ Unused(b)' => left[b] = 0
  <2>1. \A b \in Burned : Unused(b)' => Unused(b)
    BY <1>1, <1>3 DEF Unused
  <2>. QED
    BY <1>3, <2>1 DEF Left
<1>7. \A q \in Request : asked'[q] # Null /\ asked'[q].done => left[asked'[q].ct] = asked'[q].value
  BY <1>1 DEF Left
<1>8. \A b \in Person \cup Burned : cipher'[b] # Null /\ ~cipher'[b].due => left[b] = cipher'[b].value
  BY <1>1 DEF Left
<1>9. Total(LeftIn(left))' + Total(LeftFor(left))' <= InVault'
  <2>. DEFINE f == LeftFor(left)
              g == LeftFor(left)'
  <2>1. /\ f \in [Burned -> Nat] /\ g \in [Burned -> Nat] /\ f[c] = m /\ g[c] = 0
        /\ \A b \in Burned \ {c} : g[b] = f[b]
    BY <1>1, <1>3, <1>4 DEF LeftFor
  <2>2. Total(LeftIn(left)) + Total(f) <= InVault
    BY DEF Left
  <2>3. LeftIn(left)' = LeftIn(left) /\ Total(LeftIn(left)) \in Nat
    BY <1>4, LeftTypes DEF LeftIn
  <2>. HIDE DEF f, g
  <2>4. Total(g) + m = Total(f) + 0 /\ Total(f) \in Nat /\ Total(g) \in Nat
    BY <2>1, TotalOneChange, TotalType
  <2>5. InVault \in Nat /\ m <= InVault
    BY <1>2, <2>2, <2>3, <2>4 DEF TInv, Typed, InVault
  <2>6. InVault' = InVault \/ InVault' = InVault - m
    <3>1. CASE vault' = vault
      BY <3>1 DEF InVault
    <3>2. CASE m = receipt[c].amount /\ vault' = vault - m
      <4>1. m # 0
        BY <1>1, <3>2 DEF TInv, Held, BurnsHeld
      <4>2. vault \in Nat
        BY <1>2, <2>5, <4>1 DEF TInv, Typed, InVault
      <4>3. vault # Null /\ vault' # Null
        BY <1>2, <2>5, <3>2, <4>2 DEF InVault
      <4>. QED
        BY <3>2, <4>3 DEF InVault
    <3>. QED
      BY <1>1, <3>1, <3>2
  <2>7. Total(LeftIn(left)) + Total(g) <= InVault'
    BY <1>2, <2>2, <2>3, <2>4, <2>5, <2>6
  <2>. QED
    BY <2>3, <2>7 DEF g
<1>. QED
  BY <1>4, <1>5, <1>6, <1>7, <1>8, <1>9 DEF Left

-----------------------------------------------------------------------------
(* The drain that fails: what it leaves is backed.                         *)
LEMMA StopIsMark ==
  ASSUME MarksHeld, Stops # {}
  PROVE  Stop \in MarkOf /\ Stop.left \in Left
<1>1. Stops \subseteq Nat /\ Stops \subseteq DOMAIN marks
  BY DEF Stops, MarksHeld
<1>. DEFINE Less == {ss \in Nat \X Nat : ss[1] < ss[2]}
<1>2. IsWellFoundedOn(Less, Nat)
  BY NatLessThanWellFounded DEF OpToRel
<1>3. \E i \in Stops : \A j \in Stops : i <= j
  <2>. HIDE DEF Less
  <2>1. PICK i \in Stops : \A j \in Stops : ~(<<j, i>> \in Less)
    BY <1>1, <1>2, WFMin, Zenon
  <2>2. \A j \in Stops : ~(j < i)
    BY <1>1, <2>1 DEF Less
  <2>. QED
    BY <1>1, <2>2
<1>4. PICK i \in Stops : Stop = marks[i]
  BY <1>3 DEF Stop
<1>. QED
  BY <1>1, <1>4 DEF MarksHeld

LEMMA FailKeeps ==
  ASSUME NEW k \in Nat, TInv(k), MarksHeld, DrainFails
  PROVE  Sound' /\ MarksHeld'
<1>. USE DEF TInv
<1>. DEFINE left == Stop.left
            now(c) == [value |-> left[c], due |-> FALSE,
                       digest |-> IF c \in Stop.done THEN left[c] ELSE ZeroDigest]
<1>1. /\ UNCHANGED <<mint, vault, wallet, token, receipt>> /\ marks' = <<>>
      /\ cipher' = [c \in Ciphertext |->
           IF cipher[c] = Null \/ ~cipher[c].due THEN cipher[c] ELSE now(c)]
      /\ asked' = [r \in Request |-> IF asked[r] # Null /\ asked[r].done THEN asked[r] ELSE Null]
      /\ left \in Left
  BY StopIsMark DEF DrainFails, programVars
<1>. HIDE DEF left
<1>2. left \in [Ciphertext -> Nat]
  BY <1>1 DEF Left
<1>3. /\ cipher' \in [Ciphertext -> CipherAccount \cup {Null}]
      /\ \A c \in Ciphertext : cipher'[c] = Null <=> cipher[c] = Null
      /\ \A c \in Person \cup Burned : cipher[c] # Null => cipher'[c].value = left[c]
  <2>1. \A c \in Ciphertext : now(c) \in CipherAccount /\ now(c).value = left[c]
    BY <1>2 DEF CipherAccount, Digest
  <2>2. \A c \in Ciphertext : now(c) # Null
    BY <2>1
  <2>. HIDE DEF now
  <2>3. \A c \in Ciphertext : cipher[c] \in CipherAccount \cup {Null}
    BY DEF Typed, ClientTypeOK
  <2>4. \A c \in Person \cup Burned : cipher[c] # Null /\ ~cipher[c].due => left[c] = cipher[c].value
    BY <1>1 DEF Left
  <2>. QED
    BY <1>1, <2>1, <2>2, <2>3, <2>4
<1>4. /\ asked' \in [Request -> RequestAccount \cup {Null}]
      /\ \A r \in Request : asked'[r] # Null => asked[r] # Null /\ asked[r].done /\ asked'[r] = asked[r]
      /\ \A r \in Request : asked[r] # Null /\ asked[r].done => asked'[r] = asked[r]
  BY <1>1 DEF Typed, ClientTypeOK
<1>5. Typed'
  BY <1>1, <1>3, <1>4 DEF Typed, ClientTypeOK
<1>6. Held'
  <2>1. BalancesHeld'
    BY <1>1, <1>3 DEF Held, BalancesHeld, Opened
  <2>2. AllowancesHeld'
    BY <1>1, <1>3, TokenExists DEF Held, AllowancesHeld, Opened
  <2>3. BurnsHeld'
    BY <1>1, <1>3 DEF Held, BurnsHeld, Left
  <2>4. UnusedHeld'
    <3>1. \A c \in Burned : Unused(c)' => Unused(c)
      BY <1>1, <1>4 DEF Unused
    <3>2. \A c \in Burned : Unused(c) => left[c] = 0
      BY <1>1 DEF Left
    <3>. QED
      BY <1>3, <3>1, <3>2 DEF UnusedHeld
  <2>5. AnswersAreBurned'
    <3>1. \A r \in Request : asked[r] # Null /\ asked[r].done => left[asked[r].ct] = asked[r].value
      BY <1>1 DEF Left
    <3>. QED
      BY <1>3, <1>4, <3>1 DEF Held, AnswersAreBurned
  <2>. QED
    BY <2>1, <2>2, <2>3, <2>4, <2>5 DEF Held
<1>7. Balances' = LeftIn(left)
  <2>1. \A p \in Person : ~Opened(p) => left[p] = 0
    BY <1>1 DEF Left
  <2>2. \A p \in Person : Balance(p)' = left[p]
    BY <1>1, <1>3, <2>1 DEF Balance, Opened, Held, BalancesHeld
  <2>. QED
    BY <2>2 DEF Balances, LeftIn
<1>8. Outgoings' = LeftFor(left)
  <2>1. \A c \in Burned : Outgoing(c)' = IF receipt[c] # Null THEN left[c] ELSE 0
    BY <1>1, <1>3 DEF Outgoing, Held, BurnsHeld
  <2>. QED
    BY <2>1 DEF Outgoings, LeftFor
<1>9. PICK j \in Nat : VaultHolds(j)'
  <2>. DEFINE rest == InVault - (Total(LeftIn(left)) + Total(LeftFor(left)))
  <2>1. /\ Total(LeftIn(left)) + Total(LeftFor(left)) <= InVault
        /\ Total(LeftIn(left)) \in Nat /\ Total(LeftFor(left)) \in Nat
    BY <1>1, <1>2, LeftTypes DEF Left
  <2>2. InVault \in Nat /\ InVault' = InVault
    BY <1>1 DEF InVault, Typed
  <2>3. rest \in Nat /\ InVault = Total(LeftIn(left)) + Total(LeftFor(left)) + rest
    BY <2>1, <2>2
  <2>. QED
    BY <1>7, <1>8, <2>2, <2>3 DEF VaultHolds
<1>10. Sound'
  BY <1>5, <1>6, <1>9 DEF Sound
<1>11. MarksHeld'
  BY <1>1 DEF MarksHeld
<1>. QED
  BY <1>10, <1>11

-----------------------------------------------------------------------------
(* Every step after which amounts are still tied, of clients that do not   *)
(* transfer to themselves.                                                 *)
Follows(k) == TInv(k)' /\ MarksHeld' /\ [Ledger!LedgerNext]_(Ledger!ledgerVars)

LEMMA SetupFollows ==
  ASSUME NEW k \in Nat, TInv(k), MarksHeld, Setup
  PROVE  Follows(k) /\ UNCHANGED historyVars
<1>1. CASE initialize_vault \/ \E p \in Person \cup {Null} : initialize_mint(p)
  <2>1. UNCHANGED <<cipher, asked, token, receipt, marks, historyVars>> /\ InVault' = InVault
    BY <1>1 DEF initialize_vault, initialize_mint, InVault, clientVars
  <2>2. InVault \in Nat
    BY DEF TInv, Typed, InVault
  <2>3. Left \subseteq Left'
    BY <2>1, <2>2, SameLeaves DEF Opened
  <2>. QED
    BY <1>1, <2>1, <2>3, MarksStay, SetupKeeps DEF Follows
<1>2. ASSUME NEW p \in Person, initialize_account(p) PROVE Follows(k) /\ UNCHANGED historyVars
  <2>1. /\ CreateZeros({p}) /\ UNCHANGED <<vault, receipt, marks, historyVars>> /\ ~Opened(p)
        /\ token' = [token EXCEPT ![p] = [delegate |-> Null, allowance |-> Null, frozen |-> FALSE]]
    BY <1>2 DEF initialize_account
  <2>2. Wrote([x \in {p} |-> 0]) /\ cipher[p] = Null
    BY <2>1, CreationWrites DEF TInv
  <2>3. \A q \in Person : Opened(q) => Opened(q)'
    BY <2>1 DEF TInv, Typed, Opened
  <2>4. Left \subseteq Left'
    BY <2>1, <2>2, <2>3, CreationLeaves
  <2>. QED
    BY <1>2, <2>1, <2>4, MarksStay, OpenKeeps DEF Follows, Ledger!LedgerNext
<1>. QED
  BY <1>1, <1>2 DEF Setup

(* A graph over open accounts, of an amount that may enter the vault.      *)
LEMMA GraphFollows ==
  ASSUME NEW k \in Nat, TInv(k), TInv(k)', MarksHeld, NEW v, RunGraph(v), UNCHANGED <<token, receipt>>,
         InVault <= InVault', [Ledger!LedgerNext]_(Ledger!ledgerVars)
  PROVE  Follows(k)
<1>1. InVault' \in Nat
  BY DEF TInv, Typed, InVault
<1>2. Left \subseteq Left'
  BY <1>1, DueLeaves DEF RunGraph, ExecuteGraph, Opened
<1>3. Sound'
  BY DEF Sound
<1>. QED
  BY <1>2, <1>3, MarksRun DEF Follows

LEMMA TransfersFollow ==
  ASSUME NEW k \in Nat, TInv(k), MarksHeld, ~ToSelf, Transfers
  PROVE  Follows(k) /\ UNCHANGED historyVars
<1>1. PICK p \in Person, q \in Person, n \in Amount :
        /\ p # q
        /\ \/ transfer(p, q, n)
           \/ \E c \in Receipt : transfer_with_receipt(p, q, n, c)
           \/ \E d \in Person : transfer_from(d, p, q, n)
  BY DEF Transfers, Other
<1>2. p # q /\ InVault \in Nat
  BY <1>1 DEF TInv, Typed, InVault
<1>3. CASE transfer(p, q, n)
  <2>1. /\ RunGraph(transfer_graph(p, q, n)) /\ UNCHANGED <<token, receipt, historyVars>>
        /\ InVault' = InVault
    BY <1>3 DEF transfer, programVars, InVault
  <2>2. TInv(k)' /\ [Ledger!LedgerNext]_(Ledger!ledgerVars)
    BY <1>2, <1>3, TransferKeeps
  <2>. QED
    BY <1>2, <2>1, <2>2, GraphFollows
<1>4. ASSUME NEW c \in Receipt, transfer_with_receipt(p, q, n, c)
      PROVE  Follows(k) /\ UNCHANGED historyVars
  <2>1. /\ CreateAndExecute({c}, transfer_receipt_graph(p, q, c, n))
        /\ UNCHANGED <<token, receipt, marks, historyVars>> /\ InVault' = InVault
    BY <1>4 DEF transfer_with_receipt, programVars, InVault
  <2>2. Left \subseteq Left'
    BY <2>1, CreatedLeaves DEF Opened
  <2>. QED
    BY <1>2, <1>4, <2>1, <2>2, ReceiptKeeps, MarksStay DEF Follows
<1>5. ASSUME NEW d \in Person, transfer_from(d, p, q, n)
      PROVE  Follows(k) /\ UNCHANGED historyVars
  <2>1. /\ RunGraph(transfer_from_graph(p, q, token[p].allowance, n))
        /\ UNCHANGED <<token, receipt, historyVars>> /\ InVault' = InVault
    BY <1>5 DEF transfer_from, programVars, InVault
  <2>. QED
    BY <1>2, <1>5, <2>1, TransferFromKeeps, GraphFollows
<1>. QED
  BY <1>1, <1>3, <1>4, <1>5

LEMMA RightsFollow ==
  ASSUME NEW k \in Nat, TInv(k), MarksHeld, Rights
  PROVE  Follows(k) /\ UNCHANGED historyVars
<1>0. InVault \in Nat
  BY DEF TInv, Typed, InVault
<1>1. PICK p \in Person, q \in Person :
        \/ \E n \in Amount, a \in Allowance : approve(p, q, n, a)
        \/ freeze_account(p, q) \/ thaw_account(p, q)
        \/ revoke(p)
  BY DEF Rights
<1>2. ASSUME NEW n \in Amount, NEW a \in Allowance, approve(p, q, n, a)
      PROVE  Follows(k) /\ UNCHANGED historyVars
  <2>1. TInv(k)' /\ Ledger!LedgerNext
    BY <1>2, ApproveKeeps
  <2>2. /\ CreateAndExecute({a}, [c \in {a} |-> n]) /\ Opened(p)
        /\ token' = [token EXCEPT ![p].delegate = q, ![p].allowance = a]
        /\ UNCHANGED <<receipt, historyVars>> /\ InVault' = InVault
        /\ marks' = Append([i \in DOMAIN marks |-> [marks[i] EXCEPT !.left[a] = 0]], Mark(a)')
    BY <1>2 DEF approve, Liquid, InVault
  <2>3. \A x \in Person : Opened(x) => Opened(x)'
    <3>1. \A x \in Person \ {p} : token'[x] = token[x]
      BY <2>2 DEF TInv, Typed
    <3>2. Opened(p)'
      <4>1. token[p] \in TokenAccount
        BY <2>2, TokenExists DEF TInv
      <4>2. token'[p] = [token[p] EXCEPT !.delegate = q, !.allowance = a]
        BY <2>2 DEF TInv, Typed
      <4>3. token'[p] \in TokenAccount
        BY <4>1, <4>2 DEF TokenAccount
      <4>. QED
        BY <4>3 DEF Opened
    <3>. QED
      BY <3>1, <3>2 DEF Opened
  <2>4. Left \subseteq Left'
    BY <2>2, <2>3, CreatedLeaves
  <2>5. Sound'
    BY <2>1 DEF Sound
  <2>. QED
    BY <2>1, <2>2, <2>4, <2>5, MarksApproved DEF Follows
<1>3. CASE freeze_account(p, q) \/ thaw_account(p, q)
  <2>1. TInv(k)' /\ Ledger!LedgerNext
    BY <1>3, FreezeKeeps
  <2>2. UNCHANGED <<cipher, asked, receipt, marks, historyVars>> /\ InVault' = InVault
    BY <1>3 DEF freeze_account, thaw_account, clientVars, InVault
  <2>3. \A x \in Person : Opened(x) => Opened(x)'
    BY <2>1, <2>2 DEF TInv, Held, BalancesHeld
  <2>4. Left \subseteq Left'
    BY <1>0, <2>2, <2>3, SameLeaves
  <2>. QED
    BY <2>1, <2>2, <2>4, MarksStay DEF Follows
<1>4. CASE revoke(p)
  <2>1. TInv(k)' /\ Ledger!LedgerNext
    BY <1>4, RevokeKeeps
  <2>2. /\ CloseCiphertext(token[p].allowance) /\ Opened(p) /\ token[p].delegate # Null
        /\ UNCHANGED <<asked, receipt, marks, historyVars>> /\ InVault' = InVault
    BY <1>4 DEF revoke, CloseCiphertext, InVault
  <2>3. token[p].allowance \in Allowance
    BY <2>2, TokenExists DEF TInv, Held, AllowancesHeld
  <2>4. \A c \in Person \cup Burned : cipher'[c] = cipher[c]
    BY <2>2, <2>3 DEF CloseCiphertext, TInv, Typed, ClientTypeOK
  <2>5. \A x \in Person : Opened(x) => Opened(x)'
    BY <2>1, <2>4 DEF TInv, Held, BalancesHeld
  <2>6. Left \subseteq Left'
    BY <1>0, <2>2, <2>4, <2>5, SameLeaves
  <2>. QED
    BY <2>1, <2>2, <2>6, MarksStay DEF Follows
<1>. QED
  BY <1>1, <1>2, <1>3, <1>4

LEMMA WrapsFollow ==
  ASSUME NEW k \in Nat, TInv(k), MarksHeld, {tied, failed} \subseteq BOOLEAN, Wraps, tied'
  PROVE  Follows(k) /\ UNCHANGED historyVars
<1>1. PICK p \in Person, n \in Amount, m \in Amount, ours \in BOOLEAN : wrap(p, n, m, ours)
  BY DEF Wraps
<1>2. tied' = (tied /\ ours /\ n = m) /\ failed' = failed
  BY <1>1 DEF wrap
<1>3. tied /\ ours /\ n = m
  BY <1>2
<1>4. ours = TRUE /\ tied' = tied
  BY <1>2, <1>3
<1>5. wrap(p, n, n, TRUE)
  BY <1>1, <1>3, <1>4
<1>6. /\ RunGraph(mint_to_graph(p, n)) /\ UNCHANGED <<token, receipt>>
      /\ vault # Null /\ vault' = vault + n
  BY <1>5 DEF wrap
<1>7. InVault <= InVault'
  BY <1>6 DEF TInv, Typed, InVault
<1>. QED
  BY <1>2, <1>4, <1>5, <1>6, <1>7, WrapKeeps, GraphFollows DEF historyVars

LEMMA UnwrapsFollow ==
  ASSUME NEW k \in Nat, TInv(k), MarksHeld, {tied, failed} \subseteq BOOLEAN, Unwraps, tied'
  PROVE  Follows(k) /\ UNCHANGED historyVars
<1>0. InVault \in Nat
  BY DEF TInv, Typed, InVault
<1>1. ASSUME NEW c \in Burned, create_burned(c) PROVE Follows(k) /\ UNCHANGED historyVars
  <2>1. CreateInput(c, 0) /\ UNCHANGED <<vault, token, receipt, marks, historyVars>>
    BY <1>1 DEF create_burned, programVars
  <2>2. Wrote([x \in {c} |-> 0]) /\ cipher[c] = Null
    BY <2>1, CreationWrites DEF TInv
  <2>3. Left \subseteq Left'
    BY <2>1, <2>2, CreationLeaves DEF Opened
  <2>. QED
    BY <1>1, <2>1, <2>3, MarksStay, CreateBurnedKeeps DEF Follows
<1>2. ASSUME NEW p \in Person, NEW c \in Ciphertext, NEW n \in Amount, NEW m \in Amount,
             unwrap_burn(p, c, n, m)
      PROVE  Follows(k) /\ UNCHANGED historyVars
  <2>1. tied' = (tied /\ n = m /\ Fresh(c)) /\ failed' = failed
    BY <1>2 DEF unwrap_burn
  <2>2. tied /\ n = m /\ Fresh(c)
    BY <2>1
  <2>3. tied' = tied /\ c \in Burned /\ unwrap_burn(p, c, n, n)
    BY <1>2, <2>1, <2>2 DEF Fresh
  <2>4. TInv(k)' /\ [Ledger!LedgerNext]_(Ledger!ledgerVars) /\ Left \subseteq Left'
    BY <2>2, <2>3, BurnKeeps, BurnLeaves
  <2>5. Sound'
    BY <2>4 DEF Sound
  <2>6. RunGraph(unwrap_burn_graph(p, c, n))
    BY <2>3 DEF unwrap_burn
  <2>7. MarksHeld'
    BY <2>4, <2>5, <2>6, MarksRun
  <2>. QED
    BY <2>1, <2>3, <2>4, <2>7 DEF Follows, historyVars
<1>3. ASSUME NEW p \in Person, NEW c \in Ciphertext, NEW d \in Ciphertext, NEW r \in Request,
             unwrap_decrypt(p, c, d, r)
      PROVE  Follows(k) /\ UNCHANGED historyVars
  <2>1. tied' = (tied /\ d = c) /\ failed' = failed /\ receipt[c] # Null /\ marks' = marks
    BY <1>3 DEF unwrap_decrypt
  <2>2. tied /\ d = c
    BY <2>1
  <2>3. tied' = tied /\ c \in Burned /\ unwrap_decrypt(p, c, c, r)
    BY <1>3, <2>1, <2>2 DEF TInv, Held, BurnsHeld
  <2>. QED
    BY <2>1, <2>3, DecryptKeeps, DecryptLeaves, MarksStay DEF Follows, historyVars
<1>4. ASSUME NEW p \in Person, NEW c \in Ciphertext, NEW r \in Request, NEW ours \in BOOLEAN,
             unwrap_complete(p, c, r, ours)
      PROVE  Follows(k) /\ UNCHANGED historyVars
  <2>1. /\ tied' = (tied /\ ours /\ asked[r].ct = c) /\ failed' = failed /\ receipt[c] # Null
        /\ marks' = marks /\ asked[r] # Null
    BY <1>4 DEF unwrap_complete, Verified
  <2>2. tied /\ ours /\ asked[r].ct = c
    BY <2>1
  <2>3. tied' = tied /\ ours = TRUE
    BY <2>1, <2>2
  <2>4. c \in Burned /\ r \in Requests(c) /\ unwrap_complete(p, c, r, TRUE)
    BY <1>4, <2>1, <2>2, <2>3 DEF TInv, Held, BurnsHeld, Requests
  <2>. QED
    BY <2>1, <2>3, <2>4, CompleteKeeps, CompleteLeaves, MarksStay DEF Follows, historyVars
<1>5. ASSUME NEW p \in Person, NEW n \in Amount, unwrap_complete_foreign(p, n) PROVE FALSE
  BY <1>5 DEF unwrap_complete_foreign
<1>. QED
  BY <1>1, <1>2, <1>3, <1>4, <1>5 DEF Unwraps

(* A drain that does not fail, and no step at all.                         *)
LEMMA DrainFollows ==
  ASSUME NEW k \in Nat, TInv(k), ProcessPending, marks' = <<>>, UNCHANGED <<programVars, historyVars>>
  PROVE  Follows(k) /\ UNCHANGED historyVars
<1>1. MarksHeld'
  BY DEF MarksHeld
<1>. QED
  BY <1>1, DrainKeeps DEF Follows

LEMMA StutterFollows ==
  ASSUME NEW k \in Nat, TInv(k), MarksHeld, UNCHANGED tokenVars
  PROVE  Follows(k) /\ UNCHANGED historyVars
<1>1. UNCHANGED <<cipher, asked, mint, vault, wallet, token, receipt, marks, historyVars>>
  BY DEF tokenVars, clientVars, programVars
<1>2. InVault \in Nat /\ InVault' = InVault
  BY <1>1 DEF TInv, Typed, InVault
<1>3. Left \subseteq Left'
  BY <1>1, <1>2, SameLeaves DEF Opened
<1>4. /\ Balances' = Balances /\ Outgoings' = Outgoings
      /\ Leavings' = Leavings /\ Limits' = Limits
  BY <1>1 DEF Balances, Balance, Outgoings, Outgoing, Leavings, Leaving, OutgoingOf, Limits,
              Limit, Opened
<1>5. TInv(k)'
  <2>1. Typed'
    BY <1>1 DEF TInv, Typed, ClientTypeOK
  <2>2. Held'
    BY <1>1 DEF TInv, Held, BalancesHeld, AllowancesHeld, BurnsHeld, UnusedHeld, Unused,
                AnswersAreBurned, Opened
  <2>3. VaultHolds(k)'
    BY <1>2, <1>4 DEF TInv, VaultHolds
  <2>. QED
    BY <2>1, <2>2, <2>3 DEF TInv
<1>. QED
  BY <1>1, <1>3, <1>4, <1>5, MarksStay, NothingShows DEF Follows

(* The tokens nobody can account for any more are those of drains that     *)
(* failed.                                                                 *)
IInv ==
  /\ tied \in BOOLEAN /\ failed \in BOOLEAN
  /\ tied => MarksHeld /\ \E k \in Nat : TInv(k) /\ (~failed => k = 0)

LEMMA TokenStep ==
  ASSUME IInv, ~ToSelf, [Next]_tokenVars
  PROVE  IInv' /\ (tied' => DrainFails \/ [Ledger!LedgerNext]_(Ledger!ledgerVars))
<1>1. tied' \in BOOLEAN /\ failed' \in BOOLEAN /\ (tied' => tied)
  <2>1. CASE UNCHANGED historyVars
    BY <2>1 DEF IInv, historyVars
  <2>2. CASE DrainFails
    BY <2>2 DEF IInv, DrainFails
  <2>0. ASSUME NEW p, NEW q, failed' = failed, tied' = (tied /\ p /\ q)
        PROVE  tied' \in BOOLEAN /\ failed' \in BOOLEAN /\ (tied' => tied)
    <3>1. (tied /\ p /\ q) \in BOOLEAN /\ ((tied /\ p /\ q) => tied)
      OBVIOUS
    <3>. QED
      BY <2>0, <3>1 DEF IInv
  <2>3. CASE Wraps \/ Unwraps
    <3>1. ASSUME NEW p \in Person, NEW n \in Amount, NEW m \in Amount, NEW ours \in BOOLEAN,
                 wrap(p, n, m, ours)
          PROVE  tied' \in BOOLEAN /\ failed' \in BOOLEAN /\ (tied' => tied)
      BY <2>0, <3>1 DEF wrap
    <3>2. ASSUME NEW p \in Person, NEW c \in Ciphertext, NEW n \in Amount, NEW m \in Amount,
                 unwrap_burn(p, c, n, m)
          PROVE  tied' \in BOOLEAN /\ failed' \in BOOLEAN /\ (tied' => tied)
      BY <2>0, <3>2 DEF unwrap_burn
    <3>3. ASSUME NEW p \in Person, NEW c \in Ciphertext, NEW d \in Ciphertext, NEW r \in Request,
                 unwrap_decrypt(p, c, d, r)
          PROVE  tied' \in BOOLEAN /\ failed' \in BOOLEAN /\ (tied' => tied)
      <4>1. failed' = failed /\ tied' = (tied /\ TRUE /\ d = c)
        BY <3>3 DEF unwrap_decrypt
      <4>. QED
        BY <2>0, <4>1
    <3>4. ASSUME NEW p \in Person, NEW c \in Ciphertext, NEW r \in Request, NEW ours \in BOOLEAN,
                 unwrap_complete(p, c, r, ours)
          PROVE  tied' \in BOOLEAN /\ failed' \in BOOLEAN /\ (tied' => tied)
      BY <2>0, <3>4 DEF unwrap_complete
    <3>5. ASSUME NEW p \in Person, NEW n \in Amount, unwrap_complete_foreign(p, n)
          PROVE  tied' \in BOOLEAN /\ failed' \in BOOLEAN /\ (tied' => tied)
      BY <3>5 DEF unwrap_complete_foreign, IInv
    <3>6. ASSUME NEW c \in Burned, create_burned(c)
          PROVE  tied' \in BOOLEAN /\ failed' \in BOOLEAN /\ (tied' => tied)
      BY <2>1, <3>6 DEF create_burned
    <3>. QED
      BY <2>3, <3>1, <3>2, <3>3, <3>4, <3>5, <3>6 DEF Wraps, Unwraps
  <2>4. CASE Setup \/ Transfers \/ Rights
    <3>1. UNCHANGED historyVars
      BY <2>4 DEF Setup, Transfers, Rights, initialize_mint, initialize_vault,
                  initialize_account, transfer, transfer_with_receipt, transfer_from, approve,
                  freeze_account, thaw_account, revoke
    <3>. QED
      BY <2>1, <3>1
  <2>5. CASE UNCHANGED tokenVars
    BY <2>1, <2>5 DEF tokenVars
  <2>. QED
    BY <2>1, <2>2, <2>3, <2>4, <2>5 DEF Next, ExecutorStep
<1>. SUFFICES ASSUME tied'
              PROVE  /\ MarksHeld' /\ \E j \in Nat : TInv(j)' /\ (~failed' => j = 0)
                     /\ DrainFails \/ [Ledger!LedgerNext]_(Ledger!ledgerVars)
  BY <1>1 DEF IInv
<1>2. MarksHeld
  BY <1>1 DEF IInv
<1>3. PICK k \in Nat : TInv(k) /\ (~failed => k = 0)
  BY <1>1 DEF IInv
<1>4. {tied, failed} \subseteq BOOLEAN
  BY DEF IInv
<1>5. DrainFails \/ (Follows(k) /\ UNCHANGED historyVars)
  <2>1. CASE Setup
    BY <1>2, <1>3, <2>1, SetupFollows
  <2>2. CASE Transfers
    BY <1>2, <1>3, <2>2, TransfersFollow
  <2>3. CASE Rights
    BY <1>2, <1>3, <2>3, RightsFollow
  <2>4. CASE Wraps
    BY <1>2, <1>3, <1>4, <2>4, WrapsFollow
  <2>5. CASE Unwraps
    BY <1>2, <1>3, <1>4, <2>5, UnwrapsFollow
  <2>6. CASE ExecutorStep
    BY <1>3, <2>6, DrainFollows DEF ExecutorStep
  <2>7. CASE UNCHANGED tokenVars
    BY <1>2, <1>3, <2>7, StutterFollows
  <2>. QED
    BY <2>1, <2>2, <2>3, <2>4, <2>5, <2>6, <2>7 DEF Next
<1>6. CASE DrainFails
  <2>1. Sound' /\ MarksHeld'
    BY <1>2, <1>3, <1>6, FailKeeps
  <2>2. failed'
    BY <1>6 DEF DrainFails
  <2>. QED
    BY <1>6, <2>1, <2>2 DEF Sound
<1>7. CASE Follows(k) /\ UNCHANGED historyVars
  <2>1. TInv(k)' /\ MarksHeld' /\ [Ledger!LedgerNext]_(Ledger!ledgerVars) /\ failed' = failed
    BY <1>7 DEF Follows, historyVars
  <2>. QED
    BY <1>3, <2>1
<1>. QED
  BY <1>5, <1>6, <1>7

LEMMA InitSound == Init => IInv
<1>. SUFFICES ASSUME Init PROVE IInv
  OBVIOUS
<1>1. tied = TRUE /\ failed = FALSE
  BY DEF Init
<1>2. MarksHeld
  BY DEF Init, MarksHeld
<1>3. TInv(0)
  BY TokenInit
<1>. QED
  BY <1>1, <1>2, <1>3 DEF IInv

LEMMA TokenInvariant == ~ToSelf => (Spec => []IInv)
<1>. SUFFICES ASSUME ~ToSelf PROVE Spec => []IInv
  OBVIOUS
<1>1. IInv /\ [Next]_tokenVars => IInv'
  BY TokenStep
<1>. QED
  BY <1>1, InitSound, PTL DEF Spec

(* As long as clients keep amounts together, accounts, receipts, answers   *)
(* and what a failing drain would leave are what the program takes them    *)
(* for.                                                                    *)
THEOREM TokenTypeCorrect == ~ToSelf => (Spec => [](tied => TypeOK))
<1>1. IInv => (tied => TypeOK)
  BY DEF IInv, TInv, Typed, MarksHeld, TypeOK
<1>. QED
  BY <1>1, TokenInvariant, PTL

(* As long as clients keep amounts together the vault holds one SPL token  *)
(* for every confidential token, in balances and in burned amounts whose   *)
(* receipt is open; and though drains fail, of which the vault keeps what  *)
(* the graphs they drop would have minted, it never holds less.            *)
THEOREM TokensBacked == ~ToSelf => (Spec => []Backed)
<1>1. IInv => Backed
  <2>. SUFFICES ASSUME IInv, tied, vault # Null
                PROVE  LET issued == Total(Balances) + Total(Outgoings)
                       IN issued <= vault /\ (~failed => issued = vault)
    BY DEF Backed
  <2>1. PICK k \in Nat : TInv(k) /\ (~failed => k = 0)
    BY DEF IInv
  <2>2. vault = Total(Balances) + Total(Outgoings) + k
    BY <2>1 DEF TInv, VaultHolds, InVault
  <2>3. Total(Balances) \in Nat /\ Total(Outgoings) \in Nat
    BY <2>1, AmountTypes, TotalType DEF TInv
  <2>. QED
    BY <2>1, <2>2, <2>3
<1>. QED
  BY <1>1, TokenInvariant, PTL

(* As long as clients keep amounts together the encrypted balances and     *)
(* allowances are an ordinary ledger: in every step somebody pays what     *)
(* there is, deposits it or takes it out, save for drains that fail.       *)
THEOREM TokenImplementsLedger == ~ToSelf => (Spec => ImplementsLedger)
<1>. SUFFICES ASSUME ~ToSelf PROVE Spec => ImplementsLedger
  OBVIOUS
<1>1. Init => Ledger!LedgerInit
  <2>. SUFFICES ASSUME Init PROVE Ledger!LedgerInit
    OBVIOUS
  <2>1. \A p \in Person : ~Opened(p) /\ Balance(p) = 0 /\ Limit(p) = Null
    BY DEF Init, Opened, Balance, Limit
  <2>2. \A p \in Person : Leaving(p) = 0
    <3>1. ASSUME NEW p \in Person PROVE Leaving(p) = 0
      <4>. DEFINE f == [c \in Burned |-> OutgoingOf(p, c)]
      <4>1. f \in [Burned -> Nat] /\ \A c \in Burned : f[c] = 0
        BY DEF Init, OutgoingOf
      <4>. QED
        BY <4>1, TotalZero DEF Leaving
    <3>. QED
      BY <3>1
  <2>3. wallet \in [Person -> Nat]
    BY DEF Init
  <2>. QED
    BY <2>1, <2>2, <2>3 DEF Ledger!LedgerInit, Balances, Leavings, Limits
<1>2. IInv /\ [Next]_tokenVars =>
        [~tied' \/ DrainFails \/ Ledger!LedgerNext]_(Ledger!ledgerVars)
  BY TokenStep
<1>. QED
  BY <1>1, <1>2, TokenInvariant, PTL DEF Spec, ImplementsLedger
=============================================================================
