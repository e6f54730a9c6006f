--------------------------- MODULE PcSwap_proofs ----------------------------
(***************************************************************************)
(* The confidential swap, for any finite number of persons, any tokens,    *)
(* amounts and width of a word.  Types, and that no token is made or lost, *)
(* hold without condition.  That the vaults cover the mirrors, that a      *)
(* share keeps its worth and that payouts arrive hold while a thousand     *)
(* times the tokens of a side, and the shares, fit in a word, as the       *)
(* graphs compute modulo 2^64, and while calls name the token's program.   *)
(***************************************************************************)
EXTENDS PcSwap, FiniteSetTheorems, TLAPS

-----------------------------------------------------------------------------
(* Sums over a finite set of holders: that they are numbers, bound each    *)
(* summand, and change by what one summand changes.                        *)

LEMMA UnitsAre ==
  ASSUME NEW S, NEW f \in [S -> Nat], NEW u
  PROVE  u \in Units(f) <=> \E x \in S : \E i \in 1 .. f[x] : u = <<x, i>>
<1>1. u \in Units(f) <=> \E x \in S : u \in Slice(f, x)
  BY DEF Units
<1>2. \A x \in S : u \in Slice(f, x) <=> \E i \in 1 .. f[x] : u = <<x, i>>
  BY DEF Slice
<1>. QED
  BY <1>1, <1>2

(* A slice has as many units as its summand says.                          *)
LEMMA SliceCount ==
  ASSUME NEW S, NEW f \in [S -> Nat], NEW x \in S
  PROVE  IsFiniteSet(Slice(f, x)) /\ Cardinality(Slice(f, x)) = f[x]
<1>1. IsFiniteSet({x}) /\ Cardinality({x}) = 1
  BY FS_Singleton
<1>2. IsFiniteSet(1 .. f[x]) /\ Cardinality(1 .. f[x]) = f[x]
  <2>1. f[x] \in Nat /\ 1 \in Int /\ f[x] \in Int
    OBVIOUS
  <2>2. IsFiniteSet(1 .. f[x]) /\ Cardinality(1 .. f[x]) = IF 1 > f[x] THEN 0 ELSE f[x] - 1 + 1
    BY <2>1, FS_Interval, Zenon
  <2>. QED
    BY <2>1, <2>2
<1>3. /\ IsFiniteSet({x} \X (1 .. f[x]))
      /\ Cardinality({x} \X (1 .. f[x])) = Cardinality({x}) * Cardinality(1 .. f[x])
  BY <1>1, <1>2, FS_Product, Zenon
<1>. QED
  BY <1>1, <1>2, <1>3 DEF Slice

LEMMA UnitsFinite ==
  ASSUME NEW S, IsFiniteSet(S), NEW f \in [S -> Nat]
  PROVE  IsFiniteSet(Units(f))
<1>. DEFINE slices == {Slice(f, x) : x \in S}
<1>1. IsFiniteSet(slices)
  <2>. DEFINE g == [x \in S |-> Slice(f, x)]
  <2>1. g \in Surjection(S, slices)
    BY DEF Surjection
  <2>. QED
    BY <2>1, FS_Surjection, Zenon
<1>2. \A T \in slices : IsFiniteSet(T)
  BY SliceCount
<1>3. IsFiniteSet(UNION slices)
  BY <1>1, <1>2, FS_UNION, Zenon
<1>4. Units(f) \subseteq UNION slices
  <2>. SUFFICES ASSUME NEW u \in Units(f) PROVE u \in UNION slices
    OBVIOUS
  <2>1. PICK x \in S : \E i \in 1 .. f[x] : u = <<x, i>>
    BY UnitsAre
  <2>2. u \in Slice(f, x)
    BY <2>1 DEF Slice
  <2>. QED
    BY <2>2
<1>. QED
  BY <1>3, <1>4, FS_Subset, Zenon

(* A sum is a number, and the empty sum is 0.                              *)
LEMMA TotalType ==
  ASSUME NEW S, IsFiniteSet(S), NEW f \in [S -> Nat]
  PROVE  Total(f) \in Nat
BY UnitsFinite, FS_CardinalityType DEF Total

LEMMA TotalZero ==
  ASSUME NEW S, NEW f \in [S -> Nat], \A x \in S : f[x] = 0
  PROVE  Total(f) = 0
<1>1. Units(f) = {}
  <2>. SUFFICES ASSUME NEW u \in Units(f) PROVE FALSE
    OBVIOUS
  <2>1. PICK x \in S : \E i \in 1 .. f[x] : u = <<x, i>>
    BY UnitsAre
  <2>. QED
    BY <2>1
<1>. QED
  BY <1>1, FS_EmptySet DEF Total

(* The sum without one summand.                                            *)
Rest(f, x) == Units(f) \ Slice(f, x)

LEMMA TotalSplit ==
  ASSUME NEW S, IsFiniteSet(S), NEW f \in [S -> Nat], NEW x \in S
  PROVE  /\ IsFiniteSet(Rest(f, x)) /\ Cardinality(Rest(f, x)) \in Nat
         /\ Total(f) = Cardinality(Rest(f, x)) + f[x]
<1>1. IsFiniteSet(Units(f)) /\ Cardinality(Units(f)) \in Nat
  BY UnitsFinite, FS_CardinalityType
<1>2. Units(f) \cap Slice(f, x) = Slice(f, x)
  <2>. SUFFICES ASSUME NEW u \in Slice(f, x) PROVE u \in Units(f)
    OBVIOUS
  <2>1. PICK i \in 1 .. f[x] : u = <<x, i>>
    BY DEF Slice
  <2>. QED
    BY <2>1, UnitsAre
<1>3. /\ IsFiniteSet(Rest(f, x))
      /\ Cardinality(Rest(f, x)) = Cardinality(Units(f)) - Cardinality(Slice(f, x))
  BY <1>1, <1>2, FS_Difference DEF Rest
<1>4. Cardinality(Rest(f, x)) \in Nat
  BY <1>3, FS_CardinalityType
<1>5. Cardinality(Slice(f, x)) = f[x] /\ f[x] \in Nat
  BY SliceCount
<1>. QED
  BY <1>1, <1>3, <1>4, <1>5 DEF Total

(* No summand is larger than the sum.                                      *)
LEMMA SummandAtMostTotal ==
  ASSUME NEW S, IsFiniteSet(S), NEW f \in [S -> Nat], NEW x \in S
  PROVE  f[x] <= Total(f)
BY TotalSplit

(* A sum changes by what its only changed summand changes.                 *)
LEMMA TotalOneChange ==
  ASSUME NEW S, IsFiniteSet(S), NEW f \in [S -> Nat], NEW g \in [S -> Nat], NEW x \in S,
         \A y \in S \ {x} : g[y] = f[y]
  PROVE  Total(g) + f[x] = Total(f) + g[x]
<1>1. ASSUME NEW h \in [S -> Nat], NEW u
      PROVE  u \in Rest(h, x) <=> \E y \in S \ {x} : \E i \in 1 .. h[y] : u = <<y, i>>
  <2>1. u \in Slice(h, x) <=> \E i \in 1 .. h[x] : u = <<x, i>>
    BY DEF Slice
  <2>2. u \in Units(h) <=> \E y \in S : \E i \in 1 .. h[y] : u = <<y, i>>
    BY UnitsAre
  <2>3. ASSUME u \in Rest(h, x) PROVE \E y \in S \ {x} : \E i \in 1 .. h[y] : u = <<y, i>>
    <3>1. PICK y \in S : \E i \in 1 .. h[y] : u = <<y, i>>
      BY <2>2, <2>3 DEF Rest
    <3>2. y # x
      BY <2>1, <2>3, <3>1 DEF Rest
    <3>. QED
      BY <3>1, <3>2
  <2>4. ASSUME NEW y \in S \ {x}, NEW i \in 1 .. h[y], u = <<y, i>> PROVE u \in Rest(h, x)
    <3>1. u \in Units(h)
      BY <2>2, <2>4
    <3>2. u \notin Slice(h, x)
      BY <2>1, <2>4
    <3>. QED
      BY <3>1, <3>2 DEF Rest
  <2>. QED
    BY <2>3, <2>4
<1>2. ASSUME NEW u PROVE u \in Rest(g, x) <=> u \in Rest(f, x)
  BY <1>1
<1>3. Rest(g, x) = Rest(f, x)
  BY <1>2
<1>4. Total(f) = Cardinality(Rest(f, x)) + f[x]
  BY TotalSplit
<1>5. Total(g) = Cardinality(Rest(g, x)) + g[x]
  BY TotalSplit
<1>6. Cardinality(Rest(f, x)) \in Nat /\ f[x] \in Nat /\ g[x] \in Nat
  BY TotalSplit
<1>. QED
  BY <1>3, <1>4, <1>5, <1>6

-----------------------------------------------------------------------------
(* The invariant.                                                          *)

(* The denominator of a swap's quotient does not wrap.                     *)
FeeFits == \A s \in Side : 1000 * Supply(s) < Word

(* No deposit that somebody can make now wraps the supply of shares.       *)
SharesFit == genuine =>
  \A p \in Person, amounts \in [Side -> Amount] : lp[p] # Null =>
    total_supply + lp_to_mint([s \in Side |-> Moved(balance[p][s], amounts[s])]) < Word

(* Tokens move between the accounts of the persons and the vault.          *)
Holdings(s) == [p \in Person |-> balance[p][s]]
Conserved ==
  /\ vault \in [Side -> Nat] /\ balance \in [Person -> [Side -> Nat]]
  /\ \A s \in Side : vault[s] + Total(Holdings(s)) = Supply(s)

Mirrored ==
  /\ pool \in BOOLEAN
  /\ reserve \in [Side -> U64] /\ total_supply \in U64
  /\ lp \in [Person -> U64 \cup {Null}]

SInv == Conserved /\ Mirrored /\ genuine \in BOOLEAN
PoolInv == SInv /\ VaultsCover /\ SharesAreSupply

USE SwapAssumption

-----------------------------------------------------------------------------
(* The arithmetic of the graphs.                                           *)
LEMMA ModIs ==
  ASSUME NEW m \in Nat \ {0}, NEW x \in Nat
  PROVE  x % m \in 0 .. m - 1 /\ x % m <= x /\ (x < m => x % m = x)
OBVIOUS

LEMMA WordIs == Word \in Nat \ {0} /\ \A s \in Side : Supply(s) \in Nat
<1>1. ASSUME NEW s \in Side PROVE Supply(s) \in Nat
  <2>1. [p \in Person |-> Held[p][s]] \in [Person -> Nat]
    OBVIOUS
  <2>. QED
    BY <2>1, TotalType DEF Supply
<1>2. "a" \in Side
  BY DEF Side
<1>. QED
  BY <1>1, <1>2

LEMMA PlusIs ==
  ASSUME NEW x \in Nat, NEW y \in Nat
  PROVE  Plus(x, y) \in U64 /\ (x + y < Word => Plus(x, y) = x + y)
<1>1. x + y \in Nat
  OBVIOUS
<1>. QED
  BY <1>1, ModIs, WordIs DEF Plus, U64

LEMMA TimesIs ==
  ASSUME NEW x \in Nat, NEW y \in Nat
  PROVE  /\ Times(x, y) \in U64 /\ Times(x, y) <= x * y
         /\ x * y < Word => Times(x, y) = x * y
<1>1. x * y \in Nat
  OBVIOUS
<1>. QED
  BY <1>1, ModIs, WordIs DEF Times, U64

LEMMA MinusIs ==
  ASSUME NEW x \in U64, NEW y \in U64
  PROVE  Minus(x, y) \in U64 /\ (y <= x => Minus(x, y) = x - y)
<1>1. x \in Nat /\ y \in Nat /\ x < Word /\ y < Word /\ Word \in Nat \ {0}
  BY WordIs DEF U64
<1>2. x + Word - y \in Nat
  BY <1>1
<1>3. Minus(x, y) \in 0 .. Word - 1
  BY <1>1, <1>2, ModIs DEF Minus
<1>4. ASSUME y <= x PROVE Minus(x, y) = x - y
  <2>1. x + Word - y = 1 * Word + (x - y) /\ x - y \in 0 .. Word - 1
    BY <1>1, <1>4
  <2>. QED
    BY <1>1, <2>1 DEF Minus
<1>. QED
  BY <1>3, <1>4 DEF U64

LEMMA OverIs ==
  ASSUME NEW x \in Nat, NEW y \in Nat
  PROVE  Over(x, y) \in Nat /\ Over(x, y) <= x /\ Over(x, y) * y <= x
<1>1. CASE y = 0
  BY <1>1 DEF Over
<1>2. CASE y # 0
  <2>1. x \div y \in Nat /\ x = y * (x \div y) + (x % y) /\ x % y \in 0 .. y - 1
    BY <1>2
  <2>2. x \div y <= y * (x \div y)
    BY <1>2, <2>1
  <2>3. (x \div y) * y <= x
    BY <2>1
  <2>. QED
    BY <1>2, <2>1, <2>2, <2>3 DEF Over
<1>. QED
  BY <1>1, <1>2

LEMMA MovedIs ==
  ASSUME NEW have \in Nat, NEW n \in Nat
  PROVE  /\ Moved(have, n) \in Nat /\ Moved(have, n) <= have
         /\ n <= have => Moved(have, n) = n
BY DEF Moved

-----------------------------------------------------------------------------
(* The curve.  An output rounded down, on an input less its fee, leaves    *)
(* the product of the reserves as large as it was.                         *)
LEMMA CurveHolds ==
  ASSUME NEW x \in Nat, NEW y \in Nat, NEW r \in Nat, NEW out \in Nat,
         out * (1000 * x + 997 * r) <= 997 * r * y, out <= y
  PROVE  (x + r) * (y - out) >= x * y
<1>1. r * out \in Nat /\ r * y \in Nat /\ x * out \in Nat /\ x * y \in Nat
  OBVIOUS
<1>2. r * out <= r * y
  OBVIOUS
<1>3. out * (1000 * x + 997 * r) = 1000 * (x * out) + 997 * (r * out)
  OBVIOUS
<1>4. 997 * r * y = 997 * (r * y)
  OBVIOUS
<1>5. 1000 * (x * out) + 1000 * (r * out) <= 1000 * (r * y)
  BY <1>1, <1>2, <1>3, <1>4
<1>6. x * out + r * out <= r * y
  BY <1>1, <1>5
<1>7. (x + r) * (y - out) = x * y + r * y - (x * out + r * out)
  OBVIOUS
<1>. QED
  BY <1>1, <1>6, <1>7

(* A quotient by at least x and y is at most that of x.                    *)
LEMMA QuotientBelow ==
  ASSUME NEW x \in Nat, NEW y \in Nat, NEW d \in Nat, NEW out \in Nat, x <= d,
         out * d <= x * y, d # 0
  PROVE  out <= y
<1>. SUFFICES ASSUME out > y PROVE FALSE
  OBVIOUS
<1>1. x * y <= d * y
  OBVIOUS
<1>2. out * d >= (y + 1) * d
  OBVIOUS
<1>3. (y + 1) * d = d * y + d
  OBVIOUS
<1>4. d * y \in Nat /\ x * y \in Nat /\ out * d \in Nat
  OBVIOUS
<1>. QED
  BY <1>1, <1>2, <1>3, <1>4

(* What swap_graph pays for a receipt r, while its denominator fits.       *)
Divisor(x, r) == 1000 * x + 997 * r

LEMMA SwapPays ==
  ASSUME NEW x \in U64, NEW y \in U64, NEW r \in Nat, NEW least \in Nat,
         Divisor(x, r) < Word
  PROVE  LET f == swap_graph(x, y, r, least)
         IN /\ f.final_in \in {0, r} /\ f.final_out \in 0 .. y
            /\ (x + f.final_in) * (y - f.final_out) >= x * y
<1>. DEFINE fee == Times(r, 997)
            d == Plus(Times(x, 1000), fee)
            n == Times(fee, y)
            out == Over(n, d)
<1>1. x \in Nat /\ y \in Nat
  BY WordIs DEF U64
<1>2. fee = 997 * r
  <2>1. r * 997 < Word /\ r * 997 = 997 * r
    BY <1>1, WordIs DEF Divisor
  <2>. QED
    BY <2>1, TimesIs
<1>3. d = Divisor(x, r) /\ 997 * r <= d /\ d \in Nat
  <2>1. x * 1000 < Word /\ x * 1000 = 1000 * x
    BY <1>1, WordIs DEF Divisor
  <2>2. Times(x, 1000) = 1000 * x
    BY <1>1, <2>1, TimesIs
  <2>3. d = Divisor(x, r)
    BY <1>1, <1>2, <2>2, PlusIs DEF Divisor
  <2>. QED
    BY <1>1, <2>3 DEF Divisor
<1>4. n \in Nat /\ n <= 997 * r * y
  <2>1. 997 * r \in Nat
    OBVIOUS
  <2>2. n <= (997 * r) * y /\ n \in U64
    BY <1>1, <1>2, <2>1, TimesIs
  <2>. QED
    BY <1>1, <2>2 DEF U64
<1>. HIDE DEF fee, d, n
<1>5. d \in Nat /\ out \in Nat /\ out * d <= n
  <2>1. \A v, w \in Nat : Over(v, w) \in Nat /\ Over(v, w) * w <= v
    BY OverIs
  <2>. QED
    BY <1>3, <1>4, <2>1
<1>6. out * d <= 997 * r * y
  <2>1. out * d \in Nat /\ 997 * r * y \in Nat
    BY <1>1, <1>5
  <2>. QED
    BY <1>3, <1>4, <1>5, <2>1
<1>7. out <= y
  <2>1. CASE d = 0
    BY <1>1, <2>1 DEF Over
  <2>2. CASE d # 0
    <3>. HIDE DEF out
    <3>1. 997 * r \in Nat
      OBVIOUS
    <3>2. out * d <= (997 * r) * y
      BY <1>6
    <3>. QED
      BY <1>1, <1>3, <1>5, <2>2, <3>1, <3>2, QuotientBelow
  <2>. QED
    BY <2>1, <2>2
<1>. HIDE DEF out
<1>8. (x + r) * (y - out) >= x * y
  BY <1>1, <1>3, <1>5, <1>6, <1>7, CurveHolds DEF Divisor
<1>9. swap_graph(x, y, r, least) =
        IF out >= least THEN [final_in |-> r, final_out |-> out]
        ELSE [final_in |-> 0, final_out |-> 0]
  BY DEF swap_graph, fee, d, n, out
<1>. QED
  BY <1>1, <1>5, <1>7, <1>8, <1>9

(* The quotient of both graphs: x * k over one more than y.                 *)
LEMMA PartIs ==
  ASSUME NEW x \in Nat, NEW k \in Nat, NEW y \in U64
  PROVE  LET part == Over(Times(x, k), Plus(y, 1))
         IN part \in U64 /\ part * (y + 1) <= x * k
<1>. DEFINE n == Times(x, k)
            d == Plus(y, 1)
            part == Over(n, d)
<1>1. n \in Nat /\ n < Word /\ n <= x * k
  <2>1. n \in U64 /\ n <= x * k
    BY TimesIs
  <2>. QED
    BY <2>1, WordIs DEF U64
<1>2. y \in Nat /\ y + 1 <= Word /\ Word \in Nat
  BY WordIs DEF U64
<1>3. d \in Nat /\ (y + 1 < Word => d = y + 1)
  <2>1. d \in U64 /\ (y + 1 < Word => d = y + 1)
    BY <1>2, PlusIs
  <2>. QED
    BY <2>1 DEF U64
<1>4. y + 1 = Word => d = 0
  BY WordIs DEF Plus
<1>. HIDE DEF n, d
<1>5. part \in Nat /\ part <= n /\ part * d <= n
  BY <1>1, <1>3, OverIs
<1>6. d = 0 => part = 0
  BY DEF Over
<1>. HIDE DEF part
<1>7. part \in U64
  BY <1>1, <1>2, <1>5 DEF U64
<1>8. CASE y + 1 < Word
  <2>1. part * d \in Nat /\ x * k \in Nat
    BY <1>3, <1>5
  <2>2. part * (y + 1) <= x * k
    BY <1>1, <1>3, <1>5, <1>8, <2>1
  <2>. QED
    BY <1>7, <2>2 DEF n, d, part
<1>9. CASE y + 1 = Word
  <2>1. part = 0 /\ x * k \in Nat
    BY <1>4, <1>6, <1>9
  <2>2. part * (y + 1) <= x * k
    BY <1>2, <2>1
  <2>. QED
    BY <1>7, <2>2 DEF n, d, part
<1>. QED
  BY <1>2, <1>8, <1>9

(* What add_liquidity mints is no larger share than either deposit's.      *)
LEMMA MintIs ==
  ASSUME Mirrored, NEW receipts \in [Side -> Nat]
  PROVE  /\ lp_to_mint(receipts) \in Nat
         /\ total_supply > 0 => \A s \in Side :
              lp_to_mint(receipts) * (reserve[s] + 1) <= receipts[s] * total_supply
<1>. DEFINE share(s) == Over(Times(receipts[s], total_supply), Plus(reserve[s], 1))
<1>1. total_supply \in Nat /\ "a" \in Side /\ "b" \in Side /\ \A s \in Side : reserve[s] \in Nat
  BY WordIs DEF Mirrored, U64, Side
<1>2. ASSUME NEW s \in Side
      PROVE  /\ share(s) \in Nat
             /\ share(s) * (reserve[s] + 1) <= receipts[s] * total_supply
  <2>1. receipts[s] \in Nat /\ reserve[s] \in U64
    BY DEF Mirrored
  <2>2. share(s) \in U64 /\ share(s) * (reserve[s] + 1) <= receipts[s] * total_supply
    BY <1>1, <2>1, PartIs
  <2>. QED
    BY <2>2 DEF U64
<1>3. lp_to_mint(receipts) =
        IF total_supply >= 1 THEN Smaller(share("a"), share("b")) ELSE receipts["a"]
  BY DEF lp_to_mint
<1>. HIDE DEF share
<1>4. lp_to_mint(receipts) \in Nat
  BY <1>1, <1>2, <1>3 DEF Smaller
<1>5. ASSUME total_supply > 0, NEW s \in Side
      PROVE  lp_to_mint(receipts) * (reserve[s] + 1) <= receipts[s] * total_supply
  <2>1. lp_to_mint(receipts) <= share(s)
    BY <1>1, <1>2, <1>3, <1>5 DEF Smaller, Side
  <2>2. lp_to_mint(receipts) * (reserve[s] + 1) <= share(s) * (reserve[s] + 1)
    BY <1>1, <1>2, <1>4, <2>1
  <2>3. lp_to_mint(receipts) * (reserve[s] + 1) \in Nat /\ share(s) * (reserve[s] + 1) \in Nat
        /\ receipts[s] * total_supply \in Nat
    BY <1>1, <1>2, <1>4
  <2>. QED
    BY <1>2, <1>5, <2>2, <2>3
<1>. QED
  BY <1>4, <1>5

(* What a burn of b of S shares takes out of a reserve R.                  *)
LEMMA ShareOutIs ==
  ASSUME NEW R \in U64, NEW S \in U64, NEW b \in Nat, b <= S
  PROVE  LET out == Over(Times(R, b), Plus(S, 1))
         IN out \in 0 .. R /\ out * S <= R * b
<1>. DEFINE out == Over(Times(R, b), Plus(S, 1))
<1>1. R \in Nat /\ S \in Nat
  BY WordIs DEF U64
<1>2. out \in U64 /\ out * (S + 1) <= R * b
  BY <1>1, PartIs
<1>. HIDE DEF out
<1>3. out \in Nat
  BY <1>2 DEF U64
<1>4. out <= R
  <2>1. b <= S + 1 /\ S + 1 # 0 /\ S + 1 \in Nat /\ R * b = b * R
    BY <1>1
  <2>2. out * (S + 1) <= b * R
    BY <1>2, <2>1
  <2>. QED
    BY <1>1, <1>3, <2>1, <2>2, QuotientBelow
<1>5. out * S <= R * b
  <2>1. out * (S + 1) = out * S + out
    BY <1>1, <1>3
  <2>2. out * S \in Nat /\ R * b \in Nat
    BY <1>1, <1>3
  <2>. QED
    BY <1>2, <1>3, <2>1, <2>2
<1>. QED
  BY <1>1, <1>3, <1>4, <1>5 DEF out

-----------------------------------------------------------------------------
(* Tokens that are there move between a person and the vaults.             *)
LEMMA ExchangeKeeps ==
  ASSUME Conserved, NEW p \in Person, NEW into \in [Side -> Nat], NEW out \in [Side -> Nat],
         \A s \in Side : into[s] <= balance[p][s] /\ out[s] <= vault[s],
         Exchange(p, into, out)
  PROVE  /\ Conserved'
         /\ \A s \in Side : /\ vault'[s] = vault[s] + into[s] - out[s]
                            /\ balance'[p][s] = balance[p][s] - into[s] + out[s]
<1>1. /\ vault' = [s \in Side |-> vault[s] + into[s] - out[s]]
      /\ balance'[p] = [s \in Side |-> balance[p][s] - into[s] + out[s]]
      /\ \A q \in Person \ {p} : balance'[q] = balance[q]
      /\ balance' = [q \in Person |-> balance'[q]]
  BY DEF Exchange, Conserved
<1>2. \A s \in Side : vault[s] \in Nat /\ balance[p][s] \in Nat
  BY DEF Conserved
<1>3. vault' \in [Side -> Nat]
  BY <1>1, <1>2
<1>4. balance' \in [Person -> [Side -> Nat]]
  <2>1. balance'[p] \in [Side -> Nat]
    BY <1>1, <1>2
  <2>. QED
    BY <1>1, <2>1 DEF Conserved
<1>5. ASSUME NEW s \in Side
      PROVE  vault'[s] + Total(Holdings(s)') = Supply(s)
  <2>1. /\ Holdings(s) \in [Person -> Nat] /\ Holdings(s)' \in [Person -> Nat]
        /\ Holdings(s)[p] = balance[p][s]
        /\ Holdings(s)'[p] = balance[p][s] - into[s] + out[s]
        /\ \A q \in Person \ {p} : Holdings(s)'[q] = Holdings(s)[q]
    BY <1>1, <1>4 DEF Holdings, Conserved
  <2>2. Total(Holdings(s)') + Holdings(s)[p] = Total(Holdings(s)) + Holdings(s)'[p]
    BY <2>1, TotalOneChange, SMTT(20)
  <2>3. Total(Holdings(s)) \in Nat /\ Total(Holdings(s)') \in Nat
    BY <2>1, TotalType
  <2>4. /\ vault'[s] = vault[s] + into[s] - out[s]
        /\ vault[s] \in Nat /\ balance[p][s] \in Nat /\ into[s] \in Nat /\ out[s] \in Nat
    BY <1>1, <1>2
  <2>5. vault[s] + Total(Holdings(s)) = Supply(s)
    BY DEF Conserved
  <2>6. Total(Holdings(s)') + into[s] = Total(Holdings(s)) + out[s]
    <3>1. Total(Holdings(s)') + balance[p][s]
            = Total(Holdings(s)) + (balance[p][s] - into[s] + out[s])
      BY <2>1, <2>2
    <3>2. \A t, u, b, i, o \in Nat : t + b = u + (b - i + o) => t + i = u + o
      BY SMTT(20)
    <3>3. balance[p][s] \in Nat /\ into[s] \in Nat /\ out[s] \in Nat
      BY <2>4
    <3>. HIDE SwapAssumption
    <3>. QED
      BY <2>3, <3>1, <3>2, <3>3
  <2>. HIDE SwapAssumption
  <2>. QED
    BY <2>3, <2>4, <2>5, <2>6
<1>6. Conserved'
  BY <1>3, <1>4, <1>5 DEF Conserved
<1>. QED
  BY <1>1, <1>6

(* Nobody has more than there is.                                          *)
LEMMA SidesFit ==
  ASSUME Conserved, NEW s \in Side
  PROVE  /\ vault[s] \in Nat /\ Supply(s) \in Nat /\ vault[s] <= Supply(s)
         /\ \A p \in Person : balance[p][s] \in Nat /\ vault[s] + balance[p][s] <= Supply(s)
<1>1. Holdings(s) \in [Person -> Nat] /\ vault[s] \in Nat
  BY DEF Holdings, Conserved
<1>2. Total(Holdings(s)) \in Nat /\ vault[s] + Total(Holdings(s)) = Supply(s)
  BY <1>1, TotalType DEF Conserved
<1>3. \A p \in Person : Holdings(s)[p] <= Total(Holdings(s)) /\ Holdings(s)[p] = balance[p][s]
                        /\ balance[p][s] \in Nat
  BY <1>1, SummandAtMostTotal DEF Holdings
<1>. QED
  BY <1>1, <1>2, <1>3, WordIs

LEMMA TypesFollow == SInv => TypeOK
<1>. SUFFICES ASSUME SInv PROVE TypeOK
  OBVIOUS
<1>1. ASSUME NEW s \in Side
      PROVE  vault[s] \in U64 /\ \A p \in Person : balance[p][s] \in U64
  <2>1. Supply(s) < Word /\ Word \in Nat
    BY WordIs
  <2>. QED
    BY <2>1, SidesFit DEF SInv, U64
<1>. QED
  BY <1>1 DEF SInv, Conserved, Mirrored, TypeOK

-----------------------------------------------------------------------------
(* What the two action properties ask of a step.                           *)
Worth ==
  total_supply > 0 =>
    IF total_supply' = total_supply
    THEN reserve["a"]' * reserve["b"]' >= reserve["a"] * reserve["b"]
    ELSE \A s \in Side : reserve[s]' * total_supply >= reserve[s] * total_supply'

Arrives ==
  \A s \in Side : reserve[s]' < reserve[s] =>
    \E p \in Person : balance[p][s]' = balance[p][s] + (reserve[s] - reserve[s]')

LEMMA SwapTypes ==
  ASSUME NEW x \in U64, NEW y \in U64, NEW r \in Nat, NEW least \in Nat
  PROVE  LET f == swap_graph(x, y, r, least)
         IN f.final_in \in {0, r} /\ f.final_out \in U64
<1>. DEFINE fee == Times(r, 997)
            d == Plus(Times(x, 1000), fee)
            n == Times(fee, y)
            out == Over(n, d)
<1>1. x \in Nat /\ y \in Nat
  BY WordIs DEF U64
<1>2. U64 \subseteq Nat
  BY WordIs DEF U64
<1>3. fee \in Nat /\ n \in U64 /\ d \in U64
  <2>1. (\A v, w \in Nat : Times(v, w) \in U64) /\ \A v, w \in Nat : Plus(v, w) \in U64
    <3>1. \A v, w \in Nat : Times(v, w) \in U64
      BY TimesIs
    <3>2. \A v, w \in Nat : Plus(v, w) \in U64
      BY PlusIs
    <3>. QED
      BY <3>1, <3>2
  <2>2. fee \in Nat /\ Times(x, 1000) \in Nat
    <3>1. 997 \in Nat /\ 1000 \in Nat
      OBVIOUS
    <3>2. Times(r, 997) \in U64 /\ Times(x, 1000) \in U64
      BY <1>1, <2>1, <3>1
    <3>3. \A v \in U64 : v \in Nat
      BY <1>2
    <3>. QED
      BY <3>2, <3>3
  <2>. HIDE DEF fee
  <2>3. n \in U64
    BY <1>1, <2>1, <2>2
  <2>4. d \in U64
    BY <2>1, <2>2
  <2>. QED
    BY <2>2, <2>3, <2>4
<1>4. swap_graph(x, y, r, least) =
        IF out >= least THEN [final_in |-> r, final_out |-> out]
        ELSE [final_in |-> 0, final_out |-> 0]
  BY DEF swap_graph, fee, d, n, out
<1>. HIDE DEF fee, d, n
<1>5. out \in Nat /\ out <= n
  <2>1. n \in Nat /\ d \in Nat
    BY <1>3 DEF U64
  <2>. QED
    BY <2>1, OverIs
<1>. HIDE DEF out
<1>6. out \in U64 /\ 0 \in U64
  BY <1>3, <1>5, WordIs DEF U64
<1>. QED
  BY <1>4, <1>6

(* A side and the other.                                                   *)
LEMMA TwoSides ==
  /\ "a" \in Side /\ "b" \in Side
  /\ \A s \in Side : /\ Across(s) \in Side /\ Across(s) # s /\ Side = {s, Across(s)}
                     /\ s = "a" \/ (s = "b" /\ Across(s) = "a")
                     /\ s = "a" => Across(s) = "b"
BY DEF Side, Across

LEMMA SwapStep ==
  ASSUME SInv, NEW p \in Person, NEW s \in Side, NEW n \in Amount, NEW least \in Amount \cup {0},
         swap(p, s, n, least, TRUE)
  PROVE  /\ SInv' /\ UNCHANGED <<total_supply, lp>>
         /\ genuine /\ FeeFits /\ VaultsCover => VaultsCover' /\ Worth /\ Arrives
<1>. DEFINE o == Across(s)
            receipt == Moved(balance[p][s], n)
            f == swap_graph(reserve[s], reserve[o], receipt, least)
            paid == Moved(vault[o], f.final_out)
            into == [t \in Side |-> IF t = s THEN receipt ELSE 0]
            out == [t \in Side |-> IF t = o THEN paid ELSE 0]
<1>1. /\ pool
      /\ reserve' = [reserve EXCEPT ![s] = Plus(@, f.final_in), ![o] = Minus(@, f.final_out)]
      /\ Exchange(p, into, out)
      /\ UNCHANGED <<pool, total_supply, lp>> /\ genuine' = (genuine /\ TRUE)
  BY DEF swap, ExchangeBy, Receipt
<1>2. o \in Side /\ o # s /\ Side = {s, o}
  BY TwoSides
<1>3. n \in Nat /\ least \in Nat
  BY DEF U64
<1>4. reserve[s] \in U64 /\ reserve[o] \in U64 /\ vault[o] \in Nat /\ balance[p][s] \in Nat
  BY <1>2 DEF SInv, Conserved, Mirrored
<1>5. receipt \in Nat /\ receipt <= balance[p][s]
  BY <1>3, <1>4, MovedIs
<1>. HIDE DEF receipt, o
<1>6. f.final_in \in {0, receipt} /\ f.final_out \in U64 /\ f.final_out \in Nat
  <2>1. f.final_in \in {0, receipt} /\ f.final_out \in U64
    BY <1>3, <1>4, <1>5, SwapTypes
  <2>. QED
    BY <2>1 DEF U64
<1>. HIDE DEF f
<1>7. paid \in Nat /\ paid <= vault[o] /\ (f.final_out <= vault[o] => paid = f.final_out)
  BY <1>4, <1>6, MovedIs
<1>. HIDE DEF paid
<1>8. /\ into \in [Side -> Nat] /\ out \in [Side -> Nat]
      /\ into[s] = receipt /\ into[o] = 0 /\ out[s] = 0 /\ out[o] = paid
  BY <1>2, <1>5, <1>7
<1>. HIDE DEF into, out
<1>9. /\ Conserved'
      /\ \A t \in Side : /\ vault'[t] = vault[t] + into[t] - out[t]
                         /\ balance'[p][t] = balance[p][t] - into[t] + out[t]
  <2>1. \A t \in Side : into[t] <= balance[p][t] /\ out[t] <= vault[t]
    <3>1. \A t \in Side : balance[p][t] \in Nat /\ vault[t] \in Nat
      BY DEF SInv, Conserved
    <3>. QED
      BY <1>2, <1>5, <1>7, <1>8, <3>1
  <2>. QED
    BY <1>1, <1>8, <2>1, ExchangeKeeps DEF SInv
<1>10. /\ reserve'[s] = Plus(reserve[s], f.final_in)
       /\ reserve'[o] = Minus(reserve[o], f.final_out)
       /\ reserve' \in [Side -> U64]
  <2>1. /\ reserve'[s] = Plus(reserve[s], f.final_in)
        /\ reserve'[o] = Minus(reserve[o], f.final_out)
        /\ reserve' = [t \in Side |-> reserve'[t]]
    BY <1>1, <1>2 DEF SInv, Mirrored
  <2>2. Plus(reserve[s], f.final_in) \in U64
    <3>1. reserve[s] \in Nat /\ f.final_in \in Nat
      BY <1>4, <1>5, <1>6 DEF U64
    <3>. QED
      BY <3>1, PlusIs
  <2>3. Minus(reserve[o], f.final_out) \in U64
    BY <1>4, <1>6, MinusIs
  <2>. QED
    BY <1>2, <2>1, <2>2, <2>3
<1>11. SInv'
  BY <1>1, <1>9, <1>10 DEF SInv, Mirrored
<1>12. ASSUME genuine, FeeFits, VaultsCover PROVE VaultsCover' /\ Worth /\ Arrives
  <2>. DEFINE x == reserve[s]
              y == reserve[o]
              i == f.final_in
              u == f.final_out
  <2>1. /\ x \in Nat /\ y \in Nat /\ x <= vault[s] /\ y <= vault[o] /\ vault[s] \in Nat
        /\ vault[s] + receipt <= Supply(s) /\ Supply(s) \in Nat
        /\ 1000 * Supply(s) < Word /\ Supply(s) < Word /\ Word \in Nat
    <3>1. x \in Nat /\ y \in Nat /\ x <= vault[s] /\ y <= vault[o]
      BY <1>2, <1>4, <1>12 DEF U64, VaultsCover
    <3>2. vault[s] \in Nat /\ vault[s] + balance[p][s] <= Supply(s) /\ Supply(s) \in Nat
      BY SidesFit DEF SInv
    <3>3. 1000 * Supply(s) < Word /\ Supply(s) < Word /\ Word \in Nat
      BY <1>12 DEF FeeFits
    <3>. QED
      BY <1>4, <1>5, <3>1, <3>2, <3>3
  <2>. HIDE DEF x, y, i, u
  <2>2. Divisor(x, receipt) < Word
    BY <1>5, <2>1 DEF Divisor
  <2>3. i \in {0, receipt} /\ u \in 0 .. y /\ (x + i) * (y - u) >= x * y
    <3>1. Divisor(reserve[s], receipt) < Word
      BY <2>2 DEF x
    <3>. QED
      BY <1>3, <1>4, <1>5, <3>1, SwapPays, ZenonT(60) DEF f, x, y, i, u
  <2>4. i \in Nat /\ u \in Nat /\ u <= y /\ i <= receipt
    BY <1>5, <2>1, <2>3
  <2>5. reserve'[s] = x + i
    <3>1. x + i < Word
      BY <1>5, <2>1, <2>4
    <3>2. Plus(x, i) = x + i
      BY <2>1, <2>4, <3>1, PlusIs
    <3>. QED
      BY <1>10, <3>2 DEF x, i
  <2>6. reserve'[o] = y - u
    <3>1. y \in U64 /\ u \in U64
      BY <1>4, <1>6 DEF y, u
    <3>2. Minus(y, u) = y - u
      BY <2>4, <3>1, MinusIs
    <3>. QED
      BY <1>10, <3>2 DEF y, u
  <2>7. paid = u
    <3>1. u <= vault[o]
      BY <1>4, <2>1, <2>4
    <3>. QED
      BY <1>7, <3>1 DEF u
  <2>8. vault'[s] = vault[s] + receipt /\ vault'[o] = vault[o] - u
    BY <1>2, <1>4, <1>5, <1>8, <1>9, <2>1, <2>4, <2>7
  <2>9. VaultsCover'
    <3>1. vault'[s] >= reserve'[s] /\ vault'[o] >= reserve'[o]
      BY <1>4, <1>5, <2>1, <2>4, <2>5, <2>6, <2>8
    <3>. QED
      BY <1>2, <3>1 DEF VaultsCover
  <2>10. Worth
    <3>1. total_supply' = total_supply
      BY <1>1
    <3>2. reserve'[s] * reserve'[o] >= reserve[s] * reserve[o]
      BY <2>3, <2>5, <2>6 DEF x, y
    <3>3. /\ reserve'[s] * reserve'[o] = reserve'[o] * reserve'[s]
          /\ reserve[s] * reserve[o] = reserve[o] * reserve[s]
      <4>1. \A v, w \in Nat : v * w = w * v
        OBVIOUS
      <4>2. reserve'[s] \in Nat /\ reserve'[o] \in Nat /\ reserve[s] \in Nat /\ reserve[o] \in Nat
        BY <1>4, <1>10, <1>2 DEF U64
      <4>. QED
        BY <4>1, <4>2
    <3>4. (s = "a" /\ o = "b") \/ (s = "b" /\ o = "a")
      BY TwoSides DEF o
    <3>. QED
      BY <3>1, <3>2, <3>3, <3>4 DEF Worth
  <2>11. Arrives
    <3>1. reserve'[s] >= reserve[s]
      BY <2>1, <2>4, <2>5 DEF x
    <3>2. balance'[p][o] = balance[p][o] + (reserve[o] - reserve'[o])
      <4>1. balance[p][o] \in Nat
        BY <1>2 DEF SInv, Conserved
      <4>2. balance'[p][o] = balance[p][o] - 0 + u
        BY <1>2, <1>8, <1>9, <2>7
      <4>3. reserve[o] - reserve'[o] = u
        BY <2>1, <2>4, <2>6 DEF y
      <4>. QED
        BY <2>4, <4>1, <4>2, <4>3
    <3>3. \A t \in Side : reserve'[t] < reserve[t] => t = o
      <4>1. reserve[s] \in Nat /\ reserve'[s] \in Nat
        BY <1>4, <1>10 DEF U64
      <4>. QED
        BY <1>2, <3>1, <4>1
    <3>. QED
      BY <3>2, <3>3 DEF Arrives
  <2>. QED
    BY <2>9, <2>10, <2>11
<1>. QED
  BY <1>1, <1>11, <1>12

(* The shares, when one position changes.                                  *)
LEMMA SharesAre ==
  ASSUME Mirrored
  PROVE  /\ Shares \in [Person -> Nat] /\ Total(Shares) \in Nat
         /\ \A p \in Person : /\ lp[p] # Null => Shares[p] = lp[p]
                              /\ lp[p] = Null => Shares[p] = 0
                              /\ Shares[p] <= Total(Shares)
<1>1. Shares \in [Person -> Nat]
  BY WordIs DEF Shares, Mirrored, U64
<1>. QED
  BY <1>1, TotalType, SummandAtMostTotal DEF Shares

LEMMA SharesChange ==
  ASSUME Mirrored, NEW p \in Person, NEW n \in Nat, lp' = [lp EXCEPT ![p] = n]
  PROVE  Total(Shares') + Shares[p] = Total(Shares) + n /\ Total(Shares') \in Nat
<1>1. Shares \in [Person -> Nat]
  BY SharesAre
<1>2. /\ Shares' \in [Person -> Nat] /\ Shares'[p] = n
      /\ \A q \in Person \ {p} : Shares'[q] = Shares[q]
  <2>1. lp' \in [Person -> Nat \cup {Null}] /\ lp'[p] = n
        /\ \A q \in Person \ {p} : lp'[q] = lp[q]
    BY WordIs DEF Mirrored, U64
  <2>. QED
    BY <2>1 DEF Shares
<1>3. Total(Shares') + Shares[p] = Total(Shares) + Shares'[p]
  <2>1. Shares' \in [Person -> Nat] /\ \A q \in Person \ {p} : Shares'[q] = Shares[q]
    BY <1>2
  <2>2. IsFiniteSet(Person)
    OBVIOUS
  <2>. HIDE SwapAssumption
  <2>. QED
    BY <1>1, <2>1, <2>2, TotalOneChange
<1>. QED
  BY <1>2, <1>3, TotalType

(* What p deposited, while nothing wraps.                                  *)
Deposited(p) ==
  \E receipts \in [Side -> Nat] :
    /\ \A s \in Side : /\ receipts[s] <= balance[p][s]
                       /\ reserve'[s] = reserve[s] + receipts[s]
    /\ total_supply' = total_supply + lp_to_mint(receipts)

LEMMA AddStep ==
  ASSUME SInv, NEW p \in Person, NEW amounts \in [Side -> Amount],
         add_liquidity(p, amounts, TRUE)
  PROVE  /\ SInv'
         /\ genuine /\ SharesFit /\ VaultsCover /\ SharesAreSupply =>
              VaultsCover' /\ SharesAreSupply' /\ Worth /\ Arrives /\ Deposited(p)
<1>. DEFINE receipts == [s \in Side |-> Moved(balance[p][s], amounts[s])]
            m == lp_to_mint(receipts)
            none == [s \in Side |-> 0]
<1>1. /\ pool /\ lp[p] # Null
      /\ reserve' = [s \in Side |-> Plus(reserve[s], receipts[s])]
      /\ total_supply' = Plus(total_supply, m)
      /\ lp' = [lp EXCEPT ![p] = Plus(lp[p], m)]
      /\ Exchange(p, receipts, none)
      /\ UNCHANGED pool /\ genuine' = (genuine /\ TRUE)
  BY DEF add_liquidity, ExchangeBy, Receipt
<1>2. U64 \subseteq Nat /\ Amount \subseteq Nat /\ Word \in Nat
  BY WordIs DEF U64
<1>3. \A s \in Side : reserve[s] \in Nat /\ vault[s] \in Nat /\ balance[p][s] \in Nat
  BY <1>2 DEF SInv, Conserved, Mirrored
<1>4. receipts \in [Side -> Nat] /\ \A s \in Side : receipts[s] <= balance[p][s]
  <2>1. ASSUME NEW s \in Side
        PROVE  Moved(balance[p][s], amounts[s]) \in Nat
               /\ Moved(balance[p][s], amounts[s]) <= balance[p][s]
    <3>1. amounts[s] \in Nat /\ balance[p][s] \in Nat
      BY <1>2, <1>3
    <3>. QED
      BY <3>1, MovedIs
  <2>. QED
    BY <2>1
<1>5. genuine /\ SharesFit => total_supply + m < Word
  BY <1>1 DEF SharesFit
<1>. HIDE DEF receipts
<1>6. /\ m \in Nat
      /\ total_supply > 0 =>
           \A s \in Side : m * (reserve[s] + 1) <= receipts[s] * total_supply
  BY <1>4, MintIs DEF SInv
<1>. HIDE DEF m
<1>7. none \in [Side -> Nat] /\ \A s \in Side : none[s] = 0
  OBVIOUS
<1>. HIDE DEF none
<1>8. Conserved' /\ \A s \in Side : vault'[s] = vault[s] + receipts[s]
  <2>1. \A s \in Side : receipts[s] <= balance[p][s] /\ none[s] <= vault[s]
    BY <1>3, <1>4, <1>7
  <2>2. Conserved' /\ \A s \in Side : vault'[s] = vault[s] + receipts[s] - none[s]
    BY <1>1, <1>4, <1>7, <2>1, ExchangeKeeps DEF SInv
  <2>. QED
    BY <1>3, <1>4, <1>7, <2>2
<1>9. total_supply \in Nat /\ lp[p] \in Nat
  BY <1>1, <1>2 DEF SInv, Mirrored
<1>10. SInv'
  <2>1. reserve' \in [Side -> U64]
    BY <1>1, <1>3, <1>4, PlusIs
  <2>2. Plus(total_supply, m) \in U64 /\ Plus(lp[p], m) \in U64
    BY <1>6, <1>9, PlusIs
  <2>. QED
    BY <1>1, <1>8, <2>1, <2>2 DEF SInv, Mirrored
<1>11. ASSUME genuine, SharesFit, VaultsCover, SharesAreSupply
       PROVE  VaultsCover' /\ SharesAreSupply' /\ Worth /\ Arrives /\ Deposited(p)
  <2>1. ASSUME NEW s \in Side
        PROVE  reserve'[s] = reserve[s] + receipts[s] /\ reserve[s] <= vault[s]
    <3>1. vault[s] + balance[p][s] <= Supply(s) /\ Supply(s) \in Nat /\ Supply(s) < Word
      BY SidesFit DEF SInv
    <3>2. reserve[s] + receipts[s] < Word /\ reserve[s] <= vault[s]
      BY <1>2, <1>3, <1>4, <1>11, <3>1 DEF VaultsCover
    <3>3. reserve[s] \in Nat /\ receipts[s] \in Nat
      BY <1>3, <1>4
    <3>4. Plus(reserve[s], receipts[s]) = reserve[s] + receipts[s]
      BY <3>2, <3>3, PlusIs
    <3>. QED
      BY <1>1, <3>2, <3>4
  <2>2. VaultsCover'
    BY <1>3, <1>4, <1>8, <2>1 DEF VaultsCover
  <2>3. Shares[p] = lp[p] /\ lp[p] <= total_supply /\ total_supply = Total(Shares)
    BY <1>1, <1>11, SharesAre DEF SInv, SharesAreSupply
  <2>4. total_supply + m < Word
    BY <1>5, <1>11
  <2>5. total_supply' = total_supply + m
    BY <1>1, <1>6, <1>9, <2>4, PlusIs
  <2>6. lp' = [lp EXCEPT ![p] = lp[p] + m] /\ lp[p] + m \in Nat
    <3>1. lp[p] + m < Word
      BY <1>2, <1>6, <1>9, <2>3, <2>4
    <3>2. Plus(lp[p], m) = lp[p] + m
      BY <1>6, <1>9, <3>1, PlusIs
    <3>. QED
      BY <1>1, <1>6, <1>9, <3>2
  <2>7. SharesAreSupply'
    <3>1. Total(Shares') + Shares[p] = Total(Shares) + (lp[p] + m) /\ Total(Shares') \in Nat
      BY <2>6, SharesChange DEF SInv
    <3>2. Total(Shares') + lp[p] = total_supply + (lp[p] + m)
      BY <2>3, <3>1
    <3>3. Total(Shares') = total_supply + m
      BY <1>6, <1>9, <3>1, <3>2, SMTT(20)
    <3>. QED
      BY <2>5, <3>3 DEF SharesAreSupply
  <2>8. Worth
    <3>. SUFFICES ASSUME total_supply > 0 PROVE
           IF total_supply' = total_supply
           THEN reserve'["a"] * reserve'["b"] >= reserve["a"] * reserve["b"]
           ELSE \A s \in Side : reserve'[s] * total_supply >= reserve[s] * total_supply'
      BY DEF Worth
    <3>1. reserve'["a"] * reserve'["b"] >= reserve["a"] * reserve["b"]
      <4>1. \A x, y, i, j \in Nat : (x + i) * (y + j) >= x * y
        <5>. SUFFICES ASSUME NEW x \in Nat, NEW y \in Nat, NEW i \in Nat, NEW j \in Nat
                      PROVE  (x + i) * (y + j) >= x * y
          OBVIOUS
        <5>1. (x + i) * (y + j) = x * y + x * j + i * y + i * j
          OBVIOUS
        <5>2. x * y \in Nat /\ x * j \in Nat /\ i * y \in Nat /\ i * j \in Nat
          OBVIOUS
        <5>. QED
          BY <5>1, <5>2
      <4>. QED
        <5>1. "a" \in Side /\ "b" \in Side
          BY TwoSides
        <5>2. reserve'["a"] = reserve["a"] + receipts["a"]
              /\ reserve'["b"] = reserve["b"] + receipts["b"]
          BY <2>1, <5>1
        <5>3. /\ reserve["a"] \in Nat /\ reserve["b"] \in Nat
              /\ receipts["a"] \in Nat /\ receipts["b"] \in Nat
          BY <1>3, <1>4, <5>1
        <5>. QED
          BY <4>1, <5>2, <5>3
    <3>2. ASSUME NEW s \in Side
          PROVE  reserve'[s] * total_supply >= reserve[s] * total_supply'
      <4>. DEFINE x == reserve[s]
                  r == receipts[s]
      <4>1. m * (x + 1) <= r * total_supply /\ x \in Nat /\ r \in Nat
        BY <1>3, <1>4, <1>6
      <4>2. reserve'[s] = x + r
        BY <2>1
      <4>. HIDE DEF x, r
      <4>3. (x + r) * total_supply = x * total_supply + r * total_supply
        BY <1>9, <4>1
      <4>4. x * (total_supply + m) = x * total_supply + x * m
        BY <1>6, <1>9, <4>1
      <4>5. m * (x + 1) = x * m + m
        BY <1>6, <4>1
      <4>6. x * total_supply \in Nat /\ r * total_supply \in Nat /\ x * m \in Nat
        BY <1>6, <1>9, <4>1
      <4>7. (x + r) * total_supply >= x * (total_supply + m)
        BY <1>6, <4>1, <4>3, <4>4, <4>5, <4>6
      <4>. QED
        BY <2>5, <4>2, <4>7 DEF x
    <3>. QED
      BY <3>1, <3>2
  <2>9. Arrives
    BY <1>3, <1>4, <2>1 DEF Arrives
  <2>10. Deposited(p)
    BY <1>4, <2>1, <2>5 DEF Deposited, m
  <2>. QED
    BY <2>2, <2>7, <2>8, <2>9, <2>10
<1>. QED
  BY <1>10, <1>11

Withdrawn == total_supply' <= total_supply /\ \A s \in Side : reserve'[s] <= reserve[s]

LEMMA RemoveStep ==
  ASSUME SInv, NEW p \in Person, NEW n \in Amount, remove_liquidity(p, n, TRUE)
  PROVE  /\ SInv'
         /\ genuine /\ VaultsCover /\ SharesAreSupply =>
              VaultsCover' /\ SharesAreSupply' /\ Worth /\ Arrives /\ Withdrawn
<1>. DEFINE burned == Moved(lp[p], n)
            out == shares_out(p, n)
            paid == [s \in Side |-> Moved(vault[s], out[s])]
            none == [s \in Side |-> 0]
<1>1. /\ pool /\ lp[p] # Null
      /\ reserve' = [s \in Side |-> Minus(reserve[s], out[s])]
      /\ total_supply' = Minus(total_supply, burned)
      /\ lp' = [lp EXCEPT ![p] = Minus(lp[p], burned)]
      /\ Exchange(p, none, paid)
      /\ UNCHANGED pool /\ genuine' = (genuine /\ TRUE)
  BY DEF remove_liquidity, ExchangeBy
<1>2. U64 \subseteq Nat /\ Amount \subseteq U64 /\ Word \in Nat /\ 0 \in U64
  BY WordIs DEF U64
<1>3. /\ \A s \in Side : reserve[s] \in U64 /\ vault[s] \in Nat /\ balance[p][s] \in Nat
      /\ total_supply \in U64 /\ lp[p] \in U64
  BY <1>1, <1>2 DEF SInv, Conserved, Mirrored
<1>4. n \in U64 /\ n \in Nat /\ lp[p] \in Nat /\ total_supply \in Nat
  BY <1>2, <1>3
<1>5. burned \in U64 /\ burned \in Nat /\ burned <= lp[p] /\ (lp[p] >= n => burned = n)
  BY <1>2, <1>4 DEF Moved
<1>6. \A s \in Side : out[s] =
        IF lp[p] >= n THEN Over(Times(reserve[s], n), Plus(total_supply, 1)) ELSE 0
  BY DEF shares_out
<1>. HIDE DEF burned, out
<1>7. \A s \in Side : out[s] \in U64 /\ out[s] \in Nat
  <2>1. ASSUME NEW s \in Side
        PROVE  Over(Times(reserve[s], n), Plus(total_supply, 1)) \in U64
    <3>1. reserve[s] \in Nat
      BY <1>2, <1>3
    <3>. QED
      BY <1>3, <1>4, <3>1, PartIs
  <2>. QED
    BY <1>2, <1>6, <2>1
<1>8. /\ paid \in [Side -> Nat] /\ \A s \in Side : paid[s] <= vault[s]
      /\ \A s \in Side : out[s] <= vault[s] => paid[s] = out[s]
  <2>1. ASSUME NEW s \in Side
        PROVE  /\ Moved(vault[s], out[s]) \in Nat /\ Moved(vault[s], out[s]) <= vault[s]
               /\ out[s] <= vault[s] => Moved(vault[s], out[s]) = out[s]
    <3>1. vault[s] \in Nat /\ out[s] \in Nat
      BY <1>3, <1>7
    <3>. QED
      BY <3>1, MovedIs
  <2>. QED
    BY <2>1
<1>. HIDE DEF paid
<1>9. none \in [Side -> Nat] /\ \A s \in Side : none[s] = 0
  OBVIOUS
<1>. HIDE DEF none
<1>10. Conserved' /\ \A s \in Side : /\ vault'[s] = vault[s] - paid[s]
                                     /\ balance'[p][s] = balance[p][s] + paid[s]
  <2>1. \A s \in Side : none[s] <= balance[p][s] /\ paid[s] <= vault[s]
    BY <1>3, <1>8, <1>9
  <2>2. Conserved' /\ \A s \in Side : /\ vault'[s] = vault[s] + none[s] - paid[s]
                                      /\ balance'[p][s] = balance[p][s] - none[s] + paid[s]
    BY <1>1, <1>8, <1>9, <2>1, ExchangeKeeps DEF SInv
  <2>3. \A s \in Side : none[s] = 0 /\ paid[s] \in Nat /\ vault[s] \in Nat /\ balance[p][s] \in Nat
    BY <1>3, <1>8, <1>9
  <2>. HIDE SwapAssumption
  <2>. QED
    BY <2>2, <2>3
<1>11. SInv'
  <2>1. reserve' \in [Side -> U64]
    BY <1>1, <1>3, <1>7, MinusIs
  <2>2. Minus(total_supply, burned) \in U64 /\ Minus(lp[p], burned) \in U64
    BY <1>3, <1>5, MinusIs
  <2>. QED
    BY <1>1, <1>10, <2>1, <2>2 DEF SInv, Mirrored
<1>12. ASSUME genuine, VaultsCover, SharesAreSupply
       PROVE  VaultsCover' /\ SharesAreSupply' /\ Worth /\ Arrives /\ Withdrawn
  <2>1. Shares[p] = lp[p] /\ lp[p] <= total_supply /\ total_supply = Total(Shares)
    BY <1>1, <1>12, SharesAre DEF SInv, SharesAreSupply
  <2>2. ASSUME NEW s \in Side
        PROVE  out[s] <= reserve[s] /\ out[s] * total_supply <= reserve[s] * burned
    <3>1. CASE lp[p] >= n
      <4>1. n <= total_supply
        BY <1>4, <2>1, <3>1
      <4>2. out[s] = Over(Times(reserve[s], n), Plus(total_supply, 1)) /\ burned = n
        BY <1>5, <1>6, <3>1
      <4>3. reserve[s] \in U64
        BY <1>3
      <4>4. LET u == Over(Times(reserve[s], n), Plus(total_supply, 1))
            IN u \in 0 .. reserve[s] /\ u * total_supply <= reserve[s] * n
        BY <1>3, <1>4, <4>1, <4>3, ShareOutIs
      <4>5. out[s] \in 0 .. reserve[s] /\ out[s] * total_supply <= reserve[s] * burned
        BY <4>2, <4>4
      <4>. QED
        BY <1>2, <1>3, <4>5
    <3>2. CASE ~(lp[p] >= n)
      <4>1. out[s] = 0
        BY <1>6, <3>2
      <4>2. reserve[s] \in Nat
        BY <1>2, <1>3
      <4>3. reserve[s] * burned \in Nat
        BY <1>5, <4>2
      <4>. QED
        BY <1>4, <4>1, <4>2, <4>3
    <3>. QED
      BY <3>1, <3>2
  <2>3. ASSUME NEW s \in Side
        PROVE  reserve'[s] = reserve[s] - out[s] /\ paid[s] = out[s] /\ reserve[s] <= vault[s]
               /\ reserve[s] \in Nat
    <3>1. Minus(reserve[s], out[s]) = reserve[s] - out[s]
      BY <1>3, <1>7, <2>2, MinusIs
    <3>2. reserve[s] <= vault[s] /\ reserve[s] \in Nat
      BY <1>2, <1>3, <1>12 DEF VaultsCover
    <3>3. out[s] <= vault[s]
      BY <1>3, <1>7, <2>2, <3>2
    <3>. QED
      BY <1>1, <1>8, <3>1, <3>2, <3>3
  <2>4. VaultsCover'
    BY <1>3, <1>7, <1>10, <2>2, <2>3 DEF VaultsCover
  <2>5. total_supply' = total_supply - burned
    <3>1. burned <= total_supply
      BY <1>4, <1>5, <2>1
    <3>. QED
      BY <1>1, <1>3, <1>5, <3>1, MinusIs
  <2>6. lp' = [lp EXCEPT ![p] = lp[p] - burned] /\ lp[p] - burned \in Nat
    <3>1. Minus(lp[p], burned) = lp[p] - burned
      BY <1>3, <1>5, MinusIs
    <3>. QED
      BY <1>1, <1>4, <1>5, <3>1
  <2>7. SharesAreSupply'
    <3>1. Total(Shares') + Shares[p] = Total(Shares) + (lp[p] - burned) /\ Total(Shares') \in Nat
      BY <2>6, SharesChange DEF SInv
    <3>2. Total(Shares') + lp[p] = total_supply + (lp[p] - burned)
      BY <2>1, <3>1
    <3>3. Total(Shares') = total_supply - burned
      BY <1>4, <1>5, <3>1, <3>2
    <3>. QED
      BY <2>5, <3>3 DEF SharesAreSupply
  <2>8. Worth
    <3>. SUFFICES ASSUME total_supply > 0 PROVE
           IF total_supply' = total_supply
           THEN reserve'["a"] * reserve'["b"] >= reserve["a"] * reserve["b"]
           ELSE \A s \in Side : reserve'[s] * total_supply >= reserve[s] * total_supply'
      BY DEF Worth
    <3>1. CASE total_supply' = total_supply
      <4>1. burned = 0
        BY <1>4, <1>5, <2>5, <3>1
      <4>2. ASSUME NEW s \in Side PROVE reserve'[s] = reserve[s]
        <5>1. reserve[s] * burned = 0 /\ out[s] \in Nat /\ reserve[s] \in Nat
          BY <1>7, <2>3, <4>1
        <5>2. out[s] * total_supply <= 0
          BY <2>2, <5>1
        <5>3. out[s] = 0
          <6>1. \A v, t \in Nat : t > 0 /\ v * t <= 0 => v = 0
            OBVIOUS
          <6>2. total_supply \in Nat
            BY <1>4
          <6>. HIDE SwapAssumption
          <6>. QED
            BY <5>1, <5>2, <6>1, <6>2
        <5>. QED
          BY <2>3, <5>1, <5>3
      <4>3. reserve'["a"] * reserve'["b"] = reserve["a"] * reserve["b"]
        BY <4>2, TwoSides
      <4>4. reserve["a"] * reserve["b"] \in Nat
        <5>1. reserve["a"] \in Nat /\ reserve["b"] \in Nat
          BY <2>3, TwoSides
        <5>. QED
          BY <5>1
      <4>. QED
        BY <3>1, <4>3, <4>4
    <3>2. ASSUME NEW s \in Side
          PROVE  reserve'[s] * total_supply >= reserve[s] * total_supply'
      <4>. DEFINE x == reserve[s]
                  u == out[s]
      <4>1. u * total_supply <= x * burned /\ x \in Nat /\ u \in Nat
        BY <1>7, <2>2, <2>3
      <4>2. reserve'[s] = x - u
        BY <2>3
      <4>. HIDE DEF x, u
      <4>3. (x - u) * total_supply = x * total_supply - u * total_supply
        BY <1>4, <4>1
      <4>4. x * (total_supply - burned) = x * total_supply - x * burned
        BY <1>4, <1>5, <4>1
      <4>5. x * total_supply \in Nat /\ u * total_supply \in Nat /\ x * burned \in Nat
        BY <1>4, <1>5, <4>1
      <4>6. (x - u) * total_supply >= x * (total_supply - burned)
        BY <4>1, <4>3, <4>4, <4>5
      <4>. QED
        BY <2>5, <4>2, <4>6 DEF x
    <3>. QED
      BY <3>1, <3>2
  <2>9. Arrives
    <3>1. ASSUME NEW s \in Side
          PROVE  balance'[p][s] = balance[p][s] + (reserve[s] - reserve'[s])
      <4>1. reserve[s] - reserve'[s] = out[s]
        BY <1>7, <2>2, <2>3
      <4>. QED
        BY <1>10, <2>3, <4>1
    <3>. QED
      BY <3>1 DEF Arrives
  <2>10. Withdrawn
    BY <1>4, <1>5, <1>7, <2>3, <2>5 DEF Withdrawn
  <2>. QED
    BY <2>4, <2>7, <2>8, <2>9, <2>10
<1>. QED
  BY <1>11, <1>12

(* A step that leaves the mirrors, and takes nothing out of a vault.       *)
LEMMA StillStep ==
  ASSUME SInv, genuine, UNCHANGED <<reserve, total_supply>>
  PROVE  /\ Worth /\ Arrives
         /\ VaultsCover /\ (\A s \in Side : vault'[s] >= vault[s] /\ vault'[s] \in Nat)
              => VaultsCover'
<1>1. \A s \in Side : reserve[s] \in Nat /\ vault[s] \in Nat
  BY WordIs DEF SInv, Conserved, Mirrored, U64
<1>2. Worth
  <2>1. reserve["a"] \in Nat /\ reserve["b"] \in Nat
    BY <1>1, TwoSides
  <2>2. reserve["a"] * reserve["b"] \in Nat
    BY <2>1
  <2>. QED
    BY <2>2 DEF Worth
<1>3. Arrives
  BY <1>1 DEF Arrives
<1>. QED
  BY <1>1, <1>2, <1>3 DEF VaultsCover

LEMMA TransferStep ==
  ASSUME SInv, NEW p \in Person, NEW s \in Side, NEW n \in Amount, transfer(p, s, n)
  PROVE  /\ SInv' /\ UNCHANGED <<reserve, total_supply, lp, genuine>>
         /\ \A t \in Side : vault'[t] >= vault[t] /\ vault'[t] \in Nat
<1>. DEFINE into == [t \in Side |-> IF t = s THEN Moved(balance[p][s], n) ELSE 0]
            none == [t \in Side |-> 0]
<1>1. Exchange(p, into, none) /\ UNCHANGED <<pool, reserve, total_supply, lp, genuine>>
  BY DEF transfer
<1>2. \A t \in Side : vault[t] \in Nat /\ balance[p][t] \in Nat
  BY DEF SInv, Conserved
<1>3. Moved(balance[p][s], n) \in Nat /\ Moved(balance[p][s], n) <= balance[p][s]
  <2>1. n \in Nat /\ balance[p][s] \in Nat
    BY <1>2 DEF U64
  <2>. QED
    BY <2>1, MovedIs
<1>4. /\ into \in [Side -> Nat] /\ none \in [Side -> Nat]
      /\ \A t \in Side : into[t] <= balance[p][t] /\ none[t] = 0
  BY <1>2, <1>3
<1>. HIDE DEF into, none
<1>5. Conserved' /\ \A t \in Side : vault'[t] = vault[t] + into[t] - none[t]
  <2>1. \A t \in Side : into[t] <= balance[p][t] /\ none[t] <= vault[t]
    BY <1>2, <1>4
  <2>. QED
    BY <1>1, <1>4, <2>1, ExchangeKeeps DEF SInv
<1>6. \A t \in Side : vault'[t] >= vault[t] /\ vault'[t] \in Nat
  BY <1>2, <1>4, <1>5
<1>. QED
  BY <1>1, <1>5, <1>6 DEF SInv, Mirrored

LEMMA InitHolds == Init => PoolInv
<1>. SUFFICES ASSUME Init PROVE PoolInv
  OBVIOUS
<1>1. 0 \in U64
  BY WordIs DEF U64
<1>2. ASSUME NEW s \in Side PROVE vault[s] + Total(Holdings(s)) = Supply(s)
  <2>1. vault[s] = 0 /\ Total(Holdings(s)) = Supply(s)
    BY DEF Init, Holdings, Supply
  <2>. QED
    BY <2>1, WordIs
<1>3. Conserved
  BY <1>2 DEF Conserved, Init
<1>4. Mirrored
  BY <1>1 DEF Mirrored, Init
<1>5. VaultsCover
  BY DEF VaultsCover, Init
<1>6. Shares \in [Person -> Nat] /\ \A p \in Person : Shares[p] = 0
  BY DEF Shares, Init
<1>7. SharesAreSupply
  BY <1>6, TotalZero DEF SharesAreSupply, Init
<1>. QED
  BY <1>3, <1>4, <1>5, <1>7 DEF PoolInv, SInv, Init

(* The steps of other instructions do not touch the pool's state.          *)
LEMMA CreateStep ==
  ASSUME SInv, create_pool(TRUE) \/ \E p \in Person : create_lp_position(p)
  PROVE  /\ SInv' /\ UNCHANGED <<reserve, total_supply, vault>> /\ Shares' = Shares
<1>1. 0 \in U64
  BY WordIs DEF U64
<1>2. CASE create_pool(TRUE)
  BY <1>2 DEF create_pool, SInv, Conserved, Holdings, Mirrored, Shares
<1>3. CASE \E p \in Person : create_lp_position(p)
  <2>1. PICK p \in Person : create_lp_position(p)
    BY <1>3
  <2>2. /\ UNCHANGED <<pool, vault, reserve, total_supply, balance, genuine>>
        /\ lp[p] = Null /\ lp' = [lp EXCEPT ![p] = 0]
    BY <2>1 DEF create_lp_position
  <2>3. Shares' = Shares
    <3>1. lp \in [Person -> U64 \cup {Null}] /\ Null \notin Nat
      BY DEF SInv, Mirrored
    <3>2. lp'[p] = 0 /\ \A q \in Person \ {p} : lp'[q] = lp[q]
      BY <2>2, <3>1
    <3>. QED
      BY <2>2, <3>1, <3>2 DEF Shares
  <2>. QED
    BY <1>1, <2>2, <2>3 DEF SInv, Conserved, Holdings, Mirrored
<1>. QED
  BY <1>2, <1>3

(* The instructions that call the token, by whether they name its program. *)
Called(ours) ==
  \/ create_pool(ours)
  \/ \E p \in Person, s \in Side, n \in Amount, least \in Amount \cup {0} :
       swap(p, s, n, least, ours)
  \/ \E p \in Person, amounts \in [Side -> Amount] : add_liquidity(p, amounts, ours)
  \/ \E p \in Person, n \in Amount : remove_liquidity(p, n, ours)

LEMMA NextIs ==
  ASSUME Next
  PROVE  \/ Called(TRUE) \/ Called(FALSE)
         \/ \E p \in Person : create_lp_position(p)
         \/ \E p \in Person, s \in Side, n \in Amount : transfer(p, s, n)
<1>1. ASSUME NEW ours \in BOOLEAN, Called(ours) PROVE Called(TRUE) \/ Called(FALSE)
  BY <1>1
<1>. QED
  BY <1>1 DEF Next, Called

(* A call that names another program moves no token; what the graphs make  *)
(* of its receipts are words all the same.                                 *)
LEMMA ForeignStep ==
  ASSUME SInv, Called(FALSE)
  PROVE  SInv' /\ ~genuine'
<1>1. U64 \subseteq Nat /\ Amount \subseteq U64 /\ Amount \subseteq Nat /\ 0 \in U64
  BY WordIs DEF U64
<1>2. /\ \A s \in Side : reserve[s] \in U64 /\ reserve[s] \in Nat
      /\ total_supply \in U64 /\ total_supply \in Nat
      /\ \A p \in Person : lp[p] # Null => lp[p] \in U64 /\ lp[p] \in Nat
  BY <1>1 DEF SInv, Mirrored
<1>3. ASSUME UNCHANGED <<vault, balance>>, Mirrored', genuine' = FALSE
      PROVE  SInv' /\ ~genuine'
  <2>1. Conserved'
    BY <1>3 DEF SInv, Conserved, Holdings
  <2>. QED
    BY <1>3, <2>1 DEF SInv
<1>4. CASE create_pool(FALSE)
  BY <1>3, <1>4 DEF create_pool, SInv, Mirrored
<1>5. ASSUME NEW p \in Person, NEW s \in Side, NEW n \in Amount, NEW least \in Amount \cup {0},
             swap(p, s, n, least, FALSE)
      PROVE  SInv' /\ ~genuine'
  <2>. DEFINE o == Across(s)
              f == swap_graph(reserve[s], reserve[o], n, least)
  <2>1. /\ reserve' = [reserve EXCEPT ![s] = Plus(@, f.final_in), ![o] = Minus(@, f.final_out)]
        /\ UNCHANGED <<vault, balance, pool, total_supply, lp>> /\ genuine' = FALSE
    BY <1>5 DEF swap, ExchangeBy, Receipt
  <2>2. o \in Side /\ o # s /\ Side = {s, o}
    BY TwoSides
  <2>3. n \in Nat /\ least \in Nat
    BY <1>1
  <2>. HIDE DEF o
  <2>4. f.final_in \in {0, n} /\ f.final_out \in U64
    BY <1>2, <2>2, <2>3, SwapTypes
  <2>. HIDE DEF f
  <2>5. Plus(reserve[s], f.final_in) \in U64 /\ Minus(reserve[o], f.final_out) \in U64
    <3>1. f.final_in \in Nat
      BY <2>3, <2>4
    <3>2. Plus(reserve[s], f.final_in) \in U64
      BY <1>2, <3>1, PlusIs
    <3>. QED
      BY <1>2, <2>2, <2>4, <3>2, MinusIs
  <2>6. reserve' \in [Side -> U64]
    BY <2>1, <2>2, <2>5 DEF SInv, Mirrored
  <2>. QED
    BY <1>3, <2>1, <2>6 DEF SInv, Mirrored
<1>6. ASSUME NEW p \in Person, NEW amounts \in [Side -> Amount], add_liquidity(p, amounts, FALSE)
      PROVE  SInv' /\ ~genuine'
  <2>. DEFINE receipts == [s \in Side |-> amounts[s]]
              m == lp_to_mint(receipts)
  <2>1. /\ lp[p] # Null
        /\ reserve' = [s \in Side |-> Plus(reserve[s], receipts[s])]
        /\ total_supply' = Plus(total_supply, m)
        /\ lp' = [lp EXCEPT ![p] = Plus(lp[p], m)]
        /\ UNCHANGED <<vault, balance, pool>> /\ genuine' = FALSE
    BY <1>6 DEF add_liquidity, ExchangeBy, Receipt
  <2>2. receipts \in [Side -> Nat]
    BY <1>1
  <2>. HIDE DEF receipts
  <2>3. m \in Nat
    BY <2>2, MintIs DEF SInv
  <2>. HIDE DEF m
  <2>4. Plus(total_supply, m) \in U64 /\ Plus(lp[p], m) \in U64
    BY <1>2, <2>1, <2>3, PlusIs
  <2>5. reserve' \in [Side -> U64]
    BY <1>2, <2>1, <2>2, PlusIs
  <2>. QED
    BY <1>3, <2>1, <2>4, <2>5 DEF SInv, Mirrored
<1>7. ASSUME NEW p \in Person, NEW n \in Amount, remove_liquidity(p, n, FALSE)
      PROVE  SInv' /\ ~genuine'
  <2>. DEFINE burned == Moved(lp[p], n)
              out == shares_out(p, n)
  <2>1. /\ lp[p] # Null
        /\ reserve' = [s \in Side |-> Minus(reserve[s], out[s])]
        /\ total_supply' = Minus(total_supply, burned)
        /\ lp' = [lp EXCEPT ![p] = Minus(lp[p], burned)]
        /\ UNCHANGED <<vault, balance, pool>> /\ genuine' = FALSE
    BY <1>7 DEF remove_liquidity, ExchangeBy
  <2>2. burned \in U64
    BY <1>1 DEF Moved
  <2>3. ASSUME NEW s \in Side PROVE out[s] \in U64
    <3>1. Over(Times(reserve[s], n), Plus(total_supply, 1)) \in U64
      BY <1>1, <1>2, PartIs
    <3>. QED
      BY <1>1, <3>1 DEF shares_out
  <2>. HIDE DEF burned, out
  <2>4. reserve' \in [Side -> U64]
    BY <1>2, <2>1, <2>3, MinusIs
  <2>5. Minus(total_supply, burned) \in U64 /\ Minus(lp[p], burned) \in U64
    BY <1>2, <2>1, <2>2, MinusIs
  <2>. QED
    BY <1>3, <2>1, <2>4, <2>5 DEF SInv, Mirrored
<1>. QED
  BY <1>4, <1>5, <1>6, <1>7 DEF Called

(* A call of the token's own program records nothing.                      *)
LEMMA GenuineStep ==
  ASSUME SInv, Called(TRUE)
  PROVE  genuine' = genuine
BY DEF SInv, Called, create_pool, swap, add_liquidity, remove_liquidity, ExchangeBy

LEMMA StepKeepsTypes == SInv /\ [Next]_swapVars => SInv'
<1>. SUFFICES ASSUME SInv, [Next]_swapVars PROVE SInv'
  OBVIOUS
<1>1. CASE UNCHANGED swapVars
  BY <1>1 DEF swapVars, accountVars, SInv, Conserved, Holdings, Mirrored
<1>2. CASE Called(TRUE)
  BY <1>2, CreateStep, SwapStep, AddStep, RemoveStep DEF Called
<1>3. CASE Next /\ ~Called(TRUE)
  BY <1>3, NextIs, CreateStep, ForeignStep, TransferStep
<1>. QED
  BY <1>1, <1>2, <1>3

LEMMA StepIsSound ==
  ASSUME FeeFits, SharesFit, PoolInv, [Next]_swapVars
  PROVE  PoolInv' /\ (genuine' => genuine /\ Worth /\ Arrives)
<1>1. SInv /\ VaultsCover /\ SharesAreSupply
  BY DEF PoolInv
<1>2. SInv'
  BY <1>1, StepKeepsTypes
<1>3. \A s \in Side : vault[s] \in Nat
  BY <1>1 DEF SInv, Conserved
<1>4. CASE ~genuine'
  BY <1>2, <1>4 DEF PoolInv, VaultsCover, SharesAreSupply
<1>. SUFFICES ASSUME genuine' PROVE PoolInv' /\ genuine /\ Worth /\ Arrives
  BY <1>4
<1>5. CASE UNCHANGED swapVars
  <2>1. UNCHANGED <<reserve, total_supply, vault, lp, genuine>>
    BY <1>5 DEF swapVars, accountVars
  <2>. QED
    BY <1>1, <1>2, <1>3, <2>1, StillStep DEF PoolInv, SharesAreSupply, Shares
<1>6. CASE Called(TRUE)
  <2>1. genuine
    BY <1>1, <1>6, GenuineStep
  <2>2. CASE create_pool(TRUE)
    <3>1. UNCHANGED <<reserve, total_supply, vault>> /\ Shares' = Shares
      BY <1>1, <2>2, CreateStep
    <3>. QED
      BY <1>1, <1>2, <1>3, <2>1, <3>1, StillStep DEF PoolInv, SharesAreSupply
  <2>3. CASE \E p \in Person, s \in Side, n \in Amount, least \in Amount \cup {0} :
               swap(p, s, n, least, TRUE)
    <3>1. UNCHANGED <<total_supply, lp>> /\ VaultsCover' /\ Worth /\ Arrives
      BY <1>1, <2>1, <2>3, SwapStep
    <3>. QED
      BY <1>1, <1>2, <2>1, <3>1 DEF PoolInv, SharesAreSupply, Shares
  <2>4. CASE \E p \in Person, amounts \in [Side -> Amount] : add_liquidity(p, amounts, TRUE)
    BY <1>1, <2>1, <2>4, AddStep DEF PoolInv
  <2>5. CASE \E p \in Person, n \in Amount : remove_liquidity(p, n, TRUE)
    BY <1>1, <2>1, <2>5, RemoveStep DEF PoolInv
  <2>. QED
    BY <1>6, <2>2, <2>3, <2>4, <2>5 DEF Called
<1>7. CASE \E p \in Person : create_lp_position(p)
  <2>1. UNCHANGED <<reserve, total_supply, vault>> /\ Shares' = Shares /\ genuine' = genuine
    BY <1>1, <1>7, CreateStep DEF create_lp_position
  <2>. QED
    BY <1>1, <1>2, <1>3, <2>1, StillStep DEF PoolInv, SharesAreSupply
<1>8. CASE \E p \in Person, s \in Side, n \in Amount : transfer(p, s, n)
  <2>1. /\ UNCHANGED <<reserve, total_supply, lp, genuine>>
        /\ \A t \in Side : vault'[t] >= vault[t] /\ vault'[t] \in Nat
    BY <1>1, <1>8, TransferStep
  <2>. QED
    BY <1>1, <1>2, <2>1, StillStep DEF PoolInv, SharesAreSupply, Shares
<1>9. ~Called(FALSE)
  BY <1>1, ForeignStep
<1>. QED
  BY <1>5, <1>6, <1>7, <1>8, <1>9, NextIs

-----------------------------------------------------------------------------
(* Types, for every pool: what is stored always fits in a word.            *)
THEOREM SwapTypeCorrect == Spec => []TypeOK
<1>1. Init => SInv
  BY InitHolds DEF PoolInv
<1>2. SInv /\ [Next]_swapVars => SInv'
  BY StepKeepsTypes
<1>. QED
  BY <1>1, <1>2, TypesFollow, PTL DEF Spec

LEMMA PoolInvHolds == FeeFits => (Spec /\ []SharesFit => []PoolInv)
<1>. SUFFICES ASSUME FeeFits PROVE Spec /\ []SharesFit => []PoolInv
  OBVIOUS
<1>1. SharesFit /\ PoolInv /\ [Next]_swapVars => PoolInv'
  BY StepIsSound
<1>. QED
  BY <1>1, InitHolds, PTL DEF Spec

(* While calls name the token's program, the vaults hold what the mirrors  *)
(* say: every payout a graph promises can be made.                         *)
THEOREM VaultsCovered == FeeFits => (Spec /\ []SharesFit => []VaultsCover)
<1>1. PoolInv => VaultsCover
  BY DEF PoolInv
<1>. QED
  BY <1>1, PoolInvHolds, PTL

(* As long, the shares of all positions are the total supply.              *)
THEOREM SharesCounted == FeeFits => (Spec /\ []SharesFit => []SharesAreSupply)
<1>1. PoolInv => SharesAreSupply
  BY DEF PoolInv
<1>. QED
  BY <1>1, PoolInvHolds, PTL

(* A swap never makes the product of the reserves smaller, nor a deposit   *)
(* or a withdrawal the reserves behind a share.                            *)
THEOREM WorthKept == FeeFits => (Spec /\ []SharesFit => ShareKeepsWorth)
<1>. SUFFICES ASSUME FeeFits PROVE Spec /\ []SharesFit => ShareKeepsWorth
  OBVIOUS
<1>1. SharesFit /\ PoolInv /\ [Next]_swapVars => (genuine' => Worth)
  BY StepIsSound
<1>2. (genuine' => Worth) => [ genuine' /\ total_supply > 0 =>
      IF total_supply' = total_supply
      THEN reserve["a"]' * reserve["b"]' >= reserve["a"] * reserve["b"]
      ELSE \A s \in Side : reserve[s]' * total_supply >= reserve[s] * total_supply' ]_swapVars
  BY DEF Worth
<1>. QED
  BY <1>1, <1>2, PoolInvHolds, PTL DEF Spec, ShareKeepsWorth

(* Somebody gets what a mirror loses.                                      *)
THEOREM PayoutsMade == FeeFits => (Spec /\ []SharesFit => PayoutsArrive)
<1>. SUFFICES ASSUME FeeFits PROVE Spec /\ []SharesFit => PayoutsArrive
  OBVIOUS
<1>1. SharesFit /\ PoolInv /\ [Next]_swapVars => (genuine' => Arrives)
  BY StepIsSound
<1>2. (genuine' => Arrives) => [ genuine' => \A s \in Side : reserve[s]' < reserve[s] =>
        \E p \in Person : balance[p][s]' = balance[p][s] + (reserve[s] - reserve[s]') ]_swapVars
  BY DEF Arrives
<1>. QED
  BY <1>1, <1>2, PoolInvHolds, PTL DEF Spec, PayoutsArrive

-----------------------------------------------------------------------------
(* When shares fit.  The first deposit mints at most its tokens; then the  *)
(* square of the shares grows no faster than the product of the reserves.  *)
(* With at most Most tokens on a side there are never more than            *)
(* 2 * Most^2 shares.                                                      *)
Most == Larger(Supply("a"), Supply("b"))
SmallPool == 1000 * Most < Word /\ 2 * (Most * Most) < Word

(* t shares of reserves x and y, in a pool of at most m tokens a side.     *)
Fewer(m, t, x, y) ==
  t > 0 => IF x * y = 0 THEN t <= m ELSE t * t <= 4 * (m * m) * (x * y)

FewShares == genuine => Fewer(Most, total_supply, reserve["a"], reserve["b"])

LEMMA ProductMonotone ==
  ASSUME NEW x \in Nat, NEW y \in Nat, NEW u \in Nat, NEW v \in Nat, x <= u, y <= v
  PROVE  x * y <= u * v
<1>1. x * y <= u * y
  OBVIOUS
<1>2. u * y <= u * v
  OBVIOUS
<1>3. x * y \in Nat /\ u * y \in Nat /\ u * v \in Nat
  OBVIOUS
<1>. QED
  BY <1>1, <1>2, <1>3

LEMMA Cancel ==
  ASSUME NEW x \in Nat, NEW y \in Nat, NEW k \in Nat, k > 0, x * k <= y * k
  PROVE  x <= y
<1>. SUFFICES ASSUME x > y PROVE FALSE
  OBVIOUS
<1>1. (y + 1) * k <= x * k
  OBVIOUS
<1>2. (y + 1) * k = y * k + k
  OBVIOUS
<1>3. x * k \in Nat /\ y * k \in Nat
  OBVIOUS
<1>. QED
  BY <1>1, <1>2, <1>3

LEMMA FewerMeans ==
  ASSUME NEW m \in Nat, NEW t \in Nat, NEW x \in Nat, NEW y \in Nat, x <= m, y <= m,
         Fewer(m, t, x, y)
  PROVE  t <= 2 * (m * m)
<1>. DEFINE q == m * m
<1>1. q \in Nat /\ x * y \in Nat /\ m <= q
  OBVIOUS
<1>2. x * y <= q
  BY ProductMonotone
<1>. HIDE DEF q
<1>3. CASE t = 0 \/ x * y = 0
  BY <1>1, <1>3 DEF Fewer, q
<1>4. CASE t > 0 /\ x * y # 0
  <2>1. t * t <= 4 * q * (x * y)
    BY <1>4 DEF Fewer, q
  <2>2. (4 * q) * (x * y) <= (4 * q) * q
    <3>1. 4 * q \in Nat
      BY <1>1
    <3>. QED
      BY <1>1, <1>2, <3>1, ProductMonotone
  <2>3. t * t <= (2 * q) * (2 * q)
    <3>1. (2 * q) * (2 * q) = (4 * q) * q
      BY <1>1
    <3>2. t * t \in Nat /\ (4 * q) * (x * y) \in Nat /\ (4 * q) * q \in Nat
      BY <1>1
    <3>. QED
      BY <2>1, <2>2, <3>1, <3>2
  <2>4. ASSUME t > 2 * q PROVE FALSE
    <3>1. 2 * q + 1 \in Nat /\ 2 * q + 1 <= t /\ 2 * q \in Nat
      BY <1>1, <2>4
    <3>2. (2 * q + 1) * (2 * q + 1) <= t * t
      BY <3>1, ProductMonotone
    <3>3. (2 * q + 1) * (2 * q + 1) = (2 * q) * (2 * q) + 4 * q + 1
      BY <1>1
    <3>4. (2 * q) * (2 * q) \in Nat /\ t * t \in Nat
      BY <1>1
    <3>. QED
      BY <1>1, <2>3, <3>2, <3>3, <3>4
  <2>. QED
    BY <1>1, <2>4 DEF q
<1>. QED
  BY <1>1, <1>3, <1>4

(* A larger product lets there be more shares.                             *)
LEMMA FewerGrows ==
  ASSUME NEW m \in Nat, NEW t \in Nat, NEW x \in Nat, NEW y \in Nat, NEW u \in Nat, NEW v \in Nat,
         Fewer(m, t, x, y), t > 0 => u * v >= x * y
  PROVE  Fewer(m, t, u, v)
<1>. SUFFICES ASSUME t > 0 PROVE Fewer(m, t, u, v)
  BY DEF Fewer
<1>. DEFINE p == x * y
            q == u * v
            k == 4 * (m * m)
<1>1. p \in Nat /\ q \in Nat /\ k \in Nat /\ q >= p
  OBVIOUS
<1>2. Fewer(m, t, x, y) <=> (IF p = 0 THEN t <= m ELSE t * t <= k * p)
  BY DEF Fewer
<1>3. Fewer(m, t, u, v) <=> (IF q = 0 THEN t <= m ELSE t * t <= k * q)
  BY DEF Fewer
<1>4. CASE p = 0 /\ q > 0
  <2>1. t * t <= m * m
    BY <1>2, <1>4, ProductMonotone
  <2>2. m * m <= k * q
    <3>. HIDE DEF p, q
    <3>1. m * m \in Nat /\ m * m <= k
      <4>1. m * m \in Nat
        OBVIOUS
      <4>. QED
        BY <4>1
    <3>. HIDE DEF k
    <3>2. (m * m) * 1 <= k * q
      BY <1>1, <1>4, <3>1, ProductMonotone
    <3>. QED
      BY <3>1, <3>2
  <2>. HIDE DEF p, q, k
  <2>3. t * t \in Nat /\ m * m \in Nat /\ k * q \in Nat
    BY <1>1
  <2>. QED
    BY <1>3, <1>4, <2>1, <2>2, <2>3
<1>5. CASE p > 0
  <2>. HIDE DEF p, q, k
  <2>1. k * p <= k * q
    BY <1>1, ProductMonotone
  <2>2. t * t \in Nat /\ k * p \in Nat /\ k * q \in Nat
    BY <1>1
  <2>. QED
    BY <1>1, <1>2, <1>3, <1>5, <2>1, <2>2
<1>6. CASE q = 0
  <2>. HIDE DEF p, q, k
  <2>. QED
    BY <1>1, <1>2, <1>3, <1>6
<1>. QED
  BY <1>1, <1>4, <1>5, <1>6

(* Shares that grow no faster than both reserves, square against product.  *)
LEMMA Squares ==
  ASSUME NEW s \in Nat, NEW t \in Nat, NEW x \in Nat, NEW y \in Nat, NEW u \in Nat, NEW v \in Nat,
         NEW k \in Nat, s * x <= t * u, s * y <= t * v, t * t <= k * (x * y), x * y > 0
  PROVE  s * s <= k * (u * v)
<1>. DEFINE p == x * y
            q == u * v
            S == s * s
            T == t * t
<1>1. p \in Nat /\ q \in Nat /\ S \in Nat /\ T \in Nat
  OBVIOUS
<1>2. S * p <= T * q
  <2>1. s * x \in Nat /\ s * y \in Nat /\ t * u \in Nat /\ t * v \in Nat
    OBVIOUS
  <2>2. (s * x) * (s * y) <= (t * u) * (t * v)
    BY <2>1, ProductMonotone
  <2>3. (s * x) * (s * y) = S * p /\ (t * u) * (t * v) = T * q
    OBVIOUS
  <2>. QED
    BY <2>2, <2>3
<1>3. T <= k * p /\ p > 0
  OBVIOUS
<1>. HIDE DEF p, q, S, T
<1>4. T * q <= (k * p) * q
  <2>1. k * p \in Nat /\ q <= q
    BY <1>1
  <2>. QED
    BY <1>1, <1>3, <2>1, ProductMonotone
<1>5. (k * p) * q = (k * q) * p
  BY <1>1
<1>6. S * p <= (k * q) * p
  <2>1. S * p \in Nat /\ T * q \in Nat /\ (k * p) * q \in Nat
    BY <1>1
  <2>. QED
    BY <1>2, <1>4, <1>5, <2>1
<1>7. S <= k * q
  <2>1. k * q \in Nat
    BY <1>1
  <2>. QED
    BY <1>1, <1>3, <1>6, <2>1, Cancel
<1>. QED
  BY <1>7 DEF S, q

LEMMA ShareGrows ==
  ASSUME NEW t \in Nat, NEW x \in Nat, NEW a \in Nat, NEW n \in Nat, n * (x + 1) <= a * t
  PROVE  (t + n) * x <= t * (x + a) /\ t + n <= t * (x + a + 1)
<1>1. n * (x + 1) = n * x + n /\ (t + n) * x = t * x + n * x
  OBVIOUS
<1>2. t * (x + a) = t * x + a * t /\ t * (x + a + 1) = t * x + a * t + t
  OBVIOUS
<1>3. n * x \in Nat /\ t * x \in Nat /\ a * t \in Nat
  OBVIOUS
<1>. QED
  BY <1>1, <1>2, <1>3

LEMMA FewerDeposit ==
  ASSUME NEW m \in Nat, NEW t \in Nat, NEW x \in Nat, NEW y \in Nat, NEW a \in Nat, NEW b \in Nat,
         NEW n \in Nat, a <= m, Fewer(m, t, x, y), t = 0 => n = a,
         t > 0 => n * (x + 1) <= a * t /\ n * (y + 1) <= b * t
  PROVE  Fewer(m, t + n, x + a, y + b)
<1>. DEFINE u == x + a
            v == y + b
            s == t + n
            k == 4 * (m * m)
<1>1. u \in Nat /\ v \in Nat /\ s \in Nat /\ k \in Nat /\ u * v \in Nat /\ x * y \in Nat
  OBVIOUS
<1>2. CASE t = 0
  <2>1. s = a
    BY <1>2
  <2>2. Fewer(m, a, 0, 0)
    BY DEF Fewer
  <2>3. 0 \in Nat /\ u * v >= 0 * 0
    BY <1>1
  <2>. HIDE DEF u, v, s
  <2>4. Fewer(m, a, u, v)
    BY <1>1, <2>2, <2>3, FewerGrows
  <2>. QED
    BY <2>1, <2>4 DEF u, v, s
<1>3. CASE t > 0
  <2>1. n * (x + 1) <= a * t /\ n * (y + 1) <= b * t
    BY <1>3
  <2>2. s * x <= t * u /\ s <= t * (u + 1) /\ s * y <= t * v /\ s <= t * (v + 1)
    BY <2>1, ShareGrows
  <2>3. CASE x * y > 0
    <3>1. t * t <= k * (x * y)
      BY <1>3, <2>3 DEF Fewer
    <3>. HIDE DEF u, v, s, k
    <3>2. s * s <= k * (u * v)
      BY <1>1, <2>2, <2>3, <3>1, Squares
    <3>3. u * v > 0
      <4>1. x <= u /\ y <= v
        BY DEF u, v
      <4>2. x * y <= u * v
        BY <1>1, <4>1, ProductMonotone
      <4>. QED
        BY <1>1, <2>3, <4>2
    <3>. QED
      BY <1>1, <3>2, <3>3 DEF Fewer, u, v, s, k
  <2>4. CASE x * y = 0
    <3>1. t <= m
      BY <1>3, <2>4 DEF Fewer
    <3>2. CASE u * v = 0
      <4>1. u = 0 \/ v = 0
        BY <1>1, <3>2
      <4>2. a = 0 \/ b = 0
        BY <4>1
      <4>3. n = 0
        <5>1. a * t = 0 \/ b * t = 0
          BY <4>2
        <5>2. n * (x + 1) <= 0 \/ n * (y + 1) <= 0
          BY <2>1, <5>1
        <5>3. n * (x + 1) = n * x + n /\ n * (y + 1) = n * y + n
          OBVIOUS
        <5>4. n * x \in Nat /\ n * y \in Nat
          OBVIOUS
        <5>. QED
          BY <5>2, <5>3, <5>4
      <4>4. s = t
        BY <4>3
      <4>. QED
        BY <3>1, <3>2, <4>4 DEF Fewer
    <3>3. CASE u * v > 0
      <4>1. u >= 1 /\ v >= 1
        <5>. HIDE DEF u, v
        <5>1. u # 0 /\ v # 0
          BY <1>1, <3>3
        <5>. QED
          BY <1>1, <5>1
      <4>. HIDE DEF u, v, s
      <4>2. t * (u + 1) <= m * (2 * u) /\ t * (v + 1) <= m * (2 * v)
        <5>1. u + 1 \in Nat /\ 2 * u \in Nat /\ u + 1 <= 2 * u
          BY <1>1, <4>1
        <5>2. v + 1 \in Nat /\ 2 * v \in Nat /\ v + 1 <= 2 * v
          BY <1>1, <4>1
        <5>. QED
          BY <3>1, <5>1, <5>2, ProductMonotone
      <4>3. m * (2 * u) \in Nat /\ m * (2 * v) \in Nat /\ t * (u + 1) \in Nat /\ t * (v + 1) \in Nat
        BY <1>1
      <4>4. s <= m * (2 * u) /\ s <= m * (2 * v)
        BY <1>1, <2>2, <4>2, <4>3
      <4>5. s * s <= (m * (2 * u)) * (m * (2 * v))
        BY <1>1, <4>3, <4>4, ProductMonotone
      <4>6. (m * (2 * u)) * (m * (2 * v)) = k * (u * v)
        BY <1>1
      <4>. QED
        BY <1>1, <3>3, <4>5, <4>6 DEF Fewer, u, v, s, k
    <3>. QED
      BY <1>1, <3>2, <3>3
  <2>. QED
    BY <1>1, <2>3, <2>4
<1>. QED
  BY <1>2, <1>3

LEMMA FewerWithdrawal ==
  ASSUME NEW m \in Nat, NEW t \in Nat, NEW x \in Nat, NEW y \in Nat, NEW u \in Nat, NEW v \in Nat,
         NEW s \in Nat, Fewer(m, t, x, y), s <= t, u <= x, v <= y,
         t > 0 => u * t >= x * s /\ v * t >= y * s
  PROVE  Fewer(m, s, u, v)
<1>. SUFFICES ASSUME s > 0 PROVE Fewer(m, s, u, v)
  BY DEF Fewer
<1>. DEFINE k == 4 * (m * m)
<1>1. x * y \in Nat /\ u * v \in Nat /\ k \in Nat /\ t > 0 /\ u * v <= x * y
  BY ProductMonotone
<1>2. CASE x * y = 0
  <2>1. u * v = 0 /\ t <= m
    BY <1>1, <1>2 DEF Fewer
  <2>. QED
    BY <2>1 DEF Fewer
<1>3. CASE x * y > 0
  <2>1. t * t <= k * (x * y)
    BY <1>1, <1>3 DEF Fewer
  <2>2. s * x <= t * u /\ s * y <= t * v
    <3>1. s * x = x * s /\ t * u = u * t /\ s * y = y * s /\ t * v = v * t
      OBVIOUS
    <3>. QED
      BY <1>1, <3>1
  <2>. HIDE DEF k
  <2>3. s * s <= k * (u * v)
    BY <1>1, <1>3, <2>1, <2>2, Squares
  <2>4. u * v > 0
    <3>1. s * s > 0
      OBVIOUS
    <3>2. u * v = 0 => k * (u * v) = 0
      BY <1>1
    <3>. QED
      BY <1>1, <2>3, <3>1, <3>2
  <2>. QED
    BY <2>3, <2>4 DEF Fewer, k
<1>. QED
  BY <1>1, <1>2, <1>3

LEMMA MostIs == Most \in Nat /\ \A s \in Side : Supply(s) <= Most
<1>1. \A s \in Side : Supply(s) \in Nat
  BY WordIs
<1>2. Supply("a") \in Nat /\ Supply("b") \in Nat
  BY <1>1, TwoSides
<1>3. Most \in Nat /\ Supply("a") <= Most /\ Supply("b") <= Most
  BY <1>2 DEF Most, Larger
<1>. QED
  BY <1>3 DEF Side

LEMMA SmallFees == SmallPool => FeeFits
<1>. SUFFICES ASSUME SmallPool, NEW s \in Side PROVE 1000 * Supply(s) < Word
  BY DEF FeeFits
<1>1. Supply(s) \in Nat /\ Supply(s) <= Most /\ Most \in Nat /\ Word \in Nat
  BY MostIs, WordIs
<1>2. 1000 * Most < Word
  BY DEF SmallPool
<1>. QED
  BY <1>1, <1>2

LEMMA DepositKeepsFew ==
  ASSUME genuine, PoolInv, FewShares, NEW p \in Person, NEW receipts \in [Side -> Nat],
         \A s \in Side : receipts[s] <= balance[p][s]
  PROVE  /\ Fewer(Most, total_supply + lp_to_mint(receipts),
                  reserve["a"] + receipts["a"], reserve["b"] + receipts["b"])
         /\ \A s \in Side : reserve[s] + receipts[s] <= Most
<1>1. SInv /\ VaultsCover /\ Mirrored /\ Conserved
  BY DEF PoolInv, SInv
<1>2. \A s \in Side : /\ receipts[s] \in Nat /\ reserve[s] \in Nat /\ receipts[s] <= Most
                      /\ reserve[s] + receipts[s] <= Most
  <2>1. ASSUME NEW s \in Side
        PROVE  /\ receipts[s] \in Nat /\ reserve[s] \in Nat /\ receipts[s] <= Most
               /\ reserve[s] + receipts[s] <= Most
    <3>1. /\ vault[s] \in Nat /\ Supply(s) \in Nat /\ balance[p][s] \in Nat
          /\ vault[s] + balance[p][s] <= Supply(s)
      BY <1>1, SidesFit
    <3>2. Supply(s) <= Most /\ Most \in Nat
      BY MostIs
    <3>3. reserve[s] \in Nat /\ reserve[s] <= vault[s]
      BY <1>1, WordIs DEF Mirrored, VaultsCover, U64
    <3>4. receipts[s] \in Nat /\ receipts[s] <= balance[p][s]
      OBVIOUS
    <3>. HIDE SwapAssumption
    <3>. QED
      BY <3>1, <3>2, <3>3, <3>4
  <2>. QED
    BY <2>1
<1>3. total_supply \in Nat
  BY <1>1, WordIs DEF Mirrored, U64
<1>4. /\ lp_to_mint(receipts) \in Nat
      /\ total_supply > 0 => \A s \in Side :
           lp_to_mint(receipts) * (reserve[s] + 1) <= receipts[s] * total_supply
  BY <1>1, MintIs
<1>5. total_supply = 0 => lp_to_mint(receipts) = receipts["a"]
  BY DEF lp_to_mint
<1>6. /\ receipts["a"] \in Nat /\ receipts["b"] \in Nat /\ receipts["a"] <= Most
      /\ reserve["a"] \in Nat /\ reserve["b"] \in Nat /\ Most \in Nat
  BY <1>2, TwoSides, MostIs
<1>7. total_supply > 0 =>
        /\ lp_to_mint(receipts) * (reserve["a"] + 1) <= receipts["a"] * total_supply
        /\ lp_to_mint(receipts) * (reserve["b"] + 1) <= receipts["b"] * total_supply
  BY <1>4, TwoSides
<1>8. Fewer(Most, total_supply, reserve["a"], reserve["b"])
  BY DEF FewShares
<1>9. Fewer(Most, total_supply + lp_to_mint(receipts),
            reserve["a"] + receipts["a"], reserve["b"] + receipts["b"])
  <2>1. lp_to_mint(receipts) \in Nat
    BY <1>4
  <2>. HIDE SwapAssumption
  <2>. QED
    BY <1>3, <1>5, <1>6, <1>7, <1>8, <2>1, FewerDeposit
<1>. QED
  BY <1>2, <1>9

LEMMA FewIsFit ==
  ASSUME SmallPool, PoolInv, FewShares
  PROVE  SharesFit
<1>. SUFFICES ASSUME genuine, NEW p \in Person, NEW amounts \in [Side -> Amount], lp[p] # Null
              PROVE  total_supply + lp_to_mint([s \in Side |-> Moved(balance[p][s], amounts[s])])
                       < Word
  BY DEF SharesFit
<1>. DEFINE receipts == [s \in Side |-> Moved(balance[p][s], amounts[s])]
<1>1. receipts \in [Side -> Nat] /\ \A s \in Side : receipts[s] <= balance[p][s]
  <2>1. ASSUME NEW s \in Side
        PROVE  Moved(balance[p][s], amounts[s]) \in Nat
               /\ Moved(balance[p][s], amounts[s]) <= balance[p][s]
    <3>1. amounts[s] \in Nat /\ balance[p][s] \in Nat
      <4>1. balance[p][s] \in Nat
        BY DEF PoolInv, SInv, Conserved
      <4>2. Amount \subseteq Nat
        BY WordIs DEF U64
      <4>. QED
        BY <4>1, <4>2
    <3>. QED
      BY <3>1, MovedIs
  <2>. QED
    BY <2>1
<1>. HIDE DEF receipts
<1>. DEFINE t == total_supply + lp_to_mint(receipts)
            x == reserve["a"] + receipts["a"]
            y == reserve["b"] + receipts["b"]
<1>2. Fewer(Most, t, x, y) /\ x <= Most /\ y <= Most
  BY <1>1, DepositKeepsFew, TwoSides
<1>3. t \in Nat /\ x \in Nat /\ y \in Nat
  <2>1. Mirrored
    BY DEF PoolInv, SInv
  <2>2. total_supply \in Nat /\ reserve["a"] \in Nat /\ reserve["b"] \in Nat
    BY <2>1, TwoSides, WordIs DEF Mirrored, U64
  <2>3. receipts["a"] \in Nat /\ receipts["b"] \in Nat
    BY <1>1, TwoSides
  <2>4. lp_to_mint(receipts) \in Nat
    BY <1>1, <2>1, MintIs
  <2>. QED
    BY <2>2, <2>3, <2>4
<1>. HIDE DEF t, x, y
<1>4. t <= 2 * (Most * Most)
  BY <1>2, <1>3, MostIs, FewerMeans
<1>5. t < Word
  <2>1. 2 * (Most * Most) < Word /\ Word \in Nat
    BY WordIs DEF SmallPool
  <2>2. Most * Most \in Nat
    BY MostIs
  <2>. QED
    BY <1>3, <1>4, <2>1, <2>2
<1>. QED
  BY <1>5 DEF t, receipts

LEMMA FewStep ==
  ASSUME SmallPool, PoolInv, FewShares, [Next]_swapVars
  PROVE  FewShares'
<1>1. SInv /\ VaultsCover /\ SharesAreSupply /\ SharesFit /\ FeeFits
  BY FewIsFit, SmallFees DEF PoolInv
<1>2. PoolInv' /\ (genuine' => genuine /\ Worth)
  BY <1>1, StepIsSound
<1>. SUFFICES ASSUME genuine' PROVE FewShares'
  BY DEF FewShares
<1>0. genuine
  BY <1>2
<1>3. /\ Most \in Nat /\ total_supply \in Nat /\ reserve["a"] \in Nat /\ reserve["b"] \in Nat
      /\ total_supply' \in Nat /\ reserve'["a"] \in Nat /\ reserve'["b"] \in Nat
  <2>1. Mirrored /\ Mirrored'
    BY <1>2 DEF PoolInv, SInv
  <2>. QED
    BY <2>1, TwoSides, MostIs, WordIs DEF Mirrored, U64
<1>4. Fewer(Most, total_supply, reserve["a"], reserve["b"])
  BY <1>0 DEF FewShares
<1>5. ASSUME total_supply' = total_supply
      PROVE  Fewer(Most, total_supply', reserve'["a"], reserve'["b"])
  <2>1. total_supply > 0 => reserve'["a"] * reserve'["b"] >= reserve["a"] * reserve["b"]
    BY <1>2, <1>5 DEF Worth
  <2>2. Fewer(Most, total_supply, reserve'["a"], reserve'["b"])
    BY <1>3, <1>4, <2>1, FewerGrows
  <2>. QED
    BY <1>5, <2>2
<1>6. ASSUME NEW p \in Person, Deposited(p)
      PROVE  Fewer(Most, total_supply', reserve'["a"], reserve'["b"])
  <2>1. PICK receipts \in [Side -> Nat] :
          /\ \A s \in Side : /\ receipts[s] <= balance[p][s]
                             /\ reserve'[s] = reserve[s] + receipts[s]
          /\ total_supply' = total_supply + lp_to_mint(receipts)
    BY <1>6 DEF Deposited
  <2>2. Fewer(Most, total_supply + lp_to_mint(receipts),
              reserve["a"] + receipts["a"], reserve["b"] + receipts["b"])
    BY <1>0, <2>1, DepositKeepsFew
  <2>3. /\ reserve'["a"] = reserve["a"] + receipts["a"]
        /\ reserve'["b"] = reserve["b"] + receipts["b"]
    BY <2>1, TwoSides
  <2>. QED
    BY <2>1, <2>2, <2>3
<1>7. ASSUME Withdrawn, total_supply' # total_supply
      PROVE  Fewer(Most, total_supply', reserve'["a"], reserve'["b"])
  <2>1. /\ total_supply' <= total_supply
        /\ reserve'["a"] <= reserve["a"] /\ reserve'["b"] <= reserve["b"]
    BY <1>7, TwoSides DEF Withdrawn
  <2>2. total_supply > 0 =>
          /\ reserve'["a"] * total_supply >= reserve["a"] * total_supply'
          /\ reserve'["b"] * total_supply >= reserve["b"] * total_supply'
    BY <1>2, <1>7, TwoSides DEF Worth
  <2>. QED
    BY <1>3, <1>4, <2>1, <2>2, FewerWithdrawal
<1>8. \/ total_supply' = total_supply \/ (\E p \in Person : Deposited(p)) \/ Withdrawn
  <2>1. CASE UNCHANGED swapVars
    BY <2>1 DEF swapVars, accountVars
  <2>2. CASE Next
    BY <1>1, <1>2, <2>2, NextIs, ForeignStep, CreateStep, SwapStep, AddStep, RemoveStep,
       TransferStep DEF Called
  <2>. QED
    BY <2>1, <2>2
<1>9. Fewer(Most, total_supply', reserve'["a"], reserve'["b"])
  BY <1>5, <1>6, <1>7, <1>8
<1>. QED
  BY <1>9 DEF FewShares

(* The hypotheses of the four theorems above, from the constants alone.    *)
THEOREM SmallPoolsFit == SmallPool => FeeFits /\ (Spec => []SharesFit)
<1>. SUFFICES ASSUME SmallPool PROVE FeeFits /\ (Spec => []SharesFit)
  OBVIOUS
<1>1. Init => PoolInv /\ FewShares
  <2>1. Init => total_supply = 0
    BY DEF Init
  <2>2. total_supply = 0 => FewShares
    BY DEF FewShares, Fewer
  <2>. QED
    BY <2>1, <2>2, InitHolds
<1>2. PoolInv /\ FewShares /\ [Next]_swapVars => (PoolInv /\ FewShares)'
  BY FewStep, FewIsFit, SmallFees, StepIsSound
<1>3. PoolInv /\ FewShares => SharesFit
  BY FewIsFit
<1>4. Spec => []SharesFit
  BY <1>1, <1>2, <1>3, PTL DEF Spec
<1>. QED
  BY <1>4, SmallFees
=============================================================================
