------------------------------- MODULE PcSwap -------------------------------
(***************************************************************************)
(* The confidential swap: a pool of two confidential tokens, its two       *)
(* vaults (token accounts of the pool), the encrypted mirrors it computes  *)
(* with, and the shares of those who provide liquidity.                    *)
(*                                                                         *)
(* An instruction is one transaction of several graphs, which run in       *)
(* order, so each action gives what the plaintexts are once they are done. *)
(* A transaction one of whose calls fails, for a missing or a frozen token *)
(* account, changes nothing and is no step.  The receipts of deposits are  *)
(* closed in the transaction that makes them: its graphs are those of an   *)
(* executor that commits the other outputs all the same, which is what the *)
(* end-to-end client waits for (pc-swap/e2e/main.ts:165-174).              *)
(*                                                                         *)
(* The program takes any program that a call names for the token, which    *)
(* genuine records.  Callers name ciphertexts of their own for the least   *)
(* amount out of a swap and for what is paid out.                          *)
(***************************************************************************)
EXTENDS Naturals, FiniteSets, Sums

CONSTANTS
  Person,
  Held,         \* Held[p][s]: the tokens p starts with on each side
  Amount,       \* the amounts clients use
  Word,         \* 2^64: graphs compute modulo Word
  Null          \* an account that does not exist

Side == {"a", "b"}
Across(s) == IF s = "a" THEN "b" ELSE "a"

VARIABLES
  pool,          \* whether the Pool account exists
  vault,         \* vault[s]: what the pool's token account holds
  reserve,       \* reserve[s]: the mirror
  total_supply,  \* of shares
  lp,            \* lp[p]: Null, or the shares of the LpPosition of p
  balance,       \* balance[p][s]: what the token account of p holds
  genuine        \* history: every call has named the token's program

accountVars == <<pool, vault, reserve, total_supply, lp, balance>>
swapVars == <<accountVars, genuine>>

U64 == 0 .. Word - 1

(* All tokens of a side, now in accounts of persons or in the vault.       *)
Supply(s) == Total([p \in Person |-> Held[p][s]])

(* They fit in 64 bits, as the SPL supply behind them does.                *)
ASSUME SwapAssumption ==
  /\ IsFiniteSet(Person) /\ Null \notin Nat
  /\ Held \in [Person -> [Side -> Nat]]
  /\ Word \in Nat /\ \A s \in Side : Supply(s) < Word
  /\ Amount \subseteq U64

TypeOK ==
  /\ pool \in BOOLEAN
  /\ vault \in [Side -> U64] /\ reserve \in [Side -> U64] /\ total_supply \in U64
  /\ lp \in [Person -> U64 \cup {Null}]
  /\ balance \in [Person -> [Side -> U64]]
  /\ genuine \in BOOLEAN

Init ==
  /\ pool = FALSE
  /\ vault = [s \in Side |-> 0] /\ reserve = [s \in Side |-> 0]
  /\ total_supply = 0
  /\ lp = [p \in Person |-> Null]
  /\ balance = Held
  /\ genuine = TRUE

-----------------------------------------------------------------------------
Plus(x, y) == (x + y) % Word
Minus(x, y) == (x + Word - y) % Word
Times(x, y) == (x * y) % Word
Over(x, y) == IF y = 0 THEN 0 ELSE x \div y
Smaller(x, y) == IF x >= y THEN y ELSE x
Larger(x, y) == IF x >= y THEN x ELSE y

(* Mutant: tokens move whether they are there or not.                      *)
Moved_anyway(have, n) == n

(* What a transfer of the token moves, and what its receipt says.          *)
Moved(have, n) == IF have >= n THEN n ELSE 0

(* The receipt for a deposit of n: another program may say what it likes.  *)
Receipt(have, n, ours) == IF ours THEN Moved(have, n) ELSE n

swap_graph(reserve_in, reserve_out, receipt, min_amount_out) ==
  LET amount_in_with_fee == Times(receipt, 997)
      numer == Times(amount_in_with_fee, reserve_out)
      denom == Plus(Times(reserve_in, 1000), amount_in_with_fee)
      amount_out == Over(numer, denom)
  IN IF amount_out >= min_amount_out
     THEN [final_in |-> receipt, final_out |-> amount_out]
     ELSE [final_in |-> 0, final_out |-> 0]

(* Mutant: the larger of the two shares is minted.                         *)
lp_to_mint_larger(receipts) ==
  LET lp_from(s) == Over(Times(receipts[s], total_supply), Plus(reserve[s], 1))
  IN IF total_supply >= 1 THEN Larger(lp_from("a"), lp_from("b")) ELSE receipts["a"]

lp_to_mint(receipts) ==
  LET lp_from(s) == Over(Times(receipts[s], total_supply), Plus(reserve[s], 1))
  IN IF total_supply >= 1 THEN Smaller(lp_from("a"), lp_from("b")) ELSE receipts["a"]

shares_out(owner, burn) ==
  [s \in Side |->
    IF lp[owner] >= burn THEN Over(Times(reserve[s], burn), Plus(total_supply, 1)) ELSE 0]

-----------------------------------------------------------------------------
(* Tokens go from p to the vaults as into says, and back as out says.      *)
Exchange(p, into, out) ==
  /\ vault' = [s \in Side |-> vault[s] + into[s] - out[s]]
  /\ balance' = [balance EXCEPT ![p] = [s \in Side |-> @[s] - into[s] + out[s]]]

(* The same through the program that the call names: what another does     *)
(* with the accounts it is given is left out, and no token moves.          *)
ExchangeBy(ours, p, into, out) ==
  /\ genuine' = (genuine /\ ours)
  /\ \/ ours /\ Exchange(p, into, out)
     \/ ~ours /\ UNCHANGED <<vault, balance>>

create_pool(ours) ==
  /\ ~pool
  /\ pool' = TRUE
  /\ genuine' = (genuine /\ ours)
  /\ UNCHANGED <<vault, reserve, total_supply, lp, balance>>

create_lp_position(owner) ==
  /\ pool /\ lp[owner] = Null
  /\ lp' = [lp EXCEPT ![owner] = 0]
  /\ UNCHANGED <<pool, vault, reserve, total_supply, balance, genuine>>

(* Mutant: the graph is given the amount instead of the receipt.           *)
swap_claimed(payer, in, amount_in, min_amount_out, ours) ==
  LET out == Across(in)
      receipt == Moved(balance[payer][in], amount_in)
      final == swap_graph(reserve[in], reserve[out], amount_in, min_amount_out)
      paid == Moved(vault[out], final.final_out)
  IN
  /\ pool
  /\ reserve' = [reserve EXCEPT ![in] = Plus(@, final.final_in),
                                ![out] = Minus(@, final.final_out)]
  /\ ExchangeBy(ours, payer, [s \in Side |-> IF s = in THEN receipt ELSE 0],
                             [s \in Side |-> IF s = out THEN paid ELSE 0])
  /\ UNCHANGED <<pool, total_supply, lp>>

(* The deposit, the swap on its receipt, and the payout from the vault.    *)
swap(payer, in, amount_in, min_amount_out, ours) ==
  LET out == Across(in)
      receipt == Receipt(balance[payer][in], amount_in, ours)
      final == swap_graph(reserve[in], reserve[out], receipt, min_amount_out)
      paid == Moved(vault[out], final.final_out)
  IN
  /\ pool
  /\ reserve' = [reserve EXCEPT ![in] = Plus(@, final.final_in),
                                ![out] = Minus(@, final.final_out)]
  /\ ExchangeBy(ours, payer, [s \in Side |-> IF s = in THEN receipt ELSE 0],
                             [s \in Side |-> IF s = out THEN paid ELSE 0])
  /\ UNCHANGED <<pool, total_supply, lp>>

(* Both deposits, each with its own receipt, and the graph on the two.     *)
add_liquidity(owner, amounts, ours) ==
  LET receipts == [s \in Side |-> Receipt(balance[owner][s], amounts[s], ours)]
  IN
  /\ pool /\ lp[owner] # Null
  /\ reserve' = [s \in Side |-> Plus(reserve[s], receipts[s])]
  /\ total_supply' = Plus(total_supply, lp_to_mint(receipts))
  /\ lp' = [lp EXCEPT ![owner] = Plus(@, lp_to_mint(receipts))]
  /\ ExchangeBy(ours, owner, receipts, [s \in Side |-> 0])
  /\ UNCHANGED pool

(* Mutant: the new supply is not selected.                                 *)
remove_liquidity_supply(owner, burn, ours) ==
  LET burned == Moved(lp[owner], burn)
      out == shares_out(owner, burn)
  IN
  /\ pool /\ lp[owner] # Null
  /\ reserve' = [s \in Side |-> Minus(reserve[s], out[s])]
  /\ total_supply' = Minus(total_supply, burn)
  /\ lp' = [lp EXCEPT ![owner] = Minus(@, burned)]
  /\ ExchangeBy(ours, owner, [s \in Side |-> 0], [s \in Side |-> Moved(vault[s], out[s])])
  /\ UNCHANGED pool

(* The graph, and then both payouts, each of which the token may refuse.   *)
remove_liquidity(owner, burn, ours) ==
  LET burned == Moved(lp[owner], burn)
      out == shares_out(owner, burn)
  IN
  /\ pool /\ lp[owner] # Null
  /\ reserve' = [s \in Side |-> Minus(reserve[s], out[s])]
  /\ total_supply' = Minus(total_supply, burned)
  /\ lp' = [lp EXCEPT ![owner] = Minus(@, burned)]
  /\ ExchangeBy(ours, owner, [s \in Side |-> 0], [s \in Side |-> Moved(vault[s], out[s])])
  /\ UNCHANGED pool

(* The token's own transfer, to a vault that is an account like any other. *)
transfer(owner, s, n) ==
  /\ pool
  /\ Exchange(owner, [t \in Side |-> IF t = s THEN Moved(balance[owner][s], n) ELSE 0],
                     [t \in Side |-> 0])
  /\ UNCHANGED <<pool, reserve, total_supply, lp, genuine>>

-----------------------------------------------------------------------------
Next ==
  \/ \E ours \in BOOLEAN : create_pool(ours)
  \/ \E p \in Person, ours \in BOOLEAN :
       \/ \E s \in Side, n \in Amount, least \in Amount \cup {0} : swap(p, s, n, least, ours)
       \/ \E amounts \in [Side -> Amount] : add_liquidity(p, amounts, ours)
       \/ \E n \in Amount : remove_liquidity(p, n, ours)
  \/ \E p \in Person :
       \/ create_lp_position(p)
       \/ \E s \in Side, n \in Amount : transfer(p, s, n)

Spec == Init /\ [][Next]_swapVars

-----------------------------------------------------------------------------
(* As long as the receipts are the token's, the vaults hold all that the   *)
(* mirrors say, whatever was claimed, refused or given: every payout the   *)
(* graphs promise can be made.                                             *)
VaultsCover == genuine => \A s \in Side : vault[s] >= reserve[s]

Shares == [p \in Person |-> IF lp[p] = Null THEN 0 ELSE lp[p]]

(* The shares of all positions are the total supply, which receipts of     *)
(* other programs may wrap.                                                *)
SharesAreSupply == genuine => total_supply = Total(Shares)

(* x * y = k: what leaves with the rounding and the fee stays with those   *)
(* who hold shares.  A swap does not make the product of the reserves      *)
(* smaller, and no deposit or withdrawal the reserves behind a share, of   *)
(* which the first deposit makes the first.                                *)
ShareKeepsWorth ==
  [][ genuine' /\ total_supply > 0 =>
      IF total_supply' = total_supply
      THEN reserve["a"]' * reserve["b"]' >= reserve["a"] * reserve["b"]
      ELSE \A s \in Side : reserve[s]' * total_supply >= reserve[s] * total_supply' ]_swapVars

(* What a mirror loses, some person gets: a payout is never promised by    *)
(* the graph and refused by the token.                                     *)
PayoutsArrive ==
  [][ genuine' =>
      \A s \in Side : reserve[s]' < reserve[s] =>
        \E p \in Person : balance[p][s]' = balance[p][s] + (reserve[s] - reserve[s]') ]_swapVars
=============================================================================
