----------------------------- MODULE TokenLedger -----------------------------
(***************************************************************************)
(* What the confidential token promises, in the clear: coins go from the   *)
(* pockets of holders to their balances and back, between balances no more *)
(* than there are, for a delegate no more than its limit, and neither to   *)
(* nor from a frozen balance.  No coin is made or lost.                    *)
(***************************************************************************)
EXTENDS Naturals

CONSTANTS Holder, Nobody

VARIABLES
  opened,    \* the holders that have an account
  frozen,    \* those whose account is frozen
  pocket,    \* pocket[h]: coins outside
  balance,   \* balance[h]
  leaving,   \* leaving[h]: coins that left the balance and are not in the pocket yet
  limit      \* limit[h]: Nobody, or who else may pay from the balance, and how much

ledgerVars == <<opened, frozen, pocket, balance, leaving, limit>>

LedgerInit ==
  /\ opened = {} /\ frozen = {}
  /\ pocket \in [Holder -> Nat]
  /\ balance = [h \in Holder |-> 0] /\ leaving = [h \in Holder |-> 0]
  /\ limit = [h \in Holder |-> Nobody]

Liquid == opened \ frozen

Open(h) ==
  /\ opened' = opened \cup {h}
  /\ UNCHANGED <<frozen, pocket, balance, leaving, limit>>

Freeze(h) ==
  /\ h \in opened
  /\ frozen' \in {frozen \cup {h}, frozen \ {h}}
  /\ UNCHANGED <<opened, pocket, balance, leaving, limit>>

Deposit(h, n) ==
  /\ h \in Liquid /\ n <= pocket[h]
  /\ pocket' = [pocket EXCEPT ![h] = @ - n]
  /\ balance' = [balance EXCEPT ![h] = @ + n]
  /\ UNCHANGED <<opened, frozen, leaving, limit>>

Move(h, g, n) ==
  /\ {h, g} \subseteq Liquid /\ n <= balance[h]
  /\ balance' = [balance EXCEPT ![h] = @ - n, ![g] = @ + n]
  /\ UNCHANGED <<opened, frozen, pocket, leaving>>

Pay(h, g, n) == Move(h, g, n) /\ UNCHANGED limit

PayForHolder(h, g, n) ==
  /\ limit[h] # Nobody /\ n <= limit[h].left
  /\ Move(h, g, n)
  /\ limit' = [limit EXCEPT ![h].left = @ - n]

SetLimit(h) ==
  /\ h \in opened
  /\ limit' = [limit EXCEPT ![h] = limit'[h]]
  /\ UNCHANGED <<opened, frozen, pocket, balance, leaving>>

Leave(h, n) ==
  /\ h \in Liquid /\ n <= balance[h]
  /\ balance' = [balance EXCEPT ![h] = @ - n]
  /\ leaving' = [leaving EXCEPT ![h] = @ + n]
  /\ UNCHANGED <<opened, frozen, pocket, limit>>

Arrive(h, n) ==
  /\ n <= leaving[h]
  /\ leaving' = [leaving EXCEPT ![h] = @ - n]
  /\ pocket' = [pocket EXCEPT ![h] = @ + n]
  /\ UNCHANGED <<opened, frozen, balance, limit>>

LedgerNext ==
  \E h \in Holder :
    \/ Open(h) \/ Freeze(h) \/ SetLimit(h)
    \/ \E n \in 1 .. pocket[h] : Deposit(h, n)
    \/ \E n \in 1 .. balance[h] : Leave(h, n)
    \/ \E n \in 1 .. leaving[h] : Arrive(h, n)
    \/ \E g \in Holder, n \in 1 .. balance[h] : Pay(h, g, n) \/ PayForHolder(h, g, n)

LedgerSpec == LedgerInit /\ [][LedgerNext]_ledgerVars
=============================================================================
