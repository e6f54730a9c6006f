-------------------------------- MODULE Wager --------------------------------
(***************************************************************************)
(* What a coin-flip game promises, without ciphertexts and requests: a     *)
(* stake is put down, matched by somebody, and the pot goes once, whole,   *)
(* to the side the coin fell for, or, misjudged, to either side; until it  *)
(* is matched the creator may take the stake back.                         *)
(***************************************************************************)
EXTENDS Naturals

CONSTANTS Player, Nobody, Stake

VARIABLES
  phase,     \* "none", "open", "matched", "paid", "misjudged" or "refunded"
  creator,   \* who opened it
  rival,     \* who matched it
  winner,    \* whom the coin fell for
  pot,       \* what the game holds
  purse      \* purse[p]: what p holds

wagerVars == <<phase, creator, rival, winner, pot, purse>>

WagerInit ==
  /\ phase = "none"
  /\ creator = Nobody /\ rival = Nobody /\ winner = Nobody
  /\ pot = 0
  /\ purse \in [Player -> Nat]

(* The stake may be somebody else's.                                       *)
Open(p, payer, stake) ==
  /\ phase = "none" /\ phase' = "open"
  /\ stake <= purse[payer]
  /\ purse' = [purse EXCEPT ![payer] = @ - stake]
  /\ pot' = stake
  /\ creator' = p
  /\ UNCHANGED <<rival, winner>>

(* The coin falls when the stakes are equal.                               *)
Match(p) ==
  /\ phase = "open" /\ phase' = "matched"
  /\ pot <= purse[p]
  /\ purse' = [purse EXCEPT ![p] = @ - pot]
  /\ pot' = 2 * pot
  /\ rival' = p
  /\ winner' \in {creator, p}
  /\ UNCHANGED creator

PayOut(to) ==
  /\ purse' = [purse EXCEPT ![to] = @ + pot]
  /\ pot' = 0
  /\ UNCHANGED <<creator, rival, winner>>

Settle == phase = "matched" /\ phase' = "paid" /\ PayOut(winner)
Misjudge(to) ==
  /\ phase = "matched" /\ phase' = "misjudged"
  /\ to \in {creator, rival}
  /\ PayOut(to)

(* An empty pot may be judged again.                                       *)
JudgeAgain ==
  /\ phase \in {"paid", "misjudged"} /\ phase' \in {"paid", "misjudged"}
  /\ pot = 0
  /\ UNCHANGED <<creator, rival, winner, pot, purse>>

Refund == phase = "open" /\ phase' = "refunded" /\ PayOut(creator)

WagerNext ==
  \/ \E p, payer \in Player, stake \in Stake : Open(p, payer, stake)
  \/ \E p \in Player : Match(p)
  \/ Settle
  \/ \E p \in Player : Misjudge(p)
  \/ JudgeAgain
  \/ Refund

WagerSpec == WagerInit /\ [][WagerNext]_wagerVars
=============================================================================
