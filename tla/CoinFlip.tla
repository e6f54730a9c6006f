------------------------------ MODULE CoinFlip ------------------------------
(***************************************************************************)
(* One game of the coin-flip programs: its account, what the four versions *)
(* (Pinocchio, native, Anchor, Quasar) share, and what they are meant to   *)
(* do.  Two sides commit an encrypted number each; if the exclusive or of  *)
(* the two is 1 the creator wins both stakes, otherwise the one who joined.*)
(*                                                                         *)
(* The creator's commitment and the result are named by the game; play     *)
(* takes any second commitment, a request any ciphertext, and reveal_result *)
(* compares digests alone.  What the callers named is kept in history      *)
(* variables.  Lamports of the game account are counted above its rent.    *)
(***************************************************************************)
EXTENDS EncryptClient, FiniteSets

CONSTANTS
  Person,       \* who may create the game, pay for it, and join it
  Result,       \* the ciphertext of the result
  Commitment,   \* the numbers that are committed, below 4
  Bet,          \* the bets a creator may ask for
  Purse         \* bound: the lamports a person starts with

VARIABLES
  game,         \* Null, or the Game account
  escrow,       \* the lamports of the game account
  wallet,       \* wallet[p]: the lamports of p
  \* history variables:
  coinIsA,      \* the exclusive or of the commitments that were played is 1
  lastAsked,    \* what the last request was for; Null before the first
  decidedBy     \* what the answer was of that is revealed; Null before

lamports == <<escrow, wallet>>
historyVars == <<coinIsA, lastAsked, decidedBy>>
flipVars == <<clientVars, game, lamports, historyVars>>

ASSUME CoinFlipAssumption ==
  /\ Result \in Ciphertext
  /\ Commitment \subseteq 0..3
  /\ Bet \subseteq Nat /\ Purse \in Nat

GameAccount ==
  [side_a : Person, commit_a : Ciphertext, side_b : Person \cup {Null}, bet_lamports : Nat,
   is_active : BOOLEAN, played : BOOLEAN, pending_digest : Digest, revealed_result : Nat]

ASSUME CoinFlipNull == Null \notin GameAccount \cup Person \cup Ciphertext

TypeOK ==
  /\ ClientTypeOK
  /\ game \in GameAccount \cup {Null}
  /\ escrow \in Nat
  /\ wallet \in [Person -> Nat]
  /\ coinIsA \in BOOLEAN
  /\ {lastAsked, decidedBy} \subseteq Ciphertext \cup {Null}

Init ==
  /\ ClientInit
  /\ game = Null
  /\ escrow = 0
  /\ wallet = [p \in Person |-> Purse]
  /\ coinIsA = FALSE /\ lastAsked = Null /\ decidedBy = Null

NewGame(a, commit_a, bet) ==
  [side_a |-> a, commit_a |-> commit_a, side_b |-> Null, bet_lamports |-> bet,
   is_active |-> TRUE, played |-> FALSE, pending_digest |-> ZeroDigest, revealed_result |-> 0]

(* A side's client makes its commitment, before or after create_game.      *)
commit(c, v) ==
  /\ CreateInput(c, v)
  /\ UNCHANGED <<game, lamports, historyVars>>

(* Mutant: the graph copies the commitment of one side.                    *)
coin_flip_graph_copies(commit_a, commit_b) == [c \in {Result} |-> commit_a]

(* The graph: exclusive or, here of two bits.                              *)
coin_flip_graph(commit_a, commit_b) ==
  [c \in {Result} |->
    2 * ((commit_a \div 2 + commit_b \div 2) % 2) + ((commit_a + commit_b) % 2)]

(* The exclusive or is 1 when the commitments differ in the last bit only. *)
CoinFallsForA(commit_a, commit_b) ==
  commit_a # commit_b /\ commit_a \div 2 = commit_b \div 2

(* Mutant: the bet is taken from its payer and not credited.               *)
Deposit_lost(from, amount) ==
  /\ amount <= wallet[from]
  /\ wallet' = [wallet EXCEPT ![from] = @ - amount]
  /\ UNCHANGED escrow

(* A system transfer fails when the payer has too little.                  *)
Deposit(from, amount) ==
  /\ amount <= wallet[from]
  /\ wallet' = [wallet EXCEPT ![from] = @ - amount]
  /\ escrow' = escrow + amount

PayFromGame(to, amount) ==
  /\ wallet' = [wallet EXCEPT ![to] = @ + amount]
  /\ escrow' = escrow - amount

CanJoin == game # Null /\ game.is_active /\ ~game.played
Played == game # Null /\ game.played

(* Mutant: any number but 0 wins.                                          *)
SideAWins_nonzero(value) == value # 0

(* The side the value of an answer names.                                  *)
SideAWins(value) == value = 1
Side(value) == IF SideAWins(value) THEN game.side_a ELSE game.side_b

ExecutorStep == ProcessPending /\ UNCHANGED <<game, lamports, historyVars>>

-----------------------------------------------------------------------------
(* The instructions, each one transaction.  A program may instead leave    *)
(* the ciphertext of the result to its client, or the lamports alone.      *)
CreateGame(side_a, commit_a, payer, bet) ==
  /\ game = Null
  /\ Deposit(payer, bet)
  /\ CreateZeros({Result})
  /\ game' = NewGame(side_a, commit_a, bet)
  /\ UNCHANGED historyVars

(* The graph over both commitments, which must exist, and its coin.        *)
Flip(commit_b) ==
  /\ cipher[game.commit_a] # Null /\ cipher[commit_b] # Null
  /\ LET a == cipher[game.commit_a].value
         b == cipher[commit_b].value
     IN /\ ExecuteGraph(coin_flip_graph(a, b))
        /\ coinIsA' = CoinFallsForA(a, b)
  /\ UNCHANGED <<lastAsked, decidedBy>>

(* Mutant: the game is not looked at before the bet is taken.              *)
Play_cancelled(side_b, commit_b) ==
  /\ game # Null /\ ~game.played
  /\ Deposit(side_b, game.bet_lamports)
  /\ Flip(commit_b)
  /\ game' = [game EXCEPT !.side_b = side_b, !.played = TRUE]

Play(side_b, commit_b) ==
  /\ CanJoin
  /\ Deposit(side_b, game.bet_lamports)
  /\ Flip(commit_b)
  /\ game' = [game EXCEPT !.side_b = side_b, !.played = TRUE]

(* Mutant: the snapshot is not stored.                                     *)
RequestResult_forgets(request_acct, result_ciphertext) ==
  /\ Played
  /\ RequestDecryption(request_acct, result_ciphertext)
  /\ lastAsked' = result_ciphertext
  /\ UNCHANGED <<game, lamports, coinIsA, decidedBy>>

(* Anyone may call it, and again, also when the game is paid, and for      *)
(* whatever ciphertext they name.                                          *)
RequestResult(request_acct, result_ciphertext) ==
  /\ Played
  /\ RequestDecryption(request_acct, result_ciphertext)
  /\ game' = [game EXCEPT !.pending_digest = Snapshot(result_ciphertext)]
  /\ lastAsked' = result_ciphertext
  /\ UNCHANGED <<lamports, coinIsA, decidedBy>>

(* The game is over, and the side that has won stored.                     *)
Over(request_acct, result) ==
  /\ game' = [game EXCEPT !.is_active = FALSE, !.revealed_result = result]
  /\ decidedBy' = asked[request_acct].ct
  /\ UNCHANGED <<clientVars, coinIsA, lastAsked>>

(* Mutant: a game may be revealed twice.                                   *)
RevealResult_again(request_acct) ==
  /\ Played
  /\ Verified(request_acct, game.pending_digest)
  /\ LET value == asked[request_acct].value IN
       /\ PayFromGame(Side(value), 2 * game.bet_lamports)
       /\ Over(request_acct, IF SideAWins(value) THEN 1 ELSE 2)

(* Anyone may call it; the winner's account must be the one it pays.  Only *)
(* the digest ties the request account to what was asked for.              *)
RevealResult(request_acct) ==
  /\ Played
  /\ game.revealed_result = 0
  /\ Verified(request_acct, game.pending_digest)
  /\ LET value == asked[request_acct].value IN
       /\ PayFromGame(Side(value), 2 * game.bet_lamports)
       /\ Over(request_acct, IF SideAWins(value) THEN 1 ELSE 2)

(* Mutant: the game stays open.                                            *)
CancelGame_stays_open(side_a) ==
  /\ CanJoin
  /\ side_a = game.side_a
  /\ PayFromGame(side_a, game.bet_lamports)
  /\ UNCHANGED <<clientVars, game, historyVars>>

CancelGame(side_a) ==
  /\ CanJoin
  /\ side_a = game.side_a
  /\ PayFromGame(side_a, game.bet_lamports)
  /\ game' = [game EXCEPT !.is_active = FALSE]
  /\ UNCHANGED <<clientVars, historyVars>>

-----------------------------------------------------------------------------
CoinFellFor == IF coinIsA THEN game.side_a ELSE game.side_b

(* The game account holds exactly the stakes that were put down and not    *)
(* paid out: one while it is open, two once it is played, none after       *)
(* reveal_result or cancel_game, whichever of play, cancel_game, repeated  *)
(* requests and reveals came first, and whatever the requests are for.     *)
EscrowIsStakes ==
  escrow = CASE game = Null -> 0
             [] game # Null /\ ~game.is_active -> 0
             [] CanJoin -> game.bet_lamports
             [] OTHER -> 2 * game.bet_lamports

(* The coin falls in play, on the exclusive or of the two commitments, and *)
(* what reveal_result pays later goes to one of the sides, once; if it was *)
(* the answer of the result, to the side the coin fell for.  Nothing keeps *)
(* reveal_result from deciding by the answer of another ciphertext.  A     *)
(* program that moves no lamports plays for a stake of 0.                  *)
phase == CASE game = Null -> "none"
           [] CanJoin -> "open"
           [] Played -> IF game.is_active THEN "matched"
                        ELSE IF decidedBy = Result THEN "paid" ELSE "misjudged"
           [] OTHER -> "refunded"

W == INSTANCE Wager WITH
  Player <- Person, Nobody <- Null, Stake <- Bet \cup {0}, pot <- escrow, purse <- wallet,
  creator <- IF game = Null THEN Null ELSE game.side_a,
  rival <- IF Played THEN game.side_b ELSE Null,
  winner <- IF Played THEN CoinFellFor ELSE Null

ImplementsWager == W!WagerSpec

(* If the answer that decided is one of the game's result, the stored      *)
(* result names the side the coin fell for, whatever else has been asked   *)
(* for before, between and since: what the digest check lets through of    *)
(* the result is the exclusive or of the two commitments.                  *)
RevealedIsCoin ==
  (Played /\ ~game.is_active /\ decidedBy = Result) =>
    (game.revealed_result = 1 <=> coinIsA)

(* A game both sides have played and whose last request is of its result   *)
(* is paid out, or someone's later request, of another ciphertext, has     *)
(* taken its place.                                                        *)
EventuallyPaid ==
  (Played /\ lastAsked = Result) ~> (Played /\ (~game.is_active \/ lastAsked # Result))
=============================================================================
