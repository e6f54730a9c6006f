-------------------------- MODULE CoinFlipPrograms --------------------------
(***************************************************************************)
(* The four coin-flip programs.  A game is one of the program of one SDK:  *)
(* the Pinocchio, native and Anchor programs move lamports, the Quasar     *)
(* program stores a bet and moves none.                                    *)
(***************************************************************************)
EXTENDS CoinFlip

CONSTANT SDK    \* the versions considered

ASSUME SDKAssumption == SDK \subseteq {"pinocchio", "native", "anchor", "quasar"}

VARIABLE sdk    \* the version that owns the game account

programVars == <<flipVars, sdk>>

In(s) == sdk = s /\ sdk' = s

(* The Pinocchio program.                                                  *)
pinocchio_create_game(side_a, commit_a, payer, bet) ==
  CreateGame(side_a, commit_a, payer, bet)
pinocchio_play(side_b, commit_b) == Play(side_b, commit_b)
pinocchio_request_result_decryption(request_acct, result_ciphertext) ==
  RequestResult(request_acct, result_ciphertext)
pinocchio_reveal_result(request_acct) == RevealResult(request_acct)
pinocchio_cancel_game(side_a) == CancelGame(side_a)

pinocchio_process_instruction ==
  \/ \E p, payer \in Person, c \in Ciphertext, bet \in Bet :
       pinocchio_create_game(p, c, payer, bet)
  \/ \E p \in Person, c \in Ciphertext : pinocchio_play(p, c)
  \/ \E p \in Person : pinocchio_cancel_game(p)
  \/ \E r \in Request, c \in Ciphertext : pinocchio_request_result_decryption(r, c)
  \/ \E r \in Request : pinocchio_reveal_result(r)

-----------------------------------------------------------------------------
(* The native program: the Pinocchio one over bytes of the account.        *)
native_create_game(side_a, commit_a, payer, bet) ==
  CreateGame(side_a, commit_a, payer, bet)
native_play(side_b, commit_b) == Play(side_b, commit_b)
native_request_result_decryption(request_acct, result_ciphertext) ==
  RequestResult(request_acct, result_ciphertext)
native_reveal_result(request_acct) == RevealResult(request_acct)
native_cancel_game(side_a) == CancelGame(side_a)

native_process_instruction ==
  \/ \E p, payer \in Person, c \in Ciphertext, bet \in Bet :
       native_create_game(p, c, payer, bet)
  \/ \E p \in Person, c \in Ciphertext : native_play(p, c)
  \/ \E p \in Person : native_cancel_game(p)
  \/ \E r \in Request, c \in Ciphertext : native_request_result_decryption(r, c)
  \/ \E r \in Request : native_reveal_result(r)

-----------------------------------------------------------------------------
(* The Anchor program: the client makes the ciphertext of the result.      *)

(* The client's call, with 0.                                              *)
create_input(c) ==
  /\ CreateInput(c, 0)
  /\ UNCHANGED <<game, lamports, historyVars>>

anchor_create_game(side_a, commit_a, payer, bet) ==
  /\ game = Null
  /\ Deposit(payer, bet)
  /\ game' = NewGame(side_a, commit_a, bet)
  /\ UNCHANGED <<clientVars, historyVars>>

anchor_play(side_b, commit_b) == Play(side_b, commit_b)
anchor_request_result_decryption(request_acct, result_ciphertext) ==
  RequestResult(request_acct, result_ciphertext)
anchor_reveal_result(request_acct) == RevealResult(request_acct)
anchor_cancel_game(side_a) == CancelGame(side_a)

anchor_process_instruction ==
  \/ create_input(Result)
  \/ \E p, payer \in Person, c \in Ciphertext, bet \in Bet :
       anchor_create_game(p, c, payer, bet)
  \/ \E p \in Person, c \in Ciphertext : anchor_play(p, c)
  \/ \E p \in Person : anchor_cancel_game(p)
  \/ \E r \in Request, c \in Ciphertext : anchor_request_result_decryption(r, c)
  \/ \E r \in Request : anchor_reveal_result(r)

-----------------------------------------------------------------------------
(* The Quasar program: it stores the bet and moves no lamports.            *)
quasar_create_game(side_a, commit_a, bet) ==
  /\ game = Null
  /\ CreateZeros({Result})
  /\ game' = NewGame(side_a, commit_a, bet)
  /\ UNCHANGED <<lamports, historyVars>>

quasar_play(side_b, commit_b) ==
  /\ CanJoin
  /\ Flip(commit_b)
  /\ game' = [game EXCEPT !.side_b = side_b, !.played = TRUE]
  /\ UNCHANGED lamports

(* Anyone may call it, and again, also when the game is over.              *)
quasar_request_result_decryption(request_acct, result_ciphertext) ==
  RequestResult(request_acct, result_ciphertext)

(* The answer itself is stored; 0 leaves the result looking unrevealed.    *)
quasar_reveal_result(request_acct) ==
  /\ Played
  /\ game.revealed_result = 0
  /\ Verified(request_acct, game.pending_digest)
  /\ Over(request_acct, asked[request_acct].value)
  /\ UNCHANGED lamports

quasar_cancel_game(side_a) ==
  /\ CanJoin
  /\ side_a = game.side_a
  /\ game' = [game EXCEPT !.is_active = FALSE]
  /\ UNCHANGED <<clientVars, lamports, historyVars>>

quasar_process_instruction ==
  \/ \E p \in Person, c \in Ciphertext, bet \in Bet : quasar_create_game(p, c, bet)
  \/ \E p \in Person, c \in Ciphertext : quasar_play(p, c)
  \/ \E p \in Person : quasar_cancel_game(p)
  \/ \E r \in Request, c \in Ciphertext : quasar_request_result_decryption(r, c)
  \/ \E r \in Request : quasar_reveal_result(r)

-----------------------------------------------------------------------------
ProgramInit == Init /\ sdk \in SDK

Next ==
  \/ In("pinocchio") /\ pinocchio_process_instruction
  \/ In("native") /\ native_process_instruction
  \/ In("anchor") /\ anchor_process_instruction
  \/ In("quasar") /\ quasar_process_instruction
  \/ (\E c \in Ciphertext \ {Result}, v \in Commitment : commit(c, v)) /\ UNCHANGED sdk
  \/ ExecutorStep /\ UNCHANGED sdk

Spec == ProgramInit /\ [][Next]_programVars

-----------------------------------------------------------------------------
(* The escrow is the stakes in the programs that move lamports; the Quasar *)
(* program stores a bet and moves nothing, so that each of its games is a  *)
(* wager for no stake.                                                     *)
EscrowHeld == IF sdk = "quasar" THEN escrow = 0 ELSE EscrowIsStakes
=============================================================================
