--------------------------- MODULE CoinFlip_proofs ---------------------------
(***************************************************************************)
(* The four coin-flip programs, for any persons, bets and request          *)
(* accounts: the escrow is the stakes, a game decided by an answer of its  *)
(* result is paid to the side the coin fell for, and each program          *)
(* implements Wager.                                                       *)
(*                                                                         *)
(* The game and its coin, which the programs treat alike, are proved apart *)
(* from the lamports, which the Quasar program leaves alone.               *)
(***************************************************************************)
EXTENDS CoinFlipPrograms, TLAPS

(* What each instruction does to game and ciphertexts, in every program.   *)
Opened(a, commit_a, bet) ==
  /\ game = Null
  /\ CreateZeros({Result}) \/ UNCHANGED clientVars
  /\ game' = NewGame(a, commit_a, bet)
  /\ UNCHANGED historyVars

Joined(b, commit_b) ==
  /\ CanJoin
  /\ Flip(commit_b)
  /\ game' = [game EXCEPT !.side_b = b, !.played = TRUE]

Requested(r, c) ==
  /\ Played
  /\ RequestDecryption(r, c)
  /\ game' = [game EXCEPT !.pending_digest = Snapshot(c)]
  /\ lastAsked' = c
  /\ UNCHANGED <<coinIsA, decidedBy>>

Revealed(r, n) ==
  /\ Played
  /\ Verified(r, game.pending_digest)
  /\ Over(r, n)

Cancelled ==
  /\ CanJoin
  /\ game' = [game EXCEPT !.is_active = FALSE]
  /\ UNCHANGED <<clientVars, historyVars>>

(* Game, ciphertexts and history have their types.                         *)
GameOK ==
  /\ ClientTypeOK
  /\ game \in GameAccount \cup {Null}
  /\ coinIsA \in BOOLEAN
  /\ lastAsked \in Ciphertext \cup {Null} /\ decidedBy \in Ciphertext \cup {Null}

(* Every plaintext is a number below 4, and a played game has a result.    *)
Committed ==
  /\ \A c \in Ciphertext : cipher[c] # Null => cipher[c].value \in 0..3
  /\ Played => game.side_b \in Person /\ cipher[Result] # Null

(* The coin has fallen in play, and every complete answer of the result is *)
(* the coin.                                                               *)
CoinIsCast == Played => (cipher[Result].value = 1 <=> coinIsA)
AnswersAreCoin ==
  \A r \in Request : asked[r] # Null =>
    /\ Played
    /\ cipher[asked[r].ct] # Null
    /\ asked[r].done /\ asked[r].ct = Result => asked[r].value = cipher[Result].value

GameInv == GameOK /\ Committed /\ CoinIsCast /\ AnswersAreCoin /\ RevealedIsCoin

(* A program that pays stores a result when it pays a game, and only then: *)
(* that keeps it from paying twice.  The Quasar program may store 0.       *)
ResultIsStored ==
  sdk # "quasar" /\ game # Null =>
    (game.revealed_result = 0 <=> (game.is_active \/ ~game.played))

PurseOK == escrow \in Nat /\ wallet \in [Person -> Nat]

FInv == GameInv /\ PurseOK /\ ResultIsStored /\ EscrowHeld

USE ClientAssumption, CoinFlipAssumption, CoinFlipNull

-----------------------------------------------------------------------------
(* An account that exists is not Null.                                     *)
LEMMA AccountsExist ==
  /\ \A x \in GameAccount : x # Null
  /\ \A x \in CipherAccount : x # Null
  /\ \A x \in RequestAccount : x # Null
  /\ \A p \in Person \cup Ciphertext : p # Null
OBVIOUS

(* The graph gives 1 when two commitments differ in the last bit only.     *)
LEMMA CoinIsXor ==
  ASSUME NEW a \in 0..3, NEW b \in 0..3
  PROVE  /\ coin_flip_graph(a, b)[Result] \in 0..3
         /\ coin_flip_graph(a, b)[Result] = 1 <=> CoinFallsForA(a, b)
<1>1. coin_flip_graph(a, b)[Result] = 2 * ((a \div 2 + b \div 2) % 2) + ((a + b) % 2)
  BY DEF coin_flip_graph
<1>2. a \in {0, 1, 2, 3} /\ b \in {0, 1, 2, 3}
  OBVIOUS
<1>. QED
  BY <1>1, <1>2 DEF CoinFallsForA

(* What each assignment to the game leaves alone: play's.                  *)
LEMMA PlayChange ==
  ASSUME game \in GameAccount, NEW p \in Person,
         game' = [game EXCEPT !.side_b = p, !.played = TRUE]
  PROVE  /\ game' \in GameAccount /\ game' # Null
         /\ game'.side_b = p /\ game'.played
         /\ game'.side_a = game.side_a /\ game'.bet_lamports = game.bet_lamports
         /\ game'.is_active = game.is_active /\ game'.revealed_result = game.revealed_result
<1>1. game' \in GameAccount
  BY DEF GameAccount
<1>2. /\ game'.side_b = p /\ game'.played
      /\ game'.side_a = game.side_a /\ game'.bet_lamports = game.bet_lamports
      /\ game'.is_active = game.is_active /\ game'.revealed_result = game.revealed_result
  BY DEF GameAccount
<1>. QED
  BY <1>1, <1>2, AccountsExist

(* request_result_decryption's assignment.                                 *)
LEMMA PendingChange ==
  ASSUME game \in GameAccount, NEW d \in Digest, game' = [game EXCEPT !.pending_digest = d]
  PROVE  /\ game' \in GameAccount /\ game' # Null
         /\ game'.side_b = game.side_b /\ game'.played = game.played
         /\ game'.side_a = game.side_a /\ game'.bet_lamports = game.bet_lamports
         /\ game'.is_active = game.is_active /\ game'.revealed_result = game.revealed_result
<1>1. game' \in GameAccount
  BY DEF GameAccount
<1>2. /\ game'.side_b = game.side_b /\ game'.played = game.played
      /\ game'.side_a = game.side_a /\ game'.bet_lamports = game.bet_lamports
      /\ game'.is_active = game.is_active /\ game'.revealed_result = game.revealed_result
  BY DEF GameAccount
<1>. QED
  BY <1>1, <1>2, AccountsExist

(* reveal_result's assignment.                                             *)
LEMMA ResultChange ==
  ASSUME game \in GameAccount, NEW n \in Nat,
         game' = [game EXCEPT !.is_active = FALSE, !.revealed_result = n]
  PROVE  /\ game' \in GameAccount /\ game' # Null
         /\ game'.side_b = game.side_b /\ game'.played = game.played
         /\ game'.side_a = game.side_a /\ game'.bet_lamports = game.bet_lamports
         /\ ~game'.is_active /\ game'.revealed_result = n
<1>1. game' \in GameAccount
  BY DEF GameAccount
<1>2. /\ game'.side_b = game.side_b /\ game'.played = game.played
      /\ game'.side_a = game.side_a /\ game'.bet_lamports = game.bet_lamports
      /\ ~game'.is_active /\ game'.revealed_result = n
  BY DEF GameAccount
<1>. QED
  BY <1>1, <1>2, AccountsExist

(* cancel_game's assignment.                                               *)
LEMMA ActiveChange ==
  ASSUME game \in GameAccount, game' = [game EXCEPT !.is_active = FALSE]
  PROVE  /\ game' \in GameAccount /\ game' # Null
         /\ game'.side_b = game.side_b /\ game'.played = game.played
         /\ game'.side_a = game.side_a /\ game'.bet_lamports = game.bet_lamports
         /\ ~game'.is_active /\ game'.revealed_result = game.revealed_result
<1>1. game' \in GameAccount
  BY DEF GameAccount
<1>2. /\ game'.side_b = game.side_b /\ game'.played = game.played
      /\ game'.side_a = game.side_a /\ game'.bet_lamports = game.bet_lamports
      /\ ~game'.is_active /\ game'.revealed_result = game.revealed_result
  BY DEF GameAccount
<1>. QED
  BY <1>1, <1>2, AccountsExist

-----------------------------------------------------------------------------
(* The game and its coin.                                                  *)

(* A client's commitment is a new ciphertext, and so not the result of a   *)
(* game that is played; so is the result the Anchor program's client makes. *)
LEMMA NewInput ==
  ASSUME GameInv, NEW p \in Ciphertext, NEW v \in 0..3, CreateInput(p, v),
         UNCHANGED <<game, historyVars>>
  PROVE  GameInv'
<1>. USE DEF GameInv, CreateInput, historyVars
<1>1. \A c \in Ciphertext : c # p => cipher'[c] = cipher[c]
  BY DEF GameOK, ClientTypeOK
<1>2. cipher'[p] = [value |-> v, digest |-> v, due |-> FALSE] /\ cipher'[p] \in CipherAccount
  BY DEF GameOK, ClientTypeOK, CipherAccount, Digest
<1>3. GameOK'
  BY <1>1, <1>2 DEF GameOK, ClientTypeOK, CipherAccount
<1>4. Played' = Played /\ CanJoin' = CanJoin
  BY DEF Played, CanJoin
<1>5. Played => Result # p /\ cipher'[Result] = cipher[Result]
  BY <1>1 DEF Committed
<1>6. Committed'
  BY <1>1, <1>2, <1>4, <1>5, AccountsExist DEF Committed
<1>7. AnswersAreCoin'
  <2>1. \A r \in Request : asked[r] # Null => asked[r].ct \in Ciphertext
    BY DEF GameOK, ClientTypeOK, RequestAccount
  <2>. QED
    BY <1>1, <1>2, <1>4, <1>5, <2>1, AccountsExist DEF AnswersAreCoin
<1>8. CoinIsCast' /\ RevealedIsCoin'
  BY <1>4, <1>5 DEF CoinIsCast, RevealedIsCoin
<1>. QED
  BY <1>3, <1>6, <1>7, <1>8

(* create_game: a game nobody has joined.                                  *)
LEMMA OpenedGame ==
  ASSUME GameInv, NEW a \in Person, NEW c \in Ciphertext, NEW bet \in Bet, Opened(a, c, bet)
  PROVE  /\ GameInv'
         /\ game = Null /\ game' # Null
         /\ ~Played /\ ~Played' /\ CanJoin' /\ game'.is_active /\ ~game'.played
         /\ game'.side_a = a /\ game'.bet_lamports = bet /\ game'.revealed_result = 0
<1>. USE DEF GameInv, Opened, historyVars
<1>1. game' = NewGame(a, c, bet) /\ game' \in GameAccount /\ game' # Null
  <2>1. NewGame(a, c, bet) \in GameAccount
    BY DEF NewGame, GameAccount, Digest
  <2>. QED
    BY <2>1, AccountsExist
<1>2. /\ game'.is_active /\ ~game'.played
      /\ game'.side_a = a /\ game'.bet_lamports = bet /\ game'.revealed_result = 0
  BY <1>1 DEF NewGame
<1>3. ~Played /\ ~Played' /\ CanJoin'
  BY <1>1, <1>2 DEF Played, CanJoin
<1>4. /\ \A x \in Ciphertext \ {Result} : cipher'[x] = cipher[x]
      /\ cipher'[Result] # Null => cipher'[Result].value \in 0..3
      /\ asked' = asked /\ cipher' \in [Ciphertext -> CipherAccount \cup {Null}]
  <2>1. CASE UNCHANGED clientVars
    BY <2>1 DEF clientVars, GameOK, ClientTypeOK, Committed
  <2>2. CASE CreateZeros({Result})
    <3>1. [value |-> 0, digest |-> ZeroDigest, due |-> FALSE] \in CipherAccount
      BY DEF CipherAccount, Digest
    <3>2. /\ \A x \in Ciphertext : cipher'[x] = IF x \in {Result} THEN
                [value |-> 0, digest |-> ZeroDigest, due |-> FALSE] ELSE cipher[x]
          /\ cipher' = [x \in Ciphertext |-> cipher'[x]]
          /\ asked' = asked
      BY <2>2 DEF CreateZeros, GameOK, ClientTypeOK
    <3>3. cipher' \in [Ciphertext -> CipherAccount \cup {Null}]
      BY <3>1, <3>2 DEF GameOK, ClientTypeOK
    <3>. QED
      BY <3>2, <3>3
  <2>. QED
    BY <2>1, <2>2
<1>5. GameOK'
  BY <1>1, <1>4 DEF GameOK, ClientTypeOK
<1>6. Committed'
  BY <1>3, <1>4 DEF Committed
<1>7. CoinIsCast' /\ RevealedIsCoin'
  BY <1>3 DEF CoinIsCast, RevealedIsCoin
<1>8. AnswersAreCoin'
  BY <1>3, <1>4 DEF AnswersAreCoin
<1>. QED
  BY <1>1, <1>2, <1>3, <1>5, <1>6, <1>7, <1>8

(* play: the graph writes the coin, from the commitments as they are.      *)
LEMMA JoinedGame ==
  ASSUME GameInv, NEW b \in Person, NEW commit_b \in Ciphertext, Joined(b, commit_b)
  PROVE  /\ GameInv'
         /\ game \in GameAccount /\ game # Null /\ CanJoin /\ ~Played
         /\ game.side_a \in Person /\ game.bet_lamports \in Nat
         /\ game' # Null /\ Played' /\ ~CanJoin'
         /\ game'.side_b = b /\ game'.played /\ game'.is_active
         /\ game'.side_a = game.side_a /\ game'.bet_lamports = game.bet_lamports
         /\ game'.revealed_result = game.revealed_result
<1>. USE DEF GameInv, Joined, Flip
<1>1. /\ game \in GameAccount /\ game # Null /\ CanJoin /\ ~Played
      /\ game.side_a \in Person /\ game.commit_a \in Ciphertext /\ game.bet_lamports \in Nat
      /\ ~game.played /\ game.is_active
  BY DEF GameOK, GameAccount, CanJoin, Played
<1>2. /\ game' \in GameAccount /\ game' # Null
      /\ game'.side_b = b /\ game'.played
      /\ game'.side_a = game.side_a /\ game'.bet_lamports = game.bet_lamports
      /\ game'.is_active = game.is_active /\ game'.revealed_result = game.revealed_result
  BY <1>1, PlayChange
<1>3. Played' /\ ~CanJoin'
  BY <1>2 DEF Played, CanJoin
<1>. DEFINE va == cipher[game.commit_a].value
            vb == cipher[commit_b].value
            coin == coin_flip_graph(va, vb)[Result]
<1>4. va \in 0..3 /\ vb \in 0..3
  BY <1>1 DEF Committed
<1>5. coin \in 0..3 /\ (coin = 1 <=> coinIsA') /\ coinIsA' \in BOOLEAN
  <2>1. coinIsA' = CoinFallsForA(va, vb)
    OBVIOUS
  <2>2. coin \in 0..3 /\ (coin = 1 <=> CoinFallsForA(va, vb))
    BY <1>4, CoinIsXor
  <2>. QED
    BY <2>1, <2>2 DEF CoinFallsForA
<1>6. /\ cipher[Result] # Null
      /\ \A c \in Ciphertext :
           cipher'[c] = IF c = Result THEN [value |-> coin, digest |-> ZeroDigest, due |-> TRUE]
                        ELSE cipher[c]
      /\ asked' = asked /\ UNCHANGED <<lastAsked, decidedBy>>
  BY DEF ExecuteGraph, coin_flip_graph
<1>. HIDE DEF coin
<1>7. cipher'[Result] \in CipherAccount /\ cipher'[Result].value = coin
  <2>1. cipher'[Result] = [value |-> coin, digest |-> ZeroDigest, due |-> TRUE]
    BY <1>6
  <2>. QED
    BY <1>5, <2>1 DEF CipherAccount, Digest
<1>8. cipher' \in [Ciphertext -> CipherAccount \cup {Null}]
  BY <1>6, <1>7 DEF ExecuteGraph, GameOK, ClientTypeOK
<1>9. GameOK'
  BY <1>2, <1>5, <1>6, <1>8 DEF GameOK, ClientTypeOK
<1>10. Committed'
  BY <1>2, <1>5, <1>6, <1>7, AccountsExist DEF Committed
<1>11. AnswersAreCoin'
  BY <1>1, <1>6 DEF AnswersAreCoin
<1>12. CoinIsCast' /\ RevealedIsCoin'
  BY <1>1, <1>2, <1>5, <1>7 DEF CoinIsCast, RevealedIsCoin
<1>. QED
  BY <1>1, <1>2, <1>3, <1>9, <1>10, <1>11, <1>12

(* request_result_decryption: a new request has no answer yet, and the     *)
(* game changes in its digest alone.                                       *)
LEMMA RequestedGame ==
  ASSUME GameInv, NEW r \in Request, NEW c \in Ciphertext, Requested(r, c)
  PROVE  /\ GameInv'
         /\ Played /\ Played' /\ CanJoin' = CanJoin
         /\ game # Null /\ game' # Null
         /\ game'.side_b = game.side_b /\ game'.played = game.played
         /\ game'.side_a = game.side_a /\ game'.bet_lamports = game.bet_lamports
         /\ game'.is_active = game.is_active /\ game'.revealed_result = game.revealed_result
<1>. USE DEF GameInv, Requested, RequestDecryption
<1>1. cipher[c] \in CipherAccount /\ Snapshot(c) \in Digest
  BY DEF GameOK, ClientTypeOK, Snapshot, CipherAccount
<1>2. /\ game \in GameAccount /\ game # Null /\ game' \in GameAccount /\ game' # Null
      /\ game'.side_b = game.side_b /\ game'.played = game.played
      /\ game'.side_a = game.side_a /\ game'.bet_lamports = game.bet_lamports
      /\ game'.is_active = game.is_active /\ game'.revealed_result = game.revealed_result
  BY <1>1, PendingChange DEF GameOK, Played
<1>3. Played /\ Played' /\ CanJoin' = CanJoin
  BY <1>2 DEF Played, CanJoin
<1>4. GameOK'
  BY <1>1, <1>2 DEF GameOK, ClientTypeOK, RequestAccount
<1>5. Committed' /\ CoinIsCast' /\ RevealedIsCoin'
  BY <1>2, <1>3 DEF Committed, CoinIsCast, RevealedIsCoin
<1>6. AnswersAreCoin'
  <2>1. ~asked'[r].done /\ asked'[r].ct = c
    BY DEF GameOK, ClientTypeOK
  <2>2. \A q \in Request \ {r} : asked'[q] = asked[q]
    BY DEF GameOK, ClientTypeOK
  <2>. QED
    BY <1>3, <2>1, <2>2 DEF AnswersAreCoin
<1>. QED
  BY <1>2, <1>3, <1>4, <1>5, <1>6

(* What the digest check lets through: an answer of the result names the   *)
(* side the coin fell for, any other one of the two sides.                 *)
LEMMA AnswerIsCoin ==
  ASSUME GameInv, NEW r \in Request, Played, Verified(r, game.pending_digest)
  PROVE  /\ asked[r].value \in Nat
         /\ game.side_a \in Person /\ game.side_b \in Person
         /\ Side(asked[r].value) \in {game.side_a, game.side_b}
         /\ asked[r].ct = Result =>
              /\ SideAWins(asked[r].value) <=> coinIsA
              /\ Side(asked[r].value) = CoinFellFor
<1>. USE DEF GameInv, Verified
<1>1. asked[r].value \in Nat /\ (asked[r].ct = Result => asked[r].value = cipher[Result].value)
  BY DEF GameOK, ClientTypeOK, RequestAccount, AnswersAreCoin
<1>2. asked[r].ct = Result => (SideAWins(asked[r].value) <=> coinIsA)
  BY <1>1 DEF SideAWins, CoinIsCast
<1>3. game.side_a \in Person /\ game.side_b \in Person
  BY DEF GameOK, GameAccount, Committed, Played
<1>. QED
  BY <1>1, <1>2, <1>3 DEF Side, CoinFellFor

(* reveal_result ends the game and stores the side that has won.           *)
LEMMA RevealedGame ==
  ASSUME GameInv, NEW r \in Request, NEW n \in Nat, Revealed(r, n),
         asked[r].ct = Result => (n = 1 <=> coinIsA)
  PROVE  /\ GameInv'
         /\ game \in GameAccount /\ game # Null /\ game.bet_lamports \in Nat
         /\ game.played /\ Played /\ Played' /\ ~CanJoin /\ ~CanJoin' /\ game' # Null
         /\ game'.played /\ ~game'.is_active /\ game'.revealed_result = n
         /\ game'.side_a = game.side_a /\ game'.bet_lamports = game.bet_lamports
         /\ game'.side_b = game.side_b /\ decidedBy' = asked[r].ct
         /\ CoinFellFor' = CoinFellFor
<1>. USE DEF GameInv, Revealed, Over
<1>1. game \in GameAccount /\ game # Null /\ game.bet_lamports \in Nat /\ game.played
  BY DEF GameOK, GameAccount, Played
<1>2. /\ game' \in GameAccount /\ game' # Null
      /\ game'.side_b = game.side_b /\ game'.played = game.played
      /\ game'.side_a = game.side_a /\ game'.bet_lamports = game.bet_lamports
      /\ ~game'.is_active /\ game'.revealed_result = n
  BY <1>1, ResultChange
<1>3. UNCHANGED <<cipher, asked, coinIsA, lastAsked>> /\ decidedBy' = asked[r].ct
  BY DEF clientVars
<1>4. CoinFellFor' = CoinFellFor
  BY <1>2, <1>3 DEF CoinFellFor
<1>5. Played /\ Played' /\ ~CanJoin /\ ~CanJoin'
  BY <1>1, <1>2 DEF Played, CanJoin
<1>6. asked[r].ct \in Ciphertext
  BY DEF Verified, GameOK, ClientTypeOK, RequestAccount
<1>7. GameOK'
  BY <1>2, <1>3, <1>6 DEF GameOK, ClientTypeOK
<1>8. Committed' /\ CoinIsCast' /\ AnswersAreCoin'
  BY <1>2, <1>3, <1>5 DEF Committed, CoinIsCast, AnswersAreCoin
<1>9. RevealedIsCoin'
  BY <1>2, <1>3 DEF RevealedIsCoin
<1>. QED
  BY <1>1, <1>2, <1>3, <1>4, <1>5, <1>7, <1>8, <1>9

(* cancel_game ends a game nobody has joined.                              *)
LEMMA CancelledGame ==
  ASSUME GameInv, Cancelled
  PROVE  /\ GameInv'
         /\ game \in GameAccount /\ game # Null
         /\ game.side_a \in Person /\ game.bet_lamports \in Nat
         /\ ~Played /\ ~Played' /\ CanJoin /\ ~CanJoin'
         /\ game' # Null /\ ~game'.is_active /\ ~game'.played
         /\ game'.side_a = game.side_a
         /\ game'.revealed_result = game.revealed_result
<1>. USE DEF GameInv, Cancelled, historyVars
<1>1. /\ game \in GameAccount /\ game # Null /\ ~game.played
      /\ game.side_a \in Person /\ game.bet_lamports \in Nat
  BY DEF GameOK, CanJoin, GameAccount
<1>2. /\ game' \in GameAccount /\ game' # Null
      /\ game'.side_b = game.side_b /\ game'.played = game.played
      /\ game'.side_a = game.side_a /\ game'.bet_lamports = game.bet_lamports
      /\ ~game'.is_active /\ game'.revealed_result = game.revealed_result
  BY <1>1, ActiveChange
<1>3. UNCHANGED <<cipher, asked>>
  BY DEF clientVars
<1>4. ~Played /\ ~Played' /\ CanJoin /\ ~CanJoin'
  BY <1>1, <1>2 DEF Played, CanJoin
<1>5. GameOK'
  BY <1>2, <1>3 DEF GameOK, ClientTypeOK
<1>6. Committed' /\ CoinIsCast' /\ RevealedIsCoin' /\ AnswersAreCoin'
  BY <1>3, <1>4 DEF Committed, CoinIsCast, RevealedIsCoin, AnswersAreCoin
<1>. QED
  BY <1>1, <1>2, <1>4, <1>5, <1>6

(* The executor leaves every value and answers with values.                *)
LEMMA ExecutedGame ==
  ASSUME GameInv, ExecutorStep
  PROVE  GameInv'
<1>. USE DEF GameInv, ExecutorStep, ProcessPending
<1>1. \A c \in Ciphertext :
        /\ cipher[c] = Null => cipher'[c] = Null
        /\ cipher[c] # Null => /\ cipher[c] \in CipherAccount
                               /\ cipher'[c] \in CipherAccount
                               /\ cipher'[c].value = cipher[c].value
  BY DEF GameOK, ClientTypeOK, CipherAccount, Digest
<1>2. \A r \in Request :
        /\ asked[r] = Null => asked'[r] = Null
        /\ asked[r] # Null =>
             /\ asked[r] \in RequestAccount
             /\ asked'[r] \in RequestAccount
             /\ asked'[r].ct = asked[r].ct
             /\ asked[r].ct = Result => asked'[r].value = cipher[Result].value
  <2>. TAKE r \in Request
  <2>1. CASE asked[r] = Null
    BY <2>1
  <2>2. CASE asked[r] # Null
    <3>1. asked[r] \in RequestAccount /\ asked[r].ct \in Ciphertext
          /\ (asked[r].done /\ asked[r].ct = Result => asked[r].value = cipher[Result].value)
      BY <2>2 DEF AnswersAreCoin, GameOK, ClientTypeOK, RequestAccount
    <3>2. cipher[asked[r].ct].value \in Nat
      BY <1>1, <2>2, <3>1 DEF AnswersAreCoin, CipherAccount
    <3>. QED
      BY <2>2, <3>1, <3>2 DEF RequestAccount
  <2>. QED
    BY <2>1, <2>2
<1>3. UNCHANGED <<game, lamports, historyVars>>
  OBVIOUS
<1>4. cipher' \in [Ciphertext -> CipherAccount \cup {Null}]
  BY <1>1
<1>5. asked' \in [Request -> RequestAccount \cup {Null}]
  BY <1>2
<1>. HIDE DEF ExecutorStep, ProcessPending
<1>. USE DEF historyVars
<1>6. GameOK'
  BY <1>3, <1>4, <1>5 DEF GameOK, ClientTypeOK
<1>7. Played' = Played /\ CanJoin' = CanJoin
  BY <1>3 DEF Played, CanJoin
<1>8. \A c \in Ciphertext :
        /\ cipher[c] # Null => cipher'[c] # Null /\ cipher'[c].value = cipher[c].value
        /\ cipher'[c] # Null => cipher[c] # Null
  BY <1>1, AccountsExist
<1>9. Committed' /\ (Played => cipher'[Result].value = cipher[Result].value)
  BY <1>3, <1>7, <1>8 DEF Committed
<1>10. CoinIsCast' /\ RevealedIsCoin'
  BY <1>3, <1>7, <1>9 DEF CoinIsCast, RevealedIsCoin
<1>11. AnswersAreCoin'
  <2>1. \A r \in Request : asked[r] # Null => asked[r].ct \in Ciphertext
    BY <1>2 DEF RequestAccount
  <2>. QED
    BY <1>2, <1>7, <1>8, <1>9, <2>1 DEF AnswersAreCoin
<1>. QED
  BY <1>6, <1>9, <1>10, <1>11

-----------------------------------------------------------------------------
(* The lamports.  What a program moves for a bet: the Quasar one nothing.  *)
Moved(bet) == IF sdk = "quasar" THEN 0 ELSE bet

(* A step of the program is one of the wager, or changes none of its       *)
(* variables.                                                              *)
WagerStep == FInv' /\ (W!WagerNext \/ UNCHANGED W!wagerVars)

(* The escrow by what the game is.                                         *)
LEMMA Held ==
  ASSUME GameOK
  PROVE  /\ game = Null => (EscrowHeld <=> escrow = 0)
         /\ game # Null /\ ~game.is_active => (EscrowHeld <=> escrow = 0)
         /\ CanJoin => (EscrowHeld <=> escrow = Moved(game.bet_lamports))
         /\ game # Null /\ game.is_active /\ game.played =>
              (EscrowHeld <=> escrow = 2 * Moved(game.bet_lamports))
BY DEF EscrowHeld, EscrowIsStakes, Moved, CanJoin

(* No lamports moved is a transfer of 0.                                   *)
LEMMA NothingMoved ==
  ASSUME PurseOK, NEW p \in Person, UNCHANGED <<escrow, wallet>>
  PROVE  Deposit(p, 0) /\ PayFromGame(p, 0)
<1>1. wallet[p] \in Nat /\ escrow \in Nat
  BY DEF PurseOK
<1>2. wallet = [wallet EXCEPT ![p] = wallet[p]]
  BY DEF PurseOK
<1>3. wallet[p] - 0 = wallet[p] /\ wallet[p] + 0 = wallet[p] /\ escrow - 0 = escrow /\ escrow + 0 = escrow
  BY <1>1
<1>. QED
  BY <1>1, <1>2, <1>3 DEF Deposit, PayFromGame

(* A deposit and a payment leave natural numbers.                          *)
LEMMA LamportsMoved ==
  ASSUME PurseOK, NEW p \in Person, NEW amount \in Nat
  PROVE  /\ Deposit(p, amount) => PurseOK'
         /\ PayFromGame(p, amount) /\ amount <= escrow => PurseOK'
<1>1. ASSUME Deposit(p, amount) PROVE PurseOK'
  <2>1. wallet[p] - amount \in Nat
    BY <1>1 DEF Deposit, PurseOK
  <2>. QED
    BY <1>1, <2>1 DEF Deposit, PurseOK
<1>2. ASSUME PayFromGame(p, amount), amount <= escrow PROVE PurseOK'
  <2>1. wallet[p] + amount \in Nat
    BY DEF PurseOK
  <2>. QED
    BY <1>2, <2>1 DEF PayFromGame, PurseOK
<1>. QED
  BY <1>1, <1>2

(* A step that moves nothing and leaves the game as it is for the wager.   *)
LEMMA QuietStep ==
  ASSUME FInv, GameInv', UNCHANGED <<escrow, wallet, sdk>>,
         game = Null <=> game' = Null,
         game # Null =>
           /\ game'.side_a = game.side_a /\ game'.bet_lamports = game.bet_lamports
           /\ game'.is_active = game.is_active /\ game'.played = game.played
           /\ game'.revealed_result = game.revealed_result /\ game'.side_b = game.side_b,
         Played => CoinFellFor' = CoinFellFor, UNCHANGED decidedBy
  PROVE  FInv' /\ UNCHANGED W!wagerVars
<1>1. Played' = Played /\ CanJoin' = CanJoin
  BY DEF Played, CanJoin
<1>2. PurseOK' /\ ResultIsStored'
  BY DEF FInv, PurseOK, ResultIsStored
<1>3. EscrowHeld'
  BY <1>1 DEF FInv, EscrowHeld, EscrowIsStakes
<1>4. phase' = phase
  BY <1>1 DEF phase, Played
<1>. QED
  BY <1>1, <1>2, <1>3, <1>4 DEF FInv, W!wagerVars

(* The first stake goes into the pot.                                      *)
LEMMA OpenStep ==
  ASSUME FInv, UNCHANGED sdk, NEW a \in Person, NEW c \in Ciphertext, NEW payer \in Person,
         NEW bet \in Bet, Opened(a, c, bet), Deposit(payer, Moved(bet))
  PROVE  WagerStep
<1>1. /\ GameInv'
      /\ game = Null /\ game' # Null
      /\ ~Played /\ ~Played' /\ CanJoin' /\ game'.is_active /\ ~game'.played
      /\ game'.side_a = a /\ game'.bet_lamports = bet /\ game'.revealed_result = 0
  BY OpenedGame DEF FInv
<1>. DEFINE stake == Moved(bet)
<1>2. stake \in Nat /\ stake \in Bet \cup {0} /\ stake = IF sdk = "quasar" THEN 0 ELSE bet
  BY DEF Moved
<1>3. escrow = 0 /\ PurseOK
  BY <1>1, Held DEF FInv, GameInv
<1>. HIDE DEF stake
<1>4. /\ PurseOK' /\ escrow' = stake
      /\ stake <= wallet[payer] /\ wallet' = [wallet EXCEPT ![payer] = @ - stake]
  <2>1. Deposit(payer, stake)
    BY DEF stake
  <2>2. PurseOK'
    BY <1>2, <1>3, <2>1, LamportsMoved
  <2>3. escrow' = stake
    BY <1>2, <1>3, <2>1 DEF Deposit
  <2>4. stake <= wallet[payer] /\ wallet' = [wallet EXCEPT ![payer] = @ - stake]
    BY <2>1 DEF Deposit
  <2>. QED
    BY <2>2, <2>3, <2>4
<1>5. ResultIsStored'
  BY <1>1 DEF ResultIsStored
<1>6. EscrowHeld'
  BY <1>1, <1>2, <1>4 DEF EscrowHeld, EscrowIsStakes
<1>7. phase = "none" /\ phase' = "open"
  BY <1>1 DEF phase, CanJoin
<1>8. W!Open(a, payer, stake)
  BY <1>1, <1>4, <1>7 DEF W!Open
<1>. QED
  BY <1>1, <1>2, <1>4, <1>5, <1>6, <1>8 DEF WagerStep, FInv, W!WagerNext

(* The pot is doubled, and the coin falls for one of the two.              *)
LEMMA JoinStep ==
  ASSUME FInv, UNCHANGED sdk, NEW b \in Person, NEW c \in Ciphertext, Joined(b, c),
         Deposit(b, Moved(game.bet_lamports))
  PROVE  WagerStep
<1>1. /\ GameInv'
      /\ game \in GameAccount /\ game # Null /\ CanJoin /\ ~Played
      /\ game.side_a \in Person /\ game.bet_lamports \in Nat
      /\ game' # Null /\ Played' /\ ~CanJoin'
      /\ game'.side_b = b /\ game'.played /\ game'.is_active
      /\ game'.side_a = game.side_a /\ game'.bet_lamports = game.bet_lamports
      /\ game'.revealed_result = game.revealed_result
  BY JoinedGame DEF FInv
<1>. DEFINE stake == Moved(game.bet_lamports)
<1>2. stake \in Nat
  BY <1>1 DEF Moved
<1>3. escrow = stake /\ PurseOK
  BY <1>1, Held DEF FInv, GameInv
<1>4. ResultIsStored'
  BY <1>1 DEF FInv, ResultIsStored, CanJoin
<1>5. PurseOK' /\ escrow' = 2 * stake
  <2>1. Deposit(b, stake)
    OBVIOUS
  <2>. HIDE DEF stake
  <2>2. PurseOK'
    BY <1>2, <1>3, <2>1, LamportsMoved
  <2>. QED
    BY <1>2, <1>3, <2>1, <2>2 DEF Deposit
<1>6. EscrowHeld'
  BY <1>1, <1>5 DEF EscrowHeld, EscrowIsStakes, Moved
<1>. HIDE DEF stake
<1>7. escrow <= wallet[b] /\ wallet' = [wallet EXCEPT ![b] = @ - escrow] /\ escrow' = 2 * escrow
  BY <1>3, <1>5 DEF Deposit, stake
<1>8. phase = "open" /\ phase' = "matched"
  BY <1>1 DEF phase
<1>9. CoinFellFor' \in {game.side_a, b}
  BY <1>1 DEF CoinFellFor
<1>10. W!Match(b)
  BY <1>1, <1>7, <1>8, <1>9 DEF W!Match
<1>. QED
  BY <1>1, <1>4, <1>5, <1>6, <1>10 DEF WagerStep, FInv, W!WagerNext

(* The pot is paid: by an answer of the result to the side the coin fell   *)
(* for, by any other to one of the sides.                                  *)
LEMMA RevealStep ==
  ASSUME FInv, UNCHANGED sdk, NEW r \in Request, NEW n \in Nat, Revealed(r, n),
         NEW to, to \in {game.side_a, game.side_b},
         asked[r].ct = Result => (n = 1 <=> coinIsA) /\ to = CoinFellFor,
         game.is_active, PayFromGame(to, 2 * Moved(game.bet_lamports)),
         sdk # "quasar" => n # 0
  PROVE  WagerStep
<1>1. /\ GameInv'
      /\ game \in GameAccount /\ game # Null /\ game.bet_lamports \in Nat
      /\ game.played /\ Played /\ Played' /\ ~CanJoin /\ ~CanJoin' /\ game' # Null
      /\ game'.played /\ ~game'.is_active /\ game'.revealed_result = n
      /\ game'.side_a = game.side_a /\ game'.bet_lamports = game.bet_lamports
      /\ game'.side_b = game.side_b /\ decidedBy' = asked[r].ct
      /\ CoinFellFor' = CoinFellFor
  BY RevealedGame DEF FInv
<1>2. to \in Person
  BY AnswerIsCoin DEF FInv, Revealed
<1>. DEFINE pot == 2 * Moved(game.bet_lamports)
<1>3. pot \in Nat
  BY <1>1 DEF Moved
<1>4. escrow = pot /\ PurseOK
  BY <1>1, Held DEF FInv, GameInv
<1>. HIDE DEF pot
<1>5. PurseOK' /\ escrow' = 0 /\ wallet' = [wallet EXCEPT ![to] = @ + escrow]
  <2>1. PayFromGame(to, pot)
    BY DEF pot
  <2>2. PurseOK'
    BY <1>2, <1>3, <1>4, <2>1, LamportsMoved
  <2>3. escrow' = 0
    BY <1>3, <1>4, <2>1 DEF PayFromGame
  <2>4. wallet' = [wallet EXCEPT ![to] = @ + escrow]
    BY <1>4, <2>1 DEF PayFromGame
  <2>. QED
    BY <2>2, <2>3, <2>4
<1>6. ResultIsStored'
  BY <1>1 DEF ResultIsStored
<1>7. EscrowHeld'
  BY <1>1, <1>5 DEF EscrowHeld, EscrowIsStakes, CanJoin
<1>8. CASE asked[r].ct = Result
  <2>1. phase = "matched" /\ phase' = "paid"
    BY <1>1, <1>8 DEF phase
  <2>2. W!Settle
    BY <1>1, <1>5, <1>8, <2>1 DEF W!Settle, W!PayOut
  <2>. QED
    BY <1>1, <1>5, <1>6, <1>7, <2>2 DEF WagerStep, FInv, W!WagerNext
<1>9. CASE asked[r].ct # Result
  <2>1. phase = "matched" /\ phase' = "misjudged"
    BY <1>1, <1>9 DEF phase
  <2>2. W!Misjudge(to)
    BY <1>1, <1>5, <2>1 DEF W!Misjudge, W!PayOut
  <2>. QED
    BY <1>1, <1>2, <1>5, <1>6, <1>7, <2>2 DEF WagerStep, FInv, W!WagerNext
<1>. QED
  BY <1>8, <1>9

(* The Quasar program reveals a 0 again: nothing is paid, and the wager is *)
(* judged again.                                                           *)
LEMMA RevealAgain ==
  ASSUME FInv, UNCHANGED sdk, sdk = "quasar", NEW r \in Request, NEW n \in Nat, Revealed(r, n),
         asked[r].ct = Result => (n = 1 <=> coinIsA),
         ~game.is_active, UNCHANGED <<escrow, wallet>>
  PROVE  WagerStep
<1>1. /\ GameInv'
      /\ game # Null /\ Played /\ Played' /\ ~CanJoin /\ ~CanJoin' /\ game' # Null
      /\ ~game'.is_active /\ game'.side_a = game.side_a /\ game'.side_b = game.side_b
      /\ CoinFellFor' = CoinFellFor
  BY RevealedGame DEF FInv
<1>2. PurseOK' /\ ResultIsStored' /\ EscrowHeld' /\ escrow = 0
  BY DEF FInv, PurseOK, ResultIsStored, EscrowHeld
<1>3. phase \in {"paid", "misjudged"} /\ phase' \in {"paid", "misjudged"}
  BY <1>1 DEF phase
<1>4. W!JudgeAgain
  BY <1>1, <1>2, <1>3 DEF W!JudgeAgain
<1>. QED
  BY <1>1, <1>2, <1>4 DEF WagerStep, FInv, W!WagerNext

(* The one stake goes back.                                                *)
LEMMA CancelStep ==
  ASSUME FInv, UNCHANGED sdk, Cancelled, PayFromGame(game.side_a, Moved(game.bet_lamports))
  PROVE  WagerStep
<1>1. /\ GameInv'
      /\ game \in GameAccount /\ game # Null
      /\ game.side_a \in Person /\ game.bet_lamports \in Nat
      /\ ~Played /\ ~Played' /\ CanJoin /\ ~CanJoin'
      /\ game' # Null /\ ~game'.is_active /\ ~game'.played
      /\ game'.side_a = game.side_a
      /\ game'.revealed_result = game.revealed_result
  BY CancelledGame DEF FInv
<1>. DEFINE stake == Moved(game.bet_lamports)
<1>2. stake \in Nat
  BY <1>1 DEF Moved
<1>3. escrow = stake /\ PurseOK
  BY <1>1, Held DEF FInv, GameInv
<1>. HIDE DEF stake
<1>4. PurseOK' /\ escrow' = 0 /\ wallet' = [wallet EXCEPT ![game.side_a] = @ + escrow]
  <2>1. PayFromGame(game.side_a, stake)
    BY DEF stake
  <2>2. PurseOK'
    BY <1>1, <1>2, <1>3, <2>1, LamportsMoved
  <2>3. escrow' = 0
    BY <1>2, <1>3, <2>1 DEF PayFromGame
  <2>4. wallet' = [wallet EXCEPT ![game.side_a] = @ + escrow]
    BY <1>3, <2>1 DEF PayFromGame
  <2>. QED
    BY <2>2, <2>3, <2>4
<1>5. ResultIsStored'
  BY <1>1 DEF FInv, ResultIsStored, CanJoin
<1>6. EscrowHeld'
  BY <1>1, <1>4 DEF EscrowHeld, EscrowIsStakes, CanJoin
<1>7. phase = "open" /\ phase' = "refunded"
  BY <1>1 DEF phase
<1>8. W!Refund
  BY <1>1, <1>4, <1>7 DEF W!Refund, W!PayOut
<1>. QED
  BY <1>1, <1>4, <1>5, <1>6, <1>8 DEF WagerStep, FInv, W!WagerNext

-----------------------------------------------------------------------------
(* The calls of clients, the executor, and the instructions every program  *)
(* has: none moves lamports.                                               *)
LEMMA InputInstruction ==
  ASSUME FInv, UNCHANGED sdk, NEW c \in Ciphertext, NEW v \in 0..3, CreateInput(c, v),
         UNCHANGED <<game, lamports, historyVars>>
  PROVE  WagerStep
<1>1. GameInv'
  BY NewInput DEF FInv
<1>2. CoinFellFor' = CoinFellFor
  BY DEF CoinFellFor, historyVars
<1>. QED
  BY <1>1, <1>2, QuietStep DEF WagerStep, lamports, historyVars

LEMMA ExecutorInstruction ==
  ASSUME FInv, UNCHANGED sdk, ExecutorStep
  PROVE  WagerStep
<1>1. GameInv'
  BY ExecutedGame DEF FInv
<1>2. UNCHANGED <<game, escrow, wallet, coinIsA, decidedBy>>
  BY DEF ExecutorStep, lamports, historyVars
<1>3. CoinFellFor' = CoinFellFor
  BY <1>2 DEF CoinFellFor
<1>. QED
  BY <1>1, <1>2, <1>3, QuietStep DEF WagerStep

LEMMA RequestInstruction ==
  ASSUME FInv, UNCHANGED sdk, NEW r \in Request, NEW c \in Ciphertext, RequestResult(r, c)
  PROVE  WagerStep
<1>1. Requested(r, c) /\ UNCHANGED <<escrow, wallet>>
  BY DEF RequestResult, Requested, lamports
<1>2. /\ GameInv'
      /\ game # Null /\ game' # Null
      /\ game'.side_b = game.side_b /\ game'.played = game.played
      /\ game'.side_a = game.side_a /\ game'.bet_lamports = game.bet_lamports
      /\ game'.is_active = game.is_active /\ game'.revealed_result = game.revealed_result
  BY <1>1, RequestedGame DEF FInv
<1>3. UNCHANGED <<coinIsA, decidedBy>>
  BY <1>1 DEF Requested
<1>4. CoinFellFor' = CoinFellFor
  BY <1>2, <1>3 DEF CoinFellFor
<1>. QED
  BY <1>1, <1>2, <1>3, <1>4, QuietStep DEF WagerStep

(* The instructions of a program that moves lamports.                      *)
LEMMA CreateInstruction ==
  ASSUME FInv, UNCHANGED sdk, sdk # "quasar",
         NEW a \in Person, NEW c \in Ciphertext, NEW payer \in Person, NEW bet \in Bet,
         CreateGame(a, c, payer, bet) \/ anchor_create_game(a, c, payer, bet)
  PROVE  WagerStep
<1>1. Opened(a, c, bet) /\ Deposit(payer, bet)
  BY DEF CreateGame, anchor_create_game, Opened
<1>2. Moved(bet) = bet
  BY DEF Moved
<1>. QED
  BY <1>1, <1>2, OpenStep

LEMMA PlayInstruction ==
  ASSUME FInv, UNCHANGED sdk, sdk # "quasar", NEW b \in Person, NEW c \in Ciphertext, Play(b, c)
  PROVE  WagerStep
<1>1. Joined(b, c) /\ Deposit(b, game.bet_lamports)
  BY DEF Play, Joined
<1>2. Moved(game.bet_lamports) = game.bet_lamports
  BY DEF Moved
<1>. QED
  BY <1>1, <1>2, JoinStep

LEMMA RevealInstruction ==
  ASSUME FInv, UNCHANGED sdk, sdk # "quasar", NEW r \in Request, RevealResult(r)
  PROVE  WagerStep
<1>. DEFINE to == Side(asked[r].value)
            side == IF SideAWins(asked[r].value) THEN 1 ELSE 2
<1>1. /\ to \in {game.side_a, game.side_b}
      /\ asked[r].ct = Result => (SideAWins(asked[r].value) <=> coinIsA) /\ to = CoinFellFor
  BY AnswerIsCoin DEF FInv, RevealResult
<1>2. side \in Nat /\ side # 0 /\ (asked[r].ct = Result => (side = 1 <=> coinIsA))
  BY <1>1
<1>3. Revealed(r, side) /\ game.is_active
  BY DEF RevealResult, Revealed, FInv, ResultIsStored, Played
<1>4. PayFromGame(to, 2 * Moved(game.bet_lamports))
  BY DEF RevealResult, Moved
<1>. HIDE DEF side, to
<1>. QED
  BY <1>1, <1>2, <1>3, <1>4, RevealStep

LEMMA CancelInstruction ==
  ASSUME FInv, UNCHANGED sdk, sdk # "quasar", NEW p \in Person, CancelGame(p)
  PROVE  WagerStep
<1>1. Cancelled /\ PayFromGame(game.side_a, game.bet_lamports)
  BY DEF CancelGame, Cancelled
<1>2. Moved(game.bet_lamports) = game.bet_lamports
  BY DEF Moved
<1>. QED
  BY <1>1, <1>2, CancelStep

(* The Quasar program's.                                                   *)
LEMMA QuasarCreate ==
  ASSUME FInv, UNCHANGED sdk, sdk = "quasar", NEW a \in Person, NEW c \in Ciphertext,
         NEW bet \in Bet, quasar_create_game(a, c, bet)
  PROVE  WagerStep
<1>1. Opened(a, c, bet) /\ UNCHANGED <<escrow, wallet>>
  BY DEF quasar_create_game, Opened, lamports
<1>2. Deposit(a, Moved(bet))
  BY <1>1, NothingMoved DEF FInv, Moved
<1>. QED
  BY <1>1, <1>2, OpenStep

LEMMA QuasarPlay ==
  ASSUME FInv, UNCHANGED sdk, sdk = "quasar", NEW b \in Person, NEW c \in Ciphertext,
         quasar_play(b, c)
  PROVE  WagerStep
<1>1. Joined(b, c) /\ UNCHANGED <<escrow, wallet>>
  BY DEF quasar_play, Joined, lamports
<1>2. Deposit(b, Moved(game.bet_lamports))
  BY <1>1, NothingMoved DEF FInv, Moved
<1>. QED
  BY <1>1, <1>2, JoinStep

LEMMA QuasarReveal ==
  ASSUME FInv, UNCHANGED sdk, sdk = "quasar", NEW r \in Request, quasar_reveal_result(r)
  PROVE  WagerStep
<1>. DEFINE n == asked[r].value
            to == Side(n)
<1>1. Revealed(r, n) /\ UNCHANGED <<escrow, wallet>>
  BY DEF quasar_reveal_result, Revealed, lamports
<1>2. /\ n \in Nat /\ to \in {game.side_a, game.side_b} /\ to \in Person
      /\ asked[r].ct = Result => (n = 1 <=> coinIsA) /\ to = CoinFellFor
  BY AnswerIsCoin DEF FInv, quasar_reveal_result, SideAWins
<1>. HIDE DEF n, to
<1>3. CASE game.is_active
  <2>1. 2 * Moved(game.bet_lamports) = 0
    BY DEF Moved
  <2>2. PayFromGame(to, 2 * Moved(game.bet_lamports))
    BY <1>1, <1>2, <2>1, NothingMoved DEF FInv
  <2>. QED
    BY <1>1, <1>2, <1>3, <2>2, RevealStep
<1>4. CASE ~game.is_active
  BY <1>1, <1>2, <1>4, RevealAgain
<1>. QED
  BY <1>3, <1>4

LEMMA QuasarCancel ==
  ASSUME FInv, UNCHANGED sdk, sdk = "quasar", NEW p \in Person, quasar_cancel_game(p)
  PROVE  WagerStep
<1>1. Cancelled /\ UNCHANGED <<escrow, wallet>>
  BY DEF quasar_cancel_game, Cancelled, lamports
<1>2. game.side_a \in Person
  BY <1>1, CancelledGame DEF FInv
<1>3. PayFromGame(game.side_a, Moved(game.bet_lamports))
  BY <1>1, <1>2, NothingMoved DEF FInv, Moved
<1>. QED
  BY <1>1, <1>3, CancelStep

-----------------------------------------------------------------------------
(* The programs.                                                           *)
LEMMA PinocchioStep ==
  ASSUME FInv, In("pinocchio"), pinocchio_process_instruction
  PROVE  WagerStep
<1>. USE DEF In
<1>1. ASSUME NEW p \in Person, NEW payer \in Person, NEW c \in Ciphertext, NEW bet \in Bet,
             pinocchio_create_game(p, c, payer, bet)
      PROVE  WagerStep
  BY <1>1, CreateInstruction DEF pinocchio_create_game
<1>2. ASSUME NEW p \in Person, NEW c \in Ciphertext, pinocchio_play(p, c) PROVE WagerStep
  BY <1>2, PlayInstruction DEF pinocchio_play
<1>3. ASSUME NEW p \in Person, pinocchio_cancel_game(p) PROVE WagerStep
  BY <1>3, CancelInstruction DEF pinocchio_cancel_game
<1>4. ASSUME NEW r \in Request, NEW c \in Ciphertext, pinocchio_request_result_decryption(r, c)
      PROVE  WagerStep
  BY <1>4, RequestInstruction DEF pinocchio_request_result_decryption
<1>5. ASSUME NEW r \in Request, pinocchio_reveal_result(r) PROVE WagerStep
  BY <1>5, RevealInstruction DEF pinocchio_reveal_result
<1>. QED
  BY <1>1, <1>2, <1>3, <1>4, <1>5 DEF pinocchio_process_instruction

LEMMA NativeStep ==
  ASSUME FInv, In("native"), native_process_instruction
  PROVE  WagerStep
<1>. USE DEF In
<1>1. ASSUME NEW p \in Person, NEW payer \in Person, NEW c \in Ciphertext, NEW bet \in Bet,
             native_create_game(p, c, payer, bet)
      PROVE  WagerStep
  BY <1>1, CreateInstruction DEF native_create_game
<1>2. ASSUME NEW p \in Person, NEW c \in Ciphertext, native_play(p, c) PROVE WagerStep
  BY <1>2, PlayInstruction DEF native_play
<1>3. ASSUME NEW p \in Person, native_cancel_game(p) PROVE WagerStep
  BY <1>3, CancelInstruction DEF native_cancel_game
<1>4. ASSUME NEW r \in Request, NEW c \in Ciphertext, native_request_result_decryption(r, c)
      PROVE  WagerStep
  BY <1>4, RequestInstruction DEF native_request_result_decryption
<1>5. ASSUME NEW r \in Request, native_reveal_result(r) PROVE WagerStep
  BY <1>5, RevealInstruction DEF native_reveal_result
<1>. QED
  BY <1>1, <1>2, <1>3, <1>4, <1>5 DEF native_process_instruction

LEMMA AnchorStep ==
  ASSUME FInv, In("anchor"), anchor_process_instruction
  PROVE  WagerStep
<1>. USE DEF In
<1>1. CASE create_input(Result)
  BY <1>1, InputInstruction DEF create_input
<1>2. ASSUME NEW p \in Person, NEW payer \in Person, NEW c \in Ciphertext, NEW bet \in Bet,
             anchor_create_game(p, c, payer, bet)
      PROVE  WagerStep
  BY <1>2, CreateInstruction
<1>3. ASSUME NEW p \in Person, NEW c \in Ciphertext, anchor_play(p, c) PROVE WagerStep
  BY <1>3, PlayInstruction DEF anchor_play
<1>4. ASSUME NEW p \in Person, anchor_cancel_game(p) PROVE WagerStep
  BY <1>4, CancelInstruction DEF anchor_cancel_game
<1>5. ASSUME NEW r \in Request, NEW c \in Ciphertext, anchor_request_result_decryption(r, c)
      PROVE  WagerStep
  BY <1>5, RequestInstruction DEF anchor_request_result_decryption
<1>6. ASSUME NEW r \in Request, anchor_reveal_result(r) PROVE WagerStep
  BY <1>6, RevealInstruction DEF anchor_reveal_result
<1>. QED
  BY <1>1, <1>2, <1>3, <1>4, <1>5, <1>6 DEF anchor_process_instruction

LEMMA QuasarStep ==
  ASSUME FInv, In("quasar"), quasar_process_instruction
  PROVE  WagerStep
<1>. USE DEF In
<1>1. ASSUME NEW p \in Person, NEW c \in Ciphertext, NEW bet \in Bet, quasar_create_game(p, c, bet)
      PROVE  WagerStep
  BY <1>1, QuasarCreate
<1>2. ASSUME NEW p \in Person, NEW c \in Ciphertext, quasar_play(p, c) PROVE WagerStep
  BY <1>2, QuasarPlay
<1>3. ASSUME NEW p \in Person, quasar_cancel_game(p) PROVE WagerStep
  BY <1>3, QuasarCancel
<1>4. ASSUME NEW r \in Request, NEW c \in Ciphertext, quasar_request_result_decryption(r, c)
      PROVE  WagerStep
  BY <1>4, RequestInstruction DEF quasar_request_result_decryption
<1>5. ASSUME NEW r \in Request, quasar_reveal_result(r) PROVE WagerStep
  BY <1>5, QuasarReveal
<1>. QED
  BY <1>1, <1>2, <1>3, <1>4, <1>5 DEF quasar_process_instruction

(* Every step of whichever program, by anybody, keeps the invariant and is *)
(* a step of the wager or none.                                            *)
LEMMA FlipStep == FInv /\ [Next]_programVars => WagerStep
<1>. SUFFICES ASSUME FInv, [Next]_programVars PROVE WagerStep
  OBVIOUS
<1>1. CASE In("pinocchio") /\ pinocchio_process_instruction
  BY <1>1, PinocchioStep
<1>2. CASE In("native") /\ native_process_instruction
  BY <1>2, NativeStep
<1>3. CASE In("anchor") /\ anchor_process_instruction
  BY <1>3, AnchorStep
<1>4. CASE In("quasar") /\ quasar_process_instruction
  BY <1>4, QuasarStep
<1>5. ASSUME NEW c \in Ciphertext \ {Result}, NEW v \in Commitment, commit(c, v), UNCHANGED sdk
      PROVE  WagerStep
  BY <1>5, InputInstruction DEF commit
<1>6. CASE ExecutorStep /\ UNCHANGED sdk
  BY <1>6, ExecutorInstruction
<1>7. CASE UNCHANGED programVars
  <2>1. UNCHANGED <<cipher, asked, game, escrow, wallet, coinIsA, lastAsked, decidedBy, sdk>>
    BY <1>7 DEF programVars, flipVars, clientVars, lamports, historyVars
  <2>2. UNCHANGED <<Played, CanJoin, CoinFellFor>>
    BY <2>1 DEF Played, CanJoin, CoinFellFor
  <2>3. GameInv'
    BY <2>1, <2>2 DEF FInv, GameInv, GameOK, ClientTypeOK, Committed, CoinIsCast, AnswersAreCoin,
       RevealedIsCoin
  <2>. QED
    BY <2>1, <2>2, <2>3, QuietStep DEF WagerStep
<1>. QED
  BY <1>1, <1>2, <1>3, <1>4, <1>5, <1>6, <1>7 DEF Next

(* The invariant holds before the first instruction.                       *)
LEMMA FlipInit == ProgramInit => FInv /\ W!WagerInit
<1>. SUFFICES ASSUME ProgramInit PROVE FInv /\ W!WagerInit
  OBVIOUS
<1>. USE DEF ProgramInit, Init, ClientInit
<1>1. GameOK /\ PurseOK
  BY DEF GameOK, PurseOK, ClientTypeOK
<1>2. Committed /\ ResultIsStored /\ CoinIsCast /\ AnswersAreCoin /\ RevealedIsCoin
  BY DEF Committed, ResultIsStored, CoinIsCast, AnswersAreCoin, RevealedIsCoin, Played
<1>3. EscrowHeld
  BY DEF EscrowHeld, EscrowIsStakes, CanJoin
<1>4. W!WagerInit
  BY DEF W!WagerInit, phase, Played, CanJoin
<1>. QED
  BY <1>1, <1>2, <1>3, <1>4 DEF FInv, GameInv

LEMMA FlipInvariant == Spec => []FInv
<1>1. ProgramInit => FInv
  BY FlipInit
<1>2. FInv /\ [Next]_programVars => FInv'
  BY FlipStep DEF WagerStep
<1>. QED
  BY <1>1, <1>2, PTL DEF Spec

-----------------------------------------------------------------------------
(* The accounts keep their types; neither the escrow nor a wallet goes     *)
(* below zero.                                                             *)
THEOREM FlipTypeCorrect == Spec => []TypeOK
<1>1. FInv => TypeOK
  BY DEF FInv, GameInv, GameOK, PurseOK, TypeOK
<1>. QED
  BY <1>1, FlipInvariant, PTL

(* Whichever of play, cancel_game, requests and reveals comes first, the   *)
(* game account holds the stakes that were put down and not paid out; that *)
(* of the Quasar program, which moves none, stays empty.                   *)
THEOREM EscrowCorrect == Spec => []EscrowHeld
<1>1. FInv => EscrowHeld
  BY DEF FInv
<1>. QED
  BY <1>1, FlipInvariant, PTL

(* Whatever is asked for, how often and by whom, and whichever request     *)
(* account reveal_result is called with: if the answer it decides by is    *)
(* one of the game's result, what it stores is the exclusive or of the two *)
(* commitments.                                                            *)
THEOREM RevealedIsTheCoin == Spec => []RevealedIsCoin
<1>1. FInv => RevealedIsCoin
  BY DEF FInv, GameInv
<1>. QED
  BY <1>1, FlipInvariant, PTL

(* For any number of persons and requests each program is a wager: the pot *)
(* is paid once, whole, and to one of the sides, to the one the coin fell  *)
(* for unless the answer that decided is of another ciphertext than the    *)
(* result; or it is given back before anybody matched it.                  *)
THEOREM FlipImplementsWager == Spec => ImplementsWager
<1>1. ProgramInit => W!WagerInit
  BY FlipInit
<1>2. FInv /\ [Next]_programVars => [W!WagerNext]_W!wagerVars
  BY FlipStep DEF WagerStep
<1>. QED
  BY <1>1, <1>2, FlipInvariant, PTL DEF Spec, ImplementsWager, W!WagerSpec
=============================================================================
