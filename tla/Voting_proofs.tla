---------------------------- MODULE Voting_proofs ----------------------------
(***************************************************************************)
(* The four voting programs, for any voters and any request accounts: the  *)
(* tallies are the votes, and each program implements Ballot.              *)
(***************************************************************************)
EXTENDS VotingPrograms, FiniteSetTheorems, TLAPS

(* What an instruction does, whichever program has it: the Anchor program  *)
(* leaves the counters to its client, and loses the digest of a request.   *)
Made(a) ==
  /\ proposal = Null
  /\ CreateZeros({Yes, No}) \/ UNCHANGED clientVars
  /\ proposal' = NewProposal(a)
  /\ UNCHANGED <<record, historyVars>>

Requested(r, s, c) ==
  /\ IsClosed
  /\ RequestDecryption(r, c)
  /\ proposal' \in {proposal, [proposal EXCEPT !.pending[s] = Snapshot(c)]}
  /\ lastAsked' = [lastAsked EXCEPT ![s] = c]
  /\ UNCHANGED <<record, lastShown>>

Instruction ==
  \/ \E p \in Person : Made(p) \/ CloseProposal(p)
  \/ \E p \in Person, vote \in BOOLEAN, y, n \in Ciphertext : CastVote(p, vote, y, n)
  \/ \E c \in Ciphertext : create_input(c)
  \/ \E r \in Request, s \in Side, c \in Ciphertext : Requested(r, s, c)
  \/ \E p \in Person, r \in Request, s \in Side : RevealTally(p, r, s)
  \/ ExecutorStep

(* Nobody votes before create_proposal, and what a vote raises or a        *)
(* request asks for exists.                                                *)
Created ==
  /\ proposal = Null => record = [p \in Person |-> Null]
  /\ \A p \in Person : record[p] \in Ciphertext => cipher[record[p]] # Null
  /\ \A r \in Request : asked[r] # Null => cipher[asked[r].ct] # Null

(* A request is made after the close, so a complete answer is the final    *)
(* count.                                                                  *)
AnswersAreFinal ==
  \A r \in Request : asked[r] # Null =>
    /\ IsClosed
    /\ asked[r].done => asked[r].value = Votes(asked[r].ct)

VInv == TypeOK /\ Created /\ TallyIsVotes /\ AnswersAreFinal

USE ClientAssumption, VotingAssumption, VotingNull DEF Side

-----------------------------------------------------------------------------
(* An account that exists is not Null.                                     *)
LEMMA AccountsExist ==
  /\ \A x \in ProposalAccount : x # Null
  /\ \A x \in CipherAccount : x # Null
  /\ \A x \in RequestAccount : x # Null
  /\ \A x \in Ciphertext \cup {Spoiled} : x # Null
OBVIOUS

(* What each assignment to the proposal leaves alone: cast_vote's.         *)
LEMMA TotalChange ==
  ASSUME proposal \in ProposalAccount, proposal' = [proposal EXCEPT !.total = @ + 1]
  PROVE  /\ proposal' \in ProposalAccount /\ proposal' # Null
         /\ proposal'.total = proposal.total + 1 /\ proposal'.open = proposal.open
         /\ proposal'.revealed = proposal.revealed
<1>1. proposal' \in ProposalAccount
  BY DEF ProposalAccount
<1>2. /\ proposal'.total = proposal.total + 1 /\ proposal'.open = proposal.open
      /\ proposal'.revealed = proposal.revealed
  BY DEF ProposalAccount
<1>. QED
  BY <1>1, <1>2, AccountsExist

(* close_proposal's assignment.                                            *)
LEMMA OpenChange ==
  ASSUME proposal \in ProposalAccount, proposal' = [proposal EXCEPT !.open = FALSE]
  PROVE  /\ proposal' \in ProposalAccount /\ proposal' # Null
         /\ proposal'.total = proposal.total /\ ~proposal'.open
         /\ proposal'.revealed = proposal.revealed
<1>1. proposal' \in ProposalAccount
  BY DEF ProposalAccount
<1>2. /\ proposal'.total = proposal.total /\ ~proposal'.open
      /\ proposal'.revealed = proposal.revealed
  BY DEF ProposalAccount
<1>. QED
  BY <1>1, <1>2, AccountsExist

(* request_tally_decryption's assignment.                                  *)
LEMMA PendingChange ==
  ASSUME proposal \in ProposalAccount, NEW s \in Side, NEW d \in Digest,
         proposal' = [proposal EXCEPT !.pending[s] = d]
  PROVE  /\ proposal' \in ProposalAccount /\ proposal' # Null
         /\ proposal'.total = proposal.total /\ proposal'.open = proposal.open
         /\ proposal'.revealed = proposal.revealed
<1>1. proposal' \in ProposalAccount
  BY DEF ProposalAccount
<1>2. /\ proposal'.total = proposal.total /\ proposal'.open = proposal.open
      /\ proposal'.revealed = proposal.revealed
  BY DEF ProposalAccount
<1>. QED
  BY <1>1, <1>2, AccountsExist

(* reveal_tally's assignment.                                              *)
LEMMA RevealedChange ==
  ASSUME proposal \in ProposalAccount, NEW s \in Side, NEW n \in Nat,
         proposal' = [proposal EXCEPT !.revealed[s] = n]
  PROVE  /\ proposal' \in ProposalAccount /\ proposal' # Null
         /\ proposal'.total = proposal.total /\ proposal'.open = proposal.open
         /\ proposal'.revealed = [proposal.revealed EXCEPT ![s] = n]
         /\ proposal.revealed \in [Side -> Nat]
<1>1. proposal' \in ProposalAccount
  BY DEF ProposalAccount
<1>2. /\ proposal'.total = proposal.total /\ proposal'.open = proposal.open
      /\ proposal'.revealed = [proposal.revealed EXCEPT ![s] = n]
      /\ proposal.revealed \in [Side -> Nat]
  BY DEF ProposalAccount
<1>. QED
  BY <1>1, <1>2, AccountsExist

(* The votes for a side are a number.                                      *)
LEMMA VotesAreCounted == \A s : Votes(s) \in Nat
<1>. TAKE s
<1>1. IsFiniteSet({p \in Person : record[p] = s})
  BY FS_Subset
<1>. QED
  BY <1>1, FS_CardinalityType DEF Votes

(* A first vote of a person adds one to the votes of a side.               *)
LEMMA OneMoreVote ==
  ASSUME TypeOK, NEW p \in Person, NEW v \in Ciphertext \cup {Spoiled},
         record[p] = Null, record' = [record EXCEPT ![p] = v]
  PROVE  \A s \in Ciphertext : Votes(s)' = IF s = v THEN Votes(s) + 1 ELSE Votes(s)
<1>. TAKE s \in Ciphertext
<1>. DEFINE For == {q \in Person : record[q] = s}
            After == {q \in Person : record'[q] = s}
<1>1. IsFiniteSet(For)
  BY FS_Subset
<1>2. CASE s = v
  <2>1. After = For \cup {p} /\ p \notin For
    BY <1>2 DEF TypeOK
  <2>2. Cardinality(After) = Cardinality(For) + 1
    <3>. HIDE DEF For, After
    <3>. QED
      BY <1>1, <2>1, FS_AddElement
  <2>. QED
    BY <1>2, <2>2 DEF Votes
<1>3. CASE s # v
  <2>1. After = For
    BY <1>3 DEF TypeOK
  <2>. QED
    BY <1>3, <2>1 DEF Votes
<1>. QED
  BY <1>2, <1>3

(* It adds one to the vote records, too.                                   *)
LEMMA OneMoreRecord ==
  ASSUME TypeOK, NEW p \in Person, NEW v \in Ciphertext \cup {Spoiled},
         record[p] = Null, record' = [record EXCEPT ![p] = v]
  PROVE  Cardinality(Voted') = Cardinality(Voted) + 1
<1>1. IsFiniteSet(Voted)
  BY FS_Subset DEF Voted
<1>2. Voted' = Voted \cup {p} /\ p \notin Voted
  BY AccountsExist DEF Voted, TypeOK
<1>. QED
  BY <1>1, <1>2, FS_AddElement

(* While the records stay, so do the votes.                                *)
LEMMA SameVotes ==
  ASSUME UNCHANGED record
  PROVE  Voted' = Voted /\ \A s : Votes(s)' = Votes(s)
BY DEF Votes, Voted

-----------------------------------------------------------------------------
(* The invariant holds before the first instruction.                       *)
LEMMA VotingInit == ProgramInit => VInv
<1>. SUFFICES ASSUME ProgramInit PROVE VInv
  OBVIOUS
<1>. USE DEF ProgramInit, Init, ClientInit
<1>1. TypeOK
  BY DEF TypeOK, ClientTypeOK
<1>2. Created /\ TallyIsVotes /\ AnswersAreFinal
  BY AccountsExist DEF Created, TallyIsVotes, AnswersAreFinal
<1>. QED
  BY <1>1, <1>2 DEF VInv

(* What no record names has no votes.                                      *)
LEMMA NoVotes ==
  ASSUME NEW c, \A p \in Person : record[p] # c
  PROVE  Votes(c) = 0
<1>1. {p \in Person : record[p] = c} = {}
  OBVIOUS
<1>. QED
  BY <1>1, FS_EmptySet DEF Votes

(* create_proposal: no votes yet, and counters of zero or none.            *)
LEMMA CreateKeeps ==
  ASSUME VInv, NEW a \in Person, Made(a)
  PROVE  VInv'
<1>. USE DEF VInv, Made
<1>1. proposal' \in ProposalAccount /\ proposal' # Null /\ proposal'.total = 0
  <2>1. NewProposal(a) \in ProposalAccount /\ NewProposal(a).total = 0
    BY DEF NewProposal, ProposalAccount, Digest
  <2>. QED
    BY <2>1, AccountsExist
<1>2. \A p \in Person : record[p] = Null
  BY DEF Created
<1>3. Cardinality(Voted) = 0 /\ \A s \in Ciphertext : Votes(s) = 0
  <2>1. Voted = {}
    BY <1>2 DEF Voted
  <2>. QED
    BY <1>2, <2>1, NoVotes, AccountsExist, FS_EmptySet
<1>4. /\ cipher' \in [Ciphertext -> CipherAccount \cup {Null}]
      /\ asked' = asked
      /\ \A s \in Ciphertext : cipher'[s] # Null => cipher'[s].value = 0
  <2>1. /\ cipher \in [Ciphertext -> CipherAccount \cup {Null}]
        /\ \A s \in Ciphertext : cipher[s] # Null => cipher[s].value = 0
    BY <1>3 DEF TypeOK, ClientTypeOK, TallyIsVotes
  <2>2. CASE UNCHANGED clientVars
    BY <2>1, <2>2 DEF clientVars
  <2>3. CASE CreateZeros({Yes, No})
    BY <2>1, <2>3 DEF CreateZeros, CipherAccount, Digest
  <2>. QED
    BY <2>2, <2>3
<1>5. \A r \in Request : asked[r] = Null
  BY DEF AnswersAreFinal, IsClosed
<1>6. TypeOK'
  BY <1>1, <1>4 DEF TypeOK, ClientTypeOK, historyVars
<1>7. Created'
  BY <1>1, <1>2, <1>4, <1>5, AccountsExist DEF Created
<1>8. TallyIsVotes'
  BY <1>1, <1>3, <1>4, SameVotes DEF TallyIsVotes
<1>9. AnswersAreFinal'
  BY <1>4, <1>5 DEF AnswersAreFinal
<1>. QED
  BY <1>6, <1>7, <1>8, <1>9

(* A counter a client makes is one no vote has raised.                     *)
LEMMA InputKeeps ==
  ASSUME VInv, NEW s \in Ciphertext, create_input(s)
  PROVE  VInv'
<1>. USE DEF VInv, create_input, CreateInput
<1>1. \A c \in Ciphertext : c # s => cipher'[c] = cipher[c]
  BY DEF TypeOK, ClientTypeOK
<1>2. cipher'[s] \in CipherAccount /\ cipher'[s].value = 0
  BY DEF TypeOK, ClientTypeOK, CipherAccount, Digest
<1>3. TypeOK'
  BY <1>1, <1>2 DEF TypeOK, ClientTypeOK, historyVars
<1>4. \A p \in Person : record[p] # s
  BY DEF Created
<1>5. Created'
  BY <1>1, <1>2, AccountsExist DEF Created, TypeOK, ClientTypeOK, RequestAccount
<1>6. Votes(s) = 0
  BY <1>4, NoVotes
<1>7. TallyIsVotes'
  BY <1>1, <1>2, <1>6, SameVotes DEF TallyIsVotes
<1>8. AnswersAreFinal'
  BY SameVotes DEF AnswersAreFinal, IsClosed
<1>. QED
  BY <1>3, <1>5, <1>7, <1>8

(* cast_vote: one more vote, one more in what it raises and in the total.  *)
LEMMA CastKeeps ==
  ASSUME VInv, NEW p \in Person, NEW vote \in BOOLEAN,
         NEW y \in Ciphertext, NEW n \in Ciphertext, CastVote(p, vote, y, n)
  PROVE  VInv'
<1>. DEFINE v == VotedFor(vote, y, n)
<1>. USE DEF VInv, CastVote, ExecuteGraph, IsOpen
<1>1. v \in {y, n, Spoiled}
  BY DEF VotedFor
<1>2. \A c \in Ciphertext :
        /\ cipher[c] = Null => cipher'[c] = Null /\ c # v
        /\ cipher[c] # Null =>
             /\ cipher[c] \in CipherAccount /\ cipher'[c] \in CipherAccount
             /\ cipher'[c].value = IF c = v THEN cipher[c].value + 1 ELSE cipher[c].value
  <2>. TAKE c \in Ciphertext
  <2>1. CASE c \in {y, n}
    <3>1. cipher[c] \in CipherAccount /\ cipher[c] # Null
      BY <2>1 DEF TypeOK, ClientTypeOK
    <3>2. cipher'[c] = [value |-> cast_vote_graph(vote, y, n)[c],
                        digest |-> ZeroDigest, due |-> TRUE]
      BY <2>1 DEF cast_vote_graph
    <3>3. cast_vote_graph(vote, y, n)[c] = IF c = v THEN cipher[c].value + 1 ELSE cipher[c].value
      BY <2>1 DEF cast_vote_graph, VotedFor
    <3>. QED
      BY <3>1, <3>2, <3>3 DEF CipherAccount, Digest
  <2>2. CASE c \notin {y, n}
    <3>1. cipher'[c] = cipher[c]
      BY <2>2 DEF cast_vote_graph
    <3>2. c # v
      BY <1>1, <2>2
    <3>3. cipher[c] \in CipherAccount \cup {Null}
      BY DEF TypeOK, ClientTypeOK
    <3>. HIDE DEF v, CastVote, ExecuteGraph
    <3>. QED
      BY <3>1, <3>2, <3>3
  <2>. QED
    BY <2>1, <2>2
<1>3. proposal \in ProposalAccount /\ proposal' \in ProposalAccount
      /\ proposal'.total = proposal.total + 1 /\ proposal'.open = proposal.open
  <2>1. proposal \in ProposalAccount
    BY DEF TypeOK
  <2>. QED
    BY <2>1, TotalChange
<1>4. v \in Ciphertext \cup {Spoiled} /\ record' = [record EXCEPT ![p] = v]
      /\ (v \in Ciphertext => cipher[v] # Null)
  BY <1>1
<1>5. UNCHANGED <<asked, historyVars>>
  OBVIOUS
<1>6. \A r \in Request : asked[r] = Null
  BY DEF AnswersAreFinal, IsClosed
<1>. HIDE DEF v
<1>7. TypeOK'
  <2>1. cipher' \in [Ciphertext -> CipherAccount \cup {Null}]
    BY <1>2
  <2>. QED
    BY <1>3, <1>4, <1>5, <2>1 DEF TypeOK, ClientTypeOK, historyVars
<1>8. Created'
  <2>1. \A q \in Person : record'[q] \in Ciphertext => cipher'[record'[q]] # Null
    BY <1>2, <1>4, AccountsExist DEF Created, TypeOK
  <2>. QED
    BY <1>3, <1>5, <1>6, <2>1, AccountsExist DEF Created
<1>9. TallyIsVotes'
  <2>1. \A s \in Ciphertext : Votes(s)' = IF s = v THEN Votes(s) + 1 ELSE Votes(s)
    BY <1>4, OneMoreVote
  <2>2. Cardinality(Voted') = Cardinality(Voted) + 1
    BY <1>4, OneMoreRecord
  <2>3. \A s \in Ciphertext : cipher'[s] # Null => cipher'[s].value = Votes(s)'
    BY <1>2, <2>1 DEF TallyIsVotes
  <2>. QED
    BY <1>3, <2>2, <2>3 DEF TallyIsVotes
<1>10. AnswersAreFinal'
  BY <1>5, <1>6 DEF AnswersAreFinal
<1>. QED
  BY <1>7, <1>8, <1>9, <1>10

(* close_proposal changes none of the parts but the stage.                 *)
LEMMA CloseKeeps ==
  ASSUME VInv, NEW a \in Person, CloseProposal(a)
  PROVE  VInv'
<1>. USE DEF VInv, CloseProposal, IsOpen, clientVars, historyVars
<1>1. proposal' \in ProposalAccount /\ proposal'.total = proposal.total /\ ~proposal'.open
  BY OpenChange DEF TypeOK
<1>2. TypeOK'
  BY <1>1 DEF TypeOK, ClientTypeOK
<1>3. Created'
  BY <1>1 DEF Created
<1>4. TallyIsVotes'
  BY <1>1, SameVotes DEF TallyIsVotes
<1>5. AnswersAreFinal'
  BY <1>1 DEF AnswersAreFinal, IsClosed
<1>. QED
  BY <1>2, <1>3, <1>4, <1>5

(* request_tally_decryption: a new request has no answer yet.              *)
LEMMA RequestKeeps ==
  ASSUME VInv, NEW r \in Request, NEW s \in Side, NEW c \in Ciphertext,
         Requested(r, s, c)
  PROVE  VInv'
<1>. USE DEF VInv, Requested, RequestDecryption, IsClosed
<1>1. cipher[c] \in CipherAccount /\ Snapshot(c) \in Digest
  BY DEF TypeOK, ClientTypeOK, Snapshot, CipherAccount
<1>2. proposal' \in ProposalAccount /\ proposal'.total = proposal.total
      /\ proposal'.open = proposal.open /\ proposal' # Null
  BY <1>1, PendingChange DEF TypeOK
<1>3. TypeOK'
  BY <1>1, <1>2 DEF TypeOK, ClientTypeOK, RequestAccount
<1>4. Created'
  BY <1>2 DEF Created, TypeOK, ClientTypeOK
<1>5. TallyIsVotes'
  BY <1>2, SameVotes DEF TallyIsVotes
<1>6. AnswersAreFinal'
  <2>1. ~asked'[r].done
    BY DEF TypeOK, ClientTypeOK
  <2>2. \A q \in Request \ {r} : asked'[q] = asked[q]
    BY DEF TypeOK, ClientTypeOK
  <2>. QED
    BY <1>2, <2>1, <2>2, SameVotes DEF AnswersAreFinal
<1>. QED
  BY <1>3, <1>4, <1>5, <1>6

(* reveal_tally writes a final count into the proposal.                    *)
LEMMA RevealKeeps ==
  ASSUME VInv, NEW a \in Person, NEW r \in Request, NEW s \in Side,
         RevealTally(a, r, s)
  PROVE  VInv'
<1>. USE DEF VInv, RevealTally, IsClosed, Verified, clientVars
<1>1. asked[r].value \in Nat /\ asked[r].ct \in Ciphertext
  BY DEF TypeOK, ClientTypeOK, RequestAccount
<1>2. proposal' \in ProposalAccount /\ proposal'.total = proposal.total
      /\ proposal'.open = proposal.open
  BY <1>1, RevealedChange DEF TypeOK
<1>3. TypeOK'
  BY <1>1, <1>2 DEF TypeOK, ClientTypeOK
<1>4. Created'
  BY <1>2 DEF Created
<1>5. TallyIsVotes'
  BY <1>2, SameVotes DEF TallyIsVotes
<1>6. AnswersAreFinal'
  BY <1>2, SameVotes DEF AnswersAreFinal
<1>. QED
  BY <1>3, <1>4, <1>5, <1>6

(* The executor leaves every value and answers with values.                *)
LEMMA ExecutorKeeps ==
  ASSUME VInv, ExecutorStep
  PROVE  VInv'
<1>. USE DEF VInv, ExecutorStep, ProcessPending
<1>1. \A c \in Ciphertext :
        /\ cipher[c] = Null => cipher'[c] = Null
        /\ cipher[c] # Null => /\ cipher[c] \in CipherAccount
                               /\ cipher'[c] \in CipherAccount
                               /\ cipher'[c].value = cipher[c].value
  BY DEF TypeOK, ClientTypeOK, CipherAccount, Digest
<1>2. \A r \in Request :
        /\ asked[r] = Null => asked'[r] = Null
        /\ asked[r] # Null =>
             /\ proposal # Null
             /\ asked[r] \in RequestAccount
             /\ asked'[r] \in RequestAccount
             /\ asked'[r].ct = asked[r].ct
             /\ asked'[r].value = IF asked[r].done THEN asked[r].value
                                  ELSE cipher[asked[r].ct].value
  <2>. TAKE r \in Request
  <2>1. CASE asked[r] = Null
    BY <2>1
  <2>2. CASE asked[r] # Null
    <3>1. proposal # Null /\ asked[r] \in RequestAccount
      BY <2>2 DEF AnswersAreFinal, IsClosed, TypeOK, ClientTypeOK
    <3>2. asked[r].ct \in Ciphertext /\ cipher[asked[r].ct].value \in Nat
      BY <1>1, <3>1 DEF RequestAccount, Created, CipherAccount
    <3>. QED
      BY <2>2, <3>1, <3>2 DEF RequestAccount
  <2>. QED
    BY <2>1, <2>2
<1>3. TypeOK'
  BY <1>1, <1>2 DEF TypeOK, ClientTypeOK, historyVars
<1>4. UNCHANGED <<proposal, record, historyVars>>
  OBVIOUS
<1>. HIDE DEF ExecutorStep, ProcessPending
<1>5. Created'
  BY <1>1, <1>2, <1>4, AccountsExist DEF Created, RequestAccount, TypeOK
<1>6. TallyIsVotes'
  BY <1>1, <1>4, SameVotes DEF TallyIsVotes
<1>7. AnswersAreFinal'
  <2>1. \A r \in Request : asked[r] # Null =>
          asked[r].ct \in Ciphertext /\ cipher[asked[r].ct].value = Votes(asked[r].ct)
    BY <1>2 DEF RequestAccount, TallyIsVotes, Created
  <2>2. \A r \in Request : asked[r] # Null =>
          IsClosed /\ asked'[r].value = Votes(asked[r].ct)
    BY <1>2, <2>1 DEF AnswersAreFinal, RequestAccount
  <2>. QED
    BY <1>2, <1>4, <2>2, SameVotes DEF AnswersAreFinal, IsClosed
<1>. QED
  BY <1>3, <1>5, <1>6, <1>7

-----------------------------------------------------------------------------
(* Each program's instructions are among those.                            *)
LEMMA PinocchioStep ==
  ASSUME pinocchio_process_instruction
  PROVE  Instruction
<1>. USE DEF Instruction
<1>1. ASSUME NEW p \in Person, pinocchio_create_proposal(p) PROVE Instruction
  BY <1>1 DEF pinocchio_create_proposal, CreateProposal, Made
<1>2. ASSUME NEW p \in Person, pinocchio_close_proposal(p) PROVE Instruction
  BY <1>2 DEF pinocchio_close_proposal
<1>3. ASSUME NEW p \in Person, NEW vote \in BOOLEAN, NEW y \in Ciphertext, NEW n \in Ciphertext,
             pinocchio_cast_vote(p, vote, y, n)
      PROVE  Instruction
  BY <1>3 DEF pinocchio_cast_vote
<1>4. ASSUME NEW r \in Request, NEW s \in Side, NEW c \in Ciphertext,
             pinocchio_request_tally_decryption(r, s, c)
      PROVE  Instruction
  BY <1>4 DEF pinocchio_request_tally_decryption, RequestTally, Requested
<1>5. ASSUME NEW p \in Person, NEW r \in Request, NEW s \in Side,
             pinocchio_reveal_tally(p, r, s)
      PROVE  Instruction
  BY <1>5 DEF pinocchio_reveal_tally
<1>. QED
  BY <1>1, <1>2, <1>3, <1>4, <1>5 DEF pinocchio_process_instruction

LEMMA NativeStep ==
  ASSUME native_process_instruction
  PROVE  Instruction
<1>. USE DEF Instruction
<1>1. ASSUME NEW p \in Person, native_create_proposal(p) PROVE Instruction
  BY <1>1 DEF native_create_proposal, CreateProposal, Made
<1>2. ASSUME NEW p \in Person, native_close_proposal(p) PROVE Instruction
  BY <1>2 DEF native_close_proposal
<1>3. ASSUME NEW p \in Person, NEW vote \in BOOLEAN, NEW y \in Ciphertext, NEW n \in Ciphertext,
             native_cast_vote(p, vote, y, n)
      PROVE  Instruction
  BY <1>3 DEF native_cast_vote
<1>4. ASSUME NEW r \in Request, NEW s \in Side, NEW c \in Ciphertext,
             native_request_tally_decryption(r, s, c)
      PROVE  Instruction
  BY <1>4 DEF native_request_tally_decryption, RequestTally, Requested
<1>5. ASSUME NEW p \in Person, NEW r \in Request, NEW s \in Side,
             native_reveal_tally(p, r, s)
      PROVE  Instruction
  BY <1>5 DEF native_reveal_tally
<1>. QED
  BY <1>1, <1>2, <1>3, <1>4, <1>5 DEF native_process_instruction

LEMMA AnchorStep ==
  ASSUME anchor_process_instruction
  PROVE  Instruction
<1>. USE DEF Instruction
<1>1. ASSUME NEW c \in Ciphertext, create_input(c) PROVE Instruction
  BY <1>1
<1>2. ASSUME NEW p \in Person, anchor_create_proposal(p) PROVE Instruction
  BY <1>2 DEF anchor_create_proposal, Made
<1>3. ASSUME NEW p \in Person, anchor_close_proposal(p) PROVE Instruction
  BY <1>3 DEF anchor_close_proposal
<1>4. ASSUME NEW p \in Person, NEW vote \in BOOLEAN, NEW y \in Ciphertext, NEW n \in Ciphertext,
             anchor_cast_vote(p, vote, y, n)
      PROVE  Instruction
  BY <1>4 DEF anchor_cast_vote
<1>5. ASSUME NEW r \in Request, NEW s \in Side, NEW c \in Ciphertext,
             anchor_request_tally_decryption(r, s, c)
      PROVE  Instruction
  BY <1>5 DEF anchor_request_tally_decryption, Requested
<1>6. ASSUME NEW p \in Person, NEW r \in Request, NEW s \in Side,
             anchor_reveal_tally(p, r, s)
      PROVE  Instruction
  BY <1>6 DEF anchor_reveal_tally
<1>. QED
  BY <1>1, <1>2, <1>3, <1>4, <1>5, <1>6 DEF anchor_process_instruction

LEMMA QuasarStep ==
  ASSUME quasar_process_instruction
  PROVE  Instruction
<1>. USE DEF Instruction
<1>1. ASSUME NEW p \in Person, quasar_create_proposal(p) PROVE Instruction
  BY <1>1 DEF quasar_create_proposal, CreateProposal, Made
<1>2. ASSUME NEW p \in Person, quasar_close_proposal(p) PROVE Instruction
  BY <1>2 DEF quasar_close_proposal
<1>3. ASSUME NEW p \in Person, NEW vote \in BOOLEAN, NEW y \in Ciphertext, NEW n \in Ciphertext,
             quasar_cast_vote(p, vote, y, n)
      PROVE  Instruction
  BY <1>3 DEF quasar_cast_vote, checked_add_total, CastVote
<1>4. ASSUME NEW r \in Request, NEW s \in Side, NEW c \in Ciphertext,
             quasar_request_tally_decryption(r, s, c)
      PROVE  Instruction
  BY <1>4 DEF quasar_request_tally_decryption, RequestTally, Requested
<1>5. ASSUME NEW p \in Person, NEW r \in Request, NEW s \in Side,
             quasar_reveal_tally(p, r, s)
      PROVE  Instruction
  BY <1>5 DEF quasar_reveal_tally
<1>. QED
  BY <1>1, <1>2, <1>3, <1>4, <1>5 DEF quasar_process_instruction

LEMMA NextStep == [Next]_programVars => [Instruction]_votingVars
<1>. SUFFICES ASSUME [Next]_programVars PROVE Instruction \/ UNCHANGED votingVars
  OBVIOUS
<1>1. CASE UNCHANGED programVars
  BY <1>1 DEF programVars
<1>2. CASE ExecutorStep
  BY <1>2 DEF Instruction
<1>. QED
  BY <1>1, <1>2, PinocchioStep, NativeStep, AnchorStep, QuasarStep DEF Next

(* Every step keeps the invariant.                                         *)
LEMMA VotingStep == VInv /\ [Instruction]_votingVars => VInv'
<1>. SUFFICES ASSUME VInv, [Instruction]_votingVars PROVE VInv'
  OBVIOUS
<1>1. CASE \E p \in Person : Made(p)
  BY <1>1, CreateKeeps
<1>2. CASE \E p \in Person : CloseProposal(p)
  BY <1>2, CloseKeeps
<1>3. CASE \E p \in Person, vote \in BOOLEAN, y, n \in Ciphertext : CastVote(p, vote, y, n)
  BY <1>3, CastKeeps
<1>4. CASE \E s \in Ciphertext : create_input(s)
  BY <1>4, InputKeeps
<1>5. CASE \E r \in Request, s \in Side, c \in Ciphertext : Requested(r, s, c)
  BY <1>5, RequestKeeps
<1>6. CASE \E p \in Person, r \in Request, s \in Side : RevealTally(p, r, s)
  BY <1>6, RevealKeeps
<1>7. CASE ExecutorStep
  BY <1>7, ExecutorKeeps
<1>8. CASE UNCHANGED votingVars
  BY <1>8, SameVotes DEF votingVars, clientVars, historyVars, VInv, TypeOK, ClientTypeOK, Created,
     TallyIsVotes, AnswersAreFinal, IsClosed
<1>. QED
  BY <1>1, <1>2, <1>3, <1>4, <1>5, <1>6, <1>7, <1>8 DEF Instruction

(* The invariant holds throughout, whichever the program.                  *)
LEMMA VotingInvariant == Spec => []VInv
BY VotingInit, NextStep, VotingStep, PTL DEF Spec

(* The variables keep their types: types of ciphertexts, requests, votes.  *)
THEOREM VotingTypeCorrect == Spec => []TypeOK
<1>1. VInv => TypeOK
  BY DEF VInv
<1>. QED
  BY <1>1, VotingInvariant, PTL

(* For any number of voters the encrypted counters and the public total    *)
(* are those of the vote records.                                          *)
THEOREM TallyCorrect == Spec => []TallyIsVotes
<1>1. VInv => TallyIsVotes
  BY DEF VInv
<1>. QED
  BY <1>1, VotingInvariant, PTL

-----------------------------------------------------------------------------
(* Every step of a program is one of the ballot, or none.                  *)
LEMMA BallotStep == VInv /\ [Instruction]_votingVars => [B!BallotNext]_(B!ballotVars)
<1>. SUFFICES ASSUME VInv, [Instruction]_votingVars PROVE [B!BallotNext]_(B!ballotVars)
  OBVIOUS
<1>. USE DEF B!ballotVars, stage, result, historyVars
<1>1. ASSUME NEW a \in Person, Made(a) PROVE B!Open
  <2>1. proposal' # Null /\ proposal'.open /\ proposal'.revealed = [s \in Side |-> 0]
    <3>1. NewProposal(a) \in ProposalAccount
      BY DEF NewProposal, ProposalAccount, Digest
    <3>. QED
      BY <1>1, <3>1, AccountsExist DEF Made, NewProposal
  <2>. QED
    BY <1>1, <2>1 DEF Made, B!Open
<1>2. ASSUME NEW p \in Person, NEW vote \in BOOLEAN, NEW y \in Ciphertext, NEW n \in Ciphertext,
             CastVote(p, vote, y, n)
      PROVE  B!Cast(p, VotedFor(vote, y, n)) /\ VotedFor(vote, y, n) \in Ciphertext \cup {Spoiled}
  <2>1. proposal' # Null /\ proposal'.open = proposal.open
        /\ proposal'.revealed = proposal.revealed
    BY <1>2, TotalChange DEF CastVote, IsOpen, VInv, TypeOK
  <2>2. VotedFor(vote, y, n) \in Ciphertext \cup {Spoiled}
    BY DEF VotedFor
  <2>. QED
    BY <1>2, <2>1, <2>2 DEF CastVote, IsOpen, B!Cast
<1>3. ASSUME NEW a \in Person, CloseProposal(a) PROVE B!Close
  <2>1. proposal' # Null /\ ~proposal'.open /\ proposal'.revealed = proposal.revealed
    BY <1>3, OpenChange DEF CloseProposal, IsOpen, VInv, TypeOK
  <2>. QED
    BY <1>3, <2>1 DEF CloseProposal, IsOpen, B!Close
<1>4. ASSUME NEW r \in Request, NEW s \in Side, NEW c \in Ciphertext, Requested(r, s, c)
      PROVE  UNCHANGED B!ballotVars
  <2>1. proposal' # Null /\ proposal'.open = proposal.open
        /\ proposal'.revealed = proposal.revealed
    <3>1. Snapshot(c) \in Digest
      BY <1>4 DEF Requested, RequestDecryption, Snapshot, VInv, TypeOK,
         ClientTypeOK, CipherAccount
    <3>. QED
      BY <1>4, <3>1, PendingChange DEF Requested, IsClosed, VInv, TypeOK
  <2>. QED
    BY <1>4, <2>1 DEF Requested, IsClosed
<1>5. ASSUME NEW a \in Person, NEW r \in Request, NEW s \in Side, RevealTally(a, r, s)
      PROVE  B!Publish(s) \/ B!Withdraw(s)
  <2>1. proposal # Null /\ ~proposal.open /\ UNCHANGED record
        /\ lastShown' = [lastShown EXCEPT ![s] = asked[r].ct]
        /\ lastShown \in [Side -> Ciphertext \cup {Null}]
    BY <1>5 DEF RevealTally, IsClosed, VInv, TypeOK
  <2>2. proposal' # Null /\ ~proposal'.open
        /\ proposal'.revealed = [proposal.revealed EXCEPT ![s] = asked[r].value]
        /\ proposal.revealed \in [Side -> Nat]
    <3>1. asked[r].value \in Nat
      BY <1>5 DEF RevealTally, Verified, VInv, TypeOK, ClientTypeOK, RequestAccount
    <3>. QED
      BY <1>5, <3>1, RevealedChange DEF RevealTally, IsClosed, VInv, TypeOK
  <2>3. stage = "closed" /\ stage' = "closed"
    BY <2>1, <2>2
  <2>4. result' = [result EXCEPT ![s] = IF asked[r].ct = s THEN asked[r].value ELSE 0]
    BY <2>1, <2>2
  <2>5. CASE asked[r].ct = s
    <3>1. asked[r].value = Votes(s)
      BY <1>5, <2>5 DEF RevealTally, Verified, VInv, AnswersAreFinal
    \* Ballot has its own instance of FiniteSets.
    <3>2. Votes(s) = B!Votes(s)
      BY Zenon DEF B!Votes, Votes, Cardinality, B!Cardinality
    <3>. HIDE DEF stage, result
    <3>. QED
      BY <2>1, <2>3, <2>4, <2>5, <3>1, <3>2 DEF B!Publish
  <2>6. CASE asked[r].ct # s
    <3>. HIDE DEF stage, result
    <3>. QED
      BY <2>1, <2>3, <2>4, <2>6 DEF B!Withdraw
  <2>. QED
    BY <2>5, <2>6
<1>6. ASSUME ExecutorStep PROVE UNCHANGED B!ballotVars
  BY <1>6 DEF ExecutorStep
<1>7. ASSUME NEW c \in Ciphertext, create_input(c) PROVE UNCHANGED B!ballotVars
  BY <1>7 DEF create_input
<1>8. CASE UNCHANGED votingVars
  BY <1>8 DEF votingVars
<1>9. Side \subseteq Ciphertext \cup {Spoiled}
  OBVIOUS
<1>. QED
  BY <1>1, <1>2, <1>3, <1>4, <1>5, <1>6, <1>7, <1>8, <1>9 DEF Instruction, B!BallotNext

(* For any number of voters each program is a ballot: each person votes at  *)
(* most once, before the close, and what is revealed of a side's counter is *)
(* the final count, whatever ciphertexts and requests the callers name.    *)
THEOREM VotingImplementsBallot == Spec => ImplementsBallot
<1>1. ProgramInit => B!BallotInit
  BY DEF ProgramInit, Init, B!BallotInit, stage, result, historyVars
<1>. QED
  BY <1>1, NextStep, BallotStep, VotingInvariant, PTL DEF Spec, ImplementsBallot, B!BallotSpec
=============================================================================
