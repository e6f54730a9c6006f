------------------------------- MODULE Voting -------------------------------
(***************************************************************************)
(* One proposal of the confidential voting programs: its state, what the   *)
(* four versions (Pinocchio, native, Anchor, Quasar) share, and what they  *)
(* are meant to do.                                                        *)
(*                                                                         *)
(* The program holds no plaintext: the counters are two ciphertexts, named *)
(* here by the side they count, and a voter's ballot is a ciphertext.  The *)
(* model keeps the plaintexts next to them, for the properties.            *)
(*                                                                         *)
(* No instruction compares the ciphertexts it is given with the counters   *)
(* the proposal names, and reveal_tally compares digests alone: a caller   *)
(* may name any.  What they named is kept in history variables.            *)
(***************************************************************************)
EXTENDS EncryptClient, FiniteSets

CONSTANTS
  Person,       \* who may create a proposal and vote on it
  Yes, No,      \* the two counters
  Spoiled       \* what a vote counts for that raises no ciphertext

VARIABLES
  proposal,     \* Null, or the Proposal account
  record,       \* record[p]: Null, or what p voted for: the ciphertext the vote
                \* raised, or Spoiled; the VoteRecord account of p exists iff it
                \* is not Null and does not hold it
  \* history variables, for each side:
  lastAsked,    \* what the last request for it was for; Null before the first
  lastShown     \* what the answer was of that is revealed for it; Null before

historyVars == <<lastAsked, lastShown>>
votingVars == <<clientVars, proposal, record, historyVars>>

Side == {Yes, No}

ASSUME VotingAssumption ==
  /\ {Yes, No} \subseteq Ciphertext /\ Yes # No
  /\ Spoiled \notin Ciphertext
  /\ IsFiniteSet(Person)

ProposalAccount ==
  [authority : Person, open : BOOLEAN, total : Nat,
   revealed : [Side -> Nat], pending : [Side -> Digest]]

ASSUME VotingNull == Null \notin ProposalAccount \cup Ciphertext \cup {Spoiled}

TypeOK ==
  /\ ClientTypeOK
  /\ proposal \in ProposalAccount \cup {Null}
  /\ record \in [Person -> Ciphertext \cup {Spoiled, Null}]
  /\ lastAsked \in [Side -> Ciphertext \cup {Null}]
  /\ lastShown \in [Side -> Ciphertext \cup {Null}]

Init ==
  /\ ClientInit
  /\ proposal = Null
  /\ record = [p \in Person |-> Null]
  /\ lastAsked = [s \in Side |-> Null]
  /\ lastShown = [s \in Side |-> Null]

NewProposal(a) ==
  [authority |-> a, open |-> TRUE, total |-> 0,
   revealed |-> [s \in Side |-> 0], pending |-> [s \in Side |-> ZeroDigest]]

(* Mutant: the branch that leaves a counter alone resets it.               *)
cast_vote_graph_resets(vote, yes_ct, no_ct) ==
  [c \in {yes_ct, no_ct} |->
     IF c = no_ct THEN IF vote THEN 0 ELSE cipher[c].value + 1
     ELSE IF vote THEN cipher[c].value + 1 ELSE 0]

(* The graph: if vote is true yes + 1 and no, else yes and no + 1.  Of two *)
(* outputs to one ciphertext the second stays.                             *)
cast_vote_graph(vote, yes_ct, no_ct) ==
  [c \in {yes_ct, no_ct} |->
     IF c = no_ct THEN IF vote THEN cipher[c].value ELSE cipher[c].value + 1
     ELSE IF vote THEN cipher[c].value + 1 ELSE cipher[c].value]

(* The ciphertext such a vote raises.                                      *)
VotedFor(vote, yes_ct, no_ct) ==
  IF ~vote THEN no_ct ELSE IF yes_ct # no_ct THEN yes_ct ELSE Spoiled

IsOpen == proposal # Null /\ proposal.open
IsClosed == proposal # Null /\ ~proposal.open

ExecutorStep == ProcessPending /\ UNCHANGED <<proposal, record, historyVars>>

-----------------------------------------------------------------------------
(* The instructions, each one transaction.  A program may leave the        *)
(* counters to its client, or lose what it stores.                         *)
CreateProposal(authority) ==
  /\ proposal = Null
  /\ CreateZeros({Yes, No})
  /\ proposal' = NewProposal(authority)
  /\ UNCHANGED <<record, historyVars>>

(* Mutant: votes are taken after the close.                                *)
CastVote_late(voter, vote, yes_ct, no_ct) ==
  /\ proposal # Null
  /\ record[voter] = Null
  /\ record' = [record EXCEPT ![voter] = VotedFor(vote, yes_ct, no_ct)]
  /\ cipher[yes_ct] # Null /\ cipher[no_ct] # Null
  /\ ExecuteGraph(cast_vote_graph(vote, yes_ct, no_ct))
  /\ proposal' = [proposal EXCEPT !.total = @ + 1]
  /\ UNCHANGED historyVars

(* CreateAccount fails when the vote record exists, the graph when a       *)
(* counter does not.                                                       *)
CastVote(voter, vote, yes_ct, no_ct) ==
  /\ IsOpen
  /\ record[voter] = Null
  /\ record' = [record EXCEPT ![voter] = VotedFor(vote, yes_ct, no_ct)]
  /\ cipher[yes_ct] # Null /\ cipher[no_ct] # Null
  /\ ExecuteGraph(cast_vote_graph(vote, yes_ct, no_ct))
  /\ proposal' = [proposal EXCEPT !.total = @ + 1]
  /\ UNCHANGED historyVars

CloseProposal(authority) ==
  /\ IsOpen
  /\ authority = proposal.authority
  /\ proposal' = [proposal EXCEPT !.open = FALSE]
  /\ UNCHANGED <<clientVars, record, historyVars>>

(* Mutant: the two pending digests are mixed up.                           *)
RequestTally_other(request_acct, side, ciphertext) ==
  /\ IsClosed
  /\ RequestDecryption(request_acct, ciphertext)
  /\ \E s \in Side \ {side} :
       proposal' = [proposal EXCEPT !.pending[s] = Snapshot(ciphertext)]
  /\ lastAsked' = [lastAsked EXCEPT ![side] = ciphertext]
  /\ UNCHANGED <<record, lastShown>>

(* Anyone may call it, and again, for whatever ciphertext they name: its   *)
(* snapshot replaces the one before.                                       *)
RequestTally(request_acct, side, ciphertext) ==
  /\ IsClosed
  /\ RequestDecryption(request_acct, ciphertext)
  /\ proposal' = [proposal EXCEPT !.pending[side] = Snapshot(ciphertext)]
  /\ lastAsked' = [lastAsked EXCEPT ![side] = ciphertext]
  /\ UNCHANGED <<record, lastShown>>

(* Mutant: the digest of the answer is written, not its plaintext.         *)
RevealTally_digest(authority, request_acct, side) ==
  /\ IsClosed
  /\ authority = proposal.authority
  /\ Verified(request_acct, proposal.pending[side])
  /\ proposal' = [proposal EXCEPT !.revealed[side] = asked[request_acct].digest]
  /\ lastShown' = [lastShown EXCEPT ![side] = asked[request_acct].ct]
  /\ UNCHANGED <<clientVars, record, lastAsked>>

(* Only the digest ties the request account to what was asked for.         *)
RevealTally(authority, request_acct, side) ==
  /\ IsClosed
  /\ authority = proposal.authority
  /\ Verified(request_acct, proposal.pending[side])
  /\ proposal' = [proposal EXCEPT !.revealed[side] = asked[request_acct].value]
  /\ lastShown' = [lastShown EXCEPT ![side] = asked[request_acct].ct]
  /\ UNCHANGED <<clientVars, record, lastAsked>>

-----------------------------------------------------------------------------
Votes(c) == Cardinality({p \in Person : record[p] = c})
Voted == {p \in Person : record[p] # Null}

(* Each ciphertext has been raised by the votes that name it where it is   *)
(* raised and no other, and the public total counts the vote records,      *)
(* whatever counters the voters name and however graphs, runs of the       *)
(* executor and requests interleave: cast_vote updates two ciphertexts by  *)
(* CPI, a new account and a field.                                         *)
TallyIsVotes ==
  /\ \A c \in Ciphertext : cipher[c] # Null => cipher[c].value = Votes(c)
  /\ proposal # Null => proposal.total = Cardinality(Voted)

(* Where what is revealed for a side is an answer of its counter, it is    *)
(* the final count of a closed ballot: no answer from before the last vote *)
(* passes the digest check.  Nothing keeps reveal_tally from storing the   *)
(* answer of another ciphertext, which counts as nothing published.        *)
stage == IF proposal = Null THEN "none" ELSE IF proposal.open THEN "open" ELSE "closed"
result == [o \in Ciphertext \cup {Spoiled} |->
             IF o \in Side /\ proposal # Null /\ lastShown[o] = o THEN proposal.revealed[o]
             ELSE 0]

B == INSTANCE Ballot WITH
  Option <- Ciphertext \cup {Spoiled}, Nothing <- Null, vote <- record

ImplementsBallot == B!BallotSpec

(* Once a closed ballot's last request for a side is of that side's        *)
(* counter, the count is revealed, or someone's later request, of another  *)
(* ciphertext, has taken its place: the authority holds the request, the   *)
(* proposal its digest.                                                    *)
CountAsked(s) == IsClosed /\ lastAsked[s] = s
CountShown(s) == IsClosed /\ proposal.revealed[s] = Votes(s)

EventuallyRevealed ==
  \A s \in Side : CountAsked(s) ~> (CountShown(s) \/ lastAsked[s] # s)
=============================================================================
