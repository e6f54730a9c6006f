--------------------------- MODULE VotingPrograms ---------------------------
(***************************************************************************)
(* The four voting programs.  A proposal is one of the program of one SDK. *)
(***************************************************************************)
EXTENDS Voting

CONSTANTS
  SDK,       \* the versions considered
  MaxTotal   \* the largest total of the Quasar program, u32::MAX in the code

VARIABLES
  sdk,       \* the version that owns the accounts
  byte218    \* of the native program: zero, the bump, or the last byte of a digest

ASSUME ProgramsAssumption ==
  /\ SDK \subseteq {"pinocchio", "native", "anchor", "quasar"}
  /\ MaxTotal \in Nat

programVars == <<votingVars, byte218, sdk>>

In(s) == sdk = s /\ sdk' = s /\ (s # "native" => UNCHANGED byte218)

(* The Pinocchio program.                                                  *)
pinocchio_create_proposal(authority) == CreateProposal(authority)
pinocchio_cast_vote(voter, vote, yes_ct, no_ct) ==
  CastVote(voter, vote, yes_ct, no_ct)
pinocchio_close_proposal(authority) == CloseProposal(authority)
pinocchio_request_tally_decryption(request_acct, side, ciphertext) ==
  RequestTally(request_acct, side, ciphertext)
pinocchio_reveal_tally(authority, request_acct, side) == RevealTally(authority, request_acct, side)

pinocchio_process_instruction ==
  \/ \E p \in Person : pinocchio_create_proposal(p) \/ pinocchio_close_proposal(p)
  \/ \E p \in Person, vote \in BOOLEAN, y, n \in Ciphertext : pinocchio_cast_vote(p, vote, y, n)
  \/ \E r \in Request, s \in Side, c \in Ciphertext : pinocchio_request_tally_decryption(r, s, c)
  \/ \E p \in Person, r \in Request, s \in Side : pinocchio_reveal_tally(p, r, s)

-----------------------------------------------------------------------------
(* The native program.  It writes the two digests at bytes 155..187 and    *)
(* 187..219 of the account, whose last byte, 218, create_proposal filled   *)
(* with the bump of its address.                                           *)
native_create_proposal(authority) == CreateProposal(authority) /\ byte218' = "bump"
native_cast_vote(voter, vote, yes_ct, no_ct) ==
  CastVote(voter, vote, yes_ct, no_ct) /\ UNCHANGED byte218
native_close_proposal(authority) == CloseProposal(authority) /\ UNCHANGED byte218

(* The digest of the no counter ends in byte 218.                          *)
native_request_tally_decryption(request_acct, side, ciphertext) ==
  /\ RequestTally(request_acct, side, ciphertext)
  /\ byte218' = IF side = No THEN "digest" ELSE byte218

(* Before a request the digest of the no counter reads as zeros and the    *)
(* bump.                                                                   *)
native_reveal_tally(authority, request_acct, side) ==
  /\ side = No => byte218 = "digest"
  /\ RevealTally(authority, request_acct, side)
  /\ UNCHANGED byte218

native_process_instruction ==
  \/ \E p \in Person : native_create_proposal(p) \/ native_close_proposal(p)
  \/ \E p \in Person, vote \in BOOLEAN, y, n \in Ciphertext : native_cast_vote(p, vote, y, n)
  \/ \E r \in Request, s \in Side, c \in Ciphertext : native_request_tally_decryption(r, s, c)
  \/ \E p \in Person, r \in Request, s \in Side : native_reveal_tally(p, r, s)

-----------------------------------------------------------------------------
(* The Anchor program.  It takes the identifiers of counters its client    *)
(* made, and writes an account back after a handler only when the accounts *)
(* structure marks it mut.                                                 *)

(* A client makes the counters itself, before or after the proposal.       *)
create_input(c) ==
  /\ CreateInput(c, 0)
  /\ UNCHANGED <<proposal, record, historyVars>>

anchor_create_proposal(authority) ==
  /\ proposal = Null
  /\ proposal' = NewProposal(authority)
  /\ UNCHANGED <<clientVars, record, historyVars>>

anchor_cast_vote(voter, vote, yes_ct, no_ct) ==
  CastVote(voter, vote, yes_ct, no_ct)
anchor_close_proposal(authority) == CloseProposal(authority)

(* The proposal is not mut here: the digest the handler stores is lost.    *)
anchor_request_tally_decryption(request_acct, side, ciphertext) ==
  /\ IsClosed
  /\ RequestDecryption(request_acct, ciphertext)
  /\ lastAsked' = [lastAsked EXCEPT ![side] = ciphertext]
  /\ UNCHANGED <<proposal, record, lastShown>>

anchor_reveal_tally(authority, request_acct, side) == RevealTally(authority, request_acct, side)

anchor_process_instruction ==
  \/ \E c \in Ciphertext : create_input(c)
  \/ \E p \in Person : anchor_create_proposal(p) \/ anchor_close_proposal(p)
  \/ \E p \in Person, vote \in BOOLEAN, y, n \in Ciphertext : anchor_cast_vote(p, vote, y, n)
  \/ \E r \in Request, s \in Side, c \in Ciphertext : anchor_request_tally_decryption(r, s, c)
  \/ \E p \in Person, r \in Request, s \in Side : anchor_reveal_tally(p, r, s)

-----------------------------------------------------------------------------
(* The Quasar program.  Its public total has 32 bits, and a vote that      *)
(* would overflow it fails as a whole: record, graph and all.              *)

(* Mutant: the total wraps.                                                *)
wrapping_add_total ==
  proposal' = [proposal EXCEPT !.total = (@ + 1) % (MaxTotal + 1)]

checked_add_total ==
  /\ proposal.total < MaxTotal
  /\ proposal' = [proposal EXCEPT !.total = @ + 1]

quasar_create_proposal(authority) == CreateProposal(authority)

quasar_cast_vote(voter, vote, yes_ct, no_ct) ==
  /\ IsOpen
  /\ record[voter] = Null
  /\ record' = [record EXCEPT ![voter] = VotedFor(vote, yes_ct, no_ct)]
  /\ cipher[yes_ct] # Null /\ cipher[no_ct] # Null
  /\ ExecuteGraph(cast_vote_graph(vote, yes_ct, no_ct))
  /\ checked_add_total
  /\ UNCHANGED historyVars

quasar_close_proposal(authority) == CloseProposal(authority)
quasar_request_tally_decryption(request_acct, side, ciphertext) ==
  RequestTally(request_acct, side, ciphertext)
quasar_reveal_tally(authority, request_acct, side) == RevealTally(authority, request_acct, side)

quasar_process_instruction ==
  \/ \E p \in Person : quasar_create_proposal(p) \/ quasar_close_proposal(p)
  \/ \E p \in Person, vote \in BOOLEAN, y, n \in Ciphertext : quasar_cast_vote(p, vote, y, n)
  \/ \E r \in Request, s \in Side, c \in Ciphertext : quasar_request_tally_decryption(r, s, c)
  \/ \E p \in Person, r \in Request, s \in Side : quasar_reveal_tally(p, r, s)

-----------------------------------------------------------------------------
ProgramInit == Init /\ byte218 = "zero" /\ sdk \in SDK

Next ==
  \/ In("pinocchio") /\ pinocchio_process_instruction
  \/ In("native") /\ native_process_instruction
  \/ In("anchor") /\ anchor_process_instruction
  \/ In("quasar") /\ quasar_process_instruction
  \/ ExecutorStep /\ UNCHANGED <<byte218, sdk>>

Spec == ProgramInit /\ [][Next]_programVars

-----------------------------------------------------------------------------
(* Once a closed ballot's last request for a side is of that side's        *)
(* counter, the count is revealed, or someone's later request, of another  *)
(* ciphertext, has taken its place; but the Anchor program loses the       *)
(* digest.                                                                 *)
RevealedUnlessLost ==
  \A s \in Side :
    (CountAsked(s) /\ sdk # "anchor") ~> (CountShown(s) \/ lastAsked[s] # s)
=============================================================================
