---------------------------- MODULE EncryptClient ----------------------------
(***************************************************************************)
(* Encrypt as a program that uses it sees it: ciphertext accounts,         *)
(* decryption requests, and an executor that now and then works off what   *)
(* is pending.  EncryptHarness shows why a run of process_pending can be   *)
(* one step here: nobody acts while it runs, graphs end up with the values *)
(* of a serial execution, and answers are given after all of them.         *)
(*                                                                         *)
(* The CPI calls are operators to be conjoined into an instruction of the  *)
(* program, one transaction.  Which accounts a transaction names is the    *)
(* choice of its sender, and what is compared is the program's affair.     *)
(***************************************************************************)
EXTENDS Naturals

CONSTANTS
  Ciphertext,   \* ciphertext accounts of the program
  Request,      \* decryption request accounts
  ZeroDigest,   \* [0; 32]
  Null          \* an account that does not exist

VARIABLES
  cipher,       \* cipher[c]: Null, or value: the plaintext once all graphs are
                \* done, digest: what the account holds, due: a graph is pending
  asked         \* asked[r]: Null, or the ciphertext, the digest snapshot, whether
                \* the answer is complete, and the answer

clientVars == <<cipher, asked>>

(* A digest stands for the plaintext it is the hash of.                    *)
Digest == Nat \cup {ZeroDigest}
CipherAccount == [value : Nat, digest : Digest, due : BOOLEAN]
RequestAccount == [ct : Ciphertext, digest : Digest, done : BOOLEAN, value : Nat]

ASSUME ClientAssumption ==
  ZeroDigest \notin Nat /\ Null \notin CipherAccount \cup RequestAccount

ClientTypeOK ==
  /\ cipher \in [Ciphertext -> CipherAccount \cup {Null}]
  /\ asked \in [Request -> RequestAccount \cup {Null}]

ClientInit ==
  /\ cipher = [c \in Ciphertext |-> Null]
  /\ asked = [r \in Request |-> Null]

(* create_input_ciphertext: the account is verified at once.               *)
CreateInput(c, v) ==
  /\ cipher[c] = Null
  /\ cipher' = [cipher EXCEPT ![c] = [value |-> v, digest |-> v, due |-> FALSE]]
  /\ UNCHANGED asked

(* create_plaintext_typed with 0, once for each ciphertext of cs: the      *)
(* digest stays zero until a graph writes the ciphertext.                  *)
CreateZeros(cs) ==
  /\ \A c \in cs : cipher[c] = Null
  /\ cipher' = [c \in Ciphertext |->
       IF c \in cs THEN [value |-> 0, digest |-> ZeroDigest, due |-> FALSE] ELSE cipher[c]]
  /\ UNCHANGED asked

(* execute_graph over existing ciphertexts; out maps each output to its    *)
(* value.                                                                  *)
ExecuteGraph(out) ==
  /\ \A c \in DOMAIN out : cipher[c] # Null
  /\ cipher' = [c \in Ciphertext |->
       IF c \in DOMAIN out THEN [value |-> out[c], digest |-> ZeroDigest, due |-> TRUE]
       ELSE cipher[c]]
  /\ UNCHANGED asked

(* create_plaintext_typed for the ciphertexts of new, and then a graph that *)
(* writes them and others, in one transaction.                             *)
CreateAndExecute(new, out) ==
  /\ \A c \in new : cipher[c] = Null
  /\ \A c \in DOMAIN out \ new : cipher[c] # Null
  /\ cipher' = [c \in Ciphertext |->
       IF c \in DOMAIN out THEN [value |-> out[c], digest |-> ZeroDigest, due |-> TRUE]
       ELSE cipher[c]]
  /\ UNCHANGED asked

(* close_ciphertext: the account is gone at once.  A graph that is to      *)
(* write it is still queued, and a run that comes to it fails there: see   *)
(* DrainFails in PcToken, whose program closes ciphertexts.                *)
CloseCiphertext(c) ==
  /\ cipher[c] # Null
  /\ cipher' = [cipher EXCEPT ![c] = Null]
  /\ UNCHANGED asked

(* request_decryption returns the digest it read before the call.          *)
Snapshot(c) == cipher[c].digest

RequestDecryption(r, c) ==
  /\ asked[r] = Null
  /\ cipher[c] # Null
  /\ asked' = [asked EXCEPT ![r] =
       [ct |-> c, digest |-> Snapshot(c), done |-> FALSE, value |-> 0]]
  /\ UNCHANGED cipher

(* Mutant: the zero digest is taken for no digest.                         *)
Verified_nonzero(r, digest) ==
  /\ asked[r] # Null
  /\ asked[r].digest = digest /\ digest # ZeroDigest
  /\ asked[r].done

(* Mutant: an answer is read while its bytes are still coming in.           *)
Verified_incomplete(r, digest) ==
  /\ asked[r] # Null
  /\ asked[r].digest = digest

(* read_decrypted_verified lets the answer through.                        *)
Verified(r, digest) ==
  /\ asked[r] # Null
  /\ asked[r].digest = digest
  /\ asked[r].done

(* Outputs get the digest of their value, requests their answer.           *)
Pending == \/ \E c \in Ciphertext : cipher[c] # Null /\ cipher[c].due
           \/ \E r \in Request : asked[r] # Null /\ ~asked[r].done

(* Mutant: a request is answered only while its snapshot is current.       *)
ProcessPending_current ==
  /\ Pending
  /\ cipher' = [c \in Ciphertext |->
       IF cipher[c] # Null /\ cipher[c].due
       THEN [value |-> cipher[c].value, digest |-> cipher[c].value, due |-> FALSE]
       ELSE cipher[c]]
  /\ asked' = [r \in Request |->
       IF asked[r] # Null /\ ~asked[r].done /\ cipher[asked[r].ct].digest = asked[r].digest
       THEN [asked[r] EXCEPT !.done = TRUE, !.value = cipher[asked[r].ct].value]
       ELSE asked[r]]

ProcessPending ==
  /\ Pending
  /\ cipher' = [c \in Ciphertext |->
       IF cipher[c] # Null /\ cipher[c].due
       THEN [value |-> cipher[c].value, digest |-> cipher[c].value, due |-> FALSE]
       ELSE cipher[c]]
  /\ asked' = [r \in Request |->
       IF asked[r] # Null /\ ~asked[r].done
       THEN [asked[r] EXCEPT !.done = TRUE, !.value = cipher[asked[r].ct].value]
       ELSE asked[r]]
=============================================================================
