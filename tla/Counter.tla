------------------------------- MODULE Counter -------------------------------
(***************************************************************************)
(* One counter of the confidential counter programs: its account, what the *)
(* four versions (Pinocchio, native, Anchor, Quasar) share, and what they  *)
(* are meant to do.  Anyone moves the counter, at any time, also while its *)
(* authority has it decrypted: no state of the program separates the two.  *)
(***************************************************************************)
EXTENDS EncryptClient, FiniteSets

CONSTANTS
  Person,       \* who may create the counter
  Value,        \* the ciphertext of the count
  Modulus,      \* stands for 2^64
  MaxSteps      \* bound: increments and decrements

VARIABLES
  counter,      \* Null, or the Counter account
  ups, downs,   \* bookkeeping: increments and decrements so far
  last,         \* bookkeeping: the request made last, or Null
  since         \* bookkeeping: the counts there were since a request was made

bookVars == <<ups, downs, last, since>>
counterVars == <<clientVars, counter, bookVars>>

ASSUME CounterAssumption ==
  /\ Ciphertext = {Value}
  /\ Modulus \in Nat \ {0} /\ MaxSteps \in Nat

CounterAccount == [authority : Person, pending_digest : Digest, revealed_value : Nat]

ASSUME CounterNull == Null \notin CounterAccount \cup Request

TypeOK ==
  /\ ClientTypeOK
  /\ counter \in CounterAccount \cup {Null}
  /\ ups \in Nat /\ downs \in Nat
  /\ last \in Request \cup {Null}
  /\ since \in [Request -> SUBSET Nat]

Init ==
  /\ ClientInit
  /\ counter = Null
  /\ ups = 0 /\ downs = 0
  /\ last = Null
  /\ since = [r \in Request |-> {}]

NewCounter(a) == [authority |-> a, pending_digest |-> ZeroDigest, revealed_value |-> 0]

increment_graph(value) == [c \in {Value} |-> (value + 1) % Modulus]

(* Mutant: the subtraction stops at zero.                                  *)
decrement_graph_saturates(value) == [c \in {Value} |-> IF value = 0 THEN 0 ELSE value - 1]

(* Mutant: the subtraction does not wrap.                                  *)
decrement_graph_signed(value) == [c \in {Value} |-> value - 1]

(* The engine subtracts modulo the width of the type.                      *)
decrement_graph(value) == [c \in {Value} |-> (value + Modulus - 1) % Modulus]

Exists == counter # Null
MayStep == ups + downs < MaxSteps

(* Bookkeeping of a step to the count v, and of a request for the count.   *)
Counts(v) ==
  /\ since' = [r \in Request |-> since[r] \cup (IF asked[r] = Null THEN {} ELSE {v})]
  /\ UNCHANGED last
Asks(r) ==
  /\ last' = r
  /\ since' = [since EXCEPT ![r] = {cipher[Value].value}]
  /\ UNCHANGED <<ups, downs>>

(* The graph of one step; it reads and writes the same ciphertext.         *)
Move(graph) ==
  /\ MayStep
  /\ ExecuteGraph(graph)
  /\ Counts(graph[Value])
  /\ UNCHANGED counter

ExecutorStep == ProcessPending /\ UNCHANGED <<counter, bookVars>>

-----------------------------------------------------------------------------
(* The instructions, each one transaction.                                 *)
CreateCounter(authority) ==
  /\ ~Exists
  /\ CreateZeros({Value})
  /\ counter' = NewCounter(authority)
  /\ UNCHANGED bookVars

Increment ==
  /\ Exists /\ cipher[Value] # Null
  /\ Move(increment_graph(cipher[Value].value))
  /\ ups' = ups + 1 /\ UNCHANGED downs

Decrement ==
  /\ Exists /\ cipher[Value] # Null
  /\ Move(decrement_graph(cipher[Value].value))
  /\ downs' = downs + 1 /\ UNCHANGED ups

(* The counter's authority only, again and again.                          *)
RequestValue(payer, request_acct) ==
  /\ Exists
  /\ payer = counter.authority
  /\ RequestDecryption(request_acct, Value)
  /\ counter' = [counter EXCEPT !.pending_digest = Snapshot(Value)]
  /\ Asks(request_acct)

RevealValue(authority, request_acct) ==
  /\ Exists
  /\ authority = counter.authority
  /\ Verified(request_acct, counter.pending_digest)
  /\ counter' = [counter EXCEPT !.revealed_value = asked[request_acct].value]
  /\ UNCHANGED <<clientVars, bookVars>>

-----------------------------------------------------------------------------
(* The encrypted count is the number of increments less the number of      *)
(* decrements modulo its width: one that falls below zero comes back with  *)
(* the next increment, and no step is lost between graphs that overwrite   *)
(* one ciphertext.                                                         *)
CountIsSteps ==
  cipher[Value] # Null => (cipher[Value].value + downs) % Modulus = ups % Modulus

(* What reveal_value publishes was the count at some time since a request  *)
(* with the stored snapshot was made: no answer is older than its request, *)
(* and none is published before it is complete.                            *)
Fresh(r) == r \in Request /\ asked[r] # Null /\ asked[r].digest = counter.pending_digest
PublishedSinceRequest ==
  [][(Exists /\ counter'.revealed_value # counter.revealed_value)
       => \E r \in Request : Fresh(r) /\ counter'.revealed_value \in since[r]]_counterVars

(* When nobody moves the counter any more and the authority has asked for  *)
(* it, it gets to see the count, however many graphs were still due.       *)
AsksForTheEnd == Exists /\ ~MayStep /\ last # Null /\ ~asked[last].done
ShowsTheCount ==
  Exists /\ cipher[Value] # Null /\ counter.revealed_value = cipher[Value].value
EventuallyRevealed == AsksForTheEnd ~> ShowsTheCount
=============================================================================
