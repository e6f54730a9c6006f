------------------------------- MODULE Ballot -------------------------------
(* What the confidential voting programs promise: everyone votes at most   *)
(* once and only while the ballot is open, and what is published are the   *)
(* counts of the votes of a closed ballot.  No ciphertexts, no requests.   *)
EXTENDS Naturals, FiniteSets

CONSTANTS
  Person,    \* who may vote
  Option,    \* what to vote for
  Nothing    \* no vote

VARIABLES
  stage,     \* none, open or closed
  vote,      \* vote[p]: Nothing, or the option p voted for
  result     \* result[o]: 0 until the count of o is published

ballotVars == <<stage, vote, result>>

Votes(o) == Cardinality({p \in Person : vote[p] = o})

BallotInit ==
  /\ stage = "none"
  /\ vote = [p \in Person |-> Nothing]
  /\ result = [o \in Option |-> 0]

Open ==
  /\ stage = "none"
  /\ stage' = "open"
  /\ UNCHANGED <<vote, result>>

Cast(p, o) ==
  /\ stage = "open"
  /\ vote[p] = Nothing
  /\ vote' = [vote EXCEPT ![p] = o]
  /\ UNCHANGED <<stage, result>>

Close ==
  /\ stage = "open"
  /\ stage' = "closed"
  /\ UNCHANGED <<vote, result>>

Publish(o) ==
  /\ stage = "closed"
  /\ result' = [result EXCEPT ![o] = Votes(o)]
  /\ UNCHANGED <<stage, vote>>

(* What stands in the place of a count need not be one: then nothing does. *)
Withdraw(o) ==
  /\ stage = "closed"
  /\ result' = [result EXCEPT ![o] = 0]
  /\ UNCHANGED <<stage, vote>>

BallotNext ==
  \/ Open \/ Close
  \/ \E p \in Person, o \in Option : Cast(p, o)
  \/ \E o \in Option : Publish(o) \/ Withdraw(o)

BallotSpec == BallotInit /\ [][BallotNext]_ballotVars
=============================================================================
