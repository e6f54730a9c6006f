------------------------------ MODULE MCVoting ------------------------------
(***************************************************************************)
(* The four versions of the example next to each other, for TLC.           *)
(***************************************************************************)
EXTENDS VotingPrograms

CONSTANTS p1, p2, r1, r2, r3

MCPerson == {p1, p2}
MCRequest == {r1, r2, r3}
MCSDK == {"pinocchio", "native", "anchor", "quasar"}

(* The authority reveals the answers of requests of the counter, as the    *)
(* end-to-end clients do; the executor keeps running.                      *)
Revealing(p, r, s) ==
  /\ asked[r] # Null /\ asked[r].ct = s
  /\ \/ In("pinocchio") /\ pinocchio_reveal_tally(p, r, s)
     \/ In("native") /\ native_reveal_tally(p, r, s)
     \/ In("anchor") /\ anchor_reveal_tally(p, r, s)
     \/ In("quasar") /\ quasar_reveal_tally(p, r, s)

Fairness ==
  /\ WF_programVars(ExecutorStep /\ UNCHANGED <<byte218, sdk>>)
  /\ \A s \in Side :
       WF_programVars(\E p \in Person, r \in Request : Revealing(p, r, s))

LiveSpec == Spec /\ Fairness

(* Request accounts are all alike: they are taken up in one order.  Every  *)
(* behaviour is one of these with the accounts renamed.                    *)
InOrder ==
  /\ asked[r2] # Null => asked[r1] # Null
  /\ asked[r3] # Null => asked[r2] # Null
=============================================================================
