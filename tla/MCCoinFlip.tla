----------------------------- MODULE MCCoinFlip -----------------------------
(***************************************************************************)
(* The four versions of the example next to each other, for TLC.           *)
(***************************************************************************)
EXTENDS CoinFlipPrograms

CONSTANTS p1, p2, p3, c1, c2, r1, r2

MCPerson == {p1, p2, p3}
MCCiphertext == {c1, c2, Result}
MCRequest == {r1, r2}
MCCommitment == {0, 1, 2}
MCBet == {0, 1}
MCSDK == {"pinocchio", "native", "anchor", "quasar"}

(* Somebody reveals an answer of the result, as the tests' clients do; the *)
(* executor keeps running.                                                 *)
Revealing(r) ==
  /\ asked[r] # Null /\ asked[r].ct = Result
  /\ \/ In("pinocchio") /\ pinocchio_reveal_result(r)
     \/ In("native") /\ native_reveal_result(r)
     \/ In("anchor") /\ anchor_reveal_result(r)
     \/ In("quasar") /\ quasar_reveal_result(r)

Fairness ==
  /\ WF_programVars(ExecutorStep /\ UNCHANGED sdk)
  /\ WF_programVars(\E r \in Request : Revealing(r))

LiveSpec == Spec /\ Fairness

(* Ciphertexts of commitments are all alike, and so are request accounts:  *)
(* they are taken up in one order.  Every behaviour is one of these with   *)
(* names exchanged.                                                        *)
InOrder ==
  /\ cipher[c2] # Null => cipher[c1] # Null
  /\ asked[r2] # Null => asked[r1] # Null
=============================================================================
