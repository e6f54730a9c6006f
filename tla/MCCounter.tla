----------------------------- MODULE MCCounter ------------------------------
(***************************************************************************)
(* The four versions of the example next to each other, for TLC: a         *)
(* behaviour is one of the program of one SDK.                             *)
(***************************************************************************)
EXTENDS CounterPrograms

CONSTANTS p1, p2, r1, r2, SDK

VARIABLE sdk

MCPerson == {p1, p2}
MCRequest == {r1, r2}
MCSDK == {"pinocchio", "native", "anchor", "quasar"}

anyVars == <<counterVars, sdk>>

In(s) == sdk = s /\ sdk' = s

AnyInit == Init /\ sdk \in SDK

AnyNext ==
  \/ In("pinocchio") /\ pinocchio_process_instruction
  \/ In("native") /\ native_process_instruction
  \/ In("anchor") /\ anchor_process_instruction
  \/ In("quasar") /\ quasar_process_instruction
  \/ ExecutorStep /\ UNCHANGED sdk

(* The executor keeps running, and the authority tries every request       *)
(* account it has, as one that does not know which of them is answered.    *)
Revealing(p, r) ==
  \/ In("pinocchio") /\ pinocchio_reveal_value(p, r)
  \/ In("native") /\ native_reveal_value(p, r)
  \/ In("anchor") /\ anchor_reveal_value(p, r)
  \/ In("quasar") /\ quasar_reveal_value(p, r)

Fairness ==
  /\ WF_anyVars(ExecutorStep /\ UNCHANGED sdk)
  /\ \A p \in Person, r \in Request : WF_anyVars(Revealing(p, r))

AnySpec == AnyInit /\ [][AnyNext]_anyVars /\ Fairness
=============================================================================
