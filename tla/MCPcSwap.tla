------------------------------ MODULE MCPcSwap ------------------------------
(* Instances for TLC.                                                       *)
EXTENDS PcSwap

CONSTANTS p1, p2, HeldByFirst, HeldBySecond

MCPerson == {p1, p2}
MCHeld == [p \in MCPerson |->
  [s \in Side |-> IF p = p1 THEN HeldByFirst ELSE HeldBySecond]]

(* Bound: behaviours are followed to the first call that names another     *)
(* program, after which the properties say nothing.                        *)
Followed == genuine
=============================================================================
