------------------------------ MODULE MCPcToken ------------------------------
(***************************************************************************)
(* Instances for TLC.  A behaviour either has delegates or receipts and    *)
(* unwraps: the ciphertexts of the other part are not made in it.          *)
(***************************************************************************)
EXTENDS PcToken

CONSTANTS p1, p2, a1, b1, t1, r1, r2

VARIABLE part

MCPerson == {p1, p2}
MCAllowance == {a1}
MCBurned == {b1}
MCReceipt == {t1}
MCCiphertext == MCPerson \cup MCAllowance \cup MCBurned \cup MCReceipt
MCRequest == {r1, r2}
MCPurse == [p \in MCPerson |-> IF p = p1 THEN 2 ELSE 1]
MCAmount == {1, 2}

partVars == <<tokenVars, part>>

NotMade(cs) == \A c \in cs : cipher[c] = Null
InPart ==
  /\ part = "spend" => NotMade(Burned \cup Receipt)
  /\ part = "unwrap" => NotMade(Allowance)

PartInit == Init /\ part \in {"spend", "unwrap"}
PartNext == Next /\ UNCHANGED part /\ InPart'

(* The executor keeps running, and owners complete what they have asked to *)
(* have decrypted, trying every request.                                   *)
Fairness ==
  /\ WF_partVars(ExecutorStep /\ UNCHANGED part)
  /\ \A p \in Person, c \in Burned, r \in Request :
       WF_partVars(r \in Requests(c) /\ unwrap_complete(p, c, r, TRUE) /\ UNCHANGED part)

PartSpec == PartInit /\ [][PartNext]_partVars
FairPartSpec == PartSpec /\ Fairness

(* Bounds: a behaviour is followed while amounts belong together; request  *)
(* accounts are used in one order, and one person may freeze, if any: who  *)
(* that is matters to nothing else.                                        *)
Followed ==
  /\ tied
  /\ asked[r2] # Null => asked[r1] # Null
  /\ mint # Null => mint.freeze_authority # p2
=============================================================================
