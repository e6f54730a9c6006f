------------------------------- MODULE MCAcl --------------------------------
(***************************************************************************)
(* The four versions of the example next to each other, for TLC.  A        *)
(* behaviour is one of the Anchor program, whose client makes the          *)
(* ciphertexts, or of the others, each of whose steps is one of theirs.    *)
(***************************************************************************)
EXTENDS AclPrograms

CONSTANTS p1, c1, c2, r1, r2

VARIABLE client   \* whether the client makes the ciphertexts

MCPerson == {p1}
MCCiphertext == {c1, c2, Permissions}
MCRequest == {r1, r2}
MCBit == {1, 2}
MCWord == [bits \in SUBSET MCBit |-> (IF 1 \in bits THEN 1 ELSE 0) + (IF 2 \in bits THEN 2 ELSE 0)]

anyVars == <<aclVars, client>>

Client == client /\ UNCHANGED client
Program == ~client /\ UNCHANGED client

AnyInit == Init /\ client \in BOOLEAN

AnyNext ==
  \/ Program /\ (\/ pinocchio_process_instruction \/ native_process_instruction
                 \/ quasar_process_instruction)
  \/ Client /\ anchor_process_instruction
  \/ \E c \in Ciphertext, v \in {0, AllBits} :
       /\ IF c = Permissions THEN client ELSE v = AllBits
       /\ create_input(c, v) /\ UNCHANGED client
  \/ ExecutorStep /\ UNCHANGED client

(* The executor keeps running, and a checker reveals an answer of its      *)
(* result, as the tests' clients do.                                       *)
Revealing(p, r) ==
  /\ check[p] # Null /\ asked[r] # Null /\ asked[r].ct = check[p].result_ct
  /\ \/ Program /\ (\/ pinocchio_reveal_check(p, r) \/ native_reveal_check(p, r)
                    \/ quasar_reveal_check(p, r))
     \/ Client /\ anchor_reveal_check(p, r)

Fairness ==
  /\ WF_anyVars(ExecutorStep /\ UNCHANGED client)
  /\ \A p \in Person : WF_anyVars(\E r \in Request : Revealing(p, r))

AnySpec == AnyInit /\ [][AnyNext]_anyVars /\ Fairness

(* Request accounts are all alike, and ciphertexts but for the permissions *)
(* are too: they are taken up in one order, every behaviour is one of      *)
(* these with names exchanged.  A behaviour is followed to the first graph *)
(* that strays, and no further: nothing is claimed beyond it.              *)
Followed ==
  /\ ~strayed
  /\ cipher[c2] # Null => cipher[c1] # Null
  /\ asked[r2] # Null => asked[r1] # Null
=============================================================================
