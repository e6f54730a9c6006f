-------------------------- MODULE CounterPrograms ---------------------------
(***************************************************************************)
(* The four programs of the confidential counter.  Three create the        *)
(* ciphertext of the count; of the Anchor program the client does.         *)
(***************************************************************************)
EXTENDS Counter

(* The Pinocchio program.                                                  *)
pinocchio_create_counter(authority) == CreateCounter(authority)
pinocchio_increment == Increment
pinocchio_decrement == Decrement
pinocchio_request_value_decryption(payer, request_acct) == RequestValue(payer, request_acct)
pinocchio_reveal_value(authority, request_acct) == RevealValue(authority, request_acct)

pinocchio_process_instruction ==
  \/ \E p \in Person : pinocchio_create_counter(p)
  \/ pinocchio_increment \/ pinocchio_decrement
  \/ \E p \in Person, r \in Request :
       pinocchio_request_value_decryption(p, r) \/ pinocchio_reveal_value(p, r)

-----------------------------------------------------------------------------
(* The native program: the Pinocchio one over bytes of the account.        *)
native_create_counter(authority) == CreateCounter(authority)
native_increment == Increment
native_decrement == Decrement
native_request_value_decryption(payer, request_acct) == RequestValue(payer, request_acct)
native_reveal_value(authority, request_acct) == RevealValue(authority, request_acct)

native_process_instruction ==
  \/ \E p \in Person : native_create_counter(p)
  \/ native_increment \/ native_decrement
  \/ \E p \in Person, r \in Request :
       native_request_value_decryption(p, r) \/ native_reveal_value(p, r)

-----------------------------------------------------------------------------
(* The Quasar program: the accounts are checked by its framework.          *)
quasar_create_counter(authority) == CreateCounter(authority)
quasar_increment == Increment
quasar_decrement == Decrement
quasar_request_value_decryption(payer, request_acct) == RequestValue(payer, request_acct)
quasar_reveal_value(authority, request_acct) == RevealValue(authority, request_acct)

quasar_process_instruction ==
  \/ \E p \in Person : quasar_create_counter(p)
  \/ quasar_increment \/ quasar_decrement
  \/ \E p \in Person, r \in Request :
       quasar_request_value_decryption(p, r) \/ quasar_reveal_value(p, r)

-----------------------------------------------------------------------------
(* The Anchor program: the client makes the count, with 0.                 *)
create_input(c) ==
  /\ CreateInput(c, 0)
  /\ UNCHANGED <<counter, bookVars>>

anchor_create_counter(authority) ==
  /\ ~Exists
  /\ counter' = NewCounter(authority)
  /\ UNCHANGED <<clientVars, bookVars>>

anchor_increment == Increment
anchor_decrement == Decrement
anchor_request_value_decryption(payer, request_acct) == RequestValue(payer, request_acct)
anchor_reveal_value(authority, request_acct) == RevealValue(authority, request_acct)

anchor_process_instruction ==
  \/ create_input(Value)
  \/ \E p \in Person : anchor_create_counter(p)
  \/ anchor_increment \/ anchor_decrement
  \/ \E p \in Person, r \in Request :
       anchor_request_value_decryption(p, r) \/ anchor_reveal_value(p, r)

-----------------------------------------------------------------------------
(* Any of the programs, each instruction of whichever version.             *)
Next ==
  \/ pinocchio_process_instruction \/ native_process_instruction
  \/ quasar_process_instruction \/ anchor_process_instruction
  \/ ExecutorStep

Spec == Init /\ [][Next]_counterVars
=============================================================================
