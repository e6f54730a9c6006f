---------------------------- MODULE AclPrograms -----------------------------
(***************************************************************************)
(* The four programs of the confidential ACL.  Three create the            *)
(* ciphertexts they need and compare the permissions they are given with   *)
(* the resource's; of the Anchor program the client does the one and       *)
(* nobody the other.                                                       *)
(***************************************************************************)
EXTENDS Acl

(* The Pinocchio program.                                                  *)
pinocchio_create_resource(admin) == CreateResource(admin)
pinocchio_grant_permission(admin, permission_bit) ==
  GrantPermission(admin, Permissions, permission_bit)
pinocchio_revoke_permission(admin, revoke_mask) ==
  RevokePermission(admin, Permissions, revoke_mask)
pinocchio_check_permission(checker, permission_bit, result_ct) ==
  CheckPermission(checker, permission_bit, result_ct)
pinocchio_request_check_decryption(checker, request_acct, result_ciphertext) ==
  RequestCheck(checker, request_acct, result_ciphertext)
pinocchio_reveal_check(checker, request_acct) == RevealCheck(checker, request_acct)
pinocchio_request_permissions_decryption(request_acct, permissions_ciphertext) ==
  RequestPermissions(request_acct, permissions_ciphertext)
pinocchio_reveal_permissions(admin, request_acct) == RevealPermissions(admin, request_acct)

pinocchio_process_instruction ==
  \/ \E p \in Person : pinocchio_create_resource(p)
  \/ \E p \in Person, mask \in Mask :
       \/ pinocchio_grant_permission(p, mask)
       \/ pinocchio_revoke_permission(p, mask)
       \/ \E c \in Ciphertext : pinocchio_check_permission(p, mask, c)
  \/ \E p \in Person, r \in Request :
       \/ \E c \in Ciphertext : pinocchio_request_check_decryption(p, r, c)
       \/ pinocchio_reveal_check(p, r)
       \/ pinocchio_reveal_permissions(p, r)
  \/ \E r \in Request, c \in Ciphertext : pinocchio_request_permissions_decryption(r, c)

-----------------------------------------------------------------------------
(* The native program: the Pinocchio one over bytes of the accounts.       *)
native_create_resource(admin) == CreateResource(admin)
native_grant_permission(admin, permission_bit) ==
  GrantPermission(admin, Permissions, permission_bit)
native_revoke_permission(admin, revoke_mask) ==
  RevokePermission(admin, Permissions, revoke_mask)
native_check_permission(checker, permission_bit, result_ct) ==
  CheckPermission(checker, permission_bit, result_ct)
native_request_check_decryption(checker, request_acct, result_ciphertext) ==
  RequestCheck(checker, request_acct, result_ciphertext)
native_reveal_check(checker, request_acct) == RevealCheck(checker, request_acct)
native_request_permissions_decryption(request_acct, permissions_ciphertext) ==
  RequestPermissions(request_acct, permissions_ciphertext)
native_reveal_permissions(admin, request_acct) == RevealPermissions(admin, request_acct)

native_process_instruction ==
  \/ \E p \in Person : native_create_resource(p)
  \/ \E p \in Person, mask \in Mask :
       \/ native_grant_permission(p, mask)
       \/ native_revoke_permission(p, mask)
       \/ \E c \in Ciphertext : native_check_permission(p, mask, c)
  \/ \E p \in Person, r \in Request :
       \/ \E c \in Ciphertext : native_request_check_decryption(p, r, c)
       \/ native_reveal_check(p, r)
       \/ native_reveal_permissions(p, r)
  \/ \E r \in Request, c \in Ciphertext : native_request_permissions_decryption(r, c)

-----------------------------------------------------------------------------
(* The Quasar program: the accounts are checked by its framework.          *)
quasar_create_resource(admin) == CreateResource(admin)
quasar_grant_permission(admin, permission_bit) ==
  GrantPermission(admin, Permissions, permission_bit)
quasar_revoke_permission(admin, revoke_mask) ==
  RevokePermission(admin, Permissions, revoke_mask)
quasar_check_permission(checker, permission_bit, result_ct) ==
  CheckPermission(checker, permission_bit, result_ct)
quasar_request_check_decryption(checker, request_acct, result_ciphertext) ==
  RequestCheck(checker, request_acct, result_ciphertext)
quasar_reveal_check(checker, request_acct) == RevealCheck(checker, request_acct)
quasar_request_permissions_decryption(request_acct, permissions_ciphertext) ==
  RequestPermissions(request_acct, permissions_ciphertext)
quasar_reveal_permissions(admin, request_acct) == RevealPermissions(admin, request_acct)

quasar_process_instruction ==
  \/ \E p \in Person : quasar_create_resource(p)
  \/ \E p \in Person, mask \in Mask :
       \/ quasar_grant_permission(p, mask)
       \/ quasar_revoke_permission(p, mask)
       \/ \E c \in Ciphertext : quasar_check_permission(p, mask, c)
  \/ \E p \in Person, r \in Request :
       \/ \E c \in Ciphertext : quasar_request_check_decryption(p, r, c)
       \/ quasar_reveal_check(p, r)
       \/ quasar_reveal_permissions(p, r)
  \/ \E r \in Request, c \in Ciphertext : quasar_request_permissions_decryption(r, c)

-----------------------------------------------------------------------------
(* The Anchor program: it takes the ciphertexts of a grant, a revocation   *)
(* and a check as they come.                                               *)
anchor_create_resource(admin) ==
  /\ ~Exists
  /\ resource' = NewResource(admin)
  /\ UNCHANGED <<clientVars, check, changeVars, answerVars>>

anchor_grant_permission(admin, permissions_ct, permission_bit) ==
  GrantPermission(admin, permissions_ct, permission_bit)
anchor_revoke_permission(admin, permissions_ct, revoke_mask) ==
  RevokePermission(admin, permissions_ct, revoke_mask)

(* A checker's only check, of any ciphertext and into any that exists.     *)
anchor_check_permission(checker, permissions_ct, permission_bit, result_ct) ==
  /\ Exists /\ cipher[permissions_ct] # Null
  /\ check[checker] = Null
  /\ ExecuteGraph(
       [c \in {result_ct} |-> check_permission_graph(cipher[permissions_ct].value, permission_bit)])
  /\ check' = [check EXCEPT ![checker] = NewCheck(result_ct)]
  /\ strayed' = (strayed \/ permissions_ct # Permissions \/ ~Unused(result_ct))
  /\ UNCHANGED <<resource, changes, rights, ever, answerVars>>

anchor_request_check_decryption(checker, request_acct, result_ciphertext) ==
  RequestCheck(checker, request_acct, result_ciphertext)
anchor_reveal_check(checker, request_acct) == RevealCheck(checker, request_acct)
anchor_request_permissions_decryption(request_acct, permissions_ciphertext) ==
  RequestPermissions(request_acct, permissions_ciphertext)
anchor_reveal_permissions(admin, request_acct) == RevealPermissions(admin, request_acct)

anchor_process_instruction ==
  \/ \E p \in Person : anchor_create_resource(p)
  \/ \E p \in Person, c \in Ciphertext, mask \in Mask :
       \/ anchor_grant_permission(p, c, mask)
       \/ anchor_revoke_permission(p, c, mask)
       \/ \E d \in Ciphertext : anchor_check_permission(p, c, mask, d)
  \/ \E p \in Person, r \in Request :
       \/ \E c \in Ciphertext : anchor_request_check_decryption(p, r, c)
       \/ anchor_reveal_check(p, r)
       \/ anchor_reveal_permissions(p, r)
  \/ \E r \in Request, c \in Ciphertext : anchor_request_permissions_decryption(r, c)

-----------------------------------------------------------------------------
(* Any of the programs, each instruction of whichever version.             *)
Next ==
  \/ pinocchio_process_instruction \/ native_process_instruction
  \/ quasar_process_instruction \/ anchor_process_instruction
  \/ \E c \in Ciphertext, v \in Mask : create_input(c, v)
  \/ ExecutorStep

Spec == Init /\ [][Next]_aclVars
=============================================================================
