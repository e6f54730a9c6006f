--------------------------------- MODULE Acl ---------------------------------
(***************************************************************************)
(* One resource of the confidential ACL programs: its account, the access  *)
(* checks against it, what the four versions (Pinocchio, native, Anchor,   *)
(* Quasar) share, and what they are meant to do.                           *)
(*                                                                         *)
(* Permissions, granted bits, revocation masks and verdicts are bitmasks,  *)
(* numbers of which only the bits count.  Of the mask of a grant,          *)
(* revocation or check, which its client names, only the value matters.    *)
(*                                                                         *)
(* A request is for any ciphertext its caller names, and a reveal compares *)
(* digests alone; the Anchor program takes any ciphertexts for the mask    *)
(* and the result.  What was named is kept in history variables.           *)
(***************************************************************************)
EXTENDS EncryptClient

CONSTANTS
  Person,       \* who creates the resource, and who checks
  Permissions,  \* the ciphertext of the resource's permissions
  Bit,          \* the bits of a mask; stands for the 64 of a u64
  Word,         \* Word[bits]: the number with exactly these bits
  MaxChanges    \* bound: grants and revocations

VARIABLES
  resource,     \* Null, or the Resource account
  check,        \* check[p]: Null, or the AccessCheck account of p
  \* history variables:
  changes,      \* grants and revocations so far
  rights,       \* the bits granted and not revoked since
  ever,         \* what rights has been
  strayed,      \* a graph was sent for another ciphertext than it is meant for
  lastAsked,    \* lastAsked[p]: what the last request for p's check was for
  toldBy,       \* toldBy[p]: what the answer was of that p's check has stored
  shownBy       \* what the answer was of that the resource has stored

answerVars == <<lastAsked, toldBy, shownBy>>
changeVars == <<changes, rights, ever, strayed>>
aclVars == <<clientVars, resource, check, changeVars, answerVars>>

ASSUME AclAssumption ==
  /\ Permissions \in Ciphertext
  /\ MaxChanges \in Nat

ASSUME WordAssumption ==
  /\ Word \in [SUBSET Bit -> Nat] /\ Word[{}] = 0
  /\ \A a, b \in SUBSET Bit : Word[a] = Word[b] => a = b

Mask == {Word[bits] : bits \in SUBSET Bit}
AllBits == Word[Bit]         \* u64::MAX

Bits(mask) == CHOOSE bits \in SUBSET Bit : Word[bits] = mask

(* The engine's | and & on two masks.                                      *)
Or(a, b) == Word[Bits(a) \cup Bits(b)]
And(a, b) == Word[Bits(a) \cap Bits(b)]

ResourceAccount == [admin : Person, pending_digest : Digest, revealed_permissions : Mask]
CheckAccount == [result_ct : Ciphertext, pending_digest : Digest, revealed_result : Mask]

ASSUME AclNull ==
  /\ Null \notin ResourceAccount \cup CheckAccount \cup Ciphertext
  /\ \A bits \in SUBSET Bit : bits # Null

TypeOK ==
  /\ ClientTypeOK
  /\ resource \in ResourceAccount \cup {Null}
  /\ check \in [Person -> CheckAccount \cup {Null}]
  /\ changes \in 0..MaxChanges /\ rights \subseteq Bit /\ ever \subseteq SUBSET Bit
  /\ strayed \in BOOLEAN
  /\ {lastAsked, toldBy} \subseteq [Person -> Ciphertext \cup {Null}]
  /\ shownBy \in Ciphertext \cup {Null}
  /\ \A c \in Ciphertext : cipher[c] # Null => cipher[c].value \in Mask

Init ==
  /\ ClientInit
  /\ resource = Null
  /\ check = [p \in Person |-> Null]
  /\ changes = 0 /\ rights = {} /\ ever = {{}} /\ strayed = FALSE
  /\ lastAsked = [p \in Person |-> Null] /\ toldBy = lastAsked /\ shownBy = Null

NewResource(a) == [admin |-> a, pending_digest |-> ZeroDigest, revealed_permissions |-> 0]
NewCheck(c) == [result_ct |-> c, pending_digest |-> ZeroDigest, revealed_result |-> 0]

(* Mutant: the bit is added.                                               *)
grant_permission_graph_adds(permissions, permission_bit) == permissions + permission_bit

grant_permission_graph(permissions, permission_bit) == Or(permissions, permission_bit)

(* Mutant: the mask is taken for the bits to take away.                    *)
revoke_permission_graph_bits(permissions, revoke_mask) ==
  Word[Bits(permissions) \ Bits(revoke_mask)]

(* The client passes the bits that stay.                                   *)
revoke_permission_graph(permissions, revoke_mask) == And(permissions, revoke_mask)

(* Mutant: what is asked for is added to what is granted.                  *)
check_permission_graph_or(permissions, permission_bit) == Or(permissions, permission_bit)

check_permission_graph(permissions, permission_bit) == And(permissions, permission_bit)

Exists == resource # Null

(* A graph that overwrites what it reads, the resource's permissions or    *)
(* not; afterwards the client means these to be the bits of now.           *)
Change(permissions_ct, value, now) ==
  /\ changes < MaxChanges /\ changes' = changes + 1
  /\ ExecuteGraph([c \in {permissions_ct} |-> value])
  /\ IF permissions_ct = Permissions
     THEN rights' = now /\ ever' = ever \cup {now} /\ UNCHANGED strayed
     ELSE strayed' = TRUE /\ UNCHANGED <<rights, ever>>
  /\ UNCHANGED <<resource, check, answerVars>>

(* No permissions, and nobody's result; nobody has asked for it.           *)
Unused(c) ==
  /\ c # Permissions
  /\ \A p \in Person : check[p] # Null => check[p].result_ct # c
  /\ \A r \in Request : asked[r] # Null => asked[r].ct # c

(* The client of an instruction makes the masks it passes, and of the      *)
(* Anchor program the permissions, with 0, and a check's result.           *)
create_input(c, v) ==
  /\ c = Permissions => v = 0
  /\ CreateInput(c, v)
  /\ UNCHANGED <<resource, check, changeVars, answerVars>>

ExecutorStep == ProcessPending /\ UNCHANGED <<resource, check, changeVars, answerVars>>

-----------------------------------------------------------------------------
(* The instructions, each one transaction.                                 *)
CreateResource(admin) ==
  /\ ~Exists
  /\ CreateZeros({Permissions})
  /\ resource' = NewResource(admin)
  /\ UNCHANGED <<check, changeVars, answerVars>>

(* The administrator's.                                                    *)
GrantPermission(admin, permissions_ct, permission_bit) ==
  /\ Exists /\ cipher[permissions_ct] # Null
  /\ admin = resource.admin
  /\ Change(permissions_ct, grant_permission_graph(cipher[permissions_ct].value, permission_bit),
            rights \cup Bits(permission_bit))

RevokePermission(admin, permissions_ct, revoke_mask) ==
  /\ Exists /\ cipher[permissions_ct] # Null
  /\ admin = resource.admin
  /\ Change(permissions_ct, revoke_permission_graph(cipher[permissions_ct].value, revoke_mask),
            rights \cap Bits(revoke_mask))

(* A checker's only check of the resource; the result is created in it.    *)
CheckPermission(checker, permission_bit, result_ct) ==
  /\ Exists /\ cipher[Permissions] # Null
  /\ check[checker] = Null
  /\ CreateAndExecute({result_ct},
       [c \in {result_ct} |-> check_permission_graph(cipher[Permissions].value, permission_bit)])
  /\ check' = [check EXCEPT ![checker] = NewCheck(result_ct)]
  /\ UNCHANGED <<resource, changeVars, answerVars>>

(* Anybody's, for anybody's check and whatever ciphertext.                 *)
RequestCheck(checker, request_acct, result_ciphertext) ==
  /\ check[checker] # Null
  /\ RequestDecryption(request_acct, result_ciphertext)
  /\ check' = [check EXCEPT ![checker].pending_digest = Snapshot(result_ciphertext)]
  /\ lastAsked' = [lastAsked EXCEPT ![checker] = result_ciphertext]
  /\ UNCHANGED <<resource, changeVars, toldBy, shownBy>>

(* Only the digest ties the request account to what was asked for.         *)
RevealCheck(checker, request_acct) ==
  /\ check[checker] # Null
  /\ Verified(request_acct, check[checker].pending_digest)
  /\ check' = [check EXCEPT ![checker].revealed_result = asked[request_acct].value]
  /\ toldBy' = [toldBy EXCEPT ![checker] = asked[request_acct].ct]
  /\ UNCHANGED <<clientVars, resource, changeVars, lastAsked, shownBy>>

(* Anybody's too.                                                          *)
RequestPermissions(request_acct, permissions_ciphertext) ==
  /\ Exists
  /\ RequestDecryption(request_acct, permissions_ciphertext)
  /\ resource' = [resource EXCEPT !.pending_digest = Snapshot(permissions_ciphertext)]
  /\ UNCHANGED <<check, changeVars, answerVars>>

RevealPermissions(admin, request_acct) ==
  /\ Exists
  /\ admin = resource.admin
  /\ Verified(request_acct, resource.pending_digest)
  /\ resource' = [resource EXCEPT !.revealed_permissions = asked[request_acct].value]
  /\ shownBy' = asked[request_acct].ct
  /\ UNCHANGED <<clientVars, check, changeVars, lastAsked, toldBy>>

-----------------------------------------------------------------------------
(* Unless a graph has strayed, the encrypted mask has exactly the bits     *)
(* that were granted and not revoked since, in whatever order the graphs   *)
(* that overwrite it were sent and run: a bit granted twice is granted     *)
(* once, a bit revoked that was never granted takes no other away.         *)
MaskIsRights ==
  ~strayed /\ cipher[Permissions] # Null => Bits(cipher[Permissions].value) = rights

(* A check's verdict is the rights granted when check_permission was       *)
(* called, not when its graph was run, and nothing changes it until a      *)
(* graph strays.  What an answer of the check's result has it store is     *)
(* that verdict, and what an answer of the permissions has the resource    *)
(* store is permissions that there were; answers of other ciphertexts get  *)
(* in when their digests are equal, and tell nothing of either.            *)
Verdicts ==
  [p \in Person |-> IF check[p] = Null THEN Null ELSE Bits(cipher[check[p].result_ct].value)]
ToldRights ==
  [p \in Person |-> IF check[p] = Null \/ toldBy[p] = Null THEN {}
                    ELSE IF toldBy[p] # check[p].result_ct THEN Null
                    ELSE Bits(check[p].revealed_result)]
ShownRights == CASE shownBy = Null -> {}
                 [] shownBy = Permissions -> Bits(resource.revealed_permissions)
                 [] OTHER -> Null

A == INSTANCE AccessControl WITH
  Right <- Bit, Checker <- Person, Unchecked <- Null, Unknown <- Null, granted <- rights,
  verdict <- Verdicts, told <- ToldRights, shown <- ShownRights

ImplementsAccessControl == A!AccessInit /\ [][strayed' \/ A!AccessNext]_(A!accessVars)

(* A checker for whose result the last request was made is told it in the  *)
(* end, unless somebody's later request, of another ciphertext, takes its  *)
(* place: anyone may ask again and overwrite the digest reveal_check       *)
(* compares.                                                               *)
AskedFor(p) == check[p] # Null /\ lastAsked[p] = check[p].result_ct
Told(p) ==
  /\ toldBy[p] = check[p].result_ct
  /\ check[p].revealed_result = cipher[check[p].result_ct].value
EventuallyTold ==
  \A p \in Person : AskedFor(p) ~> (~AskedFor(p) \/ Told(p) \/ strayed)
=============================================================================
