----------------------------- MODULE Acl_proofs -----------------------------
(***************************************************************************)
(* The ACL programs, for any persons, any width of the masks, any          *)
(* ciphertexts and any request accounts: until a graph strays, the         *)
(* encrypted mask is the rights that were granted, and verdicts, what is   *)
(* told and what is shown are those of AccessControl, whichever program an *)
(* instruction goes to and whatever ciphertexts are asked about.           *)
(***************************************************************************)
EXTENDS AclPrograms, TLAPS

(* What holds in any case: nothing names an account that does not exist,   *)
(* and answers are masks.                                                  *)
Named ==
  /\ \A p \in Person : check[p] # Null => cipher[check[p].result_ct] # Null
  /\ \A p \in Person : toldBy[p] # Null => check[p] # Null
  /\ \A r \in Request : asked[r] # Null => cipher[asked[r].ct] # Null /\ asked[r].value \in Mask
  /\ shownBy # Null => Exists
Base == TypeOK /\ Named

(* The permissions are the rights; there are none without them.            *)
RightsHeld ==
  /\ {} \in ever /\ rights \in ever
  /\ IF cipher[Permissions] = Null THEN rights = {} ELSE Bits(cipher[Permissions].value) = rights

(* Each check has a result of its own.                                     *)
Own ==
  \A p \in Person : check[p] # Null =>
    /\ check[p].result_ct # Permissions
    /\ \A q \in Person \ {p} : check[q] # Null => check[q].result_ct # check[p].result_ct

(* An answer of the permissions says what there were, one of a result the  *)
(* verdict.                                                                *)
Says(r) ==
  /\ asked[r].ct = Permissions => Bits(asked[r].value) \in ever
  /\ \A p \in Person : check[p] # Null /\ check[p].result_ct = asked[r].ct /\ asked[r].done =>
       asked[r].value = cipher[asked[r].ct].value
AnswersHeld == \A r \in Request : asked[r] # Null => Says(r)

Good == RightsHeld /\ Own /\ AnswersHeld

AInv == Base /\ (strayed \/ Good)

(* What every step is shown to do.                                         *)
AccessStep ==
  /\ Base'
  /\ strayed' \/ (Good' /\ (A!AccessNext \/ UNCHANGED A!accessVars))

USE ClientAssumption, AclAssumption, AclNull

-----------------------------------------------------------------------------
(* A mask is the word of its bits.                                         *)
LEMMA WordBits ==
  /\ \A bits \in SUBSET Bit : Word[bits] \in Mask /\ Bits(Word[bits]) = bits
  /\ 0 \in Mask /\ Bits(0) = {}
<1>1. ASSUME NEW bits \in SUBSET Bit PROVE Word[bits] \in Mask /\ Bits(Word[bits]) = bits
  <2>1. Bits(Word[bits]) \in SUBSET Bit /\ Word[Bits(Word[bits])] = Word[bits]
    BY DEF Bits
  <2>. QED
    BY <2>1, WordAssumption DEF Mask
<1>2. {} \in SUBSET Bit /\ Word[{}] = 0
  BY WordAssumption
<1>. QED
  BY <1>1, <1>2

LEMMA MaskBits ==
  ASSUME NEW mask \in Mask
  PROVE  mask \in Nat /\ Bits(mask) \in SUBSET Bit
<1>1. PICK bits \in SUBSET Bit : mask = Word[bits]
  BY DEF Mask
<1>. QED
  BY <1>1, WordBits, WordAssumption

(* The graphs, on masks.                                                   *)
LEMMA OrAnd ==
  ASSUME NEW a \in Mask, NEW b \in Mask
  PROVE  /\ Or(a, b) \in Mask /\ Bits(Or(a, b)) = Bits(a) \cup Bits(b)
         /\ And(a, b) \in Mask /\ Bits(And(a, b)) = Bits(a) \cap Bits(b)
<1>1. Bits(a) \cup Bits(b) \in SUBSET Bit /\ Bits(a) \cap Bits(b) \in SUBSET Bit
  BY MaskBits
<1>. QED
  BY <1>1, WordBits DEF Or, And

LEMMA CipherExists ==
  ASSUME TypeOK, NEW c \in Ciphertext, cipher[c] # Null
  PROVE  cipher[c] \in CipherAccount /\ cipher[c].value \in Mask /\ cipher[c].digest \in Digest
BY DEF TypeOK, ClientTypeOK, CipherAccount

LEMMA RequestExists ==
  ASSUME TypeOK, NEW r \in Request, asked[r] # Null
  PROVE  asked[r] \in RequestAccount /\ asked[r].ct \in Ciphertext /\ asked[r].done \in BOOLEAN
BY DEF TypeOK, ClientTypeOK, RequestAccount

LEMMA CheckExists ==
  ASSUME TypeOK, NEW p \in Person, check[p] # Null
  PROVE  /\ check[p] \in CheckAccount /\ check[p].result_ct \in Ciphertext
         /\ check[p].revealed_result \in Mask
BY DEF TypeOK, CheckAccount

(* A ciphertext is written, or made: with a mask.                          *)
LEMMA Written ==
  ASSUME TypeOK, NEW c \in Ciphertext, NEW v \in Mask, NEW d \in Digest, NEW due \in BOOLEAN,
         cipher' = [x \in Ciphertext |->
           IF x = c THEN [value |-> v, digest |-> d, due |-> due] ELSE cipher[x]]
  PROVE  /\ cipher' \in [Ciphertext -> CipherAccount \cup {Null}]
         /\ cipher'[c] # Null /\ cipher'[c].value = v
         /\ \A x \in Ciphertext \ {c} : cipher'[x] = cipher[x]
         /\ \A x \in Ciphertext : cipher[x] # Null => cipher'[x] # Null
         /\ \A x \in Ciphertext : cipher'[x] # Null => cipher'[x].value \in Mask
<1>. DEFINE new == [value |-> v, digest |-> d, due |-> due]
<1>1. new \in CipherAccount /\ new.value = v
  BY MaskBits DEF CipherAccount
<1>2. new # Null
  BY <1>1
<1>. HIDE DEF new
<1>3. cipher'[c] = new /\ \A x \in Ciphertext \ {c} : cipher'[x] = cipher[x]
  BY DEF new
<1>4. \A x \in Ciphertext : cipher'[x] \in CipherAccount \cup {Null}
  BY <1>1, <1>3 DEF TypeOK, ClientTypeOK
<1>5. cipher' \in [Ciphertext -> CipherAccount \cup {Null}]
  BY <1>4
<1>6. \A x \in Ciphertext : cipher'[x] # Null => cipher'[x].value \in Mask
  BY <1>1, <1>3 DEF TypeOK
<1>. QED
  BY <1>1, <1>2, <1>3, <1>5, <1>6

-----------------------------------------------------------------------------
LEMMA AclInit == Init => AInv /\ A!AccessInit
<1>. SUFFICES ASSUME Init PROVE AInv /\ A!AccessInit
  OBVIOUS
<1>. USE DEF Init, ClientInit
<1>1. TypeOK
  <2>1. ClientTypeOK /\ \A c \in Ciphertext : cipher[c] # Null => cipher[c].value \in Mask
    BY DEF ClientTypeOK
  <2>2. /\ resource \in ResourceAccount \cup {Null} /\ check \in [Person -> CheckAccount \cup {Null}]
        /\ 0 \in 0..MaxChanges /\ {} \in SUBSET Bit /\ {{}} \in SUBSET SUBSET Bit
    OBVIOUS
  <2>. QED
    BY <2>1, <2>2 DEF TypeOK
<1>2. Named /\ RightsHeld /\ Own /\ AnswersHeld
  BY DEF Named, RightsHeld, Own, AnswersHeld
<1>3. A!AccessInit
  BY DEF A!AccessInit, Verdicts, ToldRights, ShownRights
<1>. QED
  BY <1>1, <1>2, <1>3 DEF AInv, Base, Good

(* A client's create_input, or the zero a program creates: nothing names   *)
(* the ciphertext yet, and it has no rights if it is the permissions.      *)
LEMMA CreationKeeps ==
  ASSUME AInv, NEW c \in Ciphertext, NEW v \in Mask, NEW d \in Digest,
         c = Permissions => v = 0,
         cipher[c] = Null, asked' = asked,
         cipher' = [x \in Ciphertext |->
           IF x = c THEN [value |-> v, digest |-> d, due |-> FALSE] ELSE cipher[x]],
         resource' = resource \/ (~Exists /\ \E p \in Person : resource' = NewResource(p)),
         UNCHANGED <<check, changeVars, answerVars>>
  PROVE  AccessStep
<1>. USE DEF changeVars, answerVars
<1>1. /\ cipher' \in [Ciphertext -> CipherAccount \cup {Null}]
      /\ cipher'[c] # Null /\ cipher'[c].value = v
      /\ \A x \in Ciphertext \ {c} : cipher'[x] = cipher[x]
      /\ \A x \in Ciphertext : cipher[x] # Null => cipher'[x] # Null
      /\ \A x \in Ciphertext : cipher'[x] # Null => cipher'[x].value \in Mask
  BY Written DEF AInv, Base
<1>2. resource' \in ResourceAccount \cup {Null} /\ (Exists => resource' = resource)
  <2>1. \A p \in Person : NewResource(p) \in ResourceAccount
    BY WordBits DEF NewResource, ResourceAccount, Digest
  <2>. QED
    BY <2>1 DEF AInv, Base, TypeOK
<1>3. TypeOK'
  BY <1>1, <1>2 DEF AInv, Base, TypeOK, ClientTypeOK
<1>4. /\ \A p \in Person : check[p] # Null => check[p].result_ct \in Ciphertext \ {c}
      /\ \A r \in Request : asked[r] # Null => asked[r].ct \in Ciphertext \ {c}
  BY CheckExists, RequestExists DEF AInv, Base, Named
<1>5. Named' /\ (shownBy # Null => resource' = resource)
  BY <1>1, <1>2, <1>4 DEF AInv, Base, Named, Exists
<1>6. Base'
  BY <1>3, <1>5 DEF Base
<1>7. ASSUME ~strayed PROVE Good' /\ UNCHANGED A!accessVars
  <2>1. RightsHeld'
    BY <1>1, <1>7, WordBits DEF AInv, Good, RightsHeld
  <2>2. Own' /\ AnswersHeld'
    BY <1>1, <1>4, <1>7 DEF AInv, Good, Own, AnswersHeld, Says
  <2>3. Verdicts' = Verdicts /\ ToldRights' = ToldRights /\ ShownRights' = ShownRights
    BY <1>1, <1>4, <1>5 DEF Verdicts, ToldRights, ShownRights
  <2>. QED
    BY <2>1, <2>2, <2>3 DEF Good, A!accessVars
<1>. QED
  BY <1>6, <1>7 DEF AccessStep

(* create_resource, and what the client of the Anchor program does first.  *)
LEMMA CreateKeeps ==
  ASSUME AInv, NEW p \in Person, CreateResource(p)
  PROVE  AccessStep
<1>1. 0 \in Mask /\ ZeroDigest \in Digest
  BY WordBits DEF Digest
<1>2. /\ cipher[Permissions] = Null /\ asked' = asked
      /\ cipher' = [x \in Ciphertext |->
           IF x = Permissions THEN [value |-> 0, digest |-> ZeroDigest, due |-> FALSE]
           ELSE cipher[x]]
      /\ ~Exists /\ resource' = NewResource(p) /\ UNCHANGED <<check, changeVars, answerVars>>
  BY DEF CreateResource, CreateZeros
<1>. QED
  BY <1>1, <1>2, CreationKeeps

LEMMA AnchorCreateKeeps ==
  ASSUME AInv, NEW p \in Person, anchor_create_resource(p)
  PROVE  AccessStep
<1>1. /\ ~Exists /\ resource' = NewResource(p)
      /\ UNCHANGED <<cipher, asked, check, changes, rights, ever, strayed, lastAsked, toldBy, shownBy>>
  BY DEF anchor_create_resource, clientVars, changeVars, answerVars
<1>2. NewResource(p) \in ResourceAccount
  BY WordBits DEF NewResource, ResourceAccount, Digest
<1>3. TypeOK' /\ Named' /\ shownBy = Null
  BY <1>1, <1>2 DEF AInv, Base, TypeOK, ClientTypeOK, Named
<1>4. Good => Good'
  BY <1>1 DEF Good, RightsHeld, Own, AnswersHeld, Says
<1>5. Verdicts' = Verdicts /\ ToldRights' = ToldRights /\ ShownRights' = ShownRights
  BY <1>1, <1>3 DEF Verdicts, ToldRights, ShownRights
<1>. QED
  BY <1>1, <1>3, <1>4, <1>5 DEF AInv, Base, AccessStep, A!accessVars

LEMMA InputKeeps ==
  ASSUME AInv, NEW c \in Ciphertext, NEW v \in Mask, create_input(c, v)
  PROVE  AccessStep
<1>1. v \in Digest
  BY MaskBits DEF Digest
<1>2. /\ c = Permissions => v = 0
      /\ cipher[c] = Null /\ asked' = asked /\ UNCHANGED <<resource, check, changeVars, answerVars>>
      /\ cipher' = [x \in Ciphertext |->
           IF x = c THEN [value |-> v, digest |-> v, due |-> FALSE] ELSE cipher[x]]
  BY DEF create_input, CreateInput, AInv, Base, TypeOK, ClientTypeOK
<1>. QED
  BY <1>1, <1>2, CreationKeeps

-----------------------------------------------------------------------------
(* A graph that writes what it reads: if that is the permissions, verdicts *)
(* and answers are of other ciphertexts, and what was asked about the      *)
(* permissions before was true at some time.                               *)
LEMMA ChangeKeeps ==
  ASSUME AInv, NEW c \in Ciphertext, NEW v \in Mask, NEW now \in SUBSET Bit,
         c = Permissions /\ ~strayed => Bits(v) = now /\ (A!Becomes(now) => A!AccessNext),
         Change(c, v, now)
  PROVE  AccessStep
<1>1. /\ cipher[c] # Null
      /\ cipher' = [x \in Ciphertext |->
           IF x = c THEN [value |-> v, digest |-> ZeroDigest, due |-> TRUE] ELSE cipher[x]]
      /\ IF c = Permissions THEN rights' = now /\ ever' = ever \cup {now} /\ strayed' = strayed
         ELSE strayed' = TRUE /\ rights' = rights /\ ever' = ever
      /\ changes < MaxChanges /\ changes' = changes + 1
      /\ UNCHANGED <<asked, resource, check, lastAsked, toldBy, shownBy>>
  BY DEF Change, ExecuteGraph, answerVars
<1>2. /\ cipher' \in [Ciphertext -> CipherAccount \cup {Null}]
      /\ cipher'[c] # Null /\ cipher'[c].value = v
      /\ \A x \in Ciphertext \ {c} : cipher'[x] = cipher[x]
      /\ \A x \in Ciphertext : cipher[x] # Null => cipher'[x] # Null
      /\ \A x \in Ciphertext : cipher'[x] # Null => cipher'[x].value \in Mask
  <2>1. ZeroDigest \in Digest
    BY DEF Digest
  <2>. QED
    BY <1>1, <2>1, Written DEF AInv, Base
<1>3. TypeOK'
  <2>1. changes' \in 0..MaxChanges
    BY <1>1 DEF AInv, Base, TypeOK
  <2>2. rights' \subseteq Bit /\ ever' \subseteq SUBSET Bit /\ strayed' \in BOOLEAN
    BY <1>1 DEF AInv, Base, TypeOK
  <2>. QED
    BY <1>1, <1>2, <2>1, <2>2 DEF AInv, Base, TypeOK, ClientTypeOK
<1>4. Named'
  BY <1>1, <1>2, CheckExists, RequestExists DEF AInv, Base, Named, Exists
<1>5. ASSUME ~strayed' PROVE Good' /\ A!AccessNext
  <2>1. c = Permissions /\ ~strayed /\ Good /\ Bits(v) = now /\ rights' = now /\ ever' = ever \cup {now}
    BY <1>1, <1>5 DEF AInv
  <2>2. RightsHeld'
    BY <1>2, <2>1 DEF Good, RightsHeld
  <2>3. Own'
    BY <1>1, <2>1 DEF Good, Own
  <2>4. \A p \in Person : check[p] # Null => check[p].result_ct \in Ciphertext \ {c}
    BY <2>1, CheckExists DEF AInv, Base, Good, Own
  <2>5. AnswersHeld'
    BY <1>1, <1>2, <2>1, <2>4 DEF Good, AnswersHeld, Says
  <2>6. Verdicts' = Verdicts /\ ToldRights' = ToldRights /\ ShownRights' = ShownRights
    BY <1>1, <1>2, <2>4 DEF Verdicts, ToldRights, ShownRights
  <2>. QED
    BY <2>1, <2>2, <2>3, <2>5, <2>6 DEF Good, A!Becomes
<1>. QED
  BY <1>3, <1>4, <1>5 DEF Base, AccessStep

LEMMA GrantKeeps ==
  ASSUME AInv, NEW p \in Person, NEW c \in Ciphertext, NEW mask \in Mask, GrantPermission(p, c, mask)
  PROVE  AccessStep
<1>. DEFINE held == cipher[c].value
            v == Or(held, mask)
            now == rights \cup Bits(mask)
<1>1. held \in Mask /\ (c = Permissions /\ ~strayed => Bits(held) = rights)
  BY CipherExists DEF GrantPermission, AInv, Base, Good, RightsHeld
<1>2. Bits(mask) \in SUBSET Bit /\ now \in SUBSET Bit
  BY MaskBits DEF AInv, Base, TypeOK
<1>3. v \in Mask /\ (c = Permissions /\ ~strayed => Bits(v) = now)
  <2>. HIDE DEF held
  <2>1. Or(held, mask) \in Mask /\ Bits(Or(held, mask)) = Bits(held) \cup Bits(mask)
    BY <1>1, OrAnd
  <2>. QED
    BY <1>1, <2>1
<1>4. Change(c, v, now)
  BY DEF GrantPermission, grant_permission_graph
<1>5. A!Becomes(now) => A!AccessNext
  BY <1>2 DEF A!AccessNext, A!Grant
<1>. HIDE DEF v, now
<1>. QED
  BY <1>2, <1>3, <1>4, <1>5, ChangeKeeps

LEMMA RevokeKeeps ==
  ASSUME AInv, NEW p \in Person, NEW c \in Ciphertext, NEW mask \in Mask, RevokePermission(p, c, mask)
  PROVE  AccessStep
<1>. DEFINE held == cipher[c].value
            v == And(held, mask)
            now == rights \cap Bits(mask)
<1>1. held \in Mask /\ (c = Permissions /\ ~strayed => Bits(held) = rights)
  BY CipherExists DEF RevokePermission, AInv, Base, Good, RightsHeld
<1>2. Bits(mask) \in SUBSET Bit /\ now \in SUBSET Bit
  BY MaskBits DEF AInv, Base, TypeOK
<1>3. v \in Mask /\ (c = Permissions /\ ~strayed => Bits(v) = now)
  <2>. HIDE DEF held
  <2>1. And(held, mask) \in Mask /\ Bits(And(held, mask)) = Bits(held) \cap Bits(mask)
    BY <1>1, OrAnd
  <2>. QED
    BY <1>1, <2>1
<1>4. Change(c, v, now)
  BY DEF RevokePermission, revoke_permission_graph
<1>5. A!Becomes(now) => A!AccessNext
  <2>1. now = rights \ (Bit \ Bits(mask)) /\ Bit \ Bits(mask) \in SUBSET Bit
    BY DEF AInv, Base, TypeOK
  <2>. QED
    BY <2>1 DEF A!AccessNext, A!Revoke
<1>. HIDE DEF v, now
<1>. QED
  BY <1>2, <1>3, <1>4, <1>5, ChangeKeeps

-----------------------------------------------------------------------------
(* The check and its result, of the value v.                               *)
CheckMade(p, c, v) ==
  /\ cipher' = [x \in Ciphertext |->
       IF x = c THEN [value |-> v, digest |-> ZeroDigest, due |-> TRUE] ELSE cipher[x]]
  /\ check' = [check EXCEPT ![p] = NewCheck(c)]

(* check_permission: the verdict is the rights of now among those asked    *)
(* for, whoever made the ciphertext of the result, unless it strays.       *)
LEMMA CheckedKeeps ==
  ASSUME AInv, NEW p \in Person, NEW from \in Ciphertext, NEW c \in Ciphertext, NEW mask \in Mask,
         cipher[from] # Null, check[p] = Null,
         NEW v \in Mask, v = And(cipher[from].value, mask), CheckMade(p, c, v),
         strayed' \in BOOLEAN, ~strayed' => ~strayed /\ from = Permissions /\ Unused(c),
         UNCHANGED <<asked, resource, changes, rights, ever, answerVars>>
  PROVE  AccessStep
<1>. USE DEF answerVars
<1>. DEFINE held == cipher[from].value
<1>1. held \in Mask /\ Bits(held) \in SUBSET Bit /\ Bits(mask) \in SUBSET Bit
  BY CipherExists, MaskBits DEF AInv, Base
<1>2. Bits(v) = Bits(held) \cap Bits(mask)
  BY <1>1, OrAnd
<1>3. /\ cipher' \in [Ciphertext -> CipherAccount \cup {Null}]
      /\ cipher'[c] # Null /\ cipher'[c].value = v
      /\ \A x \in Ciphertext \ {c} : cipher'[x] = cipher[x]
      /\ \A x \in Ciphertext : cipher[x] # Null => cipher'[x] # Null
      /\ \A x \in Ciphertext : cipher'[x] # Null => cipher'[x].value \in Mask
  BY Written DEF AInv, Base, Digest, CheckMade
<1>4. NewCheck(c) \in CheckAccount /\ NewCheck(c).revealed_result = 0 /\ NewCheck(c).result_ct = c
  BY WordBits DEF NewCheck, CheckAccount, Digest
<1>5. /\ check' \in [Person -> CheckAccount \cup {Null}] /\ check'[p] # Null
      /\ check'[p].result_ct = c
      /\ \A q \in Person \ {p} : check'[q] = check[q]
  BY <1>4 DEF AInv, Base, TypeOK, CheckMade
<1>6. TypeOK'
  BY <1>3, <1>5 DEF AInv, Base, TypeOK, ClientTypeOK
<1>7. Named'
  BY <1>3, <1>5, CheckExists, RequestExists DEF AInv, Base, Named, Exists
<1>8. ASSUME ~strayed' PROVE Good' /\ (A!AccessNext \/ UNCHANGED A!accessVars)
  <2>1. from = Permissions /\ ~strayed /\ Good /\ Unused(c)
    BY <1>8 DEF AInv
  <2>2. RightsHeld' /\ Own'
    BY <1>3, <1>5, <2>1 DEF Good, RightsHeld, Own, Unused
  <2>3. Bits(held) = rights
    BY <2>1 DEF Good, RightsHeld
  <2>4. AnswersHeld'
    <3>1. ASSUME NEW r \in Request, asked[r] # Null PROVE Says(r)'
      <4>1. asked[r].ct \in Ciphertext \ {c} /\ Says(r)
        BY <2>1, <3>1, RequestExists DEF AInv, Base, Good, AnswersHeld, Unused
      <4>. QED
        BY <1>3, <1>5, <4>1 DEF Says
    <3>. QED
      BY <3>1 DEF AnswersHeld
  <2>5. \A q \in Person : check[q] # Null => cipher'[check[q].result_ct] = cipher[check[q].result_ct]
    BY <1>3, <2>1, CheckExists DEF AInv, Base, Unused
  <2>6. Verdicts' = [Verdicts EXCEPT ![p] = rights \cap Bits(mask)] /\ Verdicts[p] = Null
    <3>1. \A q \in Person \ {p} :
            (IF check'[q] = Null THEN Null ELSE Bits(cipher'[check'[q].result_ct].value))
              = IF check[q] = Null THEN Null ELSE Bits(cipher[check[q].result_ct].value)
      BY <1>5, <2>5
    <3>2. (IF check'[p] = Null THEN Null ELSE Bits(cipher'[check'[p].result_ct].value))
            = rights \cap Bits(mask)
      BY <1>2, <1>3, <1>5, <2>3
    <3>. QED
      BY <3>1, <3>2 DEF Verdicts
  <2>7. ToldRights' = ToldRights /\ ShownRights' = ShownRights
    <3>1. toldBy[p] = Null /\ \A q \in Person \ {p} : check'[q] = check[q]
      BY <1>5 DEF AInv, Base, Named
    <3>. QED
      BY <3>1 DEF ToldRights, ShownRights
  <2>8. A!Check(p, Bits(mask))
    BY <2>6, <2>7 DEF A!Check
  <2>. QED
    BY <1>1, <2>2, <2>4, <2>8 DEF Good, A!AccessNext
<1>. QED
  BY <1>6, <1>7, <1>8 DEF Base, AccessStep

LEMMA CheckKeeps ==
  ASSUME AInv, NEW p \in Person, NEW mask \in Mask, NEW c \in Ciphertext, CheckPermission(p, mask, c)
  PROVE  AccessStep
<1>1. /\ cipher[Permissions] # Null /\ check[p] = Null /\ cipher[c] = Null
      /\ cipher' = [x \in Ciphertext |-> IF x = c THEN
           [value |-> And(cipher[Permissions].value, mask), digest |-> ZeroDigest, due |-> TRUE]
           ELSE cipher[x]]
      /\ check' = [check EXCEPT ![p] = NewCheck(c)]
      /\ UNCHANGED <<asked, resource, changes, rights, ever, strayed, answerVars>>
  BY DEF CheckPermission, CreateAndExecute, check_permission_graph, changeVars
<1>2. Unused(c)
  BY <1>1 DEF Unused, AInv, Base, Named
<1>3. strayed' \in BOOLEAN
  BY <1>1 DEF AInv, Base, TypeOK
<1>4. PICK v \in Mask : v = And(cipher[Permissions].value, mask)
  BY <1>1, CipherExists, OrAnd, AclAssumption DEF AInv, Base
<1>5. CheckMade(p, c, v)
  BY <1>1, <1>4 DEF CheckMade
<1>. HIDE DEF Unused
<1>. QED
  BY <1>1, <1>2, <1>3, <1>4, <1>5, CheckedKeeps

LEMMA AnchorCheckKeeps ==
  ASSUME AInv, NEW p \in Person, NEW from \in Ciphertext, NEW mask \in Mask, NEW c \in Ciphertext,
         anchor_check_permission(p, from, mask, c)
  PROVE  AccessStep
<1>1. /\ cipher[from] # Null /\ check[p] = Null
      /\ cipher' = [x \in Ciphertext |-> IF x = c THEN
           [value |-> And(cipher[from].value, mask), digest |-> ZeroDigest, due |-> TRUE]
           ELSE cipher[x]]
      /\ check' = [check EXCEPT ![p] = NewCheck(c)]
      /\ strayed' = (strayed \/ from # Permissions \/ ~Unused(c))
      /\ UNCHANGED <<asked, resource, changes, rights, ever, answerVars>>
  BY DEF anchor_check_permission, ExecuteGraph, check_permission_graph
<1>. HIDE DEF Unused
<1>2. strayed' \in BOOLEAN /\ (~strayed' => ~strayed /\ from = Permissions /\ Unused(c))
  BY <1>1 DEF AInv, Base, TypeOK
<1>3. PICK v \in Mask : v = And(cipher[from].value, mask)
  BY <1>1, CipherExists, OrAnd DEF AInv, Base
<1>4. CheckMade(p, c, v)
  BY <1>1, <1>3 DEF CheckMade
<1>. HIDE DEF Unused
<1>. QED
  BY <1>1, <1>2, <1>3, <1>4, CheckedKeeps

-----------------------------------------------------------------------------
(* A request for whatever ciphertext: it has no answer yet.                *)
LEMMA AskKeeps ==
  ASSUME AInv, NEW c \in Ciphertext, NEW r \in Request, RequestDecryption(r, c),
         resource' \in ResourceAccount \cup {Null}, ShownRights' = ShownRights, Exists' = Exists,
         check' \in [Person -> CheckAccount \cup {Null}],
         \A p \in Person : check'[p] = Null <=> check[p] = Null,
         \A p \in Person : check[p] # Null =>
           /\ check'[p].result_ct = check[p].result_ct
           /\ check'[p].revealed_result = check[p].revealed_result,
         lastAsked' \in [Person -> Ciphertext \cup {Null}],
         UNCHANGED <<changeVars, toldBy, shownBy>>
  PROVE  AccessStep
<1>. DEFINE new == [ct |-> c, digest |-> Snapshot(c), done |-> FALSE, value |-> 0]
<1>1. /\ cipher[c] # Null /\ asked' = [asked EXCEPT ![r] = new]
      /\ UNCHANGED <<cipher, changes, rights, ever, strayed>>
  BY DEF RequestDecryption, changeVars
<1>2. /\ new \in RequestAccount /\ new.ct = c /\ new.value = 0 /\ ~new.done
  <2>1. Snapshot(c) \in Digest
    BY <1>1, CipherExists DEF Snapshot, AInv, Base
  <2>. QED
    BY <2>1 DEF RequestAccount
<1>. HIDE DEF new
<1>3. /\ asked' \in [Request -> RequestAccount \cup {Null}] /\ asked'[r] = new
      /\ \A q \in Request \ {r} : asked'[q] = asked[q]
  BY <1>1, <1>2 DEF AInv, Base, TypeOK, ClientTypeOK
<1>4. TypeOK'
  BY <1>1, <1>3 DEF AInv, Base, TypeOK, ClientTypeOK
<1>5. Named'
  BY <1>1, <1>2, <1>3, WordBits DEF AInv, Base, Named
<1>6. ASSUME ~strayed' PROVE Good'
  <2>1. Good
    BY <1>1, <1>6 DEF AInv
  <2>2. RightsHeld' /\ Own'
    BY <1>1, <2>1 DEF Good, RightsHeld, Own
  <2>3. Says(r)'
    BY <1>2, <1>3, <2>1, WordBits, <1>1 DEF Says, Good, RightsHeld
  <2>4. ASSUME NEW q \in Request \ {r}, asked[q] # Null PROVE Says(q)'
    BY <1>1, <1>3, <2>1, <2>4 DEF Says, Good, AnswersHeld
  <2>. QED
    BY <1>3, <2>2, <2>3, <2>4 DEF Good, AnswersHeld
<1>7. Verdicts' = Verdicts /\ ToldRights' = ToldRights
  BY <1>1 DEF Verdicts, ToldRights
<1>. QED
  BY <1>1, <1>4, <1>5, <1>6, <1>7 DEF Base, AccessStep, A!accessVars

LEMMA RequestCheckKeeps ==
  ASSUME AInv, NEW p \in Person, NEW r \in Request, NEW c \in Ciphertext, RequestCheck(p, r, c)
  PROVE  AccessStep
<1>1. /\ check[p] # Null /\ RequestDecryption(r, c) /\ cipher[c] # Null
      /\ check' = [check EXCEPT ![p].pending_digest = Snapshot(c)]
      /\ lastAsked' = [lastAsked EXCEPT ![p] = c]
      /\ UNCHANGED <<resource, changeVars, toldBy, shownBy>>
  BY DEF RequestCheck, RequestDecryption
<1>2. check[p] \in CheckAccount /\ Snapshot(c) \in Digest
  BY <1>1, CipherExists DEF Snapshot, AInv, Base, TypeOK
<1>. DEFINE new == [check[p] EXCEPT !.pending_digest = Snapshot(c)]
<1>3. /\ new \in CheckAccount /\ new # Null /\ new.revealed_result = check[p].revealed_result
      /\ new.result_ct = check[p].result_ct
  <2>1. /\ new \in CheckAccount /\ new.revealed_result = check[p].revealed_result
        /\ new.result_ct = check[p].result_ct
    BY <1>2 DEF CheckAccount
  <2>. QED
    BY <2>1
<1>4. check' = [check EXCEPT ![p] = new]
  BY <1>1
<1>. HIDE DEF new
<1>5. /\ check' \in [Person -> CheckAccount \cup {Null}]
      /\ \A q \in Person : check'[q] = Null <=> check[q] = Null
      /\ \A q \in Person : check[q] # Null =>
           /\ check'[q].result_ct = check[q].result_ct
           /\ check'[q].revealed_result = check[q].revealed_result
  BY <1>1, <1>3, <1>4 DEF AInv, Base, TypeOK
<1>6. /\ resource' \in ResourceAccount \cup {Null} /\ ShownRights' = ShownRights /\ Exists' = Exists
      /\ lastAsked' \in [Person -> Ciphertext \cup {Null}]
  BY <1>1 DEF AInv, Base, TypeOK, ShownRights, Exists
<1>. QED
  BY <1>1, <1>5, <1>6, AskKeeps

LEMMA RequestPermissionsKeeps ==
  ASSUME AInv, NEW r \in Request, NEW c \in Ciphertext, RequestPermissions(r, c)
  PROVE  AccessStep
<1>. DEFINE new == [resource EXCEPT !.pending_digest = Snapshot(c)]
<1>1. /\ Exists /\ RequestDecryption(r, c) /\ cipher[c] # Null
      /\ resource' = new /\ UNCHANGED <<check, changeVars, lastAsked, toldBy, shownBy>>
  BY DEF RequestPermissions, RequestDecryption, answerVars
<1>2. resource \in ResourceAccount /\ Snapshot(c) \in Digest
  BY <1>1, CipherExists DEF Snapshot, AInv, Base, TypeOK, Exists
<1>3. /\ new \in ResourceAccount /\ new # Null
      /\ new.revealed_permissions = resource.revealed_permissions
  <2>1. new \in ResourceAccount /\ new.revealed_permissions = resource.revealed_permissions
    BY <1>2 DEF ResourceAccount
  <2>. QED
    BY <2>1
<1>. HIDE DEF new
<1>4. resource' \in ResourceAccount \cup {Null} /\ ShownRights' = ShownRights /\ Exists' = Exists
  BY <1>1, <1>3 DEF ShownRights, Exists
<1>5. /\ check' \in [Person -> CheckAccount \cup {Null}] /\ check' = check
      /\ lastAsked' \in [Person -> Ciphertext \cup {Null}]
  BY <1>1 DEF AInv, Base, TypeOK
<1>. QED
  BY <1>1, <1>4, <1>5, AskKeeps

-----------------------------------------------------------------------------
(* The reveals: an answer of the ciphertext in question says what it is    *)
(* to, any other one leaves the checker, or the administrator, with        *)
(* something unknown.                                                      *)
LEMMA RevealCheckKeeps ==
  ASSUME AInv, NEW p \in Person, NEW r \in Request, RevealCheck(p, r)
  PROVE  AccessStep
<1>. DEFINE told == asked[r].value
            new == [check[p] EXCEPT !.revealed_result = told]
<1>1. /\ check[p] # Null /\ asked[r] # Null /\ asked[r].done /\ asked[r].ct \in Ciphertext
      /\ check' = [check EXCEPT ![p].revealed_result = told]
      /\ toldBy' = [toldBy EXCEPT ![p] = asked[r].ct]
      /\ UNCHANGED <<cipher, asked, resource, changes, rights, ever, strayed, lastAsked, shownBy>>
  BY RequestExists DEF RevealCheck, Verified, clientVars, changeVars, AInv, Base
<1>2. told \in Mask
  BY <1>1 DEF AInv, Base, Named
<1>3. /\ new \in CheckAccount /\ new.revealed_result = told /\ new # Null
      /\ new.result_ct = check[p].result_ct
  <2>1. check[p] \in CheckAccount
    BY <1>1 DEF AInv, Base, TypeOK
  <2>2. /\ new \in CheckAccount /\ new.revealed_result = told
        /\ new.result_ct = check[p].result_ct
    BY <1>2, <2>1 DEF CheckAccount
  <2>. QED
    BY <2>2
<1>4. check' = [check EXCEPT ![p] = new]
  BY <1>1
<1>. HIDE DEF new, told
<1>5. /\ check' \in [Person -> CheckAccount \cup {Null}] /\ check'[p] = new
      /\ \A q \in Person \ {p} : check'[q] = check[q]
      /\ \A q \in Person : check'[q] = Null <=> check[q] = Null
      /\ \A q \in Person : check[q] # Null => check'[q].result_ct = check[q].result_ct
  BY <1>1, <1>3, <1>4 DEF AInv, Base, TypeOK
<1>6. /\ toldBy' \in [Person -> Ciphertext \cup {Null}] /\ toldBy'[p] = asked[r].ct
      /\ toldBy'[p] # Null /\ \A q \in Person \ {p} : toldBy'[q] = toldBy[q]
  BY <1>1 DEF AInv, Base, TypeOK
<1>7. TypeOK'
  BY <1>1, <1>5, <1>6 DEF AInv, Base, TypeOK, ClientTypeOK
<1>8. Named'
  BY <1>1, <1>5, <1>6 DEF AInv, Base, Named, Exists
<1>9. ASSUME ~strayed' PROVE Good' /\ A!AccessNext
  <2>1. Good
    BY <1>1, <1>9 DEF AInv
  <2>2. RightsHeld' /\ Own' /\ AnswersHeld'
    BY <1>1, <1>5, <2>1 DEF Good, RightsHeld, Own, AnswersHeld, Says
  <2>3. Verdicts' = Verdicts /\ ShownRights' = ShownRights
    BY <1>1, <1>5 DEF Verdicts, ShownRights
  <2>4. Verdicts[p] = Bits(cipher[check[p].result_ct].value) /\ Verdicts[p] # Null
    <3>1. cipher[check[p].result_ct].value \in Mask
      BY <1>1, CheckExists, CipherExists DEF AInv, Base, Named
    <3>. QED
      BY <1>1, <3>1, MaskBits DEF Verdicts
  <2>5. ToldRights' = [ToldRights EXCEPT ![p] = ToldRights'[p]]
    BY <1>5, <1>6 DEF ToldRights
  <2>6. ToldRights'[p] = IF asked[r].ct # check[p].result_ct THEN Null ELSE Bits(told)
    BY <1>1, <1>3, <1>5, <1>6 DEF ToldRights
  <2>7. asked[r].ct = check[p].result_ct => told = cipher[check[p].result_ct].value
    BY <1>1, <2>1 DEF Good, AnswersHeld, Says, told
  <2>8. ToldRights'[p] \in {Verdicts[p], Null}
    BY <2>4, <2>6, <2>7
  <2>9. A!Tell(p)
    BY <1>1, <2>3, <2>4, <2>5, <2>8 DEF A!Tell
  <2>. QED
    BY <2>2, <2>9 DEF Good, A!AccessNext
<1>. QED
  BY <1>7, <1>8, <1>9 DEF Base, AccessStep

LEMMA RevealPermissionsKeeps ==
  ASSUME AInv, NEW p \in Person, NEW r \in Request, RevealPermissions(p, r)
  PROVE  AccessStep
<1>. DEFINE shown == asked[r].value
            new == [resource EXCEPT !.revealed_permissions = shown]
<1>1. /\ Exists /\ asked[r] # Null /\ asked[r].ct \in Ciphertext /\ resource' = new
      /\ shownBy' = asked[r].ct
      /\ UNCHANGED <<cipher, asked, check, changes, rights, ever, strayed, lastAsked, toldBy>>
  BY RequestExists DEF RevealPermissions, Verified, clientVars, changeVars, AInv, Base
<1>2. shown \in Mask
  BY <1>1 DEF AInv, Base, Named
<1>3. new \in ResourceAccount /\ new.revealed_permissions = shown /\ new # Null
  <2>1. resource \in ResourceAccount
    BY <1>1 DEF AInv, Base, TypeOK, Exists
  <2>2. new \in ResourceAccount /\ new.revealed_permissions = shown
    BY <1>2, <2>1 DEF ResourceAccount
  <2>. QED
    BY <2>2
<1>. HIDE DEF new, shown
<1>4. TypeOK'
  BY <1>1, <1>3 DEF AInv, Base, TypeOK, ClientTypeOK
<1>5. Named'
  BY <1>1, <1>3 DEF AInv, Base, Named, Exists
<1>6. ASSUME ~strayed' PROVE Good' /\ A!AccessNext
  <2>1. Good
    BY <1>1, <1>6 DEF AInv
  <2>2. RightsHeld' /\ Own' /\ AnswersHeld'
    BY <1>1, <2>1 DEF Good, RightsHeld, Own, AnswersHeld, Says
  <2>3. Verdicts' = Verdicts /\ ToldRights' = ToldRights
    BY <1>1 DEF Verdicts, ToldRights
  <2>4. ShownRights' = IF asked[r].ct = Permissions THEN Bits(shown) ELSE Null
    BY <1>1, <1>3 DEF ShownRights
  <2>5. asked[r].ct = Permissions => Bits(shown) \in ever
    BY <1>1, <2>1 DEF Good, AnswersHeld, Says, shown
  <2>6. A!Show
    BY <1>1, <2>3, <2>4, <2>5 DEF A!Show
  <2>. QED
    BY <2>2, <2>6 DEF Good, A!AccessNext
<1>. QED
  BY <1>4, <1>5, <1>6 DEF Base, AccessStep

-----------------------------------------------------------------------------
(* process_pending changes no plaintext; what it answers is the plaintext  *)
(* of the moment, a verdict or the rights of now.                          *)
LEMMA ExecutorKeeps ==
  ASSUME AInv, ExecutorStep
  PROVE  AccessStep
<1>1. UNCHANGED <<resource, check, changes, rights, ever, strayed, lastAsked, toldBy, shownBy>>
  BY DEF ExecutorStep, changeVars, answerVars
<1>2. /\ \A c \in Ciphertext : cipher'[c] = Null <=> cipher[c] = Null
      /\ \A c \in Ciphertext : cipher[c] # Null => cipher'[c].value = cipher[c].value
      /\ cipher' \in [Ciphertext -> CipherAccount \cup {Null}]
  <2>1. ASSUME NEW c \in Ciphertext
        PROVE  /\ cipher'[c] \in CipherAccount \cup {Null}
               /\ cipher'[c] = Null <=> cipher[c] = Null
               /\ cipher[c] # Null => cipher'[c].value = cipher[c].value
    <3>. DEFINE new == [value |-> cipher[c].value, digest |-> cipher[c].value, due |-> FALSE]
    <3>1. cipher'[c] = IF cipher[c] # Null /\ cipher[c].due THEN new ELSE cipher[c]
      BY DEF ExecutorStep, ProcessPending
    <3>2. ASSUME cipher[c] # Null PROVE new \in CipherAccount /\ new.value = cipher[c].value
      <4>1. cipher[c].value \in Nat
        BY <3>2, CipherExists, MaskBits DEF AInv, Base
      <4>. QED
        BY <4>1 DEF CipherAccount, Digest
    <3>3. cipher[c] \in CipherAccount \cup {Null}
      BY DEF AInv, Base, TypeOK, ClientTypeOK
    <3>. HIDE DEF new
    <3>. QED
      BY <3>1, <3>2, <3>3
  <2>2. cipher' = [c \in Ciphertext |-> cipher'[c]]
    BY DEF ExecutorStep, ProcessPending
  <2>. QED
    BY <2>1, <2>2
<1>3. /\ asked' \in [Request -> RequestAccount \cup {Null}]
      /\ \A r \in Request : asked'[r] = Null <=> asked[r] = Null
      /\ \A r \in Request : asked[r] # Null =>
           /\ asked'[r].ct = asked[r].ct
           /\ \/ asked[r].done /\ asked'[r].value = asked[r].value
              \/ asked'[r].value = cipher[asked[r].ct].value
  <2>1. ASSUME NEW r \in Request
        PROVE  /\ asked'[r] \in RequestAccount \cup {Null}
               /\ asked'[r] = Null <=> asked[r] = Null
               /\ asked[r] # Null =>
                    /\ asked'[r].ct = asked[r].ct
                    /\ \/ asked[r].done /\ asked'[r].value = asked[r].value
                       \/ asked'[r].value = cipher[asked[r].ct].value
    <3>. DEFINE answer == [asked[r] EXCEPT !.done = TRUE, !.value = cipher[asked[r].ct].value]
    <3>1. asked'[r] = IF asked[r] # Null /\ ~asked[r].done THEN answer ELSE asked[r]
      BY DEF ExecutorStep, ProcessPending
    <3>2. ASSUME asked[r] # Null
          PROVE  /\ answer \in RequestAccount /\ answer.ct = asked[r].ct
                 /\ answer.value = cipher[asked[r].ct].value
      <4>1. asked[r] \in RequestAccount /\ asked[r].ct \in Ciphertext /\ cipher[asked[r].ct] # Null
        BY <3>2, RequestExists DEF AInv, Base, Named
      <4>2. cipher[asked[r].ct].value \in Nat
        BY <4>1, CipherExists, MaskBits DEF AInv, Base
      <4>. QED
        BY <4>1, <4>2 DEF RequestAccount
    <3>3. asked[r] \in RequestAccount \cup {Null}
      BY DEF AInv, Base, TypeOK, ClientTypeOK
    <3>. HIDE DEF answer
    <3>. QED
      BY <3>1, <3>2, <3>3
  <2>2. asked' = [r \in Request |-> asked'[r]]
    BY DEF ExecutorStep, ProcessPending
  <2>. QED
    BY <2>1, <2>2
<1>4. TypeOK'
  <2>1. \A c \in Ciphertext : cipher'[c] # Null => cipher'[c].value \in Mask
    BY <1>2 DEF AInv, Base, TypeOK
  <2>. QED
    BY <1>1, <1>2, <1>3, <2>1 DEF AInv, Base, TypeOK, ClientTypeOK
<1>5. \A r \in Request : asked[r] # Null =>
        /\ asked[r].ct \in Ciphertext /\ cipher[asked[r].ct] # Null
        /\ cipher[asked[r].ct].value \in Mask
  BY RequestExists, CipherExists DEF AInv, Base, Named
<1>6. Named'
  <2>1. \A p \in Person : check[p] # Null => cipher'[check[p].result_ct] # Null
    BY <1>2, CheckExists DEF AInv, Base, Named
  <2>2. \A r \in Request : asked'[r] # Null => cipher'[asked'[r].ct] # Null /\ asked'[r].value \in Mask
    BY <1>2, <1>3, <1>5 DEF AInv, Base, Named
  <2>. QED
    BY <1>1, <2>1, <2>2 DEF AInv, Base, Named, Exists
<1>7. ASSUME ~strayed' PROVE Good'
  <2>1. Good
    BY <1>1, <1>7 DEF AInv
  <2>2. RightsHeld' /\ Own'
    BY <1>1, <1>2, <2>1 DEF Good, RightsHeld, Own
  <2>3. ASSUME NEW r \in Request, asked[r] # Null PROVE Says(r)'
    <3>1. Says(r) /\ cipher'[asked[r].ct].value = cipher[asked[r].ct].value
      BY <1>2, <1>5, <2>1, <2>3 DEF Good, AnswersHeld
    <3>2. asked[r].ct = Permissions => Bits(cipher[asked[r].ct].value) \in ever
      BY <1>5, <2>1, <2>3 DEF Good, RightsHeld
    <3>. QED
      BY <1>1, <1>3, <2>3, <3>1, <3>2 DEF Says
  <2>. QED
    BY <1>3, <2>2, <2>3 DEF Good, AnswersHeld
<1>8. Verdicts' = Verdicts /\ ToldRights' = ToldRights /\ ShownRights' = ShownRights
  <2>1. \A p \in Person : check[p] # Null =>
          cipher'[check[p].result_ct].value = cipher[check[p].result_ct].value
    BY <1>2, CheckExists DEF AInv, Base, Named
  <2>. QED
    BY <1>1, <2>1 DEF Verdicts, ToldRights, ShownRights
<1>. QED
  BY <1>1, <1>4, <1>6, <1>7, <1>8 DEF Base, AccessStep, A!accessVars

-----------------------------------------------------------------------------
(* The instructions of the four programs are those of Acl, but for the two *)
(* of the Anchor program that find their ciphertext made.                  *)
Instruction ==
  \/ \E p \in Person : CreateResource(p) \/ anchor_create_resource(p)
  \/ \E p \in Person, c \in Ciphertext, mask \in Mask :
       \/ GrantPermission(p, c, mask) \/ RevokePermission(p, c, mask) \/ CheckPermission(p, mask, c)
       \/ \E d \in Ciphertext : anchor_check_permission(p, c, mask, d)
  \/ \E p \in Person, r \in Request :
       (\E c \in Ciphertext : RequestCheck(p, r, c)) \/ RevealCheck(p, r) \/ RevealPermissions(p, r)
  \/ \E r \in Request, c \in Ciphertext : RequestPermissions(r, c)

LEMMA NextIs ==
  Next => Instruction \/ ExecutorStep \/ \E c \in Ciphertext, v \in Mask : create_input(c, v)
<1>1. pinocchio_process_instruction => Instruction
  BY DEF Instruction, pinocchio_process_instruction, pinocchio_create_resource,
         pinocchio_grant_permission,
         pinocchio_revoke_permission, pinocchio_check_permission, pinocchio_request_check_decryption,
         pinocchio_reveal_check, pinocchio_request_permissions_decryption, pinocchio_reveal_permissions
<1>2. native_process_instruction => Instruction
  BY DEF Instruction, native_process_instruction, native_create_resource,
         native_grant_permission,
         native_revoke_permission, native_check_permission, native_request_check_decryption,
         native_reveal_check, native_request_permissions_decryption, native_reveal_permissions
<1>3. quasar_process_instruction => Instruction
  BY DEF Instruction, quasar_process_instruction, quasar_create_resource,
         quasar_grant_permission,
         quasar_revoke_permission, quasar_check_permission, quasar_request_check_decryption,
         quasar_reveal_check, quasar_request_permissions_decryption, quasar_reveal_permissions
<1>4. anchor_process_instruction => Instruction
  BY DEF Instruction, anchor_process_instruction, anchor_grant_permission,
         anchor_revoke_permission, anchor_request_check_decryption,
         anchor_reveal_check, anchor_request_permissions_decryption, anchor_reveal_permissions
<1>. QED
  BY <1>1, <1>2, <1>3, <1>4 DEF Next

LEMMA AclStep ==
  ASSUME AInv, [Next]_aclVars
  PROVE  AccessStep
<1>1. CASE UNCHANGED aclVars
  <2>1. /\ UNCHANGED <<cipher, asked, resource, check, changes, rights, ever, strayed>>
        /\ UNCHANGED <<lastAsked, toldBy, shownBy>>
    BY <1>1 DEF aclVars, clientVars, changeVars, answerVars
  <2>2. TypeOK' /\ Named' /\ (Good => Good')
    BY <2>1 DEF AInv, Base, TypeOK, ClientTypeOK, Named, Exists, Good, RightsHeld, Own, AnswersHeld, Says
  <2>3. Verdicts' = Verdicts /\ ToldRights' = ToldRights /\ ShownRights' = ShownRights
    BY <2>1 DEF Verdicts, ToldRights, ShownRights
  <2>. QED
    BY <2>1, <2>2, <2>3 DEF AInv, Base, AccessStep, A!accessVars
<1>2. CASE ExecutorStep
  BY <1>2, ExecutorKeeps
<1>3. CASE \E c \in Ciphertext, v \in Mask : create_input(c, v)
  BY <1>3, InputKeeps
<1>4. CASE Instruction
  <2>1. ASSUME NEW p \in Person, CreateResource(p) \/ anchor_create_resource(p) PROVE AccessStep
    BY <2>1, CreateKeeps, AnchorCreateKeeps
  <2>2. ASSUME NEW p \in Person, NEW c \in Ciphertext, NEW mask \in Mask,
               \/ GrantPermission(p, c, mask) \/ RevokePermission(p, c, mask)
               \/ CheckPermission(p, mask, c)
        PROVE  AccessStep
    BY <2>2, GrantKeeps, RevokeKeeps, CheckKeeps
  <2>3. ASSUME NEW p \in Person, NEW c \in Ciphertext, NEW mask \in Mask, NEW d \in Ciphertext,
               anchor_check_permission(p, c, mask, d)
        PROVE  AccessStep
    BY <2>3, AnchorCheckKeeps
  <2>4. ASSUME NEW p \in Person, NEW r \in Request, RevealCheck(p, r) \/ RevealPermissions(p, r)
        PROVE  AccessStep
    BY <2>4, RevealCheckKeeps, RevealPermissionsKeeps
  <2>5. ASSUME NEW p \in Person, NEW r \in Request, NEW c \in Ciphertext, RequestCheck(p, r, c)
        PROVE  AccessStep
    BY <2>5, RequestCheckKeeps
  <2>6. ASSUME NEW r \in Request, NEW c \in Ciphertext, RequestPermissions(r, c) PROVE AccessStep
    BY <2>6, RequestPermissionsKeeps
  <2>. QED
    BY <1>4, <2>1, <2>2, <2>3, <2>4, <2>5, <2>6 DEF Instruction
<1>. QED
  BY <1>1, <1>2, <1>3, <1>4, NextIs

LEMMA AclInvariant == Spec => []AInv
<1>1. Init => AInv
  BY AclInit
<1>2. AInv /\ [Next]_aclVars => AInv'
  BY AclStep DEF AccessStep, AInv
<1>. QED
  BY <1>1, <1>2, PTL DEF Spec

(* Accounts, requests and history keep their types, and every plaintext is *)
(* a mask.                                                                 *)
THEOREM AclTypeCorrect == Spec => []TypeOK
<1>1. AInv => TypeOK
  BY DEF AInv, Base
<1>. QED
  BY <1>1, AclInvariant, PTL

(* Until a graph strays the encrypted mask is what was granted and not     *)
(* revoked since, whatever graphs are due; in three of the programs none   *)
(* does.                                                                   *)
THEOREM MaskCorrect == Spec => []MaskIsRights
<1>1. AInv => MaskIsRights
  BY DEF AInv, Good, RightsHeld, MaskIsRights
<1>. QED
  BY <1>1, AclInvariant, PTL

(* Until a graph strays the programs are an AccessControl: verdicts are    *)
(* final and the rights of the moment the check was sent, whatever is      *)
(* asked about; what a checker or the administrator is told by an answer   *)
(* of another ciphertext is unknown.                                       *)
THEOREM AclImplementsAccessControl == Spec => ImplementsAccessControl
<1>1. Init => A!AccessInit
  BY AclInit
<1>2. AInv /\ [Next]_aclVars => [strayed' \/ A!AccessNext]_(A!accessVars)
  BY AclStep DEF AccessStep
<1>. QED
  BY <1>1, <1>2, AclInvariant, PTL DEF Spec, ImplementsAccessControl
=============================================================================
