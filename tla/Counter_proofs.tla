--------------------------- MODULE Counter_proofs ---------------------------
(***************************************************************************)
(* The counter, for any width of the count, any persons and request        *)
(* accounts, and whichever of the four programs runs each instruction: no  *)
(* step is lost although the count wraps, and what is published is not     *)
(* older than its request.                                                 *)
(***************************************************************************)
EXTENDS CounterPrograms, Integers, TLAPS

(* The count is below the width, and its ciphertext is the counter's.      *)
CountInRange ==
  /\ cipher[Value] # Null => cipher[Value].value \in 0..(Modulus - 1)
  /\ cipher[Value] = Null => ups = 0 /\ downs = 0

(* The counts since a request include the present one and its answer.      *)
SinceIsKept ==
  \A r \in Request : asked[r] # Null =>
    /\ cipher[Value] # Null
    /\ cipher[Value].value \in since[r]
    /\ asked[r].done => asked[r].value \in since[r]

CInv == TypeOK /\ CountInRange /\ CountIsSteps /\ SinceIsKept

-----------------------------------------------------------------------------
(* Remainders: the facts the wrapping count needs.                         *)
LEMMA ModIs ==
  ASSUME NEW m \in Nat \ {0}, NEW a \in Nat
  PROVE  /\ a % m \in 0..(m - 1) /\ a \div m \in Nat
         /\ a = m * (a \div m) + (a % m)
OBVIOUS

(* Quotient and remainder are unique.                                      *)
LEMMA ModUnique ==
  ASSUME NEW m \in Nat \ {0}, NEW q \in Int, NEW p \in Int,
         NEW r \in 0..(m - 1), NEW s \in 0..(m - 1), m * q + r = m * p + s
  PROVE  r = s
<1>1. m * (q - p) = s - r
  OBVIOUS
<1>2. CASE q - p >= 1
  <2>1. m * (q - p) >= m
    BY <1>2, SMTT(30)
  <2>. QED
    BY <1>1, <2>1
<1>3. CASE q - p <= -1
  <2>1. m * (q - p) <= -m
    BY <1>3, SMTT(30)
  <2>. QED
    BY <1>1, <2>1
<1>. QED
  BY <1>1, <1>2, <1>3

LEMMA ModOf ==
  ASSUME NEW m \in Nat \ {0}, NEW a \in Nat, NEW p \in Int, NEW s \in 0..(m - 1), a = m * p + s
  PROVE  a % m = s
<1>1. PICK q \in Nat, r \in 0..(m - 1) : r = a % m /\ a = m * q + r
  BY ModIs
<1>2. m * q + r = m * p + s
  BY <1>1
<1>3. r = s
  BY <1>2, ModUnique
<1>. QED
  BY <1>1, <1>3

(* A full turn leaves the remainder.                                       *)
LEMMA ModTurn ==
  ASSUME NEW m \in Nat \ {0}, NEW a \in Nat
  PROVE  (a + m) % m = a % m
<1>1. PICK q \in Nat, r \in 0..(m - 1) : r = a % m /\ a = m * q + r
  BY ModIs
<1>2. PICK p \in Int, b \in Nat : p = q + 1 /\ b = a + m
  OBVIOUS
<1>3. b = m * p + r
  BY <1>1, <1>2
<1>4. b % m = r
  BY <1>3, ModOf
<1>. QED
  BY <1>1, <1>2, <1>4

(* One more is the next remainder.                                         *)
LEMMA ModStep ==
  ASSUME NEW m \in Nat \ {0}, NEW a \in Nat
  PROVE  (a + 1) % m = IF a % m = m - 1 THEN 0 ELSE (a % m) + 1
<1>1. PICK q \in Nat, r \in 0..(m - 1) : r = a % m /\ a = m * q + r
  BY ModIs
<1>2. PICK p \in Int, s \in 0..(m - 1), b \in Nat :
        /\ b = a + 1
        /\ p = IF r = m - 1 THEN q + 1 ELSE q
        /\ s = IF r = m - 1 THEN 0 ELSE r + 1
  OBVIOUS
<1>3. b = m * p + s
  BY <1>1, <1>2
<1>4. b % m = s
  BY <1>3, ModOf
<1>. QED
  BY <1>1, <1>2, <1>4

-----------------------------------------------------------------------------
USE ClientAssumption, CounterAssumption, CounterNull

(* The next count and the one before, when it wraps and when it does not.  *)
LEMMA NextCount ==
  ASSUME NEW v \in 0..(Modulus - 1), NEW d \in Nat
  PROVE  /\ increment_graph(v)[Value] \in 0..(Modulus - 1)
         /\ (increment_graph(v)[Value] + d) % Modulus = (v + d + 1) % Modulus
<1>1. v % Modulus = v
  <2>1. v = Modulus * 0 + v
    OBVIOUS
  <2>. QED
    BY <2>1, ModOf
<1>2. increment_graph(v)[Value] = IF v = Modulus - 1 THEN 0 ELSE v + 1
  <2>1. (v + 1) % Modulus = IF v = Modulus - 1 THEN 0 ELSE v + 1
    <3>1. v \in Nat /\ Modulus \in Nat \ {0}
      OBVIOUS
    <3>2. (v + 1) % Modulus = IF v % Modulus = Modulus - 1 THEN 0 ELSE (v % Modulus) + 1
      BY <3>1, ModStep
    <3>. QED
      BY <1>1, <3>2
  <2>2. increment_graph(v)[Value] = (v + 1) % Modulus
    BY DEF increment_graph
  <2>. QED
    BY <2>1, <2>2
<1>3. CASE v = Modulus - 1
  <2>1. (d + Modulus) % Modulus = d % Modulus
    BY ModTurn
  <2>2. increment_graph(v)[Value] + d = d /\ v + d + 1 = d + Modulus
    BY <1>2, <1>3
  <2>. QED
    BY <1>2, <1>3, <2>1, <2>2
<1>4. CASE v # Modulus - 1
  <2>1. increment_graph(v)[Value] + d = v + d + 1
    BY <1>2, <1>4
  <2>. QED
    BY <1>2, <1>4, <2>1
<1>. QED
  BY <1>3, <1>4

LEMMA CountBefore ==
  ASSUME NEW v \in 0..(Modulus - 1), NEW d \in Nat
  PROVE  /\ decrement_graph(v)[Value] \in 0..(Modulus - 1)
         /\ (decrement_graph(v)[Value] + (d + 1)) % Modulus = (v + d) % Modulus
<1>1. CASE v = 0
  <2>1. decrement_graph(v)[Value] = Modulus - 1
    <3>1. v + Modulus - 1 = Modulus * 0 + (Modulus - 1)
      BY <1>1
    <3>. QED
      BY <3>1, ModOf DEF decrement_graph
  <2>2. (d + Modulus) % Modulus = d % Modulus
    BY ModTurn
  <2>. QED
    BY <1>1, <2>1, <2>2
<1>2. CASE v # 0
  <2>1. PICK w \in 0..(Modulus - 1) : v = w + 1
    BY <1>2
  <2>2. (w + Modulus) % Modulus = w
    <3>1. w = Modulus * 0 + w
      OBVIOUS
    <3>. QED
      BY <3>1, ModTurn, ModOf
  <2>3. decrement_graph(v)[Value] = w
    BY <2>1, <2>2 DEF decrement_graph
  <2>. QED
    BY <2>1, <2>3
<1>. QED
  BY <1>1, <1>2

-----------------------------------------------------------------------------
(* An account that exists is not Null.                                     *)
LEMMA CounterExists ==
  /\ \A x \in CounterAccount : x # Null
  /\ \A x \in CipherAccount : x # Null
  /\ \A x \in RequestAccount : x # Null
OBVIOUS

(* request_value_decryption's assignment.                                  *)
LEMMA PendingChange ==
  ASSUME counter \in CounterAccount, NEW d \in Digest, counter' = [counter EXCEPT !.pending_digest = d]
  PROVE  counter' \in CounterAccount /\ counter' # Null /\ counter'.revealed_value = counter.revealed_value
BY CounterExists DEF CounterAccount

(* reveal_value's assignment.                                              *)
LEMMA RevealedChange ==
  ASSUME counter \in CounterAccount, NEW n \in Nat, counter' = [counter EXCEPT !.revealed_value = n]
  PROVE  counter' \in CounterAccount /\ counter' # Null /\ counter'.revealed_value = n
BY CounterExists DEF CounterAccount

(* The invariant holds before the first instruction.                       *)
LEMMA CounterInit == Init => CInv
<1>. SUFFICES ASSUME Init PROVE CInv
  OBVIOUS
<1>. USE DEF Init, ClientInit
<1>1. TypeOK
  BY DEF TypeOK, ClientTypeOK
<1>2. CountInRange /\ CountIsSteps /\ SinceIsKept
  BY DEF CountInRange, CountIsSteps, SinceIsKept, Exists
<1>. QED
  BY <1>1, <1>2 DEF CInv

(* A new count is zero, and so are the steps.                              *)
LEMMA ZeroKeeps ==
  ASSUME CInv, NEW d \in Digest, cipher[Value] = Null,
         cipher' = [c \in Ciphertext |-> [value |-> 0, digest |-> d, due |-> FALSE]],
         counter' \in CounterAccount \cup {Null}, UNCHANGED <<asked, bookVars>>
  PROVE  CInv'
<1>. USE DEF CInv
<1>1. cipher'[Value] = [value |-> 0, digest |-> d, due |-> FALSE] /\ cipher[Value] = Null
  OBVIOUS
<1>2. cipher'[Value] \in CipherAccount /\ cipher'[Value].value = 0
  BY <1>1 DEF CipherAccount
<1>4. UNCHANGED <<ups, downs, last, since, asked>>
  BY DEF bookVars
<1>5. TypeOK'
  BY <1>1, <1>2, <1>4 DEF TypeOK, ClientTypeOK
<1>6. ups = 0 /\ downs = 0
  BY <1>1 DEF CountInRange
<1>7. CountInRange' /\ CountIsSteps'
  <2>1. cipher'[Value] # Null
    BY <1>2, CounterExists
  <2>2. cipher'[Value].value + downs' = ups'
    BY <1>2, <1>4, <1>6
  <2>. QED
    BY <1>2, <2>1, <2>2 DEF CountInRange, CountIsSteps
<1>8. SinceIsKept'
  BY <1>1, <1>4 DEF SinceIsKept
<1>. QED
  BY <1>5, <1>7, <1>8

LEMMA NewCounterIs == ASSUME NEW p \in Person PROVE NewCounter(p) \in CounterAccount
BY DEF NewCounter, CounterAccount, Digest

LEMMA CreateKeeps ==
  ASSUME CInv, NEW p \in Person, CreateCounter(p)
  PROVE  CInv'
<1>1. /\ cipher[Value] = Null /\ counter' = NewCounter(p) /\ UNCHANGED <<asked, bookVars>>
      /\ cipher' = [c \in Ciphertext |-> [value |-> 0, digest |-> ZeroDigest, due |-> FALSE]]
  BY DEF CreateCounter, CreateZeros
<1>2. ZeroDigest \in Digest
  BY DEF Digest
<1>. QED
  BY <1>1, <1>2, NewCounterIs, ZeroKeeps

(* The Anchor program and its client.                                      *)
LEMMA CreateInputKeeps ==
  ASSUME CInv, create_input(Value)
  PROVE  CInv'
<1>1. /\ cipher[Value] = Null /\ UNCHANGED <<counter, asked, bookVars>>
      /\ cipher' = [c \in Ciphertext |-> [value |-> 0, digest |-> 0, due |-> FALSE]]
  BY DEF create_input, CreateInput, CInv, TypeOK, ClientTypeOK
<1>2. 0 \in Digest
  BY DEF Digest
<1>3. counter' \in CounterAccount \cup {Null}
  BY <1>1 DEF CInv, TypeOK
<1>. QED
  BY <1>1, <1>2, <1>3, ZeroKeeps

LEMMA AnchorCreateKeeps ==
  ASSUME CInv, NEW p \in Person, anchor_create_counter(p)
  PROVE  CInv'
<1>1. counter' = NewCounter(p) /\ UNCHANGED <<clientVars, bookVars>>
  BY DEF anchor_create_counter
<1>2. counter' \in CounterAccount
  BY <1>1, NewCounterIs
<1>. QED
  BY <1>1, <1>2 DEF CInv, TypeOK, ClientTypeOK, CountInRange, CountIsSteps, SinceIsKept,
     clientVars, bookVars

(* What increment and decrement share: the graph's output is the count,    *)
(* and every request made so far has seen it.                              *)
LEMMA MoveKeeps ==
  ASSUME CInv, NEW out, DOMAIN out = {Value}, out[Value] \in 0..(Modulus - 1),
         Move(out), ups' \in Nat, downs' \in Nat
  PROVE  /\ TypeOK' /\ CountInRange' /\ SinceIsKept'
         /\ cipher'[Value] # Null /\ cipher'[Value].value = out[Value]
<1>. USE DEF CInv, Move, ExecuteGraph, Counts
<1>. DEFINE count == out[Value]
<1>1. count \in 0..(Modulus - 1) /\ count \in Nat
  OBVIOUS
<1>2. cipher'[Value] = [value |-> count, digest |-> ZeroDigest, due |-> TRUE]
  OBVIOUS
<1>. HIDE DEF count
<1>3. cipher'[Value] \in CipherAccount /\ cipher'[Value].value = count
  BY <1>1, <1>2 DEF CipherAccount, Digest
<1>4. UNCHANGED <<asked, counter, last>>
  OBVIOUS
<1>5. cipher' \in [Ciphertext -> CipherAccount \cup {Null}]
  BY <1>3
<1>6. since' = [r \in Request |-> since[r] \cup (IF asked[r] = Null THEN {} ELSE {count})]
  BY DEF count
<1>7. TypeOK'
  BY <1>1, <1>4, <1>5, <1>6 DEF TypeOK, ClientTypeOK
<1>8. CountInRange'
  BY <1>1, <1>3, CounterExists DEF CountInRange
<1>9. SinceIsKept'
  BY <1>3, <1>4, <1>6, CounterExists, ZenonT(60) DEF SinceIsKept
<1>. QED
  BY <1>3, <1>7, <1>8, <1>9, CounterExists DEF count

LEMMA IncrementKeeps ==
  ASSUME CInv, Increment
  PROVE  CInv'
<1>. DEFINE v == cipher[Value].value
            out == increment_graph(v)
<1>1. v \in 0..(Modulus - 1) /\ ups \in Nat /\ downs \in Nat
  BY DEF Increment, CInv, CountInRange, TypeOK
<1>2. DOMAIN out = {Value}
  BY DEF increment_graph
<1>3. Move(out) /\ ups' = ups + 1 /\ downs' = downs /\ Exists /\ cipher[Value] # Null
  BY DEF Increment
<1>4. (v + downs) % Modulus = ups % Modulus
  BY <1>3 DEF CInv, CountIsSteps
<1>. HIDE DEF v
<1>5. out[Value] \in 0..(Modulus - 1) /\ (out[Value] + downs) % Modulus = (v + downs + 1) % Modulus
  BY <1>1, NextCount
<1>6. (v + downs + 1) % Modulus = (ups + 1) % Modulus
  <2>1. v + downs \in Nat /\ Modulus \in Nat \ {0}
    BY <1>1
  <2>2. (v + downs + 1) % Modulus = IF (v + downs) % Modulus = Modulus - 1 THEN 0 ELSE ((v + downs) % Modulus) + 1
    BY <2>1, ModStep
  <2>3. (ups + 1) % Modulus = IF ups % Modulus = Modulus - 1 THEN 0 ELSE (ups % Modulus) + 1
    BY <1>1, <2>1, ModStep
  <2>. QED
    BY <1>4, <2>2, <2>3
<1>. HIDE DEF out
<1>7. ups' \in Nat /\ downs' \in Nat
  BY <1>1, <1>3
<1>8. /\ TypeOK' /\ CountInRange' /\ SinceIsKept'
      /\ cipher'[Value].value = out[Value]
  BY <1>2, <1>3, <1>5, <1>7, MoveKeeps
<1>9. CountIsSteps'
  BY <1>3, <1>5, <1>6, <1>8 DEF CountIsSteps
<1>. QED
  BY <1>8, <1>9 DEF CInv

LEMMA DecrementKeeps ==
  ASSUME CInv, Decrement
  PROVE  CInv'
<1>. DEFINE v == cipher[Value].value
            out == decrement_graph(v)
<1>1. v \in 0..(Modulus - 1) /\ ups \in Nat /\ downs \in Nat
  BY DEF Decrement, CInv, CountInRange, TypeOK
<1>2. DOMAIN out = {Value}
  BY DEF decrement_graph
<1>3. Move(out) /\ downs' = downs + 1 /\ ups' = ups /\ Exists /\ cipher[Value] # Null
  BY DEF Decrement
<1>4. (v + downs) % Modulus = ups % Modulus
  BY <1>3 DEF CInv, CountIsSteps
<1>. HIDE DEF v
<1>5. out[Value] \in 0..(Modulus - 1) /\ (out[Value] + (downs + 1)) % Modulus = (v + downs) % Modulus
  BY <1>1, CountBefore
<1>. HIDE DEF out
<1>6. ups' \in Nat /\ downs' \in Nat
  BY <1>1, <1>3
<1>7. /\ TypeOK' /\ CountInRange' /\ SinceIsKept'
      /\ cipher'[Value].value = out[Value]
  BY <1>2, <1>3, <1>5, <1>6, MoveKeeps
<1>8. CountIsSteps'
  BY <1>3, <1>4, <1>5, <1>7 DEF CountIsSteps
<1>. QED
  BY <1>7, <1>8 DEF CInv

(* A new request has seen the count of this moment.                        *)
LEMMA RequestKeeps ==
  ASSUME CInv, NEW p \in Person, NEW r \in Request, RequestValue(p, r)
  PROVE  CInv'
<1>. USE DEF CInv, RequestValue, RequestDecryption, Asks
<1>1. cipher[Value] \in CipherAccount /\ Snapshot(Value) \in Digest
  BY DEF TypeOK, ClientTypeOK, Snapshot, CipherAccount
<1>2. counter' \in CounterAccount
  BY <1>1, PendingChange DEF TypeOK, Exists
<1>3. asked' = [asked EXCEPT ![r] =
        [ct |-> Value, digest |-> Snapshot(Value), done |-> FALSE, value |-> 0]]
  OBVIOUS
<1>4. [ct |-> Value, digest |-> Snapshot(Value), done |-> FALSE, value |-> 0] \in RequestAccount
  BY <1>1 DEF RequestAccount
<1>5. cipher[Value].value \in Nat /\ UNCHANGED <<cipher, ups, downs>>
  BY <1>1 DEF CipherAccount
<1>6. TypeOK'
  BY <1>2, <1>3, <1>4, <1>5 DEF TypeOK, ClientTypeOK
<1>7. CountInRange' /\ CountIsSteps'
  BY <1>5 DEF CountInRange, CountIsSteps, Exists
<1>8. SinceIsKept'
  <2>1. ~asked'[r].done /\ since'[r] = {cipher[Value].value}
    BY <1>3 DEF TypeOK, ClientTypeOK
  <2>2. \A q \in Request \ {r} : asked'[q] = asked[q] /\ since'[q] = since[q]
    BY <1>3 DEF TypeOK, ClientTypeOK
  <2>. QED
    BY <1>5, <2>1, <2>2 DEF SinceIsKept
<1>. QED
  BY <1>6, <1>7, <1>8

LEMMA RevealKeeps ==
  ASSUME CInv, NEW p \in Person, NEW r \in Request, RevealValue(p, r)
  PROVE  CInv' /\ counter' # Null /\ counter'.revealed_value = asked[r].value
<1>. USE DEF CInv, RevealValue, Verified
<1>1. UNCHANGED <<cipher, asked, ups, downs, last, since>>
  BY DEF clientVars, bookVars
<1>2. asked[r].value \in Nat
  BY DEF TypeOK, ClientTypeOK, RequestAccount
<1>3. counter' \in CounterAccount /\ counter' # Null /\ counter'.revealed_value = asked[r].value
  BY <1>2, RevealedChange DEF TypeOK, Exists
<1>4. TypeOK'
  BY <1>1, <1>3 DEF TypeOK, ClientTypeOK
<1>5. CountInRange' /\ CountIsSteps' /\ SinceIsKept'
  BY <1>1 DEF CountInRange, CountIsSteps, SinceIsKept, Exists
<1>. QED
  BY <1>3, <1>4, <1>5

(* The executor answers with the count, which the request has seen.        *)
LEMMA ExecutorKeeps ==
  ASSUME CInv, ExecutorStep
  PROVE  CInv'
<1>. USE DEF CInv, ExecutorStep, ProcessPending
<1>1. /\ cipher[Value] = Null => cipher'[Value] = Null
      /\ cipher[Value] # Null => /\ cipher[Value] \in CipherAccount
                                 /\ cipher'[Value] \in CipherAccount
                                 /\ cipher'[Value].value = cipher[Value].value
  BY DEF TypeOK, ClientTypeOK, CipherAccount, Digest
<1>2. \A r \in Request :
        /\ asked[r] = Null => asked'[r] = Null
        /\ asked[r] # Null =>
             /\ asked'[r] \in RequestAccount
             /\ asked'[r].value = asked[r].value \/ asked'[r].value = cipher[Value].value
             /\ asked[r].done => asked'[r].value = asked[r].value
             /\ ~asked[r].done => asked'[r].value = cipher[Value].value
  <2>. TAKE r \in Request
  <2>1. CASE asked[r] = Null
    BY <2>1
  <2>2. CASE asked[r] # Null
    <3>1. asked[r] \in RequestAccount /\ asked[r].ct = Value /\ cipher[Value] # Null
      BY <2>2 DEF SinceIsKept, TypeOK, ClientTypeOK, RequestAccount
    <3>2. cipher[Value].value \in Nat
      BY <1>1, <3>1 DEF CipherAccount
    <3>. QED
      BY <2>2, <3>1, <3>2 DEF RequestAccount
  <2>. QED
    BY <2>1, <2>2
<1>3. TypeOK'
  BY <1>1, <1>2 DEF TypeOK, ClientTypeOK, bookVars
<1>4. UNCHANGED <<counter, ups, downs, last, since>>
  BY DEF bookVars
<1>5. cipher'[Value] = Null <=> cipher[Value] = Null
  BY <1>1, CounterExists
<1>6. cipher[Value] # Null => cipher'[Value].value = cipher[Value].value
  BY <1>1
<1>. HIDE DEF ExecutorStep, ProcessPending
<1>7. CountInRange' /\ CountIsSteps'
  BY <1>4, <1>5, <1>6 DEF CountInRange, CountIsSteps, Exists
<1>8. SinceIsKept'
  BY <1>2, <1>4, <1>5, <1>6 DEF SinceIsKept
<1>. QED
  BY <1>3, <1>7, <1>8

-----------------------------------------------------------------------------
(* Every instruction, in any order, keeps the invariant.                   *)
LEMMA NextIs ==
  ASSUME Next
  PROVE  \/ \E p \in Person : CreateCounter(p) \/ anchor_create_counter(p)
         \/ create_input(Value) \/ Increment \/ Decrement
         \/ \E p \in Person, r \in Request : RequestValue(p, r) \/ RevealValue(p, r)
         \/ ExecutorStep
<1>1. CASE pinocchio_process_instruction
  BY <1>1 DEF pinocchio_process_instruction, pinocchio_create_counter, pinocchio_increment,
     pinocchio_decrement, pinocchio_request_value_decryption, pinocchio_reveal_value
<1>2. CASE native_process_instruction
  BY <1>2 DEF native_process_instruction, native_create_counter, native_increment,
     native_decrement, native_request_value_decryption, native_reveal_value
<1>3. CASE quasar_process_instruction
  BY <1>3 DEF quasar_process_instruction, quasar_create_counter, quasar_increment,
     quasar_decrement, quasar_request_value_decryption, quasar_reveal_value
<1>4. CASE anchor_process_instruction
  BY <1>4 DEF anchor_process_instruction, anchor_increment,
     anchor_decrement, anchor_request_value_decryption, anchor_reveal_value
<1>. QED
  BY <1>1, <1>2, <1>3, <1>4 DEF Next

LEMMA CounterStep == CInv /\ [Next]_counterVars => CInv'
<1>. SUFFICES ASSUME CInv, [Next]_counterVars PROVE CInv'
  OBVIOUS
<1>1. CASE UNCHANGED counterVars
  BY <1>1 DEF counterVars, clientVars, bookVars, CInv, TypeOK, ClientTypeOK, CountInRange,
     CountIsSteps, SinceIsKept
<1>2. CASE Next
  BY <1>2, NextIs, CreateKeeps, AnchorCreateKeeps, CreateInputKeeps, IncrementKeeps,
     DecrementKeeps, RequestKeeps, RevealKeeps, ExecutorKeeps
<1>. QED
  BY <1>1, <1>2

LEMMA CounterInvariant == Spec => []CInv
BY CounterInit, CounterStep, PTL DEF Spec

(* The accounts keep their types.                                          *)
THEOREM CounterTypeCorrect == Spec => []TypeOK
<1>1. CInv => TypeOK
  BY DEF CInv
<1>. QED
  BY <1>1, CounterInvariant, PTL

(* For any width and any number of steps no increment and no decrement is  *)
(* lost, also when the count wraps below zero or above its type.           *)
THEOREM CountCorrect == Spec => []CountIsSteps
<1>1. CInv => CountIsSteps
  BY DEF CInv
<1>. QED
  BY <1>1, CounterInvariant, PTL

(* A change of the published value is reveal_value's, and its answer was   *)
(* the count since a request with the stored snapshot.                     *)
LEMMA PublishStep ==
  CInv /\ [Next]_counterVars =>
    [(Exists /\ counter'.revealed_value # counter.revealed_value)
       => \E r \in Request : Fresh(r) /\ counter'.revealed_value \in since[r]]_counterVars
<1>. SUFFICES ASSUME CInv, Next, Exists, counter'.revealed_value # counter.revealed_value
              PROVE  \E r \in Request : Fresh(r) /\ counter'.revealed_value \in since[r]
  BY DEF counterVars
<1>1. ASSUME NEW p \in Person, CreateCounter(p) \/ anchor_create_counter(p) PROVE FALSE
  BY <1>1 DEF CreateCounter, anchor_create_counter
<1>2. CASE create_input(Value) \/ Increment \/ Decrement \/ ExecutorStep
  BY <1>2 DEF create_input, Increment, Decrement, Move, ExecutorStep
<1>3. ASSUME NEW p \in Person, NEW r \in Request, RequestValue(p, r) PROVE FALSE
  <2>1. counter \in CounterAccount /\ Snapshot(Value) \in Digest
    BY <1>3 DEF RequestValue, RequestDecryption, CInv, TypeOK,
       ClientTypeOK, Exists, Snapshot, CipherAccount
  <2>. QED
    BY <1>3, <2>1, PendingChange DEF RequestValue
<1>4. ASSUME NEW p \in Person, NEW r \in Request, RevealValue(p, r)
      PROVE  Fresh(r) /\ counter'.revealed_value \in since[r]
  <2>1. counter'.revealed_value = asked[r].value
    BY <1>4, RevealKeeps
  <2>2. asked[r] # Null /\ asked[r].done /\ asked[r].digest = counter.pending_digest
    BY <1>4 DEF RevealValue, Verified
  <2>. QED
    BY <2>1, <2>2 DEF Fresh, CInv, SinceIsKept
<1>. QED
  BY <1>1, <1>2, <1>3, <1>4, NextIs

(* Whichever request account the authority names, and whatever graphs are  *)
(* due, reveal_value publishes a count there was since a request with the  *)
(* stored snapshot.                                                        *)
THEOREM PublishedCorrect == Spec => PublishedSinceRequest
BY CounterInvariant, PublishStep, PTL DEF Spec, PublishedSinceRequest
=============================================================================
