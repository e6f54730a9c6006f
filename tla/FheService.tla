----------------------------- MODULE FheService -----------------------------
(***************************************************************************)
(* What the Encrypt service promises to a program that uses it, with no    *)
(* queue, no store and no executor: every ciphertext has one value, set    *)
(* once by its creator and then only by graphs; a graph replaces the       *)
(* values of all its outputs in one step; a decryption is answered, once,  *)
(* with the value the ciphertext has at the moment of the answer.          *)
(* EncryptHarness is shown to implement it.                                *)
(***************************************************************************)
EXTENDS Naturals, Sequences

CONSTANTS
  Ciphertext,     \* identifiers of ciphertext accounts
  Request,        \* identifiers of decryption requests
  Value,          \* plaintexts
  ZeroValue,      \* what an account holds before anything is computed into it
  Graph,          \* computation graphs, records with fields ins and outs
  Result(_, _),   \* Result(g, vs): the outputs of g on the plaintexts vs
  Nothing         \* a ciphertext nobody made, a request nobody sent

VARIABLES
  value,          \* value[c]: Nothing, or the plaintext of ciphertext c
  answer          \* answer[r]: Nothing, or the ciphertext asked, and the answer

serviceVars == <<value, answer>>

ServiceInit ==
  /\ value = [c \in Ciphertext |-> Nothing]
  /\ answer = [r \in Request |-> Nothing]

(* A ciphertext is made with a value of its creator's choice.              *)
Create(c) ==
  /\ value[c] = Nothing
  /\ \E v \in Value : value' = [value EXCEPT ![c] = v]
  /\ UNCHANGED answer

(* All the outputs of g take their new values together; of two results for *)
(* one ciphertext the later one stays.                                     *)
Run(g, ins, outs) ==
  /\ \A i \in DOMAIN ins : value[ins[i]] # Nothing
  /\ LET res == Result(g, [i \in DOMAIN ins |-> value[ins[i]]])
         Last(c, j) == outs[j] = c /\ \A k \in DOMAIN outs : k > j => outs[k] # c
     IN  value' = [c \in Ciphertext |->
                     IF \E j \in DOMAIN outs : Last(c, j)
                     THEN res[CHOOSE j \in DOMAIN outs : Last(c, j)]
                     ELSE value[c]]
  /\ UNCHANGED answer

Ask(r, c) ==
  /\ value[c] # Nothing
  /\ answer[r] = Nothing
  /\ answer' = [answer EXCEPT ![r] = [ct |-> c, done |-> FALSE, value |-> ZeroValue]]
  /\ UNCHANGED value

Answer(r) ==
  /\ answer[r] # Nothing
  /\ ~answer[r].done
  /\ answer' = [answer EXCEPT ![r] = [ct    |-> answer[r].ct,
                                      done  |-> TRUE,
                                      value |-> value[answer[r].ct]]]
  /\ UNCHANGED value

ServiceNext ==
  \/ \E c \in Ciphertext : Create(c)
  \/ \E g \in Graph :
       \E ins \in [DOMAIN g.ins -> Ciphertext],
          outs \in [DOMAIN g.outs -> Ciphertext] : Run(g, ins, outs)
  \/ \E r \in Request, c \in Ciphertext : Ask(r, c)
  \/ \E r \in Request : Answer(r)

Service == ServiceInit /\ [][ServiceNext]_serviceVars
=============================================================================
