-------------------------- MODULE MCEncryptHarness --------------------------
(* Small instances of EncryptHarness for TLC.                              *)
EXTENDS EncryptHarness, TLC

CONSTANT u64

(* Plaintexts are the numbers 0 and 1.                                     *)
Bits == 0..1

OneType == {u64}

(* Answers are of two chunks.                                              *)
WidthOfOne == [t \in OneType |-> 2]

(* "add" updates an accumulator, "move" changes two ciphertexts that it    *)
(* also reads (as a transfer does).                                        *)
Add  == [name |-> "add", ins |-> <<u64, u64>>, outs |-> <<u64>>]
Move == [name |-> "move", ins |-> <<u64, u64>>, outs |-> <<u64, u64>>]

AddMove == {Add, Move}
MoveOnly == {Move}

(* move leaves nothing in its first operand; its second output is the node *)
(* of an addition, its first a constant.                                   *)
MCEval(g, ds) ==
  CASE g.name = "add"   -> <<(Decode(ds[1]) + Decode(ds[2])) % 2>>
    [] g.name = "move"  -> <<0, (Decode(ds[1]) + Decode(ds[2])) % 2>>

(* Bound: while both requests are used, one graph is outstanding; with one *)
(* of them free, two are.                                                  *)
Bounded == (\A r \in Request : request[r] # Null) => Len(Outstanding) <= 1

Symmetric == Permutations(Ciphertext) \cup Permutations(Request)
=============================================================================
