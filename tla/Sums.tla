-------------------------------- MODULE Sums --------------------------------
(* The sum of a function with natural values, as the number of its units.  *)
EXTENDS Naturals, FiniteSets

(* The units of one summand, and of all.                                   *)
Slice(f, x) == {x} \X (1 .. f[x])
Units(f) == UNION {Slice(f, x) : x \in DOMAIN f}

Total(f) == Cardinality(Units(f))
=============================================================================
