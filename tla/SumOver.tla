------------------------------- MODULE SumOver ------------------------------
(***************************************************************************)
(* Sums of natural numbers over a finite set, as the size of a set of      *)
(* units: x stands for f[x] of them, <<x, 1>> to <<x, f[x]>>.  A sum that  *)
(* is a cardinality can be reasoned about with the theorems on finite      *)
(* sets, where a fold would need induction.                                *)
(***************************************************************************)
EXTENDS Integers, FiniteSets

Units(f, S) == UNION {{x} \X (1..f[x]) : x \in S}
SumOver(f, S) == Cardinality(Units(f, S))
=============================================================================
