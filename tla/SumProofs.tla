------------------------------ MODULE SumProofs -----------------------------
(***************************************************************************)
(* The arithmetic of SumOver: a sum splits at each of its terms, changes   *)
(* by what one term changes, and is monotone.                              *)
(***************************************************************************)
EXTENDS SumOver, FiniteSetTheorems, TLAPS

\* A finite sum of natural numbers is one.
LEMMA UnitsFinite ==
    ASSUME NEW S, IsFiniteSet(S), NEW f, \A x \in S : f[x] \in Nat
    PROVE  /\ IsFiniteSet(Units(f, S))
           /\ SumOver(f, S) \in Nat
<1> DEFINE own == [x \in S |-> {x} \X (1..f[x])]
           T == {{x} \X (1..f[x]) : x \in S}
<1>1. own \in Surjection(S, T)
  BY DEF Surjection
<1>2. IsFiniteSet(T)
  <2> HIDE DEF own, T
  <2> QED BY <1>1, FS_Surjection
<1>3. ASSUME NEW t \in T PROVE IsFiniteSet(t)
  <2>1. PICK x \in S : t = {x} \X (1..f[x])
    OBVIOUS
  <2>2. IsFiniteSet({x})
    BY FS_Singleton
  <2>3. IsFiniteSet(1..f[x])
    BY FS_Interval
  <2> QED
    BY <2>1, <2>2, <2>3, FS_Product
<1>4. IsFiniteSet(UNION T)
  <2> HIDE DEF T
  <2> QED BY <1>2, <1>3, FS_UNION
<1> QED
  BY <1>4, FS_CardinalityType DEF Units, SumOver

\* What the units are.
LEMMA UnitsOf ==
    ASSUME NEW S, NEW f, NEW u
    PROVE  u \in Units(f, S) <=> \E x \in S : \E i \in 1..f[x] : u = <<x, i>>
BY DEF Units

\* A term n has n units.
LEMMA OwnUnits ==
    ASSUME NEW x, NEW n \in Nat
    PROVE  IsFiniteSet({x} \X (1..n)) /\ Cardinality({x} \X (1..n)) = n
<1>1. IsFiniteSet({x}) /\ Cardinality({x}) = 1
  BY FS_Singleton
<1>2. IsFiniteSet(1..n) /\ Cardinality(1..n) = n
  BY FS_Interval
<1>3. /\ IsFiniteSet({x} \X (1..n))
      /\ Cardinality({x} \X (1..n)) = Cardinality({x}) * Cardinality(1..n)
  BY <1>1, <1>2, FS_Product
<1> QED
  BY <1>1, <1>2, <1>3

\* A sum is any one of its terms and the sum of the others.
LEMMA SumSplit ==
    ASSUME NEW S, IsFiniteSet(S), NEW f, \A x \in S : f[x] \in Nat, NEW c \in S
    PROVE  SumOver(f, S) = SumOver(f, S \ {c}) + f[c]
<1> DEFINE rest == Units(f, S \ {c})
           own == {c} \X (1..f[c])
<1>1. IsFiniteSet(S \ {c})
  BY FS_RemoveElement
<1>2. IsFiniteSet(rest)
  BY <1>1, UnitsFinite
<1>3. IsFiniteSet(own) /\ Cardinality(own) = f[c]
  BY OwnUnits
<1>4. Units(f, S) = rest \cup own
  BY DEF Units
<1>5. rest \cap own = {}
  BY DEF Units
<1>6. Cardinality(rest \cup own) = Cardinality(rest) + Cardinality(own) - Cardinality(rest \cap own)
  <2> HIDE DEF rest, own
  <2> QED BY <1>2, <1>3, FS_Union
<1>7. Cardinality(rest) \in Nat
  BY <1>2, FS_CardinalityType
<1>8. Cardinality(rest \cap own) = 0
  BY <1>5, FS_EmptySet
<1>9. SumOver(f, S) = Cardinality(rest) + f[c]
  <2>1. SumOver(f, S) = Cardinality(rest \cup own)
    BY <1>4 DEF SumOver
  <2> HIDE DEF rest, own
  <2> QED BY <2>1, <1>3, <1>6, <1>7, <1>8
<1> QED
  BY <1>9 DEF SumOver

\* Equal terms, equal sums.
LEMMA SumSame ==
    ASSUME NEW S, NEW f, NEW g, \A x \in S : f[x] = g[x]
    PROVE  SumOver(f, S) = SumOver(g, S)
<1>1. Units(f, S) = Units(g, S)
  BY DEF Units
<1> QED
  BY <1>1 DEF SumOver

\* One term changes.
LEMMA SumChange ==
    ASSUME NEW S, IsFiniteSet(S), NEW f, \A x \in S : f[x] \in Nat,
           NEW g, NEW c \in S, g[c] \in Nat, \A x \in S \ {c} : g[x] = f[x]
    PROVE  SumOver(g, S) = SumOver(f, S) - f[c] + g[c]
<1>1. \A x \in S : g[x] \in Nat
  OBVIOUS
<1>2. SumOver(g, S) = SumOver(g, S \ {c}) + g[c]
  BY <1>1, SumSplit
<1>3. SumOver(f, S) = SumOver(f, S \ {c}) + f[c]
  BY SumSplit
<1>4. SumOver(g, S \ {c}) = SumOver(f, S \ {c})
  BY SumSame
<1>5. IsFiniteSet(S \ {c})
  BY FS_RemoveElement
<1>6. SumOver(f, S \ {c}) \in Nat
  BY <1>5, UnitsFinite
<1> QED
  BY <1>2, <1>3, <1>4, <1>6

\* A sum of zeros.
LEMMA SumZero ==
    ASSUME NEW S, NEW f, \A x \in S : f[x] = 0
    PROVE  SumOver(f, S) = 0
<1>1. Units(f, S) = {}
  BY DEF Units
<1> QED
  BY <1>1, FS_EmptySet DEF SumOver

\* Smaller terms, smaller sum.
LEMMA SumBelow ==
    ASSUME NEW S, IsFiniteSet(S), NEW f, NEW g,
           \A x \in S : f[x] \in Nat /\ g[x] \in Nat /\ f[x] <= g[x]
    PROVE  SumOver(f, S) <= SumOver(g, S)
<1>1. Units(f, S) \subseteq Units(g, S)
  <2>1. ASSUME NEW u \in Units(f, S) PROVE u \in Units(g, S)
    <3>1. PICK x \in S : \E i \in 1..f[x] : u = <<x, i>>
      BY UnitsOf
    <3>2. PICK i \in 1..f[x] : u = <<x, i>>
      BY <3>1
    <3>3. i \in 1..g[x]
      OBVIOUS
    <3> QED
      BY <3>2, <3>3, UnitsOf
  <2> QED BY <2>1
<1>2. IsFiniteSet(Units(g, S))
  BY UnitsFinite
<1> QED
  BY <1>1, <1>2, FS_Subset DEF SumOver

\* No term exceeds the sum.
LEMMA TermBelow ==
    ASSUME NEW S, IsFiniteSet(S), NEW f, \A x \in S : f[x] \in Nat, NEW c \in S
    PROVE  f[c] <= SumOver(f, S)
<1>1. IsFiniteSet(S \ {c})
  BY FS_RemoveElement
<1>2. SumOver(f, S \ {c}) \in Nat
  BY <1>1, UnitsFinite
<1> QED
  BY <1>2, SumSplit
=============================================================================
