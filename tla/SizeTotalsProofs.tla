------------------------- MODULE SizeTotalsProofs -------------------------
(* The laws of Total that the proofs about ledgers use. *)
EXTENDS SizeTotals, FiniteSetTheorems, FunctionTheorems, TLAPS

\* A row of size n holds n units.
LEMMA UnitsCount ==
  ASSUME NEW size, NEW x, size[x] \in Nat
  PROVE  IsFiniteSet(Units(size, x)) /\ Cardinality(Units(size, x)) = size[x]
<1>1. IsFiniteSet({x}) /\ Cardinality({x}) = 1
  BY FS_Singleton
<1>2. IsFiniteSet(1 .. size[x]) /\ Cardinality(1 .. size[x]) = size[x]
  BY FS_Interval
<1>3. IsFiniteSet(Units(size, x))
      /\ Cardinality(Units(size, x)) = Cardinality({x}) * Cardinality(1 .. size[x])
  BY <1>1, <1>2, FS_Product DEF Units
<1> QED
  BY <1>1, <1>2, <1>3

\* Finitely many rows hold finitely many units.
LEMMA AllUnitsFinite ==
  ASSUME NEW D, IsFiniteSet(D), NEW size \in [D -> Nat]
  PROVE  IsFiniteSet(AllUnits(size))
<1> DEFINE S == {Units(size, x) : x \in D}
           f == [x \in D |-> Units(size, x)]
<1>1. f \in Surjection(D, S)
  BY Fun_IsSurj
<1>2. IsFiniteSet(S)
  BY <1>1, FS_Surjection
<1>3. \A T \in S : IsFiniteSet(T)
  BY UnitsCount
<1>4. IsFiniteSet(UNION S)
  BY <1>2, <1>3, FS_UNION
<1> QED
  BY <1>4 DEF AllUnits

\* A sum of naturals is a natural.
THEOREM TotalNat ==
  ASSUME NEW D, IsFiniteSet(D), NEW size \in [D -> Nat]
  PROVE  Total(size) \in Nat
BY AllUnitsFinite, FS_CardinalityType DEF Total

\* A sum of zeros is zero.
THEOREM TotalZero ==
  ASSUME NEW D, NEW size, DOMAIN size = D, \A x \in D : size[x] = 0
  PROVE  Total(size) = 0
<1>1. \A x \in D : Units(size, x) = {}
  BY DEF Units
<1>2. AllUnits(size) = {}
  BY <1>1 DEF AllUnits
<1> QED
  BY <1>2, FS_EmptySet DEF Total

\* Changing one row changes the sum by the difference.
THEOREM TotalUpdate ==
  ASSUME NEW D, IsFiniteSet(D), NEW size \in [D -> Nat], NEW new \in [D -> Nat],
         NEW x \in D, \A y \in D \ {x} : new[y] = size[y]
  PROVE  Total(new) = Total(size) - size[x] + new[x]
<1> DEFINE rest == AllUnits(size) \ Units(size, x)
<1>2. IsFiniteSet(AllUnits(size)) /\ IsFiniteSet(rest)
  BY AllUnitsFinite, FS_Difference
<1>3. AllUnits(size) = rest \cup Units(size, x)
  BY DEF AllUnits
<1>4. rest = UNION {Units(size, y) : y \in D \ {x}}
  BY DEF AllUnits, Units
<1>5. AllUnits(new) = rest \cup Units(new, x)
  <2>1. \A y \in D \ {x} : Units(new, y) = Units(size, y)
    BY DEF Units
  <2>2. {Units(new, y) : y \in D \ {x}} = {Units(size, y) : y \in D \ {x}}
    BY <2>1
  <2>3. AllUnits(new) = (UNION {Units(new, y) : y \in D \ {x}}) \cup Units(new, x)
    BY DEF AllUnits
  <2> QED
    BY <1>4, <2>2, <2>3
<1>6. rest \cap Units(size, x) = {} /\ rest \cap Units(new, x) = {}
  BY <1>4 DEF Units
<1>7. Cardinality(Units(size, x)) = size[x] /\ IsFiniteSet(Units(size, x))
  BY UnitsCount
<1>8. Cardinality(Units(new, x)) = new[x] /\ IsFiniteSet(Units(new, x))
  BY UnitsCount
<1>9. Cardinality(rest) \in Nat /\ Cardinality({}) = 0
  BY <1>2, FS_CardinalityType, FS_EmptySet
<1> HIDE DEF rest
<1>10. Cardinality(rest \cup Units(size, x)) = Cardinality(rest) + size[x]
  <2>1. Cardinality(rest \cup Units(size, x))
          = Cardinality(rest) + Cardinality(Units(size, x)) - Cardinality({})
    BY <1>2, <1>6, <1>7, FS_Union
  <2> QED
    BY <1>7, <1>9, <2>1
<1>11. Cardinality(rest \cup Units(new, x)) = Cardinality(rest) + new[x]
  <2>1. Cardinality(rest \cup Units(new, x))
          = Cardinality(rest) + Cardinality(Units(new, x)) - Cardinality({})
    BY <1>2, <1>6, <1>8, FS_Union
  <2> QED
    BY <1>8, <1>9, <2>1
<1> QED
  BY <1>3, <1>5, <1>9, <1>10, <1>11 DEF Total

\* Larger rows have a larger sum.
THEOREM TotalMonotone ==
  ASSUME NEW D, IsFiniteSet(D), NEW low \in [D -> Nat], NEW high \in [D -> Nat],
         \A x \in D : low[x] <= high[x]
  PROVE  Total(low) <= Total(high)
<1>1. \A x \in D : Units(low, x) \subseteq Units(high, x)
  <2>1. \A x \in D : 1 .. low[x] \subseteq 1 .. high[x]
    OBVIOUS
  <2> QED
    BY <2>1 DEF Units
<1>2. AllUnits(low) \subseteq AllUnits(high)
  BY <1>1 DEF AllUnits
<1>3. IsFiniteSet(AllUnits(high))
  BY AllUnitsFinite
<1> QED
  BY <1>2, <1>3, FS_Subset DEF Total

\* Adding row by row adds the sums.
THEOREM TotalAdd ==
  ASSUME NEW D, IsFiniteSet(D), NEW a \in [D -> Nat], NEW b \in [D -> Nat],
         NEW c \in [D -> Nat], \A x \in D : c[x] = a[x] + b[x]
  PROVE  Total(c) = Total(a) + Total(b)
<1> DEFINE A == AllUnits(a)
           B == AllUnits(b)
           rest == AllUnits(c) \ A
           shift(u) == <<u[1], a[u[1]] + u[2]>>
           f == [u \in B |-> shift(u)]
<1>1. ASSUME NEW size \in [D -> Nat], NEW u
      PROVE  u \in AllUnits(size) <=> \E x \in D : \E k \in 1 .. size[x] : u = <<x, k>>
  BY <1>1 DEF AllUnits, Units
<1>2. IsFiniteSet(A) /\ IsFiniteSet(B) /\ IsFiniteSet(AllUnits(c))
  BY AllUnitsFinite
<1>3. A \subseteq AllUnits(c)
  <2>1. \A x \in D : \A k \in 1 .. a[x] : k \in 1 .. c[x]
    OBVIOUS
  <2> QED
    BY <1>1, <2>1
<1>4. ASSUME NEW x \in D, NEW k \in Nat PROVE <<x, k>> \in rest <=> k > a[x] /\ k <= c[x]
  <2>1. <<x, k>> \in AllUnits(c) <=> k \in 1 .. c[x]
    BY <1>1
  <2>2. <<x, k>> \in A <=> k \in 1 .. a[x]
    BY <1>1
  <2> QED
    BY <2>1, <2>2
<1>5. f \in [B -> rest]
  <2> SUFFICES ASSUME NEW u \in B PROVE shift(u) \in rest
    OBVIOUS
  <2>1. PICK x \in D : \E k \in 1 .. b[x] : u = <<x, k>>
    BY <1>1
  <2>1a. PICK k \in 1 .. b[x] : u = <<x, k>>
    BY <2>1
  <2>2. shift(u) = <<x, a[x] + k>> /\ a[x] + k \in Nat /\ a[x] + k > a[x] /\ a[x] + k <= c[x]
    BY <2>1a
  <2> HIDE DEF rest
  <2> QED
    BY <1>4, <2>2
<1>6. \A u, w \in B : f[u] = f[w] => u = w
  <2> SUFFICES ASSUME NEW u \in B, NEW w \in B, shift(u) = shift(w) PROVE u = w
    OBVIOUS
  <2>1. PICK x \in D : \E k \in 1 .. b[x] : u = <<x, k>>
    BY <1>1
  <2>1a. PICK k \in 1 .. b[x] : u = <<x, k>>
    BY <2>1
  <2>2. PICK y \in D : \E l \in 1 .. b[y] : w = <<y, l>>
    BY <1>1
  <2>2a. PICK l \in 1 .. b[y] : w = <<y, l>>
    BY <2>2
  <2> QED
    BY <2>1a, <2>2a
<1>7. \A r \in rest : \E u \in B : f[u] = r
  <2> SUFFICES ASSUME NEW r \in rest PROVE \E u \in B : shift(u) = r
    OBVIOUS
  <2>1. PICK x \in D : \E k \in 1 .. c[x] : r = <<x, k>>
    BY <1>1
  <2>1a. PICK k \in 1 .. c[x] : r = <<x, k>>
    BY <2>1
  <2>2. k > a[x] /\ k - a[x] \in 1 .. b[x]
    BY <1>4, <2>1a
  <2>3. <<x, k - a[x]>> \in B
    BY <1>1, <2>2
  <2>4. shift(<<x, k - a[x]>>) = r
    BY <2>1a, <2>2
  <2> QED
    BY <2>3, <2>4
<1> HIDE DEF A, B, rest, f
<1>8. f \in Bijection(B, rest)
  BY <1>5, <1>6, <1>7, Fun_IsInj, Fun_IsSurj, Fun_IsBij
<1>9. Cardinality(rest) = Cardinality(B)
  BY <1>2, <1>8, FS_Bijection DEF ExistsBijection
<1>10. Cardinality(rest) = Cardinality(AllUnits(c)) - Cardinality(A)
  <2>1. Cardinality(AllUnits(c) \ A) = Cardinality(AllUnits(c)) - Cardinality(AllUnits(c) \cap A)
    BY <1>2, FS_Difference
  <2>2. AllUnits(c) \cap A = A
    BY <1>3
  <2> QED
    BY <2>1, <2>2 DEF rest
<1>11. Cardinality(A) \in Nat /\ Cardinality(AllUnits(c)) \in Nat
  BY <1>2, FS_CardinalityType
<1> QED
  BY <1>9, <1>10, <1>11 DEF Total, A, B

\* Rows of zero do not count.
THEOREM TotalWithin ==
  ASSUME NEW D, NEW S \in SUBSET D, NEW size \in [D -> Nat], NEW part \in [S -> Nat],
         \A x \in D \ S : size[x] = 0, \A x \in S : part[x] = size[x]
  PROVE  Total(size) = Total(part)
<1>1. \A x \in D \ S : Units(size, x) = {}
  BY DEF Units
<1>2. \A x \in S : Units(size, x) = Units(part, x)
  BY DEF Units
<1>3. AllUnits(size) = AllUnits(part)
  BY <1>1, <1>2 DEF AllUnits
<1> QED
  BY <1>3 DEF Total

\* Counting is adding ones.
THEOREM TotalOnes ==
  ASSUME NEW S, IsFiniteSet(S)
  PROVE  Total([x \in S |-> 1]) = Cardinality(S)
<1> DEFINE ones == [x \in S |-> 1]
           f == [x \in S |-> <<x, 1>>]
<1>1. AllUnits(ones) = {<<x, 1>> : x \in S}
  BY DEF AllUnits, Units
<1>2. f \in Bijection(S, AllUnits(ones))
  BY <1>1, Fun_IsInj, Fun_IsSurj, Fun_IsBij
<1> QED
  BY <1>2, FS_Bijection DEF ExistsBijection, Total
=============================================================================
