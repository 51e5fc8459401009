---------------------------- MODULE NumberProofs ----------------------------
(***************************************************************************)
(* Facts about numbers that the other proofs cite: the least of a set of   *)
(* naturals, powers of two, and sums over finite sets.                     *)
(***************************************************************************)
EXTENDS Sums, Integers, Functions, FunctionTheorems, FiniteSetTheorems,
        WellFoundedInduction, TLAPS

\* Every nonempty set of naturals has a least element.  Induction over data goes
\* by the least counterexample: its statement is a set here, and no operator.
LEMMA LeastNatural ==
    ASSUME NEW S, S \subseteq Nat, S # {}
    PROVE  \E n \in S : \A m \in S : n <= m
<1> DEFINE R == OpToRel(<, Nat)
<1>1. \A x, y \in Nat : <<x, y>> \in R <=> x < y
  BY DEF OpToRel
<1>2. IsWellFoundedOn(R, Nat)
  BY NatLessThanWellFounded
<1> HIDE DEF R
<1>3. PICK x \in S : \A y \in S : ~ (<<y, x>> \in R)
  BY <1>2, WFMin
<1>4. \A y \in S : ~ (y < x)
  BY <1>1, <1>3
<1> QED
  BY <1>3, <1>4

\* The library knows powers of two as the numbers of subsets.
LEMMA PowerCounts ==
    ASSUME NEW n \in Nat
    PROVE  /\ 2^n \in Nat
           /\ IsFiniteSet(SUBSET (1..n)) /\ Cardinality(SUBSET (1..n)) = 2^n
<1>1. IsFiniteSet(1..n) /\ Cardinality(1..n) = n
  BY FS_Interval
<1>2. IsFiniteSet(SUBSET (1..n)) /\ Cardinality(SUBSET (1..n)) = 2^n
  BY <1>1, FS_SUBSET
<1> QED
  BY <1>2, FS_CardinalityType

LEMMA PowerDoubles ==
    ASSUME NEW n \in Nat
    PROVE  2^(n + 1) = 2 * 2^n
<1> DEFINE A == SUBSET (1..n)
           B == {s \cup {n + 1} : s \in A}
<1>1. SUBSET (1..(n + 1)) = A \cup B
  <2>1. ASSUME NEW s \in SUBSET (1..(n + 1)), n + 1 \in s
        PROVE  s \in B
    <3>1. s \ {n + 1} \in A /\ s = (s \ {n + 1}) \cup {n + 1}
      BY <2>1
    <3> QED
      BY <3>1
  <2>2. ASSUME NEW s \in SUBSET (1..(n + 1)), n + 1 \notin s
        PROVE  s \in A
    BY <2>2
  <2>3. A \subseteq SUBSET (1..(n + 1))
    OBVIOUS
  <2>4. ASSUME NEW s \in A
        PROVE  s \cup {n + 1} \in SUBSET (1..(n + 1))
    BY <2>4
  <2>5. B \subseteq SUBSET (1..(n + 1))
    BY <2>4
  <2> HIDE DEF A, B
  <2> QED
    BY <2>1, <2>2, <2>3, <2>5
<1>2. A \cap B = {}
  OBVIOUS
<1>3. ExistsBijection(A, B)
  <2> DEFINE f == [s \in A |-> s \cup {n + 1}]
  <2>1. f \in [A -> B]
    OBVIOUS
  <2>2. ASSUME NEW s \in A, NEW t \in A, f[s] = f[t]
        PROVE  s = t
    <3>1. s = (s \cup {n + 1}) \ {n + 1} /\ t = (t \cup {n + 1}) \ {n + 1}
      OBVIOUS
    <3> QED
      BY <2>2, <3>1
  <2>3. \A y \in B : \E s \in A : f[s] = y
    OBVIOUS
  <2> HIDE DEF f, A, B
  <2>4. f \in Injection(A, B) /\ f \in Surjection(A, B)
    BY <2>1, <2>2, <2>3, Fun_IsInj, Fun_IsSurj
  <2>5. f \in Bijection(A, B)
    BY <2>4 DEF Bijection
  <2> QED
    BY <2>5 DEF ExistsBijection
<1>4. IsFiniteSet(A) /\ Cardinality(A) = 2^n
  BY PowerCounts
<1>5. Cardinality(SUBSET (1..(n + 1))) = 2^(n + 1)
  BY PowerCounts, n + 1 \in Nat
<1> HIDE DEF A, B
<1>6. IsFiniteSet(B) /\ Cardinality(B) = 2^n
  BY <1>3, <1>4, FS_Bijection
<1>7. Cardinality(A \cup B) = 2^n + 2^n
  <2>1. Cardinality(A \cap B) = 0
    BY <1>2, FS_EmptySet
  <2>2. Cardinality(A \cup B) = Cardinality(A) + Cardinality(B) - Cardinality(A \cap B)
    BY <1>4, <1>6, FS_Union
  <2> QED
    BY <1>4, <1>6, <2>1, <2>2, PowerCounts
<1> QED
  BY <1>1, <1>5, <1>7, PowerCounts

LEMMA PowerPositive ==
    ASSUME NEW n \in Nat
    PROVE  2^n \in Nat \ {0}
<1>1. {} \in SUBSET (1..n)
  OBVIOUS
<1> QED
  BY <1>1, PowerCounts, FS_EmptySet

LEMMA PowerGrows ==
    ASSUME NEW m \in Nat, NEW n \in Nat, m <= n
    PROVE  2^m <= 2^n
<1> DEFINE A == SUBSET (1..m)
           B == SUBSET (1..n)
<1>1. A \in SUBSET B
  OBVIOUS
<1>2. Cardinality(A) = 2^m /\ IsFiniteSet(B) /\ Cardinality(B) = 2^n
  BY PowerCounts
<1> HIDE DEF A, B
<1> QED
  BY <1>1, <1>2, FS_Subset

-----------------------------------------------------------------------------
(* Sums                                                                    *)

\* m gives every element of the finite set S an amount.
Amounting(m, S) == IsFiniteSet(S) /\ \A x \in S : m[x] \in Nat

LEMMA SumFinite ==
    ASSUME NEW m, NEW S, Amounting(m, S)
    PROVE  IsFiniteSet(Units(m, S)) /\ SumOver(m, S) \in Nat
<1> DEFINE cell == [x \in S |-> {x} \X (1 .. m[x])]
           cells == {{x} \X (1 .. m[x]) : x \in S}
<1>1. cell \in Surjection(S, cells)
  BY DEF Surjection
<1>2. IsFiniteSet(cells)
  <2> HIDE DEF cell, cells
  <2> QED
    BY <1>1, FS_Surjection DEF Amounting
<1>3. ASSUME NEW x \in S
      PROVE  IsFiniteSet({x} \X (1 .. m[x]))
  <2>0. 1 \in Int /\ m[x] \in Int
    BY DEF Amounting
  <2>1. IsFiniteSet({x}) /\ IsFiniteSet(1 .. m[x])
    BY <2>0, FS_Singleton, FS_Interval
  <2> QED
    BY <2>1, FS_Product
<1>4. \A c \in cells : IsFiniteSet(c)
  BY <1>3
<1>5. IsFiniteSet(UNION cells)
  <2> HIDE DEF cells
  <2> QED
    BY <1>2, <1>4, FS_UNION
<1> QED
  BY <1>5, FS_CardinalityType DEF SumOver, Units

LEMMA SumEmpty == \A m : SumOver(m, {}) = 0
BY FS_EmptySet DEF SumOver, Units

LEMMA SumSame ==
    ASSUME NEW m, NEW n, NEW S, \A x \in S : m[x] = n[x]
    PROVE  SumOver(m, S) = SumOver(n, S)
<1>1. {{x} \X (1 .. m[x]) : x \in S} = {{x} \X (1 .. n[x]) : x \in S}
  OBVIOUS
<1> QED
  BY <1>1 DEF SumOver, Units

LEMMA SumMonotone ==
    ASSUME NEW m, NEW S, NEW T, Amounting(m, S), T \subseteq S
    PROVE  SumOver(m, T) <= SumOver(m, S)
<1>1. Units(m, T) \subseteq Units(m, S)
  BY DEF Units
<1> QED
  BY <1>1, SumFinite, FS_Subset DEF SumOver

LEMMA AmountingSubset ==
    ASSUME NEW m, NEW S, NEW T, Amounting(m, S), T \subseteq S
    PROVE  Amounting(m, T)
BY FS_Subset DEF Amounting

\* One element's part of the sum.
LEMMA SumSplit ==
    ASSUME NEW m, NEW S, NEW x \in S, Amounting(m, S)
    PROVE  /\ SumOver(m, S \ {x}) \in Nat
           /\ SumOver(m, S) = SumOver(m, S \ {x}) + m[x]
<1> DEFINE own == {x} \X (1 .. m[x])
           rest == Units(m, S \ {x})
<1>1. m[x] \in Nat
  BY DEF Amounting
<1>2. IsFiniteSet(own) /\ Cardinality(own) = m[x]
  <2>1. IsFiniteSet({x}) /\ Cardinality({x}) = 1
    BY FS_Singleton
  <2>2. IsFiniteSet(1 .. m[x]) /\ Cardinality(1 .. m[x]) = m[x]
    BY <1>1, FS_Interval
  <2>3. Cardinality(own) = Cardinality({x}) * Cardinality(1 .. m[x])
    BY <2>1, <2>2, FS_Product
  <2>4. IsFiniteSet(own)
    BY <2>1, <2>2, FS_Product
  <2> QED
    BY <1>1, <2>1, <2>2, <2>3, <2>4
<1>3. Amounting(m, S \ {x})
  BY AmountingSubset
<1>4. IsFiniteSet(rest) /\ SumOver(m, S \ {x}) \in Nat
  BY <1>3, SumFinite
<1>5. rest \cap own = {}
  BY DEF Units
<1>6. Units(m, S) = rest \cup own
  BY DEF Units
<1> HIDE DEF own, rest
<1>7. Cardinality(rest \cup own) = Cardinality(rest) + Cardinality(own)
                                     - Cardinality(rest \cap own)
  BY <1>2, <1>4, FS_Union
<1>8. Cardinality(rest \cap own) = 0
  BY <1>5, FS_EmptySet
<1>9. Cardinality(rest) = SumOver(m, S \ {x})
  BY DEF rest, SumOver
<1> QED
  BY <1>1, <1>2, <1>4, <1>6, <1>7, <1>8, <1>9 DEF SumOver

\* One amount changes, and the sum with it.
LEMMA SumChange ==
    ASSUME NEW m, NEW n, NEW S, NEW x \in S, Amounting(m, S), n[x] \in Nat,
           \A y \in S \ {x} : n[y] = m[y]
    PROVE  /\ Amounting(n, S)
           /\ SumOver(m, S) \in Nat /\ SumOver(n, S) \in Nat
           /\ SumOver(n, S) + m[x] = SumOver(m, S) + n[x]
<1>1. Amounting(n, S) /\ m[x] \in Nat
  BY DEF Amounting
<1>2. SumOver(m, S \ {x}) = SumOver(n, S \ {x})
  BY SumSame
<1>3. /\ SumOver(m, S \ {x}) \in Nat
      /\ SumOver(m, S) = SumOver(m, S \ {x}) + m[x]
  BY SumSplit
<1>4. SumOver(n, S) = SumOver(n, S \ {x}) + n[x]
  BY <1>1, SumSplit
<1> QED
  BY <1>1, <1>2, <1>3, <1>4

LEMMA SumZero ==
    ASSUME NEW m, NEW S, \A x \in S : m[x] = 0
    PROVE  SumOver(m, S) = 0
<1>1. Units(m, S) = {}
  BY DEF Units
<1> QED
  BY <1>1, FS_EmptySet DEF SumOver

\* The sums over disjoint parts of S add up to no more than the sum over S.
LEMMA SumOfParts ==
    ASSUME NEW m, NEW S, Amounting(m, S),
           NEW R, IsFiniteSet(R), NEW part \in [R -> SUBSET S],
           \A a, b \in R : a # b => part[a] \cap part[b] = {},
           NEW v, \A a \in R : v[a] = SumOver(m, part[a])
    PROVE  SumOver(v, R) <= SumOver(m, S)
<1>1. ASSUME NEW a \in R
      PROVE  /\ v[a] \in Nat
             /\ \E g : g \in Bijection(1 .. v[a], Units(m, part[a]))
  <2>1. Amounting(m, part[a])
    BY AmountingSubset
  <2>2. IsFiniteSet(Units(m, part[a])) /\ v[a] \in Nat
    BY <2>1, SumFinite
  <2>3. v[a] = Cardinality(Units(m, part[a]))
    BY DEF SumOver
  <2>4. ExistsBijection(1 .. v[a], Units(m, part[a]))
    BY <2>2, <2>3, FS_CardinalityType
  <2> QED
    BY <2>2, <2>4 DEF ExistsBijection
<1> DEFINE G == [a \in R |-> CHOOSE g : g \in Bijection(1 .. v[a], Units(m, part[a]))]
           f == [u \in Units(v, R) |-> G[u[1]][u[2]]]
<1>2. \A a \in R : /\ G[a] \in [1 .. v[a] -> Units(m, part[a])]
                    /\ \A i, j \in 1 .. v[a] : G[a][i] = G[a][j] => i = j
  <2> SUFFICES ASSUME NEW a \in R
               PROVE  /\ G[a] \in [1 .. v[a] -> Units(m, part[a])]
                      /\ \A i, j \in 1 .. v[a] : G[a][i] = G[a][j] => i = j
    OBVIOUS
  <2>1. G[a] \in Bijection(1 .. v[a], Units(m, part[a]))
    BY <1>1
  <2> HIDE DEF G
  <2> QED
    BY <2>1 DEF Bijection, Injection, IsInjective
<1>3. \A u \in Units(v, R) : u = <<u[1], u[2]>> /\ u[1] \in R /\ u[2] \in 1 .. v[u[1]]
  BY DEF Units
<1>4. \A u \in Units(v, R) : f[u] = G[u[1]][u[2]]
  OBVIOUS
<1> HIDE DEF G, f
<1>5. \A u \in Units(v, R) : f[u] \in Units(m, part[u[1]])
  <2> SUFFICES ASSUME NEW u \in Units(v, R)
               PROVE  f[u] \in Units(m, part[u[1]])
    OBVIOUS
  <2>1. PICK a \in R : u[1] = a /\ u[2] \in 1 .. v[a]
    BY <1>3
  <2>2. G[a] \in [1 .. v[a] -> Units(m, part[a])]
    BY <1>2
  <2>3. f[u] = G[a][u[2]]
    BY <1>4, <2>1
  <2> QED
    BY <2>1, <2>2, <2>3
<1>6. \A a \in R : Units(m, part[a]) \subseteq Units(m, S)
  BY DEF Units
<1>7. \A a \in R : \A w \in Units(m, part[a]) : w[1] \in part[a]
  BY DEF Units
<1>8. f \in [Units(v, R) -> Units(m, S)]
  BY <1>3, <1>5, <1>6 DEF f
<1>9. ASSUME NEW u \in Units(v, R), NEW w \in Units(v, R), f[u] = f[w]
      PROVE  u = w
  <2>1. u[1] = w[1]
    BY <1>3, <1>5, <1>7, <1>9
  <2>2. G[u[1]][u[2]] = G[u[1]][w[2]]
    BY <1>4, <1>9, <2>1
  <2>3. u[2] = w[2]
    BY <1>2, <1>3, <2>1, <2>2
  <2> QED
    BY <1>3, <2>1, <2>3
<1>10. f \in Injection(Units(v, R), Units(m, S))
  BY <1>8, <1>9 DEF Injection, IsInjective
<1>11. IsFiniteSet(Units(m, S))
  BY SumFinite
<1> QED
  BY <1>10, <1>11, FS_Injection DEF SumOver
=============================================================================
