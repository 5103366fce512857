-------------------------- MODULE FactsAndMarts_proofs --------------------------
(***************************************************************************)
(* Theorems about the facts made of counters, for any number of series,    *)
(* days, hours, samples, calls, restarts and gaps, and about the verdict   *)
(* marts on days, for any length of history, windows and thresholds.       *)
(*                                                                         *)
(* The two share no variable and no constant; they are proved side by side *)
(* because both add up over sets: the laws of sums come first, from an     *)
(* induction on sets of numbers.                                           *)
(*                                                                         *)
(* Counters: the inductive invariant says of any two samples what lies     *)
(* between them: a counter never grows by more than was called, and by no  *)
(* less unless a restart is in between; and the tables are a function of   *)
(* the samples.                                                            *)
(*                                                                         *)
(* Marts: only their types need an invariant, the rest is about operators. *)
(* The past is not rewritten, and a verdict is a function of the days of   *)
(* its window; averages are ordered as their terms are; and the products   *)
(* of distances that make up a slope are positive for a size that grows.   *)
(***************************************************************************)
EXTENDS CounterFacts, DayMarts, FiniteSetTheorems, WellFoundedInduction, TLAPS

-----------------------------------------------------------------------------
-----------------------------------------------------------------------------
(* Induction.                                                                *)

\* The order of the numbers, as a relation.
Less == {p \in Nat \X Nat : p[1] < p[2]}

\* A set of numbers has a least member.
LEMMA Least ==
  ASSUME NEW S, S \subseteq Nat, S # {}
  PROVE  \E m \in S : \A k \in S : m <= k
<1>1. Less = OpToRel(<, Nat)
  BY DEF Less, OpToRel
<1>2. IsWellFoundedOn(Less, Nat)
  BY <1>1, NatLessThanWellFounded
<1>3. PICK m \in S : \A k \in S : ~(<<k, m>> \in Less)
  BY <1>2, WFMin
<1>4. ASSUME NEW k \in S PROVE m <= k
  <2>1. <<k, m>> \in Nat \X Nat /\ ~(<<k, m>> \in Less)
    BY <1>3
  <2> QED BY <2>1 DEF Less
<1> QED BY <1>4

\* Induction, for a set of numbers.
LEMMA Induct ==
  ASSUME NEW S, 0 \in S, \A n \in Nat : n \in S => n + 1 \in S
  PROVE  Nat \subseteq S
<1> SUFFICES ASSUME ~(Nat \subseteq S) PROVE FALSE
  OBVIOUS
<1>1. PICK m \in Nat \ S : \A k \in Nat \ S : m <= k
  BY Least
<1>2. m # 0 /\ m - 1 \in Nat
  BY <1>1
<1>3. m - 1 \in S
  BY <1>1, <1>2
<1> QED BY <1>1, <1>2, <1>3

\* Induction over the subsets of a finite set.
LEMMA InductOnSubsets ==
  ASSUME NEW D, IsFiniteSet(D), NEW S,
         \A s \in SUBSET D : (\A t \in SUBSET s : t # s => t \in S) => s \in S
  PROVE  \A s \in SUBSET D : s \in S
<1> DEFINE Bad == {Cardinality(s) : s \in (SUBSET D) \ S}
<1>1. \A s \in SUBSET D : IsFiniteSet(s) /\ Cardinality(s) \in Nat
  BY FS_Subset, FS_CardinalityType
<1>0. SUFFICES ASSUME NEW b \in SUBSET D, b \notin S PROVE FALSE
  OBVIOUS
<1>2. Bad \subseteq Nat
  BY <1>1
<1>3. PICK n \in Bad : \A k \in Bad : n <= k
  <2>1. Cardinality(b) \in Bad
    BY <1>0
  <2> HIDE DEF Bad
  <2> QED BY <1>2, <2>1, Least
<1>4. PICK s \in (SUBSET D) \ S : Cardinality(s) = n
  BY <1>3
<1>5. ASSUME NEW t \in SUBSET s, t # s PROVE t \in S
  <2>1. Cardinality(t) <= n /\ Cardinality(t) # n
    BY <1>1, <1>4, <1>5, FS_Subset
  <2>2. t \in SUBSET D /\ Cardinality(t) \in Nat /\ n \in Nat
    BY <1>1, <1>2, <1>3
  <2>3. Cardinality(t) \notin Bad
    BY <1>3, <2>1, <2>2
  <2> QED BY <2>2, <2>3
<1>6. s \in SUBSET D /\ s \notin S
  BY <1>4
<1> QED BY <1>5, <1>6

-----------------------------------------------------------------------------
(* Sums over a finite set.  The MapThenSumSet behind SumOf takes the members *)
(* away one by one; Peel is its recursive function.                          *)

\* The member that is taken away first, and one round of the recursion.
Any(s) == CHOOSE x \in s : TRUE
Peeled(f, D, h) ==
  [s \in SUBSET D |-> IF s = {} THEN 0 ELSE f[Any(s)] + h[s \ {Any(s)}]]
Peel(f, D) == CHOOSE h : h = Peeled(f, D, h)

\* A sum is taken from the recursive function Peel.
LEMMA SumPeels == ASSUME NEW f, NEW D PROVE SumOf(f, D) = Peel(f, D)[D]
BY DEF SumOf, Peel, Peeled, Any, MapThenSumSet, MapThenFoldSet

\* Equal terms, equal sums.
LEMMA SumCongruence ==
  ASSUME NEW f, NEW g, NEW D, \A d \in D : f[d] = g[d]
  PROVE  SumOf(f, D) = SumOf(g, D)
<1>1. ASSUME NEW h PROVE Peeled(f, D, h) = Peeled(g, D, h)
  <2>1. ASSUME NEW s \in SUBSET D, s # {} PROVE f[Any(s)] = g[Any(s)]
    <3>1. Any(s) \in s
      BY <2>1 DEF Any
    <3> QED BY <3>1
  <2> QED BY <2>1 DEF Peeled
<1>2. Peel(f, D) = Peel(g, D)
  BY <1>1, Zenon DEF Peel
<1> QED BY <1>2, SumPeels

\* On a finite set the recursive equation has a solution, so that Peel is one.
LEMMA PeelExists ==
  ASSUME NEW f, NEW D, IsFiniteSet(D)
  PROVE  Peel(f, D) = Peeled(f, D, Peel(f, D))
<1> DEFINE Body(h, s) == IF s = {} THEN 0 ELSE f[Any(s)] + h[s \ {Any(s)}]
           Upto(h, n) == /\ h = [s \in SUBSET D |-> h[s]]
                         /\ \A s \in SUBSET D : Cardinality(s) <= n => h[s] = Body(h, s)
           G == {n \in Nat : \E h : Upto(h, n)}
<1>0. \A s \in SUBSET D : IsFiniteSet(s) /\ Cardinality(s) \in Nat
  BY FS_Subset, FS_CardinalityType
<1>1. 0 \in G
  <2> DEFINE h == [s \in SUBSET D |-> 0]
  <2>1. \A s \in SUBSET D : Cardinality(s) <= 0 => s = {}
    BY <1>0, FS_EmptySet
  <2>2. Upto(h, 0)
    BY <2>1
  <2> QED BY <2>2
<1>2. ASSUME NEW n \in Nat, n \in G PROVE n + 1 \in G
  <2>1. PICK h : Upto(h, n)
    BY <1>2
  <2> DEFINE k == [s \in SUBSET D |-> IF Cardinality(s) = n + 1 THEN Body(h, s) ELSE h[s]]
  <2>2. ASSUME NEW s \in SUBSET D, Cardinality(s) <= n + 1 PROVE k[s] = Body(k, s)
    <3>1. CASE s = {}
      <4>1. Cardinality(s) = 0
        BY <3>1, FS_EmptySet
      <4>2. Cardinality(s) # n + 1 /\ Cardinality(s) <= n
        BY <4>1
      <4>3. h[s] = 0
        BY <2>1, <3>1, <4>2
      <4> QED BY <3>1, <4>2, <4>3
    <3>2. CASE s # {}
      <4>1. Any(s) \in s
        BY <3>2 DEF Any
      <4>2. /\ s \ {Any(s)} \in SUBSET D
            /\ Cardinality(s \ {Any(s)}) = Cardinality(s) - 1
        BY <1>0, <4>1, FS_RemoveElement
      <4>3. Cardinality(s \ {Any(s)}) # n + 1
        BY <1>0, <2>2, <4>2
      <4>4. k[s \ {Any(s)}] = h[s \ {Any(s)}]
        BY <4>2, <4>3
      <4>5. Body(k, s) = Body(h, s)
        BY <4>4
      <4>6. k[s] = Body(h, s)
        <5>1. CASE Cardinality(s) = n + 1
          BY <5>1
        <5>2. CASE Cardinality(s) # n + 1
          <6>1. Cardinality(s) <= n
            BY <1>0, <2>2, <5>2
          <6>2. h[s] = Body(h, s)
            BY <2>1, <6>1
          <6> QED BY <5>2, <6>2
        <5> QED BY <5>1, <5>2
      <4> QED BY <4>5, <4>6
    <3> QED BY <3>1, <3>2
  <2>3. k = [s \in SUBSET D |-> k[s]]
    OBVIOUS
  <2> HIDE DEF k
  <2>4. Upto(k, n + 1)
    BY <2>2, <2>3
  <2>5. \E h1 : Upto(h1, n + 1)
    BY <2>4
  <2> HIDE DEF Upto
  <2> QED BY <2>5
<1> HIDE DEF G
<1>3. Cardinality(D) \in G
  BY <1>0, <1>1, <1>2, Induct
<1>4. PICK h : Upto(h, Cardinality(D))
  BY <1>3 DEF G
<1>5. \A s \in SUBSET D : h[s] = Body(h, s)
  BY <1>0, <1>4, FS_Subset
<1>6. h = Peeled(f, D, h)
  BY <1>4, <1>5 DEF Peeled
<1> QED BY <1>6 DEF Peel

\* The function that sums D has the sums of D's parts.
LEMMA SumOfPart ==
  ASSUME NEW f, NEW D, IsFiniteSet(D)
  PROVE  \A s \in SUBSET D : SumOf(f, s) = Peel(f, D)[s]
<1> DEFINE S == {s \in SUBSET D : \A E \in SUBSET D : s \in SUBSET E =>
                                    Peel(f, E)[s] = Peel(f, D)[s]}
<1>1. ASSUME NEW s \in SUBSET D, \A t \in SUBSET s : t # s => t \in S
      PROVE  s \in S
  <2> SUFFICES ASSUME NEW E \in SUBSET D, s \in SUBSET E
               PROVE  Peel(f, E)[s] = Peel(f, D)[s]
    OBVIOUS
  <2>1. /\ Peel(f, E) = Peeled(f, E, Peel(f, E))
        /\ Peel(f, D) = Peeled(f, D, Peel(f, D))
    BY FS_Subset, PeelExists
  <2>2. /\ Peel(f, E)[s] = IF s = {} THEN 0 ELSE f[Any(s)] + Peel(f, E)[s \ {Any(s)}]
        /\ Peel(f, D)[s] = IF s = {} THEN 0 ELSE f[Any(s)] + Peel(f, D)[s \ {Any(s)}]
    BY <2>1 DEF Peeled
  <2>3. CASE s # {}
    <3>1. Any(s) \in s
      BY <2>3 DEF Any
    <3>2. s \ {Any(s)} \in S
      BY <1>1, <3>1
    <3>3. Peel(f, E)[s \ {Any(s)}] = Peel(f, D)[s \ {Any(s)}]
      BY <3>2
    <3> QED BY <2>2, <3>3
  <2> QED BY <2>2, <2>3
<1> HIDE DEF S
<1>2. \A s \in SUBSET D : s \in S
  BY <1>1, InductOnSubsets
<1>3. \A s \in SUBSET D : Peel(f, s)[s] = Peel(f, D)[s]
  BY <1>2 DEF S
<1> QED BY <1>3, SumPeels

\* Nothing adds up to zero.
LEMMA SumEmpty == ASSUME NEW f PROVE SumOf(f, {}) = 0
<1>1. Peel(f, {}) = Peeled(f, {}, Peel(f, {}))
  BY FS_EmptySet, PeelExists
<1>2. Peel(f, {})[{}] = 0
  BY <1>1 DEF Peeled
<1> QED BY <1>2, SumPeels

\* A sum is the term taken first and the sum of the others.
LEMMA SumOfAny ==
  ASSUME NEW f, NEW D, IsFiniteSet(D), D # {}
  PROVE  Any(D) \in D /\ SumOf(f, D) = f[Any(D)] + SumOf(f, D \ {Any(D)})
<1>1. Any(D) \in D
  BY DEF Any
<1>2. Peel(f, D) = Peeled(f, D, Peel(f, D))
  BY PeelExists
<1>3. Peel(f, D)[D] = f[Any(D)] + Peel(f, D)[D \ {Any(D)}]
  BY <1>2 DEF Peeled
<1>4. SumOf(f, D) = Peel(f, D)[D] /\ SumOf(f, D \ {Any(D)}) = Peel(f, D)[D \ {Any(D)}]
  BY SumOfPart
<1> QED BY <1>1, <1>3, <1>4

\* Numbers add up to a number.
LEMMA SumType ==
  ASSUME NEW f, NEW D, IsFiniteSet(D), \A d \in D : f[d] \in Nat
  PROVE  SumOf(f, D) \in Nat
<1> DEFINE S == {s \in SUBSET D : SumOf(f, s) \in Nat}
<1>1. ASSUME NEW s \in SUBSET D, \A t \in SUBSET s : t # s => t \in S
      PROVE  s \in S
  <2>1. CASE s = {}
    BY <2>1, SumEmpty
  <2>2. CASE s # {}
    <3>1. Any(s) \in s /\ SumOf(f, s) = f[Any(s)] + SumOf(f, s \ {Any(s)})
      BY <2>2, FS_Subset, SumOfAny
    <3>2. s \ {Any(s)} \in S
      BY <1>1, <3>1
    <3> QED BY <3>1, <3>2
  <2> QED BY <2>1, <2>2
<1> HIDE DEF S
<1>2. D \in S
  BY <1>1, InductOnSubsets
<1> QED BY <1>2 DEF S

\* Any term may be the one that is taken first.
LEMMA SumWithout ==
  ASSUME NEW f, NEW D, IsFiniteSet(D), \A d \in D : f[d] \in Nat, NEW x \in D
  PROVE  SumOf(f, D) = f[x] + SumOf(f, D \ {x})
<1> DEFINE S == {s \in SUBSET D : \A y \in s : SumOf(f, s) = f[y] + SumOf(f, s \ {y})}
<1>0. \A s \in SUBSET D : SumOf(f, s) \in Nat /\ IsFiniteSet(s)
  BY FS_Subset, SumType
<1>1. ASSUME NEW s \in SUBSET D, \A t \in SUBSET s : t # s => t \in S
      PROVE  s \in S
  <2> SUFFICES ASSUME NEW y \in s PROVE SumOf(f, s) = f[y] + SumOf(f, s \ {y})
    OBVIOUS
  <2> DEFINE z == Any(s)
  <2>1. z \in s /\ SumOf(f, s) = f[z] + SumOf(f, s \ {z})
    BY <1>0, SumOfAny
  <2> HIDE DEF z
  <2>2. CASE z # y
    <3>1. s \ {z} \in S /\ s \ {y} \in S
      BY <1>1, <2>1
    <3>2. SumOf(f, s \ {z}) = f[y] + SumOf(f, (s \ {z}) \ {y})
      BY <2>2, <3>1
    <3>3. SumOf(f, s \ {y}) = f[z] + SumOf(f, (s \ {y}) \ {z})
      BY <2>1, <2>2, <3>1
    <3>4. (s \ {z}) \ {y} = (s \ {y}) \ {z}
      OBVIOUS
    <3>5. SumOf(f, (s \ {y}) \ {z}) \in Nat /\ f[y] \in Nat /\ f[z] \in Nat
      BY <1>0, <2>1
    <3> QED BY <2>1, <3>2, <3>3, <3>4, <3>5
  <2> QED BY <2>1, <2>2
<1> HIDE DEF S
<1>2. D \in S
  BY <1>1, InductOnSubsets
<1> QED BY <1>2 DEF S

\* The sum over two disjoint sets.
LEMMA SumOfTwo ==
  ASSUME NEW f, NEW A, NEW B, IsFiniteSet(A), IsFiniteSet(B), A \cap B = {},
         \A d \in A \cup B : f[d] \in Nat
  PROVE  SumOf(f, A \cup B) = SumOf(f, A) + SumOf(f, B)
<1> DEFINE S == {s \in SUBSET B : SumOf(f, A \cup s) = SumOf(f, A) + SumOf(f, s)}
<1>0. /\ SumOf(f, A) \in Nat
      /\ \A s \in SUBSET B : SumOf(f, s) \in Nat /\ IsFiniteSet(s) /\ IsFiniteSet(A \cup s)
                             /\ SumOf(f, A \cup s) \in Nat
  BY FS_Subset, FS_Union, SumType
<1>1. ASSUME NEW s \in SUBSET B, \A t \in SUBSET s : t # s => t \in S
      PROVE  s \in S
  <2>1. CASE s = {}
    BY <1>0, <2>1, SumEmpty
  <2>2. CASE s # {}
    <3>1. PICK y \in s : TRUE
      BY <2>2
    <3>2. SumOf(f, s) = f[y] + SumOf(f, s \ {y})
      <4>1. IsFiniteSet(s) /\ \A d \in s : f[d] \in Nat
        BY <1>0
      <4> QED BY ONLY <3>1, <4>1, SumWithout
    <3>3. SumOf(f, A \cup s) = f[y] + SumOf(f, (A \cup s) \ {y})
      <4>1. IsFiniteSet(A \cup s) /\ y \in A \cup s /\ \A d \in A \cup s : f[d] \in Nat
        BY <1>0, <3>1
      <4> QED BY ONLY <4>1, SumWithout
    <3>4. (A \cup s) \ {y} = A \cup (s \ {y})
      BY <3>1
    <3>5. SumOf(f, A \cup (s \ {y})) = SumOf(f, A) + SumOf(f, s \ {y})
      BY <1>1, <3>1
    <3>6. f[y] \in Nat /\ SumOf(f, s \ {y}) \in Nat
      BY <1>0, <3>1
    <3> QED BY <1>0, <3>2, <3>3, <3>4, <3>5, <3>6
  <2> QED BY <2>1, <2>2
<1> HIDE DEF S
<1>2. B \in S
  BY <1>1, InductOnSubsets
<1> QED BY <1>2 DEF S

\* A part does not add up to more than the whole.
LEMMA SumOfPartIsLess ==
  ASSUME NEW f, NEW B, IsFiniteSet(B), NEW A \in SUBSET B, \A d \in B : f[d] \in Nat
  PROVE  SumOf(f, A) <= SumOf(f, B)
<1>1. IsFiniteSet(A) /\ IsFiniteSet(B \ A) /\ A \cup (B \ A) = B /\ A \cap (B \ A) = {}
  BY FS_Subset
<1>2. SumOf(f, A \cup (B \ A)) = SumOf(f, A) + SumOf(f, B \ A)
  BY <1>1, SumOfTwo
<1>3. SumOf(f, B) = SumOf(f, A) + SumOf(f, B \ A)
  BY <1>1, <1>2
<1>4. SumOf(f, A) \in Nat /\ SumOf(f, B \ A) \in Nat
  BY <1>1, SumType
<1> QED BY <1>3, <1>4

\* Sums are added term by term.
LEMMA SumOfSums ==
  ASSUME NEW f, NEW g, NEW h, NEW D, IsFiniteSet(D),
         \A d \in D : f[d] \in Nat /\ g[d] \in Nat /\ h[d] = f[d] + g[d]
  PROVE  SumOf(h, D) = SumOf(f, D) + SumOf(g, D)
<1> DEFINE S == {s \in SUBSET D : SumOf(h, s) = SumOf(f, s) + SumOf(g, s)}
<1>0. \A s \in SUBSET D : /\ SumOf(f, s) \in Nat /\ SumOf(g, s) \in Nat /\ SumOf(h, s) \in Nat
                          /\ IsFiniteSet(s)
  <2>1. \A d \in D : h[d] \in Nat
    OBVIOUS
  <2> QED BY <2>1, FS_Subset, SumType
<1>1. ASSUME NEW s \in SUBSET D, \A t \in SUBSET s : t # s => t \in S
      PROVE  s \in S
  <2>1. CASE s = {}
    BY <2>1, SumEmpty
  <2>2. CASE s # {}
    <3> DEFINE y == Any(s)
    <3>1. /\ y \in s
          /\ SumOf(f, s) = f[y] + SumOf(f, s \ {y})
          /\ SumOf(g, s) = g[y] + SumOf(g, s \ {y})
          /\ SumOf(h, s) = h[y] + SumOf(h, s \ {y})
      BY <1>0, <2>2, SumOfAny
    <3> HIDE DEF y
    <3>2. s \ {y} \in S
      BY <1>1, <3>1
    <3>3. /\ f[y] \in Nat /\ g[y] \in Nat /\ h[y] = f[y] + g[y]
          /\ SumOf(f, s \ {y}) \in Nat /\ SumOf(g, s \ {y}) \in Nat
          /\ SumOf(h, s \ {y}) = SumOf(f, s \ {y}) + SumOf(g, s \ {y})
      BY <1>0, <3>1, <3>2
    <3> QED BY <3>1, <3>3
  <2> QED BY <2>1, <2>2
<1> HIDE DEF S
<1>2. D \in S
  BY <1>1, InductOnSubsets
<1> QED BY <1>2 DEF S

\* Terms that are not greater have a sum that is not greater.
LEMMA SumIsMonotonic ==
  ASSUME NEW f, NEW g, NEW D, IsFiniteSet(D),
         \A d \in D : f[d] \in Nat /\ g[d] \in Nat /\ f[d] <= g[d]
  PROVE  SumOf(f, D) <= SumOf(g, D)
<1> DEFINE r == [d \in D |-> g[d] - f[d]]
<1>1. \A d \in D : r[d] \in Nat /\ g[d] = f[d] + r[d]
  OBVIOUS
<1> HIDE DEF r
<1>2. SumOf(g, D) = SumOf(f, D) + SumOf(r, D)
  BY <1>1, SumOfSums
<1>3. SumOf(f, D) \in Nat /\ SumOf(r, D) \in Nat
  BY <1>1, SumType
<1> QED BY <1>2, <1>3

\* Zeros add up to zero.
LEMMA SumOfZeros ==
  ASSUME NEW f, NEW D, IsFiniteSet(D), \A d \in D : f[d] = 0
  PROVE  SumOf(f, D) = 0
<1>1. SumOf(f, D) = SumOf(f, D) + SumOf(f, D)
  BY SumOfSums
<1>2. SumOf(f, D) \in Nat
  BY SumType
<1>3. PICK n \in Nat : n = SumOf(f, D)
  BY <1>2
<1>4. n = n + n
  BY <1>1, <1>3
<1>5. n = 0
  BY ONLY <1>4, n \in Nat
<1> QED BY <1>3, <1>5

\* One more in one term is one more in the sum.
LEMMA SumCounts ==
  ASSUME NEW f, NEW g, NEW D, IsFiniteSet(D), NEW x \in D, \A d \in D : f[d] \in Nat,
         \A d \in D \ {x} : g[d] = f[d], g[x] = f[x] + 1
  PROVE  SumOf(g, D) = SumOf(f, D) + 1
<1>1. \A d \in D : g[d] \in Nat
  OBVIOUS
<1>2. /\ SumOf(f, D) = f[x] + SumOf(f, D \ {x})
      /\ SumOf(g, D) = g[x] + SumOf(g, D \ {x})
  BY <1>1, SumWithout
<1>3. SumOf(g, D \ {x}) = SumOf(f, D \ {x})
  BY SumCongruence
<1>4. f[x] \in Nat /\ SumOf(f, D \ {x}) \in Nat
  BY FS_Subset, SumType
<1> QED BY <1>2, <1>3, <1>4

\* A common factor of the terms is a factor of the sum.
LEMMA SumScaled ==
  ASSUME NEW f, NEW g, NEW D, IsFiniteSet(D), NEW k \in Nat,
         \A d \in D : f[d] \in Nat /\ g[d] = k * f[d]
  PROVE  SumOf(g, D) = k * SumOf(f, D)
<1> DEFINE S == {s \in SUBSET D : SumOf(g, s) = k * SumOf(f, s)}
<1>0. \A s \in SUBSET D : SumOf(f, s) \in Nat /\ SumOf(g, s) \in Nat /\ IsFiniteSet(s)
  <2>1. \A d \in D : g[d] \in Nat
    OBVIOUS
  <2> QED BY <2>1, FS_Subset, SumType
<1>1. ASSUME NEW s \in SUBSET D, \A t \in SUBSET s : t # s => t \in S
      PROVE  s \in S
  <2>1. CASE s = {}
    BY <2>1, SumEmpty
  <2>2. CASE s # {}
    <3> DEFINE y == Any(s)
    <3>1. /\ y \in s
          /\ SumOf(f, s) = f[y] + SumOf(f, s \ {y})
          /\ SumOf(g, s) = g[y] + SumOf(g, s \ {y})
      BY <1>0, <2>2, SumOfAny
    <3> HIDE DEF y
    <3>2. s \ {y} \in S
      BY <1>1, <3>1
    <3>3. PICK v \in Nat, x \in Nat : v = f[y] /\ x = SumOf(f, s \ {y})
      BY <1>0, <3>1
    <3>4. k * (v + x) = k * v + k * x
      OBVIOUS
    <3> QED BY <3>1, <3>2, <3>3, <3>4
  <2> QED BY <2>1, <2>2
<1> HIDE DEF S
<1>2. D \in S
  BY <1>1, InductOnSubsets
<1> QED BY <1>2 DEF S

\* A bound of the terms bounds the sum.
LEMMA SumBounds ==
  ASSUME NEW f, NEW D, IsFiniteSet(D), \A d \in D : f[d] \in Nat, NEW k \in Nat
  PROVE  /\ (\A d \in D : k <= f[d]) => k * Cardinality(D) <= SumOf(f, D)
         /\ (\A d \in D : f[d] <= k) => SumOf(f, D) <= k * Cardinality(D)
<1> DEFINE S == {s \in SUBSET D :
      /\ (\A d \in s : k <= f[d]) => k * Cardinality(s) <= SumOf(f, s)
      /\ (\A d \in s : f[d] <= k) => SumOf(f, s) <= k * Cardinality(s)}
<1>0. \A s \in SUBSET D : /\ SumOf(f, s) \in Nat /\ IsFiniteSet(s)
                          /\ Cardinality(s) \in Nat
  BY FS_Subset, FS_CardinalityType, SumType
<1>1. ASSUME NEW s \in SUBSET D, \A t \in SUBSET s : t # s => t \in S
      PROVE  s \in S
  <2>1. CASE s = {}
    <3>1. Cardinality(s) = 0 /\ SumOf(f, s) = 0
      BY <2>1, SumEmpty, FS_EmptySet
    <3> QED BY <3>1
  <2>2. CASE s # {}
    <3> DEFINE y == Any(s)
    <3>1. y \in s /\ SumOf(f, s) = f[y] + SumOf(f, s \ {y})
      BY <1>0, <2>2, SumOfAny
    <3> HIDE DEF y
    <3>2. s \ {y} \in S
      BY <1>1, <3>1
    <3>3. Cardinality(s) = Cardinality(s \ {y}) + 1
      <4>1. Cardinality(s \ {y}) = Cardinality(s) - 1
        BY <1>0, <3>1, FS_RemoveElement
      <4> QED BY <1>0, <4>1
    <3>4. PICK c \in Nat, x \in Nat, v \in Nat :
            c = Cardinality(s \ {y}) /\ x = SumOf(f, s \ {y}) /\ v = f[y]
      BY <1>0, <3>1
    <3>5. k * (c + 1) = k * c + k
      OBVIOUS
    <3>6. PICK kc \in Nat : kc = k * c
      OBVIOUS
    <3>7. ASSUME \A d \in s : k <= f[d] PROVE k * Cardinality(s) <= SumOf(f, s)
      <4>1. kc <= x /\ k <= v
        BY <3>1, <3>2, <3>4, <3>6, <3>7
      <4>2. kc + k <= v + x
        BY <4>1
      <4> QED BY <3>1, <3>3, <3>4, <3>5, <3>6, <4>2
    <3>8. ASSUME \A d \in s : f[d] <= k PROVE SumOf(f, s) <= k * Cardinality(s)
      <4>1. x <= kc /\ v <= k
        BY <3>1, <3>2, <3>4, <3>6, <3>8
      <4>2. v + x <= kc + k
        BY <4>1
      <4> QED BY <3>1, <3>3, <3>4, <3>5, <3>6, <4>2
    <3> QED BY <3>7, <3>8
  <2> QED BY <2>1, <2>2
<1> HIDE DEF S
<1>2. D \in S
  BY <1>1, InductOnSubsets
<1> QED BY <1>2 DEF S

\* Equal terms add up to a product.
LEMMA SumOfConstant ==
  ASSUME NEW f, NEW D, IsFiniteSet(D), NEW k \in Nat, \A d \in D : f[d] = k
  PROVE  SumOf(f, D) = k * Cardinality(D)
<1>1. SumOf(f, D) <= k * Cardinality(D) /\ k * Cardinality(D) <= SumOf(f, D)
  BY SumBounds
<1>2. SumOf(f, D) \in Nat /\ Cardinality(D) \in Nat
  BY SumType, FS_CardinalityType
<1>3. k * Cardinality(D) \in Nat
  BY <1>2
<1> QED BY <1>1, <1>2, <1>3

-----------------------------------------------------------------------------
(* The ends of a set of numbers, and quotients.                              *)

\* Min and Max of a bounded set of numbers.
LEMMA EndsOf ==
  ASSUME NEW T \in SUBSET Nat, T # {}, NEW n \in Nat, \A t \in T : t <= n
  PROVE  /\ Min(T) \in T /\ Max(T) \in T
         /\ \A t \in T : Min(T) <= t /\ t <= Max(T)
<1>1. \E x \in T : \A y \in T : x <= y
  BY Least
<1>2. \E x \in T : \A y \in T : x >= y
  <2> DEFINE B == {b \in Nat : \A y \in T : y <= b}
  <2>1. n \in B
    OBVIOUS
  <2>2. PICK b \in B : \A c \in B : b <= c
    <3>1. B \subseteq Nat
      OBVIOUS
    <3> HIDE DEF B
    <3> QED BY <2>1, <3>1, Least
  <2>3. SUFFICES ASSUME b \notin T PROVE FALSE
    BY <2>2
  <2>4. \A y \in T : y <= b - 1
    BY <2>2, <2>3
  <2>5. PICK z \in T : TRUE
    OBVIOUS
  <2>6. b - 1 \in B
    BY <2>2, <2>4, <2>5
  <2> QED BY <2>2, <2>6
<1>3. Min(T) \in T /\ \A y \in T : Min(T) <= y
  BY <1>1 DEF Min
<1>4. Max(T) \in T /\ \A y \in T : Max(T) >= y
  BY <1>2 DEF Max
<1> QED BY <1>3, <1>4

\* A quotient is at least k when the dividend is at least k divisors.
LEMMA DivAtLeast ==
  ASSUME NEW a \in Nat, NEW b \in Nat, b > 0, NEW k \in Nat, a >= k * b
  PROVE  a \div b >= k
<1>1. PICK q \in Int, r \in Int : a = q * b + r /\ 0 <= r /\ r < b /\ q = a \div b
  OBVIOUS
<1>2. ASSUME q <= k - 1 PROVE FALSE
  <2>1. q * b <= (k - 1) * b
    BY <1>2
  <2>2. (k - 1) * b = k * b - b
    OBVIOUS
  <2>3. q * b \in Int /\ k * b \in Int /\ (k - 1) * b \in Int
    OBVIOUS
  <2>4. PICK x \in Int, y \in Int, z \in Int : x = q * b /\ y = k * b /\ z = (k - 1) * b
    BY <2>3
  <2> QED BY <1>1, <2>1, <2>2, <2>4
<1> QED BY <1>1, <1>2

\* A quotient is below k when the dividend is below k divisors.
LEMMA DivIsBelow ==
  ASSUME NEW a \in Nat, NEW b \in Nat, b > 0, NEW k \in Nat, a < k * b
  PROVE  a \div b < k
<1>1. PICK q \in Int, r \in Int : a = q * b + r /\ 0 <= r /\ r < b /\ q = a \div b
  OBVIOUS
<1>2. ASSUME q >= k PROVE FALSE
  <2>1. q * b >= k * b
    BY <1>2
  <2>2. PICK x \in Int, y \in Int : x = q * b /\ y = k * b
    OBVIOUS
  <2> QED BY <1>1, <2>1, <2>2
<1> QED BY <1>1, <1>2

-----------------------------------------------------------------------------
(* The invariant.                                                            *)

\* Samples and spans of time.
IsSample(p) == \E R \in SUBSET Series : p \in [R -> Nat]
Since(t) == {v \in Slots : t < v}
Span(t, u) == {v \in Slots : t < v /\ v <= u}
ClosedAt(k) == {d \in Days : \A t \in SlotsOfDay[d] : t < k}

\* Each series' part of all calls c in the samples of T.
Totals(c, T) == [s \in Series |-> SumOf(c[s], T)]

\* Types, and what has not happened yet: no sample from now on, no call and no
\* restart after now.
World ==
  /\ now \in 0..NDays * PerDay
  /\ count \in [Series -> Nat]
  /\ calls \in [Series -> [Slots -> Nat]]
  /\ snap = [t \in Slots |-> snap[t]]
  /\ \A t \in Slots : IsSample(snap[t]) /\ (t >= now => DOMAIN snap[t] = {})
  /\ restarts \in SUBSET Slots /\ \A t \in restarts : t <= now
  /\ \A s \in Series, t \in Slots : t > now => calls[s][t] = 0
  /\ SumOf(Totals(calls, Slots), Series) <= MaxCalls

\* A counter, against what it was at sample t and the calls since.
Follows(s, n, t, T) ==
  /\ n <= snap[t][s] + SumOf(calls[s], T)
  /\ restarts \cap T = {} => n >= snap[t][s] + SumOf(calls[s], T)

\* What a counter tells, beside what the last sample of its series told.
Tracks ==
  /\ \A s \in Series : count[s] <= SumOf(calls[s], Slots)
  /\ \A t \in Slots : \A s \in Series : t < now /\ s \in DOMAIN snap[t] =>
       snap[t][s] <= SumOf(calls[s], Slots) /\ Follows(s, count[s], t, Since(t))

\* The same of any two samples of a series.
Spans ==
  \A t, u \in Slots : \A s \in Series :
    t < u /\ u < now /\ s \in DOMAIN snap[t] /\ s \in DOMAIN snap[u] =>
      Follows(s, snap[u][s], t, Span(t, u))

\* The facts of the days D, from the samples p.
RowsIn(p, T)     == {t \in T : DOMAIN p[t] # {}}
FoldIn(p, t)     == SumOf(p[t], DOMAIN p[t])
DeltaIn(p, T)    == Clamped(FoldIn(p, Max(T)) - FoldIn(p, Min(T)))
RowsOf(p, s, d)  == {t \in SlotsOfDay[d] : s \in DOMAIN p[t]}
DeltaOf(p, s, T) == Clamped(p[Max(T)][s] - p[Min(T)][s])

DailyIn(p, D) ==
  [d \in {e \in D : RowsIn(p, SlotsOfDay[e]) # {}} |-> DeltaIn(p, RowsIn(p, SlotsOfDay[d]))]
HourlyIn(p, D) ==
  [k \in {j \in D \X Hours : RowsIn(p, SlotsOfHour[j]) # {}} |->
     DeltaIn(p, RowsIn(p, SlotsOfHour[k]))]
ScansIn(p, D) ==
  [k \in {j \in Series \X D : RowsOf(p, j[1], j[2]) # {}} |->
     DeltaOf(p, k[1], RowsOf(p, k[1], k[2]))]

\* The tables are made of the samples of the days that are built, and these are
\* the days that were closed at some moment.
Tables ==
  /\ \E k \in 0..now : built = ClosedAt(k)
  /\ daily = DailyIn(snap, built)
  /\ hourly = HourlyIn(snap, built)
  /\ scans = ScansIn(snap, built)

IInv == World /\ Tracks /\ Spans /\ Tables

-----------------------------------------------------------------------------
(* Slots, days and the ends of spans.                                        *)

\* The types of the bounds.
LEMMA Bounds ==
  /\ NDays \in Nat /\ NDays > 0 /\ HoursPerDay \in Nat /\ HoursPerDay > 0
  /\ PerHour \in Nat /\ PerHour > 0 /\ WindowDays \in Nat /\ WindowDays > 0
  /\ MaxCalls \in Nat /\ MaxRestarts \in Nat /\ MaxGaps \in Nat /\ MinObsDays \in Nat
  /\ IsFiniteSet(Series) /\ Series # {}
BY BoundsOK

\* Days and history are not empty.
LEMMA Lengths ==
  PerDay \in Nat /\ PerDay > 0 /\ NDays * PerDay \in Nat /\ NDays * PerDay > 0
<1>1. \A a, b \in Nat : a > 0 /\ b > 0 => a * b \in Nat /\ a * b > 0
  OBVIOUS
<1>2. PerDay \in Nat /\ PerDay > 0
  BY <1>1, Bounds DEF PerDay
<1> QED BY <1>1, <1>2, Bounds

\* Slots are finitely many numbers.
LEMMA SlotsType ==
  /\ Slots \subseteq Nat /\ \A t \in Slots : t < NDays * PerDay
  /\ IsFiniteSet(Slots)
  /\ \A T \in SUBSET Slots : IsFiniteSet(T)
<1>1. Slots = 0..NDays * PerDay - 1
  BY DEF Slots
<1>2. IsFiniteSet(Slots)
  BY <1>1, Lengths, FS_Interval
<1>3. \A T \in SUBSET Slots : IsFiniteSet(T)
  BY <1>2, FS_Subset
<1>4. Slots \subseteq Nat /\ \A t \in Slots : t < NDays * PerDay
  BY <1>1, Lengths
<1> QED BY <1>2, <1>3, <1>4

\* Slot r of block k is in block k, at place r.
LEMMA DivOfSum ==
  ASSUME NEW k \in Nat, NEW q \in Nat, q > 0, NEW r \in Nat, r < q
  PROVE  (k * q + r) \div q = k /\ (k * q + r) % q = r
OBVIOUS

\* Numbers of an earlier block are smaller.
LEMMA DivLess ==
  ASSUME NEW a \in Nat, NEW b \in Nat, NEW q \in Nat, q > 0, a \div q < b \div q
  PROVE  a < b
OBVIOUS

\* Slot r of block d is one of the slots of n blocks.
LEMMA SumIsIn ==
  ASSUME NEW n \in Nat, NEW d \in 0..n - 1, NEW q \in Nat, q > 0, NEW r \in 0..q - 1
  PROVE  d * q + r \in 0..n * q - 1
OBVIOUS

\* A day has a slot, and days follow each other.
LEMMA DaySlots ==
  /\ \A d \in Days : SlotsOfDay[d] \subseteq Slots /\ SlotsOfDay[d] # {}
  /\ \A d, e \in Days : \A t \in SlotsOfDay[d], u \in SlotsOfDay[e] : d < e => t < u
<1>1. \A d \in Days : SlotsOfDay[d] = {t \in Slots : t \div PerDay = d}
  BY DEF SlotsOfDay
<1>2. ASSUME NEW d \in Days PROVE SlotsOfDay[d] # {}
  <2>1. d \in Nat /\ d \in 0..NDays - 1
    BY Bounds DEF Days
  <2>2. d * PerDay + 0 \in 0..NDays * PerDay - 1
    BY <2>1, Bounds, Lengths, SumIsIn
  <2>3. (d * PerDay + 0) \div PerDay = d
    BY <2>1, Lengths, DivOfSum
  <2> QED BY <1>1, <2>2, <2>3 DEF Slots
<1>3. ASSUME NEW d \in Days, NEW e \in Days, NEW t \in SlotsOfDay[d], NEW u \in SlotsOfDay[e],
             d < e
      PROVE  t < u
  <2>1. t \in Nat /\ u \in Nat /\ t \div PerDay < u \div PerDay
    BY <1>1, <1>3, SlotsType
  <2> QED BY <2>1, Lengths, DivLess
<1> QED BY <1>1, <1>2, <1>3

\* The ends of a set of slots.
LEMMA Ends ==
  ASSUME NEW T \in SUBSET Slots, T # {}
  PROVE  /\ Min(T) \in T /\ Max(T) \in T
         /\ \A t \in T : Min(T) <= t /\ t <= Max(T)
<1>1. T \in SUBSET Nat
  BY SlotsType
<1>2. PICK n \in Nat : n = NDays * PerDay
  BY Lengths
<1>3. \A t \in T : t <= n
  BY <1>1, <1>2, SlotsType
<1> QED BY <1>1, <1>3, EndsOf

\* The days the archive has are those whose last sample has been taken.
LEMMA ClosedIs == ASSUME now \in Nat PROVE Closed = ClosedAt(now)
<1>1. ASSUME NEW d \in Days PROVE Max(SlotsOfDay[d]) < now <=> \A t \in SlotsOfDay[d] : t < now
  <2>1. /\ Max(SlotsOfDay[d]) \in SlotsOfDay[d]
        /\ \A t \in SlotsOfDay[d] : t <= Max(SlotsOfDay[d])
        /\ SlotsOfDay[d] \subseteq Nat
    BY DaySlots, Ends, SlotsType
  <2> QED BY <2>1
<1> QED BY <1>1 DEF Closed, ClosedAt

-----------------------------------------------------------------------------
(* Sums of calls.                                                           *)

\* Totals as sums.
LEMMA TotalIs == \A s, T : Total(s, T) = SumOf(calls[s], T)
BY DEF Total, SumOf, MapThenSumSet, MapThenFoldSet

\* The sum over the series of their sums over the samples.
LEMMA SumOfEach ==
  ASSUME NEW c, NEW T
  PROVE  MapThenSumSet(LAMBDA s : SumOf(c[s], T), Series) = SumOf(Totals(c, T), Series)
<1> DEFINE Each(h) == [x \in SUBSET Series |->
                         IF x = {} THEN 0 ELSE SumOf(c[Any(x)], T) + h[x \ {Any(x)}]]
<1>1. ASSUME NEW h PROVE Each(h) = Peeled(Totals(c, T), Series, h)
  <2>1. ASSUME NEW x \in SUBSET Series, x # {}
        PROVE  Totals(c, T)[Any(x)] = SumOf(c[Any(x)], T)
    <3>1. Any(x) \in x
      BY <2>1 DEF Any
    <3> QED BY <3>1 DEF Totals
  <2> QED BY <2>1 DEF Peeled
<1>2. (CHOOSE h : h = Each(h)) = Peel(Totals(c, T), Series)
  <2> HIDE DEF Each
  <2> QED BY <1>1, Zenon DEF Peel
<1>3. MapThenSumSet(LAMBDA s : SumOf(c[s], T), Series) = (CHOOSE h : h = Each(h))[Series]
  BY DEF MapThenSumSet, MapThenFoldSet, Any
<1> QED BY <1>2, <1>3, SumPeels

\* All calls as a sum over the series.
LEMMA AllCallsIs == \A T : AllCalls(T) = SumOf(Totals(calls, T), Series)
<1>1. \A T : AllCalls(T) = MapThenSumSet(LAMBDA s : SumOf(calls[s], T), Series)
  BY DEF AllCalls, Total, SumOf
<1> QED BY <1>1, SumOfEach

\* The folded counter as a function of the samples.
LEMMA FoldedIs == \A t : Folded(t) = FoldIn(snap, t)
BY DEF Folded, FoldIn, SumOf, MapThenSumSet, MapThenFoldSet

\* Calls of a series, and of all of them.
LEMMA CallsType ==
  ASSUME NEW c \in [Series -> [Slots -> Nat]], NEW T \in SUBSET Slots
  PROVE  /\ \A s \in Series : /\ SumOf(c[s], T) \in Nat
                              /\ SumOf(c[s], T) <= SumOf(c[s], Slots)
                              /\ \A U \in SUBSET T : SumOf(c[s], U) <= SumOf(c[s], T)
         /\ \A R \in SUBSET Series : SumOf(Totals(c, T), R) \in Nat
         /\ \A R \in SUBSET Series :
              SumOf(Totals(c, T), R) <= SumOf(Totals(c, T), Series)
         /\ \A s \in Series : SumOf(c[s], T) <= SumOf(Totals(c, T), Series)
<1>1. ASSUME NEW s \in Series
      PROVE  /\ SumOf(c[s], T) \in Nat
             /\ SumOf(c[s], T) <= SumOf(c[s], Slots)
             /\ \A U \in SUBSET T : SumOf(c[s], U) <= SumOf(c[s], T)
  <2>1. c[s] \in [Slots -> Nat]
    OBVIOUS
  <2>2. \A t \in Slots : c[s][t] \in Nat
    BY <2>1
  <2>3. IsFiniteSet(T) /\ IsFiniteSet(Slots) /\ \A t \in T : c[s][t] \in Nat
    BY <2>2, SlotsType
  <2>4. SumOf(c[s], T) \in Nat
    BY <2>3, SumType
  <2>5. SumOf(c[s], T) <= SumOf(c[s], Slots)
    BY <2>2, <2>3, SumOfPartIsLess
  <2>6. \A U \in SUBSET T : SumOf(c[s], U) <= SumOf(c[s], T)
    BY <2>3, SumOfPartIsLess
  <2> QED BY <2>4, <2>5, <2>6
<1> DEFINE f == Totals(c, T)
<1>2. \A s \in Series : f[s] = SumOf(c[s], T) /\ f[s] \in Nat
  BY <1>1 DEF Totals
<1> HIDE DEF f
<1>3. ASSUME NEW R \in SUBSET Series
      PROVE  SumOf(f, R) \in Nat /\ SumOf(f, R) <= SumOf(f, Series)
  <2>1. IsFiniteSet(R) /\ IsFiniteSet(Series) /\ \A s \in R : f[s] \in Nat
    BY <1>2, Bounds, FS_Subset
  <2>2. SumOf(f, R) \in Nat
    BY <2>1, SumType
  <2>3. SumOf(f, R) <= SumOf(f, Series)
    BY <1>2, <2>1, SumOfPartIsLess
  <2> QED BY <2>2, <2>3
<1>4. ASSUME NEW s \in Series PROVE SumOf(c[s], T) <= SumOf(f, Series)
  <2>1. SumOf(f, Series) = f[s] + SumOf(f, Series \ {s})
    BY <1>2, Bounds, SumWithout
  <2>2. SumOf(f, Series \ {s}) \in Nat
    BY <1>3
  <2> QED BY <1>2, <2>1, <2>2
<1> QED BY <1>1, <1>3, <1>4 DEF f

\* Spans that differ by slots without calls have the same calls.
LEMMA NoCalls ==
  ASSUME NEW c \in [Series -> [Slots -> Nat]], NEW s \in Series, NEW U \in SUBSET Slots,
         NEW T \in SUBSET U, \A t \in U \ T : c[s][t] = 0
  PROVE  SumOf(c[s], U) = SumOf(c[s], T)
<1>1. \A t \in Slots : c[s][t] \in Nat
  OBVIOUS
<1>2. /\ IsFiniteSet(T) /\ IsFiniteSet(U \ T) /\ T \cap (U \ T) = {} /\ T \cup (U \ T) = U
      /\ T \in SUBSET Slots
  BY SlotsType
<1>3. SumOf(c[s], T \cup (U \ T)) = SumOf(c[s], T) + SumOf(c[s], U \ T)
  BY <1>1, <1>2, SumOfTwo
<1>4. SumOf(c[s], U \ T) = 0
  BY <1>2, SumOfZeros
<1>5. SumOf(c[s], T) \in Nat
  BY <1>2, CallsType
<1>6. SumOf(c[s], U) = SumOf(c[s], T) + SumOf(c[s], U \ T)
  BY <1>2, <1>3
<1> QED BY <1>4, <1>5, <1>6

\* One more call.
LEMMA OneCall ==
  ASSUME NEW c, NEW x \in Series, NEW n \in Slots, NEW e,
         c \in [Series -> [Slots -> Nat]], e[x][n] = c[x][n] + 1,
         \A s \in Series, t \in Slots : s # x \/ t # n => e[s][t] = c[s][t]
  PROVE  /\ \A s \in Series, T \in SUBSET Slots :
              ~(s = x /\ n \in T) => SumOf(e[s], T) = SumOf(c[s], T)
         /\ \A T \in SUBSET Slots : n \in T => SumOf(e[x], T) = SumOf(c[x], T) + 1
         /\ SumOf(Totals(e, Slots), Series) = SumOf(Totals(c, Slots), Series) + 1
<1>1. \A s \in Series, t \in Slots : c[s][t] \in Nat
  OBVIOUS
<1>2. ASSUME NEW s \in Series, NEW T \in SUBSET Slots
      PROVE  SumOf(e[s], T) = IF s = x /\ n \in T THEN SumOf(c[s], T) + 1 ELSE SumOf(c[s], T)
  <2>0. IsFiniteSet(T) /\ \A t \in T : c[s][t] \in Nat
    BY <1>1, SlotsType
  <2>1. PICK f, g : f = c[s] /\ g = e[s]
    OBVIOUS
  <2>2. \A t \in T : f[t] \in Nat
    BY <2>0, <2>1
  <2>3. CASE s = x /\ n \in T
    <3>1. n \in T /\ (\A t \in T \ {n} : g[t] = f[t]) /\ g[n] = f[n] + 1
      BY <1>1, <2>1, <2>3
    <3>2. SumOf(g, T) = SumOf(f, T) + 1
      BY ONLY <2>0, <2>2, <3>1, SumCounts
    <3> QED BY <2>1, <2>3, <3>2
  <2>4. CASE ~(s = x /\ n \in T)
    <3>1. \A t \in T : g[t] = f[t]
      BY <1>1, <2>1, <2>4
    <3>2. SumOf(g, T) = SumOf(f, T)
      BY ONLY <3>1, SumCongruence
    <3> QED BY <2>1, <2>4, <3>2
  <2> QED BY <2>3, <2>4
<1>3. SumOf(Totals(e, Slots), Series) = SumOf(Totals(c, Slots), Series) + 1
  <2> DEFINE f == Totals(c, Slots)
             g == Totals(e, Slots)
  <2>1. \A s \in Series : f[s] = SumOf(c[s], Slots) /\ g[s] = SumOf(e[s], Slots)
    BY DEF Totals
  <2>2. \A s \in Series : f[s] \in Nat
    BY <2>1, CallsType
  <2>3. g[x] = f[x] + 1
    BY <1>2, <2>1
  <2>4. \A s \in Series \ {x} : g[s] = f[s]
    BY <1>2, <2>1
  <2> HIDE DEF f, g
  <2>5. SumOf(g, Series) = SumOf(f, Series) + 1
    BY <2>2, <2>3, <2>4, Bounds, SumCounts
  <2> QED BY <2>5 DEF f, g
<1> QED BY <1>1, <1>2, <1>3

-----------------------------------------------------------------------------
(* The invariant is inductive.                                              *)

\* What is a slot.
LEMMA SlotsAre == \A t \in Int : t \in Slots <=> 0 <= t /\ t < NDays * PerDay
BY Lengths DEF Slots

\* The invariant holds initially.
LEMMA InitIInv == ASSUME Init PROVE IInv
<1>1. now = 0 /\ \A t \in Slots : t \in Nat
  BY SlotsType DEF Init
<1>2. World
  <2>1. /\ now \in 0..NDays * PerDay
        /\ count \in [Series -> Nat]
        /\ calls \in [Series -> [Slots -> Nat]]
        /\ snap = [t \in Slots |-> snap[t]]
        /\ \A t \in Slots : snap[t] = Nothing
        /\ restarts = {}
        /\ \A s \in Series, t \in Slots : calls[s][t] = 0
    BY Lengths DEF Init
  <2>2. DOMAIN Nothing = {} /\ IsSample(Nothing)
    BY DEF Nothing, IsSample
  <2>3. \A s \in Series : SumOf(calls[s], Slots) = 0
    BY <2>1, SlotsType, SumOfZeros
  <2> DEFINE f == Totals(calls, Slots)
  <2>4. \A s \in Series : f[s] = 0
    BY <2>3 DEF Totals
  <2> HIDE DEF f
  <2>5. SumOf(f, Series) = 0
    BY <2>4, Bounds, SumOfZeros
  <2>6. SumOf(Totals(calls, Slots), Series) <= MaxCalls
    BY <2>5, Bounds DEF f
  <2> QED BY <2>1, <2>2, <2>6 DEF World
<1>3. Tracks
  <2>1. \A s \in Series : count[s] = 0 /\ SumOf(calls[s], Slots) \in Nat
    <3>1. calls \in [Series -> [Slots -> Nat]]
      BY <1>2 DEF World
    <3> QED BY <3>1, CallsType DEF Init
  <2> QED BY <1>1, <2>1 DEF Tracks
<1>4. Spans
  BY <1>1 DEF Spans
<1>5. Tables
  <2>1. built = {} /\ daily = Nothing /\ hourly = Nothing /\ scans = Nothing
    BY DEF Init
  <2>2. ClosedAt(0) = {}
    <3>1. ASSUME NEW d \in Days PROVE \E t \in SlotsOfDay[d] : ~(t < 0)
      <4>1. PICK t \in SlotsOfDay[d] : t \in Slots
        BY DaySlots
      <4> QED BY <4>1, SlotsType
    <3> QED BY <3>1 DEF ClosedAt
  <2>3. DailyIn(snap, {}) = Nothing /\ HourlyIn(snap, {}) = Nothing /\ ScansIn(snap, {}) = Nothing
    BY DEF DailyIn, HourlyIn, ScansIn, Nothing
  <2>4. \E k \in 0..now : built = ClosedAt(k)
    BY <1>1, <2>1, <2>2
  <2> QED BY <2>1, <2>3, <2>4 DEF Tables
<1> QED BY <1>2, <1>3, <1>4, <1>5 DEF IInv

\* Types of what World describes.
LEMMA WorldTypes ==
  ASSUME World
  PROVE  /\ now \in Nat /\ now <= NDays * PerDay
         /\ now < NDays * PerDay <=> now \in Slots
         /\ calls \in [Series -> [Slots -> Nat]]
         /\ \A s \in Series : count[s] \in Nat
         /\ \A t \in Slots : \A s \in DOMAIN snap[t] : s \in Series /\ snap[t][s] \in Nat
         /\ \A s \in Series, T \in SUBSET Slots : SumOf(calls[s], T) \in Nat
<1>1. now \in Nat /\ now <= NDays * PerDay
  BY Lengths DEF World
<1>2. calls \in [Series -> [Slots -> Nat]] /\ \A s \in Series : count[s] \in Nat
  BY DEF World
<1>3. \A t \in Slots : \A s \in DOMAIN snap[t] : s \in Series /\ snap[t][s] \in Nat
  BY DEF World, IsSample
<1>4. \A s \in Series, T \in SUBSET Slots : SumOf(calls[s], T) \in Nat
  BY <1>2, CallsType
<1>5. now < NDays * PerDay <=> now \in Slots
  BY <1>1, SlotsAre
<1> QED BY <1>1, <1>2, <1>3, <1>4, <1>5

\* Spans are sets of slots.
LEMMA SpansAre ==
  /\ \A t : Since(t) \in SUBSET Slots
  /\ \A t, u : Span(t, u) \in SUBSET Slots
BY DEF Since, Span

\* A call preserves the invariant.
LEMMA CallKeeps == ASSUME IInv, NEW x \in Series, Call(x) PROVE IInv'
<1>1. World /\ Tracks /\ Spans /\ Tables
  BY DEF IInv
<1>2. /\ now \in Slots /\ now \in Nat
      /\ calls \in [Series -> [Slots -> Nat]]
      /\ \A t \in Slots : t \in Nat
  BY <1>1, WorldTypes, SlotsType DEF Call
<1>3. PICK c, e : c = calls /\ e = calls'
  OBVIOUS
<1>4. c \in [Series -> [Slots -> Nat]] /\ e = [c EXCEPT ![x][now] = @ + 1]
  BY <1>2, <1>3 DEF Call
<1>5. /\ e \in [Series -> [Slots -> Nat]]
      /\ \A s \in Series, t \in Slots : s # x \/ t # now => e[s][t] = c[s][t]
      /\ \A s \in Series, T \in SUBSET Slots :
           SumOf(e[s], T) = IF s = x /\ now \in T THEN SumOf(c[s], T) + 1 ELSE SumOf(c[s], T)
      /\ SumOf(Totals(e, Slots), Series) = SumOf(Totals(c, Slots), Series) + 1
  <2>1. PICK n : n = now /\ n \in Slots
    BY <1>2
  <2>2. /\ c \in [Series -> [Slots -> Nat]] /\ e \in [Series -> [Slots -> Nat]]
        /\ x \in Series /\ n \in Slots /\ e[x][n] = c[x][n] + 1
        /\ \A s \in Series, t \in Slots : s # x \/ t # n => e[s][t] = c[s][t]
    BY <1>4, <2>1
  <2>3. /\ \A s \in Series, T \in SUBSET Slots :
              ~(s = x /\ n \in T) => SumOf(e[s], T) = SumOf(c[s], T)
        /\ \A T \in SUBSET Slots : n \in T => SumOf(e[x], T) = SumOf(c[x], T) + 1
        /\ SumOf(Totals(e, Slots), Series) = SumOf(Totals(c, Slots), Series) + 1
    BY ONLY <2>2, OneCall
  <2> QED BY <2>1, <2>2, <2>3
<1>6. /\ \A s \in Series : count'[s] = IF s = x THEN count[s] + 1 ELSE count[s]
      /\ count' \in [Series -> Nat]
      /\ now' = now /\ snap' = snap /\ restarts' = restarts
      /\ built' = built /\ daily' = daily /\ hourly' = hourly /\ scans' = scans
  BY <1>1 DEF World, Call, facts
<1>7. /\ \A s \in Series, T \in SUBSET Slots : SumOf(c[s], T) \in Nat
      /\ \A s \in Series : count[s] \in Nat
      /\ \A t \in Slots : \A s \in DOMAIN snap[t] : s \in Series /\ snap[t][s] \in Nat
  BY <1>1, <1>3, WorldTypes
<1>8. SumOf(Totals(c, Slots), Series) < MaxCalls
  <2>1. 0..now \in SUBSET Slots /\ \A t \in Slots \ (0..now) : t > now
    <3>1. now < NDays * PerDay /\ NDays * PerDay \in Nat
      BY <1>2, SlotsType, Lengths
    <3>2. \A t \in 0..now : t \in Int /\ 0 <= t /\ t < NDays * PerDay
      BY <1>2, <3>1
    <3>3. \A t \in Slots \ (0..now) : t > now
      BY <1>2
    <3> QED BY <3>2, <3>3, SlotsAre
  <2>2. ASSUME NEW s \in Series PROVE SumOf(c[s], Slots) = SumOf(c[s], 0..now)
    <3>1. \A t \in Slots \ (0..now) : c[s][t] = 0
      BY <1>1, <1>3, <2>1 DEF World
    <3>2. PICK T, U : T = 0..now /\ U = Slots
      OBVIOUS
    <3>3. U \in SUBSET Slots /\ T \in SUBSET U /\ \A t \in U \ T : c[s][t] = 0
      BY <2>1, <3>1, <3>2
    <3>4. SumOf(c[s], U) = SumOf(c[s], T)
      BY ONLY <1>4, <2>2, <3>3, NoCalls
    <3> QED BY <3>2, <3>4
  <2> DEFINE f == Totals(c, Slots)
             g == Totals(c, 0..now)
  <2>3. \A s \in Series : f[s] = g[s]
    BY <2>2 DEF Totals
  <2> HIDE DEF f, g
  <2>4. SumOf(f, Series) = SumOf(g, Series)
    BY <2>3, SumCongruence
  <2>5. AllCalls(0..now) = SumOf(g, Series)
    BY <1>3, AllCallsIs DEF g
  <2>6. AllCalls(0..now) < MaxCalls
    BY DEF Call
  <2> QED BY <2>4, <2>5, <2>6 DEF f
<1>9. World'
  <2>1. \A s \in Series, t \in Slots : t > now' => calls'[s][t] = 0
    BY <1>1, <1>2, <1>3, <1>5, <1>6 DEF World
  <2>2. SumOf(Totals(e, Slots), Series) <= MaxCalls
    <3>1. PICK n : n = SumOf(Totals(c, Slots), Series)
      OBVIOUS
    <3>2. n \in Nat
      BY <1>4, <3>1, CallsType
    <3>3. n + 1 <= MaxCalls
      BY <1>8, <3>1, <3>2, Bounds
    <3> QED BY <1>5, <3>1, <3>3
  <2>3. SumOf(Totals(calls', Slots), Series) <= MaxCalls
    BY <1>3, <2>2
  <2> QED BY <1>1, <1>3, <1>5, <1>6, <2>1, <2>3 DEF World
<1>10. Tracks'
  <2>1. ASSUME NEW s \in Series PROVE count'[s] <= SumOf(e[s], Slots)
    BY <1>1, <1>2, <1>3, <1>5, <1>6, <1>7 DEF Tracks
  <2>2. ASSUME NEW t \in Slots, NEW s \in Series, t < now, s \in DOMAIN snap[t]
        PROVE  /\ snap[t][s] <= SumOf(e[s], Slots)
               /\ count'[s] <= snap[t][s] + SumOf(e[s], Since(t))
               /\ restarts \cap Since(t) = {} =>
                    count'[s] >= snap[t][s] + SumOf(e[s], Since(t))
    <3>1. PICK T : T = Since(t)
      OBVIOUS
    <3>2. T \in SUBSET Slots /\ now \in T
      BY <1>2, <2>2, <3>1 DEF Since
    <3>3. /\ snap[t][s] <= SumOf(c[s], Slots)
          /\ count[s] <= snap[t][s] + SumOf(c[s], T)
          /\ restarts \cap T = {} => count[s] >= snap[t][s] + SumOf(c[s], T)
      BY <1>1, <1>3, <2>2, <3>1 DEF Tracks, Follows
    <3>4. /\ SumOf(e[s], T) = IF s = x THEN SumOf(c[s], T) + 1 ELSE SumOf(c[s], T)
          /\ SumOf(e[s], Slots) = IF s = x THEN SumOf(c[s], Slots) + 1 ELSE SumOf(c[s], Slots)
      BY <1>2, <1>5, <3>2
    <3>5. /\ SumOf(c[s], T) \in Nat /\ SumOf(c[s], Slots) \in Nat
          /\ count[s] \in Nat /\ snap[t][s] \in Nat
      BY <1>7, <2>2, <3>2
    <3> QED BY <1>6, <3>1, <3>3, <3>4, <3>5
  <2> QED BY <1>3, <1>6, <2>1, <2>2 DEF Tracks, Follows
<1>11. Spans'
  <2>1. ASSUME NEW t \in Slots, NEW u \in Slots, NEW s \in Series, u < now
        PROVE  SumOf(e[s], Span(t, u)) = SumOf(c[s], Span(t, u))
    BY <1>2, <1>5, <2>1 DEF Span
  <2> QED BY <1>1, <1>3, <1>6, <2>1 DEF Spans, Follows
<1>12. Tables'
  BY <1>1, <1>6 DEF Tables
<1> QED BY <1>9, <1>10, <1>11, <1>12 DEF IInv
\* A restart preserves the invariant: it lies in the span since every sample.
LEMMA RestartKeeps == ASSUME IInv, Restart PROVE IInv'
<1>1. World /\ Tracks /\ Spans /\ Tables
  BY DEF IInv
<1>2. /\ now \in Slots /\ restarts' = restarts \cup {now}
      /\ count' \in [Series -> Nat] /\ \A s \in Series : count'[s] = 0
      /\ now' = now /\ snap' = snap /\ calls' = calls
      /\ built' = built /\ daily' = daily /\ hourly' = hourly /\ scans' = scans
  BY DEF Restart, facts
<1>3. World'
  BY <1>1, <1>2, WorldTypes DEF World
<1>4. Tracks'
  <2>1. ASSUME NEW s \in Series PROVE count'[s] <= SumOf(calls[s], Slots)
    BY <1>1, <1>2, WorldTypes
  <2>2. ASSUME NEW t \in Slots, NEW s \in Series, t < now, s \in DOMAIN snap[t]
        PROVE  /\ snap[t][s] <= SumOf(calls[s], Slots)
               /\ count'[s] <= snap[t][s] + SumOf(calls[s], Since(t))
               /\ restarts' \cap Since(t) # {}
    <3>1. snap[t][s] <= SumOf(calls[s], Slots)
      BY <1>1, <2>2 DEF Tracks
    <3>2. snap[t][s] \in Nat /\ SumOf(calls[s], Since(t)) \in Nat
      BY <1>1, <2>2, WorldTypes, SpansAre
    <3>3. now \in Since(t)
      BY <1>2, <2>2 DEF Since
    <3>4. now \in restarts' \cap Since(t)
      BY <1>2, <3>3
    <3> QED BY <1>2, <2>2, <3>1, <3>2, <3>4
  <2> QED BY <1>2, <2>1, <2>2 DEF Tracks, Follows
<1>5. Spans'
  <2>1. ASSUME NEW t \in Slots, NEW u \in Slots, u < now
        PROVE  restarts' \cap Span(t, u) = restarts \cap Span(t, u)
    <3>1. now \notin Span(t, u)
      BY <1>2, <2>1, SlotsType DEF Span
    <3> QED BY <1>2, <3>1
  <2> QED BY <1>1, <1>2, <2>1 DEF Spans, Follows
<1>6. Tables'
  BY <1>1, <1>2 DEF Tables
<1> QED BY <1>3, <1>4, <1>5, <1>6 DEF IInv

\* The facts of some days only read the samples of these days.
LEMMA SameSamples ==
  ASSUME NEW p, NEW q, NEW D \in SUBSET Days, \A d \in D : \A t \in SlotsOfDay[d] : p[t] = q[t]
  PROVE  DailyIn(p, D) = DailyIn(q, D) /\ HourlyIn(p, D) = HourlyIn(q, D)
         /\ ScansIn(p, D) = ScansIn(q, D)
<1>1. ASSUME NEW d \in D, NEW T \in SUBSET SlotsOfDay[d]
      PROVE  RowsIn(p, T) = RowsIn(q, T)
             /\ (RowsIn(p, T) # {} => DeltaIn(p, RowsIn(p, T)) = DeltaIn(q, RowsIn(q, T)))
  <2>1. RowsIn(p, T) = RowsIn(q, T)
    BY DEF RowsIn
  <2> DEFINE V == RowsIn(q, T)
  <2>2. V \in SUBSET Slots /\ V \subseteq T
    BY DaySlots DEF RowsIn
  <2>3. ASSUME V # {} PROVE DeltaIn(p, V) = DeltaIn(q, V)
    <3>1. Min(V) \in T /\ Max(V) \in T
      <4> HIDE DEF V
      <4> QED BY <2>2, <2>3, Ends
    <3>2. p[Min(V)] = q[Min(V)] /\ p[Max(V)] = q[Max(V)]
      BY <3>1
    <3> QED BY <3>2 DEF DeltaIn, FoldIn
  <2> QED BY <2>1, <2>3
<1>2. ASSUME NEW d \in D, NEW s
      PROVE  RowsOf(p, s, d) = RowsOf(q, s, d)
             /\ (RowsOf(p, s, d) # {} =>
                   DeltaOf(p, s, RowsOf(p, s, d)) = DeltaOf(q, s, RowsOf(q, s, d)))
  <2>1. RowsOf(p, s, d) = RowsOf(q, s, d)
    BY DEF RowsOf
  <2> DEFINE V == RowsOf(q, s, d)
  <2>2. V \in SUBSET Slots /\ V \subseteq SlotsOfDay[d]
    BY DaySlots DEF RowsOf
  <2>3. ASSUME V # {} PROVE DeltaOf(p, s, V) = DeltaOf(q, s, V)
    <3>1. Min(V) \in SlotsOfDay[d] /\ Max(V) \in SlotsOfDay[d]
      <4> HIDE DEF V
      <4> QED BY <2>2, <2>3, Ends
    <3>2. p[Min(V)] = q[Min(V)] /\ p[Max(V)] = q[Max(V)]
      BY <3>1
    <3> QED BY <3>2 DEF DeltaOf
  <2> QED BY <2>1, <2>3
<1>3. DailyIn(p, D) = DailyIn(q, D)
  <2>1. \A d \in D : SlotsOfDay[d] \in SUBSET SlotsOfDay[d]
    OBVIOUS
  <2> QED BY <1>1, <2>1 DEF DailyIn
<1>4. HourlyIn(p, D) = HourlyIn(q, D)
  <2>1. ASSUME NEW k \in D \X Hours
        PROVE  k[1] \in D /\ SlotsOfHour[k] \in SUBSET SlotsOfDay[k[1]]
    BY DEF SlotsOfHour
  <2>2. ASSUME NEW k \in D \X Hours
        PROVE  RowsIn(p, SlotsOfHour[k]) = RowsIn(q, SlotsOfHour[k])
               /\ (RowsIn(p, SlotsOfHour[k]) # {} =>
                     DeltaIn(p, RowsIn(p, SlotsOfHour[k])) = DeltaIn(q, RowsIn(q, SlotsOfHour[k])))
    BY <1>1, <2>1
  <2> QED BY <2>2 DEF HourlyIn
<1>5. ScansIn(p, D) = ScansIn(q, D)
  <2>1. ASSUME NEW k \in Series \X D
        PROVE  RowsOf(p, k[1], k[2]) = RowsOf(q, k[1], k[2])
               /\ (RowsOf(p, k[1], k[2]) # {} =>
                     DeltaOf(p, k[1], RowsOf(p, k[1], k[2])) = DeltaOf(q, k[1], RowsOf(q, k[1], k[2])))
    BY <1>2
  <2> QED BY <2>1 DEF ScansIn
<1> QED BY <1>3, <1>4, <1>5

\* A sample preserves the invariant: it has the counters as they are.
LEMMA SampleKeeps == ASSUME IInv, Sample PROVE IInv'
<1>1. World /\ Tracks /\ Spans /\ Tables
  BY DEF IInv
<1>2. PICK R \in SUBSET Series : snap' = [snap EXCEPT ![now] = [s \in R |-> count[s]]]
  BY DEF Sample
<1>3. /\ now \in Slots /\ now \in Nat /\ now' = now + 1
      /\ \A t \in Slots : t \in Nat
      /\ restarts' = restarts /\ calls' = calls /\ count' = count
      /\ built' = built /\ daily' = daily /\ hourly' = hourly /\ scans' = scans
  BY SlotsType DEF Sample, facts
<1>4. /\ snap' = [t \in Slots |-> snap'[t]]
      /\ \A t \in Slots : t # now => snap'[t] = snap[t]
      /\ snap'[now] = [s \in R |-> count[s]]
  BY <1>1, <1>2, <1>3 DEF World
<1>5. /\ \A s \in Series, T \in SUBSET Slots : SumOf(calls[s], T) \in Nat
      /\ \A s \in Series : count[s] \in Nat
      /\ \A t \in Slots : \A s \in DOMAIN snap[t] : s \in Series /\ snap[t][s] \in Nat
      /\ calls \in [Series -> [Slots -> Nat]]
      /\ \A t \in restarts : t <= now
      /\ \A s \in Series, t \in Slots : t > now => calls[s][t] = 0
      /\ restarts \subseteq Slots
  BY <1>1, WorldTypes DEF World
<1>6. World'
  <2>1. now' \in 0..NDays * PerDay
    BY <1>1, <1>3, WorldTypes, Lengths
  <2>2. IsSample(snap'[now])
    BY <1>4, <1>5 DEF IsSample
  <2>3. \A t \in Slots : IsSample(snap'[t]) /\ (t >= now' => DOMAIN snap'[t] = {})
    BY <1>1, <1>3, <1>4, <2>2 DEF World
  <2>4. \A t \in restarts' : t <= now'
    BY <1>3, <1>5
  <2>5. \A s \in Series, t \in Slots : t > now' => calls'[s][t] = 0
    BY <1>3, <1>5
  <2> QED BY <1>1, <1>3, <1>4, <2>1, <2>3, <2>4, <2>5 DEF World
<1>7. Tracks'
  <2>1. ASSUME NEW t \in Slots, NEW s \in Series, t < now', s \in DOMAIN snap'[t]
        PROVE  /\ snap'[t][s] <= SumOf(calls[s], Slots)
               /\ count[s] <= snap'[t][s] + SumOf(calls[s], Since(t))
               /\ restarts \cap Since(t) = {} => count[s] >= snap'[t][s] + SumOf(calls[s], Since(t))
    <3>1. CASE t = now
      <4>1. snap'[t][s] = count[s]
        BY <1>4, <2>1, <3>1
      <4>2. Since(t) \in SUBSET Slots /\ \A v \in Since(t) : calls[s][v] = 0
        BY <1>3, <1>5, <3>1 DEF Since
      <4>3. SumOf(calls[s], Since(t)) = 0
        BY <4>2, SlotsType, SumOfZeros
      <4>4. count[s] <= SumOf(calls[s], Slots)
        BY <1>1 DEF Tracks
      <4> QED BY <1>5, <4>1, <4>3, <4>4
    <3>2. CASE t # now
      <4>1. t < now /\ snap'[t] = snap[t]
        BY <1>3, <1>4, <2>1, <3>2
      <4> QED BY <1>1, <2>1, <4>1 DEF Tracks, Follows
    <3> QED BY <3>1, <3>2
  <2>2. \A s \in Series : count[s] <= SumOf(calls[s], Slots)
    BY <1>1 DEF Tracks
  <2> QED BY <1>3, <2>1, <2>2 DEF Tracks, Follows
<1>8. Spans'
  <2>1. ASSUME NEW t \in Slots, NEW u \in Slots, NEW s \in Series, t < u, u < now',
               s \in DOMAIN snap'[t], s \in DOMAIN snap'[u]
        PROVE  /\ snap'[u][s] <= snap'[t][s] + SumOf(calls[s], Span(t, u))
               /\ restarts \cap Span(t, u) = {} =>
                    snap'[u][s] >= snap'[t][s] + SumOf(calls[s], Span(t, u))
    <3>1. t < now /\ snap'[t] = snap[t]
      BY <1>3, <1>4, <2>1
    <3>2. CASE u = now
      <4>1. snap'[u][s] = count[s]
        BY <1>4, <2>1, <3>2
      <4>2. PICK A, B : A = Since(t) /\ B = Span(t, u)
        OBVIOUS
      <4>3. /\ A \in SUBSET Slots /\ B \in SUBSET A /\ \A v \in A \ B : v \in Slots /\ v > now
        BY <1>3, <3>2, <4>2 DEF Since, Span
      <4>4. \A v \in A \ B : calls[s][v] = 0
        BY <1>5, <4>3
      <4>5. SumOf(calls[s], A) = SumOf(calls[s], B)
        <5>1. PICK c : c = calls
          OBVIOUS
        <5>2. c \in [Series -> [Slots -> Nat]] /\ \A v \in A \ B : c[s][v] = 0
          BY <1>5, <4>4, <5>1
        <5>3. SumOf(c[s], A) = SumOf(c[s], B)
          BY ONLY <2>1, <4>3, <5>2, NoCalls
        <5> QED BY <5>1, <5>3
      <4>6. restarts \cap A = restarts \cap B
        <5>1. \A v \in restarts : v \in Nat /\ v <= now
          BY <1>3, <1>5
        <5> QED BY <3>2, <4>2, <5>1 DEF Since, Span
      <4>7. /\ count[s] <= snap[t][s] + SumOf(calls[s], A)
            /\ restarts \cap A = {} => count[s] >= snap[t][s] + SumOf(calls[s], A)
        BY <1>1, <2>1, <3>1, <4>2 DEF Tracks, Follows
      <4> QED BY <3>1, <4>1, <4>2, <4>5, <4>6, <4>7
    <3>3. CASE u # now
      <4>1. u < now /\ snap'[u] = snap[u]
        BY <1>3, <1>4, <2>1, <3>3
      <4> QED BY <1>1, <2>1, <3>1, <4>1 DEF Spans, Follows
    <3> QED BY <3>2, <3>3
  <2> QED BY <1>3, <2>1 DEF Spans, Follows
<1>9. Tables'
  <2>1. PICK k \in 0..now : built = ClosedAt(k)
    BY <1>1 DEF Tables
  <2>2. k \in 0..now'
    BY <1>3, <2>1
  <2>3. built \in SUBSET Days /\ \A d \in built : \A t \in SlotsOfDay[d] : t \in Slots /\ t < k
    BY <2>1, DaySlots DEF ClosedAt
  <2>4. \A d \in built : \A t \in SlotsOfDay[d] : snap'[t] = snap[t]
    BY <1>3, <1>4, <2>1, <2>3
  <2>5. PICK p, q, D : p = snap' /\ q = snap /\ D = built
    OBVIOUS
  <2>6. DailyIn(p, D) = DailyIn(q, D) /\ HourlyIn(p, D) = HourlyIn(q, D)
        /\ ScansIn(p, D) = ScansIn(q, D)
    BY <2>3, <2>4, <2>5, SameSamples
  <2>7. /\ daily = DailyIn(q, D) /\ hourly = HourlyIn(q, D) /\ scans = ScansIn(q, D)
    BY <1>1, <2>5 DEF Tables
  <2>8. /\ daily' = DailyIn(p, D) /\ hourly' = HourlyIn(p, D) /\ scans' = ScansIn(p, D)
    BY <1>3, <2>6, <2>7
  <2> QED BY <1>3, <2>1, <2>2, <2>5, <2>8 DEF Tables
<1> QED BY <1>6, <1>7, <1>8, <1>9 DEF IInv
\* The watermark skips a day only if it was built before.
LEMMA Watermark ==
  ASSUME World, Tables, NEW D \in SUBSET built, NEW d \in Closed
  PROVE  d \in From(D) \/ d \in built
<1>1. PICK k \in 0..now : built = ClosedAt(k)
  BY DEF Tables
<1>2. SUFFICES ASSUME NEW e \in D, ~(d >= e) PROVE d \in built
  BY DEF From
<1>3. d \in Days /\ e \in Days /\ d \in Nat /\ e \in Nat /\ \A u \in SlotsOfDay[e] : u < k
  BY <1>1, Bounds DEF Closed, ClosedAt, Days
<1>4. PICK u \in SlotsOfDay[e] : u \in Nat
  BY <1>3, DaySlots, SlotsType
<1>5. \A t \in SlotsOfDay[d] : t \in Nat /\ t < u
  <2>1. d < e
    BY <1>2, <1>3
  <2>2. \A t \in SlotsOfDay[d] : t < u
    BY <1>3, <1>4, <2>1, DaySlots
  <2> QED BY <1>3, <2>2, DaySlots, SlotsType
<1>6. \A t \in SlotsOfDay[d] : t < k
  BY <1>1, <1>3, <1>4, <1>5, WorldTypes
<1> QED BY <1>1, <1>3, <1>6 DEF ClosedAt

\* A night's run preserves the invariant: afterwards the tables have every closed day.
LEMMA TransformKeeps == ASSUME IInv, Transform PROVE IInv'
<1>1. World /\ Tracks /\ Spans /\ Tables
  BY DEF IInv
<1>2. /\ now' = now /\ count' = count /\ snap' = snap /\ calls' = calls
      /\ restarts' = restarts /\ built' = Closed
      /\ daily' = Upserted(Daily, daily) /\ hourly' = Upserted(Hourly, hourly)
      /\ scans' = Upserted(Scans, scans)
  BY DEF Transform
<1>3. World' /\ Tracks' /\ Spans'
  BY <1>1, <1>2 DEF World, Tracks, Spans, Follows
<1>4. now \in Nat /\ Closed = ClosedAt(now) /\ now \in 0..now
  <2>1. now \in Nat
    BY <1>1, WorldTypes
  <2> QED BY <2>1, ClosedIs
<1>5. built \subseteq Closed
  <2>1. PICK k \in 0..now : built = ClosedAt(k)
    BY <1>1 DEF Tables
  <2>2. \A d \in Days : \A t \in SlotsOfDay[d] : t \in Nat
    BY DaySlots, SlotsType
  <2> QED BY <1>4, <2>1, <2>2 DEF ClosedAt
<1>6. /\ daily = DailyIn(snap, built) /\ hourly = HourlyIn(snap, built)
      /\ scans = ScansIn(snap, built)
  BY <1>1 DEF Tables
<1>7. /\ \A T : FoldedRows(T) = RowsIn(snap, T)
      /\ \A T : Delta(T) = DeltaIn(snap, T)
      /\ \A s, d : IndexRows(s, d) = RowsOf(snap, s, d)
      /\ \A s, T : IndexDelta(s, T) = DeltaOf(snap, s, T)
  BY FoldedIs DEF FoldedRows, RowsIn, Delta, DeltaIn, IndexRows, RowsOf, IndexDelta, DeltaOf
<1>8. Upserted(Daily, daily) = DailyIn(snap, Closed)
  <2> DEFINE Has(d) == RowsIn(snap, SlotsOfDay[d]) # {}
             new    == From(DOMAIN daily)
  <2>1. /\ DOMAIN Daily = {d \in new : Has(d)}
        /\ \A d \in DOMAIN Daily : Daily[d] = DeltaIn(snap, RowsIn(snap, SlotsOfDay[d]))
    BY <1>7 DEF Daily
  <2>2. /\ DOMAIN daily = {d \in built : Has(d)}
        /\ \A d \in DOMAIN daily : daily[d] = DeltaIn(snap, RowsIn(snap, SlotsOfDay[d]))
    BY <1>6 DEF DailyIn
  <2>3. \A d \in Closed : d \in new \/ d \in built
    BY <1>1, <2>2, Watermark
  <2>4. new \subseteq Closed
    BY DEF From
  <2>5. DOMAIN Daily \cup DOMAIN daily = {d \in Closed : Has(d)}
    <3> HIDE DEF Has, new
    <3> QED BY <1>5, <2>1, <2>2, <2>3, <2>4
  <2> QED BY <2>1, <2>2, <2>5 DEF Upserted, DailyIn
<1>9. Upserted(Hourly, hourly) = HourlyIn(snap, Closed)
  <2> DEFINE Has(k) == RowsIn(snap, SlotsOfHour[k]) # {}
             D   == {k[1] : k \in DOMAIN hourly}
             new == From(D)
  <2>1. /\ DOMAIN Hourly = {k \in new \X Hours : Has(k)}
        /\ \A k \in DOMAIN Hourly : Hourly[k] = DeltaIn(snap, RowsIn(snap, SlotsOfHour[k]))
    BY <1>7 DEF Hourly
  <2>2. /\ DOMAIN hourly = {k \in built \X Hours : Has(k)}
        /\ \A k \in DOMAIN hourly : hourly[k] = DeltaIn(snap, RowsIn(snap, SlotsOfHour[k]))
    BY <1>6 DEF HourlyIn
  <2>3. D \in SUBSET built
    BY <2>2
  <2>4. \A d \in Closed : d \in new \/ d \in built
    <3> HIDE DEF D
    <3> QED BY <1>1, <2>3, Watermark
  <2>5. new \subseteq Closed
    BY DEF From
  <2>6. DOMAIN Hourly \cup DOMAIN hourly = {k \in Closed \X Hours : Has(k)}
    <3> HIDE DEF Has, new
    <3> QED BY <1>5, <2>1, <2>2, <2>4, <2>5
  <2> QED BY <2>1, <2>2, <2>6 DEF Upserted, HourlyIn
<1>10. Upserted(Scans, scans) = ScansIn(snap, Closed)
  <2> DEFINE Has(k) == RowsOf(snap, k[1], k[2]) # {}
             D   == {k[2] : k \in DOMAIN scans}
             new == From(D)
  <2>1. /\ DOMAIN Scans = {k \in Series \X new : Has(k)}
        /\ \A k \in DOMAIN Scans : Scans[k] = DeltaOf(snap, k[1], RowsOf(snap, k[1], k[2]))
    BY <1>7 DEF Scans
  <2>2. /\ DOMAIN scans = {k \in Series \X built : Has(k)}
        /\ \A k \in DOMAIN scans : scans[k] = DeltaOf(snap, k[1], RowsOf(snap, k[1], k[2]))
    BY <1>6 DEF ScansIn
  <2>3. D \in SUBSET built
    BY <2>2
  <2>4. \A d \in Closed : d \in new \/ d \in built
    <3> HIDE DEF D
    <3> QED BY <1>1, <2>3, Watermark
  <2>5. new \subseteq Closed
    BY DEF From
  <2>6. DOMAIN Scans \cup DOMAIN scans = {k \in Series \X Closed : Has(k)}
    <3> HIDE DEF Has, new
    <3> QED BY <1>5, <2>1, <2>2, <2>4, <2>5
  <2> QED BY <2>1, <2>2, <2>6 DEF Upserted, ScansIn
<1>11. Tables'
  BY <1>2, <1>4, <1>8, <1>9, <1>10 DEF Tables
<1> QED BY <1>3, <1>11 DEF IInv

\* The invariant is inductive.
LEMMA Inductive == IInv /\ [Next]_vars => IInv'
<1> SUFFICES ASSUME IInv, [Next]_vars PROVE IInv'
  OBVIOUS
<1>1. CASE Restart
  BY <1>1, RestartKeeps
<1>2. CASE Sample
  BY <1>2, SampleKeeps
<1>3. CASE Transform
  BY <1>3, TransformKeeps
<1>4. CASE \E s \in Series : Call(s)
  BY <1>4, CallKeeps
<1>5. CASE UNCHANGED vars
  BY <1>5 DEF IInv, World, Tracks, Spans, Follows, Tables, vars, facts
<1> QED BY <1>1, <1>2, <1>3, <1>4, <1>5 DEF Next

-----------------------------------------------------------------------------
(* What the invariant says of the tables.                                    *)

\* The samples of a day that is built have been taken.
LEMMA BuiltSlots ==
  ASSUME World, Tables, NEW d \in built
  PROVE  /\ d \in Days /\ SlotsOfDay[d] \in SUBSET Slots /\ SlotsOfDay[d] # {}
         /\ \A t \in SlotsOfDay[d] : t \in Slots /\ t \in Nat /\ t < now
<1>1. PICK k \in 0..now : built = ClosedAt(k)
  BY DEF Tables
<1>2. d \in Days /\ \A t \in SlotsOfDay[d] : t < k
  BY <1>1 DEF ClosedAt
<1>3. now \in Nat
  BY WorldTypes
<1>4. \A t \in SlotsOfDay[d] : t \in Slots /\ t \in Nat
  BY <1>2, DaySlots, SlotsType
<1> QED BY <1>1, <1>2, <1>3, <1>4, DaySlots

\* The counters of a sample, and their sum, are in range.
LEMMA SampleRange ==
  ASSUME World, Tracks, NEW t \in Slots
  PROVE  /\ IsTable(snap[t], Series)
         /\ FoldIn(snap, t) \in 0..MaxCalls
<1> DEFINE R == DOMAIN snap[t]
           p == snap[t]
           f == Totals(calls, Slots)
<1>1. R \in SUBSET Series /\ IsFiniteSet(R)
  BY WorldTypes, Bounds, FS_Subset
<1>2. PICK c : c = calls
  OBVIOUS
<1>3. c \in [Series -> [Slots -> Nat]] /\ SumOf(Totals(c, Slots), Series) <= MaxCalls
  BY <1>2 DEF World
<1>4. /\ \A s \in Series : SumOf(c[s], Slots) \in Nat /\ SumOf(c[s], Slots) <= SumOf(Totals(c, Slots), Series)
      /\ SumOf(Totals(c, Slots), R) \in Nat
      /\ SumOf(Totals(c, Slots), R) <= SumOf(Totals(c, Slots), Series)
      /\ SumOf(Totals(c, Slots), Series) \in Nat
  BY <1>1, <1>3, CallsType, SlotsType
<1>5. t >= now => R = {}
  BY DEF World
<1>6. \A s \in R : p[s] \in Nat /\ p[s] <= SumOf(c[s], Slots)
  <2>1. ASSUME NEW s \in R PROVE p[s] <= SumOf(c[s], Slots)
    <3>1. t < now
      BY <1>5, SlotsType, WorldTypes
    <3> QED BY <1>1, <1>2, <3>1 DEF Tracks
  <2> QED BY <2>1, WorldTypes
<1>7. \A s \in R : p[s] \in Nat /\ f[s] \in Nat /\ p[s] <= f[s]
  BY <1>1, <1>2, <1>4, <1>6 DEF Totals
<1>8. SumOf(p, R) \in Nat /\ SumOf(p, R) <= SumOf(f, R)
  <2> HIDE DEF p, f, R
  <2> QED BY <1>1, <1>7, SumIsMonotonic, SumType
<1>9. FoldIn(snap, t) \in 0..MaxCalls
  <2>1. SumOf(f, R) \in Nat /\ SumOf(f, R) <= MaxCalls
    BY <1>2, <1>3, <1>4, Bounds
  <2> QED BY <1>8, <2>1, Bounds DEF FoldIn
<1>10. \A s \in R : p[s] \in 0..MaxCalls
  BY <1>1, <1>3, <1>4, <1>6, Bounds
<1> QED BY <1>1, <1>9, <1>10 DEF IsTable

\* The clamped difference.
LEMMA ClampedIs ==
  ASSUME NEW a \in Nat, NEW b \in Nat
  PROVE  /\ Clamped(a - b) \in Nat /\ Clamped(a - b) <= a
         /\ a >= b => Clamped(a - b) = a - b
         /\ a <= b => Clamped(a - b) = 0
BY DEF Clamped

\* The invariant implies type correctness.
LEMMA TypeHolds == IInv => TypeOK
<1> SUFFICES ASSUME IInv PROVE TypeOK
  OBVIOUS
<1>1. World /\ Tracks /\ Tables
  BY DEF IInv
<1>2. now \in 0..NDays * PerDay /\ restarts \subseteq Slots /\ built \subseteq Days
  BY <1>1, BuiltSlots DEF World
<1>3. count \in [Series -> 0..MaxCalls] /\ calls \in [Series -> [Slots -> 0..MaxCalls]]
  <2>1. PICK c : c = calls
    OBVIOUS
  <2>2. c \in [Series -> [Slots -> Nat]] /\ SumOf(Totals(c, Slots), Series) <= MaxCalls
    BY <1>1, <2>1 DEF World
  <2>3. \A s \in Series : SumOf(c[s], Slots) \in Nat /\ SumOf(c[s], Slots) <= MaxCalls
    <3>1. /\ SumOf(Totals(c, Slots), Series) \in Nat
          /\ \A s \in Series : SumOf(c[s], Slots) \in Nat /\ SumOf(c[s], Slots) <= SumOf(Totals(c, Slots), Series)
      BY <2>2, CallsType, SlotsType
    <3> QED BY <2>2, <3>1, Bounds
  <2>4. \A s \in Series : count[s] \in Nat /\ count[s] <= SumOf(c[s], Slots)
    BY <1>1, <2>1, WorldTypes DEF Tracks
  <2>5. \A s \in Series : count[s] \in 0..MaxCalls
    BY <2>3, <2>4, Bounds
  <2>6. ASSUME NEW s \in Series, NEW t \in Slots PROVE c[s][t] \in 0..MaxCalls
    <3>1. PICK f : f = c[s]
      OBVIOUS
    <3>2. \A u \in Slots : f[u] \in Nat
      BY <2>2, <3>1
    <3>3. SumOf(f, Slots) = f[t] + SumOf(f, Slots \ {t})
      <4>1. IsFiniteSet(Slots)
        BY SlotsType
      <4> QED BY ONLY <3>2, <4>1, t \in Slots, SumWithout
    <3>4. SumOf(f, Slots \ {t}) \in Nat
      BY <3>2, SlotsType, SumType
    <3> QED BY <2>3, <3>1, <3>2, <3>3, <3>4, Bounds
  <2>7. count = [s \in Series |-> count[s]] /\ c = [s \in Series |-> [t \in Slots |-> c[s][t]]]
    BY <1>1, <2>2 DEF World
  <2> QED BY <2>1, <2>5, <2>6, <2>7
<1>4. \A t \in Slots : IsTable(snap[t], Series) /\ FoldIn(snap, t) \in 0..MaxCalls
  BY <1>1, SampleRange
<1>5. ASSUME NEW T \in SUBSET Slots, T # {} PROVE DeltaIn(snap, T) \in 0..MaxCalls
  <2>1. FoldIn(snap, Max(T)) \in 0..MaxCalls /\ FoldIn(snap, Min(T)) \in 0..MaxCalls
    BY <1>4, <1>5, Ends
  <2> QED BY <2>1, Bounds, ClampedIs DEF DeltaIn
<1>6. IsTable(daily, Days)
  <2>1. daily = DailyIn(snap, built)
    BY <1>1 DEF Tables
  <2>2. DOMAIN daily \subseteq Days
    BY <1>2, <2>1 DEF DailyIn
  <2>3. ASSUME NEW d \in DOMAIN daily PROVE daily[d] \in 0..MaxCalls
    <3> DEFINE T == RowsIn(snap, SlotsOfDay[d])
    <3>1. T # {} /\ daily[d] = DeltaIn(snap, T)
      BY <2>1, <2>3 DEF DailyIn
    <3>2. T \in SUBSET Slots
      BY <2>2, <2>3, DaySlots DEF RowsIn
    <3> HIDE DEF T
    <3> QED BY <1>5, <3>1, <3>2
  <2> QED BY <2>2, <2>3 DEF IsTable
<1>7. IsTable(hourly, Days \X Hours)
  <2>1. hourly = HourlyIn(snap, built)
    BY <1>1 DEF Tables
  <2>2. DOMAIN hourly \subseteq Days \X Hours
    BY <1>2, <2>1 DEF HourlyIn
  <2>3. ASSUME NEW k \in DOMAIN hourly PROVE hourly[k] \in 0..MaxCalls
    <3> DEFINE T == RowsIn(snap, SlotsOfHour[k])
    <3>1. T # {} /\ hourly[k] = DeltaIn(snap, T)
      BY <2>1, <2>3 DEF HourlyIn
    <3>2. k \in Days \X Hours /\ k[1] \in Days
      BY <2>2, <2>3
    <3>3. T \in SUBSET Slots
      BY <3>2, DaySlots DEF RowsIn, SlotsOfHour
    <3> HIDE DEF T
    <3> QED BY <1>5, <3>1, <3>3
  <2> QED BY <2>2, <2>3 DEF IsTable
<1>8. IsTable(scans, Series \X Days)
  <2>1. scans = ScansIn(snap, built)
    BY <1>1 DEF Tables
  <2>2. DOMAIN scans \subseteq Series \X Days
    BY <1>2, <2>1 DEF ScansIn
  <2>3. ASSUME NEW k \in DOMAIN scans PROVE scans[k] \in 0..MaxCalls
    <3> DEFINE T == RowsOf(snap, k[1], k[2])
    <3>1. T # {} /\ scans[k] = DeltaOf(snap, k[1], T)
      BY <2>1, <2>3 DEF ScansIn
    <3>2. k \in Series \X Days /\ k[2] \in Days
      BY <2>2, <2>3
    <3>3. T \in SUBSET Slots /\ \A t \in T : t \in Slots /\ k[1] \in DOMAIN snap[t]
      BY <3>2, DaySlots DEF RowsOf
    <3> HIDE DEF T
    <3>4. Min(T) \in T /\ Max(T) \in T
      BY <3>1, <3>3, Ends
    <3>5. snap[Min(T)][k[1]] \in 0..MaxCalls /\ snap[Max(T)][k[1]] \in 0..MaxCalls
      BY <1>4, <3>3, <3>4 DEF IsTable
    <3> QED BY <3>1, <3>5, Bounds, ClampedIs DEF DeltaOf
  <2> QED BY <2>2, <2>3 DEF IsTable
<1> QED BY <1>2, <1>3, <1>4, <1>6, <1>7, <1>8 DEF TypeOK

\* A day's delta, against the calls between its ends.
LEMMA DaysHold == IInv => DayNeverOvercounts
<1> SUFFICES ASSUME IInv, NEW d \in DOMAIN daily,
                    DOMAIN snap[Min(FoldedRows(SlotsOfDay[d]))] = DOMAIN snap[Max(FoldedRows(SlotsOfDay[d]))]
             PROVE  daily[d] <= AllCalls(Between(FoldedRows(SlotsOfDay[d])))
  BY DEF DayNeverOvercounts
<1> DEFINE T == FoldedRows(SlotsOfDay[d])
           R == DOMAIN snap[Max(T)]
<1>1. World /\ Tracks /\ Spans /\ Tables
  BY DEF IInv
<1>2. d \in built /\ T # {} /\ daily[d] = DeltaIn(snap, T)
  BY <1>1 DEF Tables, DailyIn, RowsIn, FoldedRows
<1>3. T \in SUBSET Slots /\ \A t \in T : t \in Nat /\ t < now
  BY <1>1, <1>2, BuiltSlots DEF FoldedRows
<1>4. DOMAIN snap[Min(T)] = R
  OBVIOUS
<1> HIDE DEF T
<1>5. PICK t, u : t = Min(T) /\ u = Max(T)
  OBVIOUS
<1>6. t \in T /\ u \in T /\ t <= u /\ t \in Slots /\ u \in Slots /\ t \in Nat /\ u \in Nat /\ u < now
  BY <1>2, <1>3, <1>5, Ends
<1>7. Between(T) = Span(t, u)
  BY <1>5 DEF Between, Span
<1>8. PICK c, V, a, b : c = calls /\ V = Span(t, u) /\ a = snap[t] /\ b = snap[u]
  OBVIOUS
<1>9. PICK g : g = Totals(c, V)
  OBVIOUS
<1>10. /\ c \in [Series -> [Slots -> Nat]] /\ V \in SUBSET Slots
       /\ R \in SUBSET Series /\ IsFiniteSet(R)
       /\ \A s \in R : a[s] \in Nat /\ b[s] \in Nat
  BY <1>1, <1>4, <1>5, <1>6, <1>8, WorldTypes, SpansAre, Bounds, FS_Subset
<1>11. AllCalls(Between(T)) = SumOf(g, Series)
  BY <1>7, <1>8, <1>9, AllCallsIs
<1>12. /\ \A s \in R : g[s] = SumOf(c[s], V) /\ g[s] \in Nat
       /\ SumOf(g, R) \in Nat /\ SumOf(g, Series) \in Nat /\ SumOf(g, R) <= SumOf(g, Series)
  <2>1. /\ \A s \in Series : SumOf(c[s], V) \in Nat
        /\ SumOf(Totals(c, V), R) \in Nat /\ SumOf(Totals(c, V), Series) \in Nat
        /\ SumOf(Totals(c, V), R) <= SumOf(Totals(c, V), Series)
    BY <1>10, CallsType
  <2> QED BY <1>9, <1>10, <2>1 DEF Totals
<1>13. daily[d] = Clamped(SumOf(b, R) - SumOf(a, R))
  BY <1>2, <1>4, <1>5, <1>8 DEF DeltaIn, FoldIn
<1>14. SumOf(a, R) \in Nat /\ SumOf(b, R) \in Nat
  BY <1>10, SumType
<1>15. CASE t = u
  <2>1. a = b
    BY <1>8, <1>15
  <2>2. daily[d] = 0
    BY <1>13, <1>14, <2>1, ClampedIs
  <2> QED BY <1>11, <1>12, <2>2 DEF T
<1>16. CASE t < u
  <2>1. \A s \in R : b[s] <= a[s] + g[s]
    BY <1>1, <1>4, <1>5, <1>6, <1>8, <1>10, <1>12, <1>16 DEF Spans, Follows
  <2> DEFINE h == [s \in R |-> a[s] + g[s]]
  <2>2. \A s \in R : h[s] = a[s] + g[s] /\ h[s] \in Nat
    BY <1>10, <1>12
  <2> HIDE DEF h
  <2>3. SumOf(h, R) = SumOf(a, R) + SumOf(g, R)
    BY <1>10, <1>12, <2>2, SumOfSums
  <2>4. SumOf(b, R) <= SumOf(h, R)
    BY <1>10, <2>1, <2>2, SumIsMonotonic
  <2>5. PICK x, y, z, w \in Nat : x = SumOf(a, R) /\ y = SumOf(b, R) /\ z = SumOf(g, R)
                                  /\ w = SumOf(g, Series)
    BY <1>12, <1>14
  <2>6. y <= x + z /\ z <= w
    BY <1>12, <2>3, <2>4, <2>5
  <2>7. Clamped(y - x) <= w
    BY <2>5, <2>6 DEF Clamped
  <2> QED BY <1>11, <1>13, <2>5, <2>7 DEF T
<1> QED BY <1>6, <1>15, <1>16

\* The samples between which a day's scans of an index are counted.
LEMMA IndexSpans ==
  ASSUME IInv, NEW s \in Series, NEW d, <<s, d>> \in DOMAIN scans
  PROVE  /\ d \in built
         /\ \E n \in Nat : /\ n = Total(s, Between(IndexRows(s, d)))
                           /\ scans[<<s, d>>] \in Nat /\ scans[<<s, d>>] <= n
                           /\ restarts \cap Between(IndexRows(s, d)) = {} => scans[<<s, d>>] = n
<1> DEFINE T == IndexRows(s, d)
<1>1. World /\ Tracks /\ Spans /\ Tables
  BY DEF IInv
<1>2. d \in built /\ T # {} /\ scans[<<s, d>>] = DeltaOf(snap, s, T)
  BY <1>1 DEF Tables, ScansIn, RowsOf, IndexRows
<1>3. T \in SUBSET Slots /\ \A t \in T : t \in Nat /\ t < now /\ s \in DOMAIN snap[t]
  BY <1>1, <1>2, BuiltSlots DEF IndexRows
<1> HIDE DEF T
<1>4. PICK t, u : t = Min(T) /\ u = Max(T)
  OBVIOUS
<1>5. /\ t \in T /\ u \in T /\ t <= u /\ t \in Slots /\ u \in Slots /\ t \in Nat /\ u \in Nat
      /\ u < now /\ s \in DOMAIN snap[t] /\ s \in DOMAIN snap[u]
  BY <1>2, <1>3, <1>4, Ends
<1>6. Between(T) = Span(t, u)
  BY <1>4 DEF Between, Span
<1>7. PICK n : n = SumOf(calls[s], Span(t, u))
  OBVIOUS
<1>8. n \in Nat /\ n = Total(s, Between(T))
  BY <1>1, <1>6, <1>7, TotalIs, WorldTypes, SpansAre
<1>9. PICK a, b \in Nat : a = snap[t][s] /\ b = snap[u][s]
  BY <1>1, <1>5, WorldTypes
<1>10. scans[<<s, d>>] = Clamped(b - a)
  BY <1>2, <1>4, <1>9 DEF DeltaOf
<1>11. CASE t = u
  <2>1. Span(t, u) = {}
    <3>1. ASSUME NEW v \in Slots, t < v, v <= u PROVE FALSE
      <4>1. v \in Nat /\ t \in Nat /\ u \in Nat
        BY <1>5, SlotsType
      <4> QED BY <1>11, <3>1, <4>1
    <3> QED BY <3>1 DEF Span
  <2>2. n = 0
    BY <1>7, <2>1, SumEmpty
  <2>3. Clamped(b - a) = 0
    BY <1>9, <1>11, ClampedIs
  <2> QED BY <1>2, <1>8, <1>10, <2>2, <2>3 DEF T
<1>12. CASE t < u
  <2>1. b <= a + n /\ (restarts \cap Span(t, u) = {} => b >= a + n)
    BY <1>1, <1>5, <1>7, <1>9, <1>12 DEF Spans, Follows
  <2>2. Clamped(b - a) \in Nat /\ Clamped(b - a) <= n
        /\ (restarts \cap Span(t, u) = {} => Clamped(b - a) = n)
    BY <1>8, <1>9, <2>1 DEF Clamped
  <2> QED BY <1>2, <1>6, <1>8, <1>10, <2>2 DEF T
<1> QED BY <1>5, <1>11, <1>12

\* The invariant justifies the verdicts on indexes.
LEMMA VerdictsHold == IInv => IndexVerdictIsJustified
<1> SUFFICES ASSUME IInv, NEW s \in Series
             PROVE  /\ Verdict(s) = "in_use" =>
                         \E d \in built : d > AsOf - WindowDays
                                          /\ Total(s, Between(IndexRows(s, d))) > 0
                    /\ Verdict(s) = "candidate_unused" =>
                         \A d \in InWindow(s) : Total(s, Between(IndexRows(s, d))) > 0 =>
                           restarts \cap Between(IndexRows(s, d)) # {}
  BY DEF IndexVerdictIsJustified
<1>1. \A d \in InWindow(s) : <<s, d>> \in DOMAIN scans /\ d > AsOf - WindowDays
  <2>1. IInv => scans = ScansIn(snap, built)
    BY DEF IInv, Tables
  <2>2. \A k \in DOMAIN scans : k = <<k[1], k[2]>>
    BY <2>1 DEF ScansIn
  <2> QED BY <2>2 DEF InWindow, IndexDays
<1>2. PICK D : D = InWindow(s)
  OBVIOUS
<1>3. D # {} => Max(D) \in Nat /\ Min(D) \in Nat
  <2>1. \A d \in D : d \in Days
    BY <1>1, <1>2, IndexSpans, BuiltSlots DEF IInv
  <2>2. Days \subseteq Nat /\ \A d \in Days : d <= NDays
    BY Bounds DEF Days
  <2>3. D \in SUBSET Nat /\ \A d \in D : d <= NDays
    BY <2>1, <2>2
  <2> QED BY <2>3, Bounds, EndsOf
<1>4. ASSUME Verdict(s) = "in_use"
      PROVE  \E d \in built : d > AsOf - WindowDays
                              /\ Total(s, Between(IndexRows(s, d))) > 0
  <2>1. \E d \in D : scans[<<s, d>>] > 0
    <3>1. SUFFICES ASSUME ~(\E d \in D : scans[<<s, d>>] > 0) PROVE FALSE
      OBVIOUS
    <3>2. PICK x : x = Max(D) - Min(D)
      OBVIOUS
    <3>3. D # {} => x < MinObsDays \/ x >= MinObsDays
      BY <1>3, <3>2, Bounds
    <3>4. \/ Verdict(s) = "no_row" \/ Verdict(s) = "constraint_backed"
          \/ Verdict(s) = "insufficient_observation" \/ Verdict(s) = "candidate_unused"
      BY <1>2, <3>1, <3>2, <3>3 DEF Verdict
    <3> QED BY <1>4, <3>4
  <2>2. PICK d \in D : scans[<<s, d>>] > 0
    BY <2>1
  <2>3. <<s, d>> \in DOMAIN scans /\ d > AsOf - WindowDays
    BY <1>1, <1>2
  <2>4. d \in built /\ Total(s, Between(IndexRows(s, d))) > 0
    BY <2>2, <2>3, IndexSpans
  <2> QED BY <2>3, <2>4
<1>5. ASSUME Verdict(s) = "candidate_unused", NEW d \in D,
             Total(s, Between(IndexRows(s, d))) > 0
      PROVE  restarts \cap Between(IndexRows(s, d)) # {}
  <2>1. ~(\E e \in D : scans[<<s, e>>] > 0)
    BY <1>2, <1>5 DEF Verdict
  <2>2. <<s, d>> \in DOMAIN scans
    BY <1>1, <1>2
  <2>3. ~(scans[<<s, d>>] > 0)
    BY <2>1
  <2> QED BY <1>5, <2>2, <2>3, IndexSpans
<1> QED BY <1>2, <1>4, <1>5

-----------------------------------------------------------------------------
(* The hours of a day.                                                       *)

\* Of two numbers of a block the one at the lower place is smaller.
LEMMA ModLess ==
  ASSUME NEW a \in Nat, NEW b \in Nat, NEW q \in Nat, q > 0, a \div q = b \div q, a % q < b % q
  PROVE  a < b
OBVIOUS

\* An hour has a slot of its day, and hours follow each other.
LEMMA HourSlots ==
  ASSUME NEW d \in Days
  PROVE  /\ \A h \in Hours : SlotsOfHour[<<d, h>>] \subseteq SlotsOfDay[d]
                             /\ SlotsOfHour[<<d, h>>] # {}
         /\ \A h, g \in Hours : \A t \in SlotsOfHour[<<d, h>>], u \in SlotsOfHour[<<d, g>>] :
              h < g => t < u
<1>1. SlotsOfDay[d] = {t \in Slots : t \div PerDay = d}
  BY DEF SlotsOfDay
<1>2. \A h \in Hours : SlotsOfHour[<<d, h>>] = {t \in SlotsOfDay[d] : (t % PerDay) \div PerHour = h}
  BY DEF SlotsOfHour
<1>3. d \in Nat /\ d \in 0..NDays - 1
  BY Bounds DEF Days
<1>4. ASSUME NEW h \in Hours PROVE SlotsOfHour[<<d, h>>] # {}
  <2>1. h \in Nat /\ h \in 0..HoursPerDay - 1
    BY Bounds DEF Hours
  <2>2. PICK r : r = h * PerHour + 0
    OBVIOUS
  <2>3. r \in 0..PerDay - 1 /\ r \div PerHour = h
    BY <2>1, <2>2, Bounds, SumIsIn, DivOfSum DEF PerDay
  <2>4. r \in Nat /\ r < PerDay
    BY <2>3, Lengths
  <2>5. PICK t : t = d * PerDay + r
    OBVIOUS
  <2>6. t \in Slots
    BY <1>3, <2>3, <2>5, Bounds, Lengths, SumIsIn DEF Slots
  <2>7. t \div PerDay = d /\ t % PerDay = r
    BY <1>3, <2>4, <2>5, Lengths, DivOfSum
  <2> QED BY <1>1, <1>2, <2>3, <2>6, <2>7
<1>5. ASSUME NEW h \in Hours, NEW g \in Hours, NEW t \in SlotsOfHour[<<d, h>>],
             NEW u \in SlotsOfHour[<<d, g>>], h < g
      PROVE  t < u
  <2>1. t \in Nat /\ u \in Nat /\ t \div PerDay = u \div PerDay
    BY <1>1, <1>2, SlotsType
  <2>2. PICK a, b : a = t % PerDay /\ b = u % PerDay
    OBVIOUS
  <2>3. a \in Nat /\ b \in Nat
    BY <2>1, <2>2, Lengths
  <2>4. a \div PerHour < b \div PerHour
    BY <1>2, <1>5, <2>2
  <2>5. a < b
    BY <2>3, <2>4, Bounds, DivLess
  <2> QED BY <2>1, <2>2, <2>5, Lengths, ModLess
<1> QED BY <1>2, <1>4, <1>5

\* On a whole day without a restart, what is counted never falls.
LEMMA FoldGrows ==
  ASSUME IInv, NEW d \in built, \A t \in SlotsOfDay[d] : DOMAIN snap[t] = Series,
         restarts \cap SlotsOfDay[d] = {},
         NEW t \in SlotsOfDay[d], NEW u \in SlotsOfDay[d], t <= u
  PROVE  /\ FoldIn(snap, t) \in Nat /\ FoldIn(snap, u) \in Nat
         /\ FoldIn(snap, t) <= FoldIn(snap, u)
<1>1. World /\ Tracks /\ Spans /\ Tables
  BY DEF IInv
<1>2. /\ t \in Slots /\ u \in Slots /\ t \in Nat /\ u \in Nat /\ u < now
      /\ SlotsOfDay[d] = {v \in Slots : v \div PerDay = d}
  BY <1>1, BuiltSlots DEF SlotsOfDay
<1>3. FoldIn(snap, t) \in Nat /\ FoldIn(snap, u) \in Nat
  BY <1>1, <1>2, SampleRange, Bounds
<1>4. CASE t = u
  BY <1>3, <1>4
<1>5. CASE t < u
  <2>1. PICK a, b : a = snap[t] /\ b = snap[u]
    OBVIOUS
  <2>2. \A s \in Series : a[s] \in Nat /\ b[s] \in Nat
    BY <1>1, <1>2, <2>1, WorldTypes
  <2>3. restarts \cap Span(t, u) = {}
    <3>1. ASSUME NEW v \in Span(t, u) PROVE v \in SlotsOfDay[d]
      <4>1. v \in Slots /\ v \in Nat /\ t < v /\ v <= u
        BY <1>2, SlotsType DEF Span
      <4>2. t \div PerDay = d /\ u \div PerDay = d
        BY <1>2
      <4>3. PICK e : e = v \div PerDay
        OBVIOUS
      <4>4. e \in Int /\ d \in Int
        BY <4>1, <4>2, <4>3, <1>2, Lengths
      <4>5. ~(e < d)
        BY <1>2, <4>1, <4>2, <4>3, Lengths, DivLess
      <4>6. ~(d < e)
        BY <1>2, <4>1, <4>2, <4>3, Lengths, DivLess
      <4> QED BY <1>2, <4>1, <4>3, <4>4, <4>5, <4>6
    <3> QED BY <3>1
  <2>4. \A s \in Series : SumOf(calls[s], Span(t, u)) \in Nat
    BY <1>1, WorldTypes, SpansAre
  <2>5. \A s \in Series : b[s] >= a[s] + SumOf(calls[s], Span(t, u))
    BY <1>1, <1>2, <1>5, <2>1, <2>3 DEF Spans, Follows
  <2>6. \A s \in Series : a[s] <= b[s]
    BY <2>2, <2>4, <2>5
  <2>7. SumOf(a, Series) <= SumOf(b, Series)
    BY <2>2, <2>6, Bounds, SumIsMonotonic
  <2> QED BY <1>3, <2>1, <2>7 DEF FoldIn
<1> QED BY <1>2, <1>4, <1>5

\* The hours of a day as a sum.
LEMMA SumOfHours ==
  ASSUME NEW d, NEW f, f = [h \in Hours |-> hourly[<<d, h>>]]
  PROVE  MapThenSumSet(LAMBDA h : hourly[<<d, h>>], Hours) = SumOf(f, Hours)
<1> DEFINE Each(k) == [x \in SUBSET Hours |->
                         IF x = {} THEN 0 ELSE hourly[<<d, Any(x)>>] + k[x \ {Any(x)}]]
<1>1. ASSUME NEW k PROVE Each(k) = Peeled(f, Hours, k)
  <2>1. ASSUME NEW x \in SUBSET Hours, x # {}
        PROVE  f[Any(x)] = hourly[<<d, Any(x)>>]
    <3>1. Any(x) \in x
      BY <2>1 DEF Any
    <3> QED BY <3>1
  <2> QED BY <2>1 DEF Peeled
<1>2. (CHOOSE k : k = Each(k)) = Peel(f, Hours)
  <2> HIDE DEF Each
  <2> QED BY <1>1, Zenon DEF Peel
<1>3. MapThenSumSet(LAMBDA h : hourly[<<d, h>>], Hours) = (CHOOSE k : k = Each(k))[Hours]
  BY DEF MapThenSumSet, MapThenFoldSet, Any
<1> QED BY <1>2, <1>3, SumPeels

\* The hours' deltas telescope: they add up to no more than the day's.
LEMMA HoursHold == IInv => HoursFitInDay
<1> SUFFICES ASSUME IInv, NEW d \in built, \A t \in SlotsOfDay[d] : DOMAIN snap[t] = Series,
                    restarts \cap SlotsOfDay[d] = {}
             PROVE  MapThenSumSet(LAMBDA h : hourly[<<d, h>>], Hours) <= daily[d]
  BY DEF HoursFitInDay
<1>1. World /\ Tracks /\ Spans /\ Tables
  BY DEF IInv
<1>2. PICK F : F = [t \in Slots |-> FoldIn(snap, t)]
  OBVIOUS
<1>3. /\ d \in Days /\ SlotsOfDay[d] \in SUBSET Slots /\ SlotsOfDay[d] # {}
      /\ \A t \in SlotsOfDay[d] : t \in Nat
  BY <1>1, BuiltSlots
<1>4. \A t, u \in SlotsOfDay[d] : F[t] \in Nat /\ (t <= u => F[t] <= F[u])
  <2>1. \A t \in SlotsOfDay[d] : F[t] = FoldIn(snap, t) /\ t <= t
    BY <1>2, <1>3
  <2> QED BY <2>1, FoldGrows
<1>5. ASSUME NEW T \in SUBSET SlotsOfDay[d], T # {}
      PROVE  /\ RowsIn(snap, T) = T
             /\ Min(T) \in T /\ Max(T) \in T /\ \A t \in T : Min(T) <= t /\ t <= Max(T)
             /\ DeltaIn(snap, T) = F[Max(T)] - F[Min(T)]
  <2>1. RowsIn(snap, T) = T
    BY Bounds DEF RowsIn
  <2>2. Min(T) \in T /\ Max(T) \in T /\ \A t \in T : Min(T) <= t /\ t <= Max(T)
    BY <1>3, <1>5, Ends
  <2>3. PICK a, b : a = F[Min(T)] /\ b = F[Max(T)]
    OBVIOUS
  <2>4. a \in Nat /\ b \in Nat /\ a <= b
    BY <1>4, <2>2, <2>3
  <2>5. DeltaIn(snap, T) = Clamped(b - a)
    BY <1>2, <1>3, <2>2, <2>3 DEF DeltaIn
  <2> QED BY <2>1, <2>2, <2>3, <2>4, <2>5, ClampedIs
<1>6. daily[d] = F[Max(SlotsOfDay[d])] - F[Min(SlotsOfDay[d])]
  BY <1>1, <1>3, <1>5 DEF Tables, DailyIn
<1> DEFINE H(h) == SlotsOfHour[<<d, h>>]
<1>7. \A h \in Hours : H(h) \in SUBSET SlotsOfDay[d] /\ H(h) # {}
  BY <1>3, HourSlots
<1>8. \A h \in Hours : hourly[<<d, h>>] = F[Max(H(h))] - F[Min(H(h))]
  <2>1. \A h \in Hours : <<d, h>> \in built \X Hours
    OBVIOUS
  <2> QED BY <1>1, <1>5, <1>7, <2>1 DEF Tables, HourlyIn
<1>9. \A h, g \in Hours : h < g => Max(H(h)) <= Min(H(g))
  <2>1. \A h, g \in Hours : h < g => Max(H(h)) < Min(H(g))
    BY <1>3, <1>5, <1>7, HourSlots
  <2>2. \A h \in Hours : Max(H(h)) \in Nat /\ Min(H(h)) \in Nat
    BY <1>3, <1>5, <1>7
  <2> QED BY <2>1, <2>2
<1>10. PICK f : f = [h \in Hours |-> hourly[<<d, h>>]]
  OBVIOUS
<1>11. PICK lo, hi : lo = [h \in Hours |-> F[Min(H(h))]] /\ hi = [h \in Hours |-> F[Max(H(h))]]
  OBVIOUS
<1>12. PICK first, last \in Nat : first = F[Min(SlotsOfDay[d])] /\ last = F[Max(SlotsOfDay[d])]
  BY <1>3, <1>4, <1>5
<1>13. ASSUME NEW h \in Hours
       PROVE  /\ lo[h] \in Nat /\ hi[h] \in Nat /\ lo[h] <= hi[h] /\ f[h] = hi[h] - lo[h]
              /\ first <= lo[h] /\ hi[h] <= last
              /\ \A g \in Hours : h < g => hi[h] <= lo[g]
  <2>1. /\ Min(H(h)) \in SlotsOfDay[d] /\ Max(H(h)) \in SlotsOfDay[d]
        /\ Min(H(h)) <= Max(H(h))
    BY <1>5, <1>7
  <2>2. lo[h] \in Nat /\ hi[h] \in Nat /\ lo[h] <= hi[h] /\ f[h] = hi[h] - lo[h]
    BY <1>4, <1>8, <1>10, <1>11, <2>1
  <2>3. first <= lo[h] /\ hi[h] <= last
    <3>1. /\ Min(SlotsOfDay[d]) \in SlotsOfDay[d] /\ Max(SlotsOfDay[d]) \in SlotsOfDay[d]
          /\ Min(SlotsOfDay[d]) <= Min(H(h)) /\ Max(H(h)) <= Max(SlotsOfDay[d])
      BY <1>3, <1>5, <2>1
    <3> QED BY <1>4, <1>11, <1>12, <2>1, <3>1
  <2>4. ASSUME NEW g \in Hours, h < g PROVE hi[h] <= lo[g]
    <3>1. Min(H(g)) \in SlotsOfDay[d] /\ Max(H(h)) <= Min(H(g))
      BY <1>5, <1>7, <1>9, <2>4
    <3> QED BY <1>4, <1>11, <2>1, <3>1
  <2> QED BY <2>2, <2>3, <2>4
<1>14. \A n \in Nat : n < HoursPerDay => n \in Hours /\ 0..n \subseteq Hours
  BY Bounds DEF Hours
<1> DEFINE G == {n \in Nat : n < HoursPerDay => SumOf(f, 0..n) \in Nat
                                               /\ SumOf(f, 0..n) + first <= hi[n]}
<1>15. 0 \in G
  <2>1. 0 \in Hours
    BY <1>14, Bounds
  <2>2. PICK x : x = f[0]
    OBVIOUS
  <2>3. x \in Nat /\ x + first <= hi[0]
    BY <1>13, <2>1, <2>2
  <2>4. SumOf(f, {0}) = x + SumOf(f, {0} \ {0})
    <3>1. IsFiniteSet({0}) /\ 0 \in {0} /\ \A h \in {0} : f[h] \in Nat
      BY <2>2, <2>3, FS_Singleton
    <3> QED BY <2>2, <3>1, SumWithout
  <2>5. {0} \ {0} = {} /\ 0..0 = {0}
    OBVIOUS
  <2>6. SumOf(f, 0..0) = x
    BY <2>3, <2>4, <2>5, SumEmpty
  <2> QED BY <2>3, <2>6
<1>16. ASSUME NEW n \in Nat, n \in G PROVE n + 1 \in G
  <2> SUFFICES ASSUME n + 1 < HoursPerDay
               PROVE  SumOf(f, 0..n + 1) \in Nat /\ SumOf(f, 0..n + 1) + first <= hi[n + 1]
    OBVIOUS
  <2>1. PICK m \in Nat : m = n + 1
    OBVIOUS
  <2>2. n \in Hours /\ m \in Hours /\ n < m
    BY <1>14, <2>1, Bounds
  <2>3. PICK T, U : T = 0..n /\ U = 0..m
    OBVIOUS
  <2>4. m \in U /\ U \ {m} = T /\ U \subseteq Hours /\ IsFiniteSet(U)
    <3>1. m \in U /\ U \ {m} = T
      BY <2>1, <2>3
    <3>2. U \subseteq Hours
      BY <1>14, <2>1, <2>3
    <3>3. IsFiniteSet(U)
      BY <2>3, FS_Interval
    <3> QED BY <3>1, <3>2, <3>3
  <2>5. \A h \in U : f[h] \in Nat
    <3>1. \A h \in Hours : f[h] \in Nat
      BY <1>13
    <3> QED BY <2>4, <3>1
  <2>6. SumOf(f, U) = f[m] + SumOf(f, T)
    <3>1. SumOf(f, U) = f[m] + SumOf(f, U \ {m})
      <4>1. IsFiniteSet(U)
        BY <2>4
      <4>2. \A x \in U : SumOf(f, U) = f[x] + SumOf(f, U \ {x})
        BY ONLY <2>5, <4>1, SumWithout
      <4> QED BY <2>4, <4>2
    <3> QED BY <2>4, <3>1
  <2>7. SumOf(f, T) \in Nat /\ SumOf(f, T) + first <= hi[n]
    <3>1. n < HoursPerDay
      BY Bounds
    <3>2. SumOf(f, 0..n) \in Nat /\ SumOf(f, 0..n) + first <= hi[n]
      BY <1>16, <3>1
    <3> QED BY <2>3, <3>2
  <2>8. f[m] = hi[m] - lo[m] /\ hi[n] <= lo[m] /\ f[m] \in Nat /\ hi[m] \in Nat /\ lo[m] \in Nat
        /\ hi[n] \in Nat
    BY <1>13, <2>2
  <2>9. SumOf(f, U) \in Nat /\ SumOf(f, U) + first <= hi[m]
    BY <1>12, <2>6, <2>7, <2>8
  <2> QED BY <2>1, <2>3, <2>9
<1>17. PICK n \in Nat : n = HoursPerDay - 1
  BY Bounds
<1>18. n \in G
  <2> HIDE DEF G
  <2> QED BY <1>15, <1>16, Induct
<1>19. n \in Hours /\ Hours = 0..n /\ n < HoursPerDay
  BY <1>17, Bounds DEF Hours
<1>20. SumOf(f, Hours) \in Nat /\ SumOf(f, Hours) + first <= hi[n]
  BY <1>18, <1>19
<1>21. SumOf(f, Hours) <= last - first
  BY <1>12, <1>13, <1>19, <1>20
<1>22. MapThenSumSet(LAMBDA h : hourly[<<d, h>>], Hours) = SumOf(f, Hours)
  BY <1>10, SumOfHours
<1> QED BY <1>6, <1>12, <1>21, <1>22

-----------------------------------------------------------------------------
(* The theorems about the counters.                                          *)

\* The inductive invariant holds always.
LEMMA Invariance == Spec => []IInv
BY InitIInv, Inductive, PTL DEF Spec

\* Counters, samples and facts keep their types: a delta is never negative and
\* never exceeds what can have been called, whatever restarts and gaps there were.
THEOREM TypeCorrect == Spec => []TypeOK
BY Invariance, TypeHolds, PTL

\* The delta of a day in fct_query_daily is at most what was called between its
\* ends, if these report the same series.
THEOREM DaysAreNotOvercounted == Spec => []DayNeverOvercounts
BY Invariance, DaysHold, PTL

\* On a whole day without a restart fct_query_hourly adds up to no more than
\* fct_query_daily has.
THEOREM HoursAgreeWithDays == Spec => []HoursFitInDay
BY Invariance, HoursHold, PTL

\* "in_use" and "candidate_unused" of mart_index_verdict are justified by what
\* was scanned in the window.
THEOREM IndexVerdictsAreJustified == Spec => []IndexVerdictIsJustified
BY Invariance, VerdictsHold, PTL

-----------------------------------------------------------------------------
(* The marts: types and backups.                                             *)

\* A day that is appended keeps the types.
LEMMA MartTypeStep == MartTypeOK /\ [NextDay]_martVars => MartTypeOK'
<1> SUFFICES ASSUME MartTypeOK, [NextDay]_martVars PROVE MartTypeOK'
  OBVIOUS
<1>1. CASE NextDay
  <2> USE <1>1 DEF NextDay, MartTypeOK
  <2>0. today' \in 0..LastDay + 1 /\ topic' \in {"plan", "backup", "size"} /\ today \in History
    <3>1. LastDay \in Nat
      BY MartBoundsOK
    <3> QED BY <3>1 DEF History
  <2>1. CASE PlanDay
    BY <2>0, <2>1 DEF PlanDay
  <2>2. CASE BackupDay
    BY <2>0, <2>2 DEF BackupDay
  <2>3. CASE SizeDay
    BY <2>0, <2>3 DEF SizeDay
  <2> QED BY <2>1, <2>2, <2>3
<1>2. CASE UNCHANGED martVars
  BY <1>2 DEF martVars, MartTypeOK
<1> QED BY <1>1, <1>2

\* Types: every day of the history has a plan and a latency, a backup or a size, or
\* none, for all the marts that are rebuilt from it.
THEOREM MartsTypeCorrect == MartSpec => []MartTypeOK
<1>1. MartInit => MartTypeOK
  BY MartBoundsOK DEF MartInit, MartTypeOK, History
<1>2. MartTypeOK /\ [NextDay]_martVars => MartTypeOK'
  BY MartTypeStep
<1> QED BY <1>1, <1>2, PTL DEF MartSpec

\* The last of some days of the history.
LEMMA LastOf ==
  ASSUME NEW D \in SUBSET History, D # {}
  PROVE  Max(D) \in D /\ Max(D) \in Nat /\ \A d \in D : d <= Max(D)
<1>1. D \in SUBSET Nat /\ LastDay \in Nat /\ \A d \in D : d <= LastDay
  BY MartBoundsOK DEF History
<1> QED BY <1>1, EndsOf

\* More days have no earlier last day.
LEMMA LastGrows ==
  ASSUME NEW D \in SUBSET History, NEW E \in SUBSET History, D # {}, D \subseteq E
  PROVE  Max(D) \in Nat /\ Max(E) \in Nat /\ Max(D) <= Max(E)
<1>1. E # {}
  OBVIOUS
<1> QED BY <1>1, LastOf

\* A step takes no day with rows and no day with a backup away.
LEMMA DaysAreAdded ==
  ASSUME MartTypeOK, [NextDay]_martVars
  PROVE  seen \subseteq seen' /\ backup \subseteq backup'
BY DEF NextDay, PlanDay, BackupDay, SizeDay, martVars

\* The status compares the last backup with the last day that has rows.
LEMMA BackupStep ==
  ASSUME MartTypeOK, MartTypeOK', [NextDay]_martVars
  PROVE  /\ seen' = seen /\ BackupStatus = "ok" => BackupStatus' = "ok"
         /\ BackupStatus = "breach" /\ BackupStatus' = "ok" => backup' # backup
<1>0. /\ seen \in SUBSET History /\ seen' \in SUBSET History
      /\ backup \in SUBSET History /\ backup' \in SUBSET History
      /\ seen \subseteq seen' /\ backup \subseteq backup'
  BY DaysAreAdded DEF MartTypeOK
<1>a. MaxGap \in Nat
  BY MartBoundsOK
<1>1. ASSUME seen' = seen, BackupStatus = "ok" PROVE BackupStatus' = "ok"
  <2>1. seen # {} /\ backup # {} /\ ~(Max(seen) - Max(backup) > MaxGap)
    BY <1>1 DEF BackupStatus, Anchor
  <2>2. Max(backup) \in Nat /\ Max(backup') \in Nat /\ Max(backup) <= Max(backup')
    BY <1>0, <2>1, LastGrows
  <2>3. Max(seen) \in Nat
    BY <1>0, <2>1, LastOf
  <2>4. PICK s \in Nat, b \in Nat, c \in Nat :
           s = Max(seen) /\ b = Max(backup) /\ c = Max(backup')
    BY <2>2, <2>3
  <2>5. ~(s - c > MaxGap)
    BY <1>a, <2>1, <2>2, <2>4
  <2>6. seen' # {} /\ backup' # {} /\ ~(Max(seen') - Max(backup') > MaxGap)
    BY <1>0, <1>1, <2>1, <2>4, <2>5
  <2> QED BY <2>6 DEF BackupStatus, Anchor
<1>2. ASSUME BackupStatus = "breach", BackupStatus' = "ok", backup' = backup PROVE FALSE
  <2>1. seen # {} /\ backup # {} /\ Max(seen) - Max(backup) > MaxGap
    BY <1>2 DEF BackupStatus, Anchor
  <2>2. ~(Max(seen') - Max(backup') > MaxGap)
    BY <1>2 DEF BackupStatus, Anchor
  <2>3. Max(seen) \in Nat /\ Max(seen') \in Nat /\ Max(seen) <= Max(seen')
    BY <1>0, <2>1, LastGrows
  <2>4. Max(backup) \in Nat /\ Max(backup') = Max(backup)
    BY <1>0, <1>2, <2>1, LastOf
  <2>5. PICK s \in Nat, t \in Nat, b \in Nat :
           s = Max(seen) /\ t = Max(seen') /\ b = Max(backup)
    BY <2>3, <2>4
  <2> QED BY <1>a, <2>1, <2>2, <2>3, <2>4, <2>5
<1> QED BY <1>1, <1>2

-----------------------------------------------------------------------------
(* The past.  The marts of a history of plans p and latencies m, so that two *)
(* histories can be compared.                                                *)

ObservedIn(m, D) == {d \in D \cap History : m[d] # None}

RatioIn(m, A, B) ==
  LET a == {d \in A : m[d] # None}
      b == {d \in B : m[d] # None}
  IN IF a = {} \/ b = {} \/ SumOf(m, b) = 0 THEN None
     ELSE Hundredths(SumOf(m, a) * Cardinality(b), SumOf(m, b) * Cardinality(a))

FlipsIn(p) ==
  {d \in History : p[d] # "none" /\
     LET P == {e \in 0..d - 1 : p[e] # "none"}
     IN P # {} /\ p[Max(P)] # p[d]}

ContaminatedIn(p, f) == \E g \in FlipsIn(p) \ {f} : g - f \in -PlanWindow..PlanWindow

VerdictIn(p, m, f) ==
  LET A     == ObservedIn(m, After(f, PlanWindow))
      B     == ObservedIn(m, Before(f, PlanWindow))
      ratio == RatioIn(m, After(f, PlanWindow) \cap History, Before(f, PlanWindow) \cap History)
  IN CASE A = {} \/ B = {} -> "PENDING"
       [] A # {} /\ B # {} /\ ContaminatedIn(p, f) -> "AMBIGUOUS"
       [] OTHER ->
            IF DayCalls * Cardinality(A) < MinCalls \/ ratio = None THEN "NEUTRAL"
            ELSE IF ratio >= RegressRatio THEN "REGRESSED"
            ELSE IF ratio <= Hundredths(100, RegressRatio) THEN "IMPROVED"
            ELSE "NEUTRAL"

ImpactIn(p, m) ==
  LET ratio == RatioIn(m, After(ChangeDay, ImpactWindow) \cap History,
                       Before(ChangeDay, ImpactWindow) \cap History)
      F     == {f \in FlipsIn(p) : f \in ChangeDay..ChangeDay + ImpactWindow}
  IN IF \E f \in F : VerdictIn(p, m, f) = "REGRESSED" THEN "followed_by_regression"
     ELSE IF F # {} THEN "followed_by_plan_flip"
     ELSE IF ratio # None /\ ratio >= ImpactRatio THEN "followed_by_latency_rise"
     ELSE "no_signal"

\* What the nightly run computes is a function of plan and ms.
LEMMA MartsOf ==
  /\ Flips = FlipsIn(plan)
  /\ \A f : PlanVerdict(f) = VerdictIn(plan, ms, f)
  /\ Impact = ImpactIn(plan, ms)
<1>1. \A A, B : Ratio(A, B) = RatioIn(ms, A, B)
  BY DEF Ratio, RatioIn, MsSum
<1>2. \A D : Observed(D) = ObservedIn(ms, D)
  BY DEF Observed, ObservedIn
<1>3. Flips = FlipsIn(plan)
  BY DEF Flips, FlipsIn
<1>4. \A f : Contaminated(f) <=> ContaminatedIn(plan, f)
  BY <1>3 DEF Contaminated, ContaminatedIn
<1>5. \A f : PlanVerdict(f) = VerdictIn(plan, ms, f)
  BY <1>1, <1>2, <1>4, Zenon DEF PlanVerdict, VerdictIn
<1>6. Impact = ImpactIn(plan, ms)
  BY <1>1, <1>3, <1>5, Zenon DEF Impact, ImpactIn, FlipsAfterChange
<1> QED BY <1>3, <1>5, <1>6

\* The same, of the next state.
LEMMA MartsOfNext ==
  /\ \A f : PlanVerdict(f)' = VerdictIn(plan', ms', f)
  /\ Impact' = ImpactIn(plan', ms')
<1>1. \A A, B : Ratio(A, B)' = RatioIn(ms', A, B)
  BY DEF Ratio, RatioIn, MsSum
<1>2. \A D : Observed(D)' = ObservedIn(ms', D)
  BY DEF Observed, ObservedIn
<1>3. Flips' = FlipsIn(plan')
  BY DEF Flips, FlipsIn
<1>4. \A f : Contaminated(f)' <=> ContaminatedIn(plan', f)
  BY <1>3 DEF Contaminated, ContaminatedIn
<1>5. \A f : PlanVerdict(f)' = VerdictIn(plan', ms', f)
  BY <1>1, <1>2, <1>4, Zenon DEF PlanVerdict, VerdictIn
<1>6. Impact' = ImpactIn(plan', ms')
  BY <1>1, <1>3, <1>5, Zenon DEF Impact, ImpactIn, FlipsAfterChange
<1> QED BY <1>5, <1>6

\* Equal latencies have equal ratios.
LEMMA RatioAgrees ==
  ASSUME NEW m, NEW k, NEW A, NEW B, \A d \in A \cup B : m[d] = k[d]
  PROVE  RatioIn(m, A, B) = RatioIn(k, A, B)
<1> DEFINE a == {d \in A : m[d] # None}
           b == {d \in B : m[d] # None}
<1>1. a = {d \in A : k[d] # None} /\ b = {d \in B : k[d] # None}
  OBVIOUS
<1>2. SumOf(m, a) = SumOf(k, a) /\ SumOf(m, b) = SumOf(k, b)
  <2>1. (\A d \in a : m[d] = k[d]) /\ (\A d \in b : m[d] = k[d])
    OBVIOUS
  <2> HIDE DEF a, b
  <2> QED BY <2>1, SumCongruence
<1> QED BY <1>1, <1>2, Zenon DEF RatioIn

\* Whether a day is a flip is seen in the days up to it.
LEMMA FlipsAgree ==
  ASSUME NEW p, NEW q, NEW n \in Nat, \A e \in History : e < n => p[e] = q[e],
         NEW d \in History, d < n
  PROVE  d \in FlipsIn(p) <=> d \in FlipsIn(q)
<1> DEFINE P == {e \in 0..d - 1 : p[e] # "none"}
<1>1. \A e \in 0..d - 1 : e \in History /\ e < n
  BY MartBoundsOK DEF History
<1>2. P = {e \in 0..d - 1 : q[e] # "none"} /\ p[d] = q[d]
  BY <1>1
<1>3. P # {} => p[Max(P)] = q[Max(P)]
  <2> SUFFICES ASSUME P # {} PROVE p[Max(P)] = q[Max(P)]
    OBVIOUS
  <2>1. P \in SUBSET History
    BY <1>1
  <2>2. Max(P) \in P
    <3> HIDE DEF P
    <3> QED BY <2>1, LastOf
  <2> QED BY <1>1, <2>2
<1>4. d \in FlipsIn(p) <=> p[d] # "none" /\ P # {} /\ p[Max(P)] # p[d]
  BY DEF FlipsIn
<1>5. d \in FlipsIn(q) <=> q[d] # "none" /\ P # {} /\ q[Max(P)] # q[d]
  BY <1>2 DEF FlipsIn
<1> QED BY <1>2, <1>3, <1>4, <1>5

\* The days of a verdict are the days of its window.
LEMMA VerdictsAgree ==
  ASSUME NEW p, NEW q, NEW m, NEW k, NEW n \in Nat,
         \A e \in History : e < n => p[e] = q[e] /\ m[e] = k[e],
         NEW f \in History, f + PlanWindow < n
  PROVE  VerdictIn(p, m, f) = VerdictIn(q, k, f)
<1> DEFINE X == After(f, PlanWindow) \cap History
           Y == Before(f, PlanWindow) \cap History
<1>0. PlanWindow \in Nat /\ History \subseteq Nat /\ LastDay \in Nat
  BY MartBoundsOK DEF History
<1>1. \A d \in X \cup Y : d \in History /\ d < n
  BY <1>0 DEF After, Before
<1>2. \A d \in X \cup Y : m[d] = k[d]
  BY <1>1
<1>3. RatioIn(m, X, Y) = RatioIn(k, X, Y)
  <2> HIDE DEF X, Y
  <2> QED BY <1>2, RatioAgrees
<1>4. /\ ObservedIn(m, After(f, PlanWindow)) = ObservedIn(k, After(f, PlanWindow))
      /\ ObservedIn(m, Before(f, PlanWindow)) = ObservedIn(k, Before(f, PlanWindow))
  BY <1>2 DEF ObservedIn
<1>5. ContaminatedIn(p, f) <=> ContaminatedIn(q, f)
  <2>1. ASSUME NEW g \in History, g - f \in -PlanWindow..PlanWindow
        PROVE  g \in FlipsIn(p) <=> g \in FlipsIn(q)
    <3>1. g < n
      BY <1>0, <2>1
    <3> QED BY <3>1, FlipsAgree
  <2>2. FlipsIn(p) \subseteq History /\ FlipsIn(q) \subseteq History
    BY DEF FlipsIn
  <2> QED BY <2>1, <2>2 DEF ContaminatedIn
<1> QED BY <1>3, <1>4, <1>5, Zenon DEF VerdictIn

\* A cause looks at the flips of its window, and these at theirs.
LEMMA ImpactAgrees ==
  ASSUME NEW p, NEW q, NEW m, NEW k, NEW n \in Nat,
         \A e \in History : e < n => p[e] = q[e] /\ m[e] = k[e],
         ChangeDay + ImpactWindow + PlanWindow < n
  PROVE  ImpactIn(p, m) = ImpactIn(q, k)
<1> DEFINE X == After(ChangeDay, ImpactWindow) \cap History
           Y == Before(ChangeDay, ImpactWindow) \cap History
           F == {f \in FlipsIn(p) : f \in ChangeDay..ChangeDay + ImpactWindow}
<1>0. /\ PlanWindow \in Nat /\ ImpactWindow \in Nat /\ ChangeDay \in Nat
      /\ History \subseteq Nat /\ LastDay \in Nat
  BY MartBoundsOK DEF History
<1>1. \A d \in X \cup Y : d \in History /\ d < n
  BY <1>0 DEF After, Before
<1>2. \A d \in X \cup Y : m[d] = k[d]
  BY <1>1
<1>3. RatioIn(m, X, Y) = RatioIn(k, X, Y)
  <2> HIDE DEF X, Y
  <2> QED BY <1>2, RatioAgrees
<1>4. F = {f \in FlipsIn(q) : f \in ChangeDay..ChangeDay + ImpactWindow}
  <2>1. ASSUME NEW g \in History, g \in ChangeDay..ChangeDay + ImpactWindow
        PROVE  g \in FlipsIn(p) <=> g \in FlipsIn(q)
    <3>1. g < n
      BY <1>0, <2>1
    <3> QED BY <3>1, FlipsAgree
  <2>2. FlipsIn(p) \subseteq History /\ FlipsIn(q) \subseteq History
    BY DEF FlipsIn
  <2> QED BY <2>1, <2>2
<1>5. \A f \in F : VerdictIn(p, m, f) = VerdictIn(q, k, f)
  <2> SUFFICES ASSUME NEW f \in F PROVE VerdictIn(p, m, f) = VerdictIn(q, k, f)
    OBVIOUS
  <2>1. f \in History /\ f + PlanWindow < n
    BY <1>0 DEF FlipsIn
  <2> QED BY <2>1, VerdictsAgree
<1>6. (\E f \in F : VerdictIn(p, m, f) = "REGRESSED") <=>
        (\E f \in F : VerdictIn(q, k, f) = "REGRESSED")
  BY <1>5
<1> QED BY <1>3, <1>4, <1>6, Zenon DEF ImpactIn

\* A step writes no day but that of today.
LEMMA PastStays ==
  ASSUME MartTypeOK, [NextDay]_martVars
  PROVE  \A e \in History : e < today => plan'[e] = plan[e] /\ ms'[e] = ms[e]
<1>1. today \in Nat /\ History \subseteq Nat
  BY MartBoundsOK DEF MartTypeOK, History
<1>2. CASE NextDay
  BY <1>1, <1>2 DEF NextDay, PlanDay, BackupDay, SizeDay, MartTypeOK
<1>3. CASE UNCHANGED martVars
  BY <1>3 DEF martVars
<1> QED BY <1>2, <1>3

\* A step leaves the verdicts and the cause whose last window has passed.
LEMMA VerdictStep ==
  ASSUME MartTypeOK, [NextDay]_martVars
  PROVE  /\ \A f \in Flips : today > f + PlanWindow => PlanVerdict(f)' = PlanVerdict(f)
         /\ today > ChangeDay + ImpactWindow + PlanWindow => Impact' = Impact
<1>0. /\ today \in Nat /\ History \subseteq Nat /\ PlanWindow \in Nat /\ ImpactWindow \in Nat
      /\ ChangeDay \in Nat
  BY MartBoundsOK DEF MartTypeOK, History
<1>1. PICK p, q, m, k, n : p = plan /\ q = plan' /\ m = ms /\ k = ms' /\ n = today
  BY <1>0
<1>2. \A e \in History : e < n => p[e] = q[e] /\ m[e] = k[e]
  BY <1>1, PastStays
<1>3. ASSUME NEW f \in Flips, today > f + PlanWindow PROVE PlanVerdict(f)' = PlanVerdict(f)
  <2>1. f \in History /\ f + PlanWindow < n
    BY <1>0, <1>1, <1>3 DEF Flips
  <2>2. VerdictIn(p, m, f) = VerdictIn(q, k, f)
    <3>1. n \in Nat
      BY <1>0, <1>1
    <3> QED BY ONLY <1>2, <2>1, <3>1, VerdictsAgree
  <2>3. PlanVerdict(f) = VerdictIn(plan, ms, f)
    BY MartsOf
  <2>4. PlanVerdict(f)' = VerdictIn(plan', ms', f)
    BY MartsOfNext
  <2> QED BY <1>1, <2>2, <2>3, <2>4
<1>4. ASSUME today > ChangeDay + ImpactWindow + PlanWindow PROVE Impact' = Impact
  <2>1. ChangeDay + ImpactWindow + PlanWindow < n
    BY <1>0, <1>1, <1>4
  <2>2. ImpactIn(p, m) = ImpactIn(q, k)
    BY <1>0, <1>1, <1>2, <2>1, ImpactAgrees
  <2>3. Impact = ImpactIn(plan, ms) /\ Impact' = ImpactIn(plan', ms')
    BY MartsOf, MartsOfNext
  <2> QED BY <1>1, <2>2, <2>3
<1> QED BY <1>3, <1>4

-----------------------------------------------------------------------------
(* Averages.                                                                 *)

\* A threshold on slowness is a ratio above one (1.3 unless set otherwise).
RatioMeansSlower == RegressRatio > 100

\* A ratio of one or more is one or more when rounded.
LEMMA RoundsUp ==
  ASSUME NEW n \in Nat, NEW m \in Nat, m > 0, n >= m
  PROVE  Hundredths(n, m) >= 100
<1>1. 200 * n + m >= 100 * (2 * m) /\ 200 * n + m \in Nat /\ 2 * m \in Nat /\ 2 * m > 0
  OBVIOUS
<1> QED BY ONLY <1>1, DivAtLeast, 100 \in Nat DEF Hundredths

\* A ratio of one or less is one or less when rounded.
LEMMA RoundsDown ==
  ASSUME NEW n \in Nat, NEW m \in Nat, m > 0, n <= m
  PROVE  Hundredths(n, m) < 101
<1>1. 200 * n + m < 101 * (2 * m) /\ 200 * n + m \in Nat /\ 2 * m \in Nat /\ 2 * m > 0
  OBVIOUS
<1> QED BY ONLY <1>1, DivIsBelow, 101 \in Nat DEF Hundredths

\* The threshold of an improvement is below one when that of a regression is above.
LEMMA Improvement ==
  ASSUME NEW r \in Nat, r > 100
  PROVE  Hundredths(100, r) < 100
<1>1. 200 * 100 + r < 100 * (2 * r) /\ 200 * 100 + r \in Nat /\ 2 * r \in Nat /\ 2 * r > 0
  OBVIOUS
<1> QED BY ONLY <1>1, DivIsBelow, 100 \in Nat DEF Hundredths

\* A rounded ratio is a number.
LEMMA HundredthsType ==
  ASSUME NEW n \in Nat, NEW m \in Nat, m > 0
  PROVE  Hundredths(n, m) \in Nat
<1>1. 200 * n + m \in Nat /\ 2 * m \in Nat /\ 2 * m > 0
  OBVIOUS
<1> QED BY <1>1 DEF Hundredths

\* a / p >= m >= b / q, without the quotients.
LEMMA CrossProducts ==
  ASSUME NEW a \in Nat, NEW b \in Nat, NEW p \in Nat, NEW q \in Nat, NEW m \in Nat,
         m * p <= a, b <= m * q
  PROVE  b * p <= a * q
<1>1. (m * p) * q <= a * q
  BY m * p \in Nat
<1>2. b * p <= (m * q) * p
  BY m * q \in Nat
<1>3. (m * p) * q = (m * q) * p
  OBVIOUS
<1> QED BY <1>1, <1>2, <1>3

\* When no term over B is greater than one over A, neither is the average.
LEMMA AveragesFollow ==
  ASSUME NEW f, NEW A, NEW B, IsFiniteSet(A), IsFiniteSet(B), A # {},
         \A d \in A \cup B : f[d] \in Nat,
         \A a \in A, b \in B : f[b] <= f[a]
  PROVE  SumOf(f, B) * Cardinality(A) <= SumOf(f, A) * Cardinality(B)
<1>1. PICK m \in Nat : (\A a \in A : m <= f[a]) /\ (\A b \in B : f[b] <= m)
  <2> DEFINE S == {f[a] : a \in A}
  <2>1. S \subseteq Nat /\ S # {}
    OBVIOUS
  <2>2. PICK m \in S : \A k \in S : m <= k
    <3> HIDE DEF S
    <3> QED BY <2>1, Least
  <2> QED BY <2>1, <2>2
<1>2. /\ SumOf(f, A) \in Nat /\ SumOf(f, B) \in Nat
      /\ Cardinality(A) \in Nat /\ Cardinality(B) \in Nat
  BY SumType, FS_CardinalityType
<1>3. m * Cardinality(A) <= SumOf(f, A) /\ SumOf(f, B) <= m * Cardinality(B)
  BY <1>1, SumBounds
<1> QED BY ONLY <1>2, <1>3, m \in Nat, CrossProducts

\* The days of a window that have calls, and their latencies.
LEMMA ObservedType ==
  ASSUME MartTypeOK, NEW D
  PROVE  IsFiniteSet(Observed(D)) /\ \A d \in Observed(D) : ms[d] \in Nat
<1>1. IsFiniteSet(History)
  BY FS_Interval, MartBoundsOK DEF History
<1>2. Observed(D) \subseteq History
  BY DEF Observed
<1>3. \A d \in Observed(D) : ms[d] \in Latencies
  BY DEF Observed, MartTypeOK
<1> QED BY <1>1, <1>2, <1>3, FS_Subset, MartBoundsOK

\* A ratio is the rounded quotient of two averages of observed days.
LEMMA RatioOfWindows ==
  ASSUME MartTypeOK, NEW X, NEW Y, Ratio(X \cap History, Y \cap History) # None
  PROVE  LET a == MsSum(Observed(X)) * Cardinality(Observed(Y))
             b == MsSum(Observed(Y)) * Cardinality(Observed(X))
         IN /\ Observed(X) # {} /\ Observed(Y) # {}
            /\ a \in Nat /\ b \in Nat /\ b > 0
            /\ Ratio(X \cap History, Y \cap History) = Hundredths(a, b)
<1> DEFINE A == Observed(X)
           B == Observed(Y)
<1>1. A = {d \in X \cap History : ms[d] # None} /\ B = {d \in Y \cap History : ms[d] # None}
  BY DEF Observed
<1>2. IsFiniteSet(A) /\ IsFiniteSet(B) /\ \A d \in A \cup B : ms[d] \in Nat
  BY ObservedType
<1>3. A # {} /\ B # {} /\ MsSum(B) # 0
      /\ Ratio(X \cap History, Y \cap History) =
           Hundredths(MsSum(A) * Cardinality(B), MsSum(B) * Cardinality(A))
  <2> HIDE DEF A, B
  <2> QED BY <1>1, Zenon DEF Ratio
<1> HIDE DEF A, B
<1>4. MsSum(A) \in Nat /\ MsSum(B) \in Nat
  BY <1>2, SumType DEF MsSum
<1>5. Cardinality(A) \in Nat /\ Cardinality(B) \in Nat /\ Cardinality(A) # 0
  BY <1>2, <1>3, FS_CardinalityType, FS_EmptySet
<1>6. \A x, y \in Nat : x # 0 /\ y # 0 => x * y \in Nat /\ x * y > 0
  OBVIOUS
<1>7. MsSum(B) * Cardinality(A) \in Nat /\ MsSum(B) * Cardinality(A) > 0
  BY ONLY <1>3, <1>4, <1>5, <1>6
<1>8. MsSum(A) * Cardinality(B) \in Nat
  BY ONLY <1>4, <1>5
<1> QED BY <1>3, <1>7, <1>8 DEF A, B

\* Only a ratio below one is an improvement, only one above one a regression.
LEMMA SlowerHolds ==
  ASSUME RatioMeansSlower, MartTypeOK
  PROVE  SlowerIsNotImproved
<1> SUFFICES ASSUME NEW f \in Flips
    PROVE LET A == Observed(After(f, PlanWindow))
              B == Observed(Before(f, PlanWindow))
          IN /\ (\A a \in A, b \in B : ms[a] >= ms[b]) => PlanVerdict(f) # "IMPROVED"
             /\ (\A a \in A, b \in B : ms[a] <= ms[b]) => PlanVerdict(f) # "REGRESSED"
  BY Zenon DEF SlowerIsNotImproved
<1> DEFINE X == After(f, PlanWindow)
           Y == Before(f, PlanWindow)
           A == Observed(X)
           B == Observed(Y)
           r == Ratio(X \cap History, Y \cap History)
<1>0. RegressRatio \in Nat /\ RegressRatio > 100
  BY MartBoundsOK DEF RatioMeansSlower
<1>1. /\ PlanVerdict(f) = "REGRESSED" => r # None /\ r >= RegressRatio
      /\ PlanVerdict(f) = "IMPROVED" => r # None /\ r <= Hundredths(100, RegressRatio)
  BY Zenon DEF PlanVerdict
<1> HIDE DEF X, Y, r
<1>2. SUFFICES ASSUME r # None
      PROVE  /\ (\A a \in A, b \in B : ms[a] >= ms[b]) => ~(r <= Hundredths(100, RegressRatio))
             /\ (\A a \in A, b \in B : ms[a] <= ms[b]) => ~(r >= RegressRatio)
  BY <1>1, Zenon DEF X, Y
<1>3. PICK n, m : n = MsSum(A) * Cardinality(B) /\ m = MsSum(B) * Cardinality(A)
  OBVIOUS
<1>4. A # {} /\ B # {} /\ n \in Nat /\ m \in Nat /\ m > 0 /\ r = Hundredths(n, m)
  BY <1>2, <1>3, RatioOfWindows DEF r
<1>5. IsFiniteSet(A) /\ IsFiniteSet(B) /\ \A d \in A \cup B : ms[d] \in Nat
  BY ObservedType
<1> HIDE DEF A, B
<1>6. ASSUME \A a \in A, b \in B : ms[a] >= ms[b] PROVE ~(r <= Hundredths(100, RegressRatio))
  <2>1. \A a \in A, b \in B : ms[b] <= ms[a]
    BY <1>5, <1>6
  <2>2. m <= n
    BY ONLY <1>3, <1>4, <1>5, <2>1, AveragesFollow DEF MsSum
  <2>3. r >= 100 /\ r \in Nat
    BY <1>4, <2>2, RoundsUp, HundredthsType
  <2>4. Hundredths(100, RegressRatio) < 100 /\ Hundredths(100, RegressRatio) \in Nat
    BY <1>0, Improvement, HundredthsType
  <2> QED BY <2>3, <2>4
<1>7. ASSUME \A a \in A, b \in B : ms[a] <= ms[b] PROVE ~(r >= RegressRatio)
  <2>1. \A b \in B, a \in A : ms[a] <= ms[b]
    BY <1>5, <1>7
  <2>2. n <= m
    BY ONLY <1>3, <1>4, <1>5, <2>1, AveragesFollow DEF MsSum
  <2>3. r < 101 /\ r \in Nat
    BY <1>4, <2>2, RoundsDown, HundredthsType
  <2> QED BY <1>0, <2>3
<1> QED BY <1>6, <1>7

-----------------------------------------------------------------------------
(* Slopes.                                                                   *)

\* A window of at most 200 days (30 unless set otherwise): a size may grow by a
\* byte from one end of it to the other, and a slope below half a hundredth of a
\* byte per day is shown, and judged, as none.
WindowIsShort == SizeWindow <= 200

\* The numerator and the denominator of regr_slope, with w the products u * v.
Spread(u, v, w, T) == Cardinality(T) * SumOf(w, T) - SumOf(u, T) * SumOf(v, T)
Products(u, v, w, T) ==
  \A i \in T : u[i] \in Nat /\ v[i] \in Nat /\ w[i] = u[i] * v[i]

\* t[i] is the product of the distances from m, (u[i] - u[m]) * (v[i] - v[m]).
FromPoint(m, u, v, w, t, T) ==
  \A i \in T \ {m} : /\ t[i] \in Nat
                     /\ t[i] + u[m] * v[i] + v[m] * u[i] = w[i] + u[m] * v[m]

\* One more point in the spread, as arithmetic.
LEMMA SpreadArithmetic ==
  ASSUME NEW a \in Int, NEW b \in Int, NEW U \in Int, NEW V \in Int, NEW S \in Int,
         NEW n \in Int, NEW z \in Int,
         z + a * V + b * U = S + (a * b) * n
  PROVE  (n + 1) * (a * b + S) - (a + U) * (b + V) = n * S - U * V + z
<1>1. (n + 1) * (a * b + S) = (a * b) * n + n * S + a * b + S
  OBVIOUS
<1>2. (a + U) * (b + V) = a * b + a * V + b * U + U * V
  OBVIOUS
<1> QED BY <1>1, <1>2

\* A point adds the products of its distances from the other points.
LEMMA SpreadStep ==
  ASSUME NEW u, NEW v, NEW w, NEW t, NEW T, IsFiniteSet(T), NEW m \in T,
         Products(u, v, w, T), FromPoint(m, u, v, w, t, T)
  PROVE  Spread(u, v, w, T) = Spread(u, v, w, T \ {m}) + SumOf(t, T \ {m})
<1> USE DEF Products, FromPoint
<1>1. PICK R : R = T \ {m}
  OBVIOUS
<1>2. PICK a \in Nat, b \in Nat : a = u[m] /\ b = v[m]
  OBVIOUS
<1>3. /\ IsFiniteSet(R) /\ Cardinality(R) \in Nat /\ Cardinality(T) = Cardinality(R) + 1
  <2>1. IsFiniteSet(R) /\ Cardinality(R) = Cardinality(T) - 1 /\ Cardinality(T) \in Nat
    BY <1>1, FS_RemoveElement, FS_CardinalityType
  <2> QED BY <2>1, FS_CardinalityType
<1>4. \A i \in T : u[i] \in Nat /\ v[i] \in Nat /\ w[i] \in Nat
  OBVIOUS
<1>5. /\ SumOf(u, T) = a + SumOf(u, R)
      /\ SumOf(v, T) = b + SumOf(v, R)
      /\ SumOf(w, T) = a * b + SumOf(w, R)
  BY <1>1, <1>2, <1>4, SumWithout
<1>6. PICK U \in Nat, V \in Nat, S \in Nat, z \in Nat, n \in Nat :
        /\ U = SumOf(u, R) /\ V = SumOf(v, R) /\ S = SumOf(w, R) /\ z = SumOf(t, R)
        /\ n = Cardinality(R)
  BY <1>1, <1>3, <1>4, SumType
<1>7. z + a * V + b * U = S + (a * b) * n
  <2> DEFINE f == [i \in R |-> a * v[i]]
             g == [i \in R |-> b * u[i]]
             c == [i \in R |-> a * b]
             h == [i \in R |-> t[i] + f[i]]
             k == [i \in R |-> h[i] + g[i]]
             l == [i \in R |-> w[i] + c[i]]
  <2>1. \A i \in R : /\ u[i] \in Nat /\ v[i] \in Nat /\ w[i] \in Nat /\ t[i] \in Nat
                     /\ t[i] + a * v[i] + b * u[i] = w[i] + a * b
    BY <1>1, <1>2, <1>4
  <2>2. \A i \in R : /\ f[i] = a * v[i] /\ g[i] = b * u[i] /\ c[i] = a * b
                     /\ h[i] = t[i] + f[i] /\ k[i] = h[i] + g[i] /\ l[i] = w[i] + c[i]
    OBVIOUS
  <2> HIDE DEF f, g, c, h, k, l
  <2>3. \A i \in R : /\ f[i] \in Nat /\ g[i] \in Nat /\ c[i] \in Nat /\ h[i] \in Nat
                     /\ k[i] = l[i]
    <3> SUFFICES ASSUME NEW i \in R
                 PROVE  /\ f[i] \in Nat /\ g[i] \in Nat /\ c[i] \in Nat /\ h[i] \in Nat
                        /\ k[i] = l[i]
      OBVIOUS
    <3>1. f[i] \in Nat /\ g[i] \in Nat /\ c[i] \in Nat
      BY <2>1, <2>2
    <3>2. t[i] \in Nat /\ t[i] + f[i] + g[i] = w[i] + c[i]
      BY <2>1, <2>2
    <3> QED BY <2>2, <3>1, <3>2
  <2>4. SumOf(f, R) = a * V /\ SumOf(g, R) = b * U
    BY <1>3, <1>6, <2>1, <2>2, SumScaled
  <2>5. SumOf(c, R) = (a * b) * n
    <3>1. PICK p \in Nat : p = a * b
      OBVIOUS
    <3>2. \A i \in R : c[i] = p
      BY <2>2, <3>1
    <3>3. SumOf(c, R) = p * Cardinality(R)
      BY ONLY <1>3, <3>2, p \in Nat, SumOfConstant
    <3> QED BY <1>6, <3>1, <3>3
  <2>6. SumOf(h, R) = z + a * V
    BY <1>3, <1>6, <2>1, <2>2, <2>3, <2>4, SumOfSums
  <2>7. SumOf(k, R) = SumOf(h, R) + SumOf(g, R)
    BY <1>3, <2>2, <2>3, SumOfSums
  <2>8. SumOf(l, R) = S + (a * b) * n
    BY <1>3, <1>6, <2>1, <2>2, <2>3, <2>5, SumOfSums
  <2>9. SumOf(k, R) = SumOf(l, R)
    BY <2>3, SumCongruence
  <2> QED BY <2>4, <2>6, <2>7, <2>8, <2>9
<1>8. (n + 1) * (a * b + S) - (a + U) * (b + V) = n * S - U * V + z
  BY <1>7, SpreadArithmetic
<1> QED BY <1>1, <1>3, <1>5, <1>6, <1>8 DEF Spread

\* The product of two distances, multiplied out.
LEMMA TwoPoints ==
  ASSUME NEW a \in Nat, NEW b \in Nat, NEW c \in Nat, NEW e \in Nat
  PROVE  (a - b) * (c - e) + b * c + e * a = a * c + b * e
<1>1. (a - b) * (c - e) = a * c - a * e - b * c + b * e
  OBVIOUS
<1> QED BY <1>1

\* A square is a number, and that of a distance is positive.
LEMMA Squares ==
  ASSUME NEW a \in Nat, NEW b \in Nat
  PROVE  (a - b) * (a - b) \in Nat /\ (a # b => (a - b) * (a - b) >= 1)
<1>1. PICK d \in Int : d = a - b
  OBVIOUS
<1>2. d * d >= 0 /\ (d # 0 => d * d >= 1)
  <2>1. CASE d = 0
    BY <2>1
  <2>2. CASE d >= 1
    BY <2>2
  <2>3. CASE d <= -1
    BY <2>3
  <2> QED BY <2>1, <2>2, <2>3
<1> QED BY <1>1, <1>2

\* Between two days of a window a size that grows rises by a W-th of the days or more.
LEMMA GrowthOfTwo ==
  ASSUME NEW a \in Nat, NEW b \in Nat, NEW c \in Nat, NEW e \in Nat, NEW W \in Nat,
         a < b => c < e, b < a => e < c, a # b, a - b <= W, b - a <= W
  PROVE  /\ (a - b) * (c - e) \in Nat
         /\ (a - b) * (a - b) <= W * ((a - b) * (c - e))
<1>1. \A d, g \in Nat : 1 <= d /\ d <= W /\ 1 <= g => d * g \in Nat /\ d * d <= W * (d * g)
  <2> SUFFICES ASSUME NEW d \in Nat, NEW g \in Nat, 1 <= d, d <= W, 1 <= g
               PROVE  d * g \in Nat /\ d * d <= W * (d * g)
    OBVIOUS
  <2>1. d * 1 <= d * g /\ d * g \in Nat
    OBVIOUS
  <2>2. PICK p \in Nat : p = d * g /\ d <= p
    BY <2>1
  <2>3. d * d <= W * d
    OBVIOUS
  <2>4. W * d <= W * p
    BY <2>2
  <2>5. d * d \in Nat /\ W * d \in Nat /\ W * p \in Nat
    OBVIOUS
  <2> QED BY <2>2, <2>3, <2>4, <2>5
<1>2. CASE a > b
  <2>1. a - b \in Nat /\ 1 <= a - b /\ c - e \in Nat /\ 1 <= c - e
    BY <1>2
  <2> QED BY <1>1, <2>1
<1>3. CASE a < b
  <2>1. b - a \in Nat /\ 1 <= b - a /\ e - c \in Nat /\ 1 <= e - c
    BY <1>3
  <2>2. (a - b) * (c - e) = (b - a) * (e - c) /\ (a - b) * (a - b) = (b - a) * (b - a)
    OBVIOUS
  <2> QED BY <1>1, <2>1, <2>2
<1> QED BY <1>2, <1>3

\* Days are spread: the denominator of the slope is positive.
LEMMA DaysSpread ==
  ASSUME NEW T, IsFiniteSet(T), NEW x, NEW xx,
         \A i \in T : i \in Nat /\ x[i] = i /\ xx[i] = i * i
  PROVE  /\ Spread(x, x, xx, T) \in Nat
         /\ Cardinality(T) >= 2 => Spread(x, x, xx, T) >= 1
<1> DEFINE S == {s \in SUBSET T : /\ Spread(x, x, xx, s) \in Nat
                                  /\ Cardinality(s) >= 2 => Spread(x, x, xx, s) >= 1}
<1>1. ASSUME NEW s \in SUBSET T, \A r \in SUBSET s : r # s => r \in S
      PROVE  s \in S
  <2>0. IsFiniteSet(s)
    BY FS_Subset
  <2>1. CASE s = {}
    <3>1. /\ Cardinality(s) = 0 /\ SumOf(x, s) = 0 /\ SumOf(xx, s) = 0
      BY <2>1, SumEmpty, FS_EmptySet
    <3> QED BY <3>1 DEF Spread
  <2>2. CASE s # {}
    <3>1. PICK m \in s : TRUE
      BY <2>2
    <3> DEFINE r == s \ {m}
               t == [i \in r |-> (i - m) * (i - m)]
    <3>2. \A i \in r : t[i] \in Nat /\ t[i] >= 1
      <4> SUFFICES ASSUME NEW i \in r PROVE t[i] \in Nat /\ t[i] >= 1
        OBVIOUS
      <4>1. i \in Nat /\ m \in Nat /\ i # m /\ t[i] = (i - m) * (i - m)
        BY <3>1
      <4> HIDE DEF t, r
      <4> QED BY <4>1, Squares
    <3>3. \A i \in r : t[i] + x[m] * x[i] + x[m] * x[i] = xx[i] + x[m] * x[m]
      <4> SUFFICES ASSUME NEW i \in r
                   PROVE  t[i] + x[m] * x[i] + x[m] * x[i] = xx[i] + x[m] * x[m]
        OBVIOUS
      <4>1. i \in Nat /\ m \in Nat /\ x[i] = i /\ x[m] = m /\ xx[i] = i * i
            /\ t[i] = (i - m) * (i - m)
        BY <3>1
      <4>2. (i - m) * (i - m) + m * i + m * i = i * i + m * m
        BY <4>1, TwoPoints
      <4> HIDE DEF t, r
      <4> QED BY <4>1, <4>2
    <3> HIDE DEF t
    <3>4. Spread(x, x, xx, s) = Spread(x, x, xx, r) + SumOf(t, r)
      <4>1. m \in s /\ Products(x, x, xx, s) /\ FromPoint(m, x, x, xx, t, s)
        BY <3>1, <3>2, <3>3 DEF Products, FromPoint
      <4> QED BY ONLY <2>0, <4>1, SpreadStep
    <3>5. IsFiniteSet(r) /\ r \in S /\ SumOf(t, r) \in Nat
      <4>1. IsFiniteSet(r) /\ r \in S
        BY <1>1, <2>0, <3>1, FS_RemoveElement
      <4> HIDE DEF r
      <4> QED BY <3>2, <4>1, SumType
    <3>6. ASSUME Cardinality(s) >= 2 PROVE SumOf(t, r) >= 1
      <4>1. Cardinality(r) = Cardinality(s) - 1 /\ Cardinality(s) \in Nat
        BY <2>0, <3>1, FS_RemoveElement, FS_CardinalityType
      <4>2. Cardinality(r) >= 1 /\ Cardinality(r) \in Nat
        BY <3>6, <4>1
      <4> HIDE DEF r
      <4>3. 1 * Cardinality(r) <= SumOf(t, r)
        BY <3>2, <3>5, SumBounds
      <4> QED BY <3>5, <4>2, <4>3
    <3>7. PICK p \in Nat, q \in Nat : p = Spread(x, x, xx, r) /\ q = SumOf(t, r)
      BY <3>5
    <3>8. Spread(x, x, xx, s) = p + q
      BY <3>4, <3>7
    <3>9. Spread(x, x, xx, s) \in Nat /\ (Cardinality(s) >= 2 => Spread(x, x, xx, s) >= 1)
      BY ONLY <3>6, <3>7, <3>8
    <3> QED BY <3>9
  <2> QED BY <2>1, <2>2
<1> HIDE DEF S
<1>2. T \in S
  BY <1>1, InductOnSubsets
<1> QED BY <1>2 DEF S

\* A size that grows spreads with the days, at least by a W-th.
LEMMA GrowthSpreads ==
  ASSUME NEW T, IsFiniteSet(T), NEW x, NEW xx, NEW y, NEW xy, NEW W \in Nat,
         \A i \in T : /\ i \in Nat /\ x[i] = i /\ xx[i] = i * i
                      /\ y[i] \in Nat /\ xy[i] = i * y[i],
         \A i, j \in T : i < j => y[i] < y[j] /\ j - i <= W
  PROVE  /\ Spread(x, y, xy, T) \in Nat
         /\ Spread(x, x, xx, T) <= W * Spread(x, y, xy, T)
<1> DEFINE S == {s \in SUBSET T : /\ Spread(x, y, xy, s) \in Nat
                                  /\ Spread(x, x, xx, s) <= W * Spread(x, y, xy, s)}
<1>1. ASSUME NEW s \in SUBSET T, \A r \in SUBSET s : r # s => r \in S
      PROVE  s \in S
  <2>0. IsFiniteSet(s)
    BY FS_Subset
  <2>1. CASE s = {}
    <3>1. /\ Cardinality(s) = 0 /\ SumOf(x, s) = 0 /\ SumOf(xx, s) = 0
          /\ SumOf(y, s) = 0 /\ SumOf(xy, s) = 0
      BY <2>1, SumEmpty, FS_EmptySet
    <3> QED BY <3>1 DEF Spread
  <2>2. CASE s # {}
    <3>1. PICK m \in s : TRUE
      BY <2>2
    <3> DEFINE r == s \ {m}
               t == [i \in r |-> (i - m) * (i - m)]
               g == [i \in r |-> (i - m) * (y[i] - y[m])]
               h == [i \in r |-> W * g[i]]
    <3>2. \A i \in r : /\ t[i] \in Nat /\ g[i] \in Nat /\ h[i] \in Nat
                       /\ h[i] = W * g[i] /\ t[i] <= h[i]
      <4> SUFFICES ASSUME NEW i \in r
                   PROVE  /\ t[i] \in Nat /\ g[i] \in Nat /\ h[i] \in Nat
                          /\ h[i] = W * g[i] /\ t[i] <= h[i]
        OBVIOUS
      <4>1. /\ i \in Nat /\ m \in Nat /\ i # m /\ y[i] \in Nat /\ y[m] \in Nat
            /\ i < m => y[i] < y[m] /\ m - i <= W
            /\ m < i => y[m] < y[i] /\ i - m <= W
        BY <3>1
      <4>2. i - m <= W /\ m - i <= W
        BY <4>1
      <4>3. /\ t[i] = (i - m) * (i - m) /\ g[i] = (i - m) * (y[i] - y[m])
            /\ h[i] = W * g[i]
        OBVIOUS
      <4>4. (i - m) * (i - m) \in Nat
        BY <4>1, Squares
      <4>5. PICK a \in Nat, c \in Nat : a = y[i] /\ c = y[m]
        BY <4>1
      <4>6. (i - m) * (a - c) \in Nat /\ (i - m) * (i - m) <= W * ((i - m) * (a - c))
        BY ONLY <4>1, <4>2, <4>5, W \in Nat, GrowthOfTwo
      <4>7. PICK p \in Nat, q \in Nat : p = t[i] /\ q = g[i] /\ p <= W * q
        BY <4>3, <4>4, <4>5, <4>6
      <4> QED BY <4>3, <4>7
    <3>3. \A i \in r : t[i] + x[m] * x[i] + x[m] * x[i] = xx[i] + x[m] * x[m]
      <4> SUFFICES ASSUME NEW i \in r
                   PROVE  t[i] + x[m] * x[i] + x[m] * x[i] = xx[i] + x[m] * x[m]
        OBVIOUS
      <4>1. i \in Nat /\ m \in Nat /\ x[i] = i /\ x[m] = m /\ xx[i] = i * i
            /\ t[i] = (i - m) * (i - m)
        BY <3>1
      <4>2. (i - m) * (i - m) + m * i + m * i = i * i + m * m
        BY <4>1, TwoPoints
      <4> HIDE DEF t, r
      <4> QED BY <4>1, <4>2
    <3>4. \A i \in r : g[i] + x[m] * y[i] + y[m] * x[i] = xy[i] + x[m] * y[m]
      <4> SUFFICES ASSUME NEW i \in r
                   PROVE  g[i] + x[m] * y[i] + y[m] * x[i] = xy[i] + x[m] * y[m]
        OBVIOUS
      <4>1. i \in Nat /\ m \in Nat /\ x[i] = i /\ x[m] = m /\ xy[i] = i * y[i]
            /\ y[i] \in Nat /\ y[m] \in Nat /\ g[i] = (i - m) * (y[i] - y[m])
        BY <3>1
      <4> HIDE DEF t, r, g, h
      <4>2. (i - m) * (y[i] - y[m]) + m * y[i] + y[m] * i = i * y[i] + m * y[m]
        BY <4>1, TwoPoints
      <4> QED BY <4>1, <4>2
    <3> HIDE DEF t, g, h
    <3>5. m \in s /\ \A i \in s : /\ x[i] \in Nat /\ y[i] \in Nat
                                  /\ xx[i] = x[i] * x[i] /\ xy[i] = x[i] * y[i]
      BY <3>1
    <3>6. Spread(x, x, xx, s) = Spread(x, x, xx, r) + SumOf(t, r)
      <4>1. Products(x, x, xx, s) /\ FromPoint(m, x, x, xx, t, s)
        BY <3>2, <3>3, <3>5 DEF Products, FromPoint
      <4> QED BY ONLY <2>0, <3>1, <4>1, SpreadStep
    <3>7. Spread(x, y, xy, s) = Spread(x, y, xy, r) + SumOf(g, r)
      <4>1. Products(x, y, xy, s) /\ FromPoint(m, x, y, xy, g, s)
        BY <3>2, <3>4, <3>5 DEF Products, FromPoint
      <4> QED BY ONLY <2>0, <3>1, <4>1, SpreadStep
    <3>8. IsFiniteSet(r) /\ r \in S
      BY <1>1, <2>0, <3>1, FS_RemoveElement
    <3>9. Spread(x, x, xx, r) \in Nat
      <4>1. \A i \in r : i \in Nat /\ x[i] = i /\ xx[i] = i * i
        OBVIOUS
      <4> HIDE DEF r
      <4> QED BY <3>8, <4>1, DaysSpread
    <3>10. /\ Spread(x, y, xy, r) \in Nat
           /\ Spread(x, x, xx, r) <= W * Spread(x, y, xy, r)
      BY <3>8
    <3> HIDE DEF r
    <3>11. SumOf(h, r) = W * SumOf(g, r)
      BY <3>2, <3>8, SumScaled
    <3>12. SumOf(t, r) <= SumOf(h, r)
      BY <3>2, <3>8, SumIsMonotonic
    <3>13. SumOf(t, r) \in Nat /\ SumOf(g, r) \in Nat
      BY <3>2, <3>8, SumType
    <3>14. PICK p \in Nat, q \in Nat, k \in Nat, l \in Nat :
             /\ p = Spread(x, x, xx, r) /\ q = Spread(x, y, xy, r)
             /\ k = SumOf(t, r) /\ l = SumOf(g, r)
      BY <3>9, <3>10, <3>13
    <3>15. p <= W * q /\ k <= W * l
      BY <3>10, <3>11, <3>12, <3>14
    <3>16. W * (q + l) = W * q + W * l /\ W * q \in Nat /\ W * l \in Nat
      OBVIOUS
    <3>17. p + k <= W * (q + l)
      BY <3>15, <3>16
    <3>18. /\ Spread(x, y, xy, s) \in Nat
           /\ Spread(x, x, xx, s) <= W * Spread(x, y, xy, s)
      BY <3>6, <3>7, <3>14, <3>17
    <3> QED BY <3>18
  <2> QED BY <2>1, <2>2
<1> HIDE DEF S
<1>2. T \in S
  BY <1>1, InductOnSubsets
<1> QED BY <1>2 DEF S

\* The days of the window, and their sizes.
LEMMA RecentType ==
  ASSUME MartTypeOK, SizeDays # {}
  PROVE  /\ IsFiniteSet(Recent) /\ Cardinality(Recent) \in Nat
         /\ \A d \in Recent : d \in Nat /\ size[d] \in Nat
         /\ \A d, e \in Recent : e - d <= SizeWindow
         /\ Current \in Nat
<1>0. LastDay \in Nat /\ SizeWindow \in Nat /\ Sizes \subseteq Nat
  BY MartBoundsOK
<1>1. IsFiniteSet(History) /\ History \subseteq Nat
  BY <1>0, FS_Interval DEF History
<1>2. SizeDays \in SUBSET History /\ \A d \in SizeDays : size[d] \in Nat
  BY <1>0 DEF SizeDays, MartTypeOK
<1>3. /\ Max(SizeDays) \in SizeDays /\ Max(SizeDays) \in Nat
      /\ \A d \in SizeDays : d <= Max(SizeDays)
  BY <1>2, LastOf
<1>4. IsFiniteSet(Recent)
  BY <1>1, <1>2, FS_Subset DEF Recent
<1>5. \A d, e \in Recent : e - d <= SizeWindow
  <2> SUFFICES ASSUME NEW d \in Recent, NEW e \in Recent PROVE e - d <= SizeWindow
    OBVIOUS
  <2>1. /\ d \in Nat /\ e \in Nat /\ d >= Max(SizeDays) - SizeWindow /\ e <= Max(SizeDays)
    BY <1>1, <1>2, <1>3 DEF Recent
  <2> QED BY <1>0, <1>3, <2>1
<1>6. \A d \in Recent : d \in Nat /\ size[d] \in Nat
  BY <1>1, <1>2 DEF Recent
<1> QED BY <1>2, <1>3, <1>4, <1>5, <1>6, FS_CardinalityType DEF Current

\* The slope is a number, and positive for a size that grows.
LEMMA SlopeIs ==
  ASSUME MartTypeOK, SizeDays # {}, ~Learning
  PROVE  /\ Slope \in Nat
         /\ WindowIsShort /\ (\A d, e \in Recent : d < e => size[d] < size[e]) => Slope # 0
<1>1. PICK R, x, xx, xy : /\ R = Recent
                          /\ x = [d \in Recent |-> d]
                          /\ xx = [d \in Recent |-> d * d]
                          /\ xy = [d \in Recent |-> d * size[d]]
  OBVIOUS
<1>2. PICK num, den : num = Spread(x, size, xy, R) /\ den = Spread(x, x, xx, R)
  OBVIOUS
<1>3. Slope = IF num <= 0 THEN 0 ELSE Hundredths(num, den)
  BY <1>1, <1>2, Zenon DEF Slope, Spread
<1>4. /\ IsFiniteSet(R) /\ Cardinality(R) \in Nat
      /\ \A i \in R : /\ i \in Nat /\ x[i] = i /\ xx[i] = i * i
                      /\ size[i] \in Nat /\ xy[i] = i * size[i]
      /\ \A i, j \in R : j - i <= SizeWindow
  BY <1>1, RecentType
<1>5. Cardinality(R) >= 2
  BY <1>1, <1>4, MartBoundsOK DEF Learning
<1>6. den \in Nat /\ den >= 1
  <2>1. \A i \in R : i \in Nat /\ x[i] = i /\ xx[i] = i * i
    BY <1>4
  <2> QED BY ONLY <1>2, <1>4, <1>5, <2>1, DaysSpread
<1>7. SumOf(x, R) \in Nat /\ SumOf(xx, R) \in Nat /\ SumOf(size, R) \in Nat
      /\ SumOf(xy, R) \in Nat
  <2>1. \A i \in R : x[i] \in Nat /\ xx[i] \in Nat /\ size[i] \in Nat /\ xy[i] \in Nat
    BY <1>4
  <2> QED BY <1>4, <2>1, SumType
<1>8. num \in Int
  <2>1. PICK c \in Nat, a \in Nat, b \in Nat, e \in Nat :
          c = Cardinality(R) /\ a = SumOf(xy, R) /\ b = SumOf(x, R) /\ e = SumOf(size, R)
    BY <1>4, <1>7
  <2>2. num = c * a - b * e
    BY <1>2, <2>1 DEF Spread
  <2>3. c * a \in Int /\ b * e \in Int
    OBVIOUS
  <2> QED BY <2>2, <2>3
<1>9. Slope \in Nat
  <2>1. CASE num <= 0
    BY <1>3, <2>1
  <2>2. CASE num > 0
    <3>1. num \in Nat /\ Hundredths(num, den) \in Nat
      BY <1>6, <1>8, <2>2, HundredthsType
    <3> QED BY <1>3, <1>8, <2>2, <3>1
  <2> QED BY <1>8, <2>1, <2>2
<1>10. ASSUME WindowIsShort, \A d, e \in Recent : d < e => size[d] < size[e]
       PROVE  Slope # 0
  <2>1. PICK W \in Nat : W = SizeWindow /\ W <= 200
    BY <1>10, MartBoundsOK DEF WindowIsShort
  <2>2. \A i, j \in R : i < j => size[i] < size[j] /\ j - i <= W
    BY <1>1, <1>4, <1>10, <2>1
  <2>3. PICK y : y = size
    OBVIOUS
  <2>4. num \in Nat /\ den <= W * num
    <3>1. /\ \A i \in R : /\ i \in Nat /\ x[i] = i /\ xx[i] = i * i
                          /\ y[i] \in Nat /\ xy[i] = i * y[i]
          /\ \A i, j \in R : i < j => y[i] < y[j] /\ j - i <= W
      BY <1>4, <2>2, <2>3
    <3>2. Spread(x, y, xy, R) \in Nat /\ Spread(x, x, xx, R) <= W * Spread(x, y, xy, R)
      BY ONLY <1>4, <3>1, W \in Nat, GrowthSpreads
    <3> QED BY <1>2, <2>3, <3>2
  <2>5. W * num <= 200 * num
    BY <2>1, <2>4
  <2>6. W * num \in Nat
    BY <2>4
  <2>7. 200 * num >= den /\ num > 0
    BY <1>6, <2>4, <2>5, <2>6
  <2>8. /\ 200 * num + den >= 1 * (2 * den) /\ 200 * num + den \in Nat
        /\ 2 * den \in Nat /\ 2 * den > 0
    BY <1>6, <2>4, <2>7
  <2>9. Hundredths(num, den) >= 1 /\ Hundredths(num, den) \in Nat
    BY <1>6, <2>4, <2>8, DivAtLeast, HundredthsType DEF Hundredths
  <2>10. Slope = Hundredths(num, den)
    BY <1>3, <2>4, <2>7
  <2> QED BY <2>9, <2>10
<1> QED BY <1>9, <1>10

\* Both the flag and the days are taken from the slope and the missing bytes.
LEMMA FlagHolds ==
  ASSUME WindowIsShort, MartTypeOK
  PROVE  FlagMatchesDays
<1> SUFFICES ASSUME SizeDays # {}
    PROVE /\ DaysToThreshold # None => RiskFlag \in {"d30", "d90", "ok"}
          /\ RiskFlag = "d30" => DaysToThreshold \in 0..30 \/ Threshold <= Current
          /\ RiskFlag = "d90" => DaysToThreshold \in 30..90
          /\ RiskFlag = "ok"  => DaysToThreshold >= 90
          /\ RiskFlag = "stable_or_shrinking" => ~(\A d, e \in Recent : d < e => size[d] < size[e])
  BY Zenon DEF FlagMatchesDays
<1>0. Threshold \in Nat /\ Current \in Nat
  BY MartBoundsOK, RecentType
<1>1. DaysToThreshold # None => RiskFlag \in {"d30", "d90", "ok"}
  BY DEF DaysToThreshold, RiskFlag
<1>2. RiskFlag = "stable_or_shrinking" => ~(\A d, e \in Recent : d < e => size[d] < size[e])
  <2>1. RiskFlag = "stable_or_shrinking" => ~Learning /\ Slope = 0
    BY DEF RiskFlag
  <2> QED BY <2>1, SlopeIs
<1>3. SUFFICES ASSUME ~Learning, Slope # 0
      PROVE  /\ RiskFlag = "d30" => DaysToThreshold \in 0..30 \/ Threshold <= Current
             /\ RiskFlag = "d90" => DaysToThreshold \in 30..90
             /\ RiskFlag = "ok"  => DaysToThreshold >= 90
  <2>1. RiskFlag \in {"d30", "d90", "ok"} => ~Learning /\ Slope # 0
    BY DEF RiskFlag
  <2> QED BY <1>1, <1>2, <1>3, <2>1
<1>4. PICK v \in Nat, g \in Int : v = Slope /\ v > 0 /\ g = (Threshold - Current) * 100
  BY <1>0, <1>3, SlopeIs
<1>5. /\ RiskFlag = "d30" => g <= 30 * v
      /\ RiskFlag = "d90" => g > 30 * v /\ g <= 90 * v
      /\ RiskFlag = "ok" => g > 90 * v
  BY <1>3, <1>4 DEF RiskFlag
<1>6. Threshold > Current => DaysToThreshold = g \div v
  BY <1>0, <1>3, <1>4 DEF DaysToThreshold
<1>7. Threshold > Current <=> g > 0
  BY <1>0, <1>4
<1>8. ASSUME RiskFlag = "d30", Threshold > Current PROVE DaysToThreshold \in 0..30
  <2>1. g < 31 * v /\ g \in Nat
    BY <1>4, <1>5, <1>7, <1>8
  <2>2. g \div v < 31 /\ g \div v \in Nat
    BY <1>4, <2>1, DivIsBelow
  <2> QED BY <1>6, <1>8, <2>2
<1>9. ASSUME RiskFlag = "d90" PROVE DaysToThreshold \in 30..90
  <2>1. g >= 30 * v /\ g < 91 * v /\ g \in Nat /\ g > 0
    BY <1>4, <1>5, <1>9
  <2>2. g \div v < 91 /\ g \div v >= 30 /\ g \div v \in Nat
    BY <1>4, <2>1, DivIsBelow, DivAtLeast
  <2> QED BY <1>6, <1>7, <2>1, <2>2
<1>10. ASSUME RiskFlag = "ok" PROVE DaysToThreshold >= 90
  <2>1. g >= 90 * v /\ g \in Nat /\ g > 0
    BY <1>4, <1>5, <1>10
  <2>2. g \div v >= 90
    BY <1>4, <2>1, DivAtLeast
  <2> QED BY <1>6, <1>7, <2>1, <2>2
<1> QED BY <1>0, <1>8, <1>9, <1>10

-----------------------------------------------------------------------------
(* The theorems about the marts.                                             *)

\* A verdict on a plan change is final when its window has passed, and the cause a
\* configuration change is charged with when the last window behind it has: the
\* window join of mart_plan_regression and the axes of mart_config_impact.
THEOREM VerdictsAreFinal == MartSpec => VerdictsBecomeFinal
<1>1. MartTypeOK /\ [NextDay]_martVars =>
        [/\ \A f \in Flips : today > f + PlanWindow => PlanVerdict(f)' = PlanVerdict(f)
         /\ today > ChangeDay + ImpactWindow + PlanWindow => Impact' = Impact]_martVars
  BY VerdictStep
<1> QED BY <1>1, MartsTypeCorrect, PTL DEF MartSpec, VerdictsBecomeFinal

\* A query slower on every day after a flip than on any day before it is not
\* reported as improved, nor the opposite as regressed, whatever the number of days
\* with calls on either side (avg and round of mart_plan_regression).
THEOREM SlowerQueriesAreNotImproved == RatioMeansSlower => (MartSpec => []SlowerIsNotImproved)
<1> SUFFICES ASSUME RatioMeansSlower PROVE MartSpec => []SlowerIsNotImproved
  OBVIOUS
<1>1. MartTypeOK => SlowerIsNotImproved
  BY SlowerHolds
<1> QED BY <1>1, MartsTypeCorrect, PTL

\* Days without query rows turn no backup into a breach, and only a backup ends
\* one: mart_backup_rpo counts from the newest day of the facts.
THEOREM BackupsAreJudgedByTheFacts == MartSpec => BackupIsNotThePipeline
<1>1. MartTypeOK /\ MartTypeOK' /\ [NextDay]_martVars =>
        [/\ seen' = seen /\ BackupStatus = "ok" => BackupStatus' = "ok"
         /\ BackupStatus = "breach" /\ BackupStatus' = "ok" => backup' # backup]_martVars
  BY BackupStep
<1> QED BY <1>1, MartsTypeCorrect, PTL DEF MartSpec, BackupIsNotThePipeline

\* The risk flag and the days to the threshold of mart_capacity_forecast tell the
\* same, and an instance that has grown day by day is not called stable.
THEOREM FlagsMatchDays == WindowIsShort => (MartSpec => []FlagMatchesDays)
<1> SUFFICES ASSUME WindowIsShort PROVE MartSpec => []FlagMatchesDays
  OBVIOUS
<1>1. MartTypeOK => FlagMatchesDays
  BY FlagHolds
<1> QED BY <1>1, MartsTypeCorrect, PTL

=============================================================================
