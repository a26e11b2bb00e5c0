----------------------------- MODULE FiniteSums -----------------------------
(***************************************************************************)
(* Sums over a finite set, as MapThenSumSet adds them up.  The definition  *)
(* is recursive: it takes the elements out in an order of its own.  That   *)
(* any element may be taken out first, and with it everything one expects  *)
(* of a sum, is proved by looking at a smallest set for which it fails:    *)
(* the cardinalities of the failing sets have a least element, because the *)
(* order of the natural numbers is well-founded.                           *)
(***************************************************************************)
EXTENDS FiniteSetsExt, FiniteSetTheorems, TLAPS

(* The sum of f over S *)
Sum(f, S) == MapThenSumSet(LAMBDA x : f[x], S)

(* The element the definition takes out of T *)
Chosen(T) == CHOOSE x \in T : TRUE

(* h adds f up over every part of S with at most n elements *)
AddsUp(h, f, S, n) ==
    /\ h \in [SUBSET S -> Int]
    /\ \A T \in SUBSET S :
          Cardinality(T) <= n =>
             h[T] = IF T = {} THEN 0 ELSE f[Chosen(T)] + h[T \ {Chosen(T)}]

-----------------------------------------------------------------------------
(* A set of natural numbers has a least element. *)
LEMMA LeastNumber ==
    ASSUME NEW N \in SUBSET Nat, N # {}
    PROVE  \E n \in N : \A m \in N : n <= m
  <1> DEFINE Less == {p \in Nat \X Nat : p[1] < p[2]}
  <1>1. IsWellFoundedOn(Less, Nat)
    BY NatLessThanWellFounded, Zenon DEF OpToRel
  <1>2. \E n \in N : \A m \in N : ~ (<<m, n>> \in Less)
    <2> HIDE DEF Less
    <2> QED BY <1>1, WFMin
  <1>3. PICK n \in N : \A m \in N : ~ (<<m, n>> \in Less)
    BY <1>2
  <1>4. ASSUME NEW m \in N PROVE n <= m
    <2>1. ~ (m < n)
      BY <1>3
    <2> QED BY <2>1
  <1> QED BY <1>4

(* The largest of finitely many numbers                                    *)
LEMMA LargestNumber ==
    ASSUME NEW n \in Nat, NEW T \in SUBSET (1 .. n), T # {}
    PROVE  Max(T) \in T /\ \A m \in T : Max(T) >= m
  <1> DEFINE N == {n - m : m \in T}
  <1>0. \A m \in T : m \in Nat /\ n - m \in Nat
    OBVIOUS
  <1>1. N \in SUBSET Nat /\ N # {}
    BY <1>0, Zenon
  <1>2. PICK k \in N : \A j \in N : k <= j
    BY <1>1, LeastNumber
  <1>3. PICK m \in T : k = n - m
    BY <1>2
  <1>4. ASSUME NEW j \in T PROVE m >= j
    <2>1. n - m <= n - j
      BY <1>2, <1>3
    <2>2. m \in Nat /\ j \in Nat
      BY <1>0
    <2> QED
      BY <2>1, <2>2
  <1> QED
    BY <1>3, <1>4 DEF Max

(* What is left of a set of numbers without the largest                    *)
LEMMA LargestLeft ==
  ASSUME NEW n \in Nat, NEW k \in 1 .. n, NEW T \in SUBSET (1 .. k), T # {}
  PROVE  /\ Max(T) \in T /\ T \ {Max(T)} \in SUBSET (1 .. k - 1)
         /\ T \in SUBSET (1 .. n) /\ T \ {Max(T)} \in SUBSET (1 .. n)
  <1>1. k \in Nat /\ k <= n  OBVIOUS
  <1>2. Max(T) \in T /\ \A m \in T : Max(T) >= m  BY <1>1, LargestNumber
  <1>3. ASSUME NEW m \in T, m # Max(T) PROVE m \in 1 .. k - 1
    <2> DEFINE M == Max(T)
    <2>1. m \in 1 .. k /\ M \in 1 .. k /\ M >= m  BY <1>2
    <2> HIDE DEF M
    <2>2. m < M /\ M <= k  BY <1>1, <1>3, <2>1 DEF M
    <2> QED BY <1>1, <2>1, <2>2
  <1>4. \A m \in T : m \in 1 .. n
    <2>1. \A m \in 1 .. k : m \in 1 .. n  BY <1>1
    <2> QED BY <2>1
  <1> QED BY <1>2, <1>3, <1>4

(* There is such an h for every n: a least n without one would be one more *)
(* than a number that has one, which the elements of size n extend.        *)
LEMMA FunctionExists ==
    ASSUME NEW D, NEW f \in [D -> Int], NEW S \in SUBSET D, IsFiniteSet(S), NEW n \in Nat
    PROVE  \E h : AddsUp(h, f, S, n)
  <1> DEFINE Bad == {m \in Nat : ~ \E h : AddsUp(h, f, S, m)}
  <1>1. SUFFICES ASSUME Bad # {} PROVE FALSE
    OBVIOUS
  <1>2. PICK m \in Bad : \A k \in Bad : m <= k
    BY <1>1, LeastNumber
  <1>3. m # 0
    <2>1. AddsUp([T \in SUBSET S |-> 0], f, S, 0)
      <3>1. \A T \in SUBSET S : Cardinality(T) <= 0 => T = {}
        BY FS_Subset, FS_EmptySet, FS_CardinalityType
      <3> QED BY <3>1 DEF AddsUp
    <2> QED BY <2>1
  <1>4. m - 1 \in Nat /\ m - 1 \notin Bad
    BY <1>2, <1>3
  <1>5. PICK h : AddsUp(h, f, S, m - 1)
    BY <1>4
  <1> DEFINE g == [T \in SUBSET S |->
                      IF Cardinality(T) = m THEN f[Chosen(T)] + h[T \ {Chosen(T)}] ELSE h[T]]
  <1>6. \A T \in SUBSET S : T # {} => /\ Chosen(T) \in T
                                      /\ T \ {Chosen(T)} \in SUBSET S
                                      /\ Cardinality(T) \in Nat
                                      /\ Cardinality(T \ {Chosen(T)}) = Cardinality(T) - 1
    BY FS_Subset, FS_RemoveElement, FS_CardinalityType DEF Chosen
  <1>7. g \in [SUBSET S -> Int]
    <2> SUFFICES ASSUME NEW T \in SUBSET S PROVE g[T] \in Int
      OBVIOUS
    <2>1. CASE Cardinality(T) = m
      <3>1. T # {}
        BY <2>1, <1>3, FS_EmptySet
      <3> QED BY <3>1, <2>1, <1>5, <1>6 DEF AddsUp
    <2>2. CASE Cardinality(T) # m
      BY <2>2, <1>5 DEF AddsUp
    <2> QED BY <2>1, <2>2
  <1>8. ASSUME NEW T \in SUBSET S, Cardinality(T) <= m
        PROVE  g[T] = IF T = {} THEN 0 ELSE f[Chosen(T)] + g[T \ {Chosen(T)}]
    <2>1. CASE T = {}
      BY <2>1, <1>3, <1>4, <1>5, FS_EmptySet DEF AddsUp
    <2>2. CASE T # {}
      <3>1. g[T \ {Chosen(T)}] = h[T \ {Chosen(T)}]
        BY <2>2, <1>6, <1>8
      <3>2. CASE Cardinality(T) = m
        BY <3>1, <3>2, <2>2
      <3>3. CASE Cardinality(T) # m
        <4>1. Cardinality(T) <= m - 1
          <5>1. Cardinality(T) \in Nat /\ m \in Nat
            BY <2>2, <1>6
          <5> QED BY <5>1, <3>3, <1>8
        <4> QED BY <4>1, <3>3, <3>1, <2>2, <1>5 DEF AddsUp
      <3> QED BY <3>2, <3>3
    <2> QED BY <2>1, <2>2
  <1>9. AddsUp(g, f, S, m)
    BY <1>7, <1>8 DEF AddsUp
  <1> QED BY <1>9

(* What MapThenSumSet unfolds to *)
Unfolds(h, f, S) ==
    h = [T \in SUBSET S |-> IF T = {} THEN 0 ELSE f[Chosen(T)] + h[T \ {Chosen(T)}]]

(* The parts of a finite set are finite, and taking the chosen element out *)
(* of one leaves a smaller one.                                            *)
LEMMA SmallerPart ==
    ASSUME NEW S, IsFiniteSet(S), NEW T \in SUBSET S, T # {}
    PROVE  /\ Chosen(T) \in T
           /\ T \ {Chosen(T)} \in SUBSET S
           /\ Cardinality(T) \in Nat
           /\ Cardinality(T \ {Chosen(T)}) \in Nat
           /\ Cardinality(T \ {Chosen(T)}) < Cardinality(T)
  <1>1. Chosen(T) \in T
    BY DEF Chosen
  <1>2. IsFiniteSet(T) /\ Cardinality(T) \in Nat
    BY FS_Subset, FS_CardinalityType
  <1>3. IsFiniteSet(T \ {Chosen(T)}) /\ Cardinality(T \ {Chosen(T)}) = Cardinality(T) - 1
    BY <1>1, <1>2, FS_RemoveElement
  <1>4. Cardinality(T \ {Chosen(T)}) \in Nat
    BY <1>3, FS_CardinalityType
  <1> QED BY <1>1, <1>2, <1>3, <1>4

(* The recursion of MapThenSumSet has a solution. *)
LEMMA SumDefined ==
    ASSUME NEW D, NEW f \in [D -> Int], NEW S \in SUBSET D, IsFiniteSet(S)
    PROVE  \E h : h \in [SUBSET S -> Int] /\ Unfolds(h, f, S)
  <1>1. PICK h : AddsUp(h, f, S, Cardinality(S))
    BY FunctionExists, FS_CardinalityType
  <1>2. \A T \in SUBSET S : Cardinality(T) <= Cardinality(S)
    BY FS_Subset
  <1>3. Unfolds(h, f, S)
    BY <1>1, <1>2 DEF AddsUp, Unfolds
  <1> QED BY <1>1, <1>3 DEF AddsUp

(* Two such functions agree where both are defined. *)
LEMMA SumUnique ==
    ASSUME NEW S, IsFiniteSet(S), NEW P \in SUBSET S, NEW f, NEW h, NEW g,
           Unfolds(h, f, S), Unfolds(g, f, P)
    PROVE  \A T \in SUBSET P : g[T] = h[T]
  <1> DEFINE Bad == {T \in SUBSET P : g[T] # h[T]}
             Sizes == {Cardinality(T) : T \in Bad}
  <1>1. SUFFICES ASSUME Bad # {} PROVE FALSE
    OBVIOUS
  <1>2. Sizes # {} /\ Sizes \in SUBSET Nat
    <2>1. \A T \in SUBSET S : Cardinality(T) \in Nat
      BY FS_Subset, FS_CardinalityType
    <2> QED BY <1>1, <2>1
  <1>3. PICK n \in Sizes : \A m \in Sizes : n <= m
    BY <1>2, LeastNumber
  <1>4. PICK T \in Bad : n = Cardinality(T)
    BY <1>3
  <1>5. T # {}
    BY DEF Unfolds
  <1> DEFINE U == T \ {Chosen(T)}
  <1>6. U \in SUBSET P /\ Cardinality(U) < Cardinality(T) /\ Cardinality(U) \in Nat
        /\ Cardinality(T) \in Nat
    BY <1>5, SmallerPart
  <1>7. U \notin Bad
    <2> SUFFICES ASSUME U \in Bad PROVE FALSE
      OBVIOUS
    <2>1. Cardinality(T) <= Cardinality(U)
      BY <1>3, <1>4
    <2> QED BY <2>1, <1>6
  <1>8. g[U] = h[U]
    BY <1>6, <1>7
  <1> QED BY <1>5, <1>8 DEF Unfolds

(* The sums over all parts of S come from one function. *)
SumsBy(h, f, S) ==
    /\ h \in [SUBSET S -> Int]
    /\ Unfolds(h, f, S)
    /\ \A T \in SUBSET S : Sum(f, T) = h[T]

(* Every set has a function of that kind. *)
LEMMA SumsOf ==
    ASSUME NEW D, NEW f \in [D -> Int], NEW S \in SUBSET D, IsFiniteSet(S)
    PROVE  \E h : SumsBy(h, f, S)
  <1>1. PICK h : h \in [SUBSET S -> Int] /\ Unfolds(h, f, S)
    BY SumDefined
  <1>2. ASSUME NEW T \in SUBSET S PROVE Sum(f, T) = h[T]
    <2> DEFINE g == CHOOSE g : Unfolds(g, f, T)
    <2>1. Sum(f, T) = g[T]
      BY DEF Sum, MapThenSumSet, MapThenFoldSet, Unfolds, Chosen
    <2>2. Unfolds(g, f, T)
      BY SumDefined, FS_Subset
    <2> QED BY <1>1, <2>1, <2>2, SumUnique
  <1>3. SumsBy(h, f, S)
    BY <1>1, <1>2 DEF SumsBy
  <1> QED BY <1>3

-----------------------------------------------------------------------------
(* Nothing adds up to 0. *)
LEMMA SumEmpty == ASSUME NEW D, NEW f \in [D -> Int] PROVE Sum(f, {}) = 0
  <1>1. PICK h : SumsBy(h, f, {})
    BY SumsOf, FS_EmptySet
  <1> QED BY <1>1 DEF Unfolds, SumsBy

(* A sum of integers is an integer. *)
LEMMA SumInt ==
    ASSUME NEW D, NEW f \in [D -> Int], NEW S \in SUBSET D, IsFiniteSet(S)
    PROVE  Sum(f, S) \in Int
  <1>1. PICK h : SumsBy(h, f, S)
    BY SumsOf
  <1> QED BY <1>1 DEF SumsBy

(* The element the definition takes out *)
LEMMA SumChosen ==
    ASSUME NEW D, NEW f \in [D -> Int], NEW S \in SUBSET D, IsFiniteSet(S), S # {}
    PROVE  Sum(f, S) = f[Chosen(S)] + Sum(f, S \ {Chosen(S)})
  <1>1. PICK h : SumsBy(h, f, S)
    BY SumsOf
  <1> QED BY <1>1 DEF Unfolds, SumsBy

(* Any element may be taken out of a sum first. *)
LEMMA SumRemove ==
    ASSUME NEW D, NEW f \in [D -> Int], NEW S \in SUBSET D, IsFiniteSet(S), NEW z \in S
    PROVE  Sum(f, S) = f[z] + Sum(f, S \ {z})
  <1> DEFINE Bad == {T \in SUBSET S : \E x \in T : Sum(f, T) # f[x] + Sum(f, T \ {x})}
             Sizes == {Cardinality(T) : T \in Bad}
  <1>1. SUFFICES ASSUME Bad # {} PROVE FALSE
    OBVIOUS
  <1>2. Sizes # {} /\ Sizes \in SUBSET Nat
    <2>1. \A T \in SUBSET S : Cardinality(T) \in Nat
      BY FS_Subset, FS_CardinalityType
    <2> QED BY <1>1, <2>1
  <1>3. PICK n \in Sizes : \A m \in Sizes : n <= m
    BY <1>2, LeastNumber
  <1>4. PICK T \in Bad : n = Cardinality(T)
    BY <1>3
  <1>5. PICK x \in T : Sum(f, T) # f[x] + Sum(f, T \ {x})
    OBVIOUS
  <1> DEFINE c == Chosen(T)
  <1>6. c \in T
    BY <1>5 DEF Chosen
  <1>7. /\ T \in SUBSET D /\ IsFiniteSet(T)
        /\ \A U \in SUBSET T : U \in SUBSET D /\ IsFiniteSet(U) /\ Sum(f, U) \in Int
    BY FS_Subset, SumInt
  <1>8. ASSUME NEW y \in T, NEW w \in T \ {y}
        PROVE  Sum(f, T \ {y}) = f[w] + Sum(f, (T \ {y}) \ {w})
    <2>1. /\ Cardinality(T \ {y}) = Cardinality(T) - 1
          /\ Cardinality(T) \in Nat
      BY <1>7, FS_RemoveElement, FS_CardinalityType
    <2>2. T \ {y} \notin Bad
      <3> SUFFICES ASSUME T \ {y} \in Bad PROVE FALSE
        OBVIOUS
      <3>1. Cardinality(T) <= Cardinality(T \ {y})
        BY <1>3, <1>4
      <3> QED BY <2>1, <3>1
    <2> QED BY <2>2
  <1>9. Sum(f, T) = f[c] + Sum(f, T \ {c})
    BY <1>7, <1>6, SumChosen
  <1>10. c # x
    BY <1>9, <1>5
  <1>11. Sum(f, T \ {c}) = f[x] + Sum(f, (T \ {c}) \ {x})
    BY <1>6, <1>8, <1>10
  <1>12. Sum(f, T \ {x}) = f[c] + Sum(f, (T \ {x}) \ {c})
    BY <1>6, <1>8, <1>10
  <1>13. (T \ {c}) \ {x} = (T \ {x}) \ {c}
    OBVIOUS
  <1>14. /\ f[x] \in Int /\ f[c] \in Int
         /\ (T \ {c}) \ {x} \in SUBSET T
    BY <1>6, <1>7
  <1>15. Sum(f, (T \ {c}) \ {x}) \in Int
    BY <1>14, <1>7
  <1>16. Sum(f, T \ {x}) = f[c] + Sum(f, (T \ {c}) \ {x})
    BY <1>12, <1>13, Zenon
  <1>17. Sum(f, T) = f[x] + Sum(f, T \ {x})
    <2> HIDE DEF c, Bad
    <2> QED BY <1>9, <1>11, <1>14, <1>15, <1>16
  <1> QED BY <1>5, <1>17

(* A sum depends on the values of its elements only, and grows with them.  *)
LEMMA SumGrows ==
    ASSUME NEW D, NEW f \in [D -> Int], NEW E, NEW g \in [E -> Int],
           NEW S \in SUBSET (D \cap E), IsFiniteSet(S), \A x \in S : f[x] <= g[x]
    PROVE  Sum(f, S) <= Sum(g, S)
  <1> DEFINE Bad == {T \in SUBSET S : ~ (Sum(f, T) <= Sum(g, T))}
             Sizes == {Cardinality(T) : T \in Bad}
  <1>1. SUFFICES ASSUME Bad # {} PROVE FALSE
    OBVIOUS
  <1>2. Sizes # {} /\ Sizes \in SUBSET Nat
    <2>1. \A T \in SUBSET S : Cardinality(T) \in Nat
      BY FS_Subset, FS_CardinalityType
    <2> QED BY <1>1, <2>1
  <1>3. PICK n \in Sizes : \A m \in Sizes : n <= m
    BY <1>2, LeastNumber
  <1>4. PICK T \in Bad : n = Cardinality(T)
    BY <1>3
  <1>5. T # {}
    <2>1. Sum(f, {}) = 0 /\ Sum(g, {}) = 0
      BY SumEmpty
    <2> QED BY <2>1
  <1>6. PICK x : x \in T
    BY <1>5
  <1> DEFINE U == T \ {x}
  <1>7. /\ T \in SUBSET D /\ IsFiniteSet(T) /\ U \in SUBSET D /\ IsFiniteSet(U)
        /\ T \in SUBSET E /\ U \in SUBSET E
    BY FS_Subset
  <1>8. Sum(f, T) = f[x] + Sum(f, U) /\ Sum(g, T) = g[x] + Sum(g, U)
    BY <1>6, <1>7, SumRemove
  <1>9. Sum(f, U) <= Sum(g, U)
    <2>1. /\ Cardinality(U) = Cardinality(T) - 1
          /\ Cardinality(T) \in Nat
      BY <1>6, <1>7, FS_RemoveElement, FS_CardinalityType
    <2>2. U \notin Bad
      <3> SUFFICES ASSUME U \in Bad PROVE FALSE
        OBVIOUS
      <3>1. Cardinality(T) <= Cardinality(U)
        BY <1>3, <1>4
      <3> QED BY <2>1, <3>1
    <2> QED BY <2>2
  <1>10. /\ f[x] \in Int /\ g[x] \in Int /\ f[x] <= g[x]
         /\ Sum(f, U) \in Int /\ Sum(g, U) \in Int
    BY <1>6, <1>7, SumInt
  <1>11. Sum(f, T) <= Sum(g, T)
    BY <1>8, <1>9, <1>10
  <1> QED BY <1>11

(* It does not matter what f is outside the set. *)
LEMMA SumSame ==
    ASSUME NEW D, NEW f \in [D -> Int], NEW E, NEW g \in [E -> Int],
           NEW S \in SUBSET (D \cap E), IsFiniteSet(S), \A x \in S : f[x] = g[x]
    PROVE  Sum(f, S) = Sum(g, S)
  <1>1. \A x \in S : f[x] <= g[x] /\ g[x] <= f[x]
    OBVIOUS
  <1>2. Sum(f, S) <= Sum(g, S) /\ Sum(g, S) <= Sum(f, S)
    BY <1>1, SumGrows
  <1>3. Sum(f, S) \in Int /\ Sum(g, S) \in Int
    BY SumInt
  <1> QED BY <1>2, <1>3

(* Only one element counts differently. *)
LEMMA SumOne ==
    ASSUME NEW D, IsFiniteSet(D), NEW f \in [D -> Int], NEW g \in [D -> Int], NEW x \in D,
           \A y \in D \ {x} : f[y] = g[y]
    PROVE  Sum(f, D) - f[x] = Sum(g, D) - g[x]
  <1>1. IsFiniteSet(D \ {x})
    BY FS_RemoveElement
  <1>2. Sum(f, D \ {x}) = Sum(g, D \ {x})
    BY <1>1, SumSame
  <1>3. Sum(f, D) = f[x] + Sum(f, D \ {x}) /\ Sum(g, D) = g[x] + Sum(g, D \ {x})
    BY SumRemove
  <1>4. Sum(f, D \ {x}) \in Int /\ Sum(g, D \ {x}) \in Int
    BY <1>1, SumInt
  <1> QED BY <1>2, <1>3, <1>4

(* Two elements count differently. *)
LEMMA SumTwo ==
    ASSUME NEW D, IsFiniteSet(D), NEW f \in [D -> Int], NEW g \in [D -> Int],
           NEW x \in D, NEW y \in D, x # y,
           \A z \in D \ {x, y} : f[z] = g[z]
    PROVE  Sum(f, D) - f[x] - f[y] = Sum(g, D) - g[x] - g[y]
  <1> DEFINE h == [f EXCEPT ![x] = g[x]]
  <1>1. h \in [D -> Int] /\ h[x] = g[x] /\ h[y] = f[y]
        /\ (\A z \in D \ {x} : f[z] = h[z]) /\ (\A z \in D \ {y} : h[z] = g[z])
    OBVIOUS
  <1> HIDE DEF h
  <1>2. Sum(f, D) - f[x] = Sum(h, D) - h[x]
    BY <1>1, SumOne
  <1>3. Sum(h, D) - h[y] = Sum(g, D) - g[y]
    BY <1>1, SumOne
  <1>4. Sum(f, D) \in Int /\ Sum(g, D) \in Int /\ Sum(h, D) \in Int
    BY <1>1, SumInt
  <1> QED BY <1>1, <1>2, <1>3, <1>4

(* The sum over a part of D is a sum over D in which the rest counts 0. *)
LEMMA SumPart ==
    ASSUME NEW D, IsFiniteSet(D), NEW f \in [D -> Int], NEW S \in SUBSET D
    PROVE  Sum(f, S) = Sum([x \in D |-> IF x \in S THEN f[x] ELSE 0], D)
  <1> DEFINE g == [x \in D |-> IF x \in S THEN f[x] ELSE 0]
             Bad == {T \in SUBSET D : S \subseteq T /\ Sum(g, T) # Sum(f, S)}
             Sizes == {Cardinality(T) : T \in Bad}
  <1>1. SUFFICES ASSUME Bad # {} PROVE FALSE
    OBVIOUS
  <1>2. Sizes # {} /\ Sizes \in SUBSET Nat
    <2>1. \A T \in SUBSET D : Cardinality(T) \in Nat
      BY FS_Subset, FS_CardinalityType
    <2> QED BY <1>1, <2>1
  <1>3. PICK n \in Sizes : \A m \in Sizes : n <= m
    BY <1>2, LeastNumber
  <1>4. PICK T \in Bad : n = Cardinality(T)
    BY <1>3
  <1>5. g \in [D -> Int]
    OBVIOUS
  <1>6. T # S
    <2>1. Sum(g, S) = Sum(f, S)
      <3>1. IsFiniteSet(S)
        BY FS_Subset
      <3> QED BY <3>1, <1>5, SumSame
    <2> QED BY <2>1
  <1>7. PICK x \in T : x \notin S
    BY <1>6
  <1> DEFINE U == T \ {x}
  <1>8. /\ IsFiniteSet(T) /\ IsFiniteSet(U)
        /\ Cardinality(U) = Cardinality(T) - 1
        /\ Cardinality(T) \in Nat
    BY <1>7, FS_Subset, FS_RemoveElement, FS_CardinalityType
  <1>9. U \notin Bad
    <2> SUFFICES ASSUME U \in Bad PROVE FALSE
      OBVIOUS
    <2>1. Cardinality(T) <= Cardinality(U)
      BY <1>3, <1>4
    <2> QED BY <2>1, <1>8
  <1>10. Sum(g, U) = Sum(f, S)
    BY <1>9, <1>7
  <1>11. Sum(g, T) = g[x] + Sum(g, U)
    BY <1>5, <1>7, <1>8, SumRemove
  <1>12. g[x] = 0 /\ Sum(g, U) \in Int
    BY <1>5, <1>7, <1>8, SumInt
  <1> QED BY <1>10, <1>11, <1>12

(* A sum of zeroes is zero. *)
LEMMA SumZero ==
    ASSUME NEW D, IsFiniteSet(D), NEW f \in [D -> Int], \A x \in D : f[x] = 0
    PROVE  Sum(f, D) = 0
  <1> DEFINE g == [x \in D |-> IF x \in {} THEN f[x] ELSE 0]
  <1>1. f = g
    OBVIOUS
  <1>2. Sum(f, {}) = Sum(g, D)
    BY SumPart
  <1>3. Sum(f, {}) = 0
    BY SumEmpty
  <1> HIDE DEF g
  <1> QED BY <1>1, <1>2, <1>3
=============================================================================
