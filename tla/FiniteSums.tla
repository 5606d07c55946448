------------------------------ MODULE FiniteSums ------------------------------
(***************************************************************************)
(* Sums over finite sets, as MapThenSumSet computes them: what the proofs  *)
(* need to compare what tables and Contexts weigh.                         *)
(*                                                                         *)
(* MapThenSumSet folds a recursive function over the subsets of a set, in  *)
(* an order nobody knows.  That the function exists, that its value is     *)
(* independent of the order, and what follows from that is shown by        *)
(* induction on the size of a set; a counterexample would have a least     *)
(* size (LeastNumber).                                                     *)
(***************************************************************************)
EXTENDS Naturals, FiniteSetsExt, FiniteSetTheorems, WellFoundedInduction, TLAPS

\* The order of the numbers, as a relation.
Less == {ss \in Nat \X Nat : ss[1] < ss[2]}

\* A nonempty set of numbers has a least one.
LEMMA LeastNumber ==
  ASSUME NEW S \in SUBSET Nat, S # {}
  PROVE  \E t \in S : \A s \in S : t <= s
<1>1. IsWellFoundedOn(Less, Nat)
  BY NatLessThanWellFounded DEF OpToRel, Less
<1>2. PICK t \in S : \A s \in S : <<s, t>> \notin Less
  BY <1>1, WFMin
<1>3. ASSUME NEW s \in S
      PROVE  t <= s
  <2>1. <<s, t>> \in Nat \X Nat /\ <<s, t>>[1] = s /\ <<s, t>>[2] = t
    OBVIOUS
  <2>2. ~(s < t)
    BY <1>2, <2>1 DEF Less
  <2> QED
    BY <2>2
<1> QED
  BY <1>3

\* A set of numbers that has zero, and of each number the next, has them all.
LEMMA AllNumbers ==
  ASSUME NEW S \in SUBSET Nat, 0 \in S, \A n \in S : n + 1 \in S
  PROVE  S = Nat
<1> SUFFICES ASSUME Nat \ S # {} PROVE FALSE
  OBVIOUS
<1>1. PICK t \in Nat \ S : \A s \in Nat \ S : t <= s
  BY LeastNumber
<1>2. t # 0 /\ t - 1 \in Nat /\ t - 1 \in S
  BY <1>1
<1> QED
  BY <1>1, <1>2

-----------------------------------------------------------------------------
Total(f, S) == MapThenSumSet(LAMBDA x : f[x], S)

\* The element that is added next, and the function the fold computes.
Chosen(S) == CHOOSE x \in S : TRUE
Rest(S) == S \ {Chosen(S)}

IsSum(f, S, sum) ==
  sum = [s \in SUBSET S |-> IF s = {} THEN 0 ELSE f[Chosen(s)] + sum[Rest(s)]]

\* A smaller set is what is left without one element.
LEMMA RestIsSmaller ==
  ASSUME NEW S, IsFiniteSet(S), NEW x \in S
  PROVE  /\ IsFiniteSet(S \ {x})
         /\ Cardinality(S) \in Nat /\ Cardinality(S \ {x}) \in Nat
         /\ Cardinality(S) = Cardinality(S \ {x}) + 1
<1>1. /\ IsFiniteSet(S \ {x})
      /\ Cardinality(S \ {x}) = Cardinality(S) - 1
  BY FS_RemoveElement
<1>2. Cardinality(S) \in Nat /\ Cardinality(S \ {x}) \in Nat
  BY <1>1, FS_CardinalityType
<1> QED
  BY <1>1, <1>2

\* The element that is added next is one of the set.
LEMMA NextIsElement ==
  ASSUME NEW S, S # {}
  PROVE  Chosen(S) \in S
BY Zenon DEF Chosen

\* The fold is computed by a function of that kind, if there is one.
LEMMA TotalIsSum ==
  ASSUME NEW f, NEW S, NEW sum, IsSum(f, S, sum)
  PROVE  \E t : IsSum(f, S, t) /\ Total(f, S) = t[S]
<1> DEFINE it == CHOOSE g : IsSum(f, S, g)
<1>1. IsSum(f, S, it)
  BY Zenon
<1>2. Total(f, S) = it[S]
  BY Zenon DEF Total, MapThenSumSet, MapThenFoldSet, IsSum, Chosen, Rest
<1> QED
  BY <1>1, <1>2, Zenon

\* There is one: it is built for larger and larger subsets.
LEMMA SumExists ==
  ASSUME NEW S, IsFiniteSet(S), NEW f, \A x \in S : f[x] \in Nat
  PROVE  \E sum : IsSum(f, S, sum)
<1> DEFINE Small(n) == {s \in SUBSET S : Cardinality(s) <= n}
           Upto(n) == \E g : /\ g \in [Small(n) -> Nat]
                             /\ \A s \in Small(n) :
                                   g[s] = IF s = {} THEN 0 ELSE f[Chosen(s)] + g[Rest(s)]
           Good == {n \in Nat : Upto(n)}
<1>1. \A s \in SUBSET S : IsFiniteSet(s) /\ Cardinality(s) \in Nat
  BY FS_Subset, FS_CardinalityType
<1>2. ASSUME NEW n \in Nat, NEW s \in Small(n + 1), s # {}
      PROVE  Rest(s) \in Small(n) /\ f[Chosen(s)] \in Nat /\ Rest(s) \in Small(n + 1)
  <2>1. Chosen(s) \in s
    BY <1>2, NextIsElement
  <2>2. Cardinality(s) = Cardinality(Rest(s)) + 1 /\ Cardinality(Rest(s)) \in Nat
    BY <1>1, <2>1, RestIsSmaller DEF Rest
  <2> QED
    BY <1>1, <2>1, <2>2 DEF Rest
<1>3. Small(0) = {{}}
  BY <1>1, FS_EmptySet
<1>4. 0 \in Good
  <2> DEFINE g == [s \in {{}} |-> 0]
  <2>1. g \in [{{}} -> Nat] /\ \A s \in {{}} : s = {} /\ g[s] = 0
    OBVIOUS
  <2> HIDE DEF g, Small
  <2>2. Upto(0)
    BY <1>3, <2>1
  <2> QED
    BY <2>2
<1>5. ASSUME NEW n \in Good
      PROVE  n + 1 \in Good
  <2>1. PICK g : /\ g \in [Small(n) -> Nat]
                 /\ \A s \in Small(n) :
                       g[s] = IF s = {} THEN 0 ELSE f[Chosen(s)] + g[Rest(s)]
    BY <1>5
  <2> DEFINE h == [s \in Small(n + 1) |-> IF s = {} THEN 0 ELSE f[Chosen(s)] + g[Rest(s)]]
  <2> HIDE DEF Small
  <2>2. \A s \in Small(n + 1) : h[s] \in Nat
    BY <1>2, <2>1
  <2>3. h \in [Small(n + 1) -> Nat]
    BY <2>2
  <2>4. \A s \in Small(n) : s \in Small(n + 1) /\ h[s] = g[s]
    BY <1>1, <2>1 DEF Small
  <2>5. \A s \in Small(n + 1) :
           h[s] = IF s = {} THEN 0 ELSE f[Chosen(s)] + h[Rest(s)]
    BY <1>2, <2>4
  <2> HIDE DEF h
  <2> QED
    BY <2>3, <2>5
<1>6. Good = Nat
  <2> HIDE DEF Upto
  <2>1. Good \in SUBSET Nat
    OBVIOUS
  <2> HIDE DEF Good
  <2> QED
    BY <1>4, <1>5, <2>1, AllNumbers
<1>7. Upto(Cardinality(S))
  BY <1>1, <1>6
<1>8. Small(Cardinality(S)) = SUBSET S
  BY <1>1, FS_Subset
<1>9. PICK g : /\ g \in [SUBSET S -> Nat]
               /\ \A s \in SUBSET S :
                     g[s] = IF s = {} THEN 0 ELSE f[Chosen(s)] + g[Rest(s)]
  BY <1>7, <1>8
<1> QED
  BY <1>9 DEF IsSum

\* What holds of a set when it holds of the set without any one of its elements,
\* holds of every finite set.
LEMMA SubsetInduction ==
  ASSUME NEW S, IsFiniteSet(S), NEW G \in SUBSET (SUBSET S),
         \A s \in SUBSET S : (\A x \in s : s \ {x} \in G) => s \in G
  PROVE  G = SUBSET S
<1> SUFFICES ASSUME NEW b \in SUBSET S, b \notin G PROVE FALSE
  OBVIOUS
<1> DEFINE Sizes == {Cardinality(s) : s \in (SUBSET S) \ G}
<1>1. \A s \in SUBSET S : IsFiniteSet(s) /\ Cardinality(s) \in Nat
  BY FS_Subset, FS_CardinalityType
<1>2. Sizes \in SUBSET Nat /\ Sizes # {}
  BY <1>1
<1>3. PICK n \in Sizes : \A m \in Sizes : n <= m
  <2> HIDE DEF Sizes
  <2> QED
    BY <1>2, LeastNumber
<1>4. PICK s \in (SUBSET S) \ G : n = Cardinality(s)
  BY <1>3
<1>5. ASSUME NEW x \in s
      PROVE  s \ {x} \in G
  <2>1. Cardinality(s) = Cardinality(s \ {x}) + 1 /\ Cardinality(s \ {x}) \in Nat
    BY <1>1, RestIsSmaller
  <2>2. s \ {x} \in SUBSET S
    OBVIOUS
  <2>3. s \ {x} \notin G => n <= Cardinality(s \ {x})
    BY <1>3, <2>2
  <2> QED
    BY <1>4, <2>1, <2>3
<1> QED
  BY <1>4, <1>5

\* The function for a set agrees with the function for a larger one.
LEMMA SumsAgree ==
  ASSUME NEW f, NEW S, IsFiniteSet(S), NEW T \in SUBSET S,
         NEW g, IsSum(f, S, g), NEW h, IsSum(f, T, h)
  PROVE  g[T] = h[T]
<1> DEFINE G == {s \in SUBSET T : g[s] = h[s]}
<1>1. ASSUME NEW s \in SUBSET T, \A x \in s : s \ {x} \in G
      PROVE  s \in G
  <2>1. /\ g[s] = IF s = {} THEN 0 ELSE f[Chosen(s)] + g[Rest(s)]
        /\ h[s] = IF s = {} THEN 0 ELSE f[Chosen(s)] + h[Rest(s)]
    BY DEF IsSum
  <2>2. s # {} => g[Rest(s)] = h[Rest(s)]
    BY <1>1, NextIsElement DEF Rest
  <2> QED
    BY <2>1, <2>2
<1>2. IsFiniteSet(T)
  BY FS_Subset
<1>3. G \in SUBSET (SUBSET T)
  OBVIOUS
<1>4. G = SUBSET T
  <2> HIDE DEF G
  <2> QED
    BY <1>1, <1>2, <1>3, SubsetInduction
<1> QED
  BY <1>4

\* The sum of nothing, and the sum of a set by what is added next.
LEMMA TotalStep ==
  ASSUME NEW S, IsFiniteSet(S), NEW f, \A x \in S : f[x] \in Nat
  PROVE  Total(f, S) = IF S = {} THEN 0 ELSE f[Chosen(S)] + Total(f, Rest(S))
<1>1. PICK g : IsSum(f, S, g) /\ Total(f, S) = g[S]
  BY SumExists, TotalIsSum
<1>2. g[S] = IF S = {} THEN 0 ELSE f[Chosen(S)] + g[Rest(S)]
  BY <1>1 DEF IsSum
<1>3. Rest(S) \in SUBSET S /\ IsFiniteSet(Rest(S)) /\ \A x \in Rest(S) : f[x] \in Nat
  BY FS_Subset DEF Rest
<1>4. PICK h : IsSum(f, Rest(S), h) /\ Total(f, Rest(S)) = h[Rest(S)]
  BY <1>3, SumExists, TotalIsSum
<1>5. g[Rest(S)] = h[Rest(S)]
  BY <1>1, <1>3, <1>4, SumsAgree
<1> QED
  BY <1>1, <1>2, <1>4, <1>5

\* A sum of numbers is a number.
LEMMA TotalType ==
  ASSUME NEW S, IsFiniteSet(S), NEW f, \A x \in S : f[x] \in Nat
  PROVE  Total(f, S) \in Nat
<1> DEFINE G == {s \in SUBSET S : Total(f, s) \in Nat}
<1>1. ASSUME NEW s \in SUBSET S, \A x \in s : s \ {x} \in G
      PROVE  s \in G
  <2>1. Total(f, s) = IF s = {} THEN 0 ELSE f[Chosen(s)] + Total(f, Rest(s))
    BY TotalStep, FS_Subset
  <2>2. s # {} => f[Chosen(s)] \in Nat /\ Total(f, Rest(s)) \in Nat
    BY <1>1, NextIsElement DEF Rest
  <2> QED
    BY <2>1, <2>2
<1>2. G \in SUBSET (SUBSET S)
  OBVIOUS
<1>3. G = SUBSET S
  <2> HIDE DEF G
  <2> QED
    BY <1>1, <1>2, SubsetInduction
<1> QED
  BY <1>3

\* The order does not matter: any element may be added last.
LEMMA TotalRemove ==
  ASSUME NEW S, IsFiniteSet(S), NEW f, \A x \in S : f[x] \in Nat, NEW y \in S
  PROVE  Total(f, S) = f[y] + Total(f, S \ {y})
<1> DEFINE G == {s \in SUBSET S : \A x \in s : Total(f, s) = f[x] + Total(f, s \ {x})}
<1>1. ASSUME NEW s \in SUBSET S, \A x \in s : s \ {x} \in G, NEW x \in s
      PROVE  Total(f, s) = f[x] + Total(f, s \ {x})
  <2>1. PICK c \in s : c = Chosen(s) /\ Rest(s) = s \ {c}
    BY <1>1, NextIsElement DEF Rest
  <2>2. Total(f, s) = f[c] + Total(f, s \ {c})
    BY <1>1, <2>1, TotalStep, FS_Subset
  <2>3. CASE x # c
    <3>1. /\ Total(f, s \ {c}) = f[x] + Total(f, (s \ {c}) \ {x})
          /\ Total(f, s \ {x}) = f[c] + Total(f, (s \ {x}) \ {c})
      BY <1>1, <2>3
    <3>2. (s \ {c}) \ {x} = (s \ {x}) \ {c}
      OBVIOUS
    <3>3. f[x] \in Nat /\ f[c] \in Nat /\ Total(f, (s \ {c}) \ {x}) \in Nat
      <4>1. (s \ {c}) \ {x} \in SUBSET S
        OBVIOUS
      <4> QED
        BY <4>1, TotalType, FS_Subset
    <3> QED
      BY <2>2, <3>1, <3>2, <3>3
  <2> QED
    BY <2>2, <2>3
<1>2. G \in SUBSET (SUBSET S)
  OBVIOUS
<1>3. G = SUBSET S
  <2>1. \A s \in SUBSET S : (\A x \in s : s \ {x} \in G) => s \in G
    BY <1>1
  <2> HIDE DEF G
  <2> QED
    BY <1>2, <2>1, SubsetInduction
<1> QED
  BY <1>3

\* A part weighs no more than the whole.
LEMMA TotalMonotone ==
  ASSUME NEW S, IsFiniteSet(S), NEW f, \A x \in S : f[x] \in Nat, NEW T \in SUBSET S
  PROVE  Total(f, T) <= Total(f, S)
<1> DEFINE G == {s \in SUBSET S : \A p \in SUBSET s : Total(f, p) <= Total(f, s)}
<1>1. ASSUME NEW s \in SUBSET S, \A x \in s : s \ {x} \in G, NEW p \in SUBSET s
      PROVE  Total(f, p) <= Total(f, s)
  <2>1. /\ IsFiniteSet(s) /\ IsFiniteSet(p)
        /\ Total(f, s) \in Nat /\ Total(f, p) \in Nat
    BY TotalType, FS_Subset
  <2>2. CASE p # s
    <3>1. PICK x \in s : x \notin p
      BY <2>2
    <3>2. Total(f, p) <= Total(f, s \ {x})
      BY <1>1, <3>1
    <3>3. Total(f, s) = f[x] + Total(f, s \ {x}) /\ f[x] \in Nat
      BY <2>1, TotalRemove
    <3>4. Total(f, s \ {x}) \in Nat
      BY <2>1, TotalType, FS_Subset
    <3> QED
      BY <2>1, <3>2, <3>3, <3>4
  <2> QED
    BY <2>1, <2>2
<1>2. G \in SUBSET (SUBSET S)
  OBVIOUS
<1>3. G = SUBSET S
  <2>1. \A s \in SUBSET S : (\A x \in s : s \ {x} \in G) => s \in G
    BY <1>1
  <2> HIDE DEF G
  <2> QED
    BY <1>2, <2>1, SubsetInduction
<1> QED
  BY <1>3

==============================================================================
