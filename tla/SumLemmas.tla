------------------------------ MODULE SumLemmas ------------------------------
(***************************************************************************)
(* Sums over finite sets, for the proofs about byte counts, message counts *)
(* and levels.  The models sum with MapThenSumSet, which adds in the order *)
(* CHOOSE picks; here it is shown to be a sum: any element may come first, *)
(* only the values on the set count, and sizes of disjoint sets add up.    *)
(* Induction is over sets of numbers and sets of sets, so that no theorem  *)
(* takes an operator as a parameter.                                       *)
(***************************************************************************)
EXTENDS Integers, FiniteSetsExt, FiniteSetTheorems, WellFoundedInduction, TLAPS

\* A nonempty set of naturals has a least element.
LEMMA LeastNat ==
  ASSUME NEW T \in SUBSET Nat, T # {}
  PROVE  \E n \in T : \A m \in T : n <= m
<1> DEFINE Less == OpToRel(<, Nat)
<1>a. \A m, n \in Nat : <<m, n>> \in Less <=> m < n
    BY DEF OpToRel
<1>b. IsWellFoundedOn(Less, Nat)
    BY NatLessThanWellFounded
<1> HIDE DEF Less
<1>1. PICK n \in T : \A y \in T : ~(<<y, n>> \in Less)
    BY <1>b, WFMin
<1>2. ASSUME NEW m \in T PROVE n <= m
  <2>1. m \in Nat /\ n \in Nat
      OBVIOUS
  <2>2. ~(<<m, n>> \in Less)
      BY <1>1
  <2>3. ~(m < n)
      BY <1>a, <2>1, <2>2
  <2> QED BY <2>1, <2>3
<1> QED BY <1>2

\* A set that holds 0 and is closed under successor holds every natural number.
LEMMA NatSetInduction ==
  ASSUME NEW T, 0 \in T, \A n \in Nat : n \in T => n + 1 \in T
  PROVE  Nat \subseteq T
<1> SUFFICES ASSUME Nat \ T # {} PROVE FALSE
    OBVIOUS
<1>1. PICK n \in Nat \ T : \A m \in Nat \ T : n <= m
    BY LeastNat
<1>2. n - 1 \in Nat /\ n - 1 \notin T
    BY <1>1
<1> QED BY <1>1, <1>2

\* A set of sets that holds the empty set and is closed under adding one more
\* element of S holds the finite set S.
LEMMA FiniteSetInduction ==
  ASSUME NEW S, IsFiniteSet(S), NEW Q, {} \in Q,
         \A T \in SUBSET S : \A x \in S \ T : T \in Q => T \cup {x} \in Q
  PROVE  S \in Q
<1> DEFINE N == {n \in Nat : \A T \in SUBSET S : Cardinality(T) = n => T \in Q}
<1>0. ASSUME NEW T \in SUBSET S
      PROVE  IsFiniteSet(T) /\ Cardinality(T) \in Nat /\ (Cardinality(T) = 0 <=> T = {})
    BY FS_Subset, FS_CardinalityType, FS_EmptySet
<1>1. 0 \in N
    BY <1>0
<1>2. ASSUME NEW n \in Nat, n \in N PROVE n + 1 \in N
  <2>1. SUFFICES ASSUME NEW T \in SUBSET S, Cardinality(T) = n + 1 PROVE T \in Q
      OBVIOUS
  <2>2. PICK x \in T : TRUE
      BY <1>0, <2>1
  <2>3. Cardinality(T \ {x}) = n
    <3>1. IsFiniteSet(T)
        BY <1>0
    <3>2. Cardinality(T \ {x}) = Cardinality(T) - 1
        BY <2>2, <3>1, FS_RemoveElement
    <3> QED BY <2>1, <3>2
  <2>4. T \ {x} \in Q
      BY <1>2, <2>3
  <2>5. (T \ {x}) \cup {x} = T /\ x \in S \ (T \ {x})
      BY <2>2
  <2> QED BY <2>4, <2>5
<1>3. Nat \subseteq N
  <2> HIDE DEF N
  <2> QED BY <1>1, <1>2, NatSetInduction
<1> QED BY <1>0, <1>3

-----------------------------------------------------------------------------
\* An element of s, the one the library takes first.
AnyOf(s) == CHOOSE x \in s : TRUE

\* it[s] is the sum of f over s, for every subset s of S.
IsSum(it, f, S) ==
  it = [s \in SUBSET S |-> IF s = {} THEN 0 ELSE f[AnyOf(s)] + it[s \ {AnyOf(s)}]]

SumIter(f, S) == CHOOSE it : IsSum(it, f, S)

Sum(f, S) == SumIter(f, S)[S]

\* The library's sum of a function's values.
LEMMA SumDef ==
  ASSUME NEW f, NEW S
  PROVE  MapThenSumSet(LAMBDA x : f[x], S) = Sum(f, S)
BY DEF MapThenSumSet, MapThenFoldSet, Sum, SumIter, IsSum, AnyOf

\* The element the library takes first is an element.
LEMMA AnyIn == \A s : s # {} => AnyOf(s) \in s
BY DEF AnyOf

\* The library's recursive function exists on the subsets of a finite set.
LEMMA SumIterExists ==
  ASSUME NEW f, NEW S, IsFiniteSet(S)
  PROVE  IsSum(SumIter(f, S), f, S)
<1> DEFINE Upto(n) == {s \in SUBSET S : Cardinality(s) <= n}
           Step(it, s) == IF s = {} THEN 0 ELSE f[AnyOf(s)] + it[s \ {AnyOf(s)}]
           N == {n \in Nat : \E it : it = [s \in Upto(n) |-> Step(it, s)]}
<1>0. ASSUME NEW s \in SUBSET S
      PROVE  IsFiniteSet(s) /\ Cardinality(s) \in Nat /\ (Cardinality(s) = 0 <=> s = {})
    BY FS_Subset, FS_CardinalityType, FS_EmptySet
<1>1. ASSUME NEW n \in Nat, NEW s \in Upto(n + 1), s # {}
      PROVE  s \ {AnyOf(s)} \in Upto(n)
  <2>1. AnyOf(s) \in s /\ IsFiniteSet(s) /\ Cardinality(s) \in Nat /\ Cardinality(s) <= n + 1
      BY <1>0, <1>1, AnyIn
  <2>2. Cardinality(s \ {AnyOf(s)}) = Cardinality(s) - 1
      BY <2>1, FS_RemoveElement
  <2> QED BY <2>1, <2>2
<1>2. 0 \in N
  <2>1. \A s \in Upto(0) : s = {}
      BY <1>0
  <2> DEFINE it == [s \in Upto(0) |-> 0]
  <2>2. it = [s \in Upto(0) |-> Step(it, s)]
      BY <2>1
  <2> QED BY <2>2
<1>3. ASSUME NEW n \in Nat, n \in N PROVE n + 1 \in N
  <2>1. PICK old : old = [s \in Upto(n) |-> Step(old, s)]
      BY <1>3
  <2> DEFINE new == [s \in Upto(n + 1) |-> Step(old, s)]
  <2>2. ASSUME NEW s \in Upto(n) PROVE new[s] = old[s]
    <3>1. s \in Upto(n + 1)
        BY <1>0
    <3> QED BY <2>1, <3>1
  <2>3. ASSUME NEW s \in Upto(n + 1) PROVE Step(old, s) = Step(new, s)
    <3>1. CASE s = {}
        BY <3>1
    <3>2. CASE s # {}
      <4>1. old[s \ {AnyOf(s)}] = new[s \ {AnyOf(s)}]
        <5> HIDE DEF new, Upto
        <5> QED BY <1>1, <2>2, <3>2
      <4> HIDE DEF new
      <4> QED BY <3>2, <4>1
    <3> QED BY <3>1, <3>2
  <2>4. new = [s \in Upto(n + 1) |-> Step(new, s)]
    <3> HIDE DEF Step, Upto
    <3> QED BY <2>3
  <2>5. \E it : it = [s \in Upto(n + 1) |-> Step(it, s)]
    <3> HIDE DEF Step, Upto, new
    <3> QED BY <2>4
  <2> HIDE DEF Step, Upto, new
  <2> QED BY <2>5
<1>4. Cardinality(S) \in N
  <2> HIDE DEF N
  <2>1. Nat \subseteq N
      BY <1>2, <1>3, NatSetInduction
  <2> QED BY <2>1, FS_CardinalityType
<1>5. Upto(Cardinality(S)) = SUBSET S
    BY FS_Subset
<1>6. \E it : it = [s \in SUBSET S |-> Step(it, s)]
  <2>1. \E it : it = [s \in Upto(Cardinality(S)) |-> Step(it, s)]
      BY <1>4
  <2> HIDE DEF Step, Upto
  <2> QED BY <1>5, <2>1
<1>7. \E it : IsSum(it, f, S)
    BY <1>6 DEF IsSum
<1> QED BY <1>7 DEF SumIter

\* Such a function, at one set.
LEMMA IsSumAt ==
  ASSUME NEW f, NEW S, NEW it, IsSum(it, f, S), NEW s \in SUBSET S
  PROVE  it[s] = IF s = {} THEN 0 ELSE f[AnyOf(s)] + it[s \ {AnyOf(s)}]
BY DEF IsSum

\* The library's recursive function, at one set.
LEMMA SumIterAt ==
  ASSUME NEW f, NEW S, IsFiniteSet(S), NEW s \in SUBSET S
  PROVE  SumIter(f, S)[s] = IF s = {} THEN 0 ELSE f[AnyOf(s)] + SumIter(f, S)[s \ {AnyOf(s)}]
BY SumIterExists, IsSumAt

\* The sum over nothing.
LEMMA SumEmpty ==
  ASSUME NEW f PROVE Sum(f, {}) = 0
BY SumIterAt, FS_EmptySet DEF Sum

\* There is one such function, on a set and on its subsets.
LEMMA SumUnique ==
  ASSUME NEW f, NEW S, IsFiniteSet(S), NEW it, IsSum(it, f, S), NEW T \in SUBSET S
  PROVE  it[T] = Sum(f, T)
<1> DEFINE Q == {s \in SUBSET T : it[s] = SumIter(f, T)[s]}
           N == {n \in Nat : \A s \in SUBSET T : Cardinality(s) = n => s \in Q}
<1>0. IsFiniteSet(T)
    BY FS_Subset
<1>1. ASSUME NEW s \in SUBSET T
      PROVE  /\ it[s] = IF s = {} THEN 0 ELSE f[AnyOf(s)] + it[s \ {AnyOf(s)}]
             /\ SumIter(f, T)[s] = IF s = {} THEN 0 ELSE f[AnyOf(s)] + SumIter(f, T)[s \ {AnyOf(s)}]
  <2>1. s \in SUBSET S
      OBVIOUS
  <2>2. it[s] = IF s = {} THEN 0 ELSE f[AnyOf(s)] + it[s \ {AnyOf(s)}]
      BY <2>1, IsSumAt
  <2>3. SumIter(f, T)[s] = IF s = {} THEN 0 ELSE f[AnyOf(s)] + SumIter(f, T)[s \ {AnyOf(s)}]
      BY <1>0, SumIterAt
  <2> QED BY <2>2, <2>3
<1>2. ASSUME NEW s \in SUBSET T
      PROVE  IsFiniteSet(s) /\ Cardinality(s) \in Nat /\ (Cardinality(s) = 0 <=> s = {})
    BY <1>0, FS_Subset, FS_CardinalityType, FS_EmptySet
<1>3. 0 \in N
    BY <1>1, <1>2
<1>4. ASSUME NEW n \in Nat, n \in N PROVE n + 1 \in N
  <2>1. SUFFICES ASSUME NEW s \in SUBSET T, Cardinality(s) = n + 1 PROVE s \in Q
      OBVIOUS
  <2>2. s # {} /\ AnyOf(s) \in s /\ IsFiniteSet(s)
      BY <1>2, <2>1, AnyIn
  <2>3. Cardinality(s \ {AnyOf(s)}) = n
    <3>1. Cardinality(s \ {AnyOf(s)}) = Cardinality(s) - 1
        BY <2>2, FS_RemoveElement
    <3> QED BY <2>1, <3>1
  <2>4. s \ {AnyOf(s)} \in Q
      BY <1>4, <2>3
  <2> QED BY <1>1, <2>2, <2>4
<1>5. Nat \subseteq N
  <2> HIDE DEF N
  <2> QED BY <1>3, <1>4, NatSetInduction
<1>6. T \in Q
    BY <1>2, <1>5
<1> QED BY <1>6 DEF Sum

\* A sum begins with the element the library takes; the others follow.
LEMMA SumStep ==
  ASSUME NEW f, NEW S, IsFiniteSet(S), S # {}
  PROVE  /\ AnyOf(S) \in S
         /\ Sum(f, S) = f[AnyOf(S)] + Sum(f, S \ {AnyOf(S)})
<1>1. AnyOf(S) \in S
    BY AnyIn
<1>2. SumIter(f, S)[S] = f[AnyOf(S)] + SumIter(f, S)[S \ {AnyOf(S)}]
    BY SumIterAt
<1>3. SumIter(f, S)[S \ {AnyOf(S)}] = Sum(f, S \ {AnyOf(S)})
  <2>1. IsSum(SumIter(f, S), f, S) /\ S \ {AnyOf(S)} \in SUBSET S
      BY SumIterExists
  <2> QED BY <2>1, SumUnique
<1> QED BY <1>1, <1>2, <1>3 DEF Sum

\* The sum of natural numbers is one.
LEMMA SumType ==
  ASSUME NEW S, IsFiniteSet(S), NEW f, \A x \in S : f[x] \in Nat
  PROVE  Sum(f, S) \in Nat
<1> DEFINE N == {n \in Nat : \A s \in SUBSET S : Cardinality(s) = n => Sum(f, s) \in Nat}
<1>2. ASSUME NEW s \in SUBSET S
      PROVE  IsFiniteSet(s) /\ Cardinality(s) \in Nat /\ (Cardinality(s) = 0 <=> s = {})
    BY FS_Subset, FS_CardinalityType, FS_EmptySet
<1>3. 0 \in N
    BY <1>2, SumEmpty
<1>4. ASSUME NEW n \in Nat, n \in N PROVE n + 1 \in N
  <2>1. SUFFICES ASSUME NEW s \in SUBSET S, Cardinality(s) = n + 1 PROVE Sum(f, s) \in Nat
      OBVIOUS
  <2>2. s # {} /\ IsFiniteSet(s)
      BY <1>2, <2>1
  <2>3. AnyOf(s) \in s /\ Sum(f, s) = f[AnyOf(s)] + Sum(f, s \ {AnyOf(s)})
      BY <2>2, SumStep
  <2>4. Cardinality(s \ {AnyOf(s)}) = n
    <3>1. Cardinality(s \ {AnyOf(s)}) = Cardinality(s) - 1
        BY <2>2, <2>3, FS_RemoveElement
    <3> QED BY <2>1, <3>1
  <2>5. Sum(f, s \ {AnyOf(s)}) \in Nat
      BY <1>4, <2>4
  <2> QED BY <2>3, <2>5
<1>5. Nat \subseteq N
  <2> HIDE DEF N
  <2> QED BY <1>3, <1>4, NatSetInduction
<1> QED BY <1>2, <1>5

\* A sum may begin with any element.
LEMMA SumRemove ==
  ASSUME NEW S, IsFiniteSet(S), NEW f, \A x \in S : f[x] \in Nat, NEW x \in S
  PROVE  Sum(f, S) = f[x] + Sum(f, S \ {x})
<1> DEFINE N == {n \in Nat : \A s \in SUBSET S : Cardinality(s) = n =>
                    \A y \in s : Sum(f, s) = f[y] + Sum(f, s \ {y})}
<1>2. ASSUME NEW s \in SUBSET S
      PROVE  /\ IsFiniteSet(s) /\ Cardinality(s) \in Nat /\ (Cardinality(s) = 0 <=> s = {})
             /\ Sum(f, s) \in Nat
    BY FS_Subset, FS_CardinalityType, FS_EmptySet, SumType
<1>3. 0 \in N
    BY <1>2
<1>4. ASSUME NEW n \in Nat, n \in N PROVE n + 1 \in N
  <2>1. SUFFICES ASSUME NEW s \in SUBSET S, Cardinality(s) = n + 1, NEW y \in s
                 PROVE  Sum(f, s) = f[y] + Sum(f, s \ {y})
      OBVIOUS
  <2> DEFINE a == AnyOf(s)
  <2>2. s # {} /\ IsFiniteSet(s)
      BY <1>2
  <2>3. a \in s /\ Sum(f, s) = f[a] + Sum(f, s \ {a})
      BY <2>2, SumStep
  <2> HIDE DEF a
  <2>4. CASE y = a
      BY <2>3, <2>4
  <2>5. CASE y # a
    <3>1. Cardinality(s \ {a}) = n /\ Cardinality(s \ {y}) = n
      <4>1. Cardinality(s \ {a}) = Cardinality(s) - 1 /\ Cardinality(s \ {y}) = Cardinality(s) - 1
          BY <2>2, <2>3, FS_RemoveElement
      <4> QED BY <2>1, <4>1
    <3>2. /\ Sum(f, s \ {a}) = f[y] + Sum(f, (s \ {a}) \ {y})
          /\ Sum(f, s \ {y}) = f[a] + Sum(f, (s \ {y}) \ {a})
        BY <1>4, <2>3, <2>5, <3>1
    <3>3. (s \ {a}) \ {y} = (s \ {y}) \ {a} /\ Sum(f, (s \ {y}) \ {a}) \in Nat
        BY <1>2
    <3>4. f[a] \in Nat /\ f[y] \in Nat
        BY <2>3
    <3> QED BY <2>3, <3>2, <3>3, <3>4
  <2> QED BY <2>4, <2>5
<1>5. Nat \subseteq N
  <2> HIDE DEF N
  <2> QED BY <1>3, <1>4, NatSetInduction
<1> QED BY <1>2, <1>5

\* Functions that agree have the same sum.
LEMMA SumSame ==
  ASSUME NEW S, IsFiniteSet(S), NEW f, NEW g, \A x \in S : f[x] = g[x]
  PROVE  Sum(f, S) = Sum(g, S)
<1> DEFINE N == {n \in Nat : \A s \in SUBSET S : Cardinality(s) = n => Sum(f, s) = Sum(g, s)}
<1>2. ASSUME NEW s \in SUBSET S
      PROVE  IsFiniteSet(s) /\ Cardinality(s) \in Nat /\ (Cardinality(s) = 0 <=> s = {})
    BY FS_Subset, FS_CardinalityType, FS_EmptySet
<1>3. 0 \in N
    BY <1>2, SumEmpty
<1>4. ASSUME NEW n \in Nat, n \in N PROVE n + 1 \in N
  <2>1. SUFFICES ASSUME NEW s \in SUBSET S, Cardinality(s) = n + 1 PROVE Sum(f, s) = Sum(g, s)
      OBVIOUS
  <2>2. s # {} /\ IsFiniteSet(s)
      BY <1>2, <2>1
  <2>3. /\ AnyOf(s) \in s /\ Sum(f, s) = f[AnyOf(s)] + Sum(f, s \ {AnyOf(s)})
        /\ Sum(g, s) = g[AnyOf(s)] + Sum(g, s \ {AnyOf(s)})
      BY <2>2, SumStep
  <2>4. Cardinality(s \ {AnyOf(s)}) = n
    <3>1. Cardinality(s \ {AnyOf(s)}) = Cardinality(s) - 1
        BY <2>2, <2>3, FS_RemoveElement
    <3> QED BY <2>1, <3>1
  <2>5. Sum(f, s \ {AnyOf(s)}) = Sum(g, s \ {AnyOf(s)})
      BY <1>4, <2>4
  <2> QED BY <2>3, <2>5
<1>5. Nat \subseteq N
  <2> HIDE DEF N
  <2> QED BY <1>3, <1>4, NatSetInduction
<1> QED BY <1>2, <1>5

\* One more element adds its value.
LEMMA SumAdd ==
  ASSUME NEW S, IsFiniteSet(S), NEW x, x \notin S,
         NEW f, \A y \in S \cup {x} : f[y] \in Nat
  PROVE  Sum(f, S \cup {x}) = Sum(f, S) + f[x]
<1>1. IsFiniteSet(S \cup {x}) /\ x \in S \cup {x} /\ (S \cup {x}) \ {x} = S
    BY FS_AddElement
<1>2. Sum(f, S \cup {x}) = f[x] + Sum(f, S)
    BY <1>1, SumRemove
<1>3. Sum(f, S) \in Nat /\ f[x] \in Nat
    BY SumType
<1> QED BY <1>2, <1>3

\* The size of a union of disjoint sets is the sum of their sizes.
LEMMA SumOfSizes ==
  ASSUME NEW S, IsFiniteSet(S), NEW part, NEW f,
         \A x \in S : IsFiniteSet(part[x]) /\ f[x] = Cardinality(part[x]),
         \A x, y \in S : x # y => part[x] \cap part[y] = {},
         NEW whole, \A m : m \in whole <=> \E x \in S : m \in part[x]
  PROVE  IsFiniteSet(whole) /\ Cardinality(whole) = Sum(f, S)
<1> DEFINE U(T) == UNION {part[x] : x \in T}
           Q == {T \in SUBSET S : IsFiniteSet(U(T)) /\ Cardinality(U(T)) = Sum(f, T)}
<1>1. {} \in Q
  <2>1. U({}) = {}
      OBVIOUS
  <2> HIDE DEF U
  <2> QED BY <2>1, SumEmpty, FS_EmptySet
<1>2. ASSUME NEW T \in SUBSET S, NEW x \in S \ T, T \in Q PROVE T \cup {x} \in Q
  <2>1. U(T \cup {x}) = U(T) \cup part[x] /\ U(T) \cap part[x] = {}
      OBVIOUS
  <2> HIDE DEF U
  <2>2. IsFiniteSet(U(T)) /\ Cardinality(U(T)) = Sum(f, T) /\ IsFiniteSet(part[x])
      BY <1>2
  <2>3. /\ IsFiniteSet(U(T \cup {x}))
        /\ Cardinality(U(T \cup {x})) = Cardinality(U(T)) + Cardinality(part[x]) - Cardinality({})
    <3>1. /\ IsFiniteSet(U(T) \cup part[x])
          /\ Cardinality(U(T) \cup part[x])
               = Cardinality(U(T)) + Cardinality(part[x]) - Cardinality(U(T) \cap part[x])
        BY <2>2, FS_Union
    <3> QED BY <2>1, <3>1
  <2>4. Cardinality({}) = 0 /\ \A y \in S : f[y] \in Nat
      BY FS_EmptySet, FS_CardinalityType
  <2>5. IsFiniteSet(T)
      BY FS_Subset
  <2>6. Sum(f, T \cup {x}) = Sum(f, T) + f[x] /\ Sum(f, T) \in Nat
      BY <2>4, <2>5, SumAdd, SumType
  <2>7. f[x] = Cardinality(part[x])
      OBVIOUS
  <2> QED BY <2>2, <2>3, <2>4, <2>6, <2>7
<1>3. S \in Q
  <2> HIDE DEF Q
  <2> QED BY <1>1, <1>2, FiniteSetInduction
<1>4. whole = U(S)
    OBVIOUS
<1> HIDE DEF U
<1> QED BY <1>3, <1>4
==============================================================================
