------------------------------ MODULE SumProofs -------------------------------
(***************************************************************************)
(* Sums of a function over a finite set, as Functions defines them by      *)
(* choosing the elements one after the other: the sum exists, does not     *)
(* depend on the order, and grows with the set.  Used for the source       *)
(* seconds of the videos an allowance pays for.                            *)
(*                                                                         *)
(* Each fact is proved on a smallest set that would contradict it.         *)
(***************************************************************************)
EXTENDS Functions, Integers, FiniteSets, FiniteSetTheorems, WellFoundedInduction, TLAPS

\* Among finite sets there is one of the fewest elements.
LEMMA FewestElements ==
    ASSUME NEW C, C # {}, \A S \in C : IsFiniteSet(S)
    PROVE  \E S \in C : \A T \in C : Cardinality(S) <= Cardinality(T)
<1> DEFINE N == {n \in Nat : \E S \in C : Cardinality(S) = n}
<1>1. \A S \in C : Cardinality(S) \in N
  BY FS_CardinalityType
<1>2. PICK n \in N : \A m \in N : <<m, n>> \notin OpToRel(<, Nat)
  <2>1. N # {}
    BY <1>1
  <2> QED
    BY <2>1, NatLessThanWellFounded, WFMin
<1>3. \A m \in N : n <= m
  <2> SUFFICES ASSUME NEW m \in N, m < n PROVE FALSE
    OBVIOUS
  <2>1. <<m, n>> \in {ss \in Nat \X Nat : ss[1] < ss[2]}
    OBVIOUS
  <2>2. <<m, n>> \in OpToRel(<, Nat)
    BY <2>1, Zenon DEF OpToRel
  <2> QED
    BY <1>2, <2>2
<1> QED
  BY <1>1, <1>2, <1>3

\* One element of a nonempty set, as the fold chooses it.
Chosen(S) == CHOOSE x \in S : TRUE

\* The equation of the fold, for the sums of the subsets of S.
Sums(g, f, S) ==
    g = [s \in SUBSET S |-> IF s = {} THEN 0 ELSE f[Chosen(s)] + g[s \ {Chosen(s)}]]

LEMMA SumIsFold ==
    ASSUME NEW f, NEW S
    PROVE  SumFunctionOnSet(f, S) = (CHOOSE g : Sums(g, f, S))[S]
  BY Zenon DEF SumFunctionOnSet, FoldFunctionOnSet, MapThenFoldSet, Sums, Chosen

LEMMA ChosenBelongs ==
    ASSUME NEW S, S # {}
    PROVE  Chosen(S) \in S
  BY DEF Chosen

\* What is taken away leaves fewer elements.
LEMMA OneFewer ==
    ASSUME NEW S, IsFiniteSet(S), NEW x \in S
    PROVE  /\ IsFiniteSet(S \ {x})
           /\ Cardinality(S) \in Nat /\ Cardinality(S \ {x}) \in Nat
           /\ Cardinality(S \ {x}) = Cardinality(S) - 1
  BY FS_RemoveElement, FS_CardinalityType

\* The sums of all subsets of a finite set exist: they can be given for the
\* sets of at most n elements, for one n after the other.
Small(S, n) == {s \in SUBSET S : Cardinality(s) <= n}

SmallSums(g, f, S, n) ==
    g = [s \in Small(S, n) |-> IF s = {} THEN 0 ELSE f[Chosen(s)] + g[s \ {Chosen(s)}]]

LEMMA SumsExist ==
    ASSUME NEW f, NEW S, IsFiniteSet(S)
    PROVE  \E g : Sums(g, f, S)
<1> DEFINE Bad == {n \in Nat : ~ \E g : SmallSums(g, f, S, n)}
<1>0. ASSUME NEW s \in SUBSET S
      PROVE  IsFiniteSet(s) /\ Cardinality(s) \in Nat /\ Cardinality(s) <= Cardinality(S)
  BY FS_Subset, FS_CardinalityType
<1>1. Bad = {}
  <2> SUFFICES ASSUME Bad # {} PROVE FALSE
    OBVIOUS
  <2>1. PICK n \in Bad : \A m \in Bad : ~(m < n)
    <3>1. PICK n \in Bad : \A m \in Bad : <<m, n>> \notin OpToRel(<, Nat)
      BY NatLessThanWellFounded, WFMin
    <3>2. ASSUME NEW m \in Bad, m < n PROVE FALSE
      <4>1. <<m, n>> \in {ss \in Nat \X Nat : ss[1] < ss[2]}
        BY <3>2
      <4>2. <<m, n>> \in OpToRel(<, Nat)
        BY <4>1, Zenon DEF OpToRel
      <4> QED
        BY <3>1, <4>2
    <3> QED
      BY <3>2
  <2>2. n \in Nat /\ ~ \E g : SmallSums(g, f, S, n)
    OBVIOUS
  <2>3. CASE n = 0
    <3>1. \A s \in Small(S, 0) : s = {}
      BY <1>0, FS_EmptySet DEF Small
    <3>2. SmallSums([s \in Small(S, 0) |-> 0], f, S, 0)
      BY <3>1 DEF SmallSums
    <3> QED
      BY <2>2, <2>3, <3>2
  <2>4. CASE n # 0
    <3>1. n - 1 \in Nat /\ n - 1 < n
      BY <2>2, <2>4
    <3>2. PICK g : SmallSums(g, f, S, n - 1)
      BY <2>1, <3>1
    <3> DEFINE value(s) == IF s = {} THEN 0 ELSE f[Chosen(s)] + g[s \ {Chosen(s)}]
               more == [s \in Small(S, n) |-> value(s)]
    <3>3. ASSUME NEW s \in Small(S, n - 1)
          PROVE  g[s] = value(s) /\ s \in Small(S, n)
      <4>1. g[s] = value(s)
        BY <3>2 DEF SmallSums
      <4>2. s \in Small(S, n)
        BY <1>0, <2>2 DEF Small
      <4> QED
        BY <4>1, <4>2
    <3>4. ASSUME NEW s \in Small(S, n), s # {}
          PROVE  s \ {Chosen(s)} \in Small(S, n - 1)
      <4>1. s \in SUBSET S /\ Cardinality(s) <= n /\ Chosen(s) \in s
        BY <3>4, ChosenBelongs DEF Small
      <4>2. Cardinality(s \ {Chosen(s)}) = Cardinality(s) - 1 /\ Cardinality(s) \in Nat
        BY <1>0, <4>1, OneFewer
      <4> QED
        BY <2>2, <4>1, <4>2 DEF Small
    <3>5. ASSUME NEW s \in Small(S, n), s # {}
          PROVE  g[s \ {Chosen(s)}] = more[s \ {Chosen(s)}]
      <4> DEFINE rest == s \ {Chosen(s)}
      <4>1. rest \in Small(S, n - 1)
        BY <3>4, <3>5
      <4> HIDE DEF rest
      <4>2. g[rest] = value(rest) /\ rest \in Small(S, n)
        BY <3>3, <4>1
      <4>3. more[rest] = value(rest)
        BY <4>2
      <4> QED
        BY <4>2, <4>3 DEF rest
    <3>6. \A s \in Small(S, n) :
            value(s) = IF s = {} THEN 0 ELSE f[Chosen(s)] + more[s \ {Chosen(s)}]
      BY <3>5
    <3>7. more = [s \in Small(S, n) |->
                    IF s = {} THEN 0 ELSE f[Chosen(s)] + more[s \ {Chosen(s)}]]
      BY <3>6
    <3> HIDE DEF more
    <3>8. SmallSums(more, f, S, n)
      BY <3>7 DEF SmallSums
    <3> QED
      BY <2>2, <3>8
  <2> QED
    BY <2>3, <2>4
<1>2. Cardinality(S) \in Nat
  BY FS_CardinalityType
<1>3. PICK g : SmallSums(g, f, S, Cardinality(S))
  BY <1>1, <1>2
<1>4. Small(S, Cardinality(S)) = SUBSET S
  BY <1>0 DEF Small
<1> QED
  BY <1>3, <1>4 DEF SmallSums, Sums

\* They do not depend on the set whose subsets are summed.
LEMMA SumsAgree ==
    ASSUME NEW f, NEW S, NEW T, IsFiniteSet(T), T \subseteq S,
           NEW g, Sums(g, f, S), NEW e, Sums(e, f, T)
    PROVE  g[T] = e[T]
<1> DEFINE Bad == {s \in SUBSET T : g[s] # e[s]}
<1>1. Bad = {}
  <2> SUFFICES ASSUME Bad # {} PROVE FALSE
    OBVIOUS
  <2>1. \A s \in Bad : IsFiniteSet(s)
    BY FS_Subset
  <2>2. PICK s \in Bad : \A r \in Bad : Cardinality(s) <= Cardinality(r)
    <3> HIDE DEF Bad
    <3> QED
      BY <2>1, FewestElements
  <2>3. /\ g[s] = IF s = {} THEN 0 ELSE f[Chosen(s)] + g[s \ {Chosen(s)}]
        /\ e[s] = IF s = {} THEN 0 ELSE f[Chosen(s)] + e[s \ {Chosen(s)}]
    BY DEF Sums
  <2>4. s # {}
    BY <2>3
  <2> DEFINE rest == s \ {Chosen(s)}
  <2>5. rest \in SUBSET T /\ rest \notin Bad
    <3>1. Chosen(s) \in s
      BY <2>4, ChosenBelongs
    <3>2. ~(Cardinality(s) <= Cardinality(rest))
      BY <2>1, <3>1, OneFewer
    <3> QED
      BY <2>2, <3>2
  <2> QED
    BY <2>3, <2>4, <2>5
<1> QED
  BY <1>1

\* The sum of a nonempty set is the chosen element's, and that of the others.
LEMMA SumUnfolds ==
    ASSUME NEW f, NEW S, IsFiniteSet(S)
    PROVE  SumFunctionOnSet(f, S) =
             IF S = {} THEN 0
             ELSE f[Chosen(S)] + SumFunctionOnSet(f, S \ {Chosen(S)})
<1> DEFINE g == CHOOSE g : Sums(g, f, S)
           rest == S \ {Chosen(S)}
           e == CHOOSE e : Sums(e, f, rest)
<1>1. Sums(g, f, S)
  BY SumsExist
<1>2. SumFunctionOnSet(f, S) = g[S] /\ SumFunctionOnSet(f, rest) = e[rest]
  BY SumIsFold
<1>3. Sums(e, f, rest) /\ IsFiniteSet(rest) /\ rest \subseteq S
  BY FS_Subset, SumsExist
<1> HIDE DEF g, e
<1>4. g[S] = IF S = {} THEN 0 ELSE f[Chosen(S)] + g[rest]
  BY <1>1 DEF Sums
<1>5. g[rest] = e[rest]
  BY <1>1, <1>3, SumsAgree
<1> QED
  BY <1>2, <1>4, <1>5

\* A sum of natural numbers is one.
LEMMA SumType ==
    ASSUME NEW U, NEW f \in [U -> Nat], NEW S \in SUBSET U, IsFiniteSet(S)
    PROVE  SumFunctionOnSet(f, S) \in Nat
<1> DEFINE Bad == {s \in SUBSET S : SumFunctionOnSet(f, s) \notin Nat}
<1>1. Bad = {}
  <2> SUFFICES ASSUME Bad # {} PROVE FALSE
    OBVIOUS
  <2>1. \A s \in Bad : IsFiniteSet(s)
    BY FS_Subset
  <2>2. PICK s \in Bad : \A r \in Bad : Cardinality(s) <= Cardinality(r)
    <3> HIDE DEF Bad
    <3> QED
      BY <2>1, FewestElements
  <2> DEFINE rest == s \ {Chosen(s)}
  <2>3. SumFunctionOnSet(f, s) = IF s = {} THEN 0 ELSE f[Chosen(s)] + SumFunctionOnSet(f, rest)
    BY <2>1, SumUnfolds
  <2>4. s # {} /\ Chosen(s) \in s
    BY <2>3, ChosenBelongs
  <2>5. rest \in SUBSET S /\ rest \notin Bad
    <3>1. ~(Cardinality(s) <= Cardinality(rest))
      BY <2>1, <2>4, OneFewer
    <3> QED
      BY <2>2, <3>1
  <2>6. f[Chosen(s)] \in Nat /\ SumFunctionOnSet(f, rest) \in Nat
    BY <2>4, <2>5
  <2> HIDE DEF rest
  <2> QED
    BY <2>3, <2>4, <2>6
<1> QED
  BY <1>1

\* Any element may be taken out, not only the one the fold chooses.
LEMMA SumTakesOut ==
    ASSUME NEW U, NEW f \in [U -> Nat], NEW S \in SUBSET U, IsFiniteSet(S), NEW k \in S
    PROVE  SumFunctionOnSet(f, S) = f[k] + SumFunctionOnSet(f, S \ {k})
<1> DEFINE Sum(s) == SumFunctionOnSet(f, s)
           Bad == {s \in SUBSET S : \E j \in s : Sum(s) # f[j] + Sum(s \ {j})}
<1>0. \A s \in SUBSET S : IsFiniteSet(s) /\ Sum(s) \in Nat
  BY FS_Subset, SumType
<1>00. \A s \in SUBSET S : s # {} => /\ Chosen(s) \in s
                                     /\ Sum(s) = f[Chosen(s)] + Sum(s \ {Chosen(s)})
  BY <1>0, ChosenBelongs, SumUnfolds
<1> HIDE DEF Sum
<1>1. Bad = {}
  <2> SUFFICES ASSUME Bad # {} PROVE FALSE
    OBVIOUS
  <2>1. PICK s \in Bad : \A r \in Bad : Cardinality(s) <= Cardinality(r)
    <3>1. \A s \in Bad : IsFiniteSet(s)
      BY <1>0
    <3> HIDE DEF Bad
    <3> QED
      BY <3>1, FewestElements
  <2>2. PICK j \in s : Sum(s) # f[j] + Sum(s \ {j})
    OBVIOUS
  <2> DEFINE c == Chosen(s)
             both == s \ {c, j}
  <2>3. c \in s /\ Sum(s) = f[c] + Sum(s \ {c})
    BY <1>00, <2>2
  <2> HIDE DEF c
  <2>4. c # j
    BY <2>2, <2>3
  <2>5. /\ s \in SUBSET S
        /\ s \ {c} \notin Bad
        /\ s \ {j} \notin Bad
    <3>1. s \in SUBSET S /\ IsFiniteSet(s)
      BY <1>0
    <3>2. \A x \in s : ~(Cardinality(s) <= Cardinality(s \ {x}))
      <4> HIDE DEF Bad, both
      <4> QED
        BY <3>1, OneFewer
    <3> HIDE DEF Bad
    <3> QED
      BY <2>1, <2>3, <3>1, <3>2
  <2>6. Sum(s \ {c}) = f[j] + Sum(both)
    <3>1. (s \ {c}) \ {j} = both /\ j \in s \ {c}
      BY <2>2, <2>4
    <3> QED
      BY <2>5, <3>1
  <2>7. Sum(s \ {j}) = f[c] + Sum(both)
    <3>1. (s \ {j}) \ {c} = both /\ c \in s \ {j}
      BY <2>3, <2>4
    <3> QED
      BY <2>5, <3>1
  <2>8. f[c] \in Nat /\ f[j] \in Nat /\ Sum(both) \in Nat
    BY <1>0, <2>2, <2>3, <2>5
  <2> HIDE DEF both, Bad
  <2>9. f[c] + (f[j] + Sum(both)) = f[j] + (f[c] + Sum(both))
    BY <2>8
  <2> QED
    BY <2>2, <2>3, <2>6, <2>7, <2>9
<1> QED
  BY <1>1 DEF Sum

\* A sum of natural numbers grows with its set.
LEMMA SumGrows ==
    ASSUME NEW U, NEW f \in [U -> Nat], NEW S \in SUBSET U, IsFiniteSet(S),
           NEW T \in SUBSET S
    PROVE  SumFunctionOnSet(f, T) <= SumFunctionOnSet(f, S)
<1> DEFINE Sum(s) == SumFunctionOnSet(f, s)
           Bad == {s \in SUBSET S : T \subseteq s /\ ~(Sum(T) <= Sum(s))}
<1>0. \A s \in SUBSET S : IsFiniteSet(s) /\ Sum(s) \in Nat
  BY FS_Subset, SumType
<1>00. ASSUME NEW s \in SUBSET S, NEW k \in s PROVE Sum(s) = f[k] + Sum(s \ {k})
  <2>1. s \in SUBSET U /\ IsFiniteSet(s)
    BY <1>0
  <2> QED
    BY <2>1, SumTakesOut
<1> HIDE DEF Sum
<1>1. Bad = {}
  <2> SUFFICES ASSUME Bad # {} PROVE FALSE
    OBVIOUS
  <2>1. PICK s \in Bad : \A r \in Bad : Cardinality(s) <= Cardinality(r)
    <3>1. \A s \in Bad : IsFiniteSet(s)
      BY <1>0
    <3> HIDE DEF Bad
    <3> QED
      BY <3>1, FewestElements
  <2>2. Sum(T) \in Nat /\ s # T
    BY <1>0
  <2>3. PICK k \in s : k \notin T
    BY <2>2
  <2>4. s \ {k} \notin Bad
    <3>1. IsFiniteSet(s)
      BY <1>0
    <3>2. ~(Cardinality(s) <= Cardinality(s \ {k}))
      BY <3>1, OneFewer
    <3> QED
      BY <2>1, <3>2
  <2>5. Sum(T) <= Sum(s \ {k})
    BY <2>3, <2>4
  <2>6. Sum(s) = f[k] + Sum(s \ {k}) /\ f[k] \in Nat /\ Sum(s \ {k}) \in Nat
    BY <1>0, <1>00
  <2> QED
    BY <2>2, <2>5, <2>6
<1> QED
  BY <1>1 DEF Sum

\* A set that gains at most one element, which a step has found to fit beside
\* the others, stays within n.
LEMMA SummedBeforeAdded ==
    ASSUME NEW U, NEW f \in [U -> Nat], NEW S \in SUBSET U, IsFiniteSet(S),
           NEW T \in SUBSET U, NEW k \in U, NEW n \in Nat, T \subseteq S \cup {k},
           SumFunctionOnSet(f, S) <= n,
           k \in T => SumFunctionOnSet(f, S \ {k}) + f[k] <= n
    PROVE  SumFunctionOnSet(f, T) <= n
<1>1. IsFiniteSet(S \cup {k}) /\ IsFiniteSet(T) /\ IsFiniteSet(S \ {k})
      /\ IsFiniteSet(T \ {k})
  BY FS_AddElement, FS_Subset
<1>2. /\ SumFunctionOnSet(f, T) \in Nat
      /\ SumFunctionOnSet(f, S) \in Nat
      /\ SumFunctionOnSet(f, S \ {k}) \in Nat
      /\ SumFunctionOnSet(f, T \ {k}) \in Nat
      /\ f[k] \in Nat
  BY <1>1, SumType
<1>3. CASE k \in T
  <2>1. SumFunctionOnSet(f, T) = f[k] + SumFunctionOnSet(f, T \ {k})
    BY <1>1, <1>3, SumTakesOut
  <2>2. SumFunctionOnSet(f, T \ {k}) <= SumFunctionOnSet(f, S \ {k})
    BY <1>1, SumGrows
  <2> QED
    BY <1>2, <1>3, <2>1, <2>2
<1>4. CASE k \notin T
  <2>1. T \in SUBSET S
    BY <1>4
  <2> QED
    BY <1>2, <2>1, SumGrows
<1> QED
  BY <1>3, <1>4

\* Nothing sums to 0.
LEMMA SumOfNothing ==
    ASSUME NEW f
    PROVE  SumFunctionOnSet(f, {}) = 0
  BY SumUnfolds, FS_EmptySet

\* A sum depends on the summands only.
LEMMA SumSame ==
    ASSUME NEW U, NEW f \in [U -> Nat], NEW g \in [U -> Nat], NEW S \in SUBSET U,
           IsFiniteSet(S), \A x \in S : f[x] = g[x]
    PROVE  SumFunctionOnSet(f, S) = SumFunctionOnSet(g, S)
<1> DEFINE Bad == {s \in SUBSET S : SumFunctionOnSet(f, s) # SumFunctionOnSet(g, s)}
<1>0. \A s \in SUBSET S : IsFiniteSet(s)
  BY FS_Subset
<1>1. Bad = {}
  <2> SUFFICES ASSUME Bad # {} PROVE FALSE
    OBVIOUS
  <2>1. PICK s \in Bad : \A t \in Bad : Cardinality(s) <= Cardinality(t)
    BY <1>0, FewestElements
  <2>2. PICK x : x \in s
    BY <2>1, SumOfNothing
  <2>3. s \ {x} \in SUBSET S /\ s \ {x} \notin Bad
    <3>1. /\ Cardinality(s) \in Nat /\ Cardinality(s \ {x}) \in Nat
          /\ Cardinality(s \ {x}) = Cardinality(s) - 1
      BY <1>0, <2>1, <2>2, OneFewer
    <3> QED
      BY <2>1, <3>1
  <2>4. /\ SumFunctionOnSet(f, s) = f[x] + SumFunctionOnSet(f, s \ {x})
        /\ SumFunctionOnSet(g, s) = g[x] + SumFunctionOnSet(g, s \ {x})
    BY <1>0, <2>1, <2>2, SumTakesOut
  <2> QED
    BY <2>1, <2>2, <2>3, <2>4
<1> QED
  BY <1>1

\* One summand changes: so does the sum, by as much.
LEMMA SumUpdated ==
    ASSUME NEW U, IsFiniteSet(U), NEW f \in [U -> Nat], NEW g \in [U -> Nat], NEW k \in U,
           \A x \in U \ {k} : f[x] = g[x]
    PROVE  /\ SumFunctionOnSet(f, U) \in Nat /\ SumFunctionOnSet(g, U) \in Nat
           /\ SumFunctionOnSet(g, U) + f[k] = SumFunctionOnSet(f, U) + g[k]
<1>1. IsFiniteSet(U \ {k})
  BY FS_Subset
<1>2. /\ SumFunctionOnSet(f, U) = f[k] + SumFunctionOnSet(f, U \ {k})
      /\ SumFunctionOnSet(g, U) = g[k] + SumFunctionOnSet(g, U \ {k})
  BY SumTakesOut
<1>3. SumFunctionOnSet(f, U \ {k}) = SumFunctionOnSet(g, U \ {k})
  BY <1>1, SumSame
<1>4. SumFunctionOnSet(f, U) \in Nat /\ SumFunctionOnSet(g, U) \in Nat
      /\ SumFunctionOnSet(f, U \ {k}) \in Nat
  BY <1>1, SumType
<1> QED
  BY <1>2, <1>3, <1>4

\* A sum of zeros is 0.
LEMMA SumOfZeros ==
    ASSUME NEW U, IsFiniteSet(U), NEW f, f = [x \in U |-> 0]
    PROVE  SumFunctionOnSet(f, U) = 0
<1> DEFINE Bad == {s \in SUBSET U : SumFunctionOnSet(f, s) # 0}
<1>0. \A s \in SUBSET U : IsFiniteSet(s)
  BY FS_Subset
<1>1. Bad = {}
  <2> SUFFICES ASSUME Bad # {} PROVE FALSE
    OBVIOUS
  <2>1. PICK s \in Bad : \A t \in Bad : Cardinality(s) <= Cardinality(t)
    BY <1>0, FewestElements
  <2>2. PICK x : x \in s
    BY <2>1, SumOfNothing
  <2>3. s \ {x} \in SUBSET U /\ s \ {x} \notin Bad
    <3>1. /\ Cardinality(s) \in Nat /\ Cardinality(s \ {x}) \in Nat
          /\ Cardinality(s \ {x}) = Cardinality(s) - 1
      BY <1>0, <2>1, <2>2, OneFewer
    <3> QED
      BY <2>1, <3>1
  <2>4. f \in [U -> Nat]
    OBVIOUS
  <2>5. SumFunctionOnSet(f, s) = f[x] + SumFunctionOnSet(f, s \ {x})
    BY <1>0, <2>1, <2>2, <2>4, SumTakesOut
  <2> QED
    BY <2>1, <2>2, <2>3, <2>5
<1> QED
  BY <1>1
==============================================================================
