------------------------------ MODULE FoldLemmas ------------------------------
(***************************************************************************)
(* Induction for the proofs of the other modules, and what it shows of the *)
(* sums they take.  The library's induction theorems are about operators,  *)
(* which the provers cannot instantiate; its theorem on well-founded       *)
(* orderings is about sets, and the subsets of a finite set are ordered    *)
(* well.  So a property is made the set of the data that have it.  A fold  *)
(* is a recursive function: that one exists is what has to be shown first. *)
(* And what the parts of a sequence are, element by element.               *)
(***************************************************************************)
EXTENDS Integers, SequencesExt, FiniteSetTheorems, SequenceTheorems, WellFoundedInduction,
        TLAPS

\* Induction over the finite subsets of a set, with a set for the property.
LEMMA SubsetInduction ==
  ASSUME NEW S, IsFiniteSet(S), NEW F,
         \A T \in SUBSET S : (\A U \in SUBSET T : U # T => U \in F) => T \in F
  PROVE  (SUBSET S) \subseteq F
<1> DEFINE M == (SUBSET S) \ F
<1>1. IsWellFoundedOn(StrictSubsetOrdering(S), SUBSET S)
  BY FS_StrictSubsetOrderingWellFounded, FS_FiniteSubsetsOfFinite
<1>2. SUFFICES ASSUME M # {} PROVE FALSE
  OBVIOUS
<1>3. PICK T \in M : \A U \in M : ~ (<<U, T>> \in StrictSubsetOrdering(S))
  <2>1. M \subseteq SUBSET S
    OBVIOUS
  <2> HIDE DEF M
  <2> QED BY <1>1, <1>2, <2>1, WFMin
<1>4. ASSUME NEW U \in SUBSET T, U # T PROVE U \in F
  BY <1>3, <1>4 DEF StrictSubsetOrdering
<1> QED BY <1>4

\* Induction over the natural numbers, with a set for the property.
LEMMA CountInduction ==
  ASSUME NEW S, 0 \in S, \A n \in Nat : n \in S => n + 1 \in S
  PROVE  Nat \subseteq S
<1> SUFFICES ASSUME NEW m \in Nat PROVE m \in S
  OBVIOUS
<1> PICK I : I = 0..m
  OBVIOUS
<1> PICK F : F = {T \in SUBSET I : \A n \in I : T = 0..n => n \in S}
  OBVIOUS
<1>1. IsFiniteSet(I)
  BY FS_Interval
<1>2. ASSUME NEW T \in SUBSET I, \A U \in SUBSET T : U # T => U \in F
      PROVE  T \in F
  <2> SUFFICES ASSUME NEW n \in 0..m, T = 0..n PROVE n \in S
    OBVIOUS
  <2>1. CASE n = 0
    BY <2>1
  <2>2. CASE n # 0
    <3>1. n - 1 \in 0..m /\ (0..(n - 1)) \in SUBSET T /\ 0..(n - 1) # T
      <4>1. n \in T /\ n \notin 0..(n - 1)
        OBVIOUS
      <4> QED BY <4>1, <2>2
    <3>2. n - 1 \in S
      BY <3>1, <1>2
    <3> QED BY <3>1, <3>2
  <2> QED BY <2>1, <2>2
<1>3. (SUBSET I) \subseteq F
  BY ONLY <1>1, <1>2, SubsetInduction
<1>4. I \in F
  BY <1>3
<1> QED BY <1>4

\* The element a fold takes next, and the equation its walk solves.
Chosen(s) == CHOOSE x \in s : TRUE
Solves(g, f, S) ==
  g = [s \in SUBSET S |-> IF s = {} THEN 0 ELSE f[Chosen(s)] + g[s \ {Chosen(s)}]]

LEMMA ChosenIn == ASSUME NEW S, S # {} PROVE Chosen(S) \in S
BY DEF Chosen

LEMMA SmallerSet ==
  ASSUME NEW S, IsFiniteSet(S), NEW T \in SUBSET S, NEW x \in T
  PROVE  /\ IsFiniteSet(T) /\ IsFiniteSet(T \ {x})
         /\ Cardinality(T) \in Nat /\ Cardinality(T) > 0
         /\ Cardinality(T \ {x}) = Cardinality(T) - 1
<1>1. IsFiniteSet(T)
  BY FS_Subset
<1>2. IsFiniteSet(T \ {x}) /\ Cardinality(T \ {x}) = Cardinality(T) - 1
  BY <1>1, FS_RemoveElement
<1>3. Cardinality(T) \in Nat /\ Cardinality(T \ {x}) \in Nat
  BY <1>1, <1>2, FS_CardinalityType
<1> QED BY <1>1, <1>2, <1>3

\* There is a walk over all subsets: built for those of n elements, and then
\* for those of n + 1.
LEMMA WalkExists ==
  ASSUME NEW S, IsFiniteSet(S), NEW f
  PROVE  \E g : Solves(g, f, S)
<1> DEFINE Step(g, s) == IF s = {} THEN 0 ELSE f[Chosen(s)] + g[s \ {Chosen(s)}]
<1> DEFINE UpTo(g, n) == \A s \in SUBSET S : Cardinality(s) <= n => g[s] = Step(g, s)
<1>1. PICK N : N = {n \in Nat : \E g : UpTo(g, n)}
  OBVIOUS
<1>2. ASSUME NEW s \in SUBSET S PROVE IsFiniteSet(s) /\ Cardinality(s) \in Nat
  BY FS_Subset, FS_CardinalityType
<1>3. 0 \in N
  <2>1. UpTo([s \in SUBSET S |-> 0], 0)
    BY <1>2, FS_EmptySet
  <2> QED BY <1>1, <2>1
<1>4. ASSUME NEW n \in Nat, n \in N PROVE n + 1 \in N
  <2>1. PICK g : UpTo(g, n)
    BY <1>1, <1>4
  <2> PICK h : h = [s \in SUBSET S |-> Step(g, s)]
    OBVIOUS
  <2>2. ASSUME NEW s \in SUBSET S, Cardinality(s) <= n + 1 PROVE h[s] = Step(h, s)
    <3>1. CASE s = {}
      BY <3>1
    <3>2. CASE s # {}
      <4>1. Chosen(s) \in s
        BY <3>2, ChosenIn
      <4>2. Cardinality(s \ {Chosen(s)}) <= n /\ s \ {Chosen(s)} \in SUBSET S
        BY <1>2, <2>2, <4>1, SmallerSet
      <4>3. h[s \ {Chosen(s)}] = g[s \ {Chosen(s)}]
        BY <2>1, <4>2
      <4> QED BY <3>2, <4>3
    <3> QED BY <3>1, <3>2
  <2>3. UpTo(h, n + 1)
    BY <2>2
  <2> HIDE DEF UpTo
  <2> QED BY <1>1, <2>3
<1>5. Cardinality(S) \in N
  <2>1. Nat \subseteq N
    BY ONLY <1>3, <1>4, CountInduction
  <2> QED BY <1>2, <2>1
<1>6. PICK g : UpTo(g, Cardinality(S))
  BY <1>1, <1>5
<1>7. ASSUME NEW s \in SUBSET S PROVE Cardinality(s) <= Cardinality(S)
  BY FS_Subset
<1>8. PICK h : h = [s \in SUBSET S |-> g[s]]
  OBVIOUS
<1>9. \A s \in SUBSET S : g[s] = Step(g, s)
  BY <1>6, <1>7
<1>10. h = [s \in SUBSET S |-> Step(h, s)]
  <2>1. ASSUME NEW s \in SUBSET S PROVE Step(g, s) = Step(h, s)
    <3>1. s # {} => s \ {Chosen(s)} \in SUBSET S
      OBVIOUS
    <3> QED BY <3>1, <1>8
  <2>2. h = [s \in SUBSET S |-> Step(g, s)]
    BY <1>8, <1>9
  <2> HIDE DEF Step
  <2> QED BY <2>1, <2>2
<1> QED BY <1>10 DEF Solves

\* Two walks over the same values agree, on the sets both are for.
LEMMA WalkUnique ==
  ASSUME NEW S, IsFiniteSet(S), NEW T \in SUBSET S, NEW f, NEW g, NEW h, NEW k,
         Solves(g, f, S), Solves(h, k, T), \A x \in T : f[x] = k[x]
  PROVE  g[T] = h[T]
<1> PICK F : F = {U \in SUBSET T : g[U] = h[U]}
  OBVIOUS
<1>1. IsFiniteSet(T)
  BY FS_Subset
<1>2. ASSUME NEW U \in SUBSET T, \A V \in SUBSET U : V # U => V \in F PROVE U \in F
  <2>1. CASE U = {}
    BY <2>1 DEF Solves
  <2>2. CASE U # {}
    <3>1. Chosen(U) \in U /\ U \ {Chosen(U)} \in SUBSET U /\ U \ {Chosen(U)} # U
      BY <2>2, ChosenIn
    <3>2. g[U \ {Chosen(U)}] = h[U \ {Chosen(U)}] /\ f[Chosen(U)] = k[Chosen(U)]
      BY <1>2, <3>1
    <3>3. U \in SUBSET S
      OBVIOUS
    <3>4. /\ g[U] = f[Chosen(U)] + g[U \ {Chosen(U)}]
          /\ h[U] = k[Chosen(U)] + h[U \ {Chosen(U)}]
      BY <2>2, <3>3 DEF Solves
    <3> QED BY <3>2, <3>4
  <2> QED BY <2>1, <2>2
<1>3. (SUBSET T) \subseteq F
  BY ONLY <1>1, <1>2, SubsetInduction
<1> QED BY <1>3

LEMMA SumIsWalk ==
  ASSUME NEW S, IsFiniteSet(S), NEW f, NEW g, Solves(g, f, S)
  PROVE  SumFunctionOnSet(f, S) = g[S]
<1> DEFINE iter[s \in SUBSET S] ==
      IF s = {} THEN 0 ELSE LET x == CHOOSE x \in s : TRUE IN f[x] + iter[s \ {x}]
<1>1. SumFunctionOnSet(f, S) = iter[S]
  BY DEF SumFunctionOnSet, FoldFunctionOnSet, MapThenFoldSet
<1>2. Solves(iter, f, S)
  BY DEF Solves, Chosen
<1> HIDE DEF iter
<1>3. iter[S] = g[S]
  BY <1>2, WalkUnique
<1> QED BY <1>1, <1>3

\* The smallest of some numbers is one of them.
LEMMA MinIn ==
  ASSUME NEW S, IsFiniteSet(S), S \subseteq Int, S # {}
  PROVE  Min(S) \in S /\ \A y \in S : Min(S) <= y
<1> PICK F : F = {T \in SUBSET S : T # {} => \E x \in T : \A y \in T : x <= y}
  OBVIOUS
<1>1. ASSUME NEW T \in SUBSET S, \A U \in SUBSET T : U # T => U \in F PROVE T \in F
  <2> SUFFICES ASSUME NEW c \in T PROVE \E x \in T : \A y \in T : x <= y
    OBVIOUS
  <2>1. T \ {c} \in F
    BY <1>1
  <2>2. CASE T \ {c} = {}
    BY <2>2
  <2>3. CASE T \ {c} # {}
    <3>1. PICK x \in T \ {c} : \A y \in T \ {c} : x <= y
      BY <2>1, <2>3
    <3>2. CASE x <= c
      BY <3>1, <3>2
    <3>3. CASE c <= x
      BY <3>1, <3>3
    <3> QED BY <3>1, <3>2, <3>3
  <2> QED BY <2>2, <2>3
<1>2. (SUBSET S) \subseteq F
  BY ONLY IsFiniteSet(S), <1>1, SubsetInduction
<1>3. \E x \in S : \A y \in S : x <= y
  BY <1>2
<1> QED BY <1>3 DEF Min

-----------------------------------------------------------------------------
(* Sums. *)

LEMMA SumEmpty == ASSUME NEW f PROVE SumFunctionOnSet(f, {}) = 0
<1>1. PICK g : Solves(g, f, {})
  BY WalkExists, FS_EmptySet
<1>2. SumFunctionOnSet(f, {}) = g[{}]
  BY <1>1, SumIsWalk, FS_EmptySet
<1>3. g[{}] = 0
  BY <1>1 DEF Solves
<1> QED BY <1>2, <1>3

LEMMA SumStep ==
  ASSUME NEW S, IsFiniteSet(S), S # {}, NEW f
  PROVE  /\ Chosen(S) \in S
         /\ SumFunctionOnSet(f, S)
              = f[Chosen(S)] + SumFunctionOnSet(f, S \ {Chosen(S)})
<1> PICK R : R = S \ {Chosen(S)}
  OBVIOUS
<1>1. Chosen(S) \in S
  BY ChosenIn
<1>2. IsFiniteSet(R) /\ R \in SUBSET S
  BY <1>1, SmallerSet
<1>3. PICK g : Solves(g, f, S)
  BY WalkExists
<1>4. PICK h : Solves(h, f, R)
  BY <1>2, WalkExists
<1>5. g[R] = h[R]
  BY <1>2, <1>3, <1>4, WalkUnique
<1>6. SumFunctionOnSet(f, S) = g[S] /\ SumFunctionOnSet(f, R) = h[R]
  BY <1>2, <1>3, <1>4, SumIsWalk
<1>7. g[S] = f[Chosen(S)] + g[R]
  BY <1>3 DEF Solves
<1> QED BY <1>1, <1>5, <1>6, <1>7

LEMMA SumSame ==
  ASSUME NEW S, IsFiniteSet(S), NEW f, NEW g, \A x \in S : f[x] = g[x]
  PROVE  SumFunctionOnSet(f, S) = SumFunctionOnSet(g, S)
<1>1. PICK a : Solves(a, f, S)
  BY WalkExists
<1>2. PICK b : Solves(b, g, S)
  BY WalkExists
<1>3. a[S] = b[S]
  BY <1>1, <1>2, WalkUnique
<1> QED BY <1>1, <1>2, <1>3, SumIsWalk

LEMMA SumNat ==
  ASSUME NEW S, IsFiniteSet(S), NEW f, \A x \in S : f[x] \in Nat
  PROVE  SumFunctionOnSet(f, S) \in Nat
<1> PICK F : F = {T \in SUBSET S : SumFunctionOnSet(f, T) \in Nat}
  OBVIOUS
<1>1. ASSUME NEW T \in SUBSET S, \A U \in SUBSET T : U # T => U \in F PROVE T \in F
  <2>1. CASE T = {}
    BY <2>1, SumEmpty
  <2>2. CASE T # {}
    <3>1. IsFiniteSet(T)
      BY FS_Subset
    <3>2. /\ Chosen(T) \in T
          /\ SumFunctionOnSet(f, T) = f[Chosen(T)] + SumFunctionOnSet(f, T \ {Chosen(T)})
      BY <2>2, <3>1, SumStep
    <3>3. T \ {Chosen(T)} \in F
      BY <1>1, <3>2
    <3> QED BY <3>2, <3>3
  <2> QED BY <2>1, <2>2
<1>2. (SUBSET S) \subseteq F
  BY ONLY IsFiniteSet(S), <1>1, SubsetInduction
<1> QED BY <1>2

\* What is summed can be taken in any order: any element may come first.
LEMMA SumRemove ==
  ASSUME NEW S, IsFiniteSet(S), NEW f, \A x \in S : f[x] \in Nat, NEW y \in S
  PROVE  SumFunctionOnSet(f, S) = f[y] + SumFunctionOnSet(f, S \ {y})
<1> PICK F : F = {T \in SUBSET S : \A x \in T :
                    SumFunctionOnSet(f, T) = f[x] + SumFunctionOnSet(f, T \ {x})}
  OBVIOUS
<1>0. ASSUME NEW T \in SUBSET S
      PROVE  IsFiniteSet(T) /\ SumFunctionOnSet(f, T) \in Nat
  <2>1. IsFiniteSet(T)
    BY FS_Subset
  <2> QED BY <2>1, SumNat
<1>1. ASSUME NEW T \in SUBSET S, \A U \in SUBSET T : U # T => U \in F PROVE T \in F
  <2> SUFFICES ASSUME NEW x \in T
               PROVE  SumFunctionOnSet(f, T) = f[x] + SumFunctionOnSet(f, T \ {x})
    OBVIOUS
  <2> PICK c : c = Chosen(T)
    OBVIOUS
  <2>1. c \in T /\ SumFunctionOnSet(f, T) = f[c] + SumFunctionOnSet(f, T \ {c})
    BY <1>0, SumStep
  <2>2. CASE x = c
    BY <2>1, <2>2
  <2>3. CASE x # c
    <3> PICK A : A = T \ {c}
      OBVIOUS
    <3> PICK B : B = T \ {x}
      OBVIOUS
    <3>1. A \in F /\ x \in A /\ B \in F /\ c \in B
      BY <1>1, <2>1, <2>3
    <3>2. A \ {x} = B \ {c} /\ A \ {x} \in SUBSET S
      OBVIOUS
    <3>3. SumFunctionOnSet(f, A) = f[x] + SumFunctionOnSet(f, A \ {x})
      BY <3>1
    <3>4. SumFunctionOnSet(f, B) = f[c] + SumFunctionOnSet(f, B \ {c})
      BY <3>1
    <3>5. f[x] \in Nat /\ f[c] \in Nat /\ SumFunctionOnSet(f, A \ {x}) \in Nat
      BY <1>0, <2>1, <3>2
    <3>6. SumFunctionOnSet(f, B) = f[c] + SumFunctionOnSet(f, A \ {x})
      BY <3>2, <3>4
    <3>7. SumFunctionOnSet(f, T) = f[c] + SumFunctionOnSet(f, A)
      BY <2>1
    <3>8. SumFunctionOnSet(f, T) = f[x] + SumFunctionOnSet(f, B)
      BY <3>3, <3>5, <3>6, <3>7
    <3> QED BY <3>8
  <2> QED BY <2>2, <2>3
<1>2. (SUBSET S) \subseteq F
  BY ONLY IsFiniteSet(S), <1>1, SubsetInduction
<1> QED BY <1>2

\* A sum of larger numbers is larger, unless all are the same.
LEMMA SumMonotone ==
  ASSUME NEW S, IsFiniteSet(S), NEW f, NEW g,
         \A x \in S : f[x] \in Nat /\ g[x] \in Nat /\ f[x] <= g[x]
  PROVE  /\ SumFunctionOnSet(f, S) <= SumFunctionOnSet(g, S)
         /\ SumFunctionOnSet(g, S) <= SumFunctionOnSet(f, S) => \A x \in S : f[x] = g[x]
<1> PICK F : F = {T \in SUBSET S :
                    /\ SumFunctionOnSet(f, T) <= SumFunctionOnSet(g, T)
                    /\ SumFunctionOnSet(g, T) <= SumFunctionOnSet(f, T)
                         => \A x \in T : f[x] = g[x]}
  OBVIOUS
<1>0. ASSUME NEW T \in SUBSET S
      PROVE  /\ IsFiniteSet(T) /\ SumFunctionOnSet(f, T) \in Nat
             /\ SumFunctionOnSet(g, T) \in Nat
  <2>1. IsFiniteSet(T)
    BY FS_Subset
  <2> QED BY <2>1, SumNat
<1>1. ASSUME NEW T \in SUBSET S, \A U \in SUBSET T : U # T => U \in F PROVE T \in F
  <2>1. CASE T = {}
    BY <2>1, SumEmpty
  <2>2. CASE T # {}
    <3> PICK c : c = Chosen(T)
      OBVIOUS
    <3> PICK R : R = T \ {c}
      OBVIOUS
    <3>1. /\ c \in T
          /\ SumFunctionOnSet(f, T) = f[c] + SumFunctionOnSet(f, R)
          /\ SumFunctionOnSet(g, T) = g[c] + SumFunctionOnSet(g, R)
      BY <1>0, <2>2, SumStep
    <3>2. R \in F /\ R \in SUBSET S
      BY <1>1, <3>1
    <3>3. /\ SumFunctionOnSet(f, R) \in Nat /\ SumFunctionOnSet(g, R) \in Nat
          /\ f[c] \in Nat /\ g[c] \in Nat /\ f[c] <= g[c]
      BY <1>0, <3>1, <3>2
    <3>4. SumFunctionOnSet(f, T) <= SumFunctionOnSet(g, T)
      BY <3>1, <3>2, <3>3
    <3>5. ASSUME SumFunctionOnSet(g, T) <= SumFunctionOnSet(f, T)
          PROVE  \A x \in T : f[x] = g[x]
      <4>1. f[c] = g[c] /\ SumFunctionOnSet(g, R) <= SumFunctionOnSet(f, R)
        BY <3>1, <3>2, <3>3, <3>5
      <4> QED BY <3>2, <4>1
    <3> QED BY <3>4, <3>5
  <2> QED BY <2>1, <2>2
<1>2. (SUBSET S) \subseteq F
  BY ONLY IsFiniteSet(S), <1>1, SubsetInduction
<1> QED BY <1>2

LEMMA SumAdd ==
  ASSUME NEW S, IsFiniteSet(S), NEW f, NEW g, NEW h,
         \A x \in S : f[x] \in Nat /\ g[x] \in Nat /\ h[x] = f[x] + g[x]
  PROVE  SumFunctionOnSet(h, S) = SumFunctionOnSet(f, S) + SumFunctionOnSet(g, S)
<1> PICK F : F = {T \in SUBSET S :
       SumFunctionOnSet(h, T) = SumFunctionOnSet(f, T) + SumFunctionOnSet(g, T)}
  OBVIOUS
<1>0. ASSUME NEW T \in SUBSET S
      PROVE  /\ IsFiniteSet(T) /\ SumFunctionOnSet(f, T) \in Nat
             /\ SumFunctionOnSet(g, T) \in Nat
  <2>1. IsFiniteSet(T)
    BY FS_Subset
  <2> QED BY <2>1, SumNat
<1>1. ASSUME NEW T \in SUBSET S, \A U \in SUBSET T : U # T => U \in F PROVE T \in F
  <2>1. CASE T = {}
    BY <2>1, SumEmpty
  <2>2. CASE T # {}
    <3> PICK c : c = Chosen(T)
      OBVIOUS
    <3> PICK R : R = T \ {c}
      OBVIOUS
    <3>1. /\ c \in T
          /\ SumFunctionOnSet(f, T) = f[c] + SumFunctionOnSet(f, R)
          /\ SumFunctionOnSet(g, T) = g[c] + SumFunctionOnSet(g, R)
          /\ SumFunctionOnSet(h, T) = h[c] + SumFunctionOnSet(h, R)
      BY <1>0, <2>2, SumStep
    <3>2. R \in F /\ R \in SUBSET S
      BY <1>1, <3>1
    <3>3. /\ SumFunctionOnSet(f, R) \in Nat /\ SumFunctionOnSet(g, R) \in Nat
          /\ f[c] \in Nat /\ g[c] \in Nat /\ h[c] = f[c] + g[c]
          /\ SumFunctionOnSet(h, R) = SumFunctionOnSet(f, R) + SumFunctionOnSet(g, R)
      BY <1>0, <3>1, <3>2
    <3>4. SumFunctionOnSet(h, T) = SumFunctionOnSet(f, T) + SumFunctionOnSet(g, T)
      BY <3>1, <3>3
    <3> QED BY <3>4
  <2> QED BY <2>1, <2>2
<1>2. (SUBSET S) \subseteq F
  BY ONLY IsFiniteSet(S), <1>1, SubsetInduction
<1> QED BY <1>2

\* The sum of an indicator is a cardinality.
LEMMA SumIndicator ==
  ASSUME NEW S, IsFiniteSet(S), NEW R, NEW f,
         \A x \in S : f[x] = IF x \in R THEN 1 ELSE 0
  PROVE  SumFunctionOnSet(f, S) = Cardinality(S \cap R)
<1> PICK F : F = {T \in SUBSET S : SumFunctionOnSet(f, T) = Cardinality(T \cap R)}
  OBVIOUS
<1>1. ASSUME NEW T \in SUBSET S, \A U \in SUBSET T : U # T => U \in F PROVE T \in F
  <2>1. CASE T = {}
    <3>1. T \cap R = {}
      BY <2>1
    <3> QED BY <2>1, <3>1, SumEmpty, FS_EmptySet
  <2>2. CASE T # {}
    <3> PICK c : c = Chosen(T)
      OBVIOUS
    <3> PICK V : V = T \ {c}
      OBVIOUS
    <3>1. IsFiniteSet(T) /\ IsFiniteSet(T \cap R)
      BY FS_Subset
    <3>2. c \in T /\ SumFunctionOnSet(f, T) = f[c] + SumFunctionOnSet(f, V)
      BY <2>2, <3>1, SumStep
    <3>3. V \in F /\ V \in SUBSET S
      BY <1>1, <3>2
    <3>4. SumFunctionOnSet(f, V) = Cardinality(V \cap R)
      BY <3>3
    <3>5. CASE c \in R
      <4>1. V \cap R = (T \cap R) \ {c} /\ c \in T \cap R
        BY <3>2, <3>5
      <4>2. Cardinality(V \cap R) = Cardinality(T \cap R) - 1
        BY <3>1, <4>1, SmallerSet
      <4>3. Cardinality(T \cap R) \in Nat /\ f[c] = 1
        BY <3>1, <3>2, <3>5, FS_CardinalityType
      <4>4. SumFunctionOnSet(f, T) = Cardinality(T \cap R)
        BY <3>2, <3>4, <4>2, <4>3
      <4> QED BY <4>4
    <3>6. CASE c \notin R
      <4>1. V \cap R = T \cap R /\ f[c] = 0
        BY <3>2, <3>6
      <4>2. Cardinality(T \cap R) \in Nat
        BY <3>1, FS_CardinalityType
      <4>3. SumFunctionOnSet(f, T) = Cardinality(T \cap R)
        BY <3>2, <3>4, <4>1, <4>2
      <4> QED BY <4>3
    <3> QED BY <3>5, <3>6
  <2> QED BY <2>1, <2>2
<1>2. (SUBSET S) \subseteq F
  BY ONLY IsFiniteSet(S), <1>1, SubsetInduction
<1>3. SumFunctionOnSet(f, S) = Cardinality(S \cap R)
  BY <1>2
<1> QED BY <1>3

\* Counting pairs by their first or by their second half.
LEMMA DoubleCounting ==
  ASSUME NEW P, IsFiniteSet(P), NEW B, IsFiniteSet(B), NEW r, \A p \in P : r[p] \subseteq B
  PROVE  SumFunctionOnSet([p \in P |-> Cardinality(r[p])], P)
           = SumFunctionOnSet([b \in B |-> Cardinality({p \in P : b \in r[p]})], B)
<1> DEFINE Hosted(T) == [b \in B |-> Cardinality({p \in T : b \in r[p]})]
<1> PICK sizes : sizes = [p \in P |-> Cardinality(r[p])]
  OBVIOUS
<1> PICK F : F = {T \in SUBSET P :
       SumFunctionOnSet(sizes, T) = SumFunctionOnSet(Hosted(T), B)}
  OBVIOUS
<1>1. ASSUME NEW T \in SUBSET P, \A U \in SUBSET T : U # T => U \in F PROVE T \in F
  <2>0. IsFiniteSet(T)
    BY FS_Subset
  <2>1. CASE T = {}
    <3> PICK none : none = [b \in B |-> IF b \in {} THEN 1 ELSE 0]
      OBVIOUS
    <3>1. SumFunctionOnSet(none, B) = Cardinality(B \cap {})
      BY SumIndicator
    <3>2. B \cap {} = {}
      OBVIOUS
    <3>3. Cardinality({}) = 0
      BY FS_EmptySet
    <3>4. ASSUME NEW b \in B PROVE Hosted(T)[b] = none[b]
      <4>1. {p \in T : b \in r[p]} = {}
        BY <2>1
      <4> QED BY <3>3, <4>1
    <3>5. SumFunctionOnSet(Hosted(T), B) = SumFunctionOnSet(none, B)
      <4> HIDE DEF Hosted
      <4> QED BY <3>4, SumSame
    <3>6. SumFunctionOnSet(sizes, T) = 0
      BY <2>1, SumEmpty
    <3>7. SumFunctionOnSet(sizes, T) = SumFunctionOnSet(Hosted(T), B)
      BY <3>1, <3>2, <3>3, <3>5, <3>6
    <3> HIDE DEF Hosted
    <3> QED BY <3>7
  <2>2. CASE T # {}
    <3> PICK c : c = Chosen(T)
      OBVIOUS
    <3> PICK V : V = T \ {c}
      OBVIOUS
    <3> PICK one : one = [b \in B |-> IF b \in r[c] THEN 1 ELSE 0]
      OBVIOUS
    <3>1. c \in T /\ SumFunctionOnSet(sizes, T) = sizes[c] + SumFunctionOnSet(sizes, V)
      BY <2>0, <2>2, SumStep
    <3>2. V \in F /\ V \in SUBSET P /\ IsFiniteSet(V)
      BY <1>1, <3>1, <2>0, FS_Subset
    <3>3. SumFunctionOnSet(sizes, V) = SumFunctionOnSet(Hosted(V), B)
      <4> HIDE DEF Hosted
      <4> QED BY <3>2
    <3>4. SumFunctionOnSet(one, B) = Cardinality(r[c])
      <4>1. B \cap r[c] = r[c]
        BY <3>1
      <4>2. \A b \in B : one[b] = IF b \in r[c] THEN 1 ELSE 0
        OBVIOUS
      <4>3. SumFunctionOnSet(one, B) = Cardinality(B \cap r[c])
        BY ONLY <4>2, IsFiniteSet(B), SumIndicator
      <4> QED BY <4>1, <4>3
    <3>5. ASSUME NEW b \in B
          PROVE  /\ Hosted(V)[b] \in Nat /\ one[b] \in Nat
                 /\ Hosted(T)[b] = Hosted(V)[b] + one[b]
      <4> PICK X : X = {p \in T : b \in r[p]}
        OBVIOUS
      <4> PICK Y : Y = {p \in V : b \in r[p]}
        OBVIOUS
      <4>1. IsFiniteSet(X) /\ IsFiniteSet(Y)
        BY <2>0, <3>2, FS_Subset
      <4>2. Cardinality(X) \in Nat /\ Cardinality(Y) \in Nat
        BY <4>1, FS_CardinalityType
      <4>3. Hosted(T)[b] = Cardinality(X) /\ Hosted(V)[b] = Cardinality(Y)
        OBVIOUS
      <4>4. Cardinality(X) = Cardinality(Y) + one[b]
        <5>1. CASE b \in r[c]
          <6>1. Y = X \ {c} /\ c \in X /\ one[b] = 1
            BY <3>1, <5>1
          <6>2. Cardinality(Y) = Cardinality(X) - 1
            BY <4>1, <6>1, SmallerSet
          <6> QED BY <4>2, <6>1, <6>2
        <5>2. CASE b \notin r[c]
          <6>1. X = Y
            BY <3>1, <5>2
          <6>2. one[b] = 0
            BY <5>2
          <6>3. Cardinality(X) = Cardinality(Y)
            BY <6>1
          <6> QED BY ONLY <4>2, <6>2, <6>3
        <5> QED BY <5>1, <5>2
      <4> QED BY <4>2, <4>3, <4>4
    <3>6. SumFunctionOnSet(Hosted(T), B)
            = SumFunctionOnSet(Hosted(V), B) + SumFunctionOnSet(one, B)
      <4> PICK f : f = Hosted(V)
        OBVIOUS
      <4> PICK h : h = Hosted(T)
        OBVIOUS
      <4>1. \A b \in B : f[b] \in Nat /\ one[b] \in Nat /\ h[b] = f[b] + one[b]
        BY <3>5
      <4>2. SumFunctionOnSet(h, B) = SumFunctionOnSet(f, B) + SumFunctionOnSet(one, B)
        BY ONLY <4>1, IsFiniteSet(B), SumAdd
      <4> HIDE DEF Hosted
      <4> QED BY <4>2
    <3>7. SumFunctionOnSet(Hosted(V), B) \in Nat /\ SumFunctionOnSet(one, B) \in Nat
      <4> HIDE DEF Hosted
      <4> QED BY <3>5, SumNat
    <3>8. sizes[c] = Cardinality(r[c])
      BY <3>1
    <3>9. SumFunctionOnSet(sizes, T) = SumFunctionOnSet(Hosted(T), B)
      <4> HIDE DEF Hosted
      <4> QED BY <3>1, <3>3, <3>4, <3>6, <3>7, <3>8
    <3> HIDE DEF Hosted
    <3> QED BY <3>9
  <2> QED BY <2>1, <2>2
<1>2. (SUBSET P) \subseteq F
  <2> HIDE DEF Hosted
  <2> QED BY ONLY IsFiniteSet(P), <1>1, SubsetInduction
<1>3. SumFunctionOnSet(sizes, P) = SumFunctionOnSet(Hosted(P), B)
  <2> HIDE DEF Hosted
  <2> QED BY <1>2
<1> QED BY <1>3

-----------------------------------------------------------------------------
(* The places of a sequence, and the largest of some of them. *)

\* The largest of some numbers is one of them.
LEMMA MaxIn ==
  ASSUME NEW S, IsFiniteSet(S), S \subseteq Int, S # {}
  PROVE  Max(S) \in S /\ \A y \in S : y <= Max(S)
<1> PICK F : F = {T \in SUBSET S : T # {} => \E x \in T : \A y \in T : y <= x}
  OBVIOUS
<1>1. ASSUME NEW T \in SUBSET S, \A U \in SUBSET T : U # T => U \in F PROVE T \in F
  <2> SUFFICES ASSUME NEW c \in T PROVE \E x \in T : \A y \in T : y <= x
    OBVIOUS
  <2>1. T \ {c} \in F
    BY <1>1
  <2>2. CASE T \ {c} = {}
    BY <2>2
  <2>3. CASE T \ {c} # {}
    <3>1. PICK x \in T \ {c} : \A y \in T \ {c} : y <= x
      BY <2>1, <2>3
    <3>2. CASE c <= x
      BY <3>1, <3>2
    <3>3. CASE x <= c
      BY <3>1, <3>3
    <3> QED BY <3>1, <3>2, <3>3
  <2> QED BY <2>2, <2>3
<1>2. (SUBSET S) \subseteq F
  BY ONLY IsFiniteSet(S), <1>1, SubsetInduction
<1>3. \E x \in S : \A y \in S : x >= y
  BY <1>2
<1> QED BY <1>3 DEF Max

LEMMA LastOf == ASSUME NEW n \in Nat, n > 0 PROVE Max(1..n) = n /\ (1..n) \ {n} = 1..(n - 1)
<1> PICK I : I = 1..n
  OBVIOUS
<1>1. IsFiniteSet(I) /\ I \subseteq Int /\ I # {}
  <2>1. n \in I
    OBVIOUS
  <2>2. IsFiniteSet(I)
    BY FS_Interval
  <2> QED BY <2>1, <2>2
<1>2. Max(I) \in I /\ \A y \in I : y <= Max(I)
  BY ONLY <1>1, MaxIn
<1>3. Max(I) = n
  BY <1>2
<1> QED BY <1>3

-----------------------------------------------------------------------------
(* Folds of a sequence from the left, whose accumulator stays in a set.    *)

\* The equation of the walk: st[<<i, r>>] is what becomes of r at place i.
Folds(G, n, base, st) ==
  G = [s \in SUBSET (1..n) |->
         IF s = {} THEN base ELSE st[<<Max(s), G[s \ {Max(s)}]>>]]

LEMMA SequenceWalk ==
  ASSUME NEW n \in Nat, NEW X, NEW base \in X, NEW st \in [(1..n) \X X -> X]
  PROVE  \E G \in [SUBSET (1..n) -> X] : Folds(G, n, base, st)
<1> PICK I : I = 1..n
  OBVIOUS
<1> DEFINE Value(g, s) == IF s = {} THEN base ELSE st[<<Max(s), g[s \ {Max(s)}]>>]
<1> DEFINE UpTo(g, m) == \A s \in SUBSET I : Cardinality(s) <= m => g[s] = Value(g, s)
<1>0. IsFiniteSet(I)
  BY FS_Interval
<1>1. PICK N : N = {m \in Nat : \E g \in [SUBSET I -> X] : UpTo(g, m)}
  OBVIOUS
<1>2. ASSUME NEW s \in SUBSET I PROVE IsFiniteSet(s) /\ Cardinality(s) \in Nat
  BY <1>0, FS_Subset, FS_CardinalityType
<1>3. 0 \in N
  <2>1. UpTo([s \in SUBSET I |-> base], 0)
    BY <1>2, FS_EmptySet
  <2>2. [s \in SUBSET I |-> base] \in [SUBSET I -> X]
    OBVIOUS
  <2> HIDE DEF UpTo
  <2> QED BY <1>1, <2>1, <2>2
<1>5. ASSUME NEW s \in SUBSET I, s # {}
      PROVE  Max(s) \in s /\ Max(s) \in I /\ s \ {Max(s)} \in SUBSET I
  <2>1. s \subseteq Int
    OBVIOUS
  <2>2. Max(s) \in s
    BY <1>2, <1>5, <2>1, MaxIn
  <2> QED BY <2>2
<1>4. ASSUME NEW m \in Nat, m \in N PROVE m + 1 \in N
  <2>1. PICK g \in [SUBSET I -> X] : UpTo(g, m)
    BY <1>1, <1>4
  <2>2. ASSUME NEW s \in SUBSET I PROVE Value(g, s) \in X
    <3>1. CASE s = {}
      BY <3>1
    <3>2. CASE s # {}
      <4>1. Max(s) \in I /\ g[s \ {Max(s)}] \in X
        BY <3>2, <1>5
      <4> QED BY <3>2, <4>1
    <3> QED BY <3>1, <3>2
  <2> PICK h : h = [s \in SUBSET I |-> Value(g, s)]
    OBVIOUS
  <2>3. h \in [SUBSET I -> X]
    <3> HIDE DEF Value
    <3> QED BY <2>2
  <2>4. ASSUME NEW s \in SUBSET I, Cardinality(s) <= m + 1 PROVE h[s] = Value(h, s)
    <3>1. CASE s = {}
      BY <3>1
    <3>2. CASE s # {}
      <4>1. Max(s) \in s /\ s \ {Max(s)} \in SUBSET I
        BY <3>2, <1>5
      <4>2. Cardinality(s \ {Max(s)}) <= m
        BY <1>0, <1>2, <2>4, <4>1, SmallerSet
      <4>3. h[s \ {Max(s)}] = g[s \ {Max(s)}]
        BY <2>1, <4>1, <4>2
      <4> QED BY <3>2, <4>3
    <3> QED BY <3>1, <3>2
  <2>5. UpTo(h, m + 1)
    BY <2>4
  <2>6. \E k \in [SUBSET I -> X] : UpTo(k, m + 1)
    <3> HIDE DEF UpTo
    <3> QED BY <2>3, <2>5
  <2> HIDE DEF UpTo
  <2> QED BY <1>1, <2>6
<1>6. Cardinality(I) \in N
  <2>1. Nat \subseteq N
    BY ONLY <1>3, <1>4, CountInduction
  <2> QED BY <1>2, <2>1
<1>7. PICK g \in [SUBSET I -> X] : UpTo(g, Cardinality(I))
  BY <1>1, <1>6
<1>8. ASSUME NEW s \in SUBSET I PROVE Cardinality(s) <= Cardinality(I)
  BY <1>0, FS_Subset
<1>9. g = [s \in SUBSET I |-> Value(g, s)]
  <2>1. \A s \in SUBSET I : g[s] = Value(g, s)
    BY <1>7, <1>8
  <2> HIDE DEF Value
  <2> QED BY <2>1
<1>10. Folds(g, n, base, st)
  BY <1>9 DEF Folds
<1> HIDE DEF UpTo, Value
<1> QED BY <1>10

\* Two walks that take the same steps agree.
LEMMA SameWalk ==
  ASSUME NEW n \in Nat, NEW g, NEW h, g[{}] = h[{}],
         \A s \in SUBSET (1..n) :
           s # {} /\ g[s \ {Max(s)}] = h[s \ {Max(s)}] => g[s] = h[s]
  PROVE  g[1..n] = h[1..n]
<1> PICK I : I = 1..n
  OBVIOUS
<1> PICK F : F = {s \in SUBSET I : g[s] = h[s]}
  OBVIOUS
<1>0. IsFiniteSet(I)
  BY FS_Interval
<1>1. ASSUME NEW T \in SUBSET I, \A U \in SUBSET T : U # T => U \in F PROVE T \in F
  <2>1. CASE T = {}
    BY <2>1
  <2>2. CASE T # {}
    <3>1. IsFiniteSet(T) /\ T \subseteq Int
      <4>1. T \subseteq Int
        OBVIOUS
      <4> QED BY <1>0, <4>1, FS_Subset
    <3>2. Max(T) \in T
      BY <2>2, <3>1, MaxIn
    <3>3. T \ {Max(T)} \in F
      BY <1>1, <3>2
    <3> QED BY <2>2, <3>3
  <2> QED BY <2>1, <2>2
<1>2. (SUBSET I) \subseteq F
  BY ONLY <1>0, <1>1, SubsetInduction
<1> QED BY <1>2

LEMMA LastTaken ==
  ASSUME NEW n \in Nat, NEW s \in SUBSET (1..n), s # {}
  PROVE  Max(s) \in 1..n /\ s \ {Max(s)} \in SUBSET (1..n)
<1>1. s \subseteq Int /\ IsFiniteSet(s)
  <2>1. IsFiniteSet(1..n)
    BY FS_Interval
  <2>2. IsFiniteSet(s)
    BY <2>1, FS_Subset
  <2>3. s \subseteq Int
    OBVIOUS
  <2> QED BY <2>2, <2>3
<1>2. Max(s) \in s
  BY <1>1, MaxIn
<1> QED BY <1>2

\* A walk takes the steps of st as long as it stays in X; F are the values it
\* comes through, place by place.
Walks(h, n, X, base, st) ==
  /\ h[{}] = base
  /\ \A s \in SUBSET (1..n) :
       s # {} /\ h[s \ {Max(s)}] \in X => h[s] = st[<<Max(s), h[s \ {Max(s)}]>>]
Staged(F, n, X, base, st, last) ==
  /\ F \in [0..n -> X] /\ F[0] = base /\ F[n] = last
  /\ \A i \in 1..n : F[i] = st[<<i, F[i - 1]>>]

LEMMA WalkStages ==
  ASSUME NEW n \in Nat, NEW X, NEW base \in X, NEW st \in [(1..n) \X X -> X], NEW h,
         Walks(h, n, X, base, st)
  PROVE  \E F : Staged(F, n, X, base, st, h[1..n])
<1>0. PICK G \in [SUBSET (1..n) -> X] : Folds(G, n, base, st)
  BY SequenceWalk
<1> PICK F : F = [i \in 0..n |-> G[1..i]]
  OBVIOUS
<1>1. ASSUME NEW i \in 0..n PROVE (1..i) \in SUBSET (1..n)
  OBVIOUS
<1>2. F \in [0..n -> X]
  BY <1>1
<1>3. F[0] = base
  <2>1. 1..0 = {}
    OBVIOUS
  <2>2. G[{}] = base
    BY <1>0 DEF Folds
  <2> QED BY <2>1, <2>2
<1>4. ASSUME NEW i \in 1..n PROVE F[i] = st[<<i, F[i - 1]>>]
  <2>1. Max(1..i) = i /\ (1..i) \ {i} = 1..(i - 1)
    BY LastOf
  <2> PICK s : s = 1..i
    OBVIOUS
  <2>2. i \in s /\ s \in SUBSET (1..n)
    OBVIOUS
  <2>3. G[s] = st[<<Max(s), G[s \ {Max(s)}]>>]
    BY <1>0, <2>2 DEF Folds
  <2>4. s \ {Max(s)} = 1..(i - 1) /\ Max(s) = i
    BY <2>1
  <2>5. F[i] = G[s] /\ F[i - 1] = G[1..(i - 1)]
    OBVIOUS
  <2> QED BY <2>3, <2>4, <2>5
<1>5. h[{}] = G[{}]
  BY <1>0 DEF Folds, Walks
<1>6. ASSUME NEW s \in SUBSET (1..n), s # {}, h[s \ {Max(s)}] = G[s \ {Max(s)}]
      PROVE  h[s] = G[s]
  <2>1. G[s \ {Max(s)}] \in X
    BY <1>6, LastTaken
  <2>2. G[s] = st[<<Max(s), G[s \ {Max(s)}]>>]
    BY <1>0, <1>6 DEF Folds
  <2> QED BY <1>6, <2>1, <2>2 DEF Walks
<1>7. h[1..n] = G[1..n]
  <2>1. \A s \in SUBSET (1..n) :
          s # {} /\ h[s \ {Max(s)}] = G[s \ {Max(s)}] => h[s] = G[s]
    BY <1>6
  <2> QED BY ONLY n \in Nat, <1>5, <2>1, SameWalk
<1>8. F[n] = G[1..n]
  OBVIOUS
<1>9. Staged(F, n, X, base, st, h[1..n])
  BY <1>2, <1>3, <1>4, <1>7, <1>8 DEF Staged
<1> QED BY <1>9

\* Staged that begin alike and go on alike are alike.
LEMMA SameStages ==
  ASSUME NEW n \in Nat, NEW F, NEW G, F[0] = G[0],
         \A i \in 1..n : F[i - 1] = G[i - 1] => F[i] = G[i]
  PROVE  F[n] = G[n]
<1> PICK N : N = {m \in Nat : m <= n => F[m] = G[m]}
  OBVIOUS
<1>1. 0 \in N
  OBVIOUS
<1>2. ASSUME NEW m \in Nat, m \in N PROVE m + 1 \in N
  <2>1. m + 1 <= n => m + 1 \in 1..n /\ F[m] = G[m]
    BY <1>2
  <2>2. m + 1 <= n => F[m + 1] = G[m + 1]
    <3> SUFFICES ASSUME m + 1 <= n PROVE F[m + 1] = G[m + 1]
      OBVIOUS
    <3> PICK i : i = m + 1
      OBVIOUS
    <3>1. i \in 1..n /\ i - 1 = m /\ F[m] = G[m]
      BY <2>1
    <3> QED BY <3>1
  <2> QED BY <2>2
<1>3. Nat \subseteq N
  BY ONLY <1>1, <1>2, CountInduction
<1> QED BY <1>3

\* What holds at the first stage and goes on holds at all.
LEMMA StageInduction ==
  ASSUME NEW n \in Nat, NEW S, 0 \in S,
         \A i \in 0..n : i \in S /\ i < n => i + 1 \in S
  PROVE  (0..n) \subseteq S
<1> PICK N : N = {m \in Nat : m <= n => m \in S}
  OBVIOUS
<1>1. 0 \in N
  OBVIOUS
<1>2. ASSUME NEW m \in Nat, m \in N PROVE m + 1 \in N
  BY <1>2
<1>3. Nat \subseteq N
  BY ONLY <1>1, <1>2, CountInduction
<1> QED BY <1>3

-----------------------------------------------------------------------------
(* Parts of sequences, and what is put together of them.                   *)

\* The part of s after the first from elements, up to the to-th.
IsPart(part, s, from, to) ==
  /\ Len(part) = to - from
  /\ \A i \in 1..to - from : part[i] = s[from + i]
\* One sequence after the other.
IsBoth(both, a, b) ==
  /\ Len(both) = Len(a) + Len(b)
  /\ \A i \in 1..Len(a) : both[i] = a[i]
  /\ \A i \in 1..Len(b) : both[Len(a) + i] = b[i]

\* A part of a sequence, element by element.
LEMMA PartIs ==
  ASSUME NEW E, NEW s \in Seq(E), NEW from \in 0..Len(s), NEW to \in from..Len(s),
         NEW part, part = SubSeq(s, from + 1, to)
  PROVE  part \in Seq(E) /\ IsPart(part, s, from, to)
<1>0. /\ Len(s) \in Nat /\ from \in Nat /\ to \in Nat /\ from <= to
      /\ \A i \in from + 1..to : s[i] \in E
  BY LenProperties
<1>1. /\ part \in Seq(E)
      /\ Len(part) = IF from + 1 <= to THEN to - (from + 1) + 1 ELSE 0
      /\ \A i \in 1..to - (from + 1) + 1 : part[i] = s[from + 1 + i - 1]
  BY <1>0, SubSeqProperties
<1>2. Len(part) = to - from
  BY ONLY <1>0, <1>1
<1>3. ASSUME NEW i \in 1..to - from PROVE part[i] = s[from + i]
  <2>1. i \in 1..to - (from + 1) + 1 /\ from + 1 + i - 1 = from + i
    BY ONLY <1>0, i \in 1..to - from
  <2> QED BY ONLY <1>1, <2>1
<1> QED BY ONLY <1>1, <1>2, <1>3 DEF IsPart

\* The first n elements of a sequence.
LEMMA HeadIs ==
  ASSUME NEW E, NEW s \in Seq(E), NEW n \in 0..Len(s), NEW head, head = SubSeq(s, 1, n)
  PROVE  head \in Seq(E) /\ IsPart(head, s, 0, n)
<1>0. Len(s) \in Nat /\ n \in Nat /\ \A i \in 1..n : s[i] \in E
  BY LenProperties
<1>1. /\ head \in Seq(E)
      /\ Len(head) = IF 1 <= n THEN n - 1 + 1 ELSE 0
      /\ \A i \in 1..n - 1 + 1 : head[i] = s[1 + i - 1]
  BY <1>0, SubSeqProperties
<1>2. Len(head) = n - 0
  BY ONLY <1>0, <1>1
<1>3. ASSUME NEW i \in 1..n - 0 PROVE head[i] = s[0 + i]
  <2>1. i \in 1..n - 1 + 1 /\ 1 + i - 1 = 0 + i
    BY ONLY <1>0, i \in 1..n - 0
  <2> QED BY ONLY <1>1, <2>1
<1> QED BY ONLY <1>1, <1>2, <1>3 DEF IsPart

\* Two sequences put together, element by element.
LEMMA BothIs ==
  ASSUME NEW E, NEW a \in Seq(E), NEW b \in Seq(E), NEW both, both = a \o b
  PROVE  both \in Seq(E) /\ IsBoth(both, a, b)
<1>0. Len(a) \in Nat /\ Len(b) \in Nat
  BY LenProperties
<1>1. /\ both \in Seq(E) /\ Len(both) = Len(a) + Len(b)
      /\ \A i \in 1..Len(a) + Len(b) : both[i] = IF i <= Len(a) THEN a[i] ELSE b[i - Len(a)]
  BY ConcatProperties
<1>2. ASSUME NEW i \in 1..Len(a) PROVE both[i] = a[i]
  <2>1. i \in 1..Len(a) + Len(b) /\ i <= Len(a)
    BY ONLY <1>0, i \in 1..Len(a)
  <2> QED BY ONLY <1>1, <2>1
<1>3. ASSUME NEW i \in 1..Len(b) PROVE both[Len(a) + i] = b[i]
  <2>1. /\ Len(a) + i \in 1..Len(a) + Len(b) /\ ~(Len(a) + i <= Len(a))
        /\ Len(a) + i - Len(a) = i
    BY ONLY <1>0, i \in 1..Len(b)
  <2> QED BY ONLY <1>1, <2>1
<1> QED BY ONLY <1>1, <1>2, <1>3 DEF IsBoth
=============================================================================
