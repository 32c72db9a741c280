-------------------------------- MODULE Sums --------------------------------
(***************************************************************************)
(* Lemmas about SumFunctionOnSet of the community modules, which the       *)
(* models add up with.  Its recursion runs over the subsets of a finite    *)
(* set; induction is over a set X of naturals or subsets, since the        *)
(* provers cannot instantiate the library's P(_).                          *)
(***************************************************************************)
EXTENDS Integers, Functions, FiniteSetsExt, FiniteSetTheorems, WellFoundedInduction, TLAPS

\* Induction over the naturals, and over the subsets of a finite set.
LEMMA CountingUp ==
    ASSUME NEW X, 0 \in X, \A n \in Nat : n \in X => n + 1 \in X
    PROVE  Nat \subseteq X
<1> DEFINE T == {n \in Nat : n \notin X}
<1>1. SUFFICES ASSUME T # {} PROVE FALSE
  OBVIOUS
<1>2. PICK n \in T : \A m \in T : ~(<<m, n>> \in OpToRel(<, Nat))
  <2>1. IsWellFoundedOn(OpToRel(<, Nat), Nat)
    BY NatLessThanWellFounded
  <2>2. T \subseteq Nat
    OBVIOUS
  <2>. HIDE DEF T
  <2>. QED  BY <1>1, <2>1, <2>2, WFMin
<1>3. n - 1 \in Nat /\ n - 1 < n /\ n = (n - 1) + 1
  OBVIOUS
<1>4. <<n - 1, n>> \in OpToRel(<, Nat)
  BY <1>3 DEF OpToRel
<1>5. n - 1 \notin T
  BY <1>2, <1>4
<1>. QED  BY <1>3, <1>5

LEMMA SmallerSets ==
    ASSUME NEW S, IsFiniteSet(S), NEW X,
           \A T \in SUBSET S : (\A U \in SUBSET T : U # T => U \in X) => T \in X
    PROVE  \A T \in SUBSET S : T \in X
<1> DEFINE Bad == {T \in FiniteSubsetsOf(S) : T \notin X}
<1>1. FiniteSubsetsOf(S) = SUBSET S
  BY FS_Subset DEF FiniteSubsetsOf
<1>2. SUFFICES ASSUME Bad # {} PROVE FALSE
  BY <1>1
<1>3. PICK T \in Bad : \A U \in Bad : ~(<<U, T>> \in StrictSubsetOrdering(S))
  <2>1. IsWellFoundedOn(StrictSubsetOrdering(S), FiniteSubsetsOf(S))
    BY FS_StrictSubsetOrderingWellFounded
  <2>2. Bad \subseteq FiniteSubsetsOf(S)
    OBVIOUS
  <2>. HIDE DEF Bad
  <2>. QED  BY <1>2, <2>1, <2>2, WFMin
<1>4. ASSUME NEW U \in SUBSET T, U # T PROVE U \in X
  <2>1. U \in SUBSET S /\ T \in SUBSET S
    BY <1>1
  <2>2. <<U, T>> \in StrictSubsetOrdering(S)
    BY <1>4, <2>1 DEF StrictSubsetOrdering
  <2>. QED  BY <1>1, <1>3, <2>1, <2>2
<1>. QED  BY <1>1, <1>3, <1>4

LEMMA GrowingSets ==
    ASSUME NEW S, IsFiniteSet(S), NEW X, {} \in X,
           \A T \in SUBSET S : \A x \in S \ T : T \in X => T \cup {x} \in X
    PROVE  S \in X
<1>1. ASSUME NEW T \in SUBSET S, \A U \in SUBSET T : U # T => U \in X
      PROVE  T \in X
  <2>1. CASE T = {}
    BY <2>1
  <2>2. CASE T # {}
    <3>1. PICK x \in T : TRUE
      BY <2>2
    <3>2. T \ {x} \in SUBSET T /\ T \ {x} # T /\ T = (T \ {x}) \cup {x}
      BY <3>1
    <3>3. T \ {x} \in X /\ T \ {x} \in SUBSET S /\ x \in S \ (T \ {x})
      BY <1>1, <3>1, <3>2
    <3>4. (T \ {x}) \cup {x} \in X
      BY <3>3
    <3>. QED  BY <3>2, <3>4
  <2>. QED  BY <2>1, <2>2
<1>. QED  BY <1>1, SmallerSets

-----------------------------------------------------------------------------
(* The recursion of the library *)

Any(s) == CHOOSE x \in s : TRUE

Adds(f, s, g) == IF s = {} THEN 0 ELSE f[Any(s)] + g[s \ {Any(s)}]

Adding(f, S) == CHOOSE g : g = [s \in SUBSET S |-> Adds(f, s, g)]

LEMMA AddingExists ==
    ASSUME NEW f, NEW S, IsFiniteSet(S)
    PROVE  \A s \in SUBSET S : Adding(f, S)[s] = Adds(f, s, Adding(f, S))
<1> DEFINE X == {n \in Nat : \E g : \A s \in SUBSET S :
                    Cardinality(s) <= n => g[s] = Adds(f, s, g)}
<1>1. ASSUME NEW s \in SUBSET S
      PROVE  /\ Cardinality(s) \in Nat /\ Cardinality(s) <= Cardinality(S)
             /\ s # {} => Cardinality(s) >= 1
             /\ s # {} => /\ s \ {Any(s)} \in SUBSET S
                          /\ Cardinality(s \ {Any(s)}) = Cardinality(s) - 1
  <2>1. IsFiniteSet(s) /\ Cardinality(s) <= Cardinality(S)
    BY FS_Subset
  <2>2. Cardinality(s) \in Nat
    BY <2>1, FS_CardinalityType
  <2>3. ASSUME s # {}
        PROVE  Cardinality(s) >= 1 /\ Cardinality(s \ {Any(s)}) = Cardinality(s) - 1
    <3>1. Any(s) \in s
      BY <2>3 DEF Any
    <3>2. Cardinality(s) # 0
      BY <2>1, <2>3, FS_EmptySet
    <3>3. Cardinality(s \ {Any(s)}) = Cardinality(s) - 1
      BY <2>1, <3>1, FS_RemoveElement
    <3>. QED  BY <2>2, <3>2, <3>3
  <2>. QED  BY <2>1, <2>2, <2>3
<1>2. 0 \in X
  <2>1. ASSUME NEW s \in SUBSET S, Cardinality(s) <= 0
        PROVE  [t \in SUBSET S |-> 0][s] = Adds(f, s, [t \in SUBSET S |-> 0])
    <3>1. s = {}
      <4>1. Cardinality(s) \in Nat /\ (s # {} => Cardinality(s) >= 1)
        BY <1>1
      <4>. QED  BY <2>1, <4>1
    <3>. QED  BY <3>1 DEF Adds
  <2>. QED  BY <2>1
<1>3. ASSUME NEW n \in Nat, n \in X
      PROVE  n + 1 \in X
  <2>1. PICK g : \A s \in SUBSET S : Cardinality(s) <= n => g[s] = Adds(f, s, g)
    BY <1>3
  <2> DEFINE h == [s \in SUBSET S |-> Adds(f, s, g)]
  <2>2. ASSUME NEW s \in SUBSET S, Cardinality(s) <= n + 1
        PROVE  h[s] = Adds(f, s, h)
    <3>1. CASE s = {}
      BY <3>1 DEF Adds
    <3>2. CASE s # {}
      <4> DEFINE r == s \ {Any(s)}
      <4>1. r \in SUBSET S /\ Cardinality(r) <= n
        BY <1>1, <2>2, <3>2
      <4>2. g[r] = Adds(f, r, g)
        BY <2>1, <4>1
      <4>3. h[r] = g[r]
        BY <4>1, <4>2
      <4>4. h[s] = f[Any(s)] + g[r]
        BY <3>2 DEF Adds
      <4>. QED  BY <3>2, <4>3, <4>4 DEF Adds
    <3>. QED  BY <3>1, <3>2
  <2>. HIDE DEF h
  <2>. QED  BY <2>2
<1>4. Cardinality(S) \in X
  <2>. HIDE DEF X
  <2>. QED  BY <1>2, <1>3, CountingUp, FS_CardinalityType
<1>5. PICK g : \A s \in SUBSET S : g[s] = Adds(f, s, g)
  BY <1>1, <1>4
<1> DEFINE h == [s \in SUBSET S |-> g[s]]
<1>6. h = [s \in SUBSET S |-> Adds(f, s, h)]
  <2>1. ASSUME NEW s \in SUBSET S
        PROVE  g[s] = Adds(f, s, h)
    BY <1>1, <1>5, <2>1 DEF Adds
  <2>. QED  BY <2>1
<1>. HIDE DEF h
<1>7. Adding(f, S) = [s \in SUBSET S |-> Adds(f, s, Adding(f, S))]
  BY <1>6 DEF Adding
<1> DEFINE a == Adding(f, S)
<1>8. a = [s \in SUBSET S |-> Adds(f, s, a)]
  BY <1>7
<1>. HIDE DEF a
<1>9. \A s \in SUBSET S : a[s] = Adds(f, s, a)
  BY <1>8
<1>. QED  BY <1>9 DEF a

\* What is added up over a subset is the same within any set.
LEMMA AddingWithin ==
    ASSUME NEW f, NEW S, IsFiniteSet(S), NEW R \in SUBSET S
    PROVE  Adding(f, S)[R] = SumFunctionOnSet(f, R)
<1>1. IsFiniteSet(R)
  BY FS_Subset
<1> DEFINE X == {s \in SUBSET R : Adding(f, S)[s] = Adding(f, R)[s]}
<1>2. ASSUME NEW s \in SUBSET R, \A u \in SUBSET s : u # s => u \in X
      PROVE  s \in X
  <2>1. Adding(f, S)[s] = Adds(f, s, Adding(f, S))
    BY AddingExists
  <2>2. Adding(f, R)[s] = Adds(f, s, Adding(f, R))
    BY <1>1, AddingExists
  <2>3. CASE s = {}
    BY <2>1, <2>2, <2>3 DEF Adds
  <2>4. CASE s # {}
    <3>1. Any(s) \in s
      BY <2>4 DEF Any
    <3>2. s \ {Any(s)} \in X
      BY <1>2, <3>1
    <3>. QED  BY <2>1, <2>2, <2>4, <3>2 DEF Adds
  <2>. QED  BY <2>3, <2>4
<1>3. R \in X
  <2>. HIDE DEF X
  <2>. QED  BY <1>1, <1>2, SmallerSets
<1>4. SumFunctionOnSet(f, R) = Adding(f, R)[R]
  BY DEF SumFunctionOnSet, FoldFunctionOnSet, MapThenFoldSet, Adding, Adds, Any
<1>. QED  BY <1>3, <1>4

LEMMA SumUnfolds ==
    ASSUME NEW f, NEW S, IsFiniteSet(S)
    PROVE  SumFunctionOnSet(f, S) =
              IF S = {} THEN 0
              ELSE f[Any(S)] + SumFunctionOnSet(f, S \ {Any(S)})
<1>1. SumFunctionOnSet(f, S) = Adds(f, S, Adding(f, S))
  BY AddingExists, AddingWithin
<1>2. Adding(f, S)[S \ {Any(S)}] = SumFunctionOnSet(f, S \ {Any(S)})
  BY AddingWithin
<1>. QED  BY <1>1, <1>2 DEF Adds

-----------------------------------------------------------------------------
(* Sums of integers *)

LEMMA SumOfNothing == ASSUME NEW f PROVE SumFunctionOnSet(f, {}) = 0
BY SumUnfolds, FS_EmptySet

LEMMA SumType ==
    ASSUME NEW f, NEW S, IsFiniteSet(S), \A x \in S : f[x] \in Int
    PROVE  SumFunctionOnSet(f, S) \in Int
<1> DEFINE X == {s \in SUBSET S : SumFunctionOnSet(f, s) \in Int}
<1>1. ASSUME NEW s \in SUBSET S, \A u \in SUBSET s : u # s => u \in X
      PROVE  s \in X
  <2>1. CASE s = {}
    BY <2>1, SumOfNothing
  <2>2. CASE s # {}
    <3>1. Any(s) \in s
      BY <2>2 DEF Any
    <3>2. s \ {Any(s)} \in X
      BY <1>1, <3>1
    <3>3. SumFunctionOnSet(f, s) = f[Any(s)] + SumFunctionOnSet(f, s \ {Any(s)})
      BY <2>2, SumUnfolds, FS_Subset
    <3>. QED  BY <3>1, <3>2, <3>3
  <2>. QED  BY <2>1, <2>2
<1>2. S \in X
  <2>. HIDE DEF X
  <2>. QED  BY <1>1, SmallerSets
<1>. QED  BY <1>2

\* Any summand can be taken out.
LEMMA SumOfRest ==
    ASSUME NEW f, NEW S, IsFiniteSet(S), \A x \in S : f[x] \in Int
    PROVE  \A x \in S : SumFunctionOnSet(f, S) = f[x] + SumFunctionOnSet(f, S \ {x})
<1> DEFINE X == {s \in SUBSET S : \A x \in s :
                    SumFunctionOnSet(f, s) = f[x] + SumFunctionOnSet(f, s \ {x})}
<1>1. ASSUME NEW s \in SUBSET S, \A u \in SUBSET s : u # s => u \in X
      PROVE  s \in X
  <2>1. SUFFICES ASSUME NEW x \in s
        PROVE  SumFunctionOnSet(f, s) = f[x] + SumFunctionOnSet(f, s \ {x})
    BY DEF X
  <2> DEFINE a == Any(s)
             r == s \ {a}
  <2>2. a \in s /\ IsFiniteSet(s) /\ r \in X /\ s \ {x} \in X
    <3>1. a \in s
      BY <2>1 DEF Any
    <3>. QED  BY <1>1, <3>1, FS_Subset
  <2>3. SumFunctionOnSet(f, s) = f[a] + SumFunctionOnSet(f, r)
    BY <2>2, SumUnfolds
  <2>4. CASE x = a
    BY <2>3, <2>4
  <2>5. CASE x # a
    <3>1. SumFunctionOnSet(f, r) = f[x] + SumFunctionOnSet(f, r \ {x})
      BY <2>1, <2>2, <2>5
    <3>2. SumFunctionOnSet(f, s \ {x}) = f[a] + SumFunctionOnSet(f, (s \ {x}) \ {a})
      BY <2>1, <2>2, <2>5
    <3>3. (s \ {x}) \ {a} = r \ {x}
      OBVIOUS
    <3>4. SumFunctionOnSet(f, r \ {x}) \in Int
      <4>1. IsFiniteSet(r \ {x}) /\ r \ {x} \in SUBSET S
        BY <2>2, FS_Subset
      <4>. QED  BY <4>1, SumType
    <3>5. f[x] \in Int /\ f[a] \in Int
      BY <2>1, <2>2
    <3>6. SumFunctionOnSet(f, s) = f[a] + (f[x] + SumFunctionOnSet(f, r \ {x}))
      BY <2>3, <3>1
    <3>7. SumFunctionOnSet(f, s \ {x}) = f[a] + SumFunctionOnSet(f, r \ {x})
      BY <3>2, <3>3
    <3>. HIDE DEF a, r
    <3>. QED  BY <3>4, <3>5, <3>6, <3>7
  <2>. QED  BY <2>4, <2>5
<1>2. S \in X
  <2>. HIDE DEF X
  <2>. QED  BY <1>1, SmallerSets
<1>. QED  BY <1>2

LEMMA SumWithOneMore ==
    ASSUME NEW f, NEW S, IsFiniteSet(S), NEW x, x \notin S,
           f[x] \in Int, \A y \in S : f[y] \in Int
    PROVE  SumFunctionOnSet(f, S \cup {x}) = f[x] + SumFunctionOnSet(f, S)
<1>1. IsFiniteSet(S \cup {x}) /\ (S \cup {x}) \ {x} = S
  BY FS_AddElement
<1>. QED  BY <1>1, SumOfRest

\* Only the values on the set count.
LEMMA SumOfEqual ==
    ASSUME NEW f, NEW g, NEW S, IsFiniteSet(S), \A x \in S : f[x] = g[x]
    PROVE  SumFunctionOnSet(f, S) = SumFunctionOnSet(g, S)
<1> DEFINE X == {s \in SUBSET S : SumFunctionOnSet(f, s) = SumFunctionOnSet(g, s)}
<1>1. ASSUME NEW s \in SUBSET S, \A u \in SUBSET s : u # s => u \in X
      PROVE  s \in X
  <2>1. CASE s = {}
    BY <2>1, SumOfNothing
  <2>2. CASE s # {}
    <3>1. Any(s) \in s
      BY <2>2 DEF Any
    <3>2. s \ {Any(s)} \in X
      BY <1>1, <3>1
    <3>3. IsFiniteSet(s)
      BY FS_Subset
    <3>4. SumFunctionOnSet(f, s) = f[Any(s)] + SumFunctionOnSet(f, s \ {Any(s)})
      BY <2>2, <3>3, SumUnfolds
    <3>5. SumFunctionOnSet(g, s) = g[Any(s)] + SumFunctionOnSet(g, s \ {Any(s)})
      BY <2>2, <3>3, SumUnfolds
    <3>. QED  BY <3>1, <3>2, <3>4, <3>5
  <2>. QED  BY <2>1, <2>2
<1>2. S \in X
  <2>. HIDE DEF X
  <2>. QED  BY <1>1, SmallerSets
<1>. QED  BY <1>2

\* One summand changes.
LEMMA SumOfChange ==
    ASSUME NEW f, NEW g, NEW S, IsFiniteSet(S), NEW x \in S,
           \A y \in S : f[y] \in Int, g[x] \in Int, \A y \in S \ {x} : g[y] = f[y]
    PROVE  SumFunctionOnSet(g, S) = SumFunctionOnSet(f, S) + g[x] - f[x]
<1>1. IsFiniteSet(S \ {x})
  BY FS_Subset
<1>2. SumFunctionOnSet(g, S \ {x}) = SumFunctionOnSet(f, S \ {x})
  BY <1>1, SumOfEqual
<1>3. SumFunctionOnSet(f, S) = f[x] + SumFunctionOnSet(f, S \ {x})
  BY SumOfRest
<1>4. SumFunctionOnSet(g, S) = g[x] + SumFunctionOnSet(g, S \ {x})
  BY SumOfRest
<1>5. SumFunctionOnSet(f, S \ {x}) \in Int
  BY <1>1, SumType
<1>. QED  BY <1>2, <1>3, <1>4, <1>5

\* No summand grows.
LEMMA SumOfAtMost ==
    ASSUME NEW f, NEW g, NEW S, IsFiniteSet(S), \A x \in S : f[x] \in Int,
           \A x \in S : g[x] \in Int, \A x \in S : f[x] <= g[x]
    PROVE  SumFunctionOnSet(f, S) <= SumFunctionOnSet(g, S)
<1> DEFINE X == {s \in SUBSET S : SumFunctionOnSet(f, s) <= SumFunctionOnSet(g, s)}
<1>1. ASSUME NEW s \in SUBSET S, NEW x \in S \ s, s \in X
      PROVE  s \cup {x} \in X
  <2>1. IsFiniteSet(s)
    BY FS_Subset
  <2>2. SumFunctionOnSet(f, s \cup {x}) = f[x] + SumFunctionOnSet(f, s)
    BY <2>1, SumWithOneMore
  <2>3. SumFunctionOnSet(g, s \cup {x}) = g[x] + SumFunctionOnSet(g, s)
    BY <2>1, SumWithOneMore
  <2>4. SumFunctionOnSet(f, s) \in Int /\ SumFunctionOnSet(g, s) \in Int
    BY <2>1, SumType
  <2>5. SumFunctionOnSet(f, s) <= SumFunctionOnSet(g, s)
    BY <1>1
  <2>6. f[x] \in Int /\ g[x] \in Int /\ f[x] <= g[x]
    OBVIOUS
  <2>7. SumFunctionOnSet(f, s \cup {x}) <= SumFunctionOnSet(g, s \cup {x})
    BY <2>2, <2>3, <2>4, <2>5, <2>6
  <2>. QED  BY <2>7
<1>2. {} \in X
  <2>1. SumFunctionOnSet(f, {}) <= SumFunctionOnSet(g, {})
    <3>1. SumFunctionOnSet(f, {}) = 0 /\ SumFunctionOnSet(g, {}) = 0
      BY SumOfNothing
    <3>. QED  BY <3>1
  <2>. QED  BY <2>1
<1>3. S \in X
  <2>. HIDE DEF X
  <2>. QED  BY <1>1, <1>2, GrowingSets
<1>. QED  BY <1>3

\* A sum of zeros.
LEMMA SumOfZeros ==
    ASSUME NEW f, NEW S, IsFiniteSet(S), \A x \in S : f[x] = 0
    PROVE  SumFunctionOnSet(f, S) = 0
<1> DEFINE X == {s \in SUBSET S : SumFunctionOnSet(f, s) = 0}
<1>1. ASSUME NEW s \in SUBSET S, NEW x \in S \ s, s \in X
      PROVE  s \cup {x} \in X
  <2>1. SumFunctionOnSet(f, s \cup {x}) = f[x] + SumFunctionOnSet(f, s)
    BY FS_Subset, SumWithOneMore
  <2>. QED  BY <1>1, <2>1
<1>2. S \in X
  <2>1. {} \in X
    BY SumOfNothing
  <2>. HIDE DEF X
  <2>. QED  BY <1>1, <2>1, GrowingSets
<1>. QED  BY <1>2

\* Every summand is the same multiple of another.
LEMMA SumOfMultiples ==
    ASSUME NEW f, NEW g, NEW S, IsFiniteSet(S), NEW c \in Int, \A x \in S : g[x] \in Int,
           \A x \in S : f[x] = c * g[x]
    PROVE  SumFunctionOnSet(f, S) = c * SumFunctionOnSet(g, S)
<1> DEFINE X == {s \in SUBSET S : SumFunctionOnSet(f, s) = c * SumFunctionOnSet(g, s)}
<1>1. ASSUME NEW s \in SUBSET S, NEW x \in S \ s, s \in X
      PROVE  s \cup {x} \in X
  <2>1. IsFiniteSet(s)
    BY FS_Subset
  <2>2. \A y \in S : f[y] \in Int
    OBVIOUS
  <2>3. SumFunctionOnSet(f, s \cup {x}) = f[x] + SumFunctionOnSet(f, s)
    BY <2>1, <2>2, SumWithOneMore
  <2>4. SumFunctionOnSet(g, s \cup {x}) = g[x] + SumFunctionOnSet(g, s)
    BY <2>1, SumWithOneMore
  <2>5. SumFunctionOnSet(g, s) \in Int /\ g[x] \in Int
    BY <2>1, SumType
  <2>6. c * (g[x] + SumFunctionOnSet(g, s)) = c * g[x] + c * SumFunctionOnSet(g, s)
    BY <2>5
  <2>7. SumFunctionOnSet(f, s) = c * SumFunctionOnSet(g, s) /\ f[x] = c * g[x]
    BY <1>1
  <2>8. SumFunctionOnSet(f, s \cup {x}) = c * SumFunctionOnSet(g, s \cup {x})
    BY <2>3, <2>4, <2>6, <2>7
  <2>. QED  BY <2>8
<1>2. {} \in X
  BY SumOfNothing
<1>3. S \in X
  <2>. HIDE DEF X
  <2>. QED  BY <1>1, <1>2, GrowingSets
<1>. QED  BY <1>3

\* A part of a sum without negative summands.
LEMMA SumOfPart ==
    ASSUME NEW f, NEW S, IsFiniteSet(S), \A x \in S : f[x] \in Nat, NEW R \in SUBSET S
    PROVE  SumFunctionOnSet(f, R) <= SumFunctionOnSet(f, S)
<1> DEFINE X == {s \in SUBSET S : SumFunctionOnSet(f, s \cap R) <= SumFunctionOnSet(f, s)}
<1>1. ASSUME NEW s \in SUBSET S, NEW x \in S \ s, s \in X
      PROVE  s \cup {x} \in X
  <2>1. IsFiniteSet(s) /\ IsFiniteSet(s \cap R)
    BY FS_Subset
  <2>2. SumFunctionOnSet(f, s \cup {x}) = f[x] + SumFunctionOnSet(f, s)
    BY <2>1, SumWithOneMore
  <2>3. SumFunctionOnSet(f, s) \in Int /\ SumFunctionOnSet(f, s \cap R) \in Int /\ f[x] \in Nat
    BY <2>1, SumType
  <2>4. SumFunctionOnSet(f, s \cap R) <= SumFunctionOnSet(f, s)
    BY <1>1
  <2>5. CASE x \in R
    <3>1. (s \cup {x}) \cap R = (s \cap R) \cup {x}
      BY <2>5
    <3>2. SumFunctionOnSet(f, (s \cap R) \cup {x}) = f[x] + SumFunctionOnSet(f, s \cap R)
      BY <2>1, SumWithOneMore
    <3>3. f[x] + SumFunctionOnSet(f, s \cap R) <= f[x] + SumFunctionOnSet(f, s)
      BY <2>3, <2>4
    <3>. QED  BY <2>2, <3>1, <3>2, <3>3
  <2>6. CASE x \notin R
    <3>1. (s \cup {x}) \cap R = s \cap R
      BY <2>6
    <3>2. SumFunctionOnSet(f, s \cap R) <= f[x] + SumFunctionOnSet(f, s)
      BY <2>3, <2>4
    <3>. QED  BY <2>2, <3>1, <3>2
  <2>. QED  BY <2>5, <2>6
<1>2. {} \in X
  <2>1. SumFunctionOnSet(f, {} \cap R) <= SumFunctionOnSet(f, {})
    <3>1. SumFunctionOnSet(f, {}) = 0 /\ {} \cap R = {}
      BY SumOfNothing
    <3>. QED  BY <3>1
  <2>. QED  BY <2>1
<1>3. S \in X
  <2>. HIDE DEF X
  <2>. QED  BY <1>1, <1>2, GrowingSets
<1>4. S \cap R = R
  OBVIOUS
<1>. QED  BY <1>3, <1>4

\* What is renamed one to one.
LEMMA SumOverImage ==
    ASSUME NEW h, NEW g, NEW S, IsFiniteSet(S), \A x \in S : h[g[x]] \in Int,
           \A x, y \in S : g[x] = g[y] => x = y
    PROVE  /\ IsFiniteSet({g[x] : x \in S})
           /\ SumFunctionOnSet(h, {g[x] : x \in S}) = SumFunctionOnSet([x \in S |-> h[g[x]]], S)
<1> DEFINE f == [x \in S |-> h[g[x]]]
           Image(s) == {g[x] : x \in s}
           X == {s \in SUBSET S : /\ IsFiniteSet(Image(s))
                                  /\ SumFunctionOnSet(h, Image(s)) = SumFunctionOnSet(f, s)}
<1>1. ASSUME NEW s \in SUBSET S, NEW x \in S \ s, s \in X
      PROVE  s \cup {x} \in X
  <2>1. IsFiniteSet(s) /\ IsFiniteSet(Image(s))
    BY <1>1, FS_Subset
  <2>2. g[x] \notin Image(s) /\ Image(s \cup {x}) = Image(s) \cup {g[x]}
    OBVIOUS
  <2>3. f[x] = h[g[x]] /\ (\A y \in S : f[y] \in Int) /\ \A y \in Image(s) : h[y] \in Int
    OBVIOUS
  <2>4. SumFunctionOnSet(h, Image(s)) = SumFunctionOnSet(f, s)
    BY <1>1
  <2>. HIDE DEF f, Image
  <2>5. SumFunctionOnSet(f, s \cup {x}) = f[x] + SumFunctionOnSet(f, s)
    BY <2>1, <2>3, SumWithOneMore
  <2>6. SumFunctionOnSet(h, Image(s) \cup {g[x]}) = h[g[x]] + SumFunctionOnSet(h, Image(s))
    BY <2>1, <2>2, <2>3, SumWithOneMore
  <2>7. IsFiniteSet(Image(s) \cup {g[x]})
    BY <2>1, FS_AddElement
  <2>. QED  BY <2>2, <2>3, <2>4, <2>5, <2>6, <2>7
<1>2. {} \in X
  <2>1. Image({}) = {}
    OBVIOUS
  <2>. HIDE DEF f, Image
  <2>. QED  BY <2>1, SumOfNothing, FS_EmptySet
<1>3. S \in X
  <2>. HIDE DEF X
  <2>. QED  BY <1>1, <1>2, GrowingSets
<1>. QED  BY <1>3

\* A sum is the sum of the sums of its groups.
LEMMA SumByGroups ==
    ASSUME NEW f, NEW S, IsFiniteSet(S), \A x \in S : f[x] \in Int,
           NEW key, NEW K, IsFiniteSet(K), \A x \in S : key[x] \in K
    PROVE  SumFunctionOnSet([k \in K |-> SumFunctionOnSet(f, {x \in S : key[x] = k})], K)
              = SumFunctionOnSet(f, S)
<1> DEFINE Of(s, k) == {x \in s : key[x] = k}
           Sums(s) == [k \in K |-> SumFunctionOnSet(f, Of(s, k))]
           X == {s \in SUBSET S : SumFunctionOnSet(Sums(s), K) = SumFunctionOnSet(f, s)}
<1>1. \A s \in SUBSET S : \A k \in K :
        Sums(s)[k] = SumFunctionOnSet(f, Of(s, k)) /\ Sums(s)[k] \in Int
  <2> SUFFICES ASSUME NEW s \in SUBSET S, NEW k \in K
               PROVE  SumFunctionOnSet(f, Of(s, k)) \in Int
    OBVIOUS
  <2>1. IsFiniteSet(Of(s, k)) /\ Of(s, k) \subseteq S
    BY FS_Subset
  <2>. HIDE DEF Of
  <2>. QED  BY <2>1, SumType
<1>2. ASSUME NEW s \in SUBSET S, NEW z \in S \ s, s \in X
      PROVE  s \cup {z} \in X
  <2>1. Of(s \cup {z}, key[z]) = Of(s, key[z]) \cup {z} /\ z \notin Of(s, key[z])
    OBVIOUS
  <2>2. \A k \in K \ {key[z]} : Of(s \cup {z}, k) = Of(s, k)
    OBVIOUS
  <2>3. IsFiniteSet(s) /\ IsFiniteSet(Of(s, key[z])) /\ Of(s, key[z]) \subseteq S
    BY FS_Subset
  <2>4. SumFunctionOnSet(Sums(s), K) = SumFunctionOnSet(f, s)
    BY <1>2
  <2>5. key[z] \in K /\ f[z] \in Int
    OBVIOUS
  <2>. HIDE DEF Of
  <2>6. SumFunctionOnSet(f, Of(s, key[z]) \cup {z}) = f[z] + SumFunctionOnSet(f, Of(s, key[z]))
    BY <2>1, <2>3, SumWithOneMore
  <2>7. SumFunctionOnSet(f, s \cup {z}) = f[z] + SumFunctionOnSet(f, s)
    BY <2>3, SumWithOneMore
  <2>8. /\ Sums(s \cup {z})[key[z]] = f[z] + Sums(s)[key[z]]
        /\ \A k \in K \ {key[z]} : Sums(s \cup {z})[k] = Sums(s)[k]
    BY <2>1, <2>2, <2>5, <2>6
  <2>9. s \cup {z} \in SUBSET S
    OBVIOUS
  <2>. HIDE DEF Sums
  <2>10. SumFunctionOnSet(Sums(s \cup {z}), K)
           = SumFunctionOnSet(Sums(s), K) + Sums(s \cup {z})[key[z]] - Sums(s)[key[z]]
    <3>1. Sums(s \cup {z})[key[z]] \in Int /\ \A k \in K : Sums(s)[k] \in Int
      BY <1>1, <2>5, <2>9
    <3>2. ASSUME NEW a, NEW b, NEW k \in K, \A j \in K : a[j] \in Int, b[k] \in Int,
                 \A j \in K \ {k} : b[j] = a[j]
          PROVE  SumFunctionOnSet(b, K) = SumFunctionOnSet(a, K) + b[k] - a[k]
      BY <3>2, SumOfChange
    <3>. QED  BY <2>5, <2>8, <3>1, <3>2
  <2>11. SumFunctionOnSet(f, s) \in Int /\ Sums(s)[key[z]] \in Int
    BY <1>1, <2>3, <2>5, SumType
  <2>12. SumFunctionOnSet(Sums(s \cup {z}), K) = SumFunctionOnSet(f, s \cup {z})
    BY <2>4, <2>5, <2>7, <2>8, <2>10, <2>11
  <2>. QED  BY <2>12
<1>3. {} \in X
  <2>1. \A k \in K : Sums({})[k] = 0
    <3>1. \A k \in K : Of({}, k) = {}
      OBVIOUS
    <3>. HIDE DEF Of
    <3>. QED  BY <3>1, SumOfNothing
  <2>. HIDE DEF Sums
  <2>. QED  BY <2>1, SumOfZeros, SumOfNothing
<1>4. S \in X
  <2>. HIDE DEF X
  <2>. QED  BY <1>2, <1>3, GrowingSets
<1>. QED  BY <1>4

\* A sum of naturals, one of which is positive.
LEMMA PositiveSum ==
    ASSUME NEW f, NEW S, IsFiniteSet(S), \A x \in S : f[x] \in Nat, NEW x \in S, f[x] > 0
    PROVE  SumFunctionOnSet(f, S) > 0
<1> DEFINE zero == [y \in S \ {x} |-> 0]
<1>1. IsFiniteSet(S \ {x})
  BY FS_Subset
<1>2. SumFunctionOnSet(f, S) = f[x] + SumFunctionOnSet(f, S \ {x})
  BY SumOfRest
<1>3. SumFunctionOnSet(zero, S \ {x}) <= SumFunctionOnSet(f, S \ {x})
  BY <1>1, SumOfAtMost
<1>4. SumFunctionOnSet(zero, S \ {x}) = 0
  BY <1>1, SumOfZeros
<1>5. SumFunctionOnSet(f, S \ {x}) \in Int
  BY <1>1, SumType
<1>. HIDE DEF zero
<1>. QED  BY <1>2, <1>3, <1>4, <1>5

\* The greatest and the least of a finite set of integers.
LEMMA MaxIsIn ==
    ASSUME NEW S, IsFiniteSet(S), S \subseteq Int, S # {}
    PROVE  Max(S) \in S /\ \A x \in S : x <= Max(S)
<1> DEFINE X == {T \in SUBSET S : T # {} => \E x \in T : \A y \in T : x >= y}
<1>1. ASSUME NEW T \in SUBSET S, NEW z \in S \ T, T \in X
      PROVE  T \cup {z} \in X
  <2>1. CASE T = {}
    BY <2>1
  <2>2. CASE T # {}
    <3>1. PICK x \in T : \A y \in T : x >= y
      BY <1>1, <2>2
    <3>2. CASE x >= z
      BY <3>1, <3>2
    <3>3. CASE ~(x >= z)
      <4>1. \A y \in T \cup {z} : z >= y
        BY <3>1, <3>3
      <4>. QED  BY <4>1
    <3>. QED  BY <3>2, <3>3
  <2>. QED  BY <2>1, <2>2
<1>2. S \in X
  <2>1. {} \in X
    OBVIOUS
  <2>. HIDE DEF X
  <2>. QED  BY <1>1, <2>1, GrowingSets
<1>3. \E x \in S : \A y \in S : x >= y
  BY <1>2
<1>. QED  BY <1>3 DEF Max

LEMMA MinIsIn ==
    ASSUME NEW S, IsFiniteSet(S), S \subseteq Int, S # {}
    PROVE  Min(S) \in S /\ \A x \in S : x >= Min(S)
<1> DEFINE X == {T \in SUBSET S : T # {} => \E x \in T : \A y \in T : x <= y}
<1>1. ASSUME NEW T \in SUBSET S, NEW z \in S \ T, T \in X
      PROVE  T \cup {z} \in X
  <2>1. CASE T = {}
    BY <2>1
  <2>2. CASE T # {}
    <3>1. PICK x \in T : \A y \in T : x <= y
      BY <1>1, <2>2
    <3>2. CASE x <= z
      BY <3>1, <3>2
    <3>3. CASE ~(x <= z)
      <4>1. \A y \in T \cup {z} : z <= y
        BY <3>1, <3>3
      <4>. QED  BY <4>1
    <3>. QED  BY <3>2, <3>3
  <2>. QED  BY <2>1, <2>2
<1>2. S \in X
  <2>1. {} \in X
    OBVIOUS
  <2>. HIDE DEF X
  <2>. QED  BY <1>1, <2>1, GrowingSets
<1>3. \E x \in S : \A y \in S : x <= y
  BY <1>2
<1>. QED  BY <1>3 DEF Min

LEMMA ThreesFinite == \A x, y, z : IsFiniteSet({x, y, z})
<1> TAKE x, y, z
<1>1. IsFiniteSet({x}) /\ IsFiniteSet({y}) /\ IsFiniteSet({z})
  BY FS_Singleton
<1>2. IsFiniteSet({x} \cup {y})
  BY <1>1, FS_Union
<1>3. IsFiniteSet(({x} \cup {y}) \cup {z})
  BY <1>1, <1>2, FS_Union
<1>4. ({x} \cup {y}) \cup {z} = {x, y, z}
  OBVIOUS
<1>. QED  BY <1>3, <1>4

=============================================================================
