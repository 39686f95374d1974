------------------------------ MODULE SumProofs ------------------------------
(***************************************************************************)
(* Sums of a function over a finite set, and folds over a sequence:        *)
(* SumFunctionOnSet and FoldLeft of the community modules, on which the    *)
(* proofs about amounts, deposits and lists rest.                          *)
(*                                                                         *)
(* Both are defined by a recursive function on the subsets of a set, the   *)
(* sum's removing some element at every step and the fold's the greatest.  *)
(* The lemmas say that such a function exists, that the order of removal   *)
(* does not matter to a sum, what a change of one value or one element     *)
(* does to it, and what values a fold goes through.                        *)
(***************************************************************************)
EXTENDS Integers, FiniteSetTheorems, FiniteSetsExt, TLAPS

-----------------------------------------------------------------------------
(***************************************************************************)
(* Two induction principles, over a set of good cases.                     *)
(***************************************************************************)

(* Good numbers that hold zero and every successor hold all numbers. *)
LEMMA NumbersByInduction ==
  ASSUME NEW G, 0 \in G, \A n \in Nat : n \in G => n + 1 \in G
  PROVE  Nat \subseteq G
<1> DEFINE Bad == {n \in Nat : n \notin G}
<1>1. SUFFICES ASSUME Bad # {} PROVE FALSE
  OBVIOUS
<1>2. PICK n \in Bad : \A m \in Bad : ~(<<m, n>> \in OpToRel(<, Nat))
  <2>1. Bad \subseteq Nat
    OBVIOUS
  <2> HIDE DEF Bad
  <2> QED BY <1>1, <2>1, NatLessThanWellFounded, WFMin
<1>3. n \in Nat /\ n # 0 /\ n - 1 \in Nat
  OBVIOUS
<1>4. n - 1 \notin Bad
  <2>1. <<n - 1, n>> \in OpToRel(<, Nat)
    BY <1>3 DEF OpToRel
  <2> QED BY <1>2, <2>1
<1> QED BY <1>3, <1>4

(* A finite set is good if every subset is whose proper subsets all are. *)
LEMMA SubsetsByInduction ==
  ASSUME NEW S, IsFiniteSet(S), NEW G,
         \A T \in SUBSET S : (\A U \in SUBSET T : U # T => U \in G) => T \in G
  PROVE  S \in G
<1> DEFINE Bad == {T \in SUBSET S : T \notin G}
<1>1. SUFFICES ASSUME Bad # {} PROVE FALSE
  OBVIOUS
<1>2. PICK T \in Bad : \A U \in Bad : ~(<<U, T>> \in StrictSubsetOrdering(S))
  <2>1. IsWellFoundedOn(StrictSubsetOrdering(S), SUBSET S)
    BY FS_StrictSubsetOrderingWellFounded, FS_FiniteSubsetsOfFinite
  <2>2. Bad \subseteq SUBSET S
    OBVIOUS
  <2> HIDE DEF Bad
  <2> QED BY <1>1, <2>1, <2>2, WFMin
<1>3. ASSUME NEW U \in SUBSET T, U # T
      PROVE  U \in G
  <2>1. <<U, T>> \in StrictSubsetOrdering(S)
    BY <1>2, <1>3 DEF StrictSubsetOrdering
  <2> QED BY <1>2, <2>1
<1> QED BY <1>2, <1>3

-----------------------------------------------------------------------------
(***************************************************************************)
(* The sum as a recursive function.                                        *)
(***************************************************************************)

One(s) == CHOOSE x \in s : TRUE

(* what the sum of s is, when g is the sum of smaller sets *)
SumStep(f, g, s) == IF s = {} THEN 0 ELSE f[One(s)] + g[s \ {One(s)}]

IsSums(f, g, sets) == g = [s \in sets |-> SumStep(f, g, s)]
SubsetSums(f, g, S) == IsSums(f, g, SUBSET S)

(* The sums of all subsets exist, by induction on their size. *)
LEMMA SumsExist ==
  ASSUME NEW f, NEW S, IsFiniteSet(S)
  PROVE  \E g : SubsetSums(f, g, S)
<1> DEFINE Layer(n) == {s \in SUBSET S : Cardinality(s) <= n}
           G == {n \in Nat : \E g : IsSums(f, g, Layer(n))}
<1>1. \A s \in SUBSET S : Cardinality(s) \in Nat /\ IsFiniteSet(s)
  BY FS_Subset, FS_CardinalityType
<1>2. 0 \in G
  <2> DEFINE g == [s \in Layer(0) |-> 0]
  <2>1. \A s \in Layer(0) : s = {}
    BY <1>1, FS_EmptySet
  <2>2. IsSums(f, g, Layer(0))
    BY <2>1 DEF IsSums, SumStep
  <2> QED BY <2>2
<1>3. ASSUME NEW n \in Nat, n \in G
      PROVE  n + 1 \in G
  <2>1. PICK g : IsSums(f, g, Layer(n))
    BY <1>3
  <2> DEFINE h == [s \in Layer(n + 1) |-> SumStep(f, g, s)]
  <2>2. ASSUME NEW s \in Layer(n + 1)
        PROVE  SumStep(f, g, s) = SumStep(f, h, s)
    <3>1. CASE s = {}
      BY <3>1 DEF SumStep
    <3>2. CASE s # {}
      <4> DEFINE t == s \ {One(s)}
      <4>1. One(s) \in s
        BY <3>2 DEF One
      <4>2. t \in Layer(n) /\ t \in Layer(n + 1)
        BY <4>1, <1>1, FS_RemoveElement
      <4>3. g[t] = SumStep(f, g, t)
        BY <4>2, <2>1 DEF IsSums
      <4>4. h[t] = SumStep(f, g, t)
        BY <4>2
      <4> QED BY <4>3, <4>4 DEF SumStep
    <3> QED BY <3>1, <3>2
  <2>3. IsSums(f, h, Layer(n + 1))
    BY <2>2 DEF IsSums
  <2> HIDE DEF h, Layer
  <2> QED BY <2>3
<1>4. Cardinality(S) \in G
  <2> HIDE DEF G
  <2> QED BY <1>1, <1>2, <1>3, NumbersByInduction
<1>5. Layer(Cardinality(S)) = SUBSET S
  BY <1>1, FS_Subset
<1> QED BY <1>4, <1>5 DEF SubsetSums

(* Two such functions agree where both are defined. *)
LEMMA SumsAgree ==
  ASSUME NEW f, NEW S, NEW T, IsFiniteSet(S), T \in SUBSET S,
         NEW g, NEW h, SubsetSums(f, g, S), SubsetSums(f, h, T)
  PROVE  g[T] = h[T]
<1> DEFINE G == {U \in SUBSET T : g[U] = h[U]}
<1>1. ASSUME NEW U \in SUBSET T, \A V \in SUBSET U : V # U => V \in G
      PROVE  U \in G
  <2>1. g[U] = SumStep(f, g, U) /\ h[U] = SumStep(f, h, U)
    BY DEF SubsetSums, IsSums
  <2>2. SumStep(f, g, U) = SumStep(f, h, U)
    <3>1. CASE U = {}
      BY <3>1 DEF SumStep
    <3>2. CASE U # {}
      <4>1. One(U) \in U
        BY <3>2 DEF One
      <4>2. U \ {One(U)} \in G
        BY <4>1, <1>1
      <4> QED BY <4>2 DEF SumStep
    <3> QED BY <3>1, <3>2
  <2> QED BY <2>1, <2>2
<1>2. IsFiniteSet(T)
  BY FS_Subset
<1> HIDE DEF G
<1>3. T \in G
  BY <1>1, <1>2, SubsetsByInduction
<1> QED BY <1>3 DEF G

(* The community module's operator is such a function, applied to the whole set. *)
LEMMA SumIsSums ==
  ASSUME NEW f, NEW S, IsFiniteSet(S)
  PROVE  \E g : SubsetSums(f, g, S) /\ SumFunctionOnSet(f, S) = g[S]
<1> DEFINE g == CHOOSE g : SubsetSums(f, g, S)
<1>1. SubsetSums(f, g, S)
  BY SumsExist
<1>2. SumFunctionOnSet(f, S) = g[S]
  BY DEF SumFunctionOnSet, FoldFunctionOnSet, MapThenFoldSet, SubsetSums, IsSums,
          SumStep, One
<1> QED BY <1>1, <1>2

-----------------------------------------------------------------------------
(***************************************************************************)
(* Facts about sums                                                        *)
(***************************************************************************)

(* The sum of nothing is zero, any other is that of a smaller set and one value. *)
LEMMA SumUnfold ==
  ASSUME NEW f, NEW S, IsFiniteSet(S)
  PROVE  /\ S = {} => SumFunctionOnSet(f, S) = 0
         /\ S # {} => /\ One(S) \in S
                      /\ SumFunctionOnSet(f, S) =
                           f[One(S)] + SumFunctionOnSet(f, S \ {One(S)})
<1>1. PICK g : SubsetSums(f, g, S) /\ SumFunctionOnSet(f, S) = g[S]
  BY SumIsSums
<1>2. g[S] = SumStep(f, g, S)
  BY <1>1 DEF SubsetSums, IsSums
<1>3. CASE S = {}
  BY <1>1, <1>2, <1>3 DEF SumStep
<1>4. CASE S # {}
  <2> DEFINE T == S \ {One(S)}
  <2>1. One(S) \in S
    BY <1>4 DEF One
  <2>2. IsFiniteSet(T) /\ T \in SUBSET S
    BY FS_Subset
  <2>3. PICK h : SubsetSums(f, h, T) /\ SumFunctionOnSet(f, T) = h[T]
    BY <2>2, SumIsSums
  <2>4. g[T] = h[T]
    <3> HIDE DEF T
    <3> QED BY <1>1, <2>2, <2>3, SumsAgree
  <2> QED BY <1>1, <1>2, <1>4, <2>1, <2>3, <2>4 DEF SumStep
<1> QED BY <1>3, <1>4

(* The sum of nothing, whatever the function. *)
LEMMA SumEmpty ==
  ASSUME NEW f
  PROVE  SumFunctionOnSet(f, {}) = 0
BY SumUnfold, FS_EmptySet

(* A sum of integers is one, a sum of amounts is one. *)
LEMMA SumType ==
  ASSUME NEW f, NEW S, IsFiniteSet(S)
  PROVE  /\ (\A x \in S : f[x] \in Int) => SumFunctionOnSet(f, S) \in Int
         /\ (\A x \in S : f[x] \in Nat) => SumFunctionOnSet(f, S) \in Nat
<1> DEFINE G == {T \in SUBSET S :
                   /\ (\A x \in T : f[x] \in Int) => SumFunctionOnSet(f, T) \in Int
                   /\ (\A x \in T : f[x] \in Nat) => SumFunctionOnSet(f, T) \in Nat}
<1>1. ASSUME NEW T \in SUBSET S, \A U \in SUBSET T : U # T => U \in G
      PROVE  T \in G
  <2>1. IsFiniteSet(T)
    BY FS_Subset
  <2>2. CASE T = {}
    BY <2>2, SumEmpty
  <2>3. CASE T # {}
    <3>1. /\ One(T) \in T
          /\ SumFunctionOnSet(f, T) = f[One(T)] + SumFunctionOnSet(f, T \ {One(T)})
      BY <2>1, <2>3, SumUnfold
    <3>2. T \ {One(T)} \in G
      BY <1>1, <3>1
    <3> QED BY <3>1, <3>2
  <2> QED BY <2>2, <2>3
<1> HIDE DEF G
<1>2. S \in G
  BY <1>1, SubsetsByInduction
<1> QED BY <1>2 DEF G

(* Any element may be the one removed: the order does not matter. *)
LEMMA SumRemove ==
  ASSUME NEW f, NEW S, IsFiniteSet(S), \A x \in S : f[x] \in Int, NEW y \in S
  PROVE  SumFunctionOnSet(f, S) = f[y] + SumFunctionOnSet(f, S \ {y})
<1> DEFINE Sum(T) == SumFunctionOnSet(f, T)
           G == {T \in SUBSET S : \A x \in T : Sum(T) = f[x] + Sum(T \ {x})}
<1>0. \A T \in SUBSET S : IsFiniteSet(T) /\ Sum(T) \in Int
  BY FS_Subset, SumType
<1>1. ASSUME NEW T \in SUBSET S, \A U \in SUBSET T : U # T => U \in G, NEW x \in T
      PROVE  Sum(T) = f[x] + Sum(T \ {x})
  <2> DEFINE z == One(T)
  <2>1. z \in T /\ Sum(T) = f[z] + Sum(T \ {z})
    BY <1>0, SumUnfold
  <2>2. CASE x # z
    <3>1. T \ {z} \in G /\ T \ {x} \in G
      BY <1>1, <2>1
    <3>2. x \in T \ {z} /\ z \in T \ {x} /\ (T \ {z}) \ {x} = (T \ {x}) \ {z}
      BY <2>1, <2>2
    <3>3. Sum(T \ {z}) = f[x] + Sum((T \ {z}) \ {x})
      BY <3>1, <3>2
    <3>4. Sum(T \ {x}) = f[z] + Sum((T \ {z}) \ {x})
      BY <3>1, <3>2
    <3>5. f[x] \in Int /\ f[z] \in Int /\ Sum((T \ {z}) \ {x}) \in Int
      BY <1>0, <2>1
    <3> HIDE DEF Sum
    <3> QED BY <2>1, <3>3, <3>4, <3>5
  <2>3. CASE x = z
    BY <2>1, <2>3
  <2> QED BY <2>2, <2>3
<1> HIDE DEF Sum
<1>2. \A T \in SUBSET S : (\A U \in SUBSET T : U # T => U \in G) => T \in G
  BY <1>1
<1> HIDE DEF G
<1>3. S \in G
  BY <1>2, SubsetsByInduction
<1> QED BY <1>3 DEF G, Sum

(* An element more adds its value. *)
LEMMA SumInsert ==
  ASSUME NEW f, NEW S, IsFiniteSet(S), NEW y, y \notin S,
         \A x \in S \cup {y} : f[x] \in Int
  PROVE  SumFunctionOnSet(f, S \cup {y}) = SumFunctionOnSet(f, S) + f[y]
<1>1. IsFiniteSet(S \cup {y}) /\ (S \cup {y}) \ {y} = S
  BY FS_AddElement
<1>2. SumFunctionOnSet(f, S \cup {y}) = f[y] + SumFunctionOnSet(f, (S \cup {y}) \ {y})
  BY <1>1, SumRemove
<1>3. SumFunctionOnSet(f, S) \in Int /\ f[y] \in Int
  BY SumType
<1>4. SumFunctionOnSet(f, S \cup {y}) = f[y] + SumFunctionOnSet(f, S)
  BY <1>1, <1>2
<1> QED BY <1>3, <1>4

(* The sum depends on the values in the set only, and grows with them. *)
LEMMA SumMonotone ==
  ASSUME NEW f, NEW g, NEW S, IsFiniteSet(S), \A x \in S : f[x] \in Int /\ g[x] \in Int
  PROVE  /\ (\A x \in S : f[x] = g[x]) => SumFunctionOnSet(f, S) = SumFunctionOnSet(g, S)
         /\ (\A x \in S : f[x] <= g[x]) => SumFunctionOnSet(f, S) <= SumFunctionOnSet(g, S)
<1> DEFINE F(T) == SumFunctionOnSet(f, T)
           H(T) == SumFunctionOnSet(g, T)
           G == {T \in SUBSET S : /\ (\A x \in T : f[x] = g[x]) => F(T) = H(T)
                                  /\ (\A x \in T : f[x] <= g[x]) => F(T) <= H(T)}
<1>0. \A T \in SUBSET S : IsFiniteSet(T) /\ F(T) \in Int /\ H(T) \in Int
  BY FS_Subset, SumType
<1>1. ASSUME NEW T \in SUBSET S, \A U \in SUBSET T : U # T => U \in G
      PROVE  T \in G
  <2>1. CASE T = {}
    <3>1. F({}) = 0 /\ H({}) = 0
      BY SumEmpty
    <3> HIDE DEF F, H
    <3> QED BY <2>1, <3>1
  <2>2. CASE T # {}
    <3> DEFINE z == One(T)
    <3>1. z \in T /\ F(T) = f[z] + F(T \ {z})
      BY <1>0, <2>2, SumUnfold
    <3>2. H(T) = g[z] + H(T \ {z})
      BY <1>0, <2>2, SumUnfold
    <3>3. T \ {z} \in G /\ T \ {z} \in SUBSET S
      BY <1>1, <3>1
    <3>4. F(T \ {z}) \in Int /\ H(T \ {z}) \in Int /\ f[z] \in Int /\ g[z] \in Int
      BY <1>0, <3>1, <3>3
    <3> HIDE DEF F, H, z
    <3> QED BY <3>1, <3>2, <3>3, <3>4
  <2> QED BY <2>1, <2>2
<1> HIDE DEF G
<1>2. S \in G
  BY <1>1, SubsetsByInduction
<1> QED BY <1>2 DEF G

(* A change of one value changes the sum by as much. *)
LEMMA SumChange ==
  ASSUME NEW f, NEW g, NEW S, IsFiniteSet(S), \A x \in S : f[x] \in Int /\ g[x] \in Int,
         NEW y \in S, \A x \in S \ {y} : f[x] = g[x]
  PROVE  SumFunctionOnSet(g, S) = SumFunctionOnSet(f, S) - f[y] + g[y]
<1> DEFINE T == S \ {y}
<1>1. IsFiniteSet(T)
  BY FS_Subset
<1>2. SumFunctionOnSet(f, S) = f[y] + SumFunctionOnSet(f, T)
  BY SumRemove
<1>3. SumFunctionOnSet(g, S) = g[y] + SumFunctionOnSet(g, T)
  BY SumRemove
<1>4. SumFunctionOnSet(f, T) = SumFunctionOnSet(g, T)
  BY <1>1, SumMonotone
<1>5. SumFunctionOnSet(f, T) \in Int /\ f[y] \in Int /\ g[y] \in Int
  BY <1>1, SumType
<1> QED BY <1>2, <1>3, <1>4, <1>5

(* Values of zero sum up to zero. *)
LEMMA SumZero ==
  ASSUME NEW f, NEW S, IsFiniteSet(S), \A x \in S : f[x] = 0
  PROVE  SumFunctionOnSet(f, S) = 0
<1> DEFINE G == {T \in SUBSET S : SumFunctionOnSet(f, T) = 0}
<1>1. ASSUME NEW T \in SUBSET S, \A U \in SUBSET T : U # T => U \in G
      PROVE  T \in G
  <2>1. IsFiniteSet(T)
    BY FS_Subset
  <2>2. CASE T = {}
    BY <2>2, SumEmpty
  <2>3. CASE T # {}
    <3>1. /\ One(T) \in T
          /\ SumFunctionOnSet(f, T) = f[One(T)] + SumFunctionOnSet(f, T \ {One(T)})
      BY <2>1, <2>3, SumUnfold
    <3>2. T \ {One(T)} \in G
      BY <1>1, <3>1
    <3> QED BY <3>1, <3>2
  <2> QED BY <2>2, <2>3
<1> HIDE DEF G
<1>2. S \in G
  BY <1>1, SubsetsByInduction
<1> QED BY <1>2 DEF G

(* The sum of two functions is the sum of their sums. *)
LEMMA SumPlus ==
  ASSUME NEW f, NEW g, NEW h, NEW S, IsFiniteSet(S),
         \A x \in S : f[x] \in Int /\ g[x] \in Int /\ h[x] = f[x] + g[x]
  PROVE  SumFunctionOnSet(h, S) = SumFunctionOnSet(f, S) + SumFunctionOnSet(g, S)
<1> DEFINE F(T) == SumFunctionOnSet(f, T)
           K(T) == SumFunctionOnSet(g, T)
           H(T) == SumFunctionOnSet(h, T)
           G == {T \in SUBSET S : H(T) = F(T) + K(T)}
<1>0. \A T \in SUBSET S : IsFiniteSet(T) /\ F(T) \in Int /\ K(T) \in Int
  BY FS_Subset, SumType
<1>1. ASSUME NEW T \in SUBSET S, \A U \in SUBSET T : U # T => U \in G
      PROVE  T \in G
  <2>1. CASE T = {}
    <3>1. F({}) = 0 /\ K({}) = 0 /\ H({}) = 0
      BY SumEmpty
    <3> HIDE DEF F, K, H
    <3> QED BY <2>1, <3>1
  <2>2. CASE T # {}
    <3> DEFINE z == One(T)
    <3>1. z \in T /\ F(T) = f[z] + F(T \ {z})
      BY <1>0, <2>2, SumUnfold
    <3>2. K(T) = g[z] + K(T \ {z}) /\ H(T) = h[z] + H(T \ {z})
      BY <1>0, <2>2, SumUnfold
    <3>3. T \ {z} \in G /\ T \ {z} \in SUBSET S
      BY <1>1, <3>1
    <3>4. F(T \ {z}) \in Int /\ K(T \ {z}) \in Int /\ f[z] \in Int /\ g[z] \in Int
      BY <1>0, <3>1, <3>3
    <3> HIDE DEF F, K, H, z
    <3> QED BY <3>1, <3>2, <3>3, <3>4
  <2> QED BY <2>1, <2>2
<1> HIDE DEF G
<1>2. S \in G
  BY <1>1, SubsetsByInduction
<1> QED BY <1>2 DEF G

(* The sum over two disjoint sets. *)
LEMMA SumUnion ==
  ASSUME NEW f, NEW S, NEW T, IsFiniteSet(S), IsFiniteSet(T), S \cap T = {},
         \A x \in S \cup T : f[x] \in Int
  PROVE  SumFunctionOnSet(f, S \cup T) = SumFunctionOnSet(f, S) + SumFunctionOnSet(f, T)
<1> DEFINE Sum(U) == SumFunctionOnSet(f, U)
           G == {U \in SUBSET T : Sum(S \cup U) = Sum(S) + Sum(U)}
<1>0. IsFiniteSet(S \cup T)
  BY FS_Union
<1>1. \A U \in SUBSET (S \cup T) : IsFiniteSet(U) /\ Sum(U) \in Int
  BY <1>0, FS_Subset, SumType
<1>2. ASSUME NEW U \in SUBSET T, \A V \in SUBSET U : V # U => V \in G
      PROVE  U \in G
  <2>1. CASE U = {}
    <3>1. Sum({}) = 0 /\ S \cup {} = S /\ Sum(S) \in Int
      BY <1>1, SumEmpty
    <3> HIDE DEF Sum
    <3> QED BY <2>1, <3>1
  <2>2. ASSUME NEW y \in U
        PROVE  U \in G
    <3> DEFINE V == U \ {y}
    <3>1. V \in G /\ V \in SUBSET (S \cup T) /\ U \in SUBSET (S \cup T)
      BY <1>2
    <3>2. (S \cup U) \ {y} = S \cup V /\ S \cup U \in SUBSET (S \cup T)
      OBVIOUS
    <3>3. Sum(U) = f[y] + Sum(V)
      BY <1>1, <3>1, SumRemove
    <3>4. Sum(S \cup U) = f[y] + Sum((S \cup U) \ {y})
      BY <1>1, <3>2, SumRemove
    <3>5. Sum(S) \in Int /\ Sum(V) \in Int /\ f[y] \in Int
      BY <1>1, <3>1
    <3>6. Sum(S \cup V) = Sum(S) + Sum(V)
      BY <3>1
    <3>7. Sum(S \cup U) = f[y] + Sum(S \cup V)
      BY <3>2, <3>4
    <3> HIDE DEF Sum, V
    <3> QED BY <3>3, <3>5, <3>6, <3>7
  <2> QED BY <2>1, <2>2
<1> HIDE DEF G
<1>3. T \in G
  BY <1>2, SubsetsByInduction
<1> QED BY <1>3 DEF G

(* A part sums up to no more than the whole, when the rest has no negative value. *)
LEMMA SumSubset ==
  ASSUME NEW f, NEW S, NEW T, IsFiniteSet(S), T \subseteq S, \A x \in S : f[x] \in Int,
         \A x \in S \ T : f[x] >= 0
  PROVE  SumFunctionOnSet(f, T) <= SumFunctionOnSet(f, S)
<1> DEFINE R == S \ T
<1>1. IsFiniteSet(T) /\ IsFiniteSet(R) /\ T \cap R = {} /\ T \cup R = S
  BY FS_Subset
<1>2. SumFunctionOnSet(f, T \cup R) = SumFunctionOnSet(f, T) + SumFunctionOnSet(f, R)
  BY <1>1, SumUnion
<1>3. SumFunctionOnSet(f, R) \in Nat
  <2>1. \A x \in R : f[x] \in Nat
    OBVIOUS
  <2> QED BY <1>1, <2>1, SumType
<1>4. SumFunctionOnSet(f, T) \in Int
  BY <1>1, SumType
<1>5. SumFunctionOnSet(f, S) = SumFunctionOnSet(f, T) + SumFunctionOnSet(f, R)
  BY <1>1, <1>2
<1> HIDE DEF R
<1> QED BY <1>3, <1>4, <1>5

(* The sum over one index. *)
LEMMA SumOfOne ==
  ASSUME NEW f, NEW y, f[y] \in Int
  PROVE  SumFunctionOnSet(f, {y}) = f[y]
<1>1. IsFiniteSet({}) /\ {} \cup {y} = {y} /\ y \notin {}
  BY FS_EmptySet
<1>2. SumFunctionOnSet(f, {} \cup {y}) = SumFunctionOnSet(f, {}) + f[y]
  BY <1>1, SumInsert
<1> QED BY <1>1, <1>2, SumEmpty

(* Multiples of all the values multiply the sum. *)
LEMMA SumTimes ==
  ASSUME NEW f, NEW h, NEW c \in Int, NEW S, IsFiniteSet(S),
         \A x \in S : f[x] \in Int /\ h[x] = c * f[x]
  PROVE  SumFunctionOnSet(h, S) = c * SumFunctionOnSet(f, S)
<1> DEFINE F(T) == SumFunctionOnSet(f, T)
           H(T) == SumFunctionOnSet(h, T)
           G == {T \in SUBSET S : H(T) = c * F(T)}
<1>0. \A T \in SUBSET S : IsFiniteSet(T) /\ F(T) \in Int
  BY FS_Subset, SumType
<1>1. ASSUME NEW T \in SUBSET S, \A U \in SUBSET T : U # T => U \in G
      PROVE  T \in G
  <2>1. CASE T = {}
    <3>1. F(T) = 0 /\ H(T) = 0
      BY <2>1, SumEmpty
    <3> QED BY <3>1
  <2>2. CASE T # {}
    <3> DEFINE z == One(T)
    <3>1. z \in T /\ F(T) = f[z] + F(T \ {z}) /\ H(T) = h[z] + H(T \ {z})
      BY <1>0, <2>2, SumUnfold
    <3>2. T \ {z} \in SUBSET S /\ T \ {z} \in G
      BY <1>1, <3>1
    <3> DEFINE a == f[z]  b == F(T \ {z})
    <3>3. a \in Int /\ b \in Int /\ h[z] = c * a /\ H(T \ {z}) = c * b /\ F(T) = a + b
      BY <1>0, <3>1, <3>2
    <3> HIDE DEF a, b, z
    <3>4. c * (a + b) = c * a + c * b
      BY <3>3
    <3>5. H(T) = c * F(T)
      BY <3>1, <3>3, <3>4
    <3> QED BY <3>5
  <2> QED BY <2>1, <2>2
<1> HIDE DEF G
<1>2. S \in G
  BY <1>1, SubsetsByInduction
<1> QED BY <1>2 DEF G

(* If in every class the values add up to at most the class's bound, they add up to
   at most the sum of the bounds. *)
LEMMA SumByClass ==
  ASSUME NEW f, NEW c, NEW V, IsFiniteSet(V), \A x \in V : f[x] \in Int,
         NEW g, NEW C, IsFiniteSet(C), \A i \in C : g[i] \in Int,
         \A i \in C : SumFunctionOnSet(f, {x \in V : c[x] = i}) <= g[i]
  PROVE  SumFunctionOnSet(f, {x \in V : c[x] \in C}) <= SumFunctionOnSet(g, C)
<1> DEFINE F(T) == SumFunctionOnSet(f, {x \in V : c[x] \in T})
           Of(i) == {x \in V : c[x] = i}
           H(T) == SumFunctionOnSet(g, T)
           G == {T \in SUBSET C : F(T) <= H(T)}
<1>0. \A T \in SUBSET C : IsFiniteSet(T) /\ H(T) \in Int
  BY FS_Subset, SumType
<1>1. ASSUME NEW W \in SUBSET V
      PROVE  IsFiniteSet(W) /\ SumFunctionOnSet(f, W) \in Int
  BY FS_Subset, SumType
<1>2. ASSUME NEW T \in SUBSET C, \A U \in SUBSET T : U # T => U \in G
      PROVE  T \in G
  <2>1. CASE T = {}
    <3> DEFINE W == {x \in V : c[x] \in T}
    <3>1. W = {}
      BY <2>1
    <3>2. F(T) = 0
      BY <3>1, SumEmpty
    <3>3. H(T) = 0
      BY <2>1, SumEmpty
    <3> QED BY <3>2, <3>3
  <2>2. CASE T # {}
    <3> DEFINE z == One(T)
               R == T \ {z}
               W == {x \in V : c[x] \in T}
               X == {x \in V : c[x] \in R}
               Y == Of(z)
    <3>1. z \in T /\ H(T) = g[z] + H(R)
      BY <1>0, <2>2, SumUnfold
    <3>2. R \in SUBSET C /\ R \in G
      BY <1>2, <3>1
    <3>3. W = X \cup Y /\ X \cap Y = {} /\ X \in SUBSET V /\ Y \in SUBSET V
      BY <3>1
    <3>4. SumFunctionOnSet(f, X) <= H(R) /\ H(R) \in Int /\ g[z] \in Int
      BY <1>0, <3>1, <3>2
    <3>5. SumFunctionOnSet(f, Y) <= g[z]
      BY <3>1
    <3> HIDE DEF W, X, Y, z, R
    <3>6. /\ IsFiniteSet(X) /\ IsFiniteSet(Y)
          /\ SumFunctionOnSet(f, X) \in Int /\ SumFunctionOnSet(f, Y) \in Int
      BY <1>1, <3>3
    <3>7. SumFunctionOnSet(f, W) = SumFunctionOnSet(f, X) + SumFunctionOnSet(f, Y)
      BY <3>3, <3>6, SumUnion
    <3>8. SumFunctionOnSet(f, W) <= H(T)
      <4> HIDE DEF H
      <4> QED BY <3>1, <3>4, <3>5, <3>6, <3>7
    <3> QED BY <3>8 DEF W
  <2> QED BY <2>1, <2>2
<1> HIDE DEF G
<1>3. C \in G
  BY <1>2, SubsetsByInduction
<1> QED BY <1>3 DEF G

-----------------------------------------------------------------------------
(***************************************************************************)
(* Folds over sequences.  The community modules fold a sequence by the     *)
(* subsets of its indices, of which the greatest is taken off; the steps   *)
(* of such a fold are its values at the intervals 1..k.                    *)
(***************************************************************************)

(* what g is, when it folds the indices 1..n, and F[k] is the step of index k *)
FoldStep(F, base, g, s) == IF s = {} THEN base ELSE F[Max(s)][g[s \ {Max(s)}]]
IsFold(F, base, n, g) == g = [s \in SUBSET (1..n) |-> FoldStep(F, base, g, s)]

LEMMA MaxIsGreatest ==
  ASSUME NEW n \in Nat, NEW s \in SUBSET (1..n), s # {}
  PROVE  Max(s) \in s /\ \A y \in s : Max(s) >= y
<1> DEFINE Bounded(k) == {t \in SUBSET (1..n) : t # {} /\ \A y \in t : y <= k}
           Fits == {k \in Nat : \A t \in Bounded(k) : \E x \in t : \A y \in t : x >= y}
<1>1. 0 \in Fits
  <2>1. Bounded(0) = {}
    OBVIOUS
  <2> QED BY <2>1
<1>2. ASSUME NEW k \in Nat, k \in Fits
      PROVE  k + 1 \in Fits
  <2>1. ASSUME NEW t \in Bounded(k + 1)
        PROVE  \E x \in t : \A y \in t : x >= y
    <3>1. CASE k + 1 \in t
      BY <3>1
    <3>2. CASE k + 1 \notin t
      <4>1. \A y \in t : y \in Nat /\ y <= k + 1 /\ y # k + 1
        BY <3>2
      <4>2. \A y \in t : y <= k
        BY <4>1
      <4>3. t \in Bounded(k)
        BY <4>2
      <4> QED BY <1>2, <4>3
    <3> QED BY <3>1, <3>2
  <2> HIDE DEF Bounded
  <2> QED BY <2>1
<1>3. n \in Fits
  <2> HIDE DEF Fits
  <2> QED BY <1>1, <1>2, NumbersByInduction
<1>4. s \in Bounded(n)
  OBVIOUS
<1>5. \E x \in s : \A y \in s : x >= y
  BY <1>3, <1>4
<1> QED BY <1>5 DEF Max

LEMMA MaxOfInterval ==
  ASSUME NEW k \in Nat \ {0}
  PROVE  1..k # {} /\ Max(1..k) = k /\ (1..k) \ {Max(1..k)} = 1..(k - 1)
<1>1. 1..k # {} /\ k \in 1..k /\ 1..k \in SUBSET (1..k)
  OBVIOUS
<1>2. Max(1..k) \in 1..k /\ Max(1..k) >= k
  BY <1>1, MaxIsGreatest
<1>3. Max(1..k) = k
  BY <1>2
<1>4. (1..k) \ {k} = 1..(k - 1)
  OBVIOUS
<1> QED BY <1>1, <1>3, <1>4

(* A fold exists, by induction on the length; its values are of the type of the steps. *)
LEMMA FoldsExist ==
  ASSUME NEW n \in Nat, NEW A, NEW base \in A, NEW F, \A i \in 1..n : \A a \in A : F[i][a] \in A
  PROVE  \E g : IsFold(F, base, n, g) /\ \A s \in SUBSET (1..n) : g[s] \in A
<1> DEFINE Layer(k) == {s \in SUBSET (1..n) : \A y \in s : y <= k}
           Good(k, g) == /\ g = [s \in Layer(k) |-> FoldStep(F, base, g, s)]
                         /\ \A s \in Layer(k) : g[s] \in A
           G == {k \in Nat : \E g : Good(k, g)}
<1>1. 0 \in G
  <2> DEFINE g == [s \in Layer(0) |-> base]
  <2>1. \A s \in Layer(0) : s = {}
    OBVIOUS
  <2>2. Good(0, g)
    BY <2>1 DEF FoldStep
  <2> QED BY <2>2
<1>2. ASSUME NEW k \in Nat, k \in G
      PROVE  k + 1 \in G
  <2>1. PICK g : Good(k, g)
    BY <1>2
  <2> DEFINE h == [s \in Layer(k + 1) |-> FoldStep(F, base, g, s)]
  <2>2. ASSUME NEW s \in Layer(k + 1), s # {}
        PROVE  s \ {Max(s)} \in Layer(k) /\ Max(s) \in 1..n
    <3>1. Max(s) \in s /\ \A y \in s : Max(s) >= y
      BY <2>2, MaxIsGreatest
    <3>s. s \subseteq 1..n /\ \A y \in s : y <= k + 1
      OBVIOUS
    <3> DEFINE m == Max(s)
    <3> HIDE DEF m, Layer, h
    <3>m. m \in s /\ \A y \in s : m >= y
      BY <3>1 DEF m
    <3>2. m \in s /\ (\A y \in s : m >= y) /\ m \in Nat /\ m <= k + 1 /\ m \in 1..n
      BY <3>s, <3>m
    <3>3. ASSUME NEW y \in s \ {m} PROVE y <= k
      <4>1. y \in Nat /\ m >= y /\ y # m
        BY <3>s, <3>2
      <4> QED BY <3>2, <4>1
    <3>4. s \ {m} \in Layer(k) /\ m \in 1..n
      BY <3>s, <3>2, <3>3 DEF Layer
    <3> QED BY <3>4 DEF m
  <2>3. ASSUME NEW s \in Layer(k)
        PROVE  h[s] = g[s] /\ g[s] \in A
    <3>1. \A y \in s : y \in Nat /\ y <= k
      OBVIOUS
    <3>2. \A y \in s : y <= k + 1
      BY <3>1
    <3>3. s \in Layer(k + 1)
      BY <3>2
    <3>4. g[s] = FoldStep(F, base, g, s) /\ g[s] \in A
      BY <2>1
    <3> QED BY <3>3, <3>4
  <2>4. ASSUME NEW s \in Layer(k + 1)
        PROVE  FoldStep(F, base, h, s) = FoldStep(F, base, g, s) /\ FoldStep(F, base, g, s) \in A
    <3>1. CASE s = {}
      BY <3>1 DEF FoldStep
    <3>2. CASE s # {}
      <4> DEFINE t == s \ {Max(s)}
      <4>1. t \in Layer(k) /\ Max(s) \in 1..n
        BY <2>2, <3>2
      <4> HIDE DEF h, t, Layer
      <4>2. h[t] = g[t] /\ g[t] \in A
        BY <2>3, <4>1
      <4>3. F[Max(s)][g[t]] \in A
        BY <4>1, <4>2
      <4> QED BY <3>2, <4>2, <4>3 DEF t, FoldStep
    <3> QED BY <3>1, <3>2
  <2>5. h = [s \in Layer(k + 1) |-> FoldStep(F, base, h, s)] /\ \A s \in Layer(k + 1) : h[s] \in A
    BY <2>4
  <2> HIDE DEF h, Layer
  <2> QED BY <2>5
<1>3. n \in G
  <2> HIDE DEF G
  <2> QED BY <1>1, <1>2, NumbersByInduction
<1>4. PICK g : Good(n, g)
  BY <1>3
<1>5. Layer(n) = SUBSET (1..n)
  OBVIOUS
<1> QED BY <1>4, <1>5 DEF IsFold

(* h takes the same steps as g *)
TakesSteps(h, g, base, S) ==
  \A s \in SUBSET S :
    \/ s = {} /\ h[s] = base
    \/ s # {} /\ (h[s \ {Max(s)}] = g[s \ {Max(s)}] => h[s] = g[s])

LEMMA SameSteps ==
  ASSUME NEW S, IsFiniteSet(S), \A s \in SUBSET S : s # {} => Max(s) \in s,
         NEW base, NEW g, g[{}] = base, NEW h, TakesSteps(h, g, base, S)
  PROVE  h[S] = g[S]
<1> DEFINE G == {s \in SUBSET S : h[s] = g[s]}
<1>1. ASSUME NEW s \in SUBSET S, \A u \in SUBSET s : u # s => u \in G
      PROVE  s \in G
  <2>1. CASE s = {}
    BY <2>1 DEF TakesSteps
  <2>2. CASE s # {}
    <3>1. Max(s) \in s
      BY <2>2
    <3>2. s \ {Max(s)} \in G
      BY <1>1, <3>1
    <3> QED BY <2>2, <3>2 DEF TakesSteps
  <2> QED BY <2>1, <2>2
<1> HIDE DEF G
<1>2. S \in G
  BY <1>1, SubsetsByInduction
<1> QED BY <1>2 DEF G

(* Two folds that take the same steps are the same: an equation that a fold of the
   community modules satisfies says what it is. *)
LEMMA FoldsAgree ==
  ASSUME NEW n \in Nat, NEW S, S = 1..n, NEW F, NEW base, NEW g, IsFold(F, base, n, g),
         NEW h, TakesSteps(h, g, base, S)
  PROVE  h[S] = g[S]
<1>1. \A s \in SUBSET S : s # {} => Max(s) \in s
  BY MaxIsGreatest
<1>2. IsFiniteSet(S)
  BY FS_Interval
<1>3. g[{}] = base
  <2>1. {} \in SUBSET (1..n)
    OBVIOUS
  <2>2. g[{}] = FoldStep(F, base, g, {})
    BY <2>1 DEF IsFold
  <2> QED BY <2>2 DEF FoldStep
<1> QED BY <1>1, <1>2, <1>3, SameSteps

(* The steps of a fold *)
LEMMA FoldSteps ==
  ASSUME NEW n \in Nat, NEW F, NEW base, NEW g, IsFold(F, base, n, g)
  PROVE  /\ g[1..0] = base
         /\ \A k \in 1..n : g[1..k] = F[k][g[1..(k - 1)]]
<1>1. g[1..0] = base
  <2>1. 1..0 = {} /\ {} \in SUBSET (1..n)
    OBVIOUS
  <2>2. g[{}] = FoldStep(F, base, g, {})
    BY <2>1 DEF IsFold
  <2> QED BY <2>1, <2>2 DEF FoldStep
<1>2. ASSUME NEW k \in 1..n
      PROVE  g[1..k] = F[k][g[1..(k - 1)]]
  <2>1. k \in Nat \ {0} /\ 1..k \in SUBSET (1..n)
    OBVIOUS
  <2>2. g[1..k] = FoldStep(F, base, g, 1..k)
    BY <2>1 DEF IsFold
  <2>3. 1..k # {} /\ Max(1..k) = k /\ (1..k) \ {Max(1..k)} = 1..(k - 1)
    BY <2>1, MaxOfInterval
  <2> DEFINE I == 1..k
  <2> HIDE DEF I
  <2>4. FoldStep(F, base, g, I) = IF I = {} THEN base ELSE F[Max(I)][g[I \ {Max(I)}]]
    BY DEF FoldStep
  <2> QED BY <2>2, <2>3, <2>4 DEF I
<1> QED BY <1>1, <1>2

(* all values are in A *)
StepsIn(F, S, A) == \A i \in S : \A a \in A : F[i][a] \in A
FoldIn(g, S, A) == \A s \in SUBSET S : g[s] \in A

(* the values of a fold after each index *)
IsRun(run, n, A, F, base) ==
  /\ run \in [0..n -> A] /\ run[0] = base
  /\ \A k \in 1..n : run[k] = F[k][run[k - 1]]

LEMMA FoldRuns ==
  ASSUME NEW n \in Nat, NEW S, S = 1..n, NEW A, NEW base \in A,
         NEW F, StepsIn(F, S, A)
  PROVE  \E g, run : /\ IsFold(F, base, n, g) /\ FoldIn(g, S, A)
                     /\ IsRun(run, n, A, F, base) /\ run[n] = g[S]
<1>1. PICK g : IsFold(F, base, n, g) /\ \A s \in SUBSET (1..n) : g[s] \in A
  BY FoldsExist DEF StepsIn
<1> DEFINE run == [k \in 0..n |-> g[1..k]]
<1>2. \A k \in 0..n : 1..k \in SUBSET (1..n)
  OBVIOUS
<1>3. run \in [0..n -> A]
  BY <1>1, <1>2
<1>4. g[1..0] = base /\ \A k \in 1..n : g[1..k] = F[k][g[1..(k - 1)]]
  BY <1>1, FoldSteps
<1>5. 0 \in 0..n /\ n \in 0..n /\ \A k \in 1..n : k \in 0..n /\ k - 1 \in 0..n
  OBVIOUS
<1>6. \A k \in 0..n : run[k] = g[1..k]
  OBVIOUS
<1> HIDE DEF run
<1>7. \A k \in 1..n : run[k] = F[k][run[k - 1]]
  BY <1>4, <1>5, <1>6
<1>8. run[0] = base /\ run[n] = g[1..n]
  BY <1>4, <1>5, <1>6
<1> QED BY <1>1, <1>3, <1>7, <1>8 DEF IsRun, FoldIn

(* The sum over an interval, from its last value *)
LEMMA SumLast ==
  ASSUME NEW f, NEW k \in Nat \ {0}, \A i \in 1..k : f[i] \in Int
  PROVE  SumFunctionOnSet(f, 1..k) = SumFunctionOnSet(f, 1..(k - 1)) + f[k]
<1>1. IsFiniteSet(1..k) /\ k \in 1..k /\ (1..k) \ {k} = 1..(k - 1)
  BY FS_Interval
<1>2. IsFiniteSet(1..(k - 1)) /\ \A i \in 1..(k - 1) : f[i] \in Int
  BY FS_Interval
<1>3. SumFunctionOnSet(f, 1..k) = f[k] + SumFunctionOnSet(f, (1..k) \ {k})
  <2> DEFINE S == 1..k
  <2>1. IsFiniteSet(S) /\ k \in S /\ \A i \in S : f[i] \in Int
    BY <1>1
  <2> HIDE DEF S
  <2>2. SumFunctionOnSet(f, S) = f[k] + SumFunctionOnSet(f, S \ {k})
    BY <2>1, SumRemove
  <2> QED BY <2>2 DEF S
<1>4. SumFunctionOnSet(f, 1..(k - 1)) \in Int
  BY <1>2, SumType
<1>5. f[k] \in Int
  BY <1>1
<1>6. SumFunctionOnSet(f, 1..k) = f[k] + SumFunctionOnSet(f, 1..(k - 1))
  BY <1>1, <1>3
<1> QED BY <1>4, <1>5, <1>6

=============================================================================
