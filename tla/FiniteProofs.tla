---------------------------- MODULE FiniteProofs ----------------------------
(***************************************************************************)
(* Facts about finite sets that take an induction, had by descent to a     *)
(* smallest set on which a claim fails: that a set of integers has a       *)
(* greatest and a least member (Max and Min of the community modules), and *)
(* how a sum (SumFunctionOnSet) changes with its set.  The bytes that the  *)
(* two caches hold are such sums.                                          *)
(***************************************************************************)
EXTENDS FiniteSets, Integers, FiniteSetsExt, FiniteSetTheorems, Folds, TLAPS

\* A collection of subsets of a finite set has a smallest member.
LEMMA Smallest ==
  ASSUME NEW S, IsFiniteSet(S), NEW B \in SUBSET SUBSET S, B # {}
  PROVE  \E T \in B : \A U \in B : U \subseteq T => U = T
  <1>1. IsWellFoundedOn(StrictSubsetOrdering(S), SUBSET S)
    BY FS_StrictSubsetOrderingWellFounded, FS_FiniteSubsetsOfFinite
  <1>2. \E T \in B : \A U \in B : <<U, T>> \notin StrictSubsetOrdering(S)
    BY <1>1, WFMin
  <1> QED
    BY <1>2 DEF StrictSubsetOrdering

LEMMA MaxIsGreatest ==
  ASSUME NEW S, IsFiniteSet(S), S # {}, \A x \in S : x \in Int
  PROVE  Max(S) \in S /\ \A y \in S : Max(S) >= y
  <1> DEFINE Above(x) == {y \in S : y > x}
  <1> DEFINE B == {Above(x) : x \in S}
  <1>1. PICK T \in B : \A U \in B : U \subseteq T => U = T
    <2>1. B \in SUBSET SUBSET S
      OBVIOUS
    <2>2. B # {}
      OBVIOUS
    <2> HIDE DEF B
    <2> QED
      BY <2>1, <2>2, Smallest
  <1>2. PICK x \in S : T = Above(x)
    OBVIOUS
  <1>3. ASSUME NEW y \in S, y > x PROVE FALSE
    <2>1. \A z \in S : z > y => z > x
      BY <1>3
    <2>2. ~(y > y)
      BY <1>3
    <2>3. Above(y) \in B /\ Above(y) \subseteq Above(x)
      BY <2>1
    <2>4. y \in Above(x) /\ y \notin Above(y)
      BY <1>3, <2>2
    <2> HIDE DEF Above
    <2> QED
      BY <1>1, <1>2, <2>3, <2>4
  <1>4. \A y \in S : x >= y
    BY <1>3
  <1> QED
    BY <1>4 DEF Max

LEMMA MinIsLeast ==
  ASSUME NEW S, IsFiniteSet(S), S # {}, \A x \in S : x \in Int
  PROVE  Min(S) \in S /\ \A y \in S : Min(S) <= y
  <1> DEFINE Below(x) == {y \in S : y < x}
  <1> DEFINE B == {Below(x) : x \in S}
  <1>1. PICK T \in B : \A U \in B : U \subseteq T => U = T
    <2>1. B \in SUBSET SUBSET S
      OBVIOUS
    <2>2. B # {}
      OBVIOUS
    <2> HIDE DEF B
    <2> QED
      BY <2>1, <2>2, Smallest
  <1>2. PICK x \in S : T = Below(x)
    OBVIOUS
  <1>3. ASSUME NEW y \in S, y < x PROVE FALSE
    <2>1. \A z \in S : z < y => z < x
      BY <1>3
    <2>2. ~(y < y)
      BY <1>3
    <2>3. Below(y) \in B /\ Below(y) \subseteq Below(x)
      BY <2>1
    <2>4. y \in Below(x) /\ y \notin Below(y)
      BY <1>3, <2>2
    <2> HIDE DEF Below
    <2> QED
      BY <1>1, <1>2, <2>3, <2>4
  <1>4. \A y \in S : x <= y
    BY <1>3
  <1> QED
    BY <1>4 DEF Min

Chosen(T) == CHOOSE x \in T : TRUE

LEMMA ChosenIn == ASSUME NEW T, T # {} PROVE Chosen(T) \in T
  BY DEF Chosen

\* g gives the sums of f over the subsets of S, as the fold computes them.
IsSums(g, f, S) ==
  g = [T \in SUBSET S |-> IF T = {} THEN 0 ELSE f[Chosen(T)] + g[T \ {Chosen(T)}]]

LEMMA SumIsFold ==
  ASSUME NEW f, NEW S
  PROVE  SumFunctionOnSet(f, S) = (CHOOSE g : IsSums(g, f, S))[S]
  BY DEF SumFunctionOnSet, FoldFunctionOnSet, MapThenFoldSet, IsSums, Chosen

LEMMA FoldStep ==
  ASSUME NEW f, NEW S, NEW g, IsSums(g, f, S), NEW T \in SUBSET S
  PROVE  g[T] = IF T = {} THEN 0 ELSE f[Chosen(T)] + g[T \ {Chosen(T)}]
  BY DEF IsSums

LEMMA FoldsAgree ==
  ASSUME NEW f, NEW S, IsFiniteSet(S), NEW g, NEW h, NEW U, U \subseteq S,
         IsSums(g, f, S), IsSums(h, f, U)
  PROVE  \A T \in SUBSET U : g[T] = h[T]
  <1> DEFINE B == {T \in SUBSET U : g[T] # h[T]}
  <1> SUFFICES ASSUME B # {} PROVE FALSE
    OBVIOUS
  <1>0. IsFiniteSet(U)
    BY FS_Subset
  <1>1. PICK T \in B : \A V \in B : V \subseteq T => V = T
    <2>1. B \in SUBSET SUBSET U
      OBVIOUS
    <2> HIDE DEF B
    <2> QED
      BY <1>0, <2>1, Smallest
  <1>2. T \in SUBSET U /\ T \in SUBSET S /\ g[T] # h[T]
    BY <1>1
  <1>3. T # {}
    BY <1>2, FoldStep
  <1>4. Chosen(T) \in T
    BY <1>3, ChosenIn
  <1>5. g[T \ {Chosen(T)}] = h[T \ {Chosen(T)}]
    BY <1>1, <1>4
  <1> QED
    BY <1>2, <1>3, <1>5, FoldStep

LEMMA FoldExists ==
  ASSUME NEW f, NEW S, IsFiniteSet(S)
  PROVE  \E g : IsSums(g, f, S)
  <1> DEFINE B == {T \in SUBSET S : ~\E g : IsSums(g, f, T)}
  <1> SUFFICES ASSUME B # {} PROVE FALSE
    OBVIOUS
  <1>1. PICK T \in B : \A V \in B : V \subseteq T => V = T
    <2>1. B \in SUBSET SUBSET S
      OBVIOUS
    <2> HIDE DEF B
    <2> QED
      BY <2>1, Smallest
  <1> DEFINE G(U) == CHOOSE g : IsSums(g, f, U)
  <1>2. \A U \in SUBSET T : U # T => IsSums(G(U), f, U)
    BY <1>1
  <1> DEFINE h == [U \in SUBSET T |->
                     IF U = {} THEN 0
                     ELSE f[Chosen(U)] + G(U \ {Chosen(U)})[U \ {Chosen(U)}]]
  <1>3. ASSUME NEW U \in SUBSET T, U # T PROVE h[U] = G(U)[U]
    <2>1. IsSums(G(U), f, U)
      BY <1>2, <1>3
    <2>2. CASE U = {}
      BY <2>1, <2>2, FoldStep
    <2>3. CASE U # {}
      <3> DEFINE V == U \ {Chosen(U)}
      <3>1. Chosen(U) \in U
        BY <2>3, ChosenIn
      <3>2. V \in SUBSET T /\ V # T /\ V \subseteq U
        BY <1>3, <3>1
      <3>3. IsSums(G(V), f, V)
        BY <1>2, <3>2
      <3>4. IsFiniteSet(U)
        BY FS_Subset
      <3>5. G(U)[V] = G(V)[V]
        <4> HIDE DEF V, G
        <4> QED BY <2>1, <3>2, <3>3, <3>4, FoldsAgree
      <3>6. G(U)[U] = f[Chosen(U)] + G(U)[V]
        <4> HIDE DEF G
        <4> QED BY <2>1, <2>3, FoldStep
      <3>7. h[U] = f[Chosen(U)] + G(V)[V]
        BY <2>3
      <3> QED
        BY <3>5, <3>6, <3>7
    <2> QED
      BY <2>2, <2>3
  <1>4. ASSUME NEW U \in SUBSET T
        PROVE h[U] = IF U = {} THEN 0 ELSE f[Chosen(U)] + h[U \ {Chosen(U)}]
    <2>1. CASE U = {}
      BY <2>1
    <2>2. CASE U # {}
      <3>1. U \ {Chosen(U)} \in SUBSET T /\ U \ {Chosen(U)} # T
        BY <2>2, ChosenIn
      <3>2. h[U \ {Chosen(U)}] = G(U \ {Chosen(U)})[U \ {Chosen(U)}]
        BY <3>1, <1>3
      <3>3. h[U] = f[Chosen(U)] + G(U \ {Chosen(U)})[U \ {Chosen(U)}]
        BY <2>2
      <3> QED
        BY <2>2, <3>2, <3>3
    <2> QED
      BY <2>1, <2>2
  <1>5. IsSums(h, f, T)
    <2>1. h = [U \in SUBSET T |-> h[U]]
      OBVIOUS
    <2> HIDE DEF h
    <2> QED
      BY <1>4, <2>1 DEF IsSums
  <1> QED
    BY <1>1, <1>5

LEMMA SumStep ==
  ASSUME NEW f, NEW S, IsFiniteSet(S)
  PROVE  /\ S = {} => SumFunctionOnSet(f, S) = 0
         /\ S # {} => SumFunctionOnSet(f, S) =
                        f[Chosen(S)] + SumFunctionOnSet(f, S \ {Chosen(S)})
  <1> DEFINE G(U) == CHOOSE g : IsSums(g, f, U)
  <1>1. \A U \in SUBSET S : SumFunctionOnSet(f, U) = G(U)[U]
    BY SumIsFold
  <1>2. \A U \in SUBSET S : IsSums(G(U), f, U)
    BY FoldExists, FS_Subset
  <1> HIDE DEF G
  <1>3. CASE S = {}
    BY <1>1, <1>2, <1>3, FoldStep
  <1>4. CASE S # {}
    <2> DEFINE V == S \ {Chosen(S)}
    <2>1. G(S)[S] = f[Chosen(S)] + G(S)[V]
      BY <1>2, <1>4, FoldStep
    <2>2. G(S)[V] = G(V)[V]
      <3>1. V \in SUBSET S /\ V \subseteq S
        OBVIOUS
      <3> HIDE DEF V
      <3> QED BY <3>1, <1>2, FoldsAgree
    <2> QED
      BY <1>1, <1>4, <2>1, <2>2
  <1> QED
    BY <1>3, <1>4

\* A sum of naturals is a natural.
LEMMA SumNat ==
  ASSUME NEW f, NEW S, IsFiniteSet(S), \A x \in S : f[x] \in Nat
  PROVE  SumFunctionOnSet(f, S) \in Nat
  <1> DEFINE B == {T \in SUBSET S : SumFunctionOnSet(f, T) \notin Nat}
  <1> SUFFICES ASSUME B # {} PROVE FALSE
    OBVIOUS
  <1>1. PICK T \in B : \A U \in B : U \subseteq T => U = T
    <2>1. B \in SUBSET SUBSET S
      OBVIOUS
    <2> HIDE DEF B
    <2> QED
      BY <2>1, Smallest
  <1>2. T \in SUBSET S /\ IsFiniteSet(T) /\ SumFunctionOnSet(f, T) \notin Nat
    BY FS_Subset
  <1>3. T # {} /\ Chosen(T) \in T
    <2>1. T = {} => SumFunctionOnSet(f, T) = 0
      BY <1>2, SumStep
    <2> QED
      BY <1>2, <2>1, ChosenIn
  <1>4. SumFunctionOnSet(f, T \ {Chosen(T)}) \in Nat
    BY <1>1, <1>3
  <1>5. SumFunctionOnSet(f, T) = f[Chosen(T)] + SumFunctionOnSet(f, T \ {Chosen(T)})
    BY <1>2, <1>3, SumStep
  <1>6. f[Chosen(T)] \in Nat
    BY <1>2, <1>3
  <1> QED
    BY <1>2, <1>4, <1>5, <1>6

\* Whichever element is taken out, the sum is that element and the rest.
LEMMA SumRemove ==
  ASSUME NEW f, NEW S, IsFiniteSet(S), \A x \in S : f[x] \in Nat, NEW x \in S
  PROVE  SumFunctionOnSet(f, S) = f[x] + SumFunctionOnSet(f, S \ {x})
  <1> DEFINE Sum(T) == SumFunctionOnSet(f, T)
  <1> DEFINE B == {T \in SUBSET S : \E y \in T : Sum(T) # f[y] + Sum(T \ {y})}
  <1> SUFFICES ASSUME B # {} PROVE FALSE
    OBVIOUS
  <1>1. PICK T \in B : \A U \in B : U \subseteq T => U = T
    <2>1. B \in SUBSET SUBSET S
      OBVIOUS
    <2> HIDE DEF B
    <2> QED
      BY <2>1, Smallest
  <1>2. T \in SUBSET S /\ IsFiniteSet(T)
    BY FS_Subset
  <1>3. PICK y \in T : Sum(T) # f[y] + Sum(T \ {y})
    OBVIOUS
  <1> DEFINE c == Chosen(T)
  <1>4. c \in T /\ Sum(T) = f[c] + Sum(T \ {c})
    BY <1>2, <1>3, SumStep, ChosenIn
  <1>5. c # y
    BY <1>3, <1>4
  <1>6. Sum(T \ {c}) = f[y] + Sum((T \ {c}) \ {y})
    <2>1. T \ {c} \notin B
      BY <1>1, <1>4
    <2> QED
      BY <2>1, <1>2, <1>5
  <1>7. Sum(T \ {y}) = f[c] + Sum((T \ {y}) \ {c})
    <2>1. T \ {y} \notin B
      BY <1>1
    <2> QED
      BY <2>1, <1>2, <1>4, <1>5
  <1>8. (T \ {c}) \ {y} = (T \ {y}) \ {c}
    OBVIOUS
  <1>9. f[c] \in Nat /\ f[y] \in Nat /\ Sum((T \ {y}) \ {c}) \in Nat
    <2>1. IsFiniteSet((T \ {y}) \ {c})
      BY <1>2, FS_Subset
    <2> QED
      BY <1>2, <1>4, <2>1, SumNat
  <1> HIDE DEF Sum, c
  <1> QED
    BY <1>3, <1>4, <1>6, <1>7, <1>8, <1>9

\* A sum is one of the values on its set.
LEMMA SumSame ==
  ASSUME NEW f, NEW h, NEW S, IsFiniteSet(S), \A x \in S : f[x] = h[x]
  PROVE  SumFunctionOnSet(f, S) = SumFunctionOnSet(h, S)
  <1> DEFINE B == {T \in SUBSET S : SumFunctionOnSet(f, T) # SumFunctionOnSet(h, T)}
  <1> SUFFICES ASSUME B # {} PROVE FALSE
    OBVIOUS
  <1>1. PICK T \in B : \A U \in B : U \subseteq T => U = T
    <2>1. B \in SUBSET SUBSET S
      OBVIOUS
    <2> HIDE DEF B
    <2> QED
      BY <2>1, Smallest
  <1>2. T \in SUBSET S /\ IsFiniteSet(T) /\ SumFunctionOnSet(f, T) # SumFunctionOnSet(h, T)
    BY FS_Subset
  <1>3. T # {} /\ Chosen(T) \in T
    BY <1>2, SumStep, ChosenIn
  <1>4. SumFunctionOnSet(f, T \ {Chosen(T)}) = SumFunctionOnSet(h, T \ {Chosen(T)})
    BY <1>1, <1>3
  <1>5. f[Chosen(T)] = h[Chosen(T)]
    BY <1>2, <1>3
  <1> QED
    BY <1>2, <1>3, <1>4, <1>5, SumStep

\* A sum is that of a part and that of the rest.
LEMMA SumSplit ==
  ASSUME NEW f, NEW S, IsFiniteSet(S), \A x \in S : f[x] \in Nat, NEW T \in SUBSET S
  PROVE  SumFunctionOnSet(f, S) = SumFunctionOnSet(f, T) + SumFunctionOnSet(f, S \ T)
  <1> DEFINE Sum(U) == SumFunctionOnSet(f, U)
  <1> DEFINE B == {U \in SUBSET S : U \subseteq T /\ Sum(S \ (T \ U)) # Sum(U) + Sum(S \ T)}
  <1>1. ASSUME B # {} PROVE FALSE
    <2>1. PICK U \in B : \A V \in B : V \subseteq U => V = U
      <3>1. B \in SUBSET SUBSET S
        OBVIOUS
      <3> HIDE DEF B
      <3> QED
        BY <1>1, <3>1, Smallest
    <2>2. U \subseteq T /\ Sum(S \ (T \ U)) # Sum(U) + Sum(S \ T)
      BY <2>1
    <2>3. \A V \in SUBSET S : IsFiniteSet(V) /\ Sum(V) \in Nat
      BY FS_Subset, SumNat
    <2>4. U # {}
      <3>1. ASSUME U = {} PROVE FALSE
        <4>1. Sum({}) = 0
          BY FS_EmptySet, SumStep
        <4>2. S \ (T \ U) = S \ T /\ Sum(S \ T) \in Nat
          BY <2>3, <3>1
        <4> HIDE DEF Sum
        <4> QED
          BY <2>2, <3>1, <4>1, <4>2
      <3> QED
        BY <3>1
    <2>5. PICK x \in U : TRUE
      BY <2>4
    <2> DEFINE V == U \ {x}
    <2>6. Sum(S \ (T \ V)) = Sum(V) + Sum(S \ T)
      <3>1. V \in SUBSET S /\ V \subseteq T /\ V \subseteq U /\ V # U
        BY <2>2, <2>5
      <3>2. V \notin B
        BY <2>1, <3>1
      <3> HIDE DEF Sum, V
      <3> QED
        BY <3>1, <3>2
    <2>7. Sum(U) = f[x] + Sum(V)
      BY <2>2, <2>3, SumRemove
    <2>8. Sum(S \ (T \ U)) = f[x] + Sum(S \ (T \ V))
      <3> DEFINE W == S \ (T \ U)
      <3>1. x \in W /\ W \in SUBSET S /\ W \ {x} = S \ (T \ V)
        BY <2>2, <2>5
      <3> HIDE DEF W
      <3>2. Sum(W) = f[x] + Sum(W \ {x})
        BY <2>3, <3>1, SumRemove
      <3> QED
        BY <3>1, <3>2 DEF W
    <2>9. f[x] \in Nat /\ Sum(V) \in Nat /\ Sum(S \ T) \in Nat
      BY <2>2, <2>3, <2>5
    <2> HIDE DEF Sum, V
    <2> QED
      BY <2>2, <2>6, <2>7, <2>8, <2>9
  <1>2. T \notin B /\ T \in SUBSET S
    BY <1>1
  <1>3. S \ (T \ T) = S
    OBVIOUS
  <1> HIDE DEF Sum
  <1>4. Sum(S) = Sum(T) + Sum(S \ T)
    BY <1>2, <1>3
  <1> QED
    BY <1>4 DEF Sum

\* Fewer naturals make no larger a sum.
LEMMA SumSubset ==
  ASSUME NEW f, NEW S, IsFiniteSet(S), \A x \in S : f[x] \in Nat, NEW T \in SUBSET S
  PROVE  SumFunctionOnSet(f, T) <= SumFunctionOnSet(f, S)
  <1>1. SumFunctionOnSet(f, T) \in Nat /\ SumFunctionOnSet(f, S \ T) \in Nat
    BY FS_Subset, SumNat
  <1> QED
    BY <1>1, SumSplit
=============================================================================
