-------------------------------- MODULE Sums --------------------------------
(***************************************************************************)
(* What the proofs need of the sum of a function over a finite set, which  *)
(* the models write with MapThenSumSet.  The fold behind it is a recursive *)
(* function chosen by CHOOSE; the lemmas below say that it exists and what *)
(* it returns.  Induction over the subsets of a finite set is the argument *)
(* of the least counterexample: strict inclusion is well founded on them,  *)
(* so a non-empty set of subsets on which a claim fails has a minimal one. *)
(***************************************************************************)
EXTENDS Integers, FiniteSets, FiniteSetsExt, FiniteSetTheorems, WellFoundedInduction, TLAPS

(* The sum the models take, with its terms as a function.                  *)
SumOver(f, S) == MapThenSumSet(LAMBDA x : f[x], S)

(* The element the fold takes out of T, one step of it, and the function   *)
(* the fold chooses: g[T] is the sum over T for every subset T of S.       *)
FoldPick(T) == CHOOSE x \in T : TRUE
FoldStep(f, g, T) == IF T = {} THEN 0 ELSE f[FoldPick(T)] + g[T \ {FoldPick(T)}]
FoldSums(f, S, g) == g = [T \in SUBSET S |-> FoldStep(f, g, T)]

(* The sum over S is the chosen function at S.                             *)
LEMMA Unfold == ASSUME NEW f, NEW S
  PROVE SumOver(f, S) = (CHOOSE g : FoldSums(f, S, g))[S]
  BY DEF SumOver, MapThenSumSet, MapThenFoldSet, FoldSums, FoldStep, FoldPick

(* A non-empty set of subsets of a finite set has a minimal member.        *)
LEMMA MinimalSubset ==
  ASSUME NEW S, IsFiniteSet(S), NEW B, B \subseteq SUBSET S, B # {}
  PROVE  \E T \in B : \A U \in B : U \subseteq T => U = T
<1>1. IsWellFoundedOn(StrictSubsetOrdering(S), SUBSET S)
  BY FS_StrictSubsetOrderingWellFounded, FS_FiniteSubsetsOfFinite
<1>2. \E x \in B : \A y \in B : ~ (<<y, x>> \in StrictSubsetOrdering(S))
  BY <1>1, WFMin
<1> QED BY <1>2 DEF StrictSubsetOrdering

(* Two such functions agree on the subsets both are defined on.            *)
LEMMA SumsAgree ==
  ASSUME NEW f, NEW S, IsFiniteSet(S), NEW T, T \subseteq S,
         NEW g, FoldSums(f, S, g), NEW h, FoldSums(f, T, h)
  PROVE  \A U \in SUBSET T : g[U] = h[U]
<1> DEFINE B == {U \in SUBSET T : g[U] # h[U]}
<1> SUFFICES ASSUME B # {} PROVE FALSE
  OBVIOUS
<1>1. IsFiniteSet(T)
  BY FS_Subset
<1>2. PICK U \in B : \A V \in B : V \subseteq U => V = U
  <2> HIDE DEF B
  <2>1. B \subseteq SUBSET T BY DEF B
  <2> QED BY <1>1, <2>1, MinimalSubset
<1>3. g[U] = FoldStep(f, g, U) /\ h[U] = FoldStep(f, h, U)
  BY DEF FoldSums
<1>4. U # {}
  BY <1>3 DEF FoldStep
<1> DEFINE V == U \ {FoldPick(U)}
<1>5. FoldPick(U) \in U
  BY <1>4 DEF FoldPick
<1>6. V \subseteq U /\ V # U /\ V \in SUBSET T
  BY <1>5
<1>7. g[V] = h[V]
  BY <1>2, <1>6
<1> QED BY <1>2, <1>3, <1>4, <1>7 DEF FoldStep

(* There is such a function for every finite set.                          *)
LEMMA SumsExist ==
  ASSUME NEW f, NEW S, IsFiniteSet(S)
  PROVE  \E g : FoldSums(f, S, g)
<1> DEFINE Has(T) == \E g : FoldSums(f, T, g)
           B == {T \in SUBSET S : ~Has(T)}
<1> SUFFICES ASSUME ~Has(S) PROVE FALSE
  OBVIOUS
<1>1. PICK T \in B : \A U \in B : U \subseteq T => U = T
  <2>1. B \subseteq SUBSET S /\ B # {} OBVIOUS
  <2> HIDE DEF B
  <2> QED BY <2>1, MinimalSubset
<1> DEFINE G(U) == CHOOSE g : FoldSums(f, U, g)
           p == FoldPick(T)
           h == [U \in SUBSET T |-> IF U = T THEN IF T = {} THEN 0 ELSE f[p] + G(T \ {p})[T \ {p}]
                                    ELSE G(U)[U]]
<1>2. \A U \in SUBSET T : U # T => FoldSums(f, U, G(U))
  BY <1>1
<1>3. \A U \in SUBSET T : IsFiniteSet(U)
  <2>1. IsFiniteSet(T) BY FS_Subset
  <2> QED BY <2>1, FS_Subset
<1>4. ASSUME NEW U \in SUBSET T PROVE h[U] = FoldStep(f, h, U)
  <2>1. CASE U = {}
    <3>1. CASE T = {} BY <2>1, <3>1 DEF FoldStep
    <3>2. CASE T # {}
      <4>1. FoldSums(f, U, G(U)) BY <1>2, <2>1, <3>2
      <4>2. G(U)[U] = 0 BY <4>1, <2>1 DEF FoldSums, FoldStep
      <4> QED BY <2>1, <3>2, <4>2 DEF FoldStep
    <3> QED BY <3>1, <3>2
  <2>2. CASE U # {}
    <3> DEFINE q == FoldPick(U)
               V == U \ {q}
    <3>1. q \in U BY <2>2 DEF FoldPick
    <3>2. V \in SUBSET T /\ V # T /\ V \subseteq U /\ V # U BY <3>1
    <3>3. h[V] = G(V)[V] BY <3>2
    <3>4. CASE U = T BY <2>2, <3>3, <3>4 DEF FoldStep
    <3>5. CASE U # T
      <4>1. FoldSums(f, U, G(U)) /\ FoldSums(f, V, G(V)) BY <1>2, <3>2, <3>5
      <4>2. G(U)[V] = G(V)[V]
        <5> HIDE DEF G, V
        <5>1. IsFiniteSet(U) /\ V \subseteq U /\ V \in SUBSET V BY <1>3, <3>2
        <5> QED BY <4>1, <5>1, SumsAgree
      <4>3. G(U)[U] = f[q] + G(U)[V] BY <4>1, <2>2 DEF FoldSums, FoldStep
      <4>4. h[U] = G(U)[U] BY <3>5
      <4> HIDE DEF h, G
      <4> QED BY <4>2, <4>3, <4>4, <3>3, <2>2 DEF FoldStep
    <3> QED BY <3>4, <3>5
  <2> QED BY <2>1, <2>2
<1>5. FoldSums(f, T, h)
  <2>1. h = [U \in SUBSET T |-> h[U]] OBVIOUS
  <2> HIDE DEF h
  <2> QED BY <1>4, <2>1 DEF FoldSums
<1> QED BY <1>1, <1>5

(* The sum over a set, one element at a time: the one the fold picks ...   *)
LEMMA SumStep ==
  ASSUME NEW f, NEW S, IsFiniteSet(S)
  PROVE  /\ SumOver(f, {}) = 0
         /\ S # {} => FoldPick(S) \in S /\ SumOver(f, S) = f[FoldPick(S)] + SumOver(f, S \ {FoldPick(S)})
<1> DEFINE G(U) == CHOOSE g : FoldSums(f, U, g)
<1>1. ASSUME NEW U, IsFiniteSet(U) PROVE FoldSums(f, U, G(U)) /\ SumOver(f, U) = G(U)[U]
  BY <1>1, SumsExist, Unfold
<1>2. SumOver(f, {}) = 0
  BY <1>1, FS_EmptySet DEF FoldSums, FoldStep
<1>3. ASSUME S # {} PROVE FoldPick(S) \in S /\ SumOver(f, S) = f[FoldPick(S)] + SumOver(f, S \ {FoldPick(S)})
  <2> DEFINE V == S \ {FoldPick(S)}
  <2>1. FoldPick(S) \in S BY <1>3 DEF FoldPick
  <2>2. IsFiniteSet(V) /\ V \subseteq S BY FS_RemoveElement
  <2>3. FoldSums(f, S, G(S)) /\ FoldSums(f, V, G(V)) /\ SumOver(f, S) = G(S)[S] /\ SumOver(f, V) = G(V)[V]
    BY <1>1, <2>2
  <2>4. G(S)[V] = G(V)[V] BY <2>2, <2>3, SumsAgree
  <2>5. G(S)[S] = f[FoldPick(S)] + G(S)[V] BY <2>3, <1>3 DEF FoldSums, FoldStep
  <2> QED BY <2>1, <2>3, <2>4, <2>5
<1> QED BY <1>2, <1>3

(* A sum of integers is an integer.                                        *)
LEMMA SumType ==
  ASSUME NEW f, NEW S, IsFiniteSet(S), \A x \in S : f[x] \in Int
  PROVE  SumOver(f, S) \in Int
<1> DEFINE B == {T \in SUBSET S : SumOver(f, T) \notin Int}
<1> SUFFICES ASSUME B # {} PROVE FALSE
  OBVIOUS
<1>1. PICK T \in B : \A U \in B : U \subseteq T => U = T
  <2>1. B \subseteq SUBSET S OBVIOUS
  <2> HIDE DEF B
  <2> QED BY <2>1, MinimalSubset
<1>2. IsFiniteSet(T)
  BY FS_Subset
<1>3. T # {}
  <2>1. SumOver(f, {}) = 0 BY SumStep
  <2> QED BY <2>1
<1>4. FoldPick(T) \in T /\ SumOver(f, T) = f[FoldPick(T)] + SumOver(f, T \ {FoldPick(T)})
  BY <1>2, <1>3, SumStep
<1>5. SumOver(f, T \ {FoldPick(T)}) \in Int
  BY <1>1, <1>4
<1> QED BY <1>4, <1>5

(* ... or any other.                                                       *)
LEMMA SumRemove ==
  ASSUME NEW f, NEW S, IsFiniteSet(S), \A x \in S : f[x] \in Int, NEW y \in S
  PROVE  SumOver(f, S) = f[y] + SumOver(f, S \ {y})
<1> DEFINE B == {T \in SUBSET S : \E x \in T : SumOver(f, T) # f[x] + SumOver(f, T \ {x})}
<1> SUFFICES ASSUME B # {} PROVE FALSE
  OBVIOUS
<1>1. PICK T \in B : \A U \in B : U \subseteq T => U = T
  <2>1. B \subseteq SUBSET S OBVIOUS
  <2> HIDE DEF B
  <2> QED BY <2>1, MinimalSubset
<1>2. PICK x \in T : SumOver(f, T) # f[x] + SumOver(f, T \ {x})
  OBVIOUS
<1> DEFINE p == FoldPick(T)
<1>3. \A U \in SUBSET T : IsFiniteSet(U) /\ SumOver(f, U) \in Int
  <2>1. IsFiniteSet(T) BY FS_Subset
  <2> SUFFICES ASSUME NEW U \in SUBSET T PROVE IsFiniteSet(U) /\ SumOver(f, U) \in Int OBVIOUS
  <2>2. IsFiniteSet(U) BY <2>1, FS_Subset
  <2> QED BY <2>2, SumType
<1>4. p \in T /\ SumOver(f, T) = f[p] + SumOver(f, T \ {p})
  BY <1>2, <1>3, SumStep
<1>5. x # p
  BY <1>2, <1>4
<1> DEFINE W == T \ {p, x}
<1>6. SumOver(f, T \ {p}) = f[x] + SumOver(f, W)
  <2>1. (T \ {p}) \ {x} = W OBVIOUS
  <2>2. T \ {p} \notin B /\ T \ {p} \in SUBSET S /\ x \in T \ {p} BY <1>1, <1>4, <1>5
  <2>3. SumOver(f, T \ {p}) = f[x] + SumOver(f, (T \ {p}) \ {x}) BY <2>2
  <2> QED BY <2>1, <2>3
<1>7. SumOver(f, T \ {x}) = f[p] + SumOver(f, W)
  <2>1. (T \ {x}) \ {p} = W OBVIOUS
  <2>2. T \ {x} \notin B /\ T \ {x} \in SUBSET S /\ p \in T \ {x} BY <1>1, <1>4, <1>5
  <2>3. SumOver(f, T \ {x}) = f[p] + SumOver(f, (T \ {x}) \ {p}) BY <2>2
  <2> QED BY <2>1, <2>3
<1>8. f[x] \in Int /\ f[p] \in Int /\ SumOver(f, W) \in Int
  BY <1>3, <1>4
<1>9. SumOver(f, T) = f[p] + (f[x] + SumOver(f, W))
  BY <1>4, <1>6
<1>10. SumOver(f, T) # f[x] + (f[p] + SumOver(f, W))
  BY <1>2, <1>7
<1> HIDE DEF p, W, B
<1> QED BY <1>8, <1>9, <1>10

(* The sum with one more element.                                          *)
LEMMA SumAdd ==
  ASSUME NEW f, NEW S, IsFiniteSet(S), \A x \in S : f[x] \in Int, NEW y, y \notin S, f[y] \in Int
  PROVE  SumOver(f, S \cup {y}) = f[y] + SumOver(f, S)
<1>1. IsFiniteSet(S \cup {y}) /\ (S \cup {y}) \ {y} = S
  BY FS_AddElement
<1> QED BY <1>1, SumRemove

(* Equal terms, equal sums.                                                *)
LEMMA SumEqual ==
  ASSUME NEW f, NEW g, NEW S, IsFiniteSet(S), \A x \in S : f[x] = g[x]
  PROVE  SumOver(f, S) = SumOver(g, S)
<1> DEFINE B == {T \in SUBSET S : SumOver(f, T) # SumOver(g, T)}
<1> SUFFICES ASSUME B # {} PROVE FALSE
  OBVIOUS
<1>1. PICK T \in B : \A U \in B : U \subseteq T => U = T
  <2>1. B \subseteq SUBSET S OBVIOUS
  <2> HIDE DEF B
  <2> QED BY <2>1, MinimalSubset
<1>2. IsFiniteSet(T)
  BY FS_Subset
<1>e. T # {}
  <2>1. SumOver(f, {}) = 0 /\ SumOver(g, {}) = 0 BY SumStep
  <2> QED BY <2>1
<1>3. /\ FoldPick(T) \in T
      /\ SumOver(f, T) = f[FoldPick(T)] + SumOver(f, T \ {FoldPick(T)})
      /\ SumOver(g, T) = g[FoldPick(T)] + SumOver(g, T \ {FoldPick(T)})
  BY <1>2, <1>e, SumStep
<1>4. SumOver(f, T \ {FoldPick(T)}) = SumOver(g, T \ {FoldPick(T)})
  BY <1>1, <1>3
<1> QED BY <1>3, <1>4

(* One term changes.                                                       *)
LEMMA SumChange ==
  ASSUME NEW f, NEW g, NEW S, IsFiniteSet(S), NEW y \in S,
         \A x \in S : f[x] \in Int /\ g[x] \in Int, \A x \in S \ {y} : f[x] = g[x]
  PROVE  SumOver(g, S) = SumOver(f, S) - f[y] + g[y]
<1>1. IsFiniteSet(S \ {y})
  BY FS_RemoveElement
<1>2. SumOver(f, S \ {y}) = SumOver(g, S \ {y}) /\ SumOver(f, S \ {y}) \in Int
  BY <1>1, SumEqual, SumType
<1>3. SumOver(f, S) = f[y] + SumOver(f, S \ {y})
  BY SumRemove
<1>4. SumOver(g, S) = g[y] + SumOver(g, S \ {y})
  BY SumRemove
<1>5. f[y] \in Int /\ g[y] \in Int
  OBVIOUS
<1> QED BY <1>2, <1>3, <1>4, <1>5

(* A sum of naturals is a natural.                                         *)
LEMMA SumNat ==
  ASSUME NEW f, NEW S, IsFiniteSet(S), \A x \in S : f[x] \in Nat
  PROVE  SumOver(f, S) \in Nat
<1> DEFINE B == {T \in SUBSET S : SumOver(f, T) \notin Nat}
<1> SUFFICES ASSUME B # {} PROVE FALSE
  OBVIOUS
<1>1. PICK T \in B : \A U \in B : U \subseteq T => U = T
  <2>1. B \subseteq SUBSET S OBVIOUS
  <2> HIDE DEF B
  <2> QED BY <2>1, MinimalSubset
<1>2. IsFiniteSet(T)
  BY FS_Subset
<1>3. T # {}
  <2>1. SumOver(f, {}) = 0 BY SumStep
  <2> QED BY <2>1
<1>4. FoldPick(T) \in T /\ SumOver(f, T) = f[FoldPick(T)] + SumOver(f, T \ {FoldPick(T)})
  BY <1>2, <1>3, SumStep
<1>5. SumOver(f, T \ {FoldPick(T)}) \in Nat
  BY <1>1, <1>4
<1> QED BY <1>4, <1>5

(* ... and grows with the set.                                             *)
LEMMA SumMono ==
  ASSUME NEW f, NEW S, IsFiniteSet(S), \A x \in S : f[x] \in Nat, NEW T, T \subseteq S
  PROVE  SumOver(f, T) <= SumOver(f, S)
<1> DEFINE B == {U \in SUBSET S : T \subseteq U /\ ~(SumOver(f, T) <= SumOver(f, U))}
<1> SUFFICES ASSUME B # {} PROVE FALSE
  OBVIOUS
<1>1. PICK U \in B : \A V \in B : V \subseteq U => V = U
  <2>1. B \subseteq SUBSET S OBVIOUS
  <2> HIDE DEF B
  <2> QED BY <2>1, MinimalSubset
<1>2. \A V \in SUBSET S : IsFiniteSet(V) /\ SumOver(f, V) \in Nat
  <2> SUFFICES ASSUME NEW V \in SUBSET S PROVE IsFiniteSet(V) /\ SumOver(f, V) \in Nat OBVIOUS
  <2>1. IsFiniteSet(V) BY FS_Subset
  <2> QED BY <2>1, SumNat
<1>3. T # U
  BY <1>2
<1>4. PICK y \in U : y \notin T
  BY <1>1, <1>3
<1> DEFINE W == U \ {y}
<1>5. SumOver(f, U) = f[y] + SumOver(f, W)
  <2>1. IsFiniteSet(U) /\ \A x \in U : f[x] \in Int BY <1>2
  <2> QED BY <2>1, SumRemove
<1>6. W \in SUBSET S /\ T \subseteq W /\ W \subseteq U /\ W # U
  BY <1>4
<1>7. SumOver(f, T) <= SumOver(f, W)
  BY <1>1, <1>6
<1>8. f[y] \in Nat /\ SumOver(f, W) \in Nat /\ SumOver(f, T) \in Nat
  BY <1>2, <1>6
<1>9. ~(SumOver(f, T) <= SumOver(f, U))
  OBVIOUS
<1> HIDE DEF W, B
<1> QED BY <1>5, <1>7, <1>8, <1>9

(* The sum of a sum of two functions.                                      *)
LEMMA SumPlus ==
  ASSUME NEW f, NEW g, NEW h, NEW S, IsFiniteSet(S),
         \A x \in S : f[x] \in Int /\ g[x] \in Int /\ h[x] = f[x] + g[x]
  PROVE  SumOver(h, S) = SumOver(f, S) + SumOver(g, S)
<1> DEFINE B == {T \in SUBSET S : SumOver(h, T) # SumOver(f, T) + SumOver(g, T)}
<1> SUFFICES ASSUME B # {} PROVE FALSE
  OBVIOUS
<1>1. PICK T \in B : \A U \in B : U \subseteq T => U = T
  <2>1. B \subseteq SUBSET S OBVIOUS
  <2> HIDE DEF B
  <2> QED BY <2>1, MinimalSubset
<1>2. IsFiniteSet(T)
  BY FS_Subset
<1>e. T # {}
  <2>1. SumOver(f, {}) = 0 /\ SumOver(g, {}) = 0 /\ SumOver(h, {}) = 0 BY SumStep
  <2>2. SumOver(h, {}) = SumOver(f, {}) + SumOver(g, {})
    <3> HIDE DEF B
    <3> QED BY <2>1
  <2> QED BY <2>2
<1> DEFINE y == FoldPick(T)
           W == T \ {y}
<1>3. /\ y \in T
      /\ SumOver(f, T) = f[y] + SumOver(f, W)
      /\ SumOver(g, T) = g[y] + SumOver(g, W)
      /\ SumOver(h, T) = h[y] + SumOver(h, W)
  BY <1>2, <1>e, SumStep
<1>4. SumOver(h, W) = SumOver(f, W) + SumOver(g, W)
  BY <1>1, <1>3
<1>5. IsFiniteSet(W) /\ W \subseteq S
  BY <1>2, FS_Subset
<1>6. SumOver(f, W) \in Int /\ SumOver(g, W) \in Int
  BY <1>5, SumType
<1>7. f[y] \in Int /\ g[y] \in Int /\ h[y] = f[y] + g[y]
  BY <1>3
<1>8. SumOver(h, T) # SumOver(f, T) + SumOver(g, T)
  OBVIOUS
<1> HIDE DEF y, W, B
<1> QED BY <1>3, <1>4, <1>6, <1>7, <1>8

(* The terms of a subset are all that matters when the others are zero.    *)
LEMMA SumWithin ==
  ASSUME NEW f, NEW S, IsFiniteSet(S), NEW T, T \subseteq S, \A x \in S \ T : f[x] = 0,
         \A x \in S : f[x] \in Int
  PROVE  SumOver(f, S) = SumOver(f, T)
<1> DEFINE B == {U \in SUBSET S : T \subseteq U /\ SumOver(f, U) # SumOver(f, T)}
<1> SUFFICES ASSUME B # {} PROVE FALSE
  OBVIOUS
<1>1. PICK U \in B : \A V \in B : V \subseteq U => V = U
  <2>1. B \subseteq SUBSET S OBVIOUS
  <2> HIDE DEF B
  <2> QED BY <2>1, MinimalSubset
<1>2. PICK y \in U : y \notin T
  OBVIOUS
<1> DEFINE W == U \ {y}
<1>3. IsFiniteSet(U) /\ \A x \in U : f[x] \in Int
  BY FS_Subset
<1>4. SumOver(f, U) = f[y] + SumOver(f, W)
  BY <1>3, SumRemove
<1>5. SumOver(f, W) = SumOver(f, T)
  BY <1>1, <1>2
<1>6. IsFiniteSet(W) /\ \A x \in W : f[x] \in Int
  BY <1>3, FS_Subset
<1>7. SumOver(f, W) \in Int /\ f[y] = 0
  BY <1>6, <1>2, SumType
<1>8. SumOver(f, U) # SumOver(f, T)
  OBVIOUS
<1> HIDE DEF W, B
<1> QED BY <1>4, <1>5, <1>7, <1>8

(* Two disjoint sets are added up apart.                                   *)
LEMMA SumUnion ==
  ASSUME NEW f, NEW S, IsFiniteSet(S), NEW T, IsFiniteSet(T), S \cap T = {},
         \A x \in S \cup T : f[x] \in Int
  PROVE  SumOver(f, S \cup T) = SumOver(f, S) + SumOver(f, T)
<1> DEFINE U == S \cup T
           g == [x \in U |-> IF x \in S THEN f[x] ELSE 0]
           h == [x \in U |-> IF x \in S THEN 0 ELSE f[x]]
<1>1. IsFiniteSet(U) /\ S \subseteq U /\ T \subseteq U
  BY FS_Union
<1>2. \A x \in U : g[x] \in Int /\ h[x] \in Int /\ f[x] = g[x] + h[x]
  OBVIOUS
<1>3. (\A x \in U \ S : g[x] = 0) /\ (\A x \in U \ T : h[x] = 0)
  OBVIOUS
<1>4. (\A x \in S : g[x] = f[x]) /\ (\A x \in T : h[x] = f[x])
  OBVIOUS
<1> HIDE DEF U, g, h
<1>5. SumOver(f, U) = SumOver(g, U) + SumOver(h, U)
  BY <1>1, <1>2, SumPlus
<1>6. SumOver(g, U) = SumOver(g, S) /\ SumOver(h, U) = SumOver(h, T)
  BY <1>1, <1>2, <1>3, SumWithin
<1>7. SumOver(g, S) = SumOver(f, S) /\ SumOver(h, T) = SumOver(f, T)
  BY <1>4, SumEqual
<1> QED BY <1>5, <1>6, <1>7 DEF U

(* A product loses one of its terms.                                       *)
LEMMA ProductStep == \A n, c \in Int : (n - 1) * c = n * c - c /\ n * c \in Int
  OBVIOUS

(* Equal terms add up to a product.                                        *)
LEMMA SumConst ==
  ASSUME NEW f, NEW S, IsFiniteSet(S), NEW c \in Int, \A x \in S : f[x] = c
  PROVE  SumOver(f, S) = Cardinality(S) * c
<1> DEFINE B == {T \in SUBSET S : SumOver(f, T) # Cardinality(T) * c}
<1> SUFFICES ASSUME B # {} PROVE FALSE
  OBVIOUS
<1>1. PICK T \in B : \A U \in B : U \subseteq T => U = T
  <2>1. B \subseteq SUBSET S OBVIOUS
  <2> HIDE DEF B
  <2> QED BY <2>1, MinimalSubset
<1>2. IsFiniteSet(T)
  BY FS_Subset
<1>3. T # {}
  <2>1. SumOver(f, {}) = 0 BY SumStep
  <2>2. Cardinality({}) * c = 0 BY FS_EmptySet
  <2> QED BY <2>1, <2>2
<1> DEFINE y == FoldPick(T)
           W == T \ {y}
<1>4. y \in T /\ SumOver(f, T) = f[y] + SumOver(f, W)
  BY <1>2, <1>3, SumStep
<1>5. SumOver(f, W) = Cardinality(W) * c
  BY <1>1, <1>4
<1>6. Cardinality(W) = Cardinality(T) - 1 /\ Cardinality(T) \in Nat
  BY <1>2, <1>4, FS_RemoveElement, FS_CardinalityType
<1>7. (Cardinality(T) - 1) * c = Cardinality(T) * c - c /\ Cardinality(T) * c \in Int
  BY <1>6, ProductStep
<1>8. f[y] = c /\ SumOver(f, T) # Cardinality(T) * c
  BY <1>4
<1> HIDE DEF y, W, B
<1> QED BY <1>4, <1>5, <1>6, <1>7, <1>8

(* No term is greater, so neither is the sum.                              *)
LEMMA SumLeq ==
  ASSUME NEW f, NEW g, NEW S, IsFiniteSet(S),
         \A x \in S : f[x] \in Int /\ g[x] \in Int /\ f[x] <= g[x]
  PROVE  SumOver(f, S) <= SumOver(g, S)
<1> DEFINE h == [x \in S |-> g[x] - f[x]]
<1>1. \A x \in S : h[x] \in Nat /\ h[x] \in Int /\ f[x] \in Int /\ g[x] = f[x] + h[x]
  OBVIOUS
<1> HIDE DEF h
<1>2. SumOver(g, S) = SumOver(f, S) + SumOver(h, S)
  BY <1>1, SumPlus
<1>3. SumOver(h, S) \in Nat /\ SumOver(f, S) \in Int
  BY <1>1, SumNat, SumType
<1> QED BY <1>2, <1>3

(* A common factor of the terms.                                           *)
LEMMA SumScale ==
  ASSUME NEW f, NEW g, NEW S, IsFiniteSet(S), NEW c \in Int,
         \A x \in S : f[x] \in Int /\ g[x] = c * f[x]
  PROVE  SumOver(g, S) = c * SumOver(f, S)
<1> DEFINE B == {T \in SUBSET S : SumOver(g, T) # c * SumOver(f, T)}
<1> SUFFICES ASSUME B # {} PROVE FALSE
  OBVIOUS
<1>1. PICK T \in B : \A U \in B : U \subseteq T => U = T
  <2>1. B \subseteq SUBSET S OBVIOUS
  <2> HIDE DEF B
  <2> QED BY <2>1, MinimalSubset
<1>2. IsFiniteSet(T)
  BY FS_Subset
<1>3. T # {}
  <2>1. SumOver(f, {}) = 0 /\ SumOver(g, {}) = 0 BY SumStep
  <2>2. c * 0 = 0 OBVIOUS
  <2> QED BY <2>1, <2>2
<1> DEFINE y == FoldPick(T)
           W == T \ {y}
<1>4. /\ y \in T
      /\ SumOver(f, T) = f[y] + SumOver(f, W)
      /\ SumOver(g, T) = g[y] + SumOver(g, W)
  BY <1>2, <1>3, SumStep
<1>5. SumOver(g, W) = c * SumOver(f, W)
  BY <1>1, <1>4
<1>6. SumOver(f, W) \in Int /\ f[y] \in Int /\ g[y] = c * f[y]
  <2>1. IsFiniteSet(W) /\ \A x \in W : f[x] \in Int BY <1>2, FS_Subset
  <2> QED BY <2>1, <1>4, SumType
<1>7. SumOver(g, T) # c * SumOver(f, T)
  OBVIOUS
<1>8. \A a, b \in Int : c * (a + b) = c * a + c * b
  OBVIOUS
<1>9. c * (f[y] + SumOver(f, W)) = c * f[y] + c * SumOver(f, W)
  BY <1>6, <1>8
<1> HIDE DEF y, W, B
<1> QED BY <1>4, <1>5, <1>6, <1>7, <1>9

(* The members of S in the classes C, each class counted by its value.     *)
ByClass(S, C, w, v) == [b \in C |-> v[b] * Cardinality({x \in S : w[x] = b})]

(* The terms depend on a class: the sum is one over the classes, each      *)
(* counted as often as it occurs.                                          *)
LEMMA SumByClass ==
  ASSUME NEW S, IsFiniteSet(S), NEW C, IsFiniteSet(C), NEW w, NEW v, \A b \in C : v[b] \in Int,
         NEW f, \A x \in S : f[x] = IF w[x] \in C THEN v[w[x]] ELSE 0
  PROVE  SumOver(f, S) = SumOver(ByClass(S, C, w, v), C)
<1> USE DEF ByClass
<1> DEFINE N(T, b) == Cardinality({x \in T : w[x] = b})
           F(T) == [b \in C |-> v[b] * N(T, b)]
           B == {T \in SUBSET S : SumOver(f, T) # SumOver(F(T), C)}
<1> SUFFICES ASSUME B # {} PROVE FALSE
  OBVIOUS
<1>1. PICK T \in B : \A U \in B : U \subseteq T => U = T
  <2>1. B \subseteq SUBSET S OBVIOUS
  <2> HIDE DEF B
  <2> QED BY <2>1, MinimalSubset
<1>2. IsFiniteSet(T) /\ T \subseteq S
  BY FS_Subset
<1>n. \A U \in SUBSET T : \A b : N(U, b) \in Nat /\ IsFiniteSet({x \in U : w[x] = b})
  <2> SUFFICES ASSUME NEW U \in SUBSET T, NEW b
               PROVE  N(U, b) \in Nat /\ IsFiniteSet({x \in U : w[x] = b})
    OBVIOUS
  <2>1. IsFiniteSet({x \in U : w[x] = b})
    BY <1>2, FS_Subset
  <2> QED BY <2>1, FS_CardinalityType
<1>i. \A U \in SUBSET T, b \in C : F(U)[b] \in Int
  <2> SUFFICES ASSUME NEW U \in SUBSET T, NEW b \in C PROVE v[b] * N(U, b) \in Int
    OBVIOUS
  <2>1. N(U, b) \in Nat BY <1>n
  <2> HIDE DEF N
  <2> QED BY <2>1
<1>3. T # {}
  <2> SUFFICES ASSUME T = {} PROVE FALSE OBVIOUS
  <2>1. \A b \in C : F(T)[b] = 0
    <3> SUFFICES ASSUME NEW b \in C PROVE v[b] * N(T, b) = 0 OBVIOUS
    <3>1. {x \in T : w[x] = b} = {} OBVIOUS
    <3>2. N(T, b) = 0 BY <3>1, FS_EmptySet
    <3> HIDE DEF N
    <3> QED BY <3>2
  <2>2. SumOver(F(T), C) = Cardinality(C) * 0
    <3> HIDE DEF F
    <3> QED BY <2>1, SumConst
  <2>3. Cardinality(C) \in Nat BY FS_CardinalityType
  <2>4. Cardinality(C) * 0 = 0 BY <2>3
  <2>5. SumOver(f, T) = 0 BY SumStep
  <2> QED BY <2>2, <2>4, <2>5
<1> DEFINE y == FoldPick(T)
           W == T \ {y}
<1>4. y \in T /\ SumOver(f, T) = f[y] + SumOver(f, W)
  BY <1>2, <1>3, SumStep
<1>5. SumOver(f, W) = SumOver(F(W), C)
  <2>1. W \in SUBSET S /\ W \subseteq T /\ W # T BY <1>2, <1>4
  <2> QED BY <2>1, <1>1
<1>6. SumOver(f, T) # SumOver(F(T), C)
  OBVIOUS
<1>7. \A b : b # w[y] => {x \in T : w[x] = b} = {x \in W : w[x] = b}
  OBVIOUS
<1>8. N(T, w[y]) = N(W, w[y]) + 1
  <2>1. {x \in T : w[x] = w[y]} = {x \in W : w[x] = w[y]} \cup {y}
    BY <1>4
  <2>2. IsFiniteSet({x \in W : w[x] = w[y]}) /\ y \notin {x \in W : w[x] = w[y]}
    BY <1>n
  <2> QED BY <2>1, <2>2, FS_AddElement
<1>9. f[y] = IF w[y] \in C THEN v[w[y]] ELSE 0
  BY <1>2, <1>4
<1>w. W \in SUBSET T /\ T \in SUBSET T
  OBVIOUS
<1>10. CASE w[y] \notin C
  <2>1. \A b \in C : F(T)[b] = F(W)[b]
    <3> SUFFICES ASSUME NEW b \in C PROVE F(T)[b] = F(W)[b]
      OBVIOUS
    <3>1. N(T, b) = N(W, b) BY <1>7, <1>10
    <3> HIDE DEF N, W
    <3> QED BY <3>1
  <2>2. SumOver(F(T), C) = SumOver(F(W), C)
    <3> HIDE DEF F, W
    <3> QED BY <2>1, SumEqual
  <2>3. SumOver(F(W), C) \in Int
    <3> HIDE DEF F, W
    <3> QED BY <1>i, <1>w, SumType
  <2> HIDE DEF F, W, y, B
  <2> QED BY <1>4, <1>5, <1>6, <1>9, <1>10, <2>2, <2>3
<1>11. CASE w[y] \in C
  <2>1. \A b \in C \ {w[y]} : F(W)[b] = F(T)[b]
    <3> SUFFICES ASSUME NEW b \in C \ {w[y]} PROVE F(W)[b] = F(T)[b]
      OBVIOUS
    <3>1. N(T, b) = N(W, b) BY <1>7
    <3> HIDE DEF N, W
    <3> QED BY <3>1
  <2>2. SumOver(F(T), C) = SumOver(F(W), C) - F(W)[w[y]] + F(T)[w[y]]
    <3>1. \A b \in C : F(W)[b] \in Int /\ F(T)[b] \in Int BY <1>i, <1>w
    <3> HIDE DEF F, W
    <3> QED BY <2>1, <3>1, <1>11, SumChange
  <2>3. F(T)[w[y]] = F(W)[w[y]] + v[w[y]]
    <3>1. F(T)[w[y]] = v[w[y]] * N(T, w[y]) /\ F(W)[w[y]] = v[w[y]] * N(W, w[y])
      BY <1>11
    <3>2. N(W, w[y]) \in Nat /\ v[w[y]] \in Int BY <1>n, <1>w, <1>11
    <3>3. \A a \in Int, n \in Nat : a * (n + 1) = a * n + a OBVIOUS
    <3> HIDE DEF N, F, W, y
    <3> QED BY <1>8, <3>1, <3>2, <3>3
  <2>4. SumOver(F(W), C) \in Int /\ F(W)[w[y]] \in Int /\ v[w[y]] \in Int
    <3> HIDE DEF F, W
    <3> QED BY <1>i, <1>w, <1>11, SumType
  <2> HIDE DEF F, W, y, B
  <2> QED BY <1>4, <1>5, <1>6, <1>9, <1>11, <2>2, <2>3, <2>4
<1> QED BY <1>10, <1>11

(* One of finitely many subsets is minimal among them.                     *)
LEMMA MinimalValue ==
  ASSUME NEW S, IsFiniteSet(S), S # {}, NEW f, \A x \in S : f[x] \subseteq S
  PROVE  \E x \in S : \A y \in S : f[y] \subseteq f[x] => f[y] = f[x]
<1> DEFINE B == {f[x] : x \in S}
<1>1. B \subseteq SUBSET S /\ B # {}
  OBVIOUS
<1>2. PICK T \in B : \A U \in B : U \subseteq T => U = T
  <2> HIDE DEF B
  <2> QED BY <1>1, MinimalSubset
<1> QED BY <1>2
=============================================================================
