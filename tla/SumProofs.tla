----------------------------- MODULE SumProofs ------------------------------
(***************************************************************************)
(* Sums of finite functions.  FoldFunction adds the values in the order a  *)
(* CHOOSE picks them; these lemmas say that the order does not matter, and *)
(* how a sum moves with the function and the set it is taken over.         *)
(*                                                                         *)
(* The induction over the sets is by a smallest counterexample.            *)
(***************************************************************************)
EXTENDS Integers, Functions, FiniteSetTheorems, WellFoundedInduction, TLAPS

\* The sum of the values of f over S.
SumOver(f, S) == FoldFunctionOnSet(+, 0, f, S)

\* The element a fold takes first.
Pick(s) == CHOOSE x \in s : TRUE

\* The recursion of a fold over the subsets of S.
Adds(f, g, S) == g = [s \in SUBSET S |-> IF s = {} THEN 0 ELSE f[Pick(s)] + g[s \ {Pick(s)}]]

\* A sum is what the recursion gives.
LEMMA SumOverIs == \A f, S : SumOver(f, S) = (CHOOSE g : Adds(f, g, S))[S]
  BY DEF SumOver, FoldFunctionOnSet, MapThenFoldSet, Adds, Pick

\* What is picked is of the set.
LEMMA PickIn == \A s : s # {} => Pick(s) \in s
  BY DEF Pick

\* What holds of a finite set if it holds of all smaller ones, holds of every subset.
LEMMA SubsetInduction ==
    ASSUME NEW S, IsFiniteSet(S), NEW B,
           \A T \in SUBSET S : (\A U \in SUBSET T : U # T => U \in B) => T \in B
    PROVE  \A T \in SUBSET S : T \in B
  <1> DEFINE Bad == {T \in SUBSET S : T \notin B}
             R == StrictSubsetOrdering(S)
  <1>1. IsWellFoundedOn(R, SUBSET S)
    BY FS_StrictSubsetOrderingWellFounded, FS_FiniteSubsetsOfFinite
  <1>2. SUFFICES ASSUME Bad # {} PROVE FALSE
    OBVIOUS
  <1>3. PICK T \in Bad : \A U \in Bad : ~ (<<U, T>> \in R)
    <2>1. Bad \subseteq SUBSET S
      OBVIOUS
    <2> HIDE DEF R, Bad
    <2>2. \E T \in Bad : \A U \in Bad : ~ (<<U, T>> \in R)
      BY <1>1, <1>2, <2>1, WFMin
    <2> QED  BY <2>2
  <1>4. T \in SUBSET S /\ T \notin B
    OBVIOUS
  <1>5. ASSUME NEW U \in SUBSET T, U # T PROVE U \in B
    BY <1>3, <1>4, <1>5 DEF StrictSubsetOrdering
  <1> QED  BY <1>4, <1>5

\* The same, one element at a time, in the order a fold takes them.
LEMMA PickInduction ==
    ASSUME NEW S, IsFiniteSet(S), NEW B,
           \A T \in SUBSET S : T = {} \/ T \ {Pick(T)} \in B => T \in B
    PROVE  \A T \in SUBSET S : T \in B
  <1>1. ASSUME NEW T \in SUBSET S, \A U \in SUBSET T : U # T => U \in B PROVE T \in B
    <2>1. T # {} => T \ {Pick(T)} \in SUBSET T /\ T \ {Pick(T)} # T
      BY PickIn
    <2> QED  BY <1>1, <2>1
  <1> QED  BY <1>1, SubsetInduction

\* The recursion, unfolded once.
LEMMA AddsSays ==
    ASSUME NEW f, NEW g, NEW S, Adds(f, g, S)
    PROVE  g[S] = IF S = {} THEN 0 ELSE f[Pick(S)] + g[S \ {Pick(S)}]
  BY DEF Adds

\* The recursion has one solution, whatever the set it is of.
LEMMA AddsOnce ==
    ASSUME NEW f, NEW S, NEW T, NEW g, NEW h, Adds(f, g, S), Adds(f, h, T),
           NEW U, IsFiniteSet(U), U \subseteq S, U \subseteq T
    PROVE  g[U] = h[U]
  <1> DEFINE B == {V \in SUBSET U : g[V] = h[V]}
  <1>1. ASSUME NEW V \in SUBSET U, V = {} \/ V \ {Pick(V)} \in B PROVE V \in B
    <2>1. /\ g[V] = IF V = {} THEN 0 ELSE f[Pick(V)] + g[V \ {Pick(V)}]
          /\ h[V] = IF V = {} THEN 0 ELSE f[Pick(V)] + h[V \ {Pick(V)}]
      BY DEF Adds
    <2> QED  BY <1>1, <2>1
  <1>2. \A V \in SUBSET U : V \in B
    <2> HIDE DEF B
    <2> QED  BY <1>1, PickInduction
  <1> QED  BY <1>2

\* And it has one.
LEMMA AddsExists ==
    ASSUME NEW f, NEW S, IsFiniteSet(S)
    PROVE  \E g : Adds(f, g, S)
  <1> DEFINE B == {T \in SUBSET S : \E g : Adds(f, g, T)}
             H(U) == CHOOSE g : Adds(f, g, U)
  <1>1. ASSUME NEW T \in SUBSET S, \A U \in SUBSET T : U # T => U \in B PROVE T \in B
    <2> DEFINE g == [s \in SUBSET T |-> IF s = {} THEN 0 ELSE f[Pick(s)] + H(s \ {Pick(s)})[s \ {Pick(s)}]]
    <2>1. ASSUME NEW U \in SUBSET T, U # T PROVE Adds(f, H(U), U)
      BY <1>1, <2>1
    <2>2. ASSUME NEW U \in SUBSET T, U # T PROVE H(U)[U] = g[U]
      <3>1. H(U)[U] = IF U = {} THEN 0 ELSE f[Pick(U)] + H(U)[U \ {Pick(U)}]
        <4>1. Adds(f, H(U), U)
          BY <2>1, <2>2
        <4> HIDE DEF H
        <4> QED  BY <4>1, AddsSays
      <3>2. g[U] = IF U = {} THEN 0 ELSE f[Pick(U)] + H(U \ {Pick(U)})[U \ {Pick(U)}]
        OBVIOUS
      <3>3. U # {} => H(U)[U \ {Pick(U)}] = H(U \ {Pick(U)})[U \ {Pick(U)}]
        <4> DEFINE V == U \ {Pick(U)}
        <4> SUFFICES ASSUME U # {} PROVE H(U)[V] = H(V)[V]
          OBVIOUS
        <4>1. V \in SUBSET T /\ V # T /\ V \subseteq U /\ IsFiniteSet(V)
          BY PickIn, FS_Subset
        <4>2. Adds(f, H(U), U) /\ Adds(f, H(V), V)
          BY <2>1, <2>2, <4>1
        <4> HIDE DEF V, H
        <4> QED  BY <4>1, <4>2, AddsOnce
      <3> QED  BY <3>1, <3>2, <3>3
    <2>3. ASSUME NEW s \in SUBSET T, s # {}
          PROVE  H(s \ {Pick(s)})[s \ {Pick(s)}] = g[s \ {Pick(s)}]
      <3>1. s \ {Pick(s)} \in SUBSET T /\ s \ {Pick(s)} # T
        BY <2>3, PickIn
      <3> HIDE DEF g, H
      <3> QED  BY <2>2, <3>1
    <2>4. Adds(f, g, T)
      <3>1. \A s \in SUBSET T :
               g[s] = IF s = {} THEN 0 ELSE f[Pick(s)] + H(s \ {Pick(s)})[s \ {Pick(s)}]
        OBVIOUS
      <3>2. \A s \in SUBSET T :
               g[s] = IF s = {} THEN 0 ELSE f[Pick(s)] + g[s \ {Pick(s)}]
        <4> HIDE DEF g, H
        <4> QED  BY <2>3, <3>1
      <3>3. g = [s \in SUBSET T |-> g[s]]
        OBVIOUS
      <3> HIDE DEF g
      <3>4. [s \in SUBSET T |-> g[s]] = [s \in SUBSET T |-> IF s = {} THEN 0 ELSE f[Pick(s)] + g[s \ {Pick(s)}]]
        BY <3>2
      <3> QED  BY <3>3, <3>4 DEF Adds
    <2> QED  BY <2>4
  <1>2. \A T \in SUBSET S : T \in B
    <2> HIDE DEF B
    <2> QED  BY <1>1, SubsetInduction
  <1> QED  BY <1>2

\* A sum over no element is zero; over more, it is the value of the one picked and the rest.
LEMMA SumPicks ==
    ASSUME NEW f, NEW S, IsFiniteSet(S)
    PROVE  SumOver(f, S) = IF S = {} THEN 0 ELSE f[Pick(S)] + SumOver(f, S \ {Pick(S)})
  <1> DEFINE T == S \ {Pick(S)}
             H(U) == CHOOSE g : Adds(f, g, U)
  <1>1. IsFiniteSet(T) /\ T \in SUBSET S
    BY FS_Subset
  <1>2. Adds(f, H(S), S) /\ Adds(f, H(T), T)
    BY <1>1, AddsExists
  <1>3. SumOver(f, S) = H(S)[S] /\ SumOver(f, T) = H(T)[T]
    BY SumOverIs
  <1>4. H(S)[S] = IF S = {} THEN 0 ELSE f[Pick(S)] + H(S)[T]
    BY <1>2 DEF Adds
  <1>5. H(S)[T] = H(T)[T]
    <2> HIDE DEF H, T
    <2> QED  BY <1>1, <1>2, AddsOnce
  <1> QED  BY <1>3, <1>4, <1>5

\* A sum over no element.
LEMMA SumEmpty == \A f : SumOver(f, {}) = 0
  BY SumPicks, FS_EmptySet

\* Sums of integers are integers.
LEMMA SumInt ==
    ASSUME NEW f, NEW S, IsFiniteSet(S), \A x \in S : f[x] \in Int
    PROVE  \A T \in SUBSET S : SumOver(f, T) \in Int
  <1> DEFINE B == {T \in SUBSET S : SumOver(f, T) \in Int}
  <1>1. ASSUME NEW T \in SUBSET S, T = {} \/ T \ {Pick(T)} \in B PROVE T \in B
    <2>1. SumOver(f, T) = IF T = {} THEN 0 ELSE f[Pick(T)] + SumOver(f, T \ {Pick(T)})
      BY SumPicks, FS_Subset
    <2> QED  BY <1>1, <2>1, PickIn
  <1>2. \A T \in SUBSET S : T \in B
    <2> HIDE DEF B
    <2> QED  BY <1>1, PickInduction
  <1> QED  BY <1>2

\* And those of natural numbers, natural numbers.
LEMMA SumNat ==
    ASSUME NEW f, NEW S, IsFiniteSet(S), \A x \in S : f[x] \in Nat
    PROVE  SumOver(f, S) \in Nat
  <1> DEFINE B == {T \in SUBSET S : SumOver(f, T) \in Nat}
  <1>1. ASSUME NEW T \in SUBSET S, T = {} \/ T \ {Pick(T)} \in B PROVE T \in B
    <2>1. SumOver(f, T) = IF T = {} THEN 0 ELSE f[Pick(T)] + SumOver(f, T \ {Pick(T)})
      BY SumPicks, FS_Subset
    <2> QED  BY <1>1, <2>1, PickIn
  <1>2. \A T \in SUBSET S : T \in B
    <2> HIDE DEF B
    <2> QED  BY <1>1, PickInduction
  <1> QED  BY <1>2

\* A sum depends only on the values.
LEMMA SumSame ==
    ASSUME NEW f, NEW g, NEW S, IsFiniteSet(S), \A x \in S : f[x] = g[x]
    PROVE  SumOver(f, S) = SumOver(g, S)
  <1> DEFINE B == {T \in SUBSET S : SumOver(f, T) = SumOver(g, T)}
  <1>1. ASSUME NEW T \in SUBSET S, T = {} \/ T \ {Pick(T)} \in B PROVE T \in B
    <2>1. /\ SumOver(f, T) = IF T = {} THEN 0 ELSE f[Pick(T)] + SumOver(f, T \ {Pick(T)})
          /\ SumOver(g, T) = IF T = {} THEN 0 ELSE g[Pick(T)] + SumOver(g, T \ {Pick(T)})
      BY SumPicks, FS_Subset
    <2> QED  BY <1>1, <2>1, PickIn
  <1>2. \A T \in SUBSET S : T \in B
    <2> HIDE DEF B
    <2> QED  BY <1>1, PickInduction
  <1> QED  BY <1>2

\* Any element may be taken first.
LEMMA SumTake ==
    ASSUME NEW f, NEW S, IsFiniteSet(S), \A x \in S : f[x] \in Int, NEW x \in S
    PROVE  SumOver(f, S) = f[x] + SumOver(f, S \ {x})
  <1> DEFINE B == {T \in SUBSET S : \A y \in T : SumOver(f, T) = f[y] + SumOver(f, T \ {y})}
  <1>1. ASSUME NEW T \in SUBSET S, \A U \in SUBSET T : U # T => U \in B PROVE T \in B
    <2>1. SUFFICES ASSUME NEW y \in T PROVE SumOver(f, T) = f[y] + SumOver(f, T \ {y})
      OBVIOUS
    <2> DEFINE p == Pick(T)
    <2>2. SumOver(f, T) = f[p] + SumOver(f, T \ {p}) /\ p \in T
      BY SumPicks, FS_Subset, PickIn
    <2>3. CASE y # p
      <3>1. /\ T \ {p} \in SUBSET T /\ T \ {p} # T /\ y \in T \ {p}
            /\ T \ {y} \in SUBSET T /\ T \ {y} # T /\ p \in T \ {y}
            /\ (T \ {p}) \ {y} = (T \ {y}) \ {p}
        BY <2>2, <2>3
      <3>2. SumOver(f, T \ {p}) = f[y] + SumOver(f, (T \ {p}) \ {y})
        BY <1>1, <3>1
      <3>3. SumOver(f, T \ {y}) = f[p] + SumOver(f, (T \ {y}) \ {p})
        BY <1>1, <3>1
      <3>4. SumOver(f, (T \ {p}) \ {y}) \in Int /\ f[p] \in Int /\ f[y] \in Int
        BY <2>2, SumInt
      <3>5. SumOver(f, (T \ {p}) \ {y}) = SumOver(f, (T \ {y}) \ {p})
        <4> DEFINE U == (T \ {p}) \ {y}
                   V == (T \ {y}) \ {p}
        <4>1. U = V
          OBVIOUS
        <4> HIDE DEF U, V
        <4>2. SumOver(f, U) = SumOver(f, V)
          BY <4>1
        <4> QED  BY <4>2 DEF U, V
      <3> HIDE DEF p
      <3> QED  BY <2>2, <3>2, <3>3, <3>4, <3>5
    <2> QED  BY <2>2, <2>3
  <1>2. \A T \in SUBSET S : T \in B
    <2> HIDE DEF B
    <2> QED  BY <1>1, SubsetInduction
  <1> QED  BY <1>2

\* One element more.
LEMMA SumMore ==
    ASSUME NEW f, NEW S, IsFiniteSet(S), \A x \in S : f[x] \in Int, NEW y, y \notin S, f[y] \in Int
    PROVE  SumOver(f, S \cup {y}) = f[y] + SumOver(f, S)
  <1>1. IsFiniteSet(S \cup {y}) /\ (S \cup {y}) \ {y} = S
    BY FS_AddElement
  <1> QED  BY <1>1, SumTake

\* One value changes.
LEMMA SumPoint ==
    ASSUME NEW f, NEW g, NEW S, IsFiniteSet(S), NEW y \in S,
           \A x \in S : f[x] \in Int /\ g[x] \in Int, \A x \in S \ {y} : f[x] = g[x]
    PROVE  SumOver(g, S) = SumOver(f, S) + g[y] - f[y]
  <1>1. IsFiniteSet(S \ {y})
    BY FS_Subset
  <1>2. SumOver(f, S \ {y}) = SumOver(g, S \ {y})
    BY <1>1, SumSame
  <1>3. SumOver(f, S) = f[y] + SumOver(f, S \ {y})
    BY SumTake
  <1>4. SumOver(g, S) = g[y] + SumOver(g, S \ {y})
    BY SumTake
  <1>5. SumOver(f, S \ {y}) \in Int
    BY SumInt
  <1> QED  BY <1>2, <1>3, <1>4, <1>5

\* Sums add up.
LEMMA SumPlus ==
    ASSUME NEW f, NEW g, NEW h, NEW S, IsFiniteSet(S),
           \A x \in S : f[x] \in Int /\ g[x] \in Int /\ h[x] = f[x] + g[x]
    PROVE  SumOver(h, S) = SumOver(f, S) + SumOver(g, S)
  <1> DEFINE B == {T \in SUBSET S : SumOver(h, T) = SumOver(f, T) + SumOver(g, T)}
  <1>1. ASSUME NEW T \in SUBSET S, T = {} \/ T \ {Pick(T)} \in B PROVE T \in B
    <2>1. /\ SumOver(f, T) = IF T = {} THEN 0 ELSE f[Pick(T)] + SumOver(f, T \ {Pick(T)})
          /\ SumOver(g, T) = IF T = {} THEN 0 ELSE g[Pick(T)] + SumOver(g, T \ {Pick(T)})
          /\ SumOver(h, T) = IF T = {} THEN 0 ELSE h[Pick(T)] + SumOver(h, T \ {Pick(T)})
      BY SumPicks, FS_Subset
    <2>2. CASE T = {}
      BY <2>1, <2>2
    <2>3. CASE T # {}
      <3>1. SumOver(f, T \ {Pick(T)}) \in Int /\ SumOver(g, T \ {Pick(T)}) \in Int
        BY SumInt
      <3>2. Pick(T) \in S
        BY <2>3, PickIn
      <3> QED  BY <1>1, <2>1, <2>3, <3>1, <3>2
    <2> QED  BY <2>2, <2>3
  <1>2. \A T \in SUBSET S : T \in B
    <2> HIDE DEF B
    <2> QED  BY <1>1, PickInduction
  <1> QED  BY <1>2

\* Two sets that share nothing.
LEMMA SumUnion ==
    ASSUME NEW f, NEW S, NEW R, IsFiniteSet(S), IsFiniteSet(R), S \cap R = {},
           \A x \in S \cup R : f[x] \in Int
    PROVE  SumOver(f, S \cup R) = SumOver(f, S) + SumOver(f, R)
  <1> DEFINE B == {T \in SUBSET S : SumOver(f, T \cup R) = SumOver(f, T) + SumOver(f, R)}
  <1>0. IsFiniteSet(S \cup R)
    BY FS_Union
  <1>1. ASSUME NEW T \in SUBSET S, T = {} \/ T \ {Pick(T)} \in B PROVE T \in B
    <2>1. SumOver(f, R) \in Int /\ SumOver(f, T \cup R) \in Int /\ SumOver(f, T) \in Int
          /\ SumOver(f, T \ {Pick(T)}) \in Int
      BY <1>0, SumInt
    <2>2. CASE T = {}
      <3>1. T \cup R = R
        BY <2>2
      <3> QED  BY <2>1, <2>2, <3>1, SumEmpty
    <2>3. CASE T # {}
      <3>1. Pick(T) \in T /\ (T \cup R) \ {Pick(T)} = (T \ {Pick(T)}) \cup R
        BY <2>3, PickIn
      <3>2. IsFiniteSet(T) /\ IsFiniteSet(T \cup R)
        BY <1>0, FS_Subset
      <3>3. SumOver(f, T) = f[Pick(T)] + SumOver(f, T \ {Pick(T)})
        BY <3>1, <3>2, SumTake
      <3>4. SumOver(f, T \cup R) = f[Pick(T)] + SumOver(f, (T \ {Pick(T)}) \cup R)
        BY <3>1, <3>2, SumTake
      <3> QED  BY <1>1, <2>1, <2>3, <3>1, <3>3, <3>4
    <2> QED  BY <2>2, <2>3
  <1>2. \A T \in SUBSET S : T \in B
    <2> HIDE DEF B
    <2> QED  BY <1>1, PickInduction
  <1> QED  BY <1>2

\* No value above another's, no sum above it.
LEMMA SumLeq ==
    ASSUME NEW f, NEW g, NEW S, IsFiniteSet(S),
           \A x \in S : f[x] \in Int /\ g[x] \in Int /\ f[x] <= g[x]
    PROVE  SumOver(f, S) <= SumOver(g, S)
  <1> DEFINE B == {T \in SUBSET S : SumOver(f, T) <= SumOver(g, T)}
  <1>1. ASSUME NEW T \in SUBSET S, T = {} \/ T \ {Pick(T)} \in B PROVE T \in B
    <2>1. /\ SumOver(f, T) = IF T = {} THEN 0 ELSE f[Pick(T)] + SumOver(f, T \ {Pick(T)})
          /\ SumOver(g, T) = IF T = {} THEN 0 ELSE g[Pick(T)] + SumOver(g, T \ {Pick(T)})
      BY SumPicks, FS_Subset
    <2>2. SumOver(f, T \ {Pick(T)}) \in Int /\ SumOver(g, T \ {Pick(T)}) \in Int
      BY SumInt
    <2> QED  BY <1>1, <2>1, <2>2, PickIn
  <1>2. \A T \in SUBSET S : T \in B
    <2> HIDE DEF B
    <2> QED  BY <1>1, PickInduction
  <1> QED  BY <1>2

\* All are zero.
LEMMA SumZero ==
    ASSUME NEW f, NEW S, IsFiniteSet(S), \A x \in S : f[x] = 0
    PROVE  SumOver(f, S) = 0
  <1> DEFINE B == {T \in SUBSET S : SumOver(f, T) = 0}
  <1>1. ASSUME NEW T \in SUBSET S, T = {} \/ T \ {Pick(T)} \in B PROVE T \in B
    <2>1. SumOver(f, T) = IF T = {} THEN 0 ELSE f[Pick(T)] + SumOver(f, T \ {Pick(T)})
      BY SumPicks, FS_Subset
    <2> QED  BY <1>1, <2>1, PickIn
  <1>2. \A T \in SUBSET S : T \in B
    <2> HIDE DEF B
    <2> QED  BY <1>1, PickInduction
  <1> QED  BY <1>2

\* A sum of natural numbers is no less than a part of it.
LEMMA SumSubset ==
    ASSUME NEW f, NEW S, IsFiniteSet(S), \A x \in S : f[x] \in Nat, NEW T \in SUBSET S
    PROVE  SumOver(f, T) <= SumOver(f, S)
  <1>1. IsFiniteSet(T) /\ IsFiniteSet(S \ T) /\ T \cup (S \ T) = S /\ T \cap (S \ T) = {}
    BY FS_Subset
  <1>2. SumOver(f, T \cup (S \ T)) = SumOver(f, T) + SumOver(f, S \ T)
    BY <1>1, SumUnion
  <1>3. SumOver(f, T) \in Nat /\ SumOver(f, S \ T) \in Nat
    BY <1>1, SumNat
  <1>4. SumOver(f, T \cup (S \ T)) = SumOver(f, S)
    <2> DEFINE U == T \cup (S \ T)
    <2>1. U = S
      OBVIOUS
    <2> HIDE DEF U
    <2>2. SumOver(f, U) = SumOver(f, S)
      BY <2>1
    <2> QED  BY <2>2 DEF U
  <1> QED  BY <1>2, <1>3, <1>4

\* Nor than any of its values.
LEMMA SumAtLeast ==
    ASSUME NEW f, NEW S, IsFiniteSet(S), \A x \in S : f[x] \in Nat, NEW y \in S
    PROVE  f[y] <= SumOver(f, S)
  <1>1. SumOver(f, S) = f[y] + SumOver(f, S \ {y})
    BY SumTake
  <1>2. SumOver(f, S \ {y}) \in Nat
    BY FS_Subset, SumNat
  <1> QED  BY <1>1, <1>2
=============================================================================
