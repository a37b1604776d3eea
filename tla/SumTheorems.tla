---------------------------- MODULE SumTheorems ----------------------------
(***************************************************************************)
(* What a sum is, and how it changes with its function and its set.        *)
(*                                                                         *)
(* The fold behind SumOf chooses a function on subsets that obeys a        *)
(* recursion.  Such a function exists (AddsExists) and is unique where it  *)
(* is defined (AddsUnique), by induction along the subsets of a finite     *)
(* set; SumStep then takes any element off, and the rest follows from it.  *)
(***************************************************************************)
EXTENDS Sums, FiniteSetTheorems, TLAPS

-----------------------------------------------------------------------------
(* The recursion                                                            *)

\* A set of subsets of a finite set is all of them when each belongs whose strict subsets do.
LEMMA SubsetInduction ==
  ASSUME NEW S, IsFiniteSet(S), NEW G,
         \A T \in SUBSET S : (\A U \in SUBSET T : U # T => U \in G) => T \in G
  PROVE  \A T \in SUBSET S : T \in G
PROOF
  <1> DEFINE Left == {T \in SUBSET S : T \notin G}
  <1> SUFFICES ASSUME Left # {} PROVE FALSE OBVIOUS
  <1>1. IsWellFoundedOn(StrictSubsetOrdering(S), FiniteSubsetsOf(S))
    BY FS_StrictSubsetOrderingWellFounded
  <1>2. Left \subseteq FiniteSubsetsOf(S) BY FS_FiniteSubsetsOfFinite
  <1>3. PICK T \in Left : \A U \in Left : <<U, T>> \notin StrictSubsetOrdering(S)
    <2> HIDE DEF Left
    <2> QED BY <1>1, <1>2, WFMin
  <1>4. \A U \in SUBSET T : U # T => U \in G BY <1>3 DEF StrictSubsetOrdering
  <1> QED BY <1>3, <1>4

\* The element a sum takes off a set first.
First(s) == CHOOSE x \in s : TRUE

\* What the recursion of SumOf asks of a function on subsets.
Adds(f, S, sum) ==
  sum = [s \in SUBSET S |-> IF s = {} THEN 0 ELSE f[First(s)] + sum[s \ {First(s)}]]

LEMMA SumIs ==
  ASSUME NEW f, NEW S
  PROVE  SumOf(f, S) = (CHOOSE sum : Adds(f, S, sum))[S]
PROOF BY DEF SumOf, MapThenSumSet, MapThenFoldSet, Adds, First

LEMMA AddsAt ==
  ASSUME NEW f, NEW S, NEW g, Adds(f, S, g), NEW s \in SUBSET S
  PROVE  g[s] = IF s = {} THEN 0 ELSE f[First(s)] + g[s \ {First(s)}]
PROOF
  <1> DEFINE r == [u \in SUBSET S |-> IF u = {} THEN 0 ELSE f[First(u)] + g[u \ {First(u)}]]
  <1>1. g = r BY DEF Adds
  <1>2. r[s] = IF s = {} THEN 0 ELSE f[First(s)] + g[s \ {First(s)}] OBVIOUS
  <1> HIDE DEF r
  <1> QED BY <1>1, <1>2

LEMMA FirstIn == ASSUME NEW s, s # {} PROVE First(s) \in s
PROOF BY DEF First

\* Two functions that obey the recursion agree where both are defined.
LEMMA AddsUnique ==
  ASSUME NEW f, NEW S, NEW T \in SUBSET S, IsFiniteSet(T), NEW g, NEW h,
         Adds(f, S, g), Adds(f, T, h)
  PROVE  g[T] = h[T]
PROOF
  <1> DEFINE G == {U \in SUBSET T : g[U] = h[U]}
  <1>1. ASSUME NEW U \in SUBSET T, \A V \in SUBSET U : V # U => V \in G
        PROVE  U \in G
    <2>1. CASE U = {} BY <2>1, AddsAt
    <2>2. CASE U # {}
      <3>1. U \ {First(U)} \in G BY <1>1, <2>2, FirstIn
      <3>2. g[U] = f[First(U)] + g[U \ {First(U)}] BY <2>2, AddsAt
      <3>3. h[U] = f[First(U)] + h[U \ {First(U)}] BY <2>2, AddsAt
      <3> QED BY <3>1, <3>2, <3>3
    <2> QED BY <2>1, <2>2
  <1> HIDE DEF G
  <1>2. T \in G BY <1>1, SubsetInduction
  <1> QED BY <1>2 DEF G

\* Over a finite set some function obeys the recursion.
LEMMA AddsExists ==
  ASSUME NEW f, NEW S, IsFiniteSet(S)
  PROVE  \E g : Adds(f, S, g)
PROOF
  <1> DEFINE G == {U \in SUBSET S : \E g : Adds(f, U, g)}
  <1>1. ASSUME NEW T \in SUBSET S, \A U \in SUBSET T : U # T => U \in G
        PROVE  T \in G
    <2> DEFINE Rest(s) == s \ {First(s)}
               r == [s \in SUBSET T |-> IF s = {} THEN 0 ELSE f[First(s)] + SumOf(f, Rest(s))]
    <2>1. ASSUME NEW u \in SUBSET T, u # T PROVE SumOf(f, u) = r[u]
      <3> DEFINE g == CHOOSE sum : Adds(f, u, sum)
      <3>1. Adds(f, u, g) BY <1>1, <2>1
      <3>2. SumOf(f, u) = g[u] BY SumIs
      <3>3. CASE u = {}
        <4>1. g[u] = 0 BY <3>1, <3>3, AddsAt
        <4> QED BY <3>2, <3>3, <4>1
      <3>4. CASE u # {}
        <4> DEFINE v == Rest(u)
                   h == CHOOSE sum : Adds(f, v, sum)
        <4>1. v \in SUBSET u /\ v # T BY <2>1, <3>4, FirstIn
        <4>2. Adds(f, v, h) BY <1>1, <4>1
        <4>3. SumOf(f, v) = h[v] BY SumIs
        <4>4. IsFiniteSet(v) BY <4>1, FS_Subset
        <4>5. g[u] = f[First(u)] + g[v]
          <5> HIDE DEF g
          <5> QED BY <3>1, <3>4, AddsAt
        <4>6. g[v] = h[v]
          <5> HIDE DEF g, h, v
          <5> QED BY <3>1, <4>1, <4>2, <4>4, AddsUnique
        <4>7. r[u] = f[First(u)] + SumOf(f, v) BY <3>4
        <4> HIDE DEF g, h, v, r
        <4> QED BY <3>2, <4>3, <4>5, <4>6, <4>7
      <3> QED BY <3>3, <3>4
    <2>2. Adds(f, T, r)
      <3>1. ASSUME NEW s \in SUBSET T, s # {} PROVE SumOf(f, Rest(s)) = r[Rest(s)]
        <4>1. Rest(s) \in SUBSET T /\ Rest(s) # T BY <3>1, FirstIn
        <4> HIDE DEF r, Rest
        <4> QED BY <2>1, <4>1
      <3>2. ASSUME NEW s \in SUBSET T
            PROVE  (IF s = {} THEN 0 ELSE f[First(s)] + SumOf(f, Rest(s)))
                     = (IF s = {} THEN 0 ELSE f[First(s)] + r[Rest(s)])
        <4> HIDE DEF r, Rest
        <4> QED BY <3>1
      <3>3. r = [s \in SUBSET T |-> IF s = {} THEN 0 ELSE f[First(s)] + r[Rest(s)]]
        <4> DEFINE L(s) == IF s = {} THEN 0 ELSE f[First(s)] + SumOf(f, Rest(s))
                   R(s) == IF s = {} THEN 0 ELSE f[First(s)] + r[Rest(s)]
        <4>1. \A s \in SUBSET T : L(s) = R(s) BY <3>2
        <4>2. r = [s \in SUBSET T |-> L(s)] OBVIOUS
        <4>3. [s \in SUBSET T |-> L(s)] = [s \in SUBSET T |-> R(s)]
          <5> HIDE DEF L, R
          <5> QED BY <4>1
        <4> QED BY <4>2, <4>3
      <3> HIDE DEF r
      <3> QED BY <3>3 DEF Adds
    <2> HIDE DEF r
    <2> QED BY <2>2
  <1> HIDE DEF G
  <1>2. S \in G BY <1>1, SubsetInduction
  <1> QED BY <1>2 DEF G

-----------------------------------------------------------------------------
(* Sums over finite sets                                                    *)

\* The sum of a finite set is its recursion.
LEMMA SumStep ==
  ASSUME NEW f, NEW S, IsFiniteSet(S)
  PROVE  SumOf(f, S) = IF S = {} THEN 0 ELSE f[First(S)] + SumOf(f, S \ {First(S)})
PROOF
  <1> DEFINE g == CHOOSE sum : Adds(f, S, sum)
             R == S \ {First(S)}
             h == CHOOSE sum : Adds(f, R, sum)
  <1>1. Adds(f, S, g) BY AddsExists
  <1>2. SumOf(f, S) = g[S] /\ SumOf(f, R) = h[R] BY SumIs
  <1>3. IsFiniteSet(R) /\ R \in SUBSET S BY FS_Subset
  <1>4. Adds(f, R, h) BY <1>3, AddsExists
  <1> HIDE DEF g, h
  <1>5. g[S] = IF S = {} THEN 0 ELSE f[First(S)] + g[R] BY <1>1, AddsAt
  <1>6. g[R] = h[R] 
    <2> HIDE DEF R
    <2> QED BY <1>1, <1>3, <1>4, AddsUnique
  <1> QED BY <1>2, <1>5, <1>6

LEMMA SumType ==
  ASSUME NEW S, IsFiniteSet(S), NEW f, \A x \in S : f[x] \in Int
  PROVE  SumOf(f, S) \in Int
PROOF
  <1> DEFINE G == {T \in SUBSET S : SumOf(f, T) \in Int}
  <1>1. ASSUME NEW T \in SUBSET S, \A U \in SUBSET T : U # T => U \in G
        PROVE  T \in G
    <2>1. IsFiniteSet(T) BY FS_Subset
    <2>2. T # {} => First(T) \in S /\ T \ {First(T)} \in G BY <1>1, FirstIn
    <2> QED BY <2>1, <2>2, SumStep
  <1> HIDE DEF G
  <1>2. S \in G BY <1>1, SubsetInduction
  <1> QED BY <1>2 DEF G

\* Any element may be taken off first.
LEMMA SumRemove ==
  ASSUME NEW S, IsFiniteSet(S), NEW f, \A x \in S : f[x] \in Int, NEW x \in S
  PROVE  SumOf(f, S) = f[x] + SumOf(f, S \ {x})
PROOF
  <1> DEFINE G == {T \in SUBSET S : \A y \in T : SumOf(f, T) = f[y] + SumOf(f, T \ {y})}
  <1>1. ASSUME NEW T \in SUBSET S, \A U \in SUBSET T : U # T => U \in G
        PROVE  T \in G
    <2> SUFFICES ASSUME NEW y \in T PROVE SumOf(f, T) = f[y] + SumOf(f, T \ {y})
      OBVIOUS
    <2> DEFINE c == First(T)
    <2>1. c \in T BY FirstIn
    <2>2. SumOf(f, T) = f[c] + SumOf(f, T \ {c}) BY SumStep, FS_Subset
    <2> HIDE DEF c
    <2>3. CASE y # c
      <3>1. T \ {c} \in G /\ T \ {y} \in G BY <1>1, <2>1
      <3>2. SumOf(f, T \ {c}) = f[y] + SumOf(f, (T \ {c}) \ {y}) BY <2>3, <3>1
      <3>3. SumOf(f, T \ {y}) = f[c] + SumOf(f, (T \ {y}) \ {c}) BY <2>1, <2>3, <3>1
      <3>4. (T \ {c}) \ {y} = (T \ {y}) \ {c} OBVIOUS
      <3>5. SumOf(f, (T \ {y}) \ {c}) \in Int
        <4>1. IsFiniteSet((T \ {y}) \ {c}) BY FS_Subset
        <4> QED BY <4>1, SumType
      <3>6. f[c] \in Int /\ f[y] \in Int BY <2>1
      <3>7. SumOf(f, T) = f[c] + (f[y] + SumOf(f, (T \ {y}) \ {c})) BY <2>2, <3>2, <3>4
      <3> QED BY <3>3, <3>5, <3>6, <3>7
    <2> QED BY <2>2, <2>3
  <1> HIDE DEF G
  <1>2. S \in G BY <1>1, SubsetInduction
  <1> QED BY <1>2 DEF G

\* Functions that agree on a set have the same sum.
LEMMA SumAgrees ==
  ASSUME NEW S, IsFiniteSet(S), NEW f, NEW g, \A x \in S : f[x] = g[x]
  PROVE  SumOf(f, S) = SumOf(g, S)
PROOF
  <1> DEFINE G == {T \in SUBSET S : SumOf(f, T) = SumOf(g, T)}
  <1>1. ASSUME NEW T \in SUBSET S, \A U \in SUBSET T : U # T => U \in G
        PROVE  T \in G
    <2>1. IsFiniteSet(T) BY FS_Subset
    <2>2. T # {} => First(T) \in S /\ T \ {First(T)} \in G BY <1>1, FirstIn
    <2> QED BY <2>1, <2>2, SumStep
  <1> HIDE DEF G
  <1>2. S \in G BY <1>1, SubsetInduction
  <1> QED BY <1>2 DEF G

\* Changing one term changes the sum by as much.
LEMMA SumChange ==
  ASSUME NEW S, IsFiniteSet(S), NEW f, NEW g, \A y \in S : f[y] \in Int /\ g[y] \in Int,
         NEW x \in S, \A y \in S \ {x} : f[y] = g[y]
  PROVE  SumOf(g, S) = SumOf(f, S) - f[x] + g[x]
PROOF
  <1> DEFINE R == S \ {x}
  <1>1. IsFiniteSet(R) BY FS_Subset
  <1>2. SumOf(f, R) = SumOf(g, R) BY <1>1, SumAgrees
  <1>3. SumOf(f, R) \in Int BY <1>1, SumType
  <1>4. SumOf(f, S) = f[x] + SumOf(f, R) /\ SumOf(g, S) = g[x] + SumOf(g, R) BY SumRemove
  <1>5. f[x] \in Int /\ g[x] \in Int OBVIOUS
  <1> HIDE DEF R
  <1> QED BY <1>2, <1>3, <1>4, <1>5

\* A sum of natural numbers is one, and at least each of them.
LEMMA SumBounds ==
  ASSUME NEW S, IsFiniteSet(S), NEW f, \A x \in S : f[x] \in Nat
  PROVE  SumOf(f, S) \in Nat /\ \A x \in S : f[x] <= SumOf(f, S)
PROOF
  <1> DEFINE G == {T \in SUBSET S : SumOf(f, T) \in Nat}
  <1>1. ASSUME NEW T \in SUBSET S, \A U \in SUBSET T : U # T => U \in G
        PROVE  T \in G
    <2>1. IsFiniteSet(T) BY FS_Subset
    <2>2. T # {} => f[First(T)] \in Nat /\ SumOf(f, T \ {First(T)}) \in Nat BY <1>1, FirstIn
    <2>3. SumOf(f, T) \in Nat BY <2>1, <2>2, SumStep
    <2> QED BY <2>3
  <1>2. \A T \in SUBSET S : T \in G
    <2> HIDE DEF G
    <2> QED BY <1>1, SubsetInduction
  <1>3. ASSUME NEW x \in S PROVE f[x] <= SumOf(f, S)
    <2>1. SumOf(f, S) = f[x] + SumOf(f, S \ {x}) BY SumRemove
    <2>2. SumOf(f, S \ {x}) \in Nat BY <1>2
    <2> QED BY <2>1, <2>2
  <1> QED BY <1>2, <1>3

LEMMA SumZero ==
  ASSUME NEW S, IsFiniteSet(S)
  PROVE  SumOf([x \in S |-> 0], S) = 0
PROOF
  <1> DEFINE f == [x \in S |-> 0]
             G == {T \in SUBSET S : SumOf(f, T) = 0}
  <1>0. \A x \in S : f[x] = 0 OBVIOUS
  <1> HIDE DEF f
  <1>1. ASSUME NEW T \in SUBSET S, \A U \in SUBSET T : U # T => U \in G
        PROVE  T \in G
    <2>1. IsFiniteSet(T) BY FS_Subset
    <2>2. T # {} => f[First(T)] = 0 /\ SumOf(f, T \ {First(T)}) = 0 BY <1>0, <1>1, FirstIn
    <2>3. SumOf(f, T) = 0 BY <2>1, <2>2, SumStep
    <2> QED BY <2>3
  <1> HIDE DEF G
  <1>2. S \in G BY <1>1, SubsetInduction
  <1> QED BY <1>2 DEF G, f

\* The sum of two functions' sums.
LEMMA SumAdd ==
  ASSUME NEW S, IsFiniteSet(S), NEW f, NEW g, NEW h,
         \A x \in S : g[x] \in Int /\ h[x] \in Int /\ f[x] = g[x] + h[x]
  PROVE  SumOf(f, S) = SumOf(g, S) + SumOf(h, S)
PROOF
  <1> DEFINE G == {T \in SUBSET S : SumOf(f, T) = SumOf(g, T) + SumOf(h, T)}
  <1>1. ASSUME NEW T \in SUBSET S, \A U \in SUBSET T : U # T => U \in G
        PROVE  T \in G
    <2> DEFINE x == First(T)
               R == T \ {x}
    <2>1. IsFiniteSet(T) /\ IsFiniteSet(R) BY FS_Subset
    <2>2. CASE T = {}
      <3>1. SumOf(f, T) = 0 /\ SumOf(g, T) = 0 /\ SumOf(h, T) = 0 BY <2>1, <2>2, SumStep
      <3>2. 0 = 0 + 0 OBVIOUS
      <3> QED BY <3>1, <3>2
    <2>3. CASE T # {}
      <3>1. x \in S /\ R \in G BY <1>1, <2>3, FirstIn
      <3>2. g[x] \in Int /\ h[x] \in Int /\ f[x] = g[x] + h[x] BY <3>1
      <3>3. SumOf(g, R) \in Int /\ SumOf(h, R) \in Int BY <2>1, SumType
      <3>4. /\ SumOf(f, T) = f[x] + SumOf(f, R)
            /\ SumOf(g, T) = g[x] + SumOf(g, R)
            /\ SumOf(h, T) = h[x] + SumOf(h, R)
        BY <2>1, <2>3, SumStep
      <3>5. SumOf(f, R) = SumOf(g, R) + SumOf(h, R) BY <3>1
      <3> HIDE DEF x, R, G
      <3>6. SumOf(f, T) = SumOf(g, T) + SumOf(h, T) BY <3>2, <3>3, <3>4, <3>5
      <3> QED BY <3>6 DEF G
    <2> QED BY <2>2, <2>3
  <1> HIDE DEF G
  <1>2. S \in G BY <1>1, SubsetInduction
  <1> QED BY <1>2 DEF G
=============================================================================
