-------------------------- MODULE StatisticsProofs --------------------------
(***************************************************************************)
(* The statistics implement LossyCounters, and their timelines count every *)
(* row once, for any providers, users, targets, units, timezones and bounds*)
(* on what is under way.  Both are about sums over finite sets, of which   *)
(* the lemmas come first: each is proved from a smallest counterexample.   *)
(***************************************************************************)
EXTENDS Statistics, FiniteSetTheorems, WellFoundedInduction, TLAPS

-----------------------------------------------------------------------------
(* Sums *)

(* A set of subsets of a finite set has one that contains no other. *)
LEMMA SmallestSubset ==
  ASSUME NEW S, IsFiniteSet(S), NEW X, X \subseteq SUBSET S, X # {}
  PROVE  \E T \in X : \A U \in X : U \subseteq T => U = T
<1>1. X \subseteq FiniteSubsetsOf(S)
  BY FS_FiniteSubsetsOfFinite
<1>2. \E T \in X : \A U \in X : <<U, T>> \notin StrictSubsetOrdering(S)
  BY <1>1, FS_StrictSubsetOrderingWellFounded, WFMin
<1> QED BY <1>2 DEF StrictSubsetOrdering

LEMMA SmallestNat ==
  ASSUME NEW X \in SUBSET Nat, X # {}
  PROVE  \E n \in X : \A m \in X : ~(m < n)
<1>1. \E n \in X : \A m \in X : <<m, n>> \notin OpToRel(<, Nat)
  BY NatLessThanWellFounded, WFMin
<1> QED BY <1>1 DEF OpToRel

Some(s) == CHOOSE x \in s : TRUE
Adds(g, f, D) == g = [s \in D |-> IF s = {} THEN 0 ELSE f[Some(s)] + g[s \ {Some(s)}]]

LEMMA SumUnfolded ==
  ASSUME NEW f, NEW S
  PROVE  SumFunctionOnSet(f, S) = (CHOOSE g : Adds(g, f, SUBSET S))[S]
BY DEF SumFunctionOnSet, FoldFunctionOnSet, MapThenFoldSet, Adds, Some

LEMMA SomeIsIn ==
  ASSUME NEW s, s # {}
  PROVE  Some(s) \in s
BY DEF Some

(* Such a function exists: one for the subsets of n elements makes one for *)
(* those of n + 1.                                                         *)
LEMMA AddsExists ==
  ASSUME NEW f, NEW S, IsFiniteSet(S)
  PROVE  \E g : Adds(g, f, SUBSET S)
<1> DEFINE Small(n) == {s \in SUBSET S : Cardinality(s) <= n}
           Missing == {n \in Nat : ~ \E g : Adds(g, f, Small(n))}
<1>0. \A s \in SUBSET S : IsFiniteSet(s) /\ Cardinality(s) \in Nat /\ Cardinality(s) <= Cardinality(S)
  BY FS_Subset, FS_CardinalityType
<1>1. Missing = {}
  <2> SUFFICES ASSUME Missing # {}
               PROVE  FALSE
    OBVIOUS
  <2>1. PICK n \in Missing : \A m \in Missing : ~(m < n)
    BY SmallestNat
  <2>2. CASE n = 0
    <3>1. \A s \in Small(0) : s = {}
      BY <1>0, FS_EmptySet
    <3>2. Adds([s \in Small(0) |-> 0], f, Small(0))
      BY <3>1 DEF Adds
    <3> QED BY <2>1, <2>2, <3>2
  <2>3. CASE n # 0
    <3>1. n - 1 \in Nat /\ n - 1 \notin Missing
      <4>1. n \in Nat
        OBVIOUS
      <4>2. n - 1 \in Nat /\ n - 1 < n
        BY <2>3, <4>1
      <4> HIDE DEF Missing
      <4> QED BY <2>1, <4>2
    <3>2. PICK g : Adds(g, f, Small(n - 1))
      BY <3>1
    <3> DEFINE h == [s \in Small(n) |-> IF s = {} THEN 0 ELSE f[Some(s)] + g[s \ {Some(s)}]]
    <3>3. \A s \in Small(n) \ {{}} : s \ {Some(s)} \in Small(n - 1)
      <4> SUFFICES ASSUME NEW s \in Small(n), s # {}
                   PROVE  s \ {Some(s)} \in Small(n - 1)
        OBVIOUS
      <4>1. Cardinality(s \ {Some(s)}) = Cardinality(s) - 1
        BY <1>0, SomeIsIn, FS_RemoveElement
      <4> QED BY <1>0, <4>1
    <3>4. \A s \in Small(n - 1) : h[s] = g[s]
      <4>1. Small(n - 1) \subseteq Small(n)
        BY <1>0
      <4> QED BY <3>2, <4>1 DEF Adds
    <3>5. h = [s \in Small(n) |-> IF s = {} THEN 0 ELSE f[Some(s)] + h[s \ {Some(s)}]]
      BY <3>3, <3>4
    <3> QED BY <2>1, <3>5 DEF Adds
  <2> QED BY <2>2, <2>3
<1>2. Small(Cardinality(S)) = SUBSET S
  BY <1>0
<1> QED BY <1>1, <1>2, FS_CardinalityType

(* On the subsets that two of them share they agree. *)
LEMMA AddsAgree ==
  ASSUME NEW f, NEW S, IsFiniteSet(S), NEW T \in SUBSET S, NEW g, NEW h,
         Adds(g, f, SUBSET S), Adds(h, f, SUBSET T)
  PROVE  g[T] = h[T]
<1> DEFINE Differ == {U \in SUBSET T : g[U] # h[U]}
<1> SUFFICES ASSUME Differ # {}
             PROVE  FALSE
  OBVIOUS
<1>1. IsFiniteSet(T)
  BY FS_Subset
<1>2. PICK U \in Differ : \A V \in Differ : V \subseteq U => V = U
  <2>1. Differ \subseteq SUBSET T
    OBVIOUS
  <2> HIDE DEF Differ
  <2> QED BY <1>1, <2>1, SmallestSubset
<1>3. U # {}
  BY DEF Adds
<1>4. Some(U) \in U
  BY <1>3, SomeIsIn
<1>5. g[U \ {Some(U)}] = h[U \ {Some(U)}]
  BY <1>2, <1>4
<1> QED BY <1>3, <1>5 DEF Adds

LEMMA SumOfNone ==
  ASSUME NEW f
  PROVE  SumFunctionOnSet(f, {}) = 0
<1>1. IsFiniteSet({})
  BY FS_EmptySet
<1>2. Adds(CHOOSE g : Adds(g, f, SUBSET {}), f, SUBSET {})
  BY <1>1, AddsExists
<1> QED BY <1>2, SumUnfolded DEF Adds

LEMMA SumOfSome ==
  ASSUME NEW f, NEW S, IsFiniteSet(S), S # {}
  PROVE  SumFunctionOnSet(f, S) = f[Some(S)] + SumFunctionOnSet(f, S \ {Some(S)})
<1> DEFINE T == S \ {Some(S)}
           g == CHOOSE g : Adds(g, f, SUBSET S)
           h == CHOOSE h : Adds(h, f, SUBSET T)
<1>1. IsFiniteSet(T)
  BY FS_Subset
<1>2. Adds(g, f, SUBSET S) /\ Adds(h, f, SUBSET T)
  BY <1>1, AddsExists
<1>3. SumFunctionOnSet(f, S) = g[S] /\ SumFunctionOnSet(f, T) = h[T]
  BY SumUnfolded
<1> HIDE DEF g, h, T
<1>4. g[T] = h[T]
  <2>1. T \in SUBSET S
    BY DEF T
  <2> QED BY <1>2, <2>1, AddsAgree
<1>5. g[S] = f[Some(S)] + g[T]
  BY <1>2 DEF Adds, T
<1> QED BY <1>3, <1>4, <1>5 DEF T

LEMMA SumIsInt ==
  ASSUME NEW f, NEW S, IsFiniteSet(S), \A x \in S : f[x] \in Int
  PROVE  SumFunctionOnSet(f, S) \in Int
<1> DEFINE Not == {T \in SUBSET S : SumFunctionOnSet(f, T) \notin Int}
<1> SUFFICES ASSUME Not # {}
             PROVE  FALSE
  OBVIOUS
<1>1. PICK T \in Not : \A U \in Not : U \subseteq T => U = T
  <2>1. Not \subseteq SUBSET S
    OBVIOUS
  <2> HIDE DEF Not
  <2> QED BY <2>1, SmallestSubset
<1>2. T # {}
  BY SumOfNone
<1>3. Some(T) \in T /\ IsFiniteSet(T)
  BY <1>2, SomeIsIn, FS_Subset
<1>4. SumFunctionOnSet(f, T \ {Some(T)}) \in Int
  BY <1>1, <1>3
<1> QED BY <1>2, <1>3, <1>4, SumOfSome

LEMMA SumRemoves ==
  ASSUME NEW f, NEW S, IsFiniteSet(S), \A x \in S : f[x] \in Int, NEW x \in S
  PROVE  SumFunctionOnSet(f, S) = f[x] + SumFunctionOnSet(f, S \ {x})
<1> DEFINE Wrong == {T \in SUBSET S : \E y \in T : SumFunctionOnSet(f, T) # f[y] + SumFunctionOnSet(f, T \ {y})}
<1> SUFFICES ASSUME Wrong # {}
             PROVE  FALSE
  OBVIOUS
<1>1. PICK T \in Wrong : \A U \in Wrong : U \subseteq T => U = T
  <2>1. Wrong \subseteq SUBSET S
    OBVIOUS
  <2> HIDE DEF Wrong
  <2> QED BY <2>1, SmallestSubset
<1>2. PICK y \in T : SumFunctionOnSet(f, T) # f[y] + SumFunctionOnSet(f, T \ {y})
  BY <1>1
<1> DEFINE z == Some(T)
           W == (T \ {y}) \ {z}
<1>3. z \in T
  BY SomeIsIn
<1> HIDE DEF z
<1>4. \A U \in SUBSET T : IsFiniteSet(U)
  BY FS_Subset
<1>5. SumFunctionOnSet(f, T) = f[z] + SumFunctionOnSet(f, T \ {z})
  BY <1>4, SumOfSome DEF z
<1>6. y # z
  BY <1>2, <1>5
<1>7. SumFunctionOnSet(f, T \ {z}) = f[y] + SumFunctionOnSet(f, W)
  <2>1. T \ {z} \notin Wrong /\ y \in T \ {z} /\ (T \ {z}) \ {y} = W
    BY <1>1, <1>3, <1>6
  <2> QED BY <2>1
<1>8. SumFunctionOnSet(f, T \ {y}) = f[z] + SumFunctionOnSet(f, W)
  <2>1. T \ {y} \notin Wrong /\ z \in T \ {y}
    BY <1>1, <1>3, <1>6
  <2> QED BY <2>1
<1>9. SumFunctionOnSet(f, W) \in Int /\ f[y] \in Int /\ f[z] \in Int
  BY <1>3, <1>4, SumIsInt
<1> QED BY <1>2, <1>5, <1>7, <1>8, <1>9

(* Sums of the same values are the same. *)
LEMMA SumsAgree ==
  ASSUME NEW f, NEW g, NEW S, IsFiniteSet(S), \A x \in S : f[x] \in Int /\ f[x] = g[x]
  PROVE  SumFunctionOnSet(f, S) = SumFunctionOnSet(g, S)
<1> DEFINE Differ == {T \in SUBSET S : SumFunctionOnSet(f, T) # SumFunctionOnSet(g, T)}
<1> SUFFICES ASSUME Differ # {}
             PROVE  FALSE
  OBVIOUS
<1>1. PICK T \in Differ : \A U \in Differ : U \subseteq T => U = T
  <2>1. Differ \subseteq SUBSET S
    OBVIOUS
  <2> HIDE DEF Differ
  <2> QED BY <2>1, SmallestSubset
<1>2. T # {}
  BY SumOfNone
<1>3. Some(T) \in T /\ IsFiniteSet(T)
  BY <1>2, SomeIsIn, FS_Subset
<1>4. SumFunctionOnSet(f, T \ {Some(T)}) = SumFunctionOnSet(g, T \ {Some(T)})
  BY <1>1, <1>3
<1> QED BY <1>2, <1>3, <1>4, SumOfSome

(* One value that changes changes the sum by as much. *)
LEMMA SumChanges ==
  ASSUME NEW f, NEW g, NEW S, IsFiniteSet(S), \A x \in S : f[x] \in Int /\ g[x] \in Int,
         NEW x \in S, \A y \in S \ {x} : f[y] = g[y]
  PROVE  SumFunctionOnSet(g, S) = SumFunctionOnSet(f, S) + g[x] - f[x]
<1>1. IsFiniteSet(S \ {x})
  BY FS_Subset
<1>2. SumFunctionOnSet(f, S \ {x}) = SumFunctionOnSet(g, S \ {x}) /\ SumFunctionOnSet(f, S \ {x}) \in Int
  BY <1>1, SumsAgree, SumIsInt
<1>3. SumFunctionOnSet(f, S) = f[x] + SumFunctionOnSet(f, S \ {x})
  BY SumRemoves
<1>4. SumFunctionOnSet(g, S) = g[x] + SumFunctionOnSet(g, S \ {x})
  BY SumRemoves
<1> QED BY <1>2, <1>3, <1>4

LEMMA SumIsNat ==
  ASSUME NEW f, NEW S, IsFiniteSet(S), \A x \in S : f[x] \in Nat
  PROVE  SumFunctionOnSet(f, S) \in Nat
<1> DEFINE Not == {T \in SUBSET S : SumFunctionOnSet(f, T) \notin Nat}
<1> SUFFICES ASSUME Not # {}
             PROVE  FALSE
  OBVIOUS
<1>1. PICK T \in Not : \A U \in Not : U \subseteq T => U = T
  <2>1. Not \subseteq SUBSET S
    OBVIOUS
  <2> HIDE DEF Not
  <2> QED BY <2>1, SmallestSubset
<1>2. T # {}
  BY SumOfNone
<1>3. Some(T) \in T /\ IsFiniteSet(T)
  BY <1>2, SomeIsIn, FS_Subset
<1>4. SumFunctionOnSet(f, T \ {Some(T)}) \in Nat
  BY <1>1, <1>3
<1> QED BY <1>2, <1>3, <1>4, SumOfSome

(* A sum of nothing but zeros *)
LEMMA SumOfZeros ==
  ASSUME NEW f, NEW S, IsFiniteSet(S), \A x \in S : f[x] = 0
  PROVE  SumFunctionOnSet(f, S) = 0
<1> DEFINE Not == {T \in SUBSET S : SumFunctionOnSet(f, T) # 0}
<1> SUFFICES ASSUME Not # {}
             PROVE  FALSE
  OBVIOUS
<1>1. PICK T \in Not : \A U \in Not : U \subseteq T => U = T
  <2>1. Not \subseteq SUBSET S
    OBVIOUS
  <2> HIDE DEF Not
  <2> QED BY <2>1, SmallestSubset
<1>2. T # {}
  BY SumOfNone
<1>3. Some(T) \in T /\ IsFiniteSet(T)
  BY <1>2, SomeIsIn, FS_Subset
<1>4. SumFunctionOnSet(f, T \ {Some(T)}) = 0
  BY <1>1, <1>3
<1> QED BY <1>2, <1>3, <1>4, SumOfSome

(* What is zero may be left out. *)
LEMMA SumOfPart ==
  ASSUME NEW f, NEW S, IsFiniteSet(S), \A x \in S : f[x] \in Int,
         NEW T \in SUBSET S, \A x \in S \ T : f[x] = 0
  PROVE  SumFunctionOnSet(f, T) = SumFunctionOnSet(f, S)
<1> DEFINE More == {U \in SUBSET S : T \subseteq U /\ SumFunctionOnSet(f, T) # SumFunctionOnSet(f, U)}
<1> SUFFICES ASSUME More # {}
             PROVE  FALSE
  OBVIOUS
<1>1. PICK U \in More : \A V \in More : V \subseteq U => V = U
  <2>1. More \subseteq SUBSET S
    OBVIOUS
  <2> HIDE DEF More
  <2> QED BY <2>1, SmallestSubset
<1>2. PICK x \in U : x \notin T
  <2>1. U # T /\ T \subseteq U
    BY <1>1
  <2> HIDE DEF More
  <2> QED BY <2>1
<1>3. IsFiniteSet(U) /\ IsFiniteSet(U \ {x}) /\ (\A y \in U : f[y] \in Int) /\ x \in U /\ f[x] = 0
  BY <1>1, <1>2, FS_Subset
<1>4. SumFunctionOnSet(f, U) = f[x] + SumFunctionOnSet(f, U \ {x})
  BY <1>3, SumRemoves
<1>5. SumFunctionOnSet(f, U \ {x}) = SumFunctionOnSet(f, T)
  BY <1>1, <1>2
<1>6. SumFunctionOnSet(f, U \ {x}) \in Int
  BY <1>3, SumIsInt
<1>7. SumFunctionOnSet(f, U) = SumFunctionOnSet(f, T)
  BY <1>3, <1>4, <1>5, <1>6
<1> QED BY <1>1, <1>7

(* More values that are not smaller make no smaller sum. *)
LEMMA SumGrows ==
  ASSUME NEW f, NEW g, NEW S, IsFiniteSet(S), NEW T \in SUBSET S,
         \A x \in S : g[x] \in Nat, \A x \in T : f[x] \in Nat /\ f[x] <= g[x]
  PROVE  SumFunctionOnSet(f, T) <= SumFunctionOnSet(g, S)
<1> DEFINE Wrong == {U \in SUBSET S : ~(SumFunctionOnSet(f, U \cap T) <= SumFunctionOnSet(g, U))}
<1> SUFFICES ASSUME Wrong # {}
             PROVE  FALSE
  <2>1. S \cap T = T
    OBVIOUS
  <2> QED BY <2>1
<1>1. PICK U \in Wrong : \A V \in Wrong : V \subseteq U => V = U
  <2>1. Wrong \subseteq SUBSET S
    OBVIOUS
  <2> HIDE DEF Wrong
  <2> QED BY <2>1, SmallestSubset
<1>0. ~(SumFunctionOnSet(f, U \cap T) <= SumFunctionOnSet(g, U))
  BY <1>1
<1>2. U # {}
  <2> SUFFICES ASSUME U = {}
               PROVE  FALSE
    OBVIOUS
  <2>1. U \cap T = {}
    OBVIOUS
  <2>2. SumFunctionOnSet(f, U \cap T) = 0 /\ SumFunctionOnSet(g, U) = 0
    BY <2>1, SumOfNone
  <2> QED BY <2>2
<1>3. PICK x \in U : TRUE
  BY <1>2
<1>4. PICK V : V = U \ {x}
  OBVIOUS
<1>5. IsFiniteSet(U) /\ IsFiniteSet(U \cap T) /\ IsFiniteSet(V) /\ IsFiniteSet(V \cap T)
  BY <1>4, FS_Subset
<1>6. (\A y \in U : g[y] \in Int) /\ (\A y \in U \cap T : f[y] \in Int)
  OBVIOUS
<1>7. SumFunctionOnSet(g, U) = g[x] + SumFunctionOnSet(g, V)
  BY <1>4, <1>5, <1>6, SumRemoves
<1>8. SumFunctionOnSet(f, V \cap T) <= SumFunctionOnSet(g, V)
  BY <1>1, <1>3, <1>4
<1>9. SumFunctionOnSet(f, V \cap T) \in Nat /\ SumFunctionOnSet(g, V) \in Nat
  <2>1. (\A y \in V : g[y] \in Nat) /\ (\A y \in V \cap T : f[y] \in Nat)
    BY <1>4
  <2> QED BY <1>5, <2>1, SumIsNat
<1>10. CASE x \in T
  <2>1. (U \cap T) \ {x} = V \cap T /\ x \in U \cap T
    BY <1>4, <1>10
  <2>2. SumFunctionOnSet(f, U \cap T) = f[x] + SumFunctionOnSet(f, V \cap T)
    BY <1>5, <1>6, <2>1, SumRemoves
  <2>3. f[x] \in Nat /\ g[x] \in Nat /\ f[x] <= g[x]
    BY <1>10
  <2> QED BY <1>7, <1>8, <1>9, <2>2, <2>3
<1>11. CASE x \notin T
  <2>1. U \cap T = V \cap T
    BY <1>4, <1>11
  <2>2. g[x] \in Nat
    OBVIOUS
  <2>3. SumFunctionOnSet(f, U \cap T) = SumFunctionOnSet(f, V \cap T)
    BY <2>1
  <2> HIDE DEF Wrong
  <2> QED BY <1>7, <1>8, <1>9, <1>0, <2>2, <2>3
<1> QED BY <1>10, <1>11

(* The sum of the parts: values, each in the bar of its place. *)
LEMMA SumOfBars ==
  ASSUME NEW f, NEW S, IsFiniteSet(S), \A x \in S : f[x] \in Int,
         NEW B, IsFiniteSet(B), NEW bar, \A x \in S : bar[x] \in B,
         NEW h, \A b \in B : h[b] = SumFunctionOnSet(f, {x \in S : bar[x] = b})
  PROVE  SumFunctionOnSet(h, B) = SumFunctionOnSet(f, S)
<1> DEFINE Part(T, b) == {x \in T : bar[x] = b}
           Parts(T) == [b \in B |-> SumFunctionOnSet(f, Part(T, b))]
           Wrong == {T \in SUBSET S : SumFunctionOnSet(Parts(T), B) # SumFunctionOnSet(f, T)}
<1>1. ASSUME NEW T \in SUBSET S
      PROVE  /\ IsFiniteSet(T) /\ SumFunctionOnSet(f, T) \in Int
             /\ \A b \in B : IsFiniteSet(Part(T, b)) /\ Parts(T)[b] \in Int
  <2>1. \A U \in SUBSET S : IsFiniteSet(U) /\ SumFunctionOnSet(f, U) \in Int
    BY FS_Subset, SumIsInt
  <2>2. \A b \in B : Part(T, b) \in SUBSET S
    OBVIOUS
  <2> QED BY <2>1, <2>2
<1>2. Wrong = {}
  <2> SUFFICES ASSUME Wrong # {}
               PROVE  FALSE
    OBVIOUS
  <2>1. PICK T \in Wrong : \A U \in Wrong : U \subseteq T => U = T
    <3>1. Wrong \subseteq SUBSET S
      OBVIOUS
    <3> HIDE DEF Wrong
    <3> QED BY <3>1, SmallestSubset
  <2>2. T # {}
    <3> SUFFICES ASSUME T = {}
                 PROVE  FALSE
      OBVIOUS
    <3>1. \A b \in B : Part(T, b) = {}
      OBVIOUS
    <3>2. \A b \in B : Parts(T)[b] = 0
      BY <3>1, SumOfNone
    <3> HIDE DEF Parts
    <3>3. SumFunctionOnSet(Parts(T), B) = 0
      BY <3>2, SumOfZeros
    <3> QED BY <3>3, SumOfNone
  <2> DEFINE x == Some(T)
             U == T \ {x}
  <2>3. x \in T /\ x \in S /\ U \in SUBSET S /\ U \notin Wrong
    BY <2>1, <2>2, SomeIsIn
  <2> HIDE DEF x
  <2>4. SumFunctionOnSet(f, T) = f[x] + SumFunctionOnSet(f, U)
    <3>1. IsFiniteSet(T) /\ (\A y \in T : f[y] \in Int) /\ x \in T
      BY <2>1, <2>3, FS_Subset
    <3> QED BY <3>1, SumRemoves
  <2>5. Parts(T)[bar[x]] = f[x] + Parts(U)[bar[x]]
    <3>1. x \in Part(T, bar[x]) /\ Part(T, bar[x]) \ {x} = Part(U, bar[x])
      BY <2>3
    <3>2. IsFiniteSet(Part(T, bar[x])) /\ \A y \in Part(T, bar[x]) : f[y] \in Int
      BY <1>1, <2>1, <2>3
    <3>3. SumFunctionOnSet(f, Part(T, bar[x])) = f[x] + SumFunctionOnSet(f, Part(U, bar[x]))
      <4> DEFINE P == Part(T, bar[x])
      <4>1. x \in P /\ IsFiniteSet(P) /\ \A y \in P : f[y] \in Int
        BY <3>1, <3>2
      <4> HIDE DEF P
      <4>2. SumFunctionOnSet(f, P) = f[x] + SumFunctionOnSet(f, P \ {x})
        BY <4>1, SumRemoves
      <4> QED BY <3>1, <4>2 DEF P
    <3> HIDE DEF Part
    <3> QED BY <2>3, <3>3
  <2>6. \A b \in B \ {bar[x]} : Parts(U)[b] = Parts(T)[b]
    <3>1. \A b \in B \ {bar[x]} : Part(U, b) = Part(T, b)
      OBVIOUS
    <3> HIDE DEF Part
    <3> QED BY <3>1
  <2>7. SumFunctionOnSet(Parts(T), B) = SumFunctionOnSet(Parts(U), B) + Parts(T)[bar[x]] - Parts(U)[bar[x]]
    <3>1. \A b \in B : Parts(T)[b] \in Int /\ Parts(U)[b] \in Int
      BY <1>1, <2>1, <2>3
    <3>2. PICK g, k : g = Parts(U) /\ k = Parts(T)
      OBVIOUS
    <3>3. bar[x] \in B
      BY <2>3
    <3> HIDE DEF Parts
    <3>4. /\ \A y \in B : g[y] \in Int /\ k[y] \in Int
          /\ \A y \in B \ {bar[x]} : g[y] = k[y]
      BY <2>6, <3>1, <3>2
    <3>5. SumFunctionOnSet(k, B) = SumFunctionOnSet(g, B) + k[bar[x]] - g[bar[x]]
      BY <3>3, <3>4, SumChanges
    <3> QED BY <3>2, <3>5
  <2>8. SumFunctionOnSet(Parts(U), B) = SumFunctionOnSet(f, U)
    BY <2>3
  <2>9. SumFunctionOnSet(f, U) \in Int /\ Parts(U)[bar[x]] \in Int /\ f[x] \in Int
    BY <1>1, <2>3
  <2>10. SumFunctionOnSet(Parts(T), B) # SumFunctionOnSet(f, T)
    BY <2>1
  <2> HIDE DEF Parts, U, Wrong
  <2> QED BY <2>4, <2>5, <2>7, <2>8, <2>9, <2>10
<1>3. SumFunctionOnSet(Parts(S), B) = SumFunctionOnSet(f, S)
  BY <1>2
<1>4. \A b \in B : Parts(S)[b] \in Int /\ Parts(S)[b] = h[b]
  BY <1>1
<1> HIDE DEF Parts
<1> QED BY <1>3, <1>4, SumsAgree

(* The same, with the values of each bar given as a set. *)
LEMMA SumOfParts ==
  ASSUME NEW f, NEW S, IsFiniteSet(S), \A x \in S : f[x] \in Int,
         NEW B, IsFiniteSet(B), NEW bar, \A x \in S : bar[x] \in B,
         NEW part, \A b \in B : part[b] \subseteq S /\ \A x \in S : x \in part[b] <=> bar[x] = b,
         NEW h, \A b \in B : h[b] = SumFunctionOnSet(f, part[b])
  PROVE  SumFunctionOnSet(h, B) = SumFunctionOnSet(f, S)
<1>1. \A b \in B : part[b] = {x \in S : bar[x] = b}
  OBVIOUS
<1>2. \A b \in B : h[b] = SumFunctionOnSet(f, {x \in S : bar[x] = b})
  BY <1>1
<1> QED BY <1>2, SumOfBars

-----------------------------------------------------------------------------
(* The invariant *)

StatisticsInv == TypeOK /\ NothingAfterNow /\ PurgesOldRows

LEMMA BoundsAreNumbers ==
  /\ MaxTime \in Nat /\ Instants = 0 .. MaxTime
  /\ Week \in Nat /\ Week > 0 /\ Day \in Nat /\ Day > 0
  /\ MaxIncrements \in Nat /\ MaxFaults \in Nat
  /\ IsFiniteSet(Jobs)
BY ConstantsAssumption DEF Instants

LEMMA NothingIsNothing ==
  /\ Nothing \in [Keys -> Nat] /\ \A k \in Keys : Nothing[k] = 0
  /\ Idle \in Job /\ Idle.stage = "none" /\ Idle.stats = Nothing
BY BoundsAreNumbers DEF Nothing, Idle, Job

LEMMA Spent ==
  ASSUME TypeOK, NEW bound \in {"increments", "faults"}, Spend(bound)
  PROVE  /\ left' \in [{"increments", "faults"} -> Nat]
         /\ left'[bound] = left[bound] - 1
         /\ \A other \in {"increments", "faults"} \ {bound} : left'[other] = left[other]
BY DEF Spend, TypeOK

(* What a save takes leaves the buffer. *)
LEMMA Taken ==
  ASSUME TypeOK, NEW j \in Jobs, NEW stage \in {"quotes", "users", "targets"}, Take(j, stage)
  PROVE  /\ memory' \in [Keys -> Nat] /\ job' \in [Jobs -> Job]
         /\ job'[j].stage = stage
         /\ \A i \in Jobs \ {j} : job'[i] = job[i]
         /\ \A k \in Keys : memory'[k] + job'[j].stats[k] = memory[k]
<1> DEFINE stats == [k \in Keys |-> IF k \in KeysOf(stage) THEN memory[k] ELSE 0]
           next == [Idle EXCEPT !.stage = stage, !.stats = stats]
<1>1. stats \in [Keys -> Nat] /\ memory' \in [Keys -> Nat] /\ \A k \in Keys : memory'[k] + stats[k] = memory[k]
  BY DEF Take, TypeOK
<1>2. job' = [job EXCEPT ![j] = next]
  BY DEF Take
<1> HIDE DEF stats
<1>3. next \in Job /\ next.stage = stage /\ next.stats = stats
  BY <1>1, NothingIsNothing DEF Job
<1> HIDE DEF next
<1> QED BY <1>1, <1>2, <1>3 DEF TypeOK

(* A job that ends *)
LEMMA Ended ==
  ASSUME TypeOK, NEW j \in Jobs, job' = [job EXCEPT ![j] = Idle]
  PROVE  /\ job' \in [Jobs -> Job]
         /\ job'[j].stage = "none" /\ job'[j].stats = Nothing
         /\ \A i \in Jobs \ {j} : job'[i] = job[i]
BY NothingIsNothing DEF TypeOK

(* Rows that are stored are rows of now. *)
LEMMA Inserted ==
  ASSUME TypeOK, NEW stats \in [Keys -> Nat], table' = Insert(stats)
  PROVE  /\ table' \in [Keys -> [Instants -> Nat]]
         /\ \A k \in Keys : table'[k][now] = table[k][now] + stats[k]
         /\ \A k \in Keys : \A t \in Instants \ {now} : table'[k][t] = table[k][t]
<1>1. now \in Instants
  BY DEF TypeOK, Instants
<1>2. ASSUME NEW k \in Keys
      PROVE  /\ table'[k] \in [Instants -> Nat]
             /\ table'[k][now] = table[k][now] + stats[k]
             /\ \A t \in Instants \ {now} : table'[k][t] = table[k][t]
  <2>1. table[k] \in [Instants -> Nat] /\ stats[k] \in Nat
    BY DEF TypeOK
  <2>2. table'[k] = [table[k] EXCEPT ![now] = table[k][now] + stats[k]]
    BY DEF Insert
  <2> QED BY <1>1, <2>1, <2>2
<1> QED BY <1>2 DEF Insert

(* A step that keeps the time, keeps the jobs and the counters typed, and
   stores no row of the future keeps the invariant. *)
LEMMA InvOfRows ==
  ASSUME StatisticsInv, TypeOK', now' = now,
         \A j \in Jobs : job'[j].stage \in {"purgeQuotes", "purgeUsers"} =>
                           job'[j].stats = Nothing /\ job'[j].at <= now - Week,
         \A k \in Keys : \A t \in Instants : t > now => table'[k][t] = table[k][t] \/ table'[k][t] = 0
  PROVE  StatisticsInv'
<1>1. NothingAfterNow'
  BY DEF StatisticsInv, NothingAfterNow, Instants
<1>2. PurgesOldRows'
  BY DEF StatisticsInv, PurgesOldRows
<1> QED BY <1>1, <1>2 DEF StatisticsInv

LEMMA InvInit == Init => StatisticsInv
<1> SUFFICES ASSUME Init
             PROVE  StatisticsInv
  OBVIOUS
<1>1. TypeOK
  <2>1. left \in [{"increments", "faults"} -> Nat]
    BY BoundsAreNumbers DEF Init
  <2>2. now \in 0 .. MaxTime /\ table \in [Keys -> [Instants -> Nat]]
    BY BoundsAreNumbers DEF Init
  <2> QED BY <2>1, <2>2, NothingIsNothing DEF Init, TypeOK
<1>2. NothingAfterNow
  BY BoundsAreNumbers DEF Init, NothingAfterNow
<1>3. PurgesOldRows
  BY NothingIsNothing DEF Init, PurgesOldRows
<1> QED BY <1>1, <1>2, <1>3 DEF StatisticsInv

LEMMA InvIncrement ==
  ASSUME StatisticsInv, NEW k \in Keys, Increment(k)
  PROVE  StatisticsInv'
<1>1. memory' = [memory EXCEPT ![k] = memory[k] + 1]
  BY DEF Increment, IncrementProvider, IncrementUser, IncrementTarget
<1>2. TypeOK'
  BY <1>1, Spent DEF StatisticsInv, TypeOK, Increment
<1> QED BY <1>2, InvOfRows DEF Increment, StatisticsInv, PurgesOldRows

LEMMA InvTake ==
  ASSUME StatisticsInv, NEW j \in Jobs, SaveAccumulatedQuotes(j) \/ SaveAccumulatedConnections(j)
  PROVE  StatisticsInv'
<1>1. PICK stage \in {"quotes", "users", "targets"} : Take(j, stage) /\ UNCHANGED <<now, up, table, left>>
  BY DEF SaveAccumulatedQuotes, SaveAccumulatedConnections
<1>2. TypeOK
  BY DEF StatisticsInv
<1>3. TypeOK'
  BY <1>1, <1>2, Taken DEF TypeOK
<1> QED BY <1>1, <1>2, <1>3, Taken, InvOfRows DEF StatisticsInv, PurgesOldRows

(* What a save changes: the rows of now, and its own job, which ends or    *)
(* goes on with the targets.                                               *)
LEMMA SavedSteps ==
  ASSUME TypeOK, NEW j \in Jobs, Saved(j) \/ SaveFailed(j)
  PROVE  /\ now' = now /\ Saving(j)
         /\ job' \in [Jobs -> Job] /\ memory' \in [Keys -> Nat] /\ table' \in [Keys -> [Instants -> Nat]]
         /\ job'[j].stage \in {"none", "targets"}
         /\ \A i \in Jobs \ {j} : job'[i] = job[i]
         /\ \A k \in Keys : memory'[k] + job'[j].stats[k] = memory[k]
         /\ table' = Insert(job[j].stats) \/ UNCHANGED table
<1>1. memory \in [Keys -> Nat] /\ table \in [Keys -> [Instants -> Nat]] /\ job[j].stats \in [Keys -> Nat]
  BY DEF TypeOK, Job
<1>2. table' = Insert(job[j].stats) => table' \in [Keys -> [Instants -> Nat]]
  BY <1>1, Inserted
<1>3. CASE Take(j, "targets") /\ Saved(j)
  BY <1>1, <1>2, <1>3, Taken DEF Saved
<1>4. CASE job' = [job EXCEPT ![j] = Idle] /\ UNCHANGED memory
  <2>1. /\ job' \in [Jobs -> Job] /\ job'[j].stage = "none" /\ job'[j].stats = Nothing
        /\ \A i \in Jobs \ {j} : job'[i] = job[i]
    BY <1>4, Ended
  <2>2. \A k \in Keys : memory'[k] + job'[j].stats[k] = memory[k]
    BY <1>1, <1>4, <2>1, NothingIsNothing
  <2> QED BY <1>1, <1>2, <1>4, <2>1, <2>2 DEF Saved, SaveFailed
<1> QED BY <1>3, <1>4 DEF Saved, SaveFailed

LEMMA InvSaved ==
  ASSUME StatisticsInv, NEW j \in Jobs, Saved(j) \/ SaveFailed(j)
  PROVE  StatisticsInv'
<1>1. TypeOK /\ job[j].stats \in [Keys -> Nat] /\ now \in Nat
  BY BoundsAreNumbers DEF StatisticsInv, TypeOK, Job
<1>2. left' \in [{"increments", "faults"} -> Nat] /\ up' \in BOOLEAN
  BY <1>1, Spent DEF Saved, SaveFailed, TypeOK
<1>3. TypeOK'
  BY <1>1, <1>2, SavedSteps DEF TypeOK
<1>4. \A k \in Keys : \A t \in Instants : t > now => table'[k][t] = table[k][t]
  <2>1. now \notin {t \in Instants : t > now}
    BY <1>1
  <2>2. table' = Insert(job[j].stats) \/ UNCHANGED table
    BY <1>1, SavedSteps
  <2> QED BY <1>1, <2>1, <2>2, Inserted
<1> QED BY <1>1, <1>3, <1>4, SavedSteps, InvOfRows DEF StatisticsInv, PurgesOldRows

LEMMA InvPurge ==
  ASSUME StatisticsInv, NEW j \in Jobs,
         (\E stage \in {"purgeQuotes", "purgeUsers"} : DeleteOldStatistic(j, stage)) \/ Purged(j)
  PROVE  StatisticsInv'
<1>1. TypeOK
  BY DEF StatisticsInv
<1>2. ASSUME NEW stage \in {"purgeQuotes", "purgeUsers"}, DeleteOldStatistic(j, stage)
      PROVE  StatisticsInv'
  <2> DEFINE next == [Idle EXCEPT !.stage = stage, !.at = now - Week]
  <2>1. now - Week \in 0 .. MaxTime
    BY <1>1, <1>2, BoundsAreNumbers, SMTT(30) DEF TypeOK, DeleteOldStatistic
  <2>2. next \in Job /\ next.stats = Nothing /\ next.at = now - Week
    BY <2>1, NothingIsNothing DEF Job, Idle
  <2>3. job' = [job EXCEPT ![j] = next]
    BY <1>2 DEF DeleteOldStatistic
  <2> HIDE DEF next
  <2>4. TypeOK'
    BY <1>1, <1>2, <2>2, <2>3 DEF TypeOK, DeleteOldStatistic
  <2>5. now' = now /\ UNCHANGED table /\ now - Week <= now - Week
    BY <1>2, <2>1 DEF DeleteOldStatistic
  <2>6. \A i \in Jobs : job'[i].stage \in {"purgeQuotes", "purgeUsers"} =>
                           job'[i].stats = Nothing /\ job'[i].at <= now - Week
    BY <1>1, <2>2, <2>3, <2>5 DEF StatisticsInv, PurgesOldRows, TypeOK
  <2> QED BY <2>4, <2>5, <2>6, InvOfRows
<1>3. CASE Purged(j)
  <2>1. table' \in [Keys -> [Instants -> Nat]]
        /\ \A k \in Keys : \A t \in Instants : table'[k][t] = table[k][t] \/ table'[k][t] = 0
    BY <1>1, <1>3, BoundsAreNumbers DEF Purged, TypeOK
  <2>2. TypeOK'
    BY <1>1, <1>3, <2>1, Ended DEF TypeOK, Purged
  <2> QED BY <1>1, <1>3, <2>1, <2>2, Ended, InvOfRows DEF StatisticsInv, PurgesOldRows, Purged
<1> QED BY <1>2, <1>3

LEMMA InvEnd ==
  ASSUME StatisticsInv, End
  PROVE  StatisticsInv'
<1>1. TypeOK'
  BY Spent, NothingIsNothing DEF StatisticsInv, TypeOK, End
<1>2. \A j \in Jobs : job'[j] = Idle
  BY DEF End
<1> QED BY <1>1, <1>2, NothingIsNothing, InvOfRows DEF End, StatisticsInv, NothingAfterNow

LEMMA InvTick ==
  ASSUME StatisticsInv, Tick
  PROVE  StatisticsInv'
<1>1. now \in Nat /\ now' = now + 1 /\ now' \in 0 .. MaxTime
  BY BoundsAreNumbers DEF StatisticsInv, TypeOK, Tick
<1>2. TypeOK'
  BY <1>1 DEF StatisticsInv, TypeOK, Tick, Instants
<1>3. NothingAfterNow'
  BY <1>1, BoundsAreNumbers DEF StatisticsInv, NothingAfterNow, Tick
<1>4. PurgesOldRows'
  <2>1. \A j \in Jobs : job[j].at \in Int
    BY BoundsAreNumbers DEF StatisticsInv, TypeOK, Job
  <2> QED BY <1>1, <2>1, BoundsAreNumbers DEF StatisticsInv, PurgesOldRows, Tick
<1> QED BY <1>2, <1>3, <1>4 DEF StatisticsInv

LEMMA InvStep == StatisticsInv /\ [Next]_vars => StatisticsInv'
<1> SUFFICES ASSUME StatisticsInv, [Next]_vars
             PROVE  StatisticsInv'
  OBVIOUS
<1>1. CASE Start
  <2>1. TypeOK'
    BY <1>1 DEF Start, StatisticsInv, TypeOK, Instants
  <2> QED BY <1>1, <2>1, InvOfRows DEF Start, StatisticsInv, PurgesOldRows
<1>2. CASE UNCHANGED vars
  BY <1>2 DEF vars, StatisticsInv, TypeOK, Instants, NothingAfterNow, PurgesOldRows
<1> QED BY <1>1, <1>2, InvEnd, InvTick, InvIncrement, InvTake, InvSaved, InvPurge DEF Next, Step

(* Every state is well typed, for any providers, users, targets and bounds.*)
THEOREM TypeCorrect == Spec => []TypeOK
<1>1. StatisticsInv => TypeOK
  BY DEF StatisticsInv
<1> QED BY <1>1, InvInit, InvStep, PTL DEF Spec

-----------------------------------------------------------------------------
(* Each step is one of LossyCounters. *)

Pending(k) == memory[k] + InFlight(k)
Stored(k) == Between(k, AWeekAgo, now)

LEMMA InFlightIsNat ==
  ASSUME TypeOK, NEW k \in Keys
  PROVE  InFlight(k) \in Nat
<1> DEFINE f == [j \in Jobs |-> job[j].stats[k]]
<1>1. \A j \in Jobs : f[j] \in Nat
  BY DEF TypeOK, Job
<1>2. InFlight(k) = SumFunctionOnSet(f, Jobs)
  BY DEF InFlight, SumFunction
<1> HIDE DEF f
<1> QED BY <1>1, <1>2, SumIsNat, BoundsAreNumbers

LEMMA InFlightMoves ==
  ASSUME TypeOK, job' \in [Jobs -> Job], NEW j \in Jobs, \A i \in Jobs \ {j} : job'[i] = job[i],
         NEW k \in Keys
  PROVE  InFlight(k)' = InFlight(k) + job'[j].stats[k] - job[j].stats[k]
<1>1. PICK f, g : f = [i \in Jobs |-> job[i].stats[k]] /\ g = [i \in Jobs |-> job'[i].stats[k]]
  OBVIOUS
<1>2. InFlight(k) = SumFunctionOnSet(f, Jobs) /\ InFlight(k)' = SumFunctionOnSet(g, Jobs)
  BY <1>1 DEF InFlight, SumFunction
<1>3. \A i \in Jobs : f[i] \in Int /\ g[i] \in Int
  BY <1>1 DEF TypeOK, Job
<1>4. \A i \in Jobs \ {j} : f[i] = g[i]
  BY <1>1
<1>5. SumFunctionOnSet(g, Jobs) = SumFunctionOnSet(f, Jobs) + g[j] - f[j]
  BY <1>3, <1>4, SumChanges, BoundsAreNumbers
<1> QED BY <1>1, <1>2, <1>5

LEMMA InFlightStays ==
  ASSUME NEW k \in Keys, UNCHANGED job
  PROVE  InFlight(k)' = InFlight(k)
BY DEF InFlight

(* The instants of a week, up to now *)
Recent == {t \in Instants : AWeekAgo <= t /\ t <= now}

LEMMA RecentIsFinite ==
  ASSUME TypeOK, NEW k \in Keys
  PROVE  /\ IsFiniteSet(Recent) /\ now \in Recent /\ \A t \in Recent : table[k][t] \in Nat
         /\ Stored(k) = SumFunctionOnSet(table[k], Recent) /\ Stored(k) \in Nat
<1>1. IsFiniteSet(Recent)
  <2>1. IsFiniteSet(Instants) /\ Recent \subseteq Instants
    BY BoundsAreNumbers, FS_Interval DEF Recent
  <2> QED BY <2>1, FS_Subset
<1>2. now \in Recent
  BY BoundsAreNumbers DEF Recent, AWeekAgo, TypeOK
<1>3. \A t \in Recent : table[k][t] \in Nat
  BY DEF Recent, TypeOK
<1>4. Stored(k) = SumFunctionOnSet(table[k], Recent)
  BY DEF Stored, Between, Recent
<1> QED BY <1>1, <1>2, <1>3, <1>4, SumIsNat

LEMMA StoredAfterIsNat ==
  ASSUME TypeOK', NEW k \in Keys
  PROVE  Stored(k)' \in Nat
<1>1. PICK f, T : f = table'[k] /\ T = Recent'
  OBVIOUS
<1>2. \A t \in T : f[t] \in Nat
  BY <1>1 DEF TypeOK, Recent, Instants
<1>3. IsFiniteSet(T)
  <2>1. IsFiniteSet(Instants) /\ T \subseteq Instants
    BY <1>1, BoundsAreNumbers, FS_Interval DEF Recent, Instants
  <2> QED BY <2>1, FS_Subset
<1>4. Stored(k)' = SumFunctionOnSet(f, T)
  BY <1>1 DEF Stored, Between, Recent
<1> QED BY <1>2, <1>3, <1>4, SumIsNat

LEMMA StoredStays ==
  ASSUME TypeOK, now' = now, NEW k \in Keys, \A t \in Recent : table'[k][t] = table[k][t]
  PROVE  Stored(k)' = Stored(k)
<1>1. PICK f, g : f = table[k] /\ g = table'[k]
  OBVIOUS
<1>2. Recent' = Recent
  BY DEF Recent, AWeekAgo, Instants
<1>3. Stored(k) = SumFunctionOnSet(f, Recent) /\ Stored(k)' = SumFunctionOnSet(g, Recent)
  BY <1>1, <1>2 DEF Stored, Between, Recent
<1>4. \A t \in Recent : f[t] \in Int /\ f[t] = g[t]
  BY <1>1, RecentIsFinite
<1> QED BY <1>3, <1>4, SumsAgree, RecentIsFinite

LEMMA StoredGrows ==
  ASSUME TypeOK, now' = now, NEW stats \in [Keys -> Nat], table' = Insert(stats), NEW k \in Keys
  PROVE  Stored(k)' = Stored(k) + stats[k]
<1>1. PICK f, g : f = table[k] /\ g = table'[k]
  OBVIOUS
<1>2. Recent' = Recent
  BY DEF Recent, AWeekAgo, Instants
<1>3. Stored(k) = SumFunctionOnSet(f, Recent) /\ Stored(k)' = SumFunctionOnSet(g, Recent)
  BY <1>1, <1>2 DEF Stored, Between, Recent
<1>4. \A t \in Recent : f[t] \in Int /\ g[t] \in Int
  BY <1>1, Inserted DEF Recent, TypeOK
<1>5. now \in Recent /\ \A t \in Recent \ {now} : f[t] = g[t]
  BY <1>1, Inserted, RecentIsFinite DEF Recent
<1>6. SumFunctionOnSet(g, Recent) = SumFunctionOnSet(f, Recent) + g[now] - f[now]
  BY <1>4, <1>5, SumChanges, RecentIsFinite
<1>7. g[now] = f[now] + stats[k] /\ f[now] \in Int /\ stats[k] \in Int
  BY <1>1, <1>4, <1>5, Inserted
<1>8. SumFunctionOnSet(f, Recent) \in Int
  BY <1>3, RecentIsFinite
<1> QED BY <1>3, <1>6, <1>7, <1>8

(* Of the rows of a week only the oldest instant leaves, and nothing comes.*)
LEMMA StoredAges ==
  ASSUME StatisticsInv, Tick, NEW k \in Keys
  PROVE  Stored(k)' <= Stored(k)
<1>1. TypeOK /\ now \in Nat /\ now' = now + 1 /\ now' \in Instants
  BY BoundsAreNumbers DEF StatisticsInv, TypeOK, Tick
<1>2. PICK f : f = table[k] /\ f = table'[k]
  BY DEF Tick
<1>3. PICK S, T : S = Recent /\ T = Recent'
  OBVIOUS
<1>4. Stored(k) = SumFunctionOnSet(f, S) /\ Stored(k)' = SumFunctionOnSet(f, T)
  BY <1>2, <1>3 DEF Stored, Between, Recent
<1>5. AWeekAgo \in Nat /\ AWeekAgo' \in Nat /\ AWeekAgo <= AWeekAgo' /\ AWeekAgo' <= AWeekAgo + 1 /\ AWeekAgo' <= now + 1
  BY <1>1, BoundsAreNumbers DEF AWeekAgo
<1>6. /\ now + 1 \in T
      /\ T \ {now + 1} = S \/ (AWeekAgo \in S /\ T \ {now + 1} = S \ {AWeekAgo})
  <2>1. T = {t \in Instants : AWeekAgo' <= t /\ t <= now + 1}
    BY <1>1, <1>3 DEF Recent, Instants
  <2>2. S = {t \in Instants : AWeekAgo <= t /\ t <= now}
    BY <1>3 DEF Recent
  <2>3. \A t \in Instants : t \in Int
    BY BoundsAreNumbers
  <2>4. CASE AWeekAgo' = AWeekAgo
    <3>1. T \ {now + 1} = S
      <4>1. \A t \in Instants : t <= now + 1 /\ t # now + 1 <=> t <= now
        BY <1>1, <2>3
      <4> QED BY <2>1, <2>2, <2>4, <4>1
    <3> QED BY <1>1, <1>5, <2>1, <3>1
  <2>5. CASE AWeekAgo' = AWeekAgo + 1
    <3>1. T \ {now + 1} = S \ {AWeekAgo}
      <4>1. \A t \in Instants : t <= now + 1 /\ t # now + 1 <=> t <= now
        BY <1>1, <2>3
      <4>2. \A t \in Instants : AWeekAgo + 1 <= t <=> AWeekAgo <= t /\ t # AWeekAgo
        BY <1>5, <2>3
      <4> QED BY <2>1, <2>2, <2>5, <4>1, <4>2
    <3>2. AWeekAgo \in S
      BY <1>1, <1>5, <2>2, <2>5, BoundsAreNumbers
    <3> QED BY <1>1, <1>5, <2>1, <3>1, <3>2
  <2> QED BY <1>5, <2>4, <2>5
<1>7. IsFiniteSet(S) /\ IsFiniteSet(T) /\ IsFiniteSet(S \ {AWeekAgo})
  <2>1. IsFiniteSet(Instants) /\ S \subseteq Instants /\ T \subseteq Instants
    BY <1>3, BoundsAreNumbers, FS_Interval DEF Recent, Instants
  <2> QED BY <2>1, FS_Subset
<1>8. \A t \in S \cup T : f[t] \in Nat
  BY <1>1, <1>2, <1>3 DEF TypeOK, Recent, Instants
<1>9. f[now + 1] = 0
  <2>1. now + 1 \in Instants /\ now + 1 > now
    BY <1>1
  <2> QED BY <1>2, <2>1 DEF StatisticsInv, NothingAfterNow
<1>10. SumFunctionOnSet(f, T) = SumFunctionOnSet(f, T \ {now + 1})
  <2>1. SumFunctionOnSet(f, T) = f[now + 1] + SumFunctionOnSet(f, T \ {now + 1})
    BY <1>6, <1>7, <1>8, SumRemoves
  <2>2. SumFunctionOnSet(f, T) \in Int
    BY <1>7, <1>8, SumIsInt
  <2>3. SumFunctionOnSet(f, T \ {now + 1}) \in Int
    BY <1>7, <1>8, FS_Subset, SumIsInt
  <2> QED BY <1>9, <2>1, <2>2, <2>3
<1>11. SumFunctionOnSet(f, S) \in Nat
  BY <1>7, <1>8, SumIsNat
<1>12. CASE T \ {now + 1} = S
  BY <1>4, <1>10, <1>11, <1>12
<1>13. CASE AWeekAgo \in S /\ T \ {now + 1} = S \ {AWeekAgo}
  <2>1. SumFunctionOnSet(f, S) = f[AWeekAgo] + SumFunctionOnSet(f, S \ {AWeekAgo})
    BY <1>7, <1>8, <1>13, SumRemoves
  <2>2. SumFunctionOnSet(f, S \ {AWeekAgo}) \in Int /\ f[AWeekAgo] \in Nat
    BY <1>7, <1>8, <1>13, SumIsInt
  <2>3. SumFunctionOnSet(f, T) = SumFunctionOnSet(f, S \ {AWeekAgo})
    BY <1>10, <1>13
  <2> QED BY <1>4, <2>1, <2>2, <2>3
<1> QED BY <1>6, <1>12, <1>13

(* What may happen to the counters of one key, told of the mapping *)
KeyStays(k) == Pending(k)' = Pending(k) /\ Stored(k)' = Stored(k)
KeyIsStored(k) == Stored(k)' > Stored(k) /\ Stored(k)' + Pending(k)' = Stored(k) + Pending(k)
KeyIsLost(k) == Pending(k)' < Pending(k) /\ Stored(k)' = Stored(k) /\ left'.faults # left.faults
KeyExpires(k) == Stored(k)' < Stored(k) /\ Pending(k)' = Pending(k) /\ now' > now
KeyIsCounted(k) ==
  /\ MaxIncrements - left'.increments = (MaxIncrements - left.increments) + 1
  /\ Pending(k)' = Pending(k) + 1 /\ Stored(k)' = Stored(k)

LEMMA KeysMove ==
  ASSUME \A k \in Keys : \/ KeyStays(k) \/ KeyIsStored(k) \/ KeyIsLost(k) \/ KeyExpires(k)
                         \/ KeyIsCounted(k)
  PROVE  Counters!Next
<1> SUFFICES ASSUME NEW k \in Keys
             PROVE  Counters!Idle(k) \/ Counters!Count(k) \/ Counters!Store(k) \/ Counters!Lose(k)
                    \/ Counters!Expire(k)
  BY DEF Counters!Next
<1>1. CASE KeyStays(k)
  BY <1>1 DEF KeyStays, Counters!Idle, Pending, Stored
<1>2. CASE KeyIsStored(k)
  BY <1>2 DEF KeyIsStored, Counters!Store, Pending, Stored
<1>3. CASE KeyIsLost(k)
  BY <1>3 DEF KeyIsLost, Counters!Lose, Pending, Stored
<1>4. CASE KeyExpires(k)
  BY <1>4 DEF KeyExpires, Counters!Expire, Pending, Stored
<1>5. CASE KeyIsCounted(k)
  BY <1>5 DEF KeyIsCounted, Counters!Count, Pending, Stored
<1> QED BY <1>1, <1>2, <1>3, <1>4, <1>5

LEMMA PendingIsNat ==
  ASSUME TypeOK, NEW k \in Keys
  PROVE  Pending(k) \in Nat /\ memory[k] \in Nat /\ InFlight(k) \in Nat
BY InFlightIsNat DEF Pending, TypeOK

LEMMA InitCounts == Init => Counters!Init
<1> SUFFICES ASSUME Init
             PROVE  Counters!Init
  OBVIOUS
<1>1. TypeOK
  BY InvInit DEF StatisticsInv
<1>2. ASSUME NEW k \in Keys
      PROVE  Pending(k) = 0 /\ Stored(k) = 0
  <2>1. PICK f : f = [j \in Jobs |-> job[j].stats[k]]
    OBVIOUS
  <2>2. \A j \in Jobs : f[j] = 0
    BY <2>1, NothingIsNothing DEF Init
  <2>3. InFlight(k) = 0
    BY <2>1, <2>2, SumOfZeros, BoundsAreNumbers DEF InFlight, SumFunction
  <2>4. memory[k] = 0
    BY NothingIsNothing DEF Init
  <2>5. PICK g : g = table[k]
    OBVIOUS
  <2>6. \A t \in Recent : g[t] = 0
    BY <2>5 DEF Init, Recent, Instants
  <2>7. Stored(k) = 0
    BY <1>1, <2>5, <2>6, SumOfZeros, RecentIsFinite
  <2> QED BY <2>3, <2>4, <2>7 DEF Pending
<1>3. MaxIncrements - left.increments = 0
  BY BoundsAreNumbers DEF Init
<1> QED BY <1>2, <1>3 DEF Counters!Init, Pending, Stored

LEMMA IncrementCounts ==
  ASSUME StatisticsInv, NEW k \in Keys, Increment(k)
  PROVE  Counters!Next
<1>1. /\ TypeOK /\ now' = now /\ UNCHANGED <<job, table>> /\ Spend("increments")
      /\ memory' = [memory EXCEPT ![k] = memory[k] + 1]
  BY DEF StatisticsInv, Increment, IncrementProvider, IncrementUser, IncrementTarget
<1>2. ASSUME NEW o \in Keys
      PROVE  InFlight(o)' = InFlight(o) /\ Stored(o)' = Stored(o)
  BY <1>1, InFlightStays, StoredStays
<1>3. MaxIncrements - left'.increments = (MaxIncrements - left.increments) + 1
  <2>1. left'.increments = left.increments - 1
    BY <1>1, Spent
  <2>2. left.increments \in Nat /\ MaxIncrements \in Nat
    BY <1>1, BoundsAreNumbers DEF TypeOK
  <2> QED BY <2>1, <2>2
<1>4. Pending(k)' = Pending(k) + 1
  <2>1. memory'[k] = memory[k] + 1
    BY <1>1 DEF TypeOK
  <2> QED BY <1>1, <1>2, <2>1, PendingIsNat DEF Pending
<1>5. \A o \in Keys \ {k} : Pending(o)' = Pending(o)
  BY <1>1, <1>2 DEF Pending, TypeOK
<1> QED BY <1>2, <1>3, <1>4, <1>5, KeysMove DEF KeyIsCounted, KeyStays

LEMMA TakeCounts ==
  ASSUME StatisticsInv, NEW j \in Jobs, SaveAccumulatedQuotes(j) \/ SaveAccumulatedConnections(j)
  PROVE  Counters!Next
<1>1. PICK stage \in {"quotes", "users", "targets"} : Take(j, stage)
  BY DEF SaveAccumulatedQuotes, SaveAccumulatedConnections
<1>2. TypeOK /\ now' = now /\ UNCHANGED table /\ job[j].stats = Nothing
  BY NothingIsNothing DEF StatisticsInv, SaveAccumulatedQuotes, SaveAccumulatedConnections
<1>3. ASSUME NEW k \in Keys
      PROVE  KeyStays(k)
  <2>1. Stored(k)' = Stored(k)
    BY <1>2, StoredStays
  <2>2. /\ InFlight(k)' = InFlight(k) + job'[j].stats[k] - job[j].stats[k]
        /\ memory'[k] + job'[j].stats[k] = memory[k]
        /\ job'[j].stats[k] \in Nat /\ memory'[k] \in Nat
    BY <1>1, <1>2, Taken, InFlightMoves DEF Job
  <2>3. job[j].stats[k] = 0
    BY <1>2, NothingIsNothing
  <2> QED BY <1>2, <2>1, <2>2, <2>3, PendingIsNat DEF KeyStays, Pending
<1> QED BY <1>3, KeysMove

LEMMA SaveCounts ==
  ASSUME StatisticsInv, NEW j \in Jobs, Saved(j) \/ SaveFailed(j)
  PROVE  Counters!Next
<1>1. TypeOK /\ now' = now /\ job[j].stats \in [Keys -> Nat]
  BY SavedSteps DEF StatisticsInv, TypeOK, Job
<1>2. ASSUME NEW k \in Keys
      PROVE  Pending(k)' = Pending(k) - job[j].stats[k] /\ job[j].stats[k] \in Nat
  <2>1. /\ InFlight(k)' = InFlight(k) + job'[j].stats[k] - job[j].stats[k]
        /\ memory'[k] + job'[j].stats[k] = memory[k]
        /\ job'[j].stats[k] \in Nat /\ memory'[k] \in Nat /\ job[j].stats[k] \in Nat
    BY <1>1, SavedSteps, InFlightMoves DEF Job
  <2> QED BY <1>1, <2>1, PendingIsNat DEF Pending
<1>3. CASE table' = Insert(job[j].stats)
  <2>1. ASSUME NEW k \in Keys
        PROVE  KeyStays(k) \/ KeyIsStored(k)
    <3>1. Stored(k)' = Stored(k) + job[j].stats[k]
      BY <1>1, <1>3, StoredGrows
    <3>2. Stored(k) \in Nat /\ Pending(k) \in Nat
      BY <1>1, PendingIsNat, RecentIsFinite
    <3> QED BY <1>2, <3>1, <3>2 DEF KeyStays, KeyIsStored
  <2> QED BY <2>1, KeysMove
<1>4. CASE UNCHANGED table /\ SaveFailed(j)
  <2>1. left'.faults # left.faults
    BY <1>1, <1>4, Spent DEF SaveFailed, TypeOK
  <2>2. ASSUME NEW k \in Keys
        PROVE  KeyStays(k) \/ KeyIsLost(k)
    <3>1. Stored(k)' = Stored(k)
      BY <1>1, <1>4, StoredStays
    <3>2. Pending(k) \in Nat
      BY <1>1, PendingIsNat
    <3> QED BY <1>2, <2>1, <3>1, <3>2 DEF KeyStays, KeyIsLost
  <2> QED BY <2>2, KeysMove
<1> QED BY <1>3, <1>4 DEF Saved, SaveFailed

LEMMA PurgeCounts ==
  ASSUME StatisticsInv, NEW j \in Jobs,
         (\E stage \in {"purgeQuotes", "purgeUsers"} : DeleteOldStatistic(j, stage)) \/ Purged(j)
  PROVE  Counters!Next
<1>1. TypeOK /\ now' = now /\ UNCHANGED memory /\ job[j].stats = Nothing
  BY NothingIsNothing DEF StatisticsInv, PurgesOldRows, DeleteOldStatistic, Purged
<1>2. /\ job' \in [Jobs -> Job] /\ job'[j].stats = Nothing
      /\ \A i \in Jobs \ {j} : job'[i] = job[i]
  <2>1. CASE Purged(j)
    BY <1>1, <2>1, Ended DEF Purged
  <2>2. CASE \E stage \in {"purgeQuotes", "purgeUsers"} : DeleteOldStatistic(j, stage)
    <3>1. PICK stage \in {"purgeQuotes", "purgeUsers"} : DeleteOldStatistic(j, stage)
      BY <2>2
    <3> DEFINE next == [Idle EXCEPT !.stage = stage, !.at = now - Week]
    <3>2. now - Week \in 0 .. MaxTime
      BY <1>1, <3>1, BoundsAreNumbers, SMTT(30) DEF TypeOK, DeleteOldStatistic
    <3>3. next \in Job /\ next.stats = Nothing
      BY <3>2, NothingIsNothing DEF Job, Idle
    <3>4. job' = [job EXCEPT ![j] = next]
      BY <3>1 DEF DeleteOldStatistic
    <3> HIDE DEF next
    <3> QED BY <1>1, <3>3, <3>4 DEF TypeOK
  <2> QED BY <2>1, <2>2
<1>3. \A k \in Keys : \A t \in Recent : table'[k][t] = table[k][t]
  <2>1. CASE Purged(j)
    <3>1. job[j].at <= now - Week /\ job[j].at \in Nat /\ now \in Nat
      BY <1>1, <2>1, BoundsAreNumbers DEF StatisticsInv, PurgesOldRows, Purged, TypeOK, Job
    <3>2. \A t \in Recent : t \in 0 .. MaxTime /\ ~(t <= job[j].at)
      BY <3>1, BoundsAreNumbers DEF Recent, AWeekAgo
    <3> QED BY <2>1, <3>2 DEF Purged
  <2>2. CASE UNCHANGED table
    BY <2>2
  <2> QED BY <2>1, <2>2 DEF DeleteOldStatistic
<1>4. ASSUME NEW k \in Keys
      PROVE  KeyStays(k)
  <2>1. Stored(k)' = Stored(k)
    BY <1>1, <1>3, StoredStays
  <2>2. InFlight(k)' = InFlight(k) + Nothing[k] - Nothing[k] /\ Nothing[k] = 0
    BY <1>1, <1>2, InFlightMoves, NothingIsNothing
  <2> QED BY <1>1, <2>1, <2>2, PendingIsNat DEF KeyStays, Pending
<1> QED BY <1>4, KeysMove

LEMMA EndCounts ==
  ASSUME StatisticsInv, End
  PROVE  Counters!Next
<1>1. TypeOK /\ now' = now /\ UNCHANGED table /\ memory' = Nothing /\ job' = [j \in Jobs |-> Idle]
  BY DEF StatisticsInv, End
<1>2. left'.faults # left.faults
  BY <1>1, Spent DEF End, TypeOK
<1>3. ASSUME NEW k \in Keys
      PROVE  KeyStays(k) \/ KeyIsLost(k)
  <2>1. Stored(k)' = Stored(k)
    BY <1>1, StoredStays
  <2>2. Pending(k)' = 0
    <3>1. PICK f : f = [j \in Jobs |-> job'[j].stats[k]]
      OBVIOUS
    <3>2. \A j \in Jobs : f[j] = 0
      BY <1>1, <3>1, NothingIsNothing
    <3>3. InFlight(k)' = SumFunctionOnSet(f, Jobs)
      BY <3>1 DEF InFlight, SumFunction
    <3>4. InFlight(k)' = 0
      BY <3>2, <3>3, SumOfZeros, BoundsAreNumbers
    <3> QED BY <1>1, <3>4, NothingIsNothing DEF Pending
  <2>3. Pending(k) \in Nat
    BY <1>1, PendingIsNat
  <2> QED BY <1>2, <2>1, <2>2, <2>3 DEF KeyStays, KeyIsLost
<1> QED BY <1>3, KeysMove

LEMMA TickCounts ==
  ASSUME StatisticsInv, Tick
  PROVE  Counters!Next
<1>1. TypeOK /\ UNCHANGED <<memory, job>> /\ now \in Nat /\ now' > now
  BY BoundsAreNumbers DEF StatisticsInv, TypeOK, Tick
<1>2. TypeOK'
  BY InvTick DEF StatisticsInv
<1>3. ASSUME NEW k \in Keys
      PROVE  KeyStays(k) \/ KeyExpires(k)
  <2>1. Stored(k)' <= Stored(k)
    BY StoredAges
  <2>2. Pending(k)' = Pending(k)
    BY <1>1, InFlightStays DEF Pending
  <2>3. Stored(k) \in Nat
    BY <1>1, RecentIsFinite
  <2>4. Stored(k)' \in Nat
    BY <1>2, StoredAfterIsNat
  <2> QED BY <1>1, <2>1, <2>2, <2>3, <2>4 DEF KeyStays, KeyExpires
<1> QED BY <1>3, KeysMove

LEMMA StepCounts == StatisticsInv /\ [Next]_vars => [Counters!Next]_Counters!vars
<1> SUFFICES ASSUME StatisticsInv, [Next]_vars
             PROVE  Counters!Next
  OBVIOUS
<1>1. CASE Start \/ UNCHANGED vars
  <2>1. TypeOK /\ now' = now /\ UNCHANGED <<memory, job, table>>
    BY <1>1 DEF StatisticsInv, Start, vars
  <2>2. \A k \in Keys : KeyStays(k)
    BY <2>1, InFlightStays, StoredStays DEF KeyStays, Pending
  <2> QED BY <2>2, KeysMove
<1> QED BY <1>1, EndCounts, TickCounts, IncrementCounts, TakeCounts, SaveCounts, PurgeCounts
        DEF Next, Step

(* For any keys, cron runs at once, retention and bounds: what is counted  *)
(* is stored at most once, is lost only to a failed save or the end of the *)
(* process, and stays for a week.                                          *)
THEOREM CountersAreLossyCounters == Spec => CountersCount
<1> QED BY InitCounts, StepCounts, InvInit, InvStep, PTL DEF Spec, CountersCount, Counters!Spec

-----------------------------------------------------------------------------
(* Timelines *)

LEMMA Multiplied ==
  ASSUME NEW u \in Nat, u > 0, NEW m \in Int, NEW n \in Int
  PROVE  /\ u * m \in Int /\ u * n \in Int
         /\ m <= n <=> u * m <= u * n
         /\ u * (m + 1) = (u * m) + u /\ (u * n) - (u * m) = u * (n - m)
<1>1. u * m \in Int /\ u * n \in Int
  OBVIOUS
<1>2. u * (m + 1) = (u * m) + u /\ (u * n) - (u * m) = u * (n - m)
  OBVIOUS
<1>3. m <= n => u * m <= u * n
  <2> SUFFICES ASSUME m <= n
               PROVE  u * m <= u * n
    OBVIOUS
  <2>1. PICK d \in Nat : d = n - m
    OBVIOUS
  <2>2. u * d >= 0
    BY <2>1
  <2> QED BY <1>1, <1>2, <2>1, <2>2
<1>4. n < m => u * n < u * m
  <2> SUFFICES ASSUME n < m
               PROVE  u * n < u * m
    OBVIOUS
  <2>1. PICK d \in Nat : d > 0 /\ d = m - n
    OBVIOUS
  <2>2. u * d > 0
    BY <2>1
  <2>3. u * d = (u * m) - (u * n)
    BY <2>1
  <2> QED BY <1>1, <2>2, <2>3
<1> QED BY <1>1, <1>2, <1>3, <1>4

LEMMA Divided ==
  ASSUME NEW u \in Nat, u > 0, NEW t \in Int
  PROVE  /\ t \div u \in Int /\ t % u \in Int
         /\ t = (u * (t \div u)) + (t % u) /\ 0 <= t % u /\ t % u < u
OBVIOUS

LEMMA Remainderless ==
  ASSUME NEW u \in Nat, u > 0, NEW n \in Int
  PROVE  (u * n) % u = 0 /\ (u * n) \div u = n
<1>1. PICK t \in Int, q \in Int, r \in Int : t = u * n /\ q = t \div u /\ r = t % u
  OBVIOUS
<1>2. t = (u * q) + r /\ 0 <= r /\ r < u
  BY <1>1, Divided
<1>3. u * n < u * (q + 1) /\ u * q <= u * n
  <2>1. u * (q + 1) = (u * q) + u /\ u * q \in Int /\ u * n \in Int
    BY Multiplied
  <2> QED BY <1>1, <1>2, <2>1
<1>4. ~(q + 1 <= n) /\ q <= n
  <2>1. q + 1 <= n <=> u * (q + 1) <= u * n
    BY Multiplied
  <2>2. q <= n <=> u * q <= u * n
    BY Multiplied
  <2>3. u * (q + 1) \in Int /\ u * n \in Int
    OBVIOUS
  <2> QED BY <1>3, <2>1, <2>2, <2>3
<1>5. q = n
  BY <1>4
<1> QED BY <1>1, <1>2, <1>5

LEMMA UnitsAreNumbers ==
  /\ DOMAIN Units = 1 .. 5 /\ Len(Units) = 5 /\ targetBars \in Nat
  /\ \A i \in 1 .. 5 : Units[i] \in Nat /\ Units[i] > 0
  /\ AWeek = Units[5] /\ Units[4] < AWeek
<1>1. Units \in Seq(Nat \ {0}) /\ Len(Units) = 5
  BY ConstantsAssumption
<1>2. DOMAIN Units = 1 .. 5
  BY <1>1
<1>3. ASSUME NEW i \in 1 .. 5
      PROVE  Units[i] \in Nat \ {0}
  <2>1. i \in 1 .. Len(Units)
    BY <1>1
  <2> QED BY <1>1, <2>1
<1>4. targetBars \in Nat
  BY ConstantsAssumption
<1>5. Units[4] < Units[5]
  BY ConstantsAssumption
<1> QED BY <1>1, <1>2, <1>3, <1>4, <1>5 DEF AWeek

(* The unit a time is in begins at a multiple of it, in its timezone.      *)
LEMMA TruncsAtUnit ==
  ASSUME NEW t \in Int, NEW u \in Nat, u > 0, NEW offset \in Int
  PROVE  \E q \in Int : /\ DateTrunc(t, u, offset) = (u * q) - offset
                        /\ u * q <= t + offset /\ t + offset < u * (q + 1)
<1>1. PICK n \in Int : n = t + offset
  OBVIOUS
<1>2. PICK q \in Int : q = n \div u
  BY <1>1, Divided
<1>3. n = (u * q) + (n % u) /\ 0 <= n % u /\ n % u < u /\ n % u \in Int
  BY <1>2, Divided
<1>4. DateTrunc(t, u, offset) = t - (n % u)
  BY <1>1 DEF DateTrunc
<1>5. u * (q + 1) = (u * q) + u /\ u * q \in Int
  BY Multiplied
<1> QED BY <1>1, <1>3, <1>4, <1>5

LEMMA TruncsInOrder ==
  ASSUME NEW s \in Int, NEW t \in Int, s <= t, NEW u \in Nat, u > 0, NEW offset \in Int
  PROVE  \E n \in Nat : /\ DateTrunc(t, u, offset) = DateTrunc(s, u, offset) + (u * n)
                        /\ u * n < (t - s) + u
<1>1. PICK p \in Int : /\ DateTrunc(s, u, offset) = (u * p) - offset
                       /\ u * p <= s + offset /\ s + offset < u * (p + 1)
  BY TruncsAtUnit
<1>2. PICK q \in Int : /\ DateTrunc(t, u, offset) = (u * q) - offset
                       /\ u * q <= t + offset /\ t + offset < u * (q + 1)
  BY TruncsAtUnit
<1>3. /\ u * p \in Int /\ u * q \in Int /\ u * (q + 1) \in Int /\ u * (p + 1) = (u * p) + u
      /\ (u * q) - (u * p) = u * (q - p)
  BY Multiplied
<1>4. u * p < u * (q + 1)
  BY <1>1, <1>2, <1>3
<1>5. ~(q + 1 <= p)
  BY <1>3, <1>4, Multiplied
<1>6. PICK n \in Nat : n = q - p
  BY <1>5
<1>7. DateTrunc(t, u, offset) = DateTrunc(s, u, offset) + (u * n) /\ u * n < (t - s) + u
  BY <1>1, <1>2, <1>3, <1>6
<1> QED BY <1>7

LEMMA SundayIsInt ==
  ASSUME NEW u, NEW offset \in Int
  PROVE  offset + Sunday(u) \in Int
BY UnitsAreNumbers DEF Sunday

LEMMA StartsInOrder ==
  ASSUME NEW s \in Int, NEW t \in Int, s <= t, NEW u \in Nat, u > 0, NEW offset \in Int
  PROVE  \E n \in Nat : /\ StartOf(t, u, offset) = StartOf(s, u, offset) + (u * n)
                        /\ u * n < (t - s) + u
<1>1. PICK shifted \in Int : shifted = offset + Sunday(u)
  BY SundayIsInt
<1>2. StartOf(t, u, offset) = DateTrunc(t, u, shifted) /\ StartOf(s, u, offset) = DateTrunc(s, u, shifted)
  BY <1>1 DEF StartOf
<1>3. \E n \in Nat : /\ DateTrunc(t, u, shifted) = DateTrunc(s, u, shifted) + (u * n)
                     /\ u * n < (t - s) + u
  BY TruncsInOrder, Zenon
<1> QED BY <1>2, <1>3

LEMMA StartIsInt ==
  ASSUME NEW t \in Int, NEW u \in Nat, u > 0, NEW offset \in Int
  PROVE  StartOf(t, u, offset) \in Int
<1>1. PICK shifted \in Int : shifted = offset + Sunday(u)
  BY SundayIsInt
<1>2. DateTrunc(t, u, shifted) \in Int
  BY TruncsAtUnit
<1> QED BY <1>1, <1>2 DEF StartOf

(* The weeks of the series start a day before those of the join. *)
LEMMA WeeksDiffer ==
  ASSUME NEW s \in Int, NEW e \in Int, NEW t \in Int, NEW offset \in Int
  PROVE  DateTrunc(t, AWeek, offset) \notin TimeSeries(s, e, AWeek, offset)
<1>1. PICK w \in Nat, d \in Nat : w = AWeek /\ d = Units[4] /\ w > 0 /\ 0 < d /\ d < w
  BY UnitsAreNumbers
<1>2. PICK shifted \in Int : shifted = offset + d /\ \A a \in Int : StartOf(a, w, offset) = DateTrunc(a, w, shifted)
  BY <1>1, UnitsAreNumbers DEF StartOf, Sunday
<1>3. PICK p \in Int : /\ DateTrunc(s, w, shifted) = (w * p) - shifted
                      /\ w * p <= s + shifted /\ s + shifted < w * (p + 1)
  BY <1>1, TruncsAtUnit
<1>4. PICK q \in Int : /\ DateTrunc(t, w, offset) = (w * q) - offset
                      /\ w * q <= t + offset /\ t + offset < w * (q + 1)
  BY <1>1, TruncsAtUnit
<1> SUFFICES ASSUME DateTrunc(t, w, offset) \in TimeSeries(s, e, w, offset)
             PROVE  FALSE
  BY <1>1
<1>5. w * p \in Int /\ w * q \in Int /\ (w * q) - (w * p) = w * (q - p) /\ q - p \in Int
  BY Multiplied
<1>6. ((w * (q - p)) + d) % w = 0
  <2>1. (DateTrunc(t, w, offset) - StartOf(s, w, offset)) % w = 0
    BY DEF TimeSeries
  <2>2. DateTrunc(t, w, offset) - StartOf(s, w, offset) = (w * (q - p)) + d
    BY <1>2, <1>3, <1>4, <1>5
  <2> QED BY <2>1, <2>2
<1>7. PICK n \in Int : n = q - p
  BY <1>5
<1>8. PICK m \in Int : (w * n) + d = w * m
  <2>1. PICK x \in Int : x = (w * n) + d
    OBVIOUS
  <2>2. x \div w \in Int /\ x = (w * (x \div w)) + (x % w) /\ x % w = 0
    BY <1>1, <1>6, <1>7, <2>1, Divided
  <2>3. PICK m \in Int : m = x \div w
    BY <2>2
  <2>4. x = w * m
    BY <2>2, <2>3
  <2> QED BY <2>1, <2>4
<1>9. /\ w * n \in Int /\ w * m \in Int /\ w * (n + 1) = (w * n) + w
      /\ m <= n <=> w * m <= w * n
      /\ n + 1 <= m <=> w * (n + 1) <= w * m
  BY <1>1, Multiplied
<1> QED BY <1>1, <1>8, <1>9

(* Each time is in a bar of the series that ends with its own.             *)
LEMMA BarsCover ==
  ASSUME NEW s \in Int, NEW e \in Int, NEW t \in Int, s <= t, t <= e,
         NEW u \in Nat, u > 0, NEW offset \in Int
  PROVE  StartOf(t, u, offset) \in TimeSeries(s, e, u, offset)
<1>1. PICK a \in Int, b \in Int, c \in Int :
        a = StartOf(s, u, offset) /\ b = StartOf(t, u, offset) /\ c = StartOf(e, u, offset)
  BY StartIsInt
<1>2. PICK m \in Nat : b = a + (u * m)
  <2>1. \E m \in Nat : /\ StartOf(t, u, offset) = StartOf(s, u, offset) + (u * m)
                       /\ u * m < (t - s) + u
    BY StartsInOrder, Zenon
  <2> QED BY <1>1, <2>1
<1>3. PICK n \in Nat : c = b + (u * n)
  <2>1. \E n \in Nat : /\ StartOf(e, u, offset) = StartOf(t, u, offset) + (u * n)
                       /\ u * n < (e - t) + u
    BY StartsInOrder, Zenon
  <2> QED BY <1>1, <2>1
<1>4. u * m >= 0 /\ u * n >= 0 /\ u * m \in Int /\ u * n \in Int
  OBVIOUS
<1>5. (u * m) % u = 0
  BY Remainderless
<1>6. b - a = u * m /\ a <= b /\ b <= c
  BY <1>2, <1>3, <1>4
<1> QED BY <1>1, <1>5, <1>6 DEF TimeSeries

LEMMA SeriesIsFinite ==
  ASSUME NEW s \in Int, NEW e \in Int, NEW u \in Nat, u > 0, NEW offset \in Int
  PROVE  IsFiniteSet(TimeSeries(s, e, u, offset))
<1>1. StartOf(s, u, offset) \in Int /\ StartOf(e, u, offset) \in Int
  BY StartIsInt
<1>2. IsFiniteSet(StartOf(s, u, offset) .. StartOf(e, u, offset))
  BY <1>1, FS_Interval
<1>3. TimeSeries(s, e, u, offset) \subseteq StartOf(s, u, offset) .. StartOf(e, u, offset)
  BY DEF TimeSeries
<1> QED BY <1>2, <1>3, FS_Subset

LEMMA SeriesIsShort ==
  ASSUME NEW s \in Int, NEW e \in Int, s <= e, NEW u \in Nat, u > 0, NEW offset \in Int,
         NEW bars \in Nat, e - s <= bars * u
  PROVE  Cardinality(TimeSeries(s, e, u, offset)) <= bars + 1
<1>0. PICK a \in Int, b \in Int : a = StartOf(s, u, offset) /\ b = StartOf(e, u, offset)
  BY StartIsInt
<1>1. PICK n \in Nat : b = a + (u * n) /\ u * n < (e - s) + u
  BY <1>0, StartsInOrder
<1>2. n <= bars
  <2>1. u * n < u * (bars + 1)
    <3>1. u * (bars + 1) = (u * bars) + u /\ u * bars = bars * u /\ u * bars \in Int /\ u * n \in Int
      BY Multiplied
    <3> QED BY <1>1, <3>1
  <2>2. ~(bars + 1 <= n)
    <3>1. bars + 1 <= n <=> u * (bars + 1) <= u * n
      BY Multiplied
    <3> QED BY <2>1, <3>1
  <2> QED BY <2>2
<1> DEFINE T == TimeSeries(s, e, u, offset)
           f == [i \in 0 .. n |-> a + (u * i)]
<1>3. T = {t \in a .. b : (t - a) % u = 0}
  BY <1>0 DEF TimeSeries
<1>4. ASSUME NEW i \in 0 .. n
      PROVE  f[i] \in T
  <2>1. u * i <= u * n /\ u * i \in Int /\ u * i >= 0
    <3>1. u * i <= u * n /\ u * i \in Int
      BY Multiplied
    <3>2. u * 0 <= u * i
      BY Multiplied
    <3> QED BY <3>1, <3>2
  <2>2. (u * i) % u = 0
    BY Remainderless
  <2>3. (a + (u * i)) - a = u * i /\ a + (u * i) \in a .. b
    BY <1>1, <2>1
  <2> QED BY <1>3, <2>2, <2>3
<1>5. ASSUME NEW t \in T
      PROVE  \E i \in 0 .. n : f[i] = t
  <2>1. PICK d \in Nat : d = t - a /\ d % u = 0 /\ d <= u * n
    BY <1>1, <1>3
  <2>2. PICK i \in Int : d = u * i
    <3>1. d \in Int
      BY <2>1
    <3>2. d \div u \in Int /\ d = (u * (d \div u)) + (d % u)
      BY <3>1, Divided
    <3>3. PICK q \in Int : q = d \div u
      BY <3>2
    <3>4. d = u * q
      BY <2>1, <3>1, <3>2, <3>3
    <3> QED BY <3>4
  <2>3. u * 0 <= u * i /\ u * i <= u * n
    BY <2>1, <2>2
  <2>4. 0 <= i /\ i <= n
    <3>1. 0 <= i <=> u * 0 <= u * i
      BY Multiplied
    <3>2. i <= n <=> u * i <= u * n
      BY Multiplied
    <3> QED BY <2>3, <3>1, <3>2
  <2>5. t \in Int /\ a + (u * i) = t
    BY <1>3, <2>1, <2>2
  <2>6. i \in 0 .. n /\ f[i] = a + (u * i)
    BY <2>4
  <2> QED BY <2>5, <2>6
<1>6. f \in Surjection(0 .. n, T)
  BY <1>4, <1>5 DEF Surjection
<1>7. IsFiniteSet(0 .. n) /\ Cardinality(0 .. n) = n + 1
  BY FS_Interval
<1>8. IsFiniteSet(T) /\ Cardinality(T) <= Cardinality(0 .. n)
  BY <1>6, <1>7, FS_Surjection
<1> HIDE DEF T
<1>9. Cardinality(T) \in Nat
  BY <1>8, FS_CardinalityType
<1> QED BY <1>2, <1>7, <1>8, <1>9 DEF T

Unit(s, e) == Units[DetermineInterval(s, e)]

LEMMA IntervalFits ==
  ASSUME NEW s \in Int, NEW e \in Int
  PROVE  /\ Unit(s, e) \in Nat /\ Unit(s, e) > 0
         /\ e - s <= targetBars * AWeek => e - s <= targetBars * Unit(s, e)
<1> DEFINE fits == {i \in DOMAIN Units : e - s <= targetBars * Units[i]}
<1>1. CASE fits = {}
  <2>1. DetermineInterval(s, e) = 5
    BY <1>1, UnitsAreNumbers DEF DetermineInterval
  <2> QED BY <1>1, <2>1, UnitsAreNumbers DEF Unit
<1>2. CASE fits # {}
  <2>1. DetermineInterval(s, e) = Min(fits)
    BY <1>2 DEF DetermineInterval
  <2>2. fits \in SUBSET Nat
    BY UnitsAreNumbers
  <2>3. \E i \in fits : \A j \in fits : ~(j < i)
    <3> HIDE DEF fits
    <3> QED BY <1>2, <2>2, SmallestNat
  <2>4. \E i \in fits : \A j \in fits : i <= j
    <3> HIDE DEF fits
    <3> QED BY <2>2, <2>3
  <2>5. Min(fits) \in fits
    BY <2>4 DEF Min
  <2> QED BY <2>1, <2>5, UnitsAreNumbers DEF Unit
<1> QED BY <1>1, <1>2

LEMMA BetweenIsFinite ==
  ASSUME TypeOK, NEW k \in Keys, NEW s, NEW e
  PROVE  /\ IsFiniteSet({t \in Instants : s <= t /\ t <= e})
         /\ \A t \in {t \in Instants : s <= t /\ t <= e} : table[k][t] \in Nat /\ t \in Int
<1>1. IsFiniteSet(Instants) /\ {t \in Instants : s <= t /\ t <= e} \subseteq Instants
  BY BoundsAreNumbers, FS_Interval
<1>2. \A t \in Instants : table[k][t] \in Nat /\ t \in Int
  BY BoundsAreNumbers DEF TypeOK
<1> QED BY <1>1, <1>2, FS_Subset

LEMMA TimelineSums ==
  ASSUME TypeOK, NEW keys \in SUBSET Keys, NEW s \in Int, NEW e \in Int, NEW offset \in Int,
         Unit(s, e) # AWeek
  PROVE  SumsUp(Timeline(keys, s, e, offset), s, e)
<1> DEFINE bars == TimeSeries(s, e, Unit(s, e), offset)
           times == {t \in Instants : s <= t /\ t <= e}
<1>0. Unit(s, e) \in Nat /\ Unit(s, e) > 0
  BY IntervalFits
<1>1. Timeline(keys, s, e, offset) =
        [k \in keys |-> [bar \in bars |-> Records(k, s, e, Unit(s, e), offset, bar)]]
  BY DEF Timeline, Unit
<1> SUFFICES ASSUME NEW k \in keys
             PROVE  SumFunction(Timeline(keys, s, e, offset)[k]) = Between(k, s, e)
  BY <1>1 DEF SumsUp
<1>2. PICK h : h = [bar \in bars |-> Records(k, s, e, Unit(s, e), offset, bar)]
  OBVIOUS
<1>3. PICK f : f = table[k]
  OBVIOUS
<1>4. PICK own : own = [t \in times |-> DateTrunc(t, Unit(s, e), offset)]
  OBVIOUS
<1>5. IsFiniteSet(times) /\ \A t \in times : f[t] \in Int
  BY <1>3, BetweenIsFinite
<1>6. IsFiniteSet(bars)
  BY <1>0, SeriesIsFinite
<1>7. \A t \in times : own[t] \in bars
  <2> SUFFICES ASSUME NEW t \in times
               PROVE  own[t] \in bars
    OBVIOUS
  <2>1. t \in Int /\ s <= t /\ t <= e
    BY BoundsAreNumbers
  <2>2. StartOf(t, Unit(s, e), offset) = DateTrunc(t, Unit(s, e), offset)
    BY DEF StartOf, Sunday
  <2> QED BY <1>0, <1>4, <2>1, <2>2, BarsCover
<1>8. ASSUME NEW bar \in bars
      PROVE  h[bar] = SumFunctionOnSet(f, {t \in times : own[t] = bar})
  <2>1. {t \in times : own[t] = bar} = {t \in Instants : s <= t /\ t <= e /\ DateTrunc(t, Unit(s, e), offset) = bar}
    BY <1>4
  <2> QED BY <1>2, <1>3, <2>1 DEF Records
<1>9. SumFunction(h) = SumFunctionOnSet(h, bars) /\ Between(k, s, e) = SumFunctionOnSet(f, times)
  BY <1>2, <1>3 DEF SumFunction, Between
<1> HIDE DEF bars, times
<1>a. PICK part : part = [bar \in bars |-> {t \in times : own[t] = bar}]
  OBVIOUS
<1>b. /\ \A bar \in bars : part[bar] \subseteq times /\ \A t \in times : t \in part[bar] <=> own[t] = bar
      /\ \A bar \in bars : h[bar] = SumFunctionOnSet(f, part[bar])
  BY <1>8, <1>a
<1>10. SumFunctionOnSet(h, bars) = SumFunctionOnSet(f, times)
  BY <1>5, <1>6, <1>7, <1>b, SumOfParts
<1> QED BY <1>1, <1>2, <1>9, <1>10

LEMMA TimelineIsShort ==
  ASSUME NEW keys, NEW s \in Int, NEW e \in Int, s <= e, NEW offset \in Int
  PROVE  FewBars(Timeline(keys, s, e, offset), s, e)
<1> SUFFICES ASSUME e - s <= targetBars * AWeek, NEW k \in keys
             PROVE  Cardinality(DOMAIN Timeline(keys, s, e, offset)[k]) <= targetBars + 1
  BY DEF FewBars, Timeline
<1>1. DOMAIN Timeline(keys, s, e, offset)[k] = TimeSeries(s, e, Unit(s, e), offset)
  BY DEF Timeline, Unit
<1>2. Unit(s, e) \in Nat /\ Unit(s, e) > 0 /\ e - s <= targetBars * Unit(s, e)
  BY IntervalFits
<1> QED BY <1>1, <1>2, SeriesIsShort, UnitsAreNumbers

LEMMA WeeksAreEmpty ==
  ASSUME NEW keys, NEW s \in Int, NEW e \in Int, NEW offset \in Int, Unit(s, e) = AWeek
  PROVE  NoRecords(Timeline(keys, s, e, offset))
<1> SUFFICES ASSUME NEW k \in keys, NEW bar \in TimeSeries(s, e, AWeek, offset)
             PROVE  Records(k, s, e, AWeek, offset, bar) = 0
  BY DEF NoRecords, Timeline, Unit
<1>1. {t \in Instants : s <= t /\ t <= e /\ DateTrunc(t, AWeek, offset) = bar} = {}
  <2> SUFFICES ASSUME NEW t \in Instants, DateTrunc(t, AWeek, offset) = bar
               PROVE  FALSE
    OBVIOUS
  <2>1. t \in Int
    BY BoundsAreNumbers
  <2> QED BY <2>1, WeeksDiffer
<1>2. PICK f : f = table[k]
  OBVIOUS
<1>3. SumFunctionOnSet(f, {}) = 0
  BY SumOfZeros, FS_EmptySet
<1> QED BY <1>1, <1>2, <1>3 DEF Records

LEMMA TimelineCounts ==
  ASSUME TypeOK, NEW keys \in SUBSET Keys, NEW s \in Int, NEW e \in Int, s <= e, NEW offset \in Int
  PROVE  CountsAll(Timeline(keys, s, e, offset), s, e)
BY TimelineSums, WeeksAreEmpty, TimelineIsShort DEF CountsAll, Weekly, Unit

(* No row is older than the oldest date, and none is of the future. *)
LEMMA OldestIsBeforeAll ==
  ASSUME StatisticsInv, NEW keys \in SUBSET Keys
  PROVE  /\ OldestStatsDate(keys) \in Int /\ OldestStatsDate(keys) <= now
         /\ \A k \in keys : \A t \in Instants : t < OldestStatsDate(keys) \/ t > now => table[k][t] = 0
<1> DEFINE dates == {t \in Instants : \E k \in keys : table[k][t] > 0}
<1>0. /\ now \in Nat /\ Instants \in SUBSET Nat
      /\ \A k \in keys : \A t \in Instants : table[k][t] \in Nat /\ (t > now => table[k][t] = 0)
  BY BoundsAreNumbers DEF StatisticsInv, TypeOK, NothingAfterNow
<1>1. CASE dates = {}
  <2>1. OldestStatsDate(keys) = now - Week
    BY <1>1 DEF OldestStatsDate
  <2>2. \A k \in keys : \A t \in Instants : table[k][t] = 0
    BY <1>0, <1>1
  <2> QED BY <1>0, <2>1, <2>2, BoundsAreNumbers
<1>2. CASE dates # {}
  <2>1. OldestStatsDate(keys) = Min(dates)
    BY <1>2 DEF OldestStatsDate
  <2>2. dates \in SUBSET Nat
    BY <1>0
  <2>3. \E t \in dates : \A u \in dates : ~(u < t)
    <3> HIDE DEF dates
    <3> QED BY <1>2, <2>2, SmallestNat
  <2>4. \E t \in dates : \A u \in dates : t <= u
    <3> HIDE DEF dates
    <3> QED BY <2>2, <2>3
  <2>5. Min(dates) \in dates /\ \A u \in dates : Min(dates) <= u
    BY <2>4 DEF Min
  <2>6. Min(dates) \in Nat /\ Min(dates) <= now
    <3>1. PICK t \in dates : t = Min(dates)
      BY <2>5
    <3>2. PICK k \in keys : table[k][t] > 0
      OBVIOUS
    <3>3. ~(t > now) /\ t \in Nat
      BY <1>0, <3>2
    <3> QED BY <1>0, <3>1, <3>3
  <2>7. \A k \in keys : \A t \in Instants : t < Min(dates) => table[k][t] = 0
    BY <1>0, <2>5, <2>6
  <2> QED BY <1>0, <2>1, <2>6, <2>7
<1> QED BY <1>1, <1>2

LEMMA WholeTableSums ==
  ASSUME StatisticsInv, NEW keys \in SUBSET Keys, ~Weekly(OldestStatsDate(keys), now)
  PROVE  SumsUp(Timeline(keys, OldestStatsDate(keys), now, 0), 0, MaxTime)
<1>1. PICK s \in Int : s = OldestStatsDate(keys) /\ s <= now
  BY OldestIsBeforeAll
<1>2. TypeOK /\ now \in Int
  BY BoundsAreNumbers DEF StatisticsInv, TypeOK
<1>3. SumsUp(Timeline(keys, s, now, 0), s, now)
  BY <1>1, <1>2, TimelineSums DEF Weekly, Unit
<1>4. ASSUME NEW k \in keys
      PROVE  Between(k, s, now) = Between(k, 0, MaxTime)
  <2> DEFINE part == {t \in Instants : s <= t /\ t <= now}
             all == {t \in Instants : 0 <= t /\ t <= MaxTime}
  <2>1. PICK f : f = table[k]
    OBVIOUS
  <2>2. all = Instants /\ part \subseteq all
    BY BoundsAreNumbers
  <2>3. IsFiniteSet(all) /\ \A t \in all : f[t] \in Int
    BY <1>2, <2>1, BetweenIsFinite
  <2>4. \A t \in all \ part : f[t] = 0
    <3>1. \A t \in Instants : t \in Int
      BY BoundsAreNumbers
    <3> QED BY <1>1, <1>2, <2>1, <2>2, <3>1, OldestIsBeforeAll
  <2>5. Between(k, s, now) = SumFunctionOnSet(f, part) /\ Between(k, 0, MaxTime) = SumFunctionOnSet(f, all)
    BY <2>1 DEF Between
  <2> HIDE DEF part, all
  <2> QED BY <2>2, <2>3, <2>4, <2>5, SumOfPart
<1> QED BY <1>1, <1>3, <1>4 DEF SumsUp, Timeline

(* For any units, number of bars, timezones and rows: the bars of a        *)
(* timeline are few and add up to the rows between its ends, or to all,    *)
(* unless the unit is the week, whose bars are all empty.                  *)
(* (getTimeline and determineInterval of both statistics)                  *)
THEOREM TimelinesCountAll == Spec => []TimelineCountsAll
<1>1. StatisticsInv => TimelineCountsAll
  <2> SUFFICES ASSUME StatisticsInv
               PROVE  TimelineCountsAll
    OBVIOUS
  <2>1. TypeOK /\ now \in Nat /\ Offsets \subseteq Int
    BY BoundsAreNumbers, ConstantsAssumption DEF StatisticsInv, TypeOK
  <2>2. QuoteKeys \in SUBSET Keys /\ UserKeys \in SUBSET Keys /\ TargetKeys \in SUBSET Keys
    BY DEF Keys
  <2>3. ASSUME NEW s \in 0 .. now, NEW e \in s .. now, NEW offset \in Offsets
        PROVE  /\ CountsAll(GetTimeline(s, e, offset), s, e)
               /\ CountsAll(GetConnectionsTimeline(s, e, offset), s, e)
               /\ CountsAll(GetTargetsTimeline(s, e), s, e)
    <3>1. s \in Int /\ e \in Int /\ s <= e /\ offset \in Int
      BY <2>1
    <3> QED BY <2>1, <2>2, <3>1, TimelineCounts DEF GetTimeline, GetConnectionsTimeline, GetTargetsTimeline
  <2>4. ASSUME NEW keys \in {QuoteKeys, UserKeys, TargetKeys}
        PROVE  /\ CountsAll(Timeline(keys, OldestStatsDate(keys), now, 0), OldestStatsDate(keys), now)
               /\ \/ Weekly(OldestStatsDate(keys), now)
                  \/ SumsUp(Timeline(keys, OldestStatsDate(keys), now, 0), 0, MaxTime)
    <3>1. OldestStatsDate(keys) \in Int /\ OldestStatsDate(keys) <= now
      BY <2>2, OldestIsBeforeAll
    <3> QED BY <2>1, <2>2, <3>1, WholeTableSums, TimelineCounts
  <2> QED BY <2>3, <2>4 DEF TimelineCountsAll
<1> QED BY <1>1, InvInit, InvStep, PTL DEF Spec

=============================================================================
