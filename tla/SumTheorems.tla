---------------------------- MODULE SumTheorems ----------------------------
(***************************************************************************)
(* SumFunctionOnSet of the community modules, for finite sets: it is       *)
(* defined by choosing elements one after the other; the lemmas say that   *)
(* it is a sum.  Induction is written with a least counterexample among    *)
(* the subsets of a finite set.                                            *)
(***************************************************************************)
EXTENDS Integers, FiniteSets, Functions, Folds, FiniteSetTheorems, WellFoundedInduction, TLAPS

Pick(s) == CHOOSE x \in s : TRUE
\* The function that SumFunctionOnSet defines by recursion on the subsets of S.
Sums(it, f, S) ==
  it = [s \in SUBSET S |-> IF s = {} THEN 0 ELSE f[Pick(s)] + it[s \ {Pick(s)}]]
TheSums(f, S) == CHOOSE it : Sums(it, f, S)

\* SumFunctionOnSet is that function at S.
LEMMA Unfold == ASSUME NEW f, NEW S PROVE SumFunctionOnSet(f, S) = TheSums(f, S)[S]
BY DEF SumFunctionOnSet, FoldFunctionOnSet, MapThenFoldSet, TheSums, Sums, Pick

\* A set of subsets of a finite set has a least member.
LEMMA Minimal ==
  ASSUME NEW S, IsFiniteSet(S), NEW B, B \subseteq SUBSET S, B # {}
  PROVE  \E T \in B : \A U \in B : U \subseteq T => U = T
<1>1. IsWellFoundedOn(StrictSubsetOrdering(S), SUBSET S)
  BY FS_StrictSubsetOrderingWellFounded, FS_FiniteSubsetsOfFinite
<1>2. PICK T \in B : \A U \in B : <<U, T>> \notin StrictSubsetOrdering(S)
  BY <1>1, WFMin
<1>3. ASSUME NEW U \in B, U \subseteq T PROVE U = T
  <2>1. U \in SUBSET S /\ T \in SUBSET S
    OBVIOUS
  <2> QED BY <1>2, <1>3, <2>1 DEF StrictSubsetOrdering
<1> QED BY <1>3

LEMMA PickIn == ASSUME NEW s, s # {} PROVE Pick(s) \in s
BY DEF Pick

\* Two such functions agree on the subsets they share.
LEMMA Agree ==
  ASSUME NEW f, NEW V, NEW U, U \subseteq V, IsFiniteSet(U), NEW g, NEW h, Sums(g, f, U), Sums(h, f, V)
  PROVE  \A s \in SUBSET U : g[s] = h[s]
<1> DEFINE B == {s \in SUBSET U : g[s] # h[s]}
<1> SUFFICES ASSUME B # {} PROVE FALSE
  OBVIOUS
<1>1. PICK T \in B : \A W \in B : W \subseteq T => W = T
  <2>1. B \subseteq SUBSET U
    OBVIOUS
  <2> HIDE DEF B
  <2> QED BY <2>1, Minimal
<1>2. T \in SUBSET U /\ T \in SUBSET V /\ g[T] # h[T]
  OBVIOUS
<1>3. /\ g[T] = IF T = {} THEN 0 ELSE f[Pick(T)] + g[T \ {Pick(T)}]
      /\ h[T] = IF T = {} THEN 0 ELSE f[Pick(T)] + h[T \ {Pick(T)}]
  BY <1>2 DEF Sums
<1>4. T # {}
  BY <1>2, <1>3
<1>5. T \ {Pick(T)} \in SUBSET U /\ T \ {Pick(T)} # T
  BY <1>2, <1>4, PickIn
<1>6. g[T \ {Pick(T)}] = h[T \ {Pick(T)}]
  BY <1>1, <1>5
<1> QED BY <1>2, <1>3, <1>4, <1>6

\* The recursion defines a function.
LEMMA Defined == ASSUME NEW f, NEW S, IsFiniteSet(S) PROVE Sums(TheSums(f, S), f, S)
<1> DEFINE B == {T \in SUBSET S : ~ \E it : Sums(it, f, T)}
<1>1. SUFFICES ASSUME B # {} PROVE FALSE
  <2>1. S \notin B
    BY <1>1
  <2> QED BY <2>1 DEF TheSums
<1>2. PICK T \in B : \A W \in B : W \subseteq T => W = T
  <2>1. B \subseteq SUBSET S
    OBVIOUS
  <2> HIDE DEF B
  <2> QED BY <1>1, <2>1, Minimal
<1>3. \A s \in SUBSET T : s # T => Sums(TheSums(f, s), f, s)
  <2> SUFFICES ASSUME NEW s \in SUBSET T, s # T PROVE Sums(TheSums(f, s), f, s)
    OBVIOUS
  <2>1. \E it : Sums(it, f, s)
    BY <1>2
  <2> QED BY <2>1 DEF TheSums
<1> DEFINE g == [s \in SUBSET T |->
                   IF s = {} THEN 0 ELSE f[Pick(s)] + TheSums(f, s \ {Pick(s)})[s \ {Pick(s)}]]
<1>4. \A s \in SUBSET T : s # T => g[s] = TheSums(f, s)[s]
  <2> SUFFICES ASSUME NEW s \in SUBSET T, s # T PROVE g[s] = TheSums(f, s)[s]
    OBVIOUS
  <2>1. Sums(TheSums(f, s), f, s) /\ s \in SUBSET s
    BY <1>3
  <2>2. TheSums(f, s)[s] = IF s = {} THEN 0 ELSE f[Pick(s)] + TheSums(f, s)[s \ {Pick(s)}]
    BY <2>1 DEF Sums
  <2>3. ASSUME s # {} PROVE TheSums(f, s)[s \ {Pick(s)}] = TheSums(f, s \ {Pick(s)})[s \ {Pick(s)}]
    <3> DEFINE v == s \ {Pick(s)}
    <3>1. v \in SUBSET T /\ v # T /\ v \subseteq s /\ v \in SUBSET v
      BY <2>3, PickIn
    <3>2. IsFiniteSet(v)
      BY <3>1, <1>2, FS_Subset
    <3> HIDE DEF v
    <3>3. Sums(TheSums(f, v), f, v)
      BY <1>3, <3>1
    <3>4. TheSums(f, v)[v] = TheSums(f, s)[v]
      BY <2>1, <3>1, <3>2, <3>3, Agree
    <3> QED BY <3>4 DEF v
  <2> QED BY <2>2, <2>3
<1>5. Sums(g, f, T)
  <2>1. \A s \in SUBSET T : s # {} => s \ {Pick(s)} \in SUBSET T /\ s \ {Pick(s)} # T
    BY PickIn
  <2>2. \A s \in SUBSET T : s # {} =>
          TheSums(f, s \ {Pick(s)})[s \ {Pick(s)}] = g[s \ {Pick(s)}]
    BY <1>4, <2>1
  <2>3. g = [s \in SUBSET T |-> IF s = {} THEN 0 ELSE f[Pick(s)] + g[s \ {Pick(s)}]]
    BY <2>2
  <2> QED BY <2>3 DEF Sums
<1> QED BY <1>2, <1>5

LEMMA SumStep ==
  ASSUME NEW f, NEW S, IsFiniteSet(S)
  PROVE  SumFunctionOnSet(f, S) =
           IF S = {} THEN 0 ELSE f[Pick(S)] + SumFunctionOnSet(f, S \ {Pick(S)})
<1>1. Sums(TheSums(f, S), f, S) /\ S \in SUBSET S
  BY Defined
<1>2. TheSums(f, S)[S] = IF S = {} THEN 0 ELSE f[Pick(S)] + TheSums(f, S)[S \ {Pick(S)}]
  BY <1>1 DEF Sums
<1> DEFINE v == S \ {Pick(S)}
<1>3. v \subseteq S /\ IsFiniteSet(v) /\ v \in SUBSET v
  BY FS_Subset
<1> HIDE DEF v
<1>4. TheSums(f, v)[v] = TheSums(f, S)[v]
  BY <1>1, <1>3, Defined, Agree
<1> QED BY <1>2, <1>4, Unfold DEF v

\* The sum of integers is an integer, and any element can be split off it.
LEMMA SumInt ==
  ASSUME NEW f, NEW S, IsFiniteSet(S), \A x \in S : f[x] \in Int
  PROVE  SumFunctionOnSet(f, S) \in Int
<1> DEFINE B == {T \in SUBSET S : SumFunctionOnSet(f, T) \notin Int}
<1>1. SUFFICES ASSUME B # {} PROVE FALSE
  OBVIOUS
<1>2. PICK T \in B : \A W \in B : W \subseteq T => W = T
  <2>1. B \subseteq SUBSET S
    OBVIOUS
  <2> HIDE DEF B
  <2> QED BY <1>1, <2>1, Minimal
<1>3. T \in SUBSET S /\ IsFiniteSet(T) /\ SumFunctionOnSet(f, T) \notin Int
  BY FS_Subset
<1>4. SumFunctionOnSet(f, T) = IF T = {} THEN 0 ELSE f[Pick(T)] + SumFunctionOnSet(f, T \ {Pick(T)})
  BY <1>3, SumStep
<1>5. T # {}
  BY <1>3, <1>4
<1>6. Pick(T) \in T /\ T \ {Pick(T)} \in SUBSET S /\ T \ {Pick(T)} # T
  BY <1>3, <1>5, PickIn
<1>7. SumFunctionOnSet(f, T \ {Pick(T)}) \in Int
  BY <1>2, <1>6
<1> QED BY <1>3, <1>4, <1>5, <1>6, <1>7

LEMMA SumRemove ==
  ASSUME NEW f, NEW S, IsFiniteSet(S), \A x \in S : f[x] \in Int
  PROVE  \A x \in S : SumFunctionOnSet(f, S) = f[x] + SumFunctionOnSet(f, S \ {x})
<1> DEFINE Bad(T) == \E x \in T : SumFunctionOnSet(f, T) # f[x] + SumFunctionOnSet(f, T \ {x})
           B == {T \in SUBSET S : Bad(T)}
<1>1. SUFFICES ASSUME B # {} PROVE FALSE
  <2>1. ~Bad(S)
    BY <1>1
  <2> QED BY <2>1
<1>2. PICK T \in B : \A W \in B : W \subseteq T => W = T
  <2>1. B \subseteq SUBSET S
    OBVIOUS
  <2> HIDE DEF B
  <2> QED BY <1>1, <2>1, Minimal
<1>3. PICK x \in T : SumFunctionOnSet(f, T) # f[x] + SumFunctionOnSet(f, T \ {x})
  OBVIOUS
<1>4. PICK y : y = Pick(T)
  OBVIOUS
<1>5. /\ T \in SUBSET S /\ IsFiniteSet(T) /\ y \in T
      /\ SumFunctionOnSet(f, T) = f[y] + SumFunctionOnSet(f, T \ {y})
  BY <1>3, <1>4, FS_Subset, SumStep, PickIn
<1>6. x # y
  BY <1>3, <1>5
<1> DEFINE Tx == T \ {x}
           Ty == T \ {y}
           Txy == (T \ {x}) \ {y}
<1>7. /\ Tx \in SUBSET S /\ Ty \in SUBSET S /\ Txy \in SUBSET S
      /\ Tx # T /\ Ty # T /\ Tx \subseteq T /\ Ty \subseteq T
      /\ y \in Tx /\ x \in Ty /\ Ty \ {x} = Txy /\ Tx \ {y} = Txy
  BY <1>5, <1>6
<1>8. ~Bad(Tx) /\ ~Bad(Ty)
  <2>1. Tx \notin B /\ Ty \notin B
    BY <1>2, <1>7
  <2> QED BY <1>7, <2>1
<1>9. /\ SumFunctionOnSet(f, Tx) = f[y] + SumFunctionOnSet(f, Txy)
      /\ SumFunctionOnSet(f, Ty) = f[x] + SumFunctionOnSet(f, Txy)
  BY <1>7, <1>8
<1>10. /\ SumFunctionOnSet(f, Txy) \in Int /\ f[x] \in Int /\ f[y] \in Int
  <2>1. IsFiniteSet(Txy) /\ \A z \in Txy : f[z] \in Int
    BY <1>7, FS_Subset
  <2> HIDE DEF Txy
  <2> QED BY <1>5, <2>1, SumInt
<1> HIDE DEF Tx, Ty, Txy, Bad, B
<1>11. SumFunctionOnSet(f, T) = f[x] + SumFunctionOnSet(f, Tx)
  BY <1>5, <1>9, <1>10 DEF Ty
<1> QED BY <1>3, <1>11 DEF Tx

\* The sum depends on the values in the set only.
LEMMA SumSame ==
  ASSUME NEW f, NEW g, NEW S, IsFiniteSet(S), \A x \in S : f[x] = g[x]
  PROVE  SumFunctionOnSet(f, S) = SumFunctionOnSet(g, S)
<1> DEFINE B == {T \in SUBSET S : SumFunctionOnSet(f, T) # SumFunctionOnSet(g, T)}
<1>1. SUFFICES ASSUME B # {} PROVE FALSE
  OBVIOUS
<1>2. PICK T \in B : \A W \in B : W \subseteq T => W = T
  <2>1. B \subseteq SUBSET S
    OBVIOUS
  <2> HIDE DEF B
  <2> QED BY <1>1, <2>1, Minimal
<1>3. T \in SUBSET S /\ IsFiniteSet(T) /\ SumFunctionOnSet(f, T) # SumFunctionOnSet(g, T)
  BY FS_Subset
<1>4. /\ SumFunctionOnSet(f, T) = IF T = {} THEN 0 ELSE f[Pick(T)] + SumFunctionOnSet(f, T \ {Pick(T)})
      /\ SumFunctionOnSet(g, T) = IF T = {} THEN 0 ELSE g[Pick(T)] + SumFunctionOnSet(g, T \ {Pick(T)})
  BY <1>3, SumStep
<1>5. T # {}
  BY <1>3, <1>4
<1>6. Pick(T) \in T /\ T \ {Pick(T)} \in SUBSET S /\ T \ {Pick(T)} # T
  BY <1>3, <1>5, PickIn
<1>7. SumFunctionOnSet(f, T \ {Pick(T)}) = SumFunctionOnSet(g, T \ {Pick(T)})
  BY <1>2, <1>6
<1> QED BY <1>3, <1>4, <1>5, <1>6, <1>7

\* A sum of naturals is a natural number and no less than any of them.
LEMMA SumNat ==
  ASSUME NEW f, NEW S, IsFiniteSet(S), \A x \in S : f[x] \in Nat
  PROVE  SumFunctionOnSet(f, S) \in Nat /\ \A x \in S : f[x] <= SumFunctionOnSet(f, S)
<1> DEFINE B == {T \in SUBSET S : SumFunctionOnSet(f, T) \notin Nat}
<1>1. B = {}
  <2> SUFFICES ASSUME B # {} PROVE FALSE
    OBVIOUS
  <2>1. PICK T \in B : \A W \in B : W \subseteq T => W = T
    <3>1. B \subseteq SUBSET S
      OBVIOUS
    <3> HIDE DEF B
    <3> QED BY <3>1, Minimal
  <2>2. T \in SUBSET S /\ IsFiniteSet(T) /\ SumFunctionOnSet(f, T) \notin Nat
    BY FS_Subset
  <2>3. SumFunctionOnSet(f, T) = IF T = {} THEN 0 ELSE f[Pick(T)] + SumFunctionOnSet(f, T \ {Pick(T)})
    BY <2>2, SumStep
  <2>4. T # {}
    BY <2>2, <2>3
  <2>5. Pick(T) \in T /\ T \ {Pick(T)} \in SUBSET S /\ T \ {Pick(T)} # T
    BY <2>2, <2>4, PickIn
  <2>6. SumFunctionOnSet(f, T \ {Pick(T)}) \in Nat
    BY <2>1, <2>5
  <2> QED BY <2>2, <2>3, <2>4, <2>5, <2>6
<1>2. \A T \in SUBSET S : SumFunctionOnSet(f, T) \in Nat
  BY <1>1
<1>3. ASSUME NEW x \in S PROVE f[x] <= SumFunctionOnSet(f, S)
  <2>1. SumFunctionOnSet(f, S) = f[x] + SumFunctionOnSet(f, S \ {x})
    BY SumRemove
  <2>2. S \ {x} \in SUBSET S /\ S \in SUBSET S
    OBVIOUS
  <2> QED BY <1>2, <2>1, <2>2
<1> QED BY <1>2, <1>3

\* A sum of zeros is zero.
LEMMA SumZero ==
  ASSUME NEW f, NEW S, IsFiniteSet(S), \A x \in S : f[x] = 0
  PROVE  SumFunctionOnSet(f, S) = 0
<1> DEFINE B == {T \in SUBSET S : SumFunctionOnSet(f, T) # 0}
<1>1. SUFFICES ASSUME B # {} PROVE FALSE
  OBVIOUS
<1>2. PICK T \in B : \A W \in B : W \subseteq T => W = T
  <2>1. B \subseteq SUBSET S
    OBVIOUS
  <2> HIDE DEF B
  <2> QED BY <1>1, <2>1, Minimal
<1>3. T \in SUBSET S /\ IsFiniteSet(T) /\ SumFunctionOnSet(f, T) # 0
  BY FS_Subset
<1>4. SumFunctionOnSet(f, T) = IF T = {} THEN 0 ELSE f[Pick(T)] + SumFunctionOnSet(f, T \ {Pick(T)})
  BY <1>3, SumStep
<1>5. T # {}
  BY <1>3, <1>4
<1>6. Pick(T) \in T /\ T \ {Pick(T)} \in SUBSET S /\ T \ {Pick(T)} # T
  BY <1>3, <1>5, PickIn
<1>7. SumFunctionOnSet(f, T \ {Pick(T)}) = 0
  BY <1>2, <1>6
<1> QED BY <1>3, <1>4, <1>5, <1>6, <1>7

\* Two sums that differ in what x contributes.
Part(f, S, x) == IF x \in S THEN f[x] ELSE 0
LEMMA SumChange ==
  ASSUME NEW f, NEW S, IsFiniteSet(S), \A y \in S : f[y] \in Int,
         NEW g, NEW T, IsFiniteSet(T), \A y \in T : g[y] \in Int,
         NEW x, S \ {x} = T \ {x}, \A y \in S \ {x} : f[y] = g[y]
  PROVE  SumFunctionOnSet(g, T) = SumFunctionOnSet(f, S) - Part(f, S, x) + Part(g, T, x)
<1> DEFINE R == S \ {x}
<1>1. IsFiniteSet(R) /\ \A y \in R : f[y] \in Int
  BY FS_Subset
<1>2. SumFunctionOnSet(f, R) \in Int /\ SumFunctionOnSet(f, R) = SumFunctionOnSet(g, R)
  <2>1. \A y \in R : f[y] = g[y]
    OBVIOUS
  <2> HIDE DEF R
  <2> QED BY <1>1, <2>1, SumInt, SumSame
<1>3. SumFunctionOnSet(f, S) = Part(f, S, x) + SumFunctionOnSet(f, R) /\ Part(f, S, x) \in Int
  <2>1. CASE x \in S
    BY <2>1, SumRemove DEF Part
  <2>2. CASE x \notin S
    <3>1. R = S
      BY <2>2
    <3> HIDE DEF R
    <3> QED BY <1>2, <2>2, <3>1 DEF Part
  <2> QED BY <2>1, <2>2
<1>4. SumFunctionOnSet(g, T) = Part(g, T, x) + SumFunctionOnSet(g, R) /\ Part(g, T, x) \in Int
  <2>1. CASE x \in T
    <3>1. SumFunctionOnSet(g, T) = g[x] + SumFunctionOnSet(g, T \ {x})
      BY <2>1, SumRemove
    <3> QED BY <2>1, <3>1 DEF Part
  <2>2. CASE x \notin T
    <3>1. R = T
      BY <2>2
    <3> HIDE DEF R
    <3> QED BY <1>2, <2>2, <3>1 DEF Part
  <2> QED BY <2>1, <2>2
<1> HIDE DEF R
<1> QED BY <1>2, <1>3, <1>4
=============================================================================
