---------------------------- MODULE SumTheorems ----------------------------
(***************************************************************************)
(* Facts about SumFunctionOnSet(f, S), the sum of f over a finite set S,   *)
(* with which the models add up risks and lots.                            *)
(*                                                                         *)
(* The operator is a recursive function on the subsets of S that takes out *)
(* an arbitrary element, so each fact needs an induction over finite sets. *)
(* It is done by the smallest counterexample: a nonempty collection of     *)
(* subsets of a finite set has a member none of whose proper subsets       *)
(* belongs to it.                                                          *)
(***************************************************************************)
EXTENDS Integers, FiniteSets, Functions, FiniteSetTheorems, TLAPS

---------------------------------------------------------------------------
(* The definition of the sum, unfolded.                                    *)

\* The element the sum takes out first.
Pick(s) == CHOOSE x \in s : TRUE

\* g gives the sum of f on each subset of S.
Adds(f, S, g) ==
    g = [s \in SUBSET S |-> IF s = {} THEN 0 ELSE f[Pick(s)] + g[s \ {Pick(s)}]]

Partial(f, S) == CHOOSE g : Adds(f, S, g)

\* The sum is defined as the value on S of such a function.
LEMMA SumIsPartial ==
    ASSUME NEW f, NEW S
    PROVE  SumFunctionOnSet(f, S) = Partial(f, S)[S]
BY DEF SumFunctionOnSet, FoldFunctionOnSet, MapThenFoldSet, Partial, Adds, Pick

\* A nonempty set gives up one of its own elements.
LEMMA PickIn ==
    ASSUME NEW S, S # {}
    PROVE  Pick(S) \in S
BY DEF Pick

\* The smallest counterexample.
LEMMA Smallest ==
    ASSUME NEW S, IsFiniteSet(S), NEW C, C \subseteq SUBSET S, C # {}
    PROVE  \E T \in C : \A U \in SUBSET T : U # T => U \notin C
<1>1. C \subseteq FiniteSubsetsOf(S)
  BY FS_FiniteSubsetsOfFinite
<1>2. PICK T \in C : \A U \in C : ~ (<<U, T>> \in StrictSubsetOrdering(S))
  BY <1>1, FS_StrictSubsetOrderingWellFounded, WFMin
<1>3. ASSUME NEW U \in SUBSET T, U # T, U \in C
      PROVE  FALSE
  <2>1. <<U, T>> \in (SUBSET S) \X (SUBSET S)
    OBVIOUS
  <2>2. <<U, T>> \in StrictSubsetOrdering(S)
    BY <2>1, <1>3 DEF StrictSubsetOrdering
  <2> QED
    BY <1>2, <1>3, <2>2
<1> QED
  BY <1>3

\* The recursion, at a subset of S.
LEMMA AddsAt ==
    ASSUME NEW f, NEW S, NEW g, Adds(f, S, g), NEW s \in SUBSET S
    PROVE  /\ s = {} => g[s] = 0
           /\ s # {} => g[s] = f[Pick(s)] + g[s \ {Pick(s)}]
BY DEF Adds

\* The recursion, at S itself.
LEMMA AddsWhole ==
    ASSUME NEW f, NEW S, NEW g, Adds(f, S, g), S # {}
    PROVE  g[S] = f[Pick(S)] + g[S \ {Pick(S)}]
BY AddsAt

\* Two such functions agree where both are defined.
LEMMA AddsAgree ==
    ASSUME NEW f, NEW S, NEW T, IsFiniteSet(S), IsFiniteSet(T), NEW g, NEW h, Adds(f, S, g), Adds(f, T, h)
    PROVE  \A s \in SUBSET (S \cap T) : g[s] = h[s]
<1> DEFINE C == {s \in SUBSET (S \cap T) : g[s] # h[s]}
<1>1. SUFFICES ASSUME C # {}
               PROVE  FALSE
  OBVIOUS
<1>2. IsFiniteSet(S \cap T)
  BY FS_Intersection
<1>3. PICK s \in C : \A U \in SUBSET s : U # s => U \notin C
  <2>1. C \subseteq SUBSET (S \cap T)
    OBVIOUS
  <2> HIDE DEF C
  <2> QED
    BY <1>1, <1>2, <2>1, Smallest
<1>4. s \in SUBSET S /\ s \in SUBSET T /\ g[s] # h[s]
  OBVIOUS
<1>5. s # {}
  BY <1>4, AddsAt
<1>6. s \ {Pick(s)} \in SUBSET s /\ s \ {Pick(s)} # s
  BY <1>5, PickIn
<1>7. g[s \ {Pick(s)}] = h[s \ {Pick(s)}]
  BY <1>3, <1>6
<1>8. g[s] = f[Pick(s)] + g[s \ {Pick(s)}]
  BY <1>4, <1>5, AddsAt
<1>9. h[s] = f[Pick(s)] + h[s \ {Pick(s)}]
  BY <1>4, <1>5, AddsAt
<1> QED
  BY <1>4, <1>7, <1>8, <1>9

\* The sums over a subset S of T are found in those over T.
LEMMA PartialAt ==
    ASSUME NEW f, NEW T, IsFiniteSet(T), NEW S \in SUBSET T,
           Adds(f, T, Partial(f, T)), Adds(f, S, Partial(f, S))
    PROVE  Partial(f, T)[S] = Partial(f, S)[S]
<1>1. IsFiniteSet(S)
  BY FS_Subset
<1>2. S \in SUBSET (S \cap T)
  OBVIOUS
<1> HIDE DEF Partial
<1> QED
  BY <1>1, <1>2, AddsAgree

\* Such a function exists, for every f and every finite S.
LEMMA PartialExists ==
    ASSUME NEW f, NEW S, IsFiniteSet(S)
    PROVE  Adds(f, S, Partial(f, S))
<1> DEFINE C == {s \in SUBSET S : ~ Adds(f, s, Partial(f, s))}
<1>1. SUFFICES ASSUME C # {}
               PROVE  FALSE
  OBVIOUS
<1>2. PICK T \in C : \A U \in SUBSET T : U # T => U \notin C
  <2>1. C \subseteq SUBSET S
    OBVIOUS
  <2> HIDE DEF C
  <2> QED
    BY <1>1, <2>1, Smallest
<1>3. T \in SUBSET S /\ ~ Adds(f, T, Partial(f, T))
  OBVIOUS
<1>4. ASSUME NEW U \in SUBSET T, U # T
      PROVE  Adds(f, U, Partial(f, U)) /\ IsFiniteSet(U)
  BY <1>2, <1>3, <1>4, FS_Subset
<1> DEFINE less(s) == s \ {Pick(s)}
           h == [s \in SUBSET T |-> IF s = {} THEN 0 ELSE f[Pick(s)] + Partial(f, less(s))[less(s)]]
<1>5. ASSUME NEW s \in SUBSET T, s # {}
      PROVE  h[less(s)] = Partial(f, less(s))[less(s)]
  <2>1. less(s) \in SUBSET T /\ less(s) # T
    BY <1>5, PickIn
  <2>2. Adds(f, less(s), Partial(f, less(s))) /\ IsFiniteSet(less(s))
    BY <2>1, <1>4
  <2>3. CASE less(s) = {}
    <3>1. Partial(f, less(s))[less(s)] = 0
      BY <2>2, <2>3, AddsAt
    <3> QED
      BY <2>1, <2>3, <3>1
  <2>4. CASE less(s) # {}
    <3>1. Partial(f, less(s))[less(s)] = f[Pick(less(s))] + Partial(f, less(s))[less(less(s))]
      BY <2>2, <2>4, AddsWhole
    <3>2. less(less(s)) \in SUBSET less(s) /\ less(less(s)) \in SUBSET T /\ less(less(s)) # T
      BY <2>1, <2>4, PickIn
    <3>3. Adds(f, less(less(s)), Partial(f, less(less(s))))
      BY <3>2, <1>4
    <3>4. Partial(f, less(s))[less(less(s))] = Partial(f, less(less(s)))[less(less(s))]
      BY <2>2, <3>2, <3>3, PartialAt
    <3>5. h[less(s)] = f[Pick(less(s))] + Partial(f, less(less(s)))[less(less(s))]
      BY <2>1, <2>4
    <3> QED
      BY <3>1, <3>4, <3>5
  <2> QED
    BY <2>3, <2>4
<1>6. h = [s \in SUBSET T |-> IF s = {} THEN 0 ELSE f[Pick(s)] + h[less(s)]]
  <2>1. \A s \in SUBSET T :
           (IF s = {} THEN 0 ELSE f[Pick(s)] + Partial(f, less(s))[less(s)])
           = (IF s = {} THEN 0 ELSE f[Pick(s)] + h[less(s)])
    BY <1>5
  <2> QED
    BY <2>1
<1>7. Adds(f, T, h)
  BY <1>6 DEF Adds
<1>8. Adds(f, T, Partial(f, T))
  <2> HIDE DEF h
  <2> QED
    BY <1>7 DEF Partial
<1> QED
  BY <1>3, <1>8

---------------------------------------------------------------------------
(* The facts about sums.                                                   *)

\* Nothing adds up to zero.
LEMMA SumEmpty ==
    ASSUME NEW f
    PROVE  SumFunctionOnSet(f, {}) = 0
BY FS_EmptySet, PartialExists, AddsAt, SumIsPartial

\* A sum, one element taken out.
LEMMA SumPick ==
    ASSUME NEW f, NEW S, IsFiniteSet(S), S # {}
    PROVE  SumFunctionOnSet(f, S) = f[Pick(S)] + SumFunctionOnSet(f, S \ {Pick(S)})
<1> DEFINE R == S \ {Pick(S)}
<1>1. IsFiniteSet(R) /\ R \in SUBSET S
  BY FS_Subset
<1>2. Adds(f, S, Partial(f, S)) /\ Adds(f, R, Partial(f, R))
  BY <1>1, PartialExists
<1>3. Partial(f, S)[S] = f[Pick(S)] + Partial(f, S)[R]
  BY <1>2, AddsAt
<1>4. Partial(f, S)[R] = Partial(f, R)[R]
  BY <1>1, <1>2, PartialAt
<1> QED
  BY <1>3, <1>4, SumIsPartial

\* A sum of integers is an integer.
LEMMA SumInt ==
    ASSUME NEW f, NEW S, IsFiniteSet(S), \A x \in S : f[x] \in Int
    PROVE  SumFunctionOnSet(f, S) \in Int
<1> DEFINE C == {T \in SUBSET S : SumFunctionOnSet(f, T) \notin Int}
<1>1. SUFFICES ASSUME C # {}
               PROVE  FALSE
  OBVIOUS
<1>2. PICK T \in C : \A U \in SUBSET T : U # T => U \notin C
  <2>1. C \subseteq SUBSET S
    OBVIOUS
  <2> HIDE DEF C
  <2> QED
    BY <1>1, <2>1, Smallest
<1>3. IsFiniteSet(T) /\ T \in SUBSET S
  BY FS_Subset
<1>4. T # {}
  BY SumEmpty
<1>5. Pick(T) \in T
  BY <1>4, PickIn
<1>6. SumFunctionOnSet(f, T \ {Pick(T)}) \in Int
  BY <1>2, <1>3, <1>5
<1>7. SumFunctionOnSet(f, T) = f[Pick(T)] + SumFunctionOnSet(f, T \ {Pick(T)})
  BY <1>3, <1>4, SumPick
<1> QED
  BY <1>3, <1>5, <1>6, <1>7

\* Any element may be the one taken out.
LEMMA SumSplit ==
    ASSUME NEW f, NEW S, IsFiniteSet(S), \A x \in S : f[x] \in Int, NEW x \in S
    PROVE  SumFunctionOnSet(f, S) = f[x] + SumFunctionOnSet(f, S \ {x})
<1> DEFINE Splits(T, y) == SumFunctionOnSet(f, T) = f[y] + SumFunctionOnSet(f, T \ {y})
           C == {T \in SUBSET S : \E y \in T : ~ Splits(T, y)}
<1>1. SUFFICES ASSUME C # {}
               PROVE  FALSE
  OBVIOUS
<1>2. PICK T \in C : \A U \in SUBSET T : U # T => U \notin C
  <2>1. C \subseteq SUBSET S
    OBVIOUS
  <2> HIDE DEF C
  <2> QED
    BY <1>1, <2>1, Smallest
<1>3. PICK y \in T : ~ Splits(T, y)
  OBVIOUS
<1> DEFINE z == Pick(T)
<1>4. IsFiniteSet(T) /\ T \in SUBSET S /\ T # {}
  BY FS_Subset
<1>5. z \in T /\ Splits(T, z)
  BY <1>4, PickIn, SumPick
<1>6. y # z
  BY <1>3, <1>5
<1> HIDE DEF z
<1>7. Splits(T \ {z}, y)
  BY <1>2, <1>4, <1>5, <1>6
<1>8. Splits(T \ {y}, z)
  BY <1>2, <1>4, <1>5, <1>6
<1>9. (T \ {z}) \ {y} = (T \ {y}) \ {z}
  OBVIOUS
<1>10. f[y] \in Int /\ f[z] \in Int /\ SumFunctionOnSet(f, (T \ {y}) \ {z}) \in Int
  <2>1. IsFiniteSet((T \ {y}) \ {z})
    BY <1>4, FS_Subset
  <2> QED
    BY <1>4, <1>5, <2>1, SumInt
<1>11. SumFunctionOnSet(f, T) = f[z] + (f[y] + SumFunctionOnSet(f, (T \ {y}) \ {z}))
  BY <1>5, <1>7, <1>9
<1>12. SumFunctionOnSet(f, T \ {y}) = f[z] + SumFunctionOnSet(f, (T \ {y}) \ {z})
  BY <1>8
<1>13. f[z] + (f[y] + SumFunctionOnSet(f, (T \ {y}) \ {z})) = f[y] + (f[z] + SumFunctionOnSet(f, (T \ {y}) \ {z}))
  BY <1>10
<1> QED
  BY <1>3, <1>11, <1>12, <1>13

\* A sum grows with its terms.
LEMMA SumLeq ==
    ASSUME NEW f, NEW g, NEW S, IsFiniteSet(S),
           \A x \in S : f[x] \in Int /\ g[x] \in Int /\ f[x] <= g[x]
    PROVE  SumFunctionOnSet(f, S) <= SumFunctionOnSet(g, S)
<1> DEFINE C == {T \in SUBSET S : ~ (SumFunctionOnSet(f, T) <= SumFunctionOnSet(g, T))}
<1>1. SUFFICES ASSUME C # {}
               PROVE  FALSE
  OBVIOUS
<1>2. PICK T \in C : \A U \in SUBSET T : U # T => U \notin C
  <2>1. C \subseteq SUBSET S
    OBVIOUS
  <2> HIDE DEF C
  <2> QED
    BY <1>1, <2>1, Smallest
<1>3. IsFiniteSet(T) /\ T \in SUBSET S
  BY FS_Subset
<1>4. T # {}
  BY SumEmpty
<1>5. PICK x \in T : TRUE
  BY <1>4
<1>6. IsFiniteSet(T \ {x})
  BY <1>3, FS_Subset
<1>7. SumFunctionOnSet(f, T \ {x}) <= SumFunctionOnSet(g, T \ {x})
  BY <1>2, <1>3
<1>8. SumFunctionOnSet(f, T \ {x}) \in Int /\ SumFunctionOnSet(g, T \ {x}) \in Int
  BY <1>3, <1>6, SumInt
<1>9. SumFunctionOnSet(f, T) = f[x] + SumFunctionOnSet(f, T \ {x}) /\ SumFunctionOnSet(g, T) = g[x] + SumFunctionOnSet(g, T \ {x})
  BY <1>3, SumSplit
<1>10. f[x] \in Int /\ g[x] \in Int /\ f[x] <= g[x]
  BY <1>3
<1>11. ~ (SumFunctionOnSet(f, T) <= SumFunctionOnSet(g, T))
  OBVIOUS
<1> HIDE DEF C
<1> QED
  BY <1>7, <1>8, <1>9, <1>10, <1>11

\* The sum over two disjoint sets.
LEMMA SumUnion ==
    ASSUME NEW f, NEW S, NEW T, IsFiniteSet(S), IsFiniteSet(T), S \cap T = {},
           \A x \in S \cup T : f[x] \in Int
    PROVE  SumFunctionOnSet(f, S \cup T) = SumFunctionOnSet(f, S) + SumFunctionOnSet(f, T)
<1> DEFINE C == {U \in SUBSET S : SumFunctionOnSet(f, U \cup T) # SumFunctionOnSet(f, U) + SumFunctionOnSet(f, T)}
<1>1. SUFFICES ASSUME C # {}
               PROVE  FALSE
  OBVIOUS
<1>2. PICK U \in C : \A V \in SUBSET U : V # U => V \notin C
  <2>1. C \subseteq SUBSET S
    OBVIOUS
  <2> HIDE DEF C
  <2> QED
    BY <1>1, <2>1, Smallest
<1>3. IsFiniteSet(U) /\ U \in SUBSET S
  BY FS_Subset
<1>4. SumFunctionOnSet(f, T) \in Int
  BY SumInt
<1>5. U # {}
  BY <1>4, SumEmpty
<1>6. PICK x \in U : TRUE
  BY <1>5
<1>7. IsFiniteSet(U \ {x}) /\ IsFiniteSet(U \cup T)
  BY <1>3, FS_Subset, FS_Union
<1>8. SumFunctionOnSet(f, (U \ {x}) \cup T) = SumFunctionOnSet(f, U \ {x}) + SumFunctionOnSet(f, T)
  BY <1>2, <1>3
<1>9. SumFunctionOnSet(f, U \ {x}) \in Int /\ f[x] \in Int
  BY <1>3, <1>7, SumInt
<1>10. SumFunctionOnSet(f, U) = f[x] + SumFunctionOnSet(f, U \ {x})
  BY <1>3, SumSplit
<1>11. SumFunctionOnSet(f, U \cup T) = f[x] + SumFunctionOnSet(f, (U \cup T) \ {x})
  BY <1>3, <1>7, SumSplit
<1>12. (U \cup T) \ {x} = (U \ {x}) \cup T
  BY <1>3
<1>13. SumFunctionOnSet(f, U \cup T) # SumFunctionOnSet(f, U) + SumFunctionOnSet(f, T)
  OBVIOUS
<1>14. SumFunctionOnSet(f, U \cup T) = f[x] + (SumFunctionOnSet(f, U \ {x}) + SumFunctionOnSet(f, T))
  BY <1>8, <1>11, <1>12
<1>15. f[x] + (SumFunctionOnSet(f, U \ {x}) + SumFunctionOnSet(f, T)) = (f[x] + SumFunctionOnSet(f, U \ {x})) + SumFunctionOnSet(f, T)
  BY <1>4, <1>9
<1> HIDE DEF C
<1> QED
  BY <1>10, <1>13, <1>14, <1>15

\* Only the terms matter: functions that agree on S have the same sum over S.
LEMMA SumSame ==
    ASSUME NEW f, NEW g, NEW S, IsFiniteSet(S), \A x \in S : f[x] \in Int /\ g[x] = f[x]
    PROVE  SumFunctionOnSet(g, S) = SumFunctionOnSet(f, S)
<1>1. SumFunctionOnSet(f, S) \in Int /\ SumFunctionOnSet(g, S) \in Int
  BY SumInt
<1>2. SumFunctionOnSet(f, S) <= SumFunctionOnSet(g, S)
  BY SumLeq
<1>3. SumFunctionOnSet(g, S) <= SumFunctionOnSet(f, S)
  BY SumLeq
<1> QED
  BY <1>1, <1>2, <1>3

\* A sum of zeros.
LEMMA SumZero ==
    ASSUME NEW f, NEW S, IsFiniteSet(S), \A x \in S : f[x] = 0
    PROVE  SumFunctionOnSet(f, S) = 0
<1> DEFINE C == {T \in SUBSET S : SumFunctionOnSet(f, T) # 0}
<1>1. SUFFICES ASSUME C # {}
               PROVE  FALSE
  OBVIOUS
<1>2. PICK T \in C : \A U \in SUBSET T : U # T => U \notin C
  <2>1. C \subseteq SUBSET S
    OBVIOUS
  <2> HIDE DEF C
  <2> QED
    BY <1>1, <2>1, Smallest
<1>3. IsFiniteSet(T) /\ T \in SUBSET S /\ T # {}
  BY FS_Subset, SumEmpty
<1>4. SumFunctionOnSet(f, T) = f[Pick(T)] + SumFunctionOnSet(f, T \ {Pick(T)})
  BY <1>3, SumPick
<1>5. Pick(T) \in T /\ SumFunctionOnSet(f, T \ {Pick(T)}) = 0
  BY <1>2, <1>3, PickIn
<1> QED
  BY <1>3, <1>4, <1>5

\* A sum of natural numbers is one.
LEMMA SumNat ==
    ASSUME NEW f, NEW S, IsFiniteSet(S), \A x \in S : f[x] \in Nat
    PROVE  SumFunctionOnSet(f, S) \in Nat
<1> DEFINE zero == [x \in S |-> 0]
<1>1. \A x \in S : zero[x] = 0
  OBVIOUS
<1>2. SumFunctionOnSet(zero, S) = 0
  <2> HIDE DEF zero
  <2> QED
    BY <1>1, SumZero
<1>3. SumFunctionOnSet(zero, S) <= SumFunctionOnSet(f, S)
  <2> HIDE DEF zero
  <2>1. \A x \in S : zero[x] \in Int /\ f[x] \in Int /\ zero[x] <= f[x]
    BY <1>1
  <2> QED
    BY <2>1, SumLeq
<1>4. SumFunctionOnSet(f, S) \in Int
  BY SumInt
<1> QED
  BY <1>2, <1>3, <1>4

\* More natural numbers add up to more.
LEMMA SumSubset ==
    ASSUME NEW f, NEW S, IsFiniteSet(S), \A x \in S : f[x] \in Nat, NEW T \in SUBSET S
    PROVE  SumFunctionOnSet(f, T) <= SumFunctionOnSet(f, S)
<1>1. IsFiniteSet(T) /\ IsFiniteSet(S \ T)
  BY FS_Subset
<1>2. S = T \cup (S \ T) /\ T \cap (S \ T) = {}
  OBVIOUS
<1>3. SumFunctionOnSet(f, T \cup (S \ T)) = SumFunctionOnSet(f, T) + SumFunctionOnSet(f, S \ T)
  BY <1>1, <1>2, SumUnion
<1>4. SumFunctionOnSet(f, T) \in Nat /\ SumFunctionOnSet(f, S \ T) \in Nat
  BY <1>1, SumNat
<1>5. SumFunctionOnSet(f, S) = SumFunctionOnSet(f, T) + SumFunctionOnSet(f, S \ T)
  BY <1>2, <1>3
<1> QED
  BY <1>4, <1>5

\* What two sets cover adds up to no more than both together.
LEMMA SumCover ==
    ASSUME NEW f, NEW S, NEW T, NEW U, IsFiniteSet(S), IsFiniteSet(T), U \subseteq S \cup T,
           \A x \in S \cup T : f[x] \in Nat
    PROVE  SumFunctionOnSet(f, U) <= SumFunctionOnSet(f, S) + SumFunctionOnSet(f, T)
<1>1. IsFiniteSet(S \cup T) /\ IsFiniteSet(T \ S) /\ IsFiniteSet(U)
  BY FS_Union, FS_Subset
<1>2. S \cup T = S \cup (T \ S) /\ S \cap (T \ S) = {}
  OBVIOUS
<1>3. SumFunctionOnSet(f, U) <= SumFunctionOnSet(f, S \cup T)
  BY <1>1, SumSubset
<1>4. SumFunctionOnSet(f, S \cup (T \ S)) = SumFunctionOnSet(f, S) + SumFunctionOnSet(f, T \ S)
  BY <1>1, <1>2, SumUnion
<1>5. SumFunctionOnSet(f, T \ S) <= SumFunctionOnSet(f, T)
  BY SumSubset
<1>6. /\ SumFunctionOnSet(f, U) \in Nat /\ SumFunctionOnSet(f, S) \in Nat
      /\ SumFunctionOnSet(f, T) \in Nat /\ SumFunctionOnSet(f, T \ S) \in Nat
  BY <1>1, SumNat
<1>7. SumFunctionOnSet(f, S \cup T) = SumFunctionOnSet(f, S \cup (T \ S))
  BY <1>2
<1>8. SumFunctionOnSet(f, U) <= SumFunctionOnSet(f, S) + SumFunctionOnSet(f, T \ S)
  BY <1>3, <1>4, <1>7
<1> QED
  BY <1>5, <1>6, <1>8

\* A sum with one term changed.
LEMMA SumExcept ==
    ASSUME NEW f, NEW g, NEW S, IsFiniteSet(S), \A x \in S : f[x] \in Int /\ g[x] \in Int,
           NEW y \in S, \A x \in S \ {y} : g[x] = f[x]
    PROVE  SumFunctionOnSet(g, S) = SumFunctionOnSet(f, S) - f[y] + g[y]
<1>1. IsFiniteSet(S \ {y})
  BY FS_Subset
<1>2. SumFunctionOnSet(g, S \ {y}) = SumFunctionOnSet(f, S \ {y})
  BY <1>1, SumSame
<1>3. SumFunctionOnSet(f, S) = f[y] + SumFunctionOnSet(f, S \ {y})
  BY SumSplit
<1>4. SumFunctionOnSet(g, S) = g[y] + SumFunctionOnSet(g, S \ {y})
  BY SumSplit
<1>5. SumFunctionOnSet(f, S \ {y}) \in Int /\ f[y] \in Int /\ g[y] \in Int
  BY <1>1, SumInt
<1> QED
  BY <1>2, <1>3, <1>4, <1>5
============================================================================
