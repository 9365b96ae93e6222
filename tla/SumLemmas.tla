------------------------------ MODULE SumLemmas ------------------------------
(***************************************************************************)
(* Sums of functions over finite sets, and of sequences: what the proofs   *)
(* about counters (spans decided, calls observed, bytes queued) cite.      *)
(*                                                                         *)
(* SumFunctionOnSet is defined by a recursive function over the subsets of *)
(* the set, which exists because the strict subset relation on the subsets *)
(* of a finite set is well-founded; the same relation gives the induction. *)
(***************************************************************************)
EXTENDS Integers, Sequences, FiniteSets, Functions, FiniteSetTheorems, TLAPS

\* The element a sum takes first, and the function its definition recurses by.
Pick(s) == CHOOSE x \in s : TRUE
Sums(f, S, g) == g = [s \in SUBSET S |-> IF s = {} THEN 0 ELSE f[Pick(s)] + g[s \ {Pick(s)}]]
SumTable(f, S) == CHOOSE g : Sums(f, S, g)

\* SumFunctionOnSet is the value of that function at the whole set.
LEMMA SumUnfold == ASSUME NEW f, NEW S PROVE SumFunctionOnSet(f, S) = SumTable(f, S)[S]
BY DEF SumFunctionOnSet, FoldFunctionOnSet, MapThenFoldSet, SumTable, Sums, Pick

\* Induction over the subsets of a finite set.
LEMMA SubsetsInduct ==
  ASSUME NEW S, IsFiniteSet(S), NEW A,
         \A T \in SUBSET S : (\A U \in SUBSET T : U # T => U \in A) => T \in A
  PROVE  \A T \in SUBSET S : T \in A
<1> DEFINE R == StrictSubsetOrdering(S)
<1> DEFINE B == {T \in SUBSET S : T \notin A}
<1> SUFFICES ASSUME B # {} PROVE FALSE
  OBVIOUS
<1>1. IsWellFoundedOn(R, SUBSET S)
  <2>1. FiniteSubsetsOf(S) = SUBSET S
    BY FS_FiniteSubsetsOfFinite
  <2>2. IsWellFoundedOn(StrictSubsetOrdering(S), FiniteSubsetsOf(S))
    BY FS_StrictSubsetOrderingWellFounded
  <2> QED BY <2>1, <2>2, Zenon
<1> HIDE DEF R
<1>2. PICK x \in B : \A y \in B : <<y, x>> \notin R
  <2> HIDE DEF B
  <2>1. B \subseteq SUBSET S BY DEF B
  <2> QED BY <1>1, <2>1, WFMin
<1>3. \A U \in SUBSET x : U # x => U \in A
  BY <1>2 DEF R, StrictSubsetOrdering
<1> QED BY <1>2, <1>3

\* Two such functions agree on the sets both are defined on.
LEMMA SumsAgree ==
  ASSUME NEW f, NEW S, IsFiniteSet(S), NEW T, NEW U, S \subseteq T, S \subseteq U,
         NEW g, Sums(f, T, g), NEW h, Sums(f, U, h)
  PROVE  g[S] = h[S]
<1> DEFINE A == {V \in SUBSET S : g[V] = h[V]}
<1>1. ASSUME NEW V \in SUBSET S, \A W \in SUBSET V : W # V => W \in A PROVE V \in A
  <2>1. CASE V = {}
    BY <2>1 DEF Sums
  <2>2. CASE V # {}
    <3>1. Pick(V) \in V BY <2>2 DEF Pick
    <3> DEFINE W == V \ {Pick(V)}
    <3>2. W \in A BY <3>1, <1>1
    <3>3. V \in SUBSET T /\ V \in SUBSET U OBVIOUS
    <3>4. g[V] = f[Pick(V)] + g[W] BY <2>2, <3>3 DEF Sums
    <3>5. h[V] = f[Pick(V)] + h[W] BY <2>2, <3>3 DEF Sums
    <3> QED BY <3>2, <3>4, <3>5
  <2> QED BY <2>1, <2>2
<1> HIDE DEF A
<1>2. \A V \in SUBSET S : V \in A
  BY <1>1, SubsetsInduct
<1> QED BY <1>2 DEF A

\* There is such a function for every finite set.
LEMMA SumsExist ==
  ASSUME NEW f, NEW S, IsFiniteSet(S)
  PROVE  Sums(f, S, SumTable(f, S))
<1> DEFINE A == {T \in SUBSET S : \E g : Sums(f, T, g)}
           G(T) == SumTable(f, T)
<1>0. ASSUME NEW T \in A PROVE Sums(f, T, G(T))
  BY DEF SumTable
<1>1. ASSUME NEW T \in SUBSET S, \A U \in SUBSET T : U # T => U \in A PROVE T \in A
  <2> DEFINE h == [s \in SUBSET T |-> IF s = {} THEN 0 ELSE f[Pick(s)] + G(s \ {Pick(s)})[s \ {Pick(s)}]]
  <2>1. ASSUME NEW s \in SUBSET T, s # {}
        PROVE  h[s \ {Pick(s)}] = G(s \ {Pick(s)})[s \ {Pick(s)}]
    <3>1. Pick(s) \in s BY <2>1 DEF Pick
    <3> DEFINE u == s \ {Pick(s)}
    <3>2. u \in SUBSET T /\ u # T BY <3>1
    <3>3. Sums(f, u, G(u)) BY <3>2, <1>1, <1>0
    <3>4. CASE u = {}
      BY <3>4, <3>3, <3>2 DEF Sums
    <3>5. CASE u # {}
      <4>1. Pick(u) \in u BY <3>5 DEF Pick
      <4> DEFINE v == u \ {Pick(u)}
      <4>2. v \in SUBSET T /\ v # T BY <4>1, <3>2
      <4>3. Sums(f, v, G(v)) BY <4>2, <1>1, <1>0
      <4>4. G(u)[v] = G(v)[v]
        <5>1. IsFiniteSet(v)
          <6>1. v \in SUBSET S BY <4>2
          <6> QED BY <6>1, FS_Subset
        <5>2. v \subseteq u /\ v \subseteq v OBVIOUS
        <5> DEFINE gu == G(u)  gv == G(v)
        <5>3. Sums(f, u, gu) /\ Sums(f, v, gv) BY <3>3, <4>3
        <5> HIDE DEF v, u, gu, gv
        <5>4. gu[v] = gv[v] BY <5>1, <5>2, <5>3, SumsAgree
        <5> QED BY <5>4 DEF gu, gv
      <4>5. G(u)[u] = f[Pick(u)] + G(u)[v] BY <3>3, <3>5 DEF Sums
      <4>6. h[u] = f[Pick(u)] + G(v)[v] BY <3>2, <3>5
      <4> QED BY <4>4, <4>5, <4>6
    <3> QED BY <3>4, <3>5
  <2>2. Sums(f, T, h)
    BY <2>1 DEF Sums
  <2> QED BY <2>2
<1> HIDE DEF A
<1>2. \A T \in SUBSET S : T \in A
  BY <1>1, SubsetsInduct
<1>3. S \in A BY <1>2
<1> QED BY <1>3, <1>0

\* The empty sum is 0.
LEMMA SumEmpty == ASSUME NEW f PROVE SumFunctionOnSet(f, {}) = 0
<1> DEFINE g == SumTable(f, {})
<1>1. IsFiniteSet({}) BY FS_EmptySet
<1>2. Sums(f, {}, g) BY <1>1, SumsExist
<1> HIDE DEF g
<1>3. g[{}] = 0 BY <1>2 DEF Sums
<1> QED BY <1>3, SumUnfold DEF g

\* The element that is picked first.
LEMMA SumPick ==
  ASSUME NEW f, NEW S, IsFiniteSet(S), S # {}
  PROVE  /\ Pick(S) \in S
         /\ SumFunctionOnSet(f, S) = f[Pick(S)] + SumFunctionOnSet(f, S \ {Pick(S)})
<1> DEFINE U == S \ {Pick(S)}
<1>1. Pick(S) \in S BY DEF Pick
<1>2. IsFiniteSet(U) BY FS_Subset
<1>3. Sums(f, S, SumTable(f, S)) /\ Sums(f, U, SumTable(f, U)) BY <1>2, SumsExist
<1>4. SumTable(f, S)[U] = SumTable(f, U)[U] BY <1>2, <1>3, SumsAgree
<1>5. SumTable(f, S)[S] = f[Pick(S)] + SumTable(f, S)[U] BY <1>3 DEF Sums
<1> QED BY <1>1, <1>4, <1>5, SumUnfold

\* A sum of integers is an integer.
LEMMA SumType ==
  ASSUME NEW S, IsFiniteSet(S), NEW f, \A x \in S : f[x] \in Int
  PROVE  SumFunctionOnSet(f, S) \in Int
<1> DEFINE A == {T \in SUBSET S : SumFunctionOnSet(f, T) \in Int}
<1>1. ASSUME NEW T \in SUBSET S, \A U \in SUBSET T : U # T => U \in A PROVE T \in A
  <2>1. CASE T = {} BY <2>1, SumEmpty
  <2>2. CASE T # {}
    <3>1. IsFiniteSet(T) BY FS_Subset
    <3>2. Pick(T) \in T /\ SumFunctionOnSet(f, T) = f[Pick(T)] + SumFunctionOnSet(f, T \ {Pick(T)})
      BY <3>1, <2>2, SumPick
    <3>3. T \ {Pick(T)} \in A BY <3>2, <1>1
    <3> QED BY <3>2, <3>3
  <2> QED BY <2>1, <2>2
<1> HIDE DEF A
<1>2. \A T \in SUBSET S : T \in A BY <1>1, SubsetsInduct
<1> QED BY <1>2 DEF A

\* A sum of natural numbers is one.
LEMMA SumNatural ==
  ASSUME NEW S, IsFiniteSet(S), NEW f, \A x \in S : f[x] \in Nat
  PROVE  SumFunctionOnSet(f, S) \in Nat
<1> DEFINE A == {T \in SUBSET S : SumFunctionOnSet(f, T) \in Nat}
<1>1. ASSUME NEW T \in SUBSET S, \A U \in SUBSET T : U # T => U \in A PROVE T \in A
  <2>1. CASE T = {} BY <2>1, SumEmpty
  <2>2. CASE T # {}
    <3>1. IsFiniteSet(T) BY FS_Subset
    <3>2. Pick(T) \in T /\ SumFunctionOnSet(f, T) = f[Pick(T)] + SumFunctionOnSet(f, T \ {Pick(T)})
      BY <3>1, <2>2, SumPick
    <3>3. T \ {Pick(T)} \in A BY <3>2, <1>1
    <3> QED BY <3>2, <3>3
  <2> QED BY <2>1, <2>2
<1> HIDE DEF A
<1>2. \A T \in SUBSET S : T \in A BY <1>1, SubsetsInduct
<1> QED BY <1>2 DEF A

\* Any element may be taken first.
LEMMA SumRemove ==
  ASSUME NEW S, IsFiniteSet(S), NEW f, \A x \in S : f[x] \in Int, NEW x \in S
  PROVE  SumFunctionOnSet(f, S) = f[x] + SumFunctionOnSet(f, S \ {x})
<1> DEFINE Out(T, z) == SumFunctionOnSet(f, T) = f[z] + SumFunctionOnSet(f, T \ {z})
           A == {T \in SUBSET S : \A z \in T : Out(T, z)}
<1>1. ASSUME NEW T \in SUBSET S, \A U \in SUBSET T : U # T => U \in A PROVE T \in A
  <2> SUFFICES ASSUME NEW z \in T PROVE Out(T, z)
    OBVIOUS
  <2> DEFINE y == Pick(T)
  <2>1. IsFiniteSet(T) BY FS_Subset
  <2>2. y \in T /\ Out(T, y)
    BY <2>1, SumPick
  <2>3. CASE y = z BY <2>2, <2>3
  <2>4. CASE y # z
    <3> HIDE DEF y
    <3>1. T \ {y} \in A /\ T \ {z} \in A BY <2>2, <1>1
    <3>2. Out(T \ {y}, z) /\ Out(T \ {z}, y) BY <3>1, <2>2, <2>4
    <3>3. (T \ {y}) \ {z} = (T \ {z}) \ {y} OBVIOUS
    <3>4. SumFunctionOnSet(f, (T \ {z}) \ {y}) \in Int
      <4>1. (T \ {z}) \ {y} \in SUBSET S OBVIOUS
      <4>2. IsFiniteSet((T \ {z}) \ {y}) BY <4>1, FS_Subset
      <4> QED BY <4>2, SumType
    <3>5. f[y] \in Int /\ f[z] \in Int BY <2>2
    <3> DEFINE c == SumFunctionOnSet(f, (T \ {z}) \ {y})
               a == SumFunctionOnSet(f, T \ {y})  b == SumFunctionOnSet(f, T \ {z})
               d == SumFunctionOnSet(f, T)
    <3>6. a = f[z] + c /\ b = f[y] + c /\ d = f[y] + a BY <2>2, <3>2, <3>3
    <3>7. c \in Int BY <3>4
    <3> HIDE DEF a, b, c, d
    <3>8. d = f[z] + b BY <3>5, <3>6, <3>7
    <3> QED BY <3>8 DEF d, b
  <2> QED BY <2>3, <2>4
<1> HIDE DEF A
<1>2. \A T \in SUBSET S : T \in A BY <1>1, SubsetsInduct
<1>3. S \in A BY <1>2
<1> QED BY <1>3 DEF A

\* Equal summands, equal sums.
LEMMA SumSame ==
  ASSUME NEW S, IsFiniteSet(S), NEW f, NEW g, \A x \in S : f[x] = g[x]
  PROVE  SumFunctionOnSet(f, S) = SumFunctionOnSet(g, S)
<1> DEFINE A == {T \in SUBSET S : SumFunctionOnSet(f, T) = SumFunctionOnSet(g, T)}
<1>1. ASSUME NEW T \in SUBSET S, \A U \in SUBSET T : U # T => U \in A PROVE T \in A
  <2>1. CASE T = {} BY <2>1, SumEmpty
  <2>2. CASE T # {}
    <3>1. IsFiniteSet(T) BY FS_Subset
    <3> DEFINE x == Pick(T)
    <3>2. /\ x \in T /\ SumFunctionOnSet(f, T) = f[x] + SumFunctionOnSet(f, T \ {x})
          /\ SumFunctionOnSet(g, T) = g[x] + SumFunctionOnSet(g, T \ {x})
      BY <3>1, <2>2, SumPick
    <3> HIDE DEF x
    <3>3. T \ {x} \in A BY <3>2, <1>1
    <3> QED BY <3>2, <3>3
  <2> QED BY <2>1, <2>2
<1> HIDE DEF A
<1>2. \A T \in SUBSET S : T \in A BY <1>1, SubsetsInduct
<1>3. S \in A BY <1>2
<1> QED BY <1>3 DEF A

\* A sum of zeros is 0.
LEMMA SumZero ==
  ASSUME NEW S, IsFiniteSet(S), NEW f, \A x \in S : f[x] = 0
  PROVE  SumFunctionOnSet(f, S) = 0
<1> DEFINE A == {T \in SUBSET S : SumFunctionOnSet(f, T) = 0}
<1>1. ASSUME NEW T \in SUBSET S, \A U \in SUBSET T : U # T => U \in A PROVE T \in A
  <2>1. CASE T = {} BY <2>1, SumEmpty
  <2>2. CASE T # {}
    <3>1. IsFiniteSet(T) BY FS_Subset
    <3>2. Pick(T) \in T /\ SumFunctionOnSet(f, T) = f[Pick(T)] + SumFunctionOnSet(f, T \ {Pick(T)})
      BY <3>1, <2>2, SumPick
    <3>3. T \ {Pick(T)} \in A BY <3>2, <1>1
    <3> QED BY <3>2, <3>3
  <2> QED BY <2>1, <2>2
<1> HIDE DEF A
<1>2. \A T \in SUBSET S : T \in A BY <1>1, SubsetsInduct
<1> QED BY <1>2 DEF A

\* One summand changes.
LEMMA SumChange ==
  ASSUME NEW S, IsFiniteSet(S), NEW f, NEW g, NEW x \in S,
         \A y \in S : f[y] \in Int /\ g[y] \in Int,
         \A y \in S \ {x} : f[y] = g[y]
  PROVE  SumFunctionOnSet(g, S) = SumFunctionOnSet(f, S) + (g[x] - f[x])
<1>1. IsFiniteSet(S \ {x}) BY FS_Subset
<1>2. SumFunctionOnSet(f, S \ {x}) = SumFunctionOnSet(g, S \ {x}) BY <1>1, SumSame
<1>3. SumFunctionOnSet(f, S \ {x}) \in Int BY <1>1, SumType
<1>4. SumFunctionOnSet(f, S) = f[x] + SumFunctionOnSet(f, S \ {x}) BY SumRemove
<1>5. SumFunctionOnSet(g, S) = g[x] + SumFunctionOnSet(g, S \ {x}) BY SumRemove
<1> QED BY <1>2, <1>3, <1>4, <1>5

\* What is zero outside a subset sums to the sum over it.
LEMMA SumWithin ==
  ASSUME NEW S, IsFiniteSet(S), NEW f, \A x \in S : f[x] \in Int,
         NEW T \in SUBSET S, \A x \in S \ T : f[x] = 0
  PROVE  SumFunctionOnSet(f, S) = SumFunctionOnSet(f, T)
<1> DEFINE B == S \ T
           A == {U \in SUBSET B : SumFunctionOnSet(f, T \cup U) = SumFunctionOnSet(f, T)}
<1>1. ASSUME NEW U \in SUBSET B, \A V \in SUBSET U : V # U => V \in A PROVE U \in A
  <2>1. CASE U = {}
    <3>1. T \cup U = T BY <2>1
    <3> QED BY <3>1
  <2>2. CASE U # {}
    <3>1. PICK x \in U : TRUE BY <2>2
    <3> DEFINE W == T \cup U
    <3>2. U \ {x} \in A BY <1>1
    <3>3. W \ {x} = T \cup (U \ {x}) OBVIOUS
    <3>4. W \subseteq S /\ x \in W OBVIOUS
    <3>5. IsFiniteSet(W) BY <3>4, FS_Subset
    <3>6. \A z \in W : f[z] \in Int BY <3>4
    <3>7. f[x] = 0 OBVIOUS
    <3> HIDE DEF W
    <3>8. SumFunctionOnSet(f, W) = f[x] + SumFunctionOnSet(f, W \ {x}) BY <3>4, <3>5, <3>6, SumRemove
    <3>9. SumFunctionOnSet(f, W \ {x}) = SumFunctionOnSet(f, T) BY <3>2, <3>3
    <3>10. SumFunctionOnSet(f, T) \in Int
      <4>1. IsFiniteSet(T) BY FS_Subset
      <4> QED BY <4>1, SumType
    <3> QED BY <3>7, <3>8, <3>9, <3>10 DEF W
  <2> QED BY <2>1, <2>2
<1>2. IsFiniteSet(B) /\ T \cup B = S BY FS_Subset
<1> HIDE DEF A, B
<1>3. \A U \in SUBSET B : U \in A BY <1>1, <1>2, SubsetsInduct
<1>4. B \in A BY <1>3
<1> QED BY <1>2, <1>4 DEF A

\* The sum of two functions.
LEMMA SumPlus ==
  ASSUME NEW S, IsFiniteSet(S), NEW f, NEW g, NEW h,
         \A x \in S : f[x] \in Int /\ g[x] \in Int /\ h[x] = f[x] + g[x]
  PROVE  SumFunctionOnSet(h, S) = SumFunctionOnSet(f, S) + SumFunctionOnSet(g, S)
<1> DEFINE Adds(T) == SumFunctionOnSet(h, T) = SumFunctionOnSet(f, T) + SumFunctionOnSet(g, T)
           A == {T \in SUBSET S : Adds(T)}
<1>1. ASSUME NEW T \in SUBSET S, \A U \in SUBSET T : U # T => U \in A PROVE T \in A
  <2>1. CASE T = {} BY <2>1, SumEmpty
  <2>2. CASE T # {}
    <3>1. PICK x \in T : TRUE BY <2>2
    <3> DEFINE U == T \ {x}
    <3>2. IsFiniteSet(T) BY FS_Subset
    <3>3. IsFiniteSet(U) BY <3>2, FS_Subset
    <3>4. \A z \in T : f[z] \in Int /\ g[z] \in Int /\ h[z] \in Int OBVIOUS
    <3>5. Adds(U) BY <1>1
    <3> HIDE DEF U
    <3>6. SumFunctionOnSet(f, T) = f[x] + SumFunctionOnSet(f, U) BY <3>2, <3>4, SumRemove DEF U
    <3>7. SumFunctionOnSet(g, T) = g[x] + SumFunctionOnSet(g, U) BY <3>2, <3>4, SumRemove DEF U
    <3>8. SumFunctionOnSet(h, T) = h[x] + SumFunctionOnSet(h, U) BY <3>2, <3>4, SumRemove DEF U
    <3>9. SumFunctionOnSet(f, U) \in Int /\ SumFunctionOnSet(g, U) \in Int
      <4>1. \A z \in U : f[z] \in Int /\ g[z] \in Int BY <3>4 DEF U
      <4> QED BY <3>3, <4>1, SumType
    <3>10. h[x] = f[x] + g[x] /\ f[x] \in Int /\ g[x] \in Int OBVIOUS
    <3> QED BY <3>5, <3>6, <3>7, <3>8, <3>9, <3>10
  <2> QED BY <2>1, <2>2
<1> HIDE DEF A
<1>2. \A T \in SUBSET S : T \in A BY <1>1, SubsetsInduct
<1>3. S \in A BY <1>2
<1> QED BY <1>3 DEF A

\* A sum is at most the number of summands times a bound on each.
LEMMA SumBound ==
  ASSUME NEW S, IsFiniteSet(S), NEW m \in Int, NEW f, \A x \in S : f[x] \in Int /\ f[x] <= m
  PROVE  SumFunctionOnSet(f, S) <= Cardinality(S) * m
<1> DEFINE A == {T \in SUBSET S : SumFunctionOnSet(f, T) <= Cardinality(T) * m}
<1>1. ASSUME NEW T \in SUBSET S, \A U \in SUBSET T : U # T => U \in A PROVE T \in A
  <2>1. CASE T = {}
    <3>1. Cardinality(T) = 0 BY <2>1, FS_EmptySet
    <3>2. SumFunctionOnSet(f, T) = 0 BY <2>1, SumEmpty
    <3> QED BY <3>1, <3>2
  <2>2. CASE T # {}
    <3>1. PICK x \in T : TRUE BY <2>2
    <3>2. IsFiniteSet(T) /\ \A z \in T : f[z] \in Int BY FS_Subset
    <3>3. SumFunctionOnSet(f, T) = f[x] + SumFunctionOnSet(f, T \ {x}) BY <3>2, SumRemove
    <3>4. T \ {x} \in A BY <1>1
    <3>5. IsFiniteSet(T \ {x}) BY <3>2, FS_Subset
    <3>6. Cardinality(T \ {x}) = Cardinality(T) - 1 /\ Cardinality(T) \in Nat
      BY <3>2, FS_RemoveElement, FS_CardinalityType
    <3>7. SumFunctionOnSet(f, T \ {x}) \in Int BY <3>2, <3>5, SumType
    <3> DEFINE n == Cardinality(T)  s == SumFunctionOnSet(f, T \ {x})  v == f[x]
    <3>8. s <= (n - 1) * m BY <3>4, <3>6
    <3>9. n \in Nat /\ s \in Int /\ v \in Int /\ v <= m BY <3>6, <3>7, <3>2
    <3> HIDE DEF n, s, v
    <3>10. (n - 1) * m = n * m - m BY <3>9
    <3>11. v + s <= n * m
      <4>1. n * m \in Int BY <3>9
      <4> DEFINE p == n * m
      <4>2. p \in Int /\ s <= p - m BY <4>1, <3>8, <3>10
      <4> HIDE DEF p
      <4>3. v + s <= p BY <4>2, <3>9
      <4> QED BY <4>3 DEF p
    <3> QED BY <3>3, <3>11 DEF n, s, v
  <2> QED BY <2>1, <2>2
<1> HIDE DEF A
<1>2. \A T \in SUBSET S : T \in A BY <1>1, SubsetsInduct
<1>3. S \in A BY <1>2
<1> QED BY <1>3 DEF A

-----------------------------------------------------------------------------
(* Sequences.                                                              *)

\* The order of the natural numbers is well-founded.
LEMMA LessWellFounded == IsWellFoundedOn({ss \in Nat \X Nat : ss[1] < ss[2]}, Nat)
BY NatLessThanWellFounded DEF OpToRel

\* Induction over the natural numbers, for a set of numbers.
LEMMA NumbersInduct ==
  ASSUME NEW A \in SUBSET Nat, 0 \in A, \A n \in A : n + 1 \in A
  PROVE  A = Nat
<1> DEFINE R == {ss \in Nat \X Nat : ss[1] < ss[2]}
<1> SUFFICES ASSUME Nat \ A # {} PROVE FALSE
  OBVIOUS
<1>1. IsWellFoundedOn(R, Nat)
  BY LessWellFounded
<1> HIDE DEF R
<1>2. PICK x \in Nat \ A : \A y \in Nat \ A : <<y, x>> \notin R
  BY <1>1, WFMin
<1>3. \A y \in Nat \ A : ~(y < x)
  BY <1>2 DEF R
<1> QED BY <1>3

\* The empty sequence sums to 0.
LEMMA SeqSumEmpty == SumFunction(<<>>) = 0
<1>1. DOMAIN <<>> = {} OBVIOUS
<1> QED BY <1>1, SumEmpty DEF SumFunction

\* What is appended to a sequence is added to its sum.
LEMMA SeqSumAppend ==
  ASSUME NEW s \in Seq(Int), NEW n \in Int
  PROVE  SumFunction(Append(s, n)) = SumFunction(s) + n
<1> DEFINE t == Append(s, n)  D == 1 .. Len(s)  E == 1 .. Len(s) + 1
<1>1. DOMAIN s = D /\ DOMAIN t = E /\ t[Len(s) + 1] = n /\ \A i \in D : t[i] = s[i] /\ s[i] \in Int
  OBVIOUS
<1>2. IsFiniteSet(D) /\ IsFiniteSet(E) BY FS_Interval
<1>3. E \ {Len(s) + 1} = D /\ Len(s) + 1 \in E OBVIOUS
<1>4. \A i \in E : t[i] \in Int BY <1>1
<1> HIDE DEF t, D, E
<1>5. SumFunctionOnSet(t, E) = t[Len(s) + 1] + SumFunctionOnSet(t, D) BY <1>2, <1>3, <1>4, SumRemove
<1>6. SumFunctionOnSet(t, D) = SumFunctionOnSet(s, D) BY <1>1, <1>2, SumSame
<1>7. SumFunctionOnSet(s, D) \in Int BY <1>1, <1>2, SumType
<1>8. SumFunctionOnSet(t, E) = SumFunctionOnSet(s, D) + n BY <1>1, <1>5, <1>6, <1>7
<1> QED BY <1>1, <1>8 DEF SumFunction, t

\* What leaves a sequence at its head is taken off its sum.
LEMMA SeqSumTail ==
  ASSUME NEW s \in Seq(Int), s # <<>>
  PROVE  SumFunction(Tail(s)) = SumFunction(s) - Head(s)
<1> DEFINE t == Tail(s)  N == Len(s) - 1
           Shifted(n) == SumFunctionOnSet(s, 1 .. n + 1) = s[1] + SumFunctionOnSet(t, 1 .. n)
           A == {n \in Nat : n <= N => Shifted(n)}
<1>1. /\ N \in Nat /\ DOMAIN s = 1 .. N + 1 /\ DOMAIN t = 1 .. N
      /\ \A i \in 1 .. N + 1 : s[i] \in Int
      /\ \A i \in 1 .. N : t[i] = s[i + 1]
  OBVIOUS
<1> HIDE DEF t, N
<1>2. 0 \in A
  <2>1. 1 .. 0 = {} /\ 1 .. 0 + 1 = {1} OBVIOUS
  <2>2. SumFunctionOnSet(t, 1 .. 0) = 0 BY <2>1, SumEmpty
  <2>3. IsFiniteSet({1}) BY FS_Singleton
  <2>4. s[1] \in Int BY <1>1
  <2>5. SumFunctionOnSet(s, {1}) = s[1] + SumFunctionOnSet(s, {1} \ {1}) BY <2>3, <2>4, SumRemove
  <2>6. {1} \ {1} = {} OBVIOUS
  <2>7. SumFunctionOnSet(s, {}) = 0 BY SumEmpty
  <2>8. Shifted(0) BY <2>1, <2>2, <2>4, <2>5, <2>6, <2>7
  <2> QED BY <2>8
<1>3. ASSUME NEW n \in A PROVE n + 1 \in A
  <2> SUFFICES ASSUME n + 1 <= N PROVE Shifted(n + 1)
    OBVIOUS
  <2> DEFINE D == 1 .. n + 1 + 1
  <2>1. D \ {n + 1 + 1} = 1 .. n + 1 /\ (1 .. n + 1) \ {n + 1} = 1 .. n OBVIOUS
  <2>2. IsFiniteSet(D) /\ IsFiniteSet(1 .. n + 1) /\ IsFiniteSet(1 .. n) BY FS_Interval
  <2>3. /\ \A i \in D : s[i] \in Int
        /\ \A i \in 1 .. n + 1 : t[i] \in Int
        /\ t[n + 1] = s[n + 1 + 1] /\ s[1] \in Int
    BY <1>1
  <2>4. n + 1 + 1 \in D /\ n + 1 \in 1 .. n + 1 OBVIOUS
  <2> HIDE DEF D
  <2>5. SumFunctionOnSet(s, D) = s[n + 1 + 1] + SumFunctionOnSet(s, 1 .. n + 1)
    <3> DEFINE x == n + 1 + 1
    <3>1. x \in D /\ D \ {x} = 1 .. n + 1 BY <2>1, <2>4
    <3> HIDE DEF x
    <3>2. SumFunctionOnSet(s, D) = s[x] + SumFunctionOnSet(s, D \ {x}) BY <2>2, <2>3, <3>1, SumRemove
    <3> QED BY <3>1, <3>2 DEF x
  <2>6. SumFunctionOnSet(t, 1 .. n + 1) = t[n + 1] + SumFunctionOnSet(t, 1 .. n)
    <3> DEFINE x == n + 1  C == 1 .. n + 1
    <3>1. x \in C /\ C \ {x} = 1 .. n /\ IsFiniteSet(C) /\ \A i \in C : t[i] \in Int BY <2>1, <2>2, <2>3, <2>4
    <3> HIDE DEF x, C
    <3>2. SumFunctionOnSet(t, C) = t[x] + SumFunctionOnSet(t, C \ {x}) BY <3>1, SumRemove
    <3> QED BY <3>1, <3>2 DEF x, C
  <2>7. Shifted(n) BY <1>3, <1>1
  <2>8. SumFunctionOnSet(t, 1 .. n) \in Int
    <3>1. \A i \in 1 .. n : t[i] \in Int BY <2>3
    <3> QED BY <2>2, <3>1, SumType
  <2>9. SumFunctionOnSet(s, D) = s[1] + SumFunctionOnSet(t, 1 .. n + 1)
    <3> DEFINE a == SumFunctionOnSet(s, D)  b == SumFunctionOnSet(s, 1 .. n + 1)
               c == SumFunctionOnSet(t, 1 .. n + 1)  d == SumFunctionOnSet(t, 1 .. n)
    <3>1. /\ a = s[n + 1 + 1] + b /\ c = s[n + 1 + 1] + d /\ b = s[1] + d /\ d \in Int
          /\ s[n + 1 + 1] \in Int
      BY <2>3, <2>4, <2>5, <2>6, <2>7, <2>8
    <3> DEFINE x == s[n + 1 + 1]  y == s[1]
    <3>2. y \in Int /\ x \in Int BY <2>3, <3>1
    <3> HIDE DEF a, b, c, d, x, y
    <3>3. a = x + b /\ c = x + d /\ b = y + d /\ d \in Int BY <3>1 DEF x, y
    <3>4. a = y + c BY <3>2, <3>3
    <3> QED BY <3>4 DEF a, c, y
  <2> QED BY <2>9 DEF D
<1> HIDE DEF A
<1>4. A = Nat
  <2>1. A \in SUBSET Nat BY DEF A
  <2> QED BY <1>2, <1>3, <2>1, NumbersInduct
<1>5. Shifted(N) BY <1>1, <1>4 DEF A
<1>6. SumFunctionOnSet(t, 1 .. N) \in Int
  <2>1. IsFiniteSet(1 .. N) BY <1>1, FS_Interval
  <2>2. \A i \in 1 .. N : t[i] \in Int BY <1>1
  <2> QED BY <2>1, <2>2, SumType
<1>7. SumFunction(s) = s[1] + SumFunction(t) BY <1>1, <1>5 DEF SumFunction
<1>8. SumFunction(t) \in Int BY <1>6, <1>1 DEF SumFunction
<1>9. Head(s) = s[1] /\ s[1] \in Int BY <1>1
<1> QED BY <1>7, <1>8, <1>9 DEF t

\* A sequence of integers sums to an integer.
LEMMA SeqSumType == ASSUME NEW s \in Seq(Int) PROVE SumFunction(s) \in Int
<1>1. DOMAIN s = 1 .. Len(s) /\ \A i \in 1 .. Len(s) : s[i] \in Int OBVIOUS
<1>2. IsFiniteSet(1 .. Len(s)) BY FS_Interval
<1> QED BY <1>1, <1>2, SumType DEF SumFunction
=============================================================================
