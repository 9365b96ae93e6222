--------------------------- MODULE AnalysisProofs ---------------------------
(***************************************************************************)
(* What the components of MCAnalysis promise, for every value of their      *)
(* constants: each has an inductive invariant of its own.  The live graph:  *)
(* insertion numbers tell the edges apart, so the eviction order is total.  *)
(* The grouper: both indexes lead to every incident an event may join.      *)
(* The memory: what consolidation merges away is outdone by a similar       *)
(* record, and each pass of Similar puts one pair in order.                 *)
(* The correlator: a call's slots and what it has gathered follow from      *)
(* where it stands, and a tenant's order lists its own cached keys.  The    *)
(* detectors: the baselines keep to their bound, a debounce lies behind     *)
(* every event.  The doors: every call of a request was checked before it.  *)
(* The hot index: a row is lost after its horizon only, and a cascade still *)
(* finds what it read unless somebody has written there since.              *)
(***************************************************************************)
EXTENDS LiveGraph, Grouper, Memory, Correlator, Detection, Gateway, HotIndex, SumLemmas, SequenceTheorems

-----------------------------------------------------------------------------
(* An order on a finite set.                                               *)

\* A finite set with elements has one that no other precedes in a strict order,
\* given as a set of pairs.
LEMMA LeastExists ==
  ASSUME NEW S, IsFiniteSet(S), S # {}, NEW before,
         \A x \in S : <<x, x>> \notin before,
         \A x, y, z \in S : <<x, y>> \in before /\ <<y, z>> \in before => <<x, z>> \in before
  PROVE  \E x \in S : \A y \in S : <<y, x>> \notin before
<1> DEFINE Has1(U) == \E x \in U : \A y \in U : <<y, x>> \notin before
           A == {U \in SUBSET S : U # {} => Has1(U)}
<1>1. ASSUME NEW V \in SUBSET S, \A U \in SUBSET V : U # V => U \in A PROVE V \in A
  <2> SUFFICES ASSUME V # {} PROVE Has1(V) OBVIOUS
  <2>1. PICK v \in V : TRUE OBVIOUS
  <2> DEFINE U == {y \in V : <<y, v>> \in before}
  <2>2. U \in SUBSET V /\ U # V /\ v \notin U BY <2>1
  <2>3. CASE U = {} BY <2>3
  <2>4. CASE U # {}
    <3>1. PICK u \in U : \A y \in U : <<y, u>> \notin before BY <2>2, <2>4, <1>1
    <3>2. ASSUME NEW y \in V, <<y, u>> \in before PROVE FALSE
      <4>1. <<y, v>> \in before BY <3>1, <3>2, <2>1
      <4> QED BY <4>1, <3>1, <3>2
    <3> QED BY <3>1, <3>2
  <2> QED BY <2>3, <2>4
<1> HIDE DEF A
<1>2. \A U \in SUBSET S : U \in A BY <1>1, SubsetsInduct
<1> QED BY <1>2 DEF A

-----------------------------------------------------------------------------
(* The live graph.                                                         *)

\* Edges whose insertion numbers tell them apart.
EdgeMap(es, max) ==
  /\ IsFiniteSet(DOMAIN es)
  /\ \A k \in DOMAIN es : DOMAIN es[k] = {"calls", "firstSeen", "last", "vanished", "seq"}
  /\ \A k \in DOMAIN es : es[k].calls \in Int /\ es[k].last \in Int /\ es[k].seq \in Nat /\ es[k].seq <= max
  /\ \A j, k \in DOMAIN es : es[j].seq = es[k].seq => j = k

WithinBound(es) == MaxEdges > 0 => Cardinality(DOMAIN es) <= MaxEdges

\* The eviction order is total on them, so no more than MaxEdges survive.
LEMMA SurvivorsBounded ==
  ASSUME NEW es, NEW max \in Nat, EdgeMap(es, max), MaxEdges > 0
  PROVE  Cardinality(Surviving(es)) <= MaxEdges
<1> DEFINE D == DOMAIN es  S == Surviving(es)
           Warmer(x) == {j \in D : Colder(es, x, j)}
           colder == {p \in D \X D : Colder(es, p[1], p[2])}
<1>0. MaxEdges \in Nat \ {0} BY GraphAssumption
<1>1. S \subseteq D /\ \A x \in S : Cardinality(Warmer(x)) < MaxEdges BY <1>0 DEF Surviving
<1>2. IsFiniteSet(S) /\ Cardinality(S) \in Nat BY <1>1, FS_Subset, FS_CardinalityType DEF EdgeMap
<1>3. \A x \in D : es[x].calls \in Int /\ es[x].last \in Int /\ es[x].seq \in Int BY DEF EdgeMap
<1>4. \A x \in D : ~Colder(es, x, x) BY <1>3 DEF Colder
<1>5. \A x, y, z \in D : Colder(es, x, y) /\ Colder(es, y, z) => Colder(es, x, z) BY <1>3 DEF Colder
<1>6. \A x, y \in D : x # y /\ ~Colder(es, y, x) => Colder(es, x, y) BY <1>3 DEF Colder, EdgeMap
<1>7. CASE S = {} BY <1>7, <1>0, FS_EmptySet
<1>8. CASE S # {}
  <2>1. \A x, y \in S : <<x, y>> \in colder <=> Colder(es, x, y) BY <1>1
  <2>2. /\ \A x \in S : <<x, x>> \notin colder
        /\ \A x, y, z \in S : <<x, y>> \in colder /\ <<y, z>> \in colder => <<x, z>> \in colder
    BY <2>1, <1>1, <1>4, <1>5
  <2> HIDE DEF colder, S, D
  <2>3. PICK x \in S : \A y \in S : <<y, x>> \notin colder BY <1>2, <1>8, <2>2, LeastExists
  <2>4. S \ {x} \subseteq Warmer(x) BY <1>1, <1>6, <2>1, <2>3
  <2>5. Warmer(x) \subseteq D /\ IsFiniteSet(D) BY DEF EdgeMap, D
  <2> HIDE DEF Warmer
  <2>6. IsFiniteSet(Warmer(x)) BY <2>5, FS_Subset
  <2>7. Cardinality(S \ {x}) <= Cardinality(Warmer(x)) BY <2>4, <2>6, FS_Subset
  <2>8. Cardinality(S \ {x}) = Cardinality(S) - 1 BY <1>2, FS_RemoveElement
  <2>9. Cardinality(Warmer(x)) \in Nat BY <2>6, FS_CardinalityType
  <2> QED BY <1>0, <1>1, <1>2, <2>7, <2>8, <2>9 DEF S
<1> QED BY <1>7, <1>8

\* What an eviction leaves is within the bound and as it was.
LEMMA SurvivorsKept ==
  ASSUME NEW es, NEW max \in Nat, EdgeMap(es, max)
  PROVE  /\ DOMAIN Only(es, Surviving(es)) = Surviving(es) /\ Surviving(es) \subseteq DOMAIN es
         /\ \A k \in Surviving(es) : Only(es, Surviving(es))[k] = es[k]
         /\ EdgeMap(Only(es, Surviving(es)), max) /\ WithinBound(Only(es, Surviving(es)))
<1>1. Surviving(es) \subseteq DOMAIN es BY DEF Surviving
<1>2. DOMAIN Only(es, Surviving(es)) = Surviving(es) BY <1>1 DEF Only
<1>3. \A k \in Surviving(es) : Only(es, Surviving(es))[k] = es[k] BY <1>1 DEF Only
<1>4. IsFiniteSet(Surviving(es)) BY <1>1, FS_Subset DEF EdgeMap
<1>5. EdgeMap(Only(es, Surviving(es)), max) BY <1>1, <1>2, <1>3, <1>4 DEF EdgeMap
<1>6. WithinBound(Only(es, Surviving(es))) BY <1>2, SurvivorsBounded DEF WithinBound
<1> QED BY <1>1, <1>2, <1>3, <1>5, <1>6

GraphInvariant ==
  /\ gclock \in Int /\ nextSeq \in Nat
  /\ EdgeMap(edges, nextSeq) /\ WithinBound(edges)
  /\ AnchorFollowsTraffic
  /\ nodes = {} => DOMAIN lastNewEmit = {}

\* One sighting of an edge.
LEMMA UpsertKeeps ==
  ASSUME GraphInvariant, NEW k, NEW op, UpsertEdge(k, op)
  PROVE  nextSeq' \in Nat /\ EdgeMap(edges', nextSeq') /\ WithinBound(edges') /\ AnchorFollowsTraffic'
<1> DEFINE bumped == Counted(k)
           kept == IF k \in DOMAIN edges THEN DOMAIN edges ELSE Surviving(bumped)
           victims == DOMAIN bumped \ kept
           seen == Only(lastNewEmit, DOMAIN lastNewEmit \ victims)
<1>1. /\ edges' = Only(bumped, kept)
      /\ nextSeq' = IF k \in DOMAIN edges THEN nextSeq ELSE nextSeq + 1
      /\ lastNewEmit' = Put(seen, k, gclock)
  BY DEF UpsertEdge, Anchored
<1>2. nextSeq \in Nat /\ nextSeq' \in Nat /\ gclock \in Int BY <1>1 DEF GraphInvariant
<1>3. /\ DOMAIN bumped = DOMAIN edges \cup {k} /\ bumped[k].last = gclock
      /\ \A x \in DOMAIN edges \ {k} : bumped[x] = edges[x]
      /\ DOMAIN bumped[k] = {"calls", "firstSeen", "last", "vanished", "seq"}
      /\ bumped[k].calls \in Int /\ bumped[k].seq = IF k \in DOMAIN edges THEN edges[k].seq ELSE nextSeq + 1
  <2>1. CASE k \in DOMAIN edges
    <3> DEFINE e == [edges[k] EXCEPT !.calls = @ + 1, !.last = gclock, !.vanished = FALSE]
    <3>1. bumped = [y \in DOMAIN edges \cup {k} |-> IF y = k THEN e ELSE edges[y]] BY <2>1 DEF Counted, Put
    <3>2. edges[k].calls \in Int BY <2>1 DEF GraphInvariant, EdgeMap
    <3>3. k \in DOMAIN edges /\ DOMAIN bumped = DOMAIN edges \cup {k} /\ bumped[k] = e
          /\ \A x \in DOMAIN edges \ {k} : bumped[x] = edges[x]
      <4> HIDE DEF e
      <4> QED BY <2>1, <3>1
    <3> HIDE DEF bumped
    <3> DEFINE old == edges[k]
    <3>4. /\ DOMAIN old = {"calls", "firstSeen", "last", "vanished", "seq"}
          /\ e = [old EXCEPT !.calls = @ + 1, !.last = gclock, !.vanished = FALSE]
      BY <3>3 DEF GraphInvariant, EdgeMap
    <3> HIDE DEF e, old
    <3>5. e.calls = old.calls + 1 /\ e.last = gclock /\ e.seq = old.seq /\ DOMAIN e = DOMAIN old BY <3>4
    <3> QED BY <3>2, <3>3, <3>4, <3>5 DEF old
  <2>2. CASE k \notin DOMAIN edges
    <3> DEFINE e == [calls |-> 1, firstSeen |-> gclock, last |-> gclock, vanished |-> FALSE, seq |-> nextSeq + 1]
    <3>1. bumped = [y \in DOMAIN edges \cup {k} |-> IF y = k THEN e ELSE edges[y]] BY <2>2 DEF Counted, Put
    <3>2. e.calls = 1 /\ e.last = gclock /\ e.seq = nextSeq + 1 /\ DOMAIN e = {"calls", "firstSeen", "last", "vanished", "seq"}
      OBVIOUS
    <3> HIDE DEF e
    <3> QED BY <2>2, <3>1, <3>2
  <2> QED BY <2>1, <2>2
<1> HIDE DEF bumped
<1>4. EdgeMap(bumped, nextSeq')
  <2>1. IsFiniteSet(DOMAIN bumped) BY <1>3, FS_AddElement DEF GraphInvariant, EdgeMap
  <2>2. \A x \in DOMAIN edges : edges[x].calls \in Int /\ edges[x].last \in Int /\ edges[x].seq \in Nat /\ edges[x].seq <= nextSeq
    BY DEF GraphInvariant, EdgeMap
  <2>3. \A x \in DOMAIN bumped : bumped[x].calls \in Int /\ bumped[x].last \in Int
                                 /\ bumped[x].seq \in Nat /\ bumped[x].seq <= nextSeq'
    BY <1>1, <1>2, <1>3, <2>2
  <2>4. \A x \in DOMAIN edges : k \notin DOMAIN edges => edges[x].seq # nextSeq + 1 BY <1>2, <2>2
  <2>5. \A j, x \in DOMAIN bumped : bumped[j].seq = bumped[x].seq => j = x
    BY <1>3, <2>4 DEF GraphInvariant, EdgeMap
  <2>6. \A x \in DOMAIN bumped : DOMAIN bumped[x] = {"calls", "firstSeen", "last", "vanished", "seq"}
    BY <1>3 DEF GraphInvariant, EdgeMap
  <2> QED BY <2>1, <2>3, <2>5, <2>6 DEF EdgeMap
<1>5. /\ EdgeMap(edges', nextSeq') /\ WithinBound(edges')
      /\ DOMAIN edges' = kept /\ kept \subseteq DOMAIN bumped /\ \A x \in kept : edges'[x] = bumped[x]
  <2>1. CASE k \in DOMAIN edges
    <3>1. kept = DOMAIN bumped /\ DOMAIN bumped = DOMAIN edges BY <2>1, <1>3
    <3>2. DOMAIN edges' = DOMAIN bumped /\ \A x \in DOMAIN bumped : edges'[x] = bumped[x] BY <1>1, <3>1 DEF Only
    <3>3. EdgeMap(edges', nextSeq') BY <1>4, <3>2 DEF EdgeMap
    <3>4. WithinBound(edges') BY <3>1, <3>2 DEF WithinBound, GraphInvariant
    <3> QED BY <3>1, <3>2, <3>3, <3>4
  <2>2. CASE k \notin DOMAIN edges
    <3>1. kept = Surviving(bumped) /\ edges' = Only(bumped, Surviving(bumped)) BY <2>2, <1>1
    <3> HIDE DEF kept
    <3> QED BY <3>1, <1>2, <1>4, SurvivorsKept
  <2> QED BY <2>1, <2>2
<1> HIDE DEF kept
<1>6. ASSUME NEW x \in DOMAIN edges' \cap DOMAIN lastNewEmit' PROVE lastNewEmit'[x] = edges'[x].last
  <2>1. edges'[x] = bumped[x] /\ x \in DOMAIN bumped /\ x \notin victims BY <1>5, <1>6
  <2>2. CASE x = k BY <2>1, <2>2, <1>1, <1>3 DEF Put
  <2>3. CASE x # k
    <3>1. x \in DOMAIN lastNewEmit /\ lastNewEmit'[x] = lastNewEmit[x] BY <2>3, <1>1, <1>6 DEF Put, Only
    <3>2. x \in DOMAIN edges /\ bumped[x] = edges[x] BY <2>1, <2>3, <1>3
    <3> QED BY <2>1, <3>1, <3>2 DEF GraphInvariant, AnchorFollowsTraffic
  <2> QED BY <2>2, <2>3
<1> QED BY <1>2, <1>5, <1>6 DEF AnchorFollowsTraffic

\* A finite set of integers has a first and a last element.
LEMMA EndsExist ==
  ASSUME NEW S \in SUBSET Int, IsFiniteSet(S), S # {}
  PROVE  \E i, l \in S : \A j \in S : i <= j /\ j <= l
<1> DEFINE up == {p \in S \X S : p[1] < p[2]}
           down == {p \in S \X S : p[1] > p[2]}
<1>1. \A i, j \in S : (<<i, j>> \in up <=> i < j) /\ (<<i, j>> \in down <=> i > j) OBVIOUS
<1> HIDE DEF up, down
<1>2. (\A i \in S : <<i, i>> \notin up) /\ \A i \in S : <<i, i>> \notin down BY <1>1
<1>3. \A i, j, m \in S : <<i, j>> \in up /\ <<j, m>> \in up => <<i, m>> \in up BY <1>1
<1>4. \A i, j, m \in S : <<i, j>> \in down /\ <<j, m>> \in down => <<i, m>> \in down BY <1>1
<1>5. PICK i \in S : \A j \in S : <<j, i>> \notin up BY ONLY <1>2, <1>3, LeastExists, IsFiniteSet(S), S # {}
<1>6. PICK l \in S : \A j \in S : <<j, l>> \notin down BY ONLY <1>2, <1>4, LeastExists, IsFiniteSet(S), S # {}
<1>7. ASSUME NEW j \in S PROVE i <= j /\ j <= l
  <2>1. ~(j < i) /\ ~(j > l) BY <1>1, <1>5, <1>6
  <2>2. i \in Int /\ j \in Int /\ l \in Int OBVIOUS
  <2> QED BY <2>1, <2>2
<1> QED BY <1>7

\* What is loaded at boot brings keys of tenants that have no edge yet.
LEMMA WarmStartKeeps ==
  ASSUME GraphInvariant, NEW loaded \in Stored, WarmStart(loaded)
  PROVE  nextSeq' \in Nat /\ EdgeMap(edges', nextSeq') /\ WithinBound(edges') /\ AnchorFollowsTraffic'
         /\ DOMAIN lastNewEmit' = {}
<1> DEFINE k(i) == loaded[i].key
           keys == {k(i) : i \in DOMAIN loaded}
           New == {i \in DOMAIN loaded : k(i) \notin DOMAIN edges /\ \A j \in 1 .. i - 1 : k(j) # k(i)}
           Upto(x) == {i \in New : \A j \in New : k(j) = x => i <= j}
           row(x) == CHOOSE i \in DOMAIN loaded : k(i) = x /\ \A j \in i + 1 .. Len(loaded) : k(j) # x
           Installed(x) == [calls |-> loaded[row(x)].calls, firstSeen |-> loaded[row(x)].firstSeen,
                            last |-> loaded[row(x)].last, vanished |-> loaded[row(x)].vanished,
                            seq |-> IF x \in DOMAIN edges THEN edges[x].seq ELSE nextSeq + Cardinality(Upto(x))]
           all == [x \in DOMAIN edges \cup keys |-> IF x \in keys THEN Installed(x) ELSE edges[x]]
           n == Len(loaded)
<1>1. /\ nodes = {} /\ {e.tenant : e \in DOMAIN edges} \cap {x.tenant : x \in keys} = {}
      /\ nextSeq' = nextSeq + Cardinality(New)
      /\ edges' = Only(all, Surviving(all))
      /\ DOMAIN lastNewEmit' \subseteq DOMAIN lastNewEmit
  BY DEF WarmStart, Only
<1>2. DOMAIN lastNewEmit' = {} BY <1>1 DEF GraphInvariant
<1>3. /\ DOMAIN loaded = 1 .. n /\ n \in Nat
      /\ \A i \in DOMAIN loaded : loaded[i].calls \in Int /\ loaded[i].last \in Int
  <2>1. /\ loaded \in Seq({loaded[i] : i \in DOMAIN loaded})
        /\ \A i \in DOMAIN loaded : loaded[i].calls \in Int /\ loaded[i].last \in Int
    BY GraphAssumption
  <2> DEFINE V == {loaded[i] : i \in DOMAIN loaded}
  <2>2. loaded \in Seq(V) BY <2>1
  <2> HIDE DEF V
  <2>3. DOMAIN loaded = 1 .. Len(loaded) /\ Len(loaded) \in Nat BY <2>2
  <2> QED BY <2>1, <2>3
<1>4. \A x \in keys : x \notin DOMAIN edges BY <1>1
<1>5. IsFiniteSet(DOMAIN loaded) /\ IsFiniteSet(New)
  <2>1. n \in Int /\ 1 \in Int BY <1>3
  <2>2. IsFiniteSet(1 .. n) BY <2>1, FS_Interval
  <2>3. IsFiniteSet(DOMAIN loaded) /\ New \in SUBSET DOMAIN loaded BY <2>2, <1>3
  <2> HIDE DEF New
  <2> QED BY <2>3, FS_Subset
<1>6. ASSUME NEW x \in keys
      PROVE  /\ row(x) \in DOMAIN loaded
             /\ \E i \in New : k(i) = x /\ Upto(x) = {j \in New : j <= i}
  <2> DEFINE Of == {i \in DOMAIN loaded : k(i) = x}
  <2>1. Of \in SUBSET DOMAIN loaded /\ Of # {} /\ Of \in SUBSET Int BY <1>3, <1>6
  <2>2. IsFiniteSet(Of) BY <2>1, <1>5, FS_Subset
  <2> HIDE DEF Of
  <2>3. \E i, l \in Of : \A j \in Of : i <= j /\ j <= l BY ONLY <2>1, <2>2, EndsExist
  <2>4. PICK i \in Of : \E l \in Of : \A j \in Of : i <= j /\ j <= l BY <2>3
  <2>5. PICK l \in Of : \A j \in Of : i <= j /\ j <= l BY <2>4
  <2>7. (\A j \in Of : i <= j) /\ \A j \in Of : j <= l BY <2>5
  <2>8. row(x) \in DOMAIN loaded
    <3>1. l \in DOMAIN loaded /\ k(l) = x BY DEF Of
    <3>2. ASSUME NEW j \in l + 1 .. Len(loaded), k(j) = x PROVE FALSE
      <4>1. j \in DOMAIN loaded /\ j > l BY <1>3, <2>1
      <4> QED BY <4>1, <3>2, <2>7, <2>1 DEF Of
    <3> QED BY <3>1, <3>2
  <2>9. i \in DOMAIN loaded /\ k(i) = x /\ \A j \in 1 .. i - 1 : k(j) # x
    <3>1. i \in DOMAIN loaded /\ k(i) = x BY DEF Of
    <3>2. ASSUME NEW j \in 1 .. i - 1, k(j) = x PROVE FALSE
      <4>1. j \in DOMAIN loaded /\ j < i /\ j \in Int /\ i \in Int BY <1>3, <3>1
      <4>2. i <= j BY <4>1, <3>2, <2>7 DEF Of
      <4> QED BY <4>1, <4>2
    <3> QED BY <3>1, <3>2
  <2>10. i \in New /\ \A j \in New : k(j) = x => j = i
    <3>1. i \in New BY <2>9, <1>4, <1>6
    <3>2. ASSUME NEW j \in New, k(j) = x PROVE j = i
      <4>1. j \in Of /\ j \in Int /\ i \in Int BY <3>2, <1>3, <2>9 DEF Of
      <4>2. i <= j BY <4>1, <2>7
      <4>3. ~(i \in 1 .. j - 1) BY <3>2, <2>9
      <4>4. i >= 1 BY <1>3, <2>9
      <4> QED BY <4>1, <4>2, <4>3, <4>4
    <3> QED BY <3>1, <3>2
  <2>11. Upto(x) = {j \in New : j <= i} BY <2>9, <2>10
  <2> QED BY <2>8, <2>9, <2>10, <2>11
<1>7. \A i \in New : i \in Int BY <1>3
<1> HIDE DEF New, row
<1>9. nextSeq \in Nat /\ Cardinality(New) \in Nat /\ nextSeq' \in Nat
  BY <1>1, <1>5, FS_CardinalityType DEF GraphInvariant
<1> DEFINE rank(x) == Cardinality(Upto(x))
<1>10. \A x \in keys : rank(x) \in Nat /\ rank(x) <= Cardinality(New)
  <2>1. ASSUME NEW x \in keys PROVE rank(x) \in Nat /\ rank(x) <= Cardinality(New)
    <3>1. Upto(x) \in SUBSET New OBVIOUS
    <3> HIDE DEF Upto
    <3> QED BY <3>1, <1>5, FS_Subset, FS_CardinalityType
  <2> QED BY <2>1
\* The rows of two keys that are not the same one begin at different places.
<1>11. ASSUME NEW x \in keys, NEW y \in keys, rank(x) = rank(y) PROVE x = y
  <2>1. PICK i \in New : k(i) = x /\ Upto(x) = {m \in New : m <= i} BY <1>6
  <2>2. PICK j \in New : k(j) = y /\ Upto(y) = {m \in New : m <= j} BY <1>6
  <2>3. i \in Int /\ j \in Int BY <1>7
  <2>4. Upto(x) \in SUBSET New /\ Upto(y) \in SUBSET New OBVIOUS
  <2>5. i \in Upto(x) /\ j \in Upto(y) BY <2>1, <2>2, <2>3
  <2>6. Upto(x) \subseteq Upto(y) \/ Upto(y) \subseteq Upto(x)
    <3>1. CASE i <= j
      <4>1. \A m \in New : m <= i => m <= j BY <3>1, <2>3, <1>7
      <4> QED BY <4>1, <2>1, <2>2
    <3>2. CASE j <= i
      <4>1. \A m \in New : m <= j => m <= i BY <3>2, <2>3, <1>7
      <4> QED BY <4>1, <2>1, <2>2
    <3> QED BY <3>1, <3>2, <2>3
  <2>7. (j \in Upto(x) => j <= i) /\ (i \in Upto(y) => i <= j) BY <2>1, <2>2
  <2> HIDE DEF Upto
  <2>8. IsFiniteSet(Upto(x)) /\ IsFiniteSet(Upto(y)) BY <2>4, <1>5, FS_Subset
  <2>9. Upto(x) = Upto(y)
    <3>1. CASE Upto(x) \subseteq Upto(y) BY <3>1, <2>8, <1>11, FS_Subset
    <3>2. CASE Upto(y) \subseteq Upto(x) BY <3>2, <2>8, <1>11, FS_Subset
    <3> QED BY <3>1, <3>2, <2>6
  <2> QED BY <2>1, <2>2, <2>3, <2>5, <2>7, <2>9
\* A row counts itself among those up to it.
<1>12. \A x \in keys : /\ Installed(x).calls \in Int /\ Installed(x).last \in Int
                       /\ Installed(x).seq = nextSeq + rank(x) /\ rank(x) >= 1
                       /\ DOMAIN Installed(x) = {"calls", "firstSeen", "last", "vanished", "seq"}
  <2>1. ASSUME NEW x \in keys PROVE rank(x) >= 1
    <3>1. PICK i \in New : Upto(x) = {m \in New : m <= i} BY <1>6
    <3>2. Upto(x) # {} /\ Upto(x) \in SUBSET New BY <3>1, <1>7
    <3> HIDE DEF Upto
    <3>3. IsFiniteSet(Upto(x)) BY <3>2, <1>5, FS_Subset
    <3>4. rank(x) # 0 BY <3>2, <3>3, FS_EmptySet
    <3> QED BY <3>4, <1>10
  <2>2. \A x \in keys : row(x) \in DOMAIN loaded BY <1>6
  <2> HIDE DEF Upto
  <2> QED BY <2>1, <2>2, <1>3, <1>4
<1>13. (\A x \in keys : all[x] = Installed(x)) /\ (\A x \in DOMAIN edges : x \notin keys /\ all[x] = edges[x])
       /\ DOMAIN all = DOMAIN edges \cup keys
  <2> HIDE DEF keys, Installed
  <2> QED BY <1>4
<1>14. IsFiniteSet(DOMAIN all)
  <2>1. IsFiniteSet(keys)
    <3> DEFINE keyAt == [i \in DOMAIN loaded |-> k(i)]
    <3>1. keyAt \in Surjection(DOMAIN loaded, keys) BY DEF Surjection
    <3> HIDE DEF keyAt, keys
    <3> QED BY <3>1, <1>5, FS_Surjection
  <2>2. IsFiniteSet(DOMAIN edges) BY DEF GraphInvariant, EdgeMap
  <2> HIDE DEF keys, all
  <2>3. IsFiniteSet(DOMAIN edges \cup keys) BY <2>1, <2>2, FS_Union
  <2> QED BY <2>3, <1>13
<1> HIDE DEF keys, Installed, rank, all
<1>15. EdgeMap(all, nextSeq')
  <2>1. \A x \in DOMAIN edges : edges[x].calls \in Int /\ edges[x].last \in Int /\ edges[x].seq \in Nat /\ edges[x].seq <= nextSeq
    BY DEF GraphInvariant, EdgeMap
  <2>2. \A x \in DOMAIN all : DOMAIN all[x] = {"calls", "firstSeen", "last", "vanished", "seq"}
    BY <1>12, <1>13 DEF GraphInvariant, EdgeMap
  <2>3. ASSUME NEW x \in DOMAIN all
        PROVE  all[x].calls \in Int /\ all[x].last \in Int /\ all[x].seq \in Nat /\ all[x].seq <= nextSeq'
    <3>1. CASE x \in keys BY <3>1, <1>1, <1>9, <1>10, <1>12, <1>13
    <3>2. CASE x \in DOMAIN edges BY <3>2, <2>1, <1>1, <1>9, <1>13
    <3> QED BY <3>1, <3>2, <1>13
  <2>4. ASSUME NEW x \in DOMAIN all, NEW y \in DOMAIN all, all[x].seq = all[y].seq PROVE x = y
    <3>1. CASE x \in keys /\ y \in keys
      <4>1. rank(x) = rank(y) BY <3>1, <2>4, <1>9, <1>10, <1>12, <1>13
      <4> QED BY <3>1, <4>1, <1>11
    <3>2. CASE x \in keys /\ y \in DOMAIN edges BY <3>2, <2>1, <2>4, <1>9, <1>10, <1>12, <1>13
    <3>3. CASE x \in DOMAIN edges /\ y \in keys BY <3>3, <2>1, <2>4, <1>9, <1>10, <1>12, <1>13
    <3>4. CASE x \in DOMAIN edges /\ y \in DOMAIN edges BY <3>4, <2>4, <1>13 DEF GraphInvariant, EdgeMap
    <3> QED BY <3>1, <3>2, <3>3, <3>4, <1>13
  <2> QED BY <2>2, <2>3, <2>4, <1>14 DEF EdgeMap
<1>16. EdgeMap(edges', nextSeq') /\ WithinBound(edges') BY <1>1, <1>9, <1>15, SurvivorsKept
<1>17. AnchorFollowsTraffic' BY <1>2 DEF AnchorFollowsTraffic
<1> QED BY <1>2, <1>9, <1>16, <1>17

\* Each handler and sweep keeps the edges apart, bounded and anchored.
THEOREM GraphInductive == GraphInvariant /\ [GraphNext]_graphVars => GraphInvariant'
<1> SUFFICES ASSUME GraphInvariant, [GraphNext]_graphVars PROVE GraphInvariant' OBVIOUS
<1>1. ASSUME NEW s \in Spans, Consume(s) PROVE GraphInvariant'
  <2>1. nodes' # {} /\ gclock' = gclock BY <1>1 DEF Consume
  <2>2. \/ \E k, op : UpsertEdge(k, op)
        \/ UNCHANGED <<edges, nextSeq, lastNewEmit>>
    <3>1. s.kind \in {"client", "server", "internal"} BY GraphAssumption
    <3>2. CASE s.kind = "client" BY <1>1, <3>2 DEF Consume, ClientSpan, WaitFor
    <3>3. CASE s.kind = "server" BY <1>1, <3>3 DEF Consume, ServerSpan
    <3>4. CASE s.kind = "internal" BY <1>1, <3>4 DEF Consume, NoEdge
    <3> QED BY <3>1, <3>2, <3>3, <3>4
  <2>3. ASSUME NEW k, NEW op, UpsertEdge(k, op) PROVE GraphInvariant'
    <3>1. nextSeq' \in Nat /\ EdgeMap(edges', nextSeq') /\ WithinBound(edges') /\ AnchorFollowsTraffic'
      BY <2>3, UpsertKeeps
    <3> QED BY <2>1, <3>1 DEF GraphInvariant
  <2>4. CASE UNCHANGED <<edges, nextSeq, lastNewEmit>>
    BY <2>1, <2>4 DEF GraphInvariant, AnchorFollowsTraffic
  <2> QED BY <2>2, <2>3, <2>4
<1>2. ASSUME SweepVanished PROVE GraphInvariant'
  <2>1. /\ edges' = [k \in DOMAIN edges |-> IF k \in Gone THEN [edges[k] EXCEPT !.vanished = TRUE] ELSE edges[k]]
        /\ UNCHANGED <<gclock, nextSeq, lastNewEmit, nodes>>
    BY <1>2 DEF SweepVanished
  <2>2. DOMAIN edges' = DOMAIN edges /\ (\A k \in DOMAIN edges : DOMAIN edges'[k] = DOMAIN edges[k])
        /\ \A k \in DOMAIN edges : edges'[k].calls = edges[k].calls /\ edges'[k].last = edges[k].last /\ edges'[k].seq = edges[k].seq
    BY <2>1
  <2>3. EdgeMap(edges', nextSeq') /\ WithinBound(edges') BY <2>1, <2>2 DEF GraphInvariant, EdgeMap, WithinBound
  <2>4. AnchorFollowsTraffic' BY <2>1, <2>2 DEF GraphInvariant, AnchorFollowsTraffic
  <2> QED BY <2>1, <2>3, <2>4 DEF GraphInvariant
<1>3. ASSUME NEW loaded \in Stored, WarmStart(loaded) PROVE GraphInvariant'
  <2>1. gclock' = gclock BY <1>3 DEF WarmStart
  <2> QED BY <2>1, <1>3, WarmStartKeeps DEF GraphInvariant
<1>4. CASE SweepPending BY <1>4 DEF SweepPending, GraphInvariant, AnchorFollowsTraffic
<1>5. CASE TickClock BY <1>5 DEF TickClock, GraphInvariant, AnchorFollowsTraffic
<1>6. CASE UNCHANGED graphVars BY <1>6 DEF graphVars, GraphInvariant, AnchorFollowsTraffic
<1> QED BY <1>1, <1>2, <1>3, <1>4, <1>5, <1>6 DEF GraphNext

\* The invariant of the live graph.
THEOREM GraphInvariantHolds == GraphSpec => []GraphInvariant
<1>1. GraphInit => GraphInvariant
  <2> SUFFICES ASSUME GraphInit PROVE GraphInvariant OBVIOUS
  <2>1. DOMAIN edges = {} /\ DOMAIN lastNewEmit = {} /\ gclock = 1 /\ nextSeq = 0 BY DEF GraphInit, Empty
  <2>2. MaxEdges \in Nat BY GraphAssumption
  <2> QED BY <2>1, <2>2, FS_EmptySet DEF GraphInvariant, EdgeMap, WithinBound, AnchorFollowsTraffic
<1> QED BY <1>1, GraphInductive, PTL DEF GraphSpec

\* What the walk reaches in its first two hops.
LEMMA TwoHops ==
  ASSUME NEW t, NEW a
  PROVE  LET one == {b \in Ends(t) : Adjacent(t, a, b)} \ {a}
             two == {b \in Ends(t) : \E s \in one : Adjacent(t, s, b)} \ ({a} \cup one)
         IN Hops(t, a, 2)[1] = one /\ Hops(t, a, 2)[2] = two
<1> DEFINE one == {b \in Ends(t) : Adjacent(t, a, b)} \ {a}
           two == {b \in Ends(t) : \E s \in one : Adjacent(t, s, b)} \ ({a} \cup one)
           After(w) == {b \in Ends(t) : \E s \in w.frontier : Adjacent(t, s, b)} \ w.visited
           Step(w, h) == IF h = 0 THEN [visited |-> {a}, frontier |-> {a}]
                         ELSE [visited |-> w[h - 1].visited \cup After(w[h - 1]), frontier |-> After(w[h - 1])]
           Walks(w) == w = [h \in 0 .. 2 |-> Step(w, h)]
           walk == CHOOSE w : Walks(w)
           w0 == [visited |-> {a}, frontier |-> {a}]
           w1 == [visited |-> {a} \cup one, frontier |-> one]
           w2 == [visited |-> {a} \cup one \cup two, frontier |-> two]
           built == [h \in 0 .. 2 |-> IF h = 0 THEN w0 ELSE IF h = 1 THEN w1 ELSE w2]
<1>1. Hops(t, a, 2) = [h \in 0 .. 2 |-> walk[h].frontier] BY DEF Hops
<1>2. Walks(built)
  <2>1. built[0] = w0 /\ built[1] = w1 /\ built[2] = w2 OBVIOUS
  <2>2. After(w0) = one /\ After(w1) = two OBVIOUS
  <2>3. Step(built, 0) = w0 /\ Step(built, 1) = w1 /\ Step(built, 2) = w2
    <3>1. Step(built, 0) = w0 OBVIOUS
    <3> HIDE DEF built, After
    <3>2. Step(built, 1) = [visited |-> built[0].visited \cup After(built[0]), frontier |-> After(built[0])] OBVIOUS
    <3>3. Step(built, 2) = [visited |-> built[1].visited \cup After(built[1]), frontier |-> After(built[1])] OBVIOUS
    <3>4. w0.visited = {a} /\ w1.visited = {a} \cup one OBVIOUS
    <3> HIDE DEF Step, w0
    <3>5. Step(built, 1) = w1 BY <2>1, <2>2, <3>2, <3>4
    <3>6. Step(built, 2) = w2
      <4> HIDE DEF w1
      <4> QED BY <2>1, <2>2, <3>3, <3>4
    <3> QED BY <3>1, <3>5, <3>6
  <2>4. \A h \in 0 .. 2 : built[h] = Step(built, h)
    <3> HIDE DEF built, Step, w0, w1, w2
    <3> QED BY <2>1, <2>3
  <2>5. built = [h \in 0 .. 2 |-> built[h]] OBVIOUS
  <2> HIDE DEF built, Step
  <2> QED BY <2>4, <2>5
<1>3. Walks(walk)
  <2> HIDE DEF Walks, built
  <2> QED BY <1>2
<1> HIDE DEF walk, built
<1>4. walk[0] = Step(walk, 0) /\ walk[1] = Step(walk, 1) /\ walk[2] = Step(walk, 2)
  <2> HIDE DEF Step
  <2> QED BY <1>3
<1>5. walk[0] = w0 BY <1>4
<1>6. walk[1].frontier = After(w0) /\ walk[1].visited = {a} \cup After(w0)
  <2>1. walk[1] = [visited |-> w0.visited \cup After(w0), frontier |-> After(w0)]
    <3> HIDE DEF w0, After
    <3> QED BY <1>4, <1>5
  <2> QED BY <2>1
<1>7. After(w0) = one BY DEF Ends
<1>8. walk[2].frontier = After(walk[1])
  <2> HIDE DEF After
  <2> QED BY <1>4
<1>9. walk[2].frontier = two BY <1>6, <1>7, <1>8
<1> HIDE DEF one, two, After, w0
<1>10. Hops(t, a, 2)[1] = one /\ Hops(t, a, 2)[2] = two BY <1>1, <1>6, <1>7, <1>9
<1> QED BY <1>10 DEF one, two

\* Distance is right in every state, by the walk alone.
LEMMA ShortestFound == DistanceIsShortest
<1> SUFFICES ASSUME NEW k \in DOMAIN edges, NEW b \in Ends(k.tenant) \ {k.caller}
             PROVE  /\ Adjacent(k.tenant, k.caller, b) <=> 1 \in Distances(k.tenant, k.caller, b, 2)
                    /\ 2 \in Distances(k.tenant, k.caller, b, 2) <=>
                         /\ ~Adjacent(k.tenant, k.caller, b)
                         /\ \E m \in Ends(k.tenant) : Adjacent(k.tenant, k.caller, m) /\ Adjacent(k.tenant, m, b)
  BY DEF DistanceIsShortest
<1> DEFINE t == k.tenant  a == k.caller
           one == {x \in Ends(t) : Adjacent(t, a, x)} \ {a}
           two == {x \in Ends(t) : \E s \in one : Adjacent(t, s, x)} \ ({a} \cup one)
<1>0. b \in Ends(t) /\ b # a OBVIOUS
<1> HIDE DEF t, a
<1>1. Hops(t, a, 2)[1] = one /\ Hops(t, a, 2)[2] = two BY TwoHops
<1>2. (1 \in Distances(t, a, b, 2) <=> b \in one) /\ (2 \in Distances(t, a, b, 2) <=> b \in two)
  <2> HIDE DEF one, two
  <2> QED BY <1>1 DEF Distances
<1>3. b \in one <=> Adjacent(t, a, b) BY <1>0
<1>4. b \in two <=> ~Adjacent(t, a, b) /\ \E m \in Ends(t) : Adjacent(t, a, m) /\ Adjacent(t, m, b) BY <1>0
<1> QED BY <1>2, <1>3, <1>4 DEF t, a

\* However spans, sweeps and a warm start follow each other, the graph keeps to
\* topology.max_edges with a total eviction order, an edge's anchor is its last
\* sighting for as long as the edge is in the graph, and Distance reports the
\* shortest walk (upsertEdge, evictIfNeeded, WarmStart, Distance).  The anchors
\* of evicted edges are another matter (OnlyAbsentIsNew, CompanionsBounded).
THEOREM LiveGraphSound == GraphSpec => []GraphSound
<1>1. GraphInvariant => GraphSound
  BY ShortestFound DEF GraphInvariant, EdgeMap, WithinBound, GraphSound, Bounded
<1> QED BY <1>1, GraphInvariantHolds, PTL

-----------------------------------------------------------------------------
(* The grouper.                                                            *)

IncidentFields ==
  {"status", "services", "scores", "provisional", "score", "severity", "epicenter", "blast", "updated", "fp", "suppressedBy"}

\* An incident, with or without an event in it.
Shaped(inc) ==
  /\ DOMAIN inc = IncidentFields
  /\ inc.status \in Statuses /\ inc.provisional \in BOOLEAN
  /\ IsFiniteSet(inc.services) /\ inc.services \subseteq DOMAIN Near
  /\ inc.scores \in [inc.services -> Nat]

\* What Ranked says of one incident.
RankedOne(inc) ==
  /\ inc.provisional => inc.score <= ProvisionalCap /\ inc.severity \notin {"High", "Critical"}
  /\ \A s \in DOMAIN inc.scores : inc.scores[s] <= inc.scores[inc.epicenter]
  /\ inc.epicenter \in inc.blast /\ inc.blast \subseteq inc.services

ListedUnder(s) == {byService[s][n] : n \in DOMAIN byService[s]}

GTyped ==
  /\ \E S : incidents \in Seq(S)
  /\ \A i \in DOMAIN incidents : Shaped(incidents[i])
  /\ byService \in [DOMAIN Near -> Seq(Nat)]
  /\ \A s \in DOMAIN Near : ListedUnder(s) \subseteq DOMAIN incidents
  /\ \A f \in DOMAIN byFingerprint : byFingerprint[f] \in DOMAIN incidents

\* The fingerprint index leads back to every open incident.
PointsBack == \A i \in Open : incidents[i].fp \in DOMAIN byFingerprint /\ byFingerprint[incidents[i].fp] = i
Listed == \A i \in DOMAIN incidents : \A s \in incidents[i].services : i \in ListedUnder(s)

GrInv == GTyped /\ PointsBack /\ Listed /\ Ranked /\ OpenBounded

\* At the start there is nothing to list.
LEMMA GrouperInits == GrouperInit => GrInv
<1> SUFFICES ASSUME GrouperInit PROVE GrInv OBVIOUS
<1>1. DOMAIN incidents = {} /\ incidents \in Seq(Nat) BY DEF GrouperInit
<1>2. byService \in [DOMAIN Near -> Seq(Nat)] /\ \A s \in DOMAIN Near : ListedUnder(s) = {}
  BY DEF GrouperInit, ListedUnder
<1>3. GTyped BY <1>1, <1>2 DEF GTyped, GrouperInit
<1>4. Open = {} BY <1>1 DEF Open
<1>5. OpenBounded BY <1>4, FS_EmptySet, GrouperAssumption DEF OpenBounded
<1> QED BY <1>1, <1>3, <1>4, <1>5 DEF GrInv, PointsBack, Listed, Ranked

\* There is a best score, and it is the highest.
LEMMA BestScore ==
  ASSUME NEW S \in SUBSET Int, IsFiniteSet(S), S # {}, NEW f \in [S -> Nat]
  PROVE  Best(f) \in S /\ \A x \in S : f[x] <= f[Best(f)]
<1> DEFINE ahead == {p \in S \X S : f[p[1]] > f[p[2]] \/ (f[p[1]] = f[p[2]] /\ p[1] < p[2])}
<1>1. \A x \in S : <<x, x>> \notin ahead OBVIOUS
<1>2. \A x, y, z \in S : <<x, y>> \in ahead /\ <<y, z>> \in ahead => <<x, z>> \in ahead OBVIOUS
<1>3. \A x, y \in S : <<y, x>> \notin ahead => f[y] < f[x] \/ (f[y] = f[x] /\ x <= y) OBVIOUS
<1> HIDE DEF ahead
<1>4. PICK s \in S : \A y \in S : <<y, s>> \notin ahead BY <1>1, <1>2, LeastExists
<1>5. \A x \in DOMAIN f : f[x] < f[s] \/ (f[x] = f[s] /\ s <= x) BY <1>3, <1>4
<1>6. \E t \in DOMAIN f : \A x \in DOMAIN f : f[x] < f[t] \/ (f[x] = f[t] /\ t <= x) BY <1>5
<1>7. Best(f) \in DOMAIN f /\ \A x \in DOMAIN f : f[x] < f[Best(f)] \/ (f[x] = f[Best(f)] /\ Best(f) <= x)
  BY <1>6 DEF Best
<1>8. DOMAIN f = S /\ \A x \in S : f[x] \in Nat OBVIOUS
<1> DEFINE b == Best(f)
<1> HIDE DEF b
<1>9. b \in S /\ \A x \in S : f[x] < f[b] \/ f[x] = f[b] BY <1>7, <1>8 DEF b
<1>10. \A x \in S : f[x] <= f[b] BY <1>8, <1>9
<1> QED BY <1>9, <1>10 DEF b

\* IncidentScore is a number, capped while the incident is provisional.
LEMMA ScoreType ==
  ASSUME NEW S \in SUBSET Int, IsFiniteSet(S), S # {}, NEW f \in [S -> Nat], NEW v \in BOOLEAN
  PROVE  IncidentScore(f, S, v) \in Int /\ (v => IncidentScore(f, S, v) <= ProvisionalCap)
<1> DEFINE c == Cardinality(S)  b == f[Best(f)]  p == b * (20 + c - 1)
<1>1. c \in Nat /\ b \in Nat BY BestScore, FS_CardinalityType
<1>2. p \in Int
  <2> HIDE DEF b, c
  <2> QED BY <1>1
<1>3. IncidentScore(f, S, v) = IF v /\ Clamped(p) > ProvisionalCap THEN ProvisionalCap ELSE Clamped(p)
  BY DEF IncidentScore
<1> HIDE DEF p
<1>4. Clamped(p) \in Int BY <1>2 DEF Clamped
<1> QED BY <1>3, <1>4 DEF ProvisionalCap

\* An event makes an incident a ranked one of the same status and fingerprint.
LEMMA AttachedFacts ==
  ASSUME NEW inc, Shaped(inc), NEW e \in Events, NEW near
  PROVE  LET a == Attached(inc, e, near) IN
         /\ Shaped(a) /\ RankedOne(a) /\ DOMAIN a = IncidentFields
         /\ a.status = inc.status /\ a.fp = inc.fp /\ a.services = inc.services \cup {e.service}
<1> DEFINE a == Attached(inc, e, near)
           S == inc.services \cup {e.service}
           f == Raised(inc.scores, e)
           v == inc.provisional \/ e.provisional
           x == IncidentScore(f, S, v)
<1>e. e.service \in DOMAIN Near /\ e.score \in Nat /\ e.provisional \in BOOLEAN BY GrouperAssumption
<1>1. IsFiniteSet(S) /\ S # {} /\ S \subseteq DOMAIN Near /\ S \in SUBSET Int
  BY <1>e, FS_AddElement, GrouperAssumption DEF Shaped
<1>2. f \in [S -> Nat]
  <2>1. DOMAIN inc.scores = inc.services /\ \A s \in inc.services : inc.scores[s] \in Nat BY DEF Shaped
  <2> QED BY <2>1, <1>e DEF Raised
<1>3. v \in BOOLEAN BY <1>e DEF Shaped
<1>4. Best(f) \in S /\ \A s \in S : f[s] <= f[Best(f)] BY <1>1, <1>2, BestScore
<1>5. x \in Int /\ (v => x <= ProvisionalCap) BY <1>1, <1>2, <1>3, ScoreType
<1>d. DOMAIN inc = IncidentFields BY DEF Shaped
<1>a. a = [inc EXCEPT !.services = S, !.scores = f, !.provisional = v, !.score = x, !.severity = severityFor(x, S),
                      !.epicenter = Best(f), !.blast = S \cap ({Best(f)} \cup near[Best(f)]), !.updated = now]
  BY DEF Attached
<1> HIDE DEF a, S, f, v, x
<1>6. /\ DOMAIN a = IncidentFields /\ a.status = inc.status /\ a.fp = inc.fp /\ a.services = S /\ a.scores = f
      /\ a.provisional = v /\ a.score = x /\ a.epicenter = Best(f) /\ a.severity = severityFor(x, S)
      /\ a.blast = S \cap ({Best(f)} \cup near[Best(f)])
  BY <1>a, <1>d DEF IncidentFields
<1>7. Shaped(a) BY <1>1, <1>2, <1>3, <1>6 DEF Shaped
<1>8. v => severityFor(x, S) \notin {"High", "Critical"}
  <2> SUFFICES ASSUME v PROVE severityFor(x, S) \notin {"High", "Critical"} OBVIOUS
  <2>1. x < 55 * 20 \/ x \in 55 * 20 .. 69 * 20 BY <1>5 DEF ProvisionalCap
  <2>2. ~(x \in 69 * 20 + 1 .. 84 * 20) /\ ~(x > 84 * 20) BY <1>5 DEF ProvisionalCap
  <2> QED BY <2>1, <2>2 DEF severityFor
<1>9. RankedOne(a)
  <2>1. a.provisional => a.score <= ProvisionalCap /\ a.severity \notin {"High", "Critical"} BY <1>5, <1>6, <1>8
  <2>2. \A s \in DOMAIN a.scores : a.scores[s] <= a.scores[a.epicenter] BY <1>2, <1>4, <1>6
  <2>3. a.epicenter \in a.blast /\ a.blast \subseteq a.services BY <1>4, <1>6
  <2> QED BY <2>1, <2>2, <2>3 DEF RankedOne
<1> QED BY <1>6, <1>7, <1>9 DEF a, S

\* What an index entry for id adds: id only, and under the event's service.
LEMMA IndexedFacts ==
  ASSUME byService \in [DOMAIN Near -> Seq(Nat)], NEW id \in Nat, NEW e, e.service \in DOMAIN Near, NEW services, NEW near
  PROVE  LET new == Indexed(id, services, e, near)
             Under(s) == {new[s][n] : n \in DOMAIN new[s]} IN
         /\ new \in [DOMAIN Near -> Seq(Nat)]
         /\ \A s \in DOMAIN Near : ListedUnder(s) \subseteq Under(s) /\ Under(s) \subseteq ListedUnder(s) \cup {id}
         /\ e.service \notin services => id \in Under(e.service)
<1> DEFINE new == Indexed(id, services, e, near)
           Under(s) == {new[s][n] : n \in DOMAIN new[s]}
           Grows(s) == e.service \notin services /\ s \in {e.service} \cup near[e.service] /\ \A n \in DOMAIN byService[s] : byService[s][n] # id
<1>1. new = [s \in DOMAIN Near |-> IF Grows(s) THEN Append(byService[s], id) ELSE byService[s]]
  BY DEF Indexed
<1> HIDE DEF new
<1>2. ASSUME NEW s \in DOMAIN Near
      PROVE  /\ new[s] \in Seq(Nat) /\ ListedUnder(s) \subseteq Under(s) /\ Under(s) \subseteq ListedUnder(s) \cup {id}
             /\ Grows(s) => id \in Under(s)
  <2>0. byService[s] \in Seq(Nat) OBVIOUS
  <2>1. CASE ~Grows(s) BY <2>0, <2>1, <1>1 DEF ListedUnder
  <2>2. CASE Grows(s)
    <3> DEFINE q == byService[s]  r == Append(q, id)
    <3>1. new[s] = r BY <2>2, <1>1
    <3>2. q \in Seq(Nat) BY <2>0
    <3>3. ListedUnder(s) = {q[n] : n \in DOMAIN q} BY DEF ListedUnder
    <3> HIDE DEF q
    <3>4. r \in Seq(Nat) /\ DOMAIN q = 1 .. Len(q) /\ DOMAIN r = 1 .. Len(q) + 1 /\ Len(q) \in Nat
          /\ r[Len(q) + 1] = id /\ \A n \in 1 .. Len(q) : r[n] = q[n]
      BY <3>2
    <3> HIDE DEF r
    <3>5. Under(s) = {r[n] : n \in 1 .. Len(q) + 1} BY <3>1, <3>4
    <3>6. Len(q) + 1 \in 1 .. Len(q) + 1 /\ \A n \in 1 .. Len(q) : n \in 1 .. Len(q) + 1 BY <3>4
    <3>7. \A n \in 1 .. Len(q) + 1 : n \in 1 .. Len(q) \/ n = Len(q) + 1 BY <3>4
    <3>8. {q[n] : n \in 1 .. Len(q)} \subseteq Under(s) /\ id \in Under(s) BY <3>4, <3>5, <3>6
    <3>9. Under(s) \subseteq {q[n] : n \in 1 .. Len(q)} \cup {id} BY <3>4, <3>5, <3>7
    <3> QED BY <3>1, <3>3, <3>4, <3>8, <3>9
  <2> QED BY <2>1, <2>2
<1>3. new \in [DOMAIN Near -> Seq(Nat)] BY <1>1, <1>2
<1>4. e.service \notin services => id \in Under(e.service)
  <2> SUFFICES ASSUME e.service \notin services PROVE id \in Under(e.service) OBVIOUS
  <2>1. CASE Grows(e.service) BY <2>1, <1>2
  <2>2. CASE ~Grows(e.service)
    <3>1. id \in ListedUnder(e.service) BY <2>2 DEF ListedUnder
    <3> QED BY <3>1, <1>2
  <2> QED BY <2>1, <2>2
<1> QED BY <1>2, <1>3, <1>4 DEF new

\* The open incidents are finitely many.
LEMMA OpenFinite == ASSUME GTyped PROVE IsFiniteSet(Open)
<1>1. PICK S : incidents \in Seq(S) BY DEF GTyped
<1>2. DOMAIN incidents = 1 .. Len(incidents) /\ Len(incidents) \in Nat BY <1>1
<1>3. IsFiniteSet(DOMAIN incidents) BY <1>2, FS_Interval
<1> QED BY <1>3, FS_Subset DEF Open

\* An event joins the incident i: in the sequence and under its services.
Joins(i, att, e, near) ==
  /\ incidents' = [incidents EXCEPT ![i] = att]
  /\ byService' = Indexed(i, incidents[i].services, e, near)

\* Whatever event joins whatever incident, the incidents stay in shape and
\* listed, and none is opened, closed or renamed.
LEMMA JoinStep ==
  ASSUME GrInv, NEW i \in DOMAIN incidents, NEW e \in Events, NEW near, NEW att, Joins(i, att, e, near),
         Shaped(att), RankedOne(att), att.status = incidents[i].status, att.fp = incidents[i].fp,
         att.services = incidents[i].services \cup {e.service}
  PROVE  /\ \E S : incidents' \in Seq(S)
         /\ DOMAIN incidents' = DOMAIN incidents
         /\ \A j \in DOMAIN incidents : Shaped(incidents'[j]) /\ incidents'[j].status = incidents[j].status /\ incidents'[j].fp = incidents[j].fp
         /\ byService' \in [DOMAIN Near -> Seq(Nat)]
         /\ \A s \in DOMAIN Near : ListedUnder(s)' \subseteq DOMAIN incidents
         /\ Open' = Open /\ Listed' /\ Ranked'
<1>e. e.service \in DOMAIN Near BY GrouperAssumption
<1>t. GTyped /\ Listed /\ Ranked BY DEF GrInv
<1>1. PICK S : incidents \in Seq(S) BY <1>t DEF GTyped
<1>2. DOMAIN incidents = 1 .. Len(incidents) /\ i \in Nat BY <1>1
<1>3. incidents' \in Seq(S \cup {att}) /\ DOMAIN incidents' = DOMAIN incidents
      /\ incidents'[i] = att /\ \A j \in DOMAIN incidents : j # i => incidents'[j] = incidents[j]
  BY <1>1 DEF Joins
<1>4. \A j \in DOMAIN incidents : Shaped(incidents'[j]) /\ incidents'[j].status = incidents[j].status /\ incidents'[j].fp = incidents[j].fp
  BY <1>3, <1>t DEF GTyped
<1>5. Open' = Open BY <1>3, <1>4 DEF Open, IsOpen
<1> DEFINE new == Indexed(i, incidents[i].services, e, near)
           Under(s) == {new[s][n] : n \in DOMAIN new[s]}
<1>6. /\ new \in [DOMAIN Near -> Seq(Nat)]
      /\ \A s \in DOMAIN Near : ListedUnder(s) \subseteq Under(s) /\ Under(s) \subseteq ListedUnder(s) \cup {i}
      /\ e.service \notin incidents[i].services => i \in Under(e.service)
  BY <1>2, <1>e, <1>t, IndexedFacts DEF GTyped
<1>7. byService' = new /\ \A s : ListedUnder(s)' = Under(s) BY DEF Joins, ListedUnder
<1> HIDE DEF new, Under
<1>8. \A s \in DOMAIN Near : ListedUnder(s)' \subseteq DOMAIN incidents BY <1>6, <1>7, <1>t DEF GTyped
<1>9. Listed'
  <2>1. ASSUME NEW j \in DOMAIN incidents, NEW s \in incidents'[j].services PROVE j \in ListedUnder(s)'
    <3>1. s \in DOMAIN Near BY <1>4 DEF Shaped
    <3>2. CASE s \in incidents[j].services
      <4>1. j \in ListedUnder(s) BY <3>2, <1>t DEF Listed
      <4> QED BY <4>1, <3>1, <1>6, <1>7
    <3>3. CASE s \notin incidents[j].services
      <4>1. j = i /\ s = e.service BY <3>3, <2>1, <1>3
      <4> QED BY <4>1, <3>3, <1>6, <1>7
    <3> QED BY <3>2, <3>3
  <2> QED BY <2>1, <1>3 DEF Listed
<1>10. Ranked'
  <2>1. \A j \in DOMAIN incidents : RankedOne(incidents'[j])
    <3>1. \A j \in DOMAIN incidents : RankedOne(incidents[j]) BY <1>t DEF Ranked, RankedOne
    <3> QED BY <3>1, <1>3
  <2> QED BY <2>1, <1>3 DEF Ranked, RankedOne
<1> QED BY <1>3, <1>4, <1>5, <1>6, <1>7, <1>8, <1>9, <1>10

\* An event whose fingerprint is open joins that incident.
LEMMA AddRepeatedStep ==
  ASSUME GrInv, NEW e \in Events, NEW near, AddRepeated(e, near)
  PROVE  GrInv'
<1> DEFINE i == byFingerprint[e.fp]
           a == Attached(incidents[i], e, near)
           att == [a EXCEPT !.suppressedBy = i]
<1>1. i \in DOMAIN incidents /\ Shaped(incidents[i]) BY DEF AddRepeated, Repeats, GrInv, GTyped
<1>2. /\ Shaped(a) /\ RankedOne(a) /\ DOMAIN a = IncidentFields
      /\ a.status = incidents[i].status /\ a.fp = incidents[i].fp /\ a.services = incidents[i].services \cup {e.service}
  BY <1>1, AttachedFacts
<1>3. /\ DOMAIN att = IncidentFields /\ att.status = a.status /\ att.services = a.services /\ att.scores = a.scores
      /\ att.provisional = a.provisional /\ att.score = a.score /\ att.severity = a.severity
      /\ att.epicenter = a.epicenter /\ att.blast = a.blast /\ att.fp = a.fp
  <2> HIDE DEF a
  <2> QED BY <1>2 DEF IncidentFields
<1>4. Joins(i, att, e, near) /\ byFingerprint' = byFingerprint BY DEF AddRepeated, Joins
<1> HIDE DEF att, a, i
<1>5. Shaped(att) BY <1>2, <1>3 DEF Shaped
<1>6. RankedOne(att) BY <1>2, <1>3 DEF RankedOne
<1>7. /\ \E S : incidents' \in Seq(S)
      /\ DOMAIN incidents' = DOMAIN incidents
      /\ \A j \in DOMAIN incidents : Shaped(incidents'[j]) /\ incidents'[j].status = incidents[j].status /\ incidents'[j].fp = incidents[j].fp
      /\ byService' \in [DOMAIN Near -> Seq(Nat)]
      /\ \A s \in DOMAIN Near : ListedUnder(s)' \subseteq DOMAIN incidents
      /\ Open' = Open /\ Listed' /\ Ranked'
  BY <1>1, <1>2, <1>3, <1>4, <1>5, <1>6, JoinStep
<1>8. GTyped' BY <1>4, <1>7 DEF GrInv, GTyped
<1>9. PointsBack' BY <1>4, <1>7 DEF GrInv, PointsBack, Open
<1>10. OpenBounded' BY <1>7 DEF GrInv, OpenBounded
<1> QED BY <1>7, <1>8, <1>9, <1>10 DEF GrInv

\* An incident that a service leads to.
LEMMA TargetListed ==
  ASSUME GrInv, NEW e \in Events, Candidates(e) # {}
  PROVE  Target(e) \in Open
<1> DEFINE q == byService[e.service]
<1>1. q \in Seq(Nat) /\ ListedUnder(e.service) \subseteq DOMAIN incidents BY GrouperAssumption DEF GrInv, GTyped
<1>2. ListedUnder(e.service) = {q[n] : n \in DOMAIN q} BY DEF ListedUnder
<1>3. Candidates(e) = {n \in DOMAIN q : IsOpen(q[n]) /\ now - incidents[q[n]].updated <= Window} BY DEF Candidates
<1> HIDE DEF q
<1>4. DOMAIN q = 1 .. Len(q) /\ Len(q) \in Nat BY <1>1
<1>5. IsFiniteSet(Candidates(e))
  <2>1. IsFiniteSet(1 .. Len(q)) BY <1>4, FS_Interval
  <2>2. Candidates(e) \subseteq 1 .. Len(q) BY <1>3, <1>4
  <2> QED BY <2>1, <2>2, FS_Subset
<1> DEFINE below == {p \in Candidates(e) \X Candidates(e) : p[1] < p[2]}
<1>6. Candidates(e) \subseteq Nat BY <1>3, <1>4
<1>7. /\ \A x \in Candidates(e) : <<x, x>> \notin below
      /\ \A x, y, z \in Candidates(e) : <<x, y>> \in below /\ <<y, z>> \in below => <<x, z>> \in below
      /\ \A x, y \in Candidates(e) : <<y, x>> \notin below => x <= y
  BY <1>6
<1> HIDE DEF below
<1>8. PICK m \in Candidates(e) : \A y \in Candidates(e) : <<y, m>> \notin below BY <1>5, <1>7, LeastExists
<1>9. \A x \in Candidates(e) : m <= x BY <1>7, <1>8
<1>10. \E n \in Candidates(e) : \A x \in Candidates(e) : n <= x BY <1>9
<1> DEFINE c == CHOOSE n \in Candidates(e) : \A x \in Candidates(e) : n <= x
<1>11. c \in Candidates(e) BY <1>10
<1>12. Target(e) = q[c] BY DEF Target, q
<1> QED BY <1>1, <1>2, <1>3, <1>11, <1>12 DEF Open

\* A fingerprint that does not repeat points to no open incident.
LEMMA NotRepeated ==
  ASSUME GrInv, NEW e \in Events, ~Repeats(e)
  PROVE  \A j \in Open : incidents[j].fp # e.fp
BY DEF GrInv, PointsBack, Repeats, Open

\* An event next to an open incident joins it, and is listed under its own service.
LEMMA AddToNeighbourStep ==
  ASSUME GrInv, NEW e \in Events, NEW near, AddToNeighbour(e, near)
  PROVE  GrInv'
<1> DEFINE i == Target(e)
           att == Attached(incidents[i], e, near)
<1>1. i \in Open BY TargetListed DEF AddToNeighbour
<1>2. i \in DOMAIN incidents /\ Shaped(incidents[i]) BY <1>1 DEF Open, GrInv, GTyped
<1>3. /\ Shaped(att) /\ RankedOne(att)
      /\ att.status = incidents[i].status /\ att.fp = incidents[i].fp /\ att.services = incidents[i].services \cup {e.service}
  BY <1>2, AttachedFacts
<1>4. Joins(i, att, e, near) /\ byFingerprint' = Pointed(e, i) BY DEF AddToNeighbour, Joins
<1>r. \A j \in Open : incidents[j].fp # e.fp BY NotRepeated DEF AddToNeighbour
<1> HIDE DEF att, i
<1>7. /\ \E S : incidents' \in Seq(S)
      /\ DOMAIN incidents' = DOMAIN incidents
      /\ \A j \in DOMAIN incidents : Shaped(incidents'[j]) /\ incidents'[j].status = incidents[j].status /\ incidents'[j].fp = incidents[j].fp
      /\ byService' \in [DOMAIN Near -> Seq(Nat)]
      /\ \A s \in DOMAIN Near : ListedUnder(s)' \subseteq DOMAIN incidents
      /\ Open' = Open /\ Listed' /\ Ranked'
  BY <1>2, <1>3, <1>4, JoinStep
<1>p. /\ DOMAIN byFingerprint' = DOMAIN byFingerprint \cup {e.fp} /\ byFingerprint'[e.fp] = i
      /\ \A f \in DOMAIN byFingerprint : f # e.fp => byFingerprint'[f] = byFingerprint[f]
  BY <1>4 DEF Pointed
<1>8. GTyped' BY <1>2, <1>p, <1>7 DEF GrInv, GTyped
<1>9. PointsBack'
  <2>1. \A j \in Open : j \in DOMAIN incidents BY DEF Open
  <2>2. ASSUME NEW j \in Open PROVE incidents'[j].fp \in DOMAIN byFingerprint' /\ byFingerprint'[incidents'[j].fp] = j
    BY <2>1, <1>p, <1>7, <1>r DEF GrInv, PointsBack
  <2> QED BY <2>2, <1>7 DEF PointsBack
<1>10. OpenBounded' BY <1>7 DEF GrInv, OpenBounded
<1> QED BY <1>7, <1>8, <1>9, <1>10 DEF GrInv

\* An event of neither kind opens an incident, listed under its service.
LEMMA AddNewStep ==
  ASSUME GrInv, NEW e \in Events, NEW near, AddNew(e, near)
  PROVE  GrInv'
<1> DEFINE id == Len(incidents) + 1
           att == Attached(Fresh(e), e, near)
           all == Append(incidents, att)
           candidates == {j \in DOMAIN all : all[j].status = "Candidate"}
           lowest == {i \in candidates : \A j \in candidates : all[i].score <= all[j].score}
<1>t. GTyped /\ Listed /\ Ranked /\ PointsBack /\ OpenBounded BY DEF GrInv
<1>e. e.service \in DOMAIN Near BY GrouperAssumption
<1>1. PICK S : incidents \in Seq(S) BY <1>t DEF GTyped
<1>2. Shaped(Fresh(e))
  <2>1. {} \subseteq DOMAIN Near /\ [s \in {} |-> 0] \in [{} -> Nat] OBVIOUS
  <2>2. DOMAIN Fresh(e) = IncidentFields /\ Fresh(e).status = "Candidate" /\ Fresh(e).provisional = FALSE
        /\ Fresh(e).services = {} /\ Fresh(e).scores = [s \in {} |-> 0]
    BY DEF Fresh, IncidentFields
  <2> QED BY <2>1, <2>2, FS_EmptySet DEF Shaped, Statuses
<1>3. Shaped(att) /\ RankedOne(att) /\ att.status = "Candidate" /\ att.fp = e.fp /\ att.services = {e.service} /\ DOMAIN att = IncidentFields
  <2>1. Fresh(e).status = "Candidate" /\ Fresh(e).fp = e.fp /\ Fresh(e).services = {} BY DEF Fresh
  <2>2. /\ Shaped(att) /\ RankedOne(att) /\ DOMAIN att = IncidentFields
        /\ att.status = Fresh(e).status /\ att.fp = Fresh(e).fp /\ att.services = Fresh(e).services \cup {e.service}
    BY <1>2, AttachedFacts
  <2> HIDE DEF att
  <2> QED BY <2>1, <2>2
<1>r. \A j \in Open : incidents[j].fp # e.fp BY NotRepeated DEF AddNew
<1>4. byService' = Indexed(id, {}, e, near) /\ byFingerprint' = Pointed(e, id) BY DEF AddNew
<1>5. \/ Cardinality(candidates) <= MaxOpen /\ incidents' = all
      \/ ~(Cardinality(candidates) <= MaxOpen) /\ \E i \in lowest : incidents' = [all EXCEPT ![i].status = "Expired"]
  BY DEF AddNew, Enforced
<1> HIDE DEF att
<1>6. /\ all \in Seq(S \cup {att}) /\ DOMAIN all = DOMAIN incidents \cup {id} /\ id \in Nat /\ id \notin DOMAIN incidents
      /\ all[id] = att /\ \A j \in DOMAIN incidents : all[j] = incidents[j]
  BY <1>1
<1>7. candidates = Open \cup {id} BY <1>3, <1>6 DEF Open, IsOpen
<1>8. IsFiniteSet(Open) /\ id \notin Open BY <1>t, <1>6, OpenFinite DEF Open
<1>9. IsFiniteSet(candidates) /\ Cardinality(candidates) = Cardinality(Open) + 1 /\ Cardinality(Open) \in Nat
  <2>1. IsFiniteSet(Open \cup {id}) /\ Cardinality(Open \cup {id}) = Cardinality(Open) + 1 BY <1>8, FS_AddElement
  <2>2. Cardinality(Open) \in Nat BY <1>8, FS_CardinalityType
  <2> HIDE DEF candidates
  <2> QED BY <2>1, <2>2, <1>7
<1>10. Cardinality(Open) <= MaxOpen BY <1>t DEF OpenBounded
<1> HIDE DEF all, candidates, id
<1>11. \E out \in SUBSET candidates :
         /\ \E U : incidents' \in Seq(U)
         /\ DOMAIN incidents' = DOMAIN all
         /\ \A j \in DOMAIN all : /\ Shaped(incidents'[j]) /\ RankedOne(incidents'[j])
                                  /\ incidents'[j].fp = all[j].fp /\ incidents'[j].services = all[j].services
                                  /\ incidents'[j].status = IF j \in out THEN "Expired" ELSE all[j].status
         /\ Cardinality(candidates \ out) <= MaxOpen
  <2>0. \A j \in DOMAIN all : Shaped(all[j]) /\ RankedOne(all[j])
    <3>1. \A j \in DOMAIN incidents : RankedOne(incidents[j]) BY <1>t DEF Ranked, RankedOne
    <3> QED BY <3>1, <1>3, <1>6, <1>t DEF GTyped
  <2>1. CASE Cardinality(candidates) <= MaxOpen /\ incidents' = all
    <3>1. candidates \ {} = candidates /\ {} \in SUBSET candidates OBVIOUS
    <3>2. \E U : incidents' \in Seq(U) BY <2>1, <1>6
    <3> QED BY <3>1, <3>2, <2>0, <2>1
  <2>2. CASE ~(Cardinality(candidates) <= MaxOpen) /\ \E i \in lowest : incidents' = [all EXCEPT ![i].status = "Expired"]
    <3>1. PICK i \in lowest : incidents' = [all EXCEPT ![i].status = "Expired"] BY <2>2
    <3>2. i \in candidates OBVIOUS
    <3>3. i \in DOMAIN all BY <3>2 DEF candidates
    <3> DEFINE x == [all[i] EXCEPT !.status = "Expired"]
    <3>4. DOMAIN all[i] = IncidentFields /\ Shaped(all[i]) /\ RankedOne(all[i]) BY <2>0, <3>3 DEF Shaped
    <3>5. /\ DOMAIN x = IncidentFields /\ x.status = "Expired" /\ x.services = all[i].services /\ x.scores = all[i].scores
          /\ x.provisional = all[i].provisional /\ x.score = all[i].score /\ x.severity = all[i].severity
          /\ x.epicenter = all[i].epicenter /\ x.blast = all[i].blast /\ x.fp = all[i].fp
      BY <3>4 DEF IncidentFields
    <3>6. incidents' = [all EXCEPT ![i] = x] BY <3>1
    <3> HIDE DEF x, lowest
    <3>7. Shaped(x) BY <3>4, <3>5 DEF Shaped, Statuses
    <3>8. RankedOne(x) BY <3>4, <3>5 DEF RankedOne
    <3>9. incidents' \in Seq(S \cup {att} \cup {x}) /\ DOMAIN incidents' = DOMAIN all /\ incidents'[i] = x
          /\ \A j \in DOMAIN all : j # i => incidents'[j] = all[j]
      BY <3>3, <3>6, <1>6
    <3>10. Cardinality(candidates \ {i}) <= MaxOpen
      <4>1. Cardinality(candidates \ {i}) = Cardinality(candidates) - 1 BY <3>2, <1>9, FS_RemoveElement
      <4> QED BY <4>1, <1>9, <1>10, GrouperAssumption
    <3>11. \A j \in DOMAIN all : /\ Shaped(incidents'[j]) /\ RankedOne(incidents'[j])
                                 /\ incidents'[j].fp = all[j].fp /\ incidents'[j].services = all[j].services
                                 /\ incidents'[j].status = IF j \in {i} THEN "Expired" ELSE all[j].status
      BY <2>0, <3>5, <3>7, <3>8, <3>9
    <3>12. {i} \in SUBSET candidates BY <3>2
    <3> QED BY <3>9, <3>10, <3>11, <3>12
  <2> QED BY <1>5, <2>1, <2>2
<1>12. PICK out \in SUBSET candidates :
         /\ \E U : incidents' \in Seq(U)
         /\ DOMAIN incidents' = DOMAIN all
         /\ \A j \in DOMAIN all : /\ Shaped(incidents'[j]) /\ RankedOne(incidents'[j])
                                  /\ incidents'[j].fp = all[j].fp /\ incidents'[j].services = all[j].services
                                  /\ incidents'[j].status = IF j \in out THEN "Expired" ELSE all[j].status
         /\ Cardinality(candidates \ out) <= MaxOpen
  BY <1>11
<1>13. Open' = candidates \ out BY <1>12 DEF Open, IsOpen, candidates
<1> DEFINE nothing == {}
           new == Indexed(id, nothing, e, near)
           Under(s) == {new[s][n] : n \in DOMAIN new[s]}
<1>n. e.service \notin nothing OBVIOUS
<1> HIDE DEF nothing
<1>14. /\ new \in [DOMAIN Near -> Seq(Nat)]
       /\ \A s \in DOMAIN Near : ListedUnder(s) \subseteq Under(s) /\ Under(s) \subseteq ListedUnder(s) \cup {id}
       /\ id \in Under(e.service)
  <2>1. byService \in [DOMAIN Near -> Seq(Nat)] /\ id \in Nat BY <1>t, <1>6 DEF GTyped
  <2>2. /\ new \in [DOMAIN Near -> Seq(Nat)]
        /\ \A s \in DOMAIN Near : ListedUnder(s) \subseteq Under(s) /\ Under(s) \subseteq ListedUnder(s) \cup {id}
        /\ e.service \notin nothing => id \in Under(e.service)
    BY ONLY <2>1, <1>e, IndexedFacts
  <2> HIDE DEF new, Under
  <2> QED BY <2>2, <1>n
<1>15. byService' = new /\ \A s : ListedUnder(s)' = Under(s) BY <1>4 DEF ListedUnder, nothing
<1> HIDE DEF new, Under
<1>p. /\ DOMAIN byFingerprint' = DOMAIN byFingerprint \cup {e.fp} /\ byFingerprint'[e.fp] = id
      /\ \A f \in DOMAIN byFingerprint : f # e.fp => byFingerprint'[f] = byFingerprint[f]
  BY <1>4 DEF Pointed
<1>16. GTyped'
  <2>1. \A s \in DOMAIN Near : ListedUnder(s)' \subseteq DOMAIN incidents' BY <1>6, <1>12, <1>14, <1>15, <1>t DEF GTyped
  <2>2. \A f \in DOMAIN byFingerprint' : byFingerprint'[f] \in DOMAIN incidents' BY <1>6, <1>12, <1>p, <1>t DEF GTyped
  <2> QED BY <2>1, <2>2, <1>12, <1>14, <1>15 DEF GTyped
<1>17. PointsBack'
  <2>1. ASSUME NEW j \in candidates PROVE incidents'[j].fp \in DOMAIN byFingerprint' /\ byFingerprint'[incidents'[j].fp] = j
    <3>0. j \in DOMAIN all /\ incidents'[j].fp = all[j].fp BY <2>1, <1>12 DEF candidates
    <3>1. CASE j = id BY <3>0, <3>1, <1>3, <1>6, <1>p
    <3>2. CASE j \in Open
      <4>1. j \in DOMAIN incidents BY <3>2 DEF Open
      <4>2. incidents[j].fp # e.fp /\ incidents[j].fp \in DOMAIN byFingerprint /\ byFingerprint[incidents[j].fp] = j
        BY <3>2, <1>r, <1>t DEF PointsBack
      <4> QED BY <4>1, <4>2, <3>0, <1>6, <1>p
    <3> QED BY <3>1, <3>2, <1>7
  <2> QED BY <2>1, <1>13 DEF PointsBack
<1>18. Listed'
  <2>1. ASSUME NEW j \in DOMAIN all, NEW s \in all[j].services PROVE j \in ListedUnder(s)'
    <3>1. CASE j = id BY <3>1, <2>1, <1>3, <1>6, <1>14, <1>15
    <3>2. CASE j \in DOMAIN incidents
      <4>1. s \in DOMAIN Near /\ j \in ListedUnder(s) BY <3>2, <2>1, <1>6, <1>t DEF GTyped, Shaped, Listed
      <4> QED BY <4>1, <1>14, <1>15
    <3> QED BY <3>1, <3>2, <1>6
  <2> QED BY <2>1, <1>12 DEF Listed
<1>19. Ranked' BY <1>12 DEF Ranked, RankedOne
<1>20. OpenBounded' BY <1>12, <1>13 DEF OpenBounded
<1> QED BY <1>16, <1>17, <1>18, <1>19, <1>20 DEF GrInv

\* A suppressed incident leaves the open ones and stays where it is listed.
LEMMA SuppressStep ==
  ASSUME GrInv, NEW i \in DOMAIN incidents, Suppress(i)
  PROVE  GrInv'
<1> DEFINE x == [[incidents[i] EXCEPT !.status = "Suppressed"] EXCEPT !.suppressedBy = Reason]
<1>t. GTyped /\ Listed /\ Ranked /\ PointsBack /\ OpenBounded BY DEF GrInv
<1>1. PICK S : incidents \in Seq(S) BY <1>t DEF GTyped
<1>2. Shaped(incidents[i]) /\ DOMAIN incidents[i] = IncidentFields BY <1>t DEF GTyped, Shaped
<1>3. incidents' = [incidents EXCEPT ![i] = x] /\ byService' = byService /\ byFingerprint' = byFingerprint
  BY <1>1 DEF Suppress
<1> DEFINE y == incidents[i]
<1>4. /\ DOMAIN x = IncidentFields /\ x.status = "Suppressed" /\ x.services = y.services /\ x.scores = y.scores
      /\ x.provisional = y.provisional /\ x.score = y.score /\ x.severity = y.severity
      /\ x.epicenter = y.epicenter /\ x.blast = y.blast /\ x.fp = y.fp
  BY <1>2 DEF IncidentFields
<1> HIDE DEF x
<1>5. incidents' \in Seq(S \cup {x}) /\ DOMAIN incidents' = DOMAIN incidents /\ incidents'[i] = x
      /\ \A j \in DOMAIN incidents : j # i => incidents'[j] = incidents[j]
  BY <1>1, <1>3
<1>6. Shaped(x) BY <1>2, <1>4 DEF Shaped, Statuses
<1>7. \A j \in DOMAIN incidents : /\ Shaped(incidents'[j]) /\ incidents'[j].fp = incidents[j].fp
                                  /\ incidents'[j].services = incidents[j].services
                                  /\ (incidents'[j].status = "Candidate" => incidents[j].status = "Candidate")
  BY <1>4, <1>5, <1>6, <1>t DEF GTyped
<1>8. Open' \subseteq Open BY <1>5, <1>7 DEF Open, IsOpen
<1>l. \A s : ListedUnder(s)' = ListedUnder(s) BY <1>3 DEF ListedUnder
<1>9. GTyped' BY <1>3, <1>5, <1>7, <1>l, <1>t DEF GTyped
<1>10. PointsBack'
  <2>1. ASSUME NEW j \in Open' PROVE incidents'[j].fp \in DOMAIN byFingerprint /\ byFingerprint[incidents'[j].fp] = j
    <3>1. j \in Open /\ j \in DOMAIN incidents BY <1>8 DEF Open
    <3> QED BY <3>1, <1>7, <1>t DEF PointsBack
  <2> QED BY <2>1, <1>3 DEF PointsBack
<1>11. Listed' BY <1>5, <1>7, <1>l, <1>t DEF Listed
<1>12. Ranked'
  <2>1. \A j \in DOMAIN incidents : RankedOne(incidents[j]) BY <1>t DEF Ranked, RankedOne
  <2>2. RankedOne(x) BY <2>1, <1>4 DEF RankedOne
  <2>3. \A j \in DOMAIN incidents' : RankedOne(incidents'[j]) BY <2>1, <2>2, <1>5
  <2> QED BY <2>3 DEF Ranked, RankedOne
<1>13. OpenBounded'
  <2>1. IsFiniteSet(Open) BY <1>t, OpenFinite
  <2>2. Cardinality(Open') <= Cardinality(Open) /\ Cardinality(Open') \in Nat /\ Cardinality(Open) \in Nat
    BY <2>1, <1>8, FS_Subset, FS_CardinalityType
  <2> QED BY <2>2, <1>t, GrouperAssumption DEF OpenBounded
<1> QED BY <1>9, <1>10, <1>11, <1>12, <1>13 DEF GrInv

\* Time alone changes no incident and no index.
LEMMA TimePassesStep ==
  ASSUME GrInv, UNCHANGED <<incidents, byService, byFingerprint>>
  PROVE  GrInv'
<1>1. Open' = Open /\ \A s : ListedUnder(s)' = ListedUnder(s) BY DEF Open, IsOpen, ListedUnder
<1>2. GTyped' BY <1>1 DEF GrInv, GTyped
<1>3. PointsBack' BY <1>1 DEF GrInv, PointsBack
<1>4. Listed' BY <1>1 DEF GrInv, Listed
<1>5. Ranked' BY DEF GrInv, Ranked
<1>6. OpenBounded' BY <1>1 DEF GrInv, OpenBounded
<1> QED BY <1>2, <1>3, <1>4, <1>5, <1>6 DEF GrInv

\* The two indexes lead to every incident that an event may have to join.
THEOREM GrouperInvariant == GrouperSpec => []GrInv
<1>1. GrInv /\ [GrouperNext]_grouperVars => GrInv'
  <2> SUFFICES ASSUME GrInv, [GrouperNext]_grouperVars PROVE GrInv' OBVIOUS
  <2>1. ASSUME NEW e \in Events, Add(e) PROVE GrInv'
    <3>1. PICK near : AddRepeated(e, near) \/ AddToNeighbour(e, near) \/ AddNew(e, near) BY <2>1 DEF Add
    <3> QED BY <3>1, AddRepeatedStep, AddToNeighbourStep, AddNewStep
  <2>2. ASSUME NEW i \in DOMAIN incidents, Suppress(i) PROVE GrInv' BY <2>2, SuppressStep
  <2>3. CASE TimePasses BY <2>3, TimePassesStep DEF TimePasses
  <2>4. CASE UNCHANGED grouperVars BY <2>4, TimePassesStep DEF grouperVars
  <2> QED BY <2>1, <2>2, <2>3, <2>4 DEF GrouperNext
<1> QED BY <1>1, GrouperInits, PTL DEF GrouperSpec

\* Whatever the order of the events, at most max_open_incidents incidents are open,
\* one for each fingerprint, each found under all of its services; a provisional
\* one stays at the lower severities, and the epicentre has the highest score and
\* lies within the blast radius (Add, enforceMaxOpenIncidents,
\* registerServiceForIncident, severityFor).
THEOREM IncidentsSound == GrouperSpec => []GroupingSound
<1>1. GrInv => GroupingSound
  <2> SUFFICES ASSUME GrInv PROVE GroupingSound OBVIOUS
  <2>1. OneOpenPerFingerprint BY DEF GrInv, PointsBack, OneOpenPerFingerprint
  <2>2. Reachable
    <3>1. \A i \in Open : i \in DOMAIN incidents BY DEF Open
    <3>2. \A i \in DOMAIN incidents : \A s \in incidents[i].services : \E n \in DOMAIN byService[s] : byService[s][n] = i
      BY DEF GrInv, Listed, ListedUnder
    <3> QED BY <3>1, <3>2 DEF Reachable
  <2> QED BY <2>1, <2>2 DEF GrInv, GroupingSound
<1> QED BY <1>1, GrouperInvariant, PTL

-----------------------------------------------------------------------------
(* Recursion along 1 .. N, and enumerations in order.                      *)

\* What holds of 0 and passes from each number to the next holds up to N.
LEMMA Along ==
  ASSUME NEW N \in Nat, NEW A, 0 \in A, \A n \in 1 .. N : n - 1 \in A => n \in A
  PROVE  \A n \in 0 .. N : n \in A
<1> DEFINE B == {n \in Nat : n <= N => n \in A}
<1>1. 0 \in B OBVIOUS
<1>2. \A n \in B : n + 1 \in B
  <2>1. ASSUME NEW n \in B, n + 1 <= N PROVE n + 1 \in A
    <3>1. n \in Nat /\ n <= N /\ n + 1 \in 1 .. N /\ (n + 1) - 1 = n BY <2>1
    <3>2. n \in A BY <3>1
    <3> QED BY <3>1, <3>2
  <2> QED BY <2>1
<1>3. B \in SUBSET Nat OBVIOUS
<1> HIDE DEF B
<1>4. B = Nat BY <1>1, <1>2, <1>3, NumbersInduct
<1> QED BY <1>4 DEF B

\* The steps of a recursion along 1 .. N on the values of V, and what such a
\* recursion defines.
StepsIn(N, V) == [(1 .. N) \X V -> V]
RunsIn(N, V, v0, step) == {g \in [0 .. N -> V] : g[0] = v0 /\ \A n \in 1 .. N : g[n] = step[<<n, g[n - 1]>>]}

\* A function defined by recursion along 1 .. N exists.
LEMMA RecursionExists ==
  ASSUME NEW N \in Nat, NEW V, NEW v0 \in V, NEW step \in StepsIn(N, V)
  PROVE  RunsIn(N, V, v0, step) # {}
<1>0. step \in [(1 .. N) \X V -> V] BY DEF StepsIn
<1> DEFINE Upto(m, g) == g \in [0 .. m -> V] /\ g[0] = v0 /\ \A n \in 1 .. m : g[n] = step[<<n, g[n - 1]>>]
           A == {m \in 0 .. N : \E g : Upto(m, g)}
<1>1. 0 \in A
  <2> DEFINE g == [x \in 0 .. 0 |-> v0]
  <2>1. g \in [0 .. 0 -> V] /\ g[0] = v0 /\ 1 .. 0 = {} OBVIOUS
  <2> HIDE DEF g
  <2>2. Upto(0, g) BY <2>1
  <2> QED BY <2>2
<1>2. ASSUME NEW n \in 1 .. N, n - 1 \in A PROVE n \in A
  <2>1. PICK g : Upto(n - 1, g) BY <1>2
  <2> DEFINE v == step[<<n, g[n - 1]>>]
             h == [x \in 0 .. n |-> IF x = n THEN v ELSE g[x]]
  <2>2. g[n - 1] \in V BY <2>1
  <2>3. v \in V BY <2>2, <1>0
  <2> HIDE DEF v
  <2>4. h \in [0 .. n -> V] BY <2>1, <2>3
  <2>5. \A x \in 0 .. n - 1 : h[x] = g[x] OBVIOUS
  <2>6. h[n] = v /\ h[n - 1] = g[n - 1] /\ h[0] = v0 BY <2>1
  <2>7. ASSUME NEW x \in 1 .. n PROVE h[x] = step[<<x, h[x - 1]>>]
    <3>1. CASE x = n BY <3>1, <2>6 DEF v
    <3>2. CASE x # n
      <4>1. x \in 1 .. n - 1 /\ x \in 0 .. n - 1 /\ x - 1 \in 0 .. n - 1 BY <3>2
      <4>2. h[x] = g[x] /\ h[x - 1] = g[x - 1] BY <4>1, <2>5
      <4> QED BY <4>1, <4>2, <2>1
    <3> QED BY <3>1, <3>2
  <2> HIDE DEF h
  <2>8. Upto(n, h) BY <2>4, <2>6, <2>7
  <2> QED BY <2>8
<1> HIDE DEF A
<1>3. N \in A BY <1>1, <1>2, Along
<1> QED BY <1>3 DEF A, RunsIn

\* The pairs in before order the elements of S strictly, and any two of them.
OrdersAll(S, before) ==
  /\ \A x \in S : <<x, x>> \notin before
  /\ \A x, y, z \in S : <<x, y>> \in before /\ <<y, z>> \in before => <<x, z>> \in before
  /\ \A x, y \in S : x # y => <<x, y>> \in before \/ <<y, x>> \in before

\* The enumerations of S in that order.
SortingsOf(S, before) ==
  {s \in [1 .. Cardinality(S) -> S] : \A a, b \in DOMAIN s : a < b => <<s[a], s[b]>> \in before}

\* A finite set can be enumerated in any such order.
LEMMA SortedExists ==
  ASSUME NEW S, IsFiniteSet(S), NEW before, OrdersAll(S, before)
  PROVE  SortingsOf(S, before) # {}
<1>0. /\ \A x \in S : <<x, x>> \notin before
      /\ \A x, y, z \in S : <<x, y>> \in before /\ <<y, z>> \in before => <<x, z>> \in before
      /\ \A x, y \in S : x # y => <<x, y>> \in before \/ <<y, x>> \in before
  BY DEF OrdersAll
<1> DEFINE Sorts(s, X) == s \in [1 .. Cardinality(X) -> X] /\ \A a, b \in 1 .. Cardinality(X) : a < b => <<s[a], s[b]>> \in before
           A == {X \in SUBSET S : \E s : Sorts(s, X)}
           after == {p \in S \X S : <<p[2], p[1]>> \in before}
<1>1. ASSUME NEW X \in SUBSET S, \A U \in SUBSET X : U # X => U \in A PROVE X \in A
  <2>0. IsFiniteSet(X) BY FS_Subset
  <2>1. CASE X = {}
    <3>1. Cardinality(X) = 0 BY <2>1, FS_EmptySet
    <3>2. Sorts([x \in 1 .. 0 |-> x], X) BY <3>1
    <3> QED BY <3>2
  <2>2. CASE X # {}
    <3>1. \A x, y \in S : <<x, y>> \in after <=> <<y, x>> \in before OBVIOUS
    <3> HIDE DEF after
    <3>2. (\A x \in X : <<x, x>> \notin after)
          /\ \A x, y, z \in X : <<x, y>> \in after /\ <<y, z>> \in after => <<x, z>> \in after
      BY <3>1, <1>0
    <3>3. PICK m \in X : \A y \in X : <<y, m>> \notin after BY ONLY <2>0, <2>2, <3>2, LeastExists
    <3>4. \A y \in X \ {m} : <<y, m>> \in before BY <3>1, <3>3, <1>0
    <3> DEFINE U == X \ {m}
    <3>5. U \in SUBSET X /\ U # X BY <3>3
    <3>6. U \in A BY <3>5, <1>1
    <3>7. PICK u : Sorts(u, U) BY <3>6
    <3> DEFINE c == Cardinality(U)
               s == [x \in 1 .. c + 1 |-> IF x = c + 1 THEN m ELSE u[x]]
    <3>8. c \in Nat /\ Cardinality(X) = c + 1
      <4>1. IsFiniteSet(U) /\ Cardinality(U) = Cardinality(X) - 1 BY <2>0, <3>3, FS_RemoveElement
      <4>2. Cardinality(U) \in Nat /\ Cardinality(X) \in Nat BY <4>1, <2>0, FS_CardinalityType
      <4> QED BY <4>1, <4>2
    <3>9. \A x \in 1 .. c : u[x] \in U BY <3>7
    <3> HIDE DEF c, U
    <3>10. \A a \in 1 .. c + 1 : a # c + 1 => a \in 1 .. c BY <3>8
    <3>11. s \in [1 .. c + 1 -> X] BY <3>3, <3>5, <3>9, <3>10
    <3>12. ASSUME NEW a \in 1 .. c + 1, NEW b \in 1 .. c + 1, a < b PROVE <<s[a], s[b]>> \in before
      <4>1. a \in 1 .. c /\ a # c + 1 BY <3>8, <3>12
      <4>2. CASE b = c + 1 BY <4>1, <4>2, <3>4, <3>9 DEF U
      <4>3. CASE b # c + 1 BY <4>1, <4>3, <3>7, <3>10, <3>12 DEF c
      <4> QED BY <4>2, <4>3
    <3> HIDE DEF s
    <3>13. Sorts(s, X) BY <3>8, <3>11, <3>12
    <3> QED BY <3>13
  <2> QED BY <2>1, <2>2
<1> HIDE DEF A
<1>2. \A X \in SUBSET S : X \in A BY ONLY <1>1, SubsetsInduct, IsFiniteSet(S)
<1>3. S \in A BY <1>2
<1>4. PICK s : Sorts(s, S) BY <1>3 DEF A
<1>5. DOMAIN s = 1 .. Cardinality(S) BY <1>4
<1> QED BY <1>4, <1>5 DEF SortingsOf

\* An arrangement: each element of the finite set at one place.
Arranged(K) == {t \in [1 .. Cardinality(K) -> K] : \A a, b \in DOMAIN t : t[a] = t[b] => a = b}
\* As many places as elements: every element stands at one.
LEMMA ArrangedOnto ==
  ASSUME NEW K, IsFiniteSet(K), NEW t \in Arranged(K)
  PROVE  \A x \in K : \E a \in 1 .. Cardinality(K) : t[a] = x
<1> DEFINE D == 1 .. Cardinality(K)
<1>1. Cardinality(K) \in Nat BY FS_CardinalityType
<1>2. Cardinality(D) = Cardinality(K)
  <2>1. 1 \in Int /\ Cardinality(K) \in Int BY <1>1
  <2>2. Cardinality(D) = IF 1 > Cardinality(K) THEN 0 ELSE Cardinality(K) - 1 + 1 BY <2>1, FS_Interval
  <2> QED BY <1>1, <2>2
<1>3. t \in Injection(D, K)
  <2>1. t \in [D -> K] /\ \A a, b \in D : t[a] = t[b] => a = b BY DEF Arranged
  <2> HIDE DEF D
  <2> QED BY <2>1 DEF Injection, IsInjective
<1> HIDE DEF D
<1>4. t \in Surjection(D, K) BY <1>2, <1>3, FS_Injection
<1> QED BY <1>4 DEF Surjection, D

-----------------------------------------------------------------------------
(* The incident memory.                                                    *)

\* The shape of what the store holds.
MemoryTyped ==
  /\ age \in Nat /\ lastSeq \in Nat
  /\ IsFiniteSet(DOMAIN records) /\ DOMAIN records \subseteq IDs
  /\ \A i \in DOMAIN records :
       /\ DOMAIN records[i] = RecordFields /\ records[i].weight \in 0 .. 40
       /\ records[i].created \in Int /\ records[i].used \in Nat /\ IsFiniteSet(records[i].terms)

\* An id that is drawn is an id.
LEMMA NextIDType == ASSUME lastSeq \in Nat, NEW p \in DOMAIN Prefix PROVE NextID(p) \in IDs
BY DEF NextID, IDs

\* A record that Record, ImportRunbook or Correct makes.
LEMMA NewRecordShape ==
  ASSUME NEW kind, NEW terms, NEW supersedes
  PROVE  LET r == NewRecord(kind, terms, supersedes) IN
         DOMAIN r = RecordFields /\ r.weight = 20 /\ r.created = age /\ r.used = age /\ r.terms = terms
BY DEF NewRecord, RecordFields

\* One more record of the right shape, or one in the place of another.
LEMMA WithKeeps ==
  ASSUME MemoryTyped, NEW id \in IDs, NEW r, DOMAIN r = RecordFields, r.weight \in 0 .. 40, r.created \in Int,
         r.used \in Nat, IsFiniteSet(r.terms), records' = With(id, r), age' = age, lastSeq' \in Nat
  PROVE  MemoryTyped'
<1>1. DOMAIN records' = DOMAIN records \cup {id} /\ records'[id] = r
      /\ \A i \in DOMAIN records : i # id => records'[i] = records[i]
  BY DEF With
<1>2. IsFiniteSet(DOMAIN records') BY <1>1, FS_AddElement DEF MemoryTyped
<1> QED BY <1>1, <1>2 DEF MemoryTyped

\* A change of one record within its shape.
LEMMA ChangedKeeps ==
  ASSUME MemoryTyped, NEW id \in DOMAIN records, DOMAIN records' = DOMAIN records,
         \A i \in DOMAIN records : i # id => records'[i] = records[i],
         DOMAIN records'[id] = RecordFields, records'[id].weight \in 0 .. 40, records'[id].created \in Int,
         records'[id].used \in Nat, IsFiniteSet(records'[id].terms), age' = age, lastSeq' = lastSeq
  PROVE  MemoryTyped'
<1>1. \A i \in DOMAIN records' :
        /\ DOMAIN records'[i] = RecordFields /\ records'[i].weight \in 0 .. 40
        /\ records'[i].created \in Int /\ records'[i].used \in Nat /\ IsFiniteSet(records'[i].terms)
  <2>1. ASSUME NEW i \in DOMAIN records
        PROVE  /\ DOMAIN records'[i] = RecordFields /\ records'[i].weight \in 0 .. 40
               /\ records'[i].created \in Int /\ records'[i].used \in Nat /\ IsFiniteSet(records'[i].terms)
    <3>1. CASE i = id BY <3>1
    <3>2. CASE i # id BY <3>2 DEF MemoryTyped
    <3> QED BY <3>1, <3>2
  <2> QED BY <2>1
<1> QED BY <1>1 DEF MemoryTyped

\* Fewer records are still such records.
LEMMA FewerKeep ==
  ASSUME MemoryTyped, NEW S, records' = Survivors(S), age' = age, lastSeq' = lastSeq
  PROVE  MemoryTyped'
<1>1. DOMAIN records' \in SUBSET DOMAIN records /\ \A i \in DOMAIN records' : records'[i] = records[i]
  BY DEF Survivors
<1>2. IsFiniteSet(DOMAIN records') BY <1>1, FS_Subset DEF MemoryTyped
<1> QED BY <1>1, <1>2 DEF MemoryTyped

\* A record weakened by a correction stays one, and a weight is never negative.
LEMMA WeakenedShape ==
  ASSUME NEW r, DOMAIN r = RecordFields, r.weight \in 0 .. 40
  PROVE  LET v == Weakened(r) IN
         /\ DOMAIN v = RecordFields /\ v.weight \in 0 .. 40
         /\ v.created = r.created /\ v.used = r.used /\ v.terms = r.terms
BY DEF Weakened, RecordFields

\* A confirmed record stays one, and a weight is never above the cap.
LEMMA ConfirmedShape ==
  ASSUME NEW r, DOMAIN r = RecordFields, r.weight \in 0 .. 40
  PROVE  LET v == Confirmed(r) IN
         /\ DOMAIN v = RecordFields /\ v.weight \in 0 .. 40
         /\ v.created = r.created /\ v.used = age /\ v.terms = r.terms
BY DEF Confirmed, RecordFields

\* Each operation keeps the shape.
LEMMA MemoryInductive == MemoryTyped /\ [MemoryNext]_memoryVars => MemoryTyped'
<1> SUFFICES ASSUME MemoryTyped, [MemoryNext]_memoryVars PROVE MemoryTyped' OBVIOUS
<1>0. lastSeq \in Nat /\ age \in Nat /\ {"cor", "imp", "rec", "run"} \subseteq DOMAIN Prefix BY DEF MemoryTyped, Prefix
<1>1. ASSUME NEW p \in DOMAIN Prefix, NEW kind, NEW t \in Terms, Insert(p, NewRecord(kind, t, NoRecord)) PROVE MemoryTyped'
  <2> DEFINE r == NewRecord(kind, t, NoRecord)
  <2>1. DOMAIN r = RecordFields /\ r.weight = 20 /\ r.created = age /\ r.used = age /\ r.terms = t BY NewRecordShape
  <2> HIDE DEF r
  <2>2. r.weight \in 0 .. 40 /\ r.created \in Int /\ r.used \in Nat BY <2>1, <1>0
  <2>3. IsFiniteSet(r.terms) BY <2>1, MemoryAssumption
  <2>4. records' = With(NextID(p), r) /\ age' = age /\ lastSeq' \in Nat BY <1>1, <1>0 DEF Insert, r
  <2>5. NextID(p) \in IDs BY <1>0, NextIDType
  <2> QED BY <2>1, <2>2, <2>3, <2>4, <2>5, WithKeeps
<1>2. ASSUME NEW t \in Terms, Record(t) PROVE MemoryTyped' BY <1>0, <1>1, <1>2 DEF Record
<1>3. ASSUME NEW t \in Terms, ImportRunbook(t) PROVE MemoryTyped' BY <1>0, <1>1, <1>3 DEF ImportRunbook
<1>4. ASSUME NEW id \in DOMAIN records, Confirm(id) PROVE MemoryTyped'
  <2> DEFINE v == Confirmed(records[id])
  <2>1. records' = [records EXCEPT ![id] = v] /\ age' = age /\ lastSeq' = lastSeq BY <1>4 DEF Confirm
  <2>2. /\ DOMAIN v = RecordFields /\ v.weight \in 0 .. 40 /\ v.created \in Int /\ v.used \in Nat
        /\ IsFiniteSet(v.terms)
    BY <1>0, ConfirmedShape DEF MemoryTyped
  <2> HIDE DEF v
  <2>3. DOMAIN records' = DOMAIN records /\ records'[id] = v /\ \A i \in DOMAIN records : i # id => records'[i] = records[i]
    BY <2>1
  <2> QED BY <2>1, <2>2, <2>3, ChangedKeeps
<1>5. ASSUME NEW id \in DOMAIN records, Correct(id) PROVE MemoryTyped'
  <2> DEFINE new == NextID("cor")
             r == NewRecord("correction", records[id].terms, id)
             v == Weakened(records[id])
  <2>1. /\ records' = [i \in DOMAIN records \cup {new} |-> IF i = new THEN r ELSE IF i = id THEN v ELSE records[i]]
        /\ lastSeq' = lastSeq + 1 /\ age' = age
    BY <1>5 DEF Correct
  <2>2. DOMAIN r = RecordFields /\ r.weight \in 0 .. 40 /\ r.created \in Int /\ r.used \in Nat /\ IsFiniteSet(r.terms)
    BY <1>0, NewRecordShape DEF MemoryTyped
  <2>3. DOMAIN v = RecordFields /\ v.weight \in 0 .. 40 /\ v.created \in Int /\ v.used \in Nat /\ IsFiniteSet(v.terms)
    BY WeakenedShape DEF MemoryTyped
  <2>4. new \in IDs BY <1>0, NextIDType
  <2> HIDE DEF new, r, v
  <2>5. IsFiniteSet(DOMAIN records') BY <2>1, FS_AddElement DEF MemoryTyped
  <2>6. DOMAIN records' \subseteq IDs BY <2>1, <2>4 DEF MemoryTyped
  <2>7. ASSUME NEW i \in DOMAIN records'
        PROVE  /\ DOMAIN records'[i] = RecordFields /\ records'[i].weight \in 0 .. 40
               /\ records'[i].created \in Int /\ records'[i].used \in Nat /\ IsFiniteSet(records'[i].terms)
    <3>1. CASE i = new BY <3>1, <2>1, <2>2
    <3>2. CASE i # new /\ i = id BY <3>2, <2>1, <2>3
    <3>3. CASE i # new /\ i # id BY <3>3, <2>1 DEF MemoryTyped
    <3> QED BY <3>1, <3>2, <3>3
  <2>8. age' \in Nat /\ lastSeq' \in Nat BY <2>1, <1>0
  <2> QED BY <2>5, <2>6, <2>7, <2>8 DEF MemoryTyped
<1>6. ASSUME NEW id \in DOMAIN records, Delete(id) PROVE MemoryTyped' BY <1>6, FewerKeep DEF Delete
<1>7. ASSUME NEW n \in DOMAIN Bundles, ImportOne(Bundles[n]) PROVE MemoryTyped'
  <2> DEFINE b == Bundles[n]
             id == IF b.id \in DOMAIN records THEN NextID("imp") ELSE b.id
  <2>1. records' = With(id, b.record) /\ age' = age /\ lastSeq' \in Nat BY <1>7, <1>0 DEF ImportOne
  <2>2. /\ b.id \in IDs /\ DOMAIN b.record = RecordFields /\ IsFiniteSet(b.record.terms)
        /\ b.record.weight \in 0 .. 40 /\ b.record.created \in Int /\ b.record.used \in Nat
    BY MemoryAssumption
  <2>3. id \in IDs BY <1>0, <2>2, NextIDType
  <2> HIDE DEF b, id
  <2> QED BY <2>1, <2>2, <2>3, WithKeeps
<1>8. ASSUME Consolidate PROVE MemoryTyped' BY <1>8, FewerKeep DEF Consolidate
<1>9. ASSUME Aging PROVE MemoryTyped' BY <1>9, <1>0 DEF Aging, MemoryTyped
<1>10. CASE UNCHANGED memoryVars BY <1>10 DEF memoryVars, MemoryTyped
<1> QED BY <1>2, <1>3, <1>4, <1>5, <1>6, <1>7, <1>8, <1>9, <1>10 DEF MemoryNext

\* Every reachable store holds such records.
THEOREM MemoryInvariant == MemorySpec => []MemoryTyped
<1>1. MemoryInit => MemoryTyped
  <2> SUFFICES ASSUME MemoryInit PROVE MemoryTyped OBVIOUS
  <2>1. DOMAIN records = {} /\ age = 0 /\ lastSeq = 0 BY DEF MemoryInit
  <2> QED BY <2>1, FS_EmptySet DEF MemoryTyped
<1> QED BY <1>1, MemoryInductive, PTL DEF MemorySpec

\* What satisfies a recursion along 1 .. N stays within the type its steps keep.
LEMMA RecursionTyped ==
  ASSUME NEW N \in Nat, NEW V, NEW step \in StepsIn(N, V), NEW f, f[0] \in V,
         \A n \in 1 .. N : f[n - 1] \in V => f[n] = step[<<n, f[n - 1]>>]
  PROVE  \A n \in 0 .. N : f[n] \in V
<1> DEFINE A == {n \in 0 .. N : f[n] \in V}
<1>1. 0 \in A OBVIOUS
<1>2. ASSUME NEW n \in 1 .. N, n - 1 \in A PROVE n \in A
  <2>1. f[n - 1] \in V BY <1>2
  <2>2. step[<<n, f[n - 1]>>] \in V BY <2>1 DEF StepsIn
  <2> QED BY <2>1, <2>2
<1> HIDE DEF A
<1>3. \A n \in 0 .. N : n \in A BY <1>1, <1>2, Along
<1> QED BY <1>3 DEF A

\* The ids compare like strings: strictly, and any two of them.
LEMMA IdsOrdered ==
  /\ \A a \in IDs : ~IdLess(a, a)
  /\ \A a, b, c \in IDs : IdLess(a, b) /\ IdLess(b, c) => IdLess(a, c)
  /\ \A a, b \in IDs : a # b => IdLess(a, b) \/ IdLess(b, a)
<1>1. \A a \in IDs : a.p \in {"cor", "imp", "rec", "run"} /\ a.n \in Nat /\ a = [p |-> a.p, n |-> a.n]
  BY DEF IDs, Prefix
<1>2. Prefix["cor"] = 1 /\ Prefix["imp"] = 2 /\ Prefix["rec"] = 3 /\ Prefix["run"] = 4 BY DEF Prefix
<1>3. \A a \in IDs : ~IdLess(a, a) BY <1>1, <1>2 DEF IdLess
<1>4. ASSUME NEW a \in IDs, NEW b \in IDs, NEW c \in IDs, IdLess(a, b), IdLess(b, c) PROVE IdLess(a, c)
  <2>1. Prefix[a.p] \in Int /\ Prefix[b.p] \in Int /\ Prefix[c.p] \in Int BY <1>1, <1>2
  <2>2. a.n \in Nat /\ b.n \in Nat /\ c.n \in Nat BY <1>1
  <2> QED BY <1>4, <2>1, <2>2 DEF IdLess
<1>5. ASSUME NEW a \in IDs, NEW b \in IDs, a # b PROVE IdLess(a, b) \/ IdLess(b, a)
  <2>1. a.p # b.p \/ a.n # b.n BY <1>1, <1>5
  <2>2. a.n \in Nat /\ b.n \in Nat BY <1>1
  <2>3. CASE a.p = b.p BY <2>1, <2>2, <2>3 DEF IdLess
  <2>4. CASE a.p # b.p
    <3>1. Prefix[a.p] \in Int /\ Prefix[b.p] \in Int /\ Prefix[a.p] # Prefix[b.p] BY <1>1, <1>2, <2>4
    <3> QED BY <3>1 DEF IdLess
  <2> QED BY <2>3, <2>4
<1> QED BY <1>3, <1>4, <1>5

\* The ids in order: each once.
LEMMA SortedIdsList ==
  ASSUME NEW S \in SUBSET IDs, IsFiniteSet(S)
  PROVE  LET q == SortedIds(S) IN
         /\ q \in [1 .. Cardinality(S) -> S]
         /\ \A i, j \in 1 .. Cardinality(S) : i < j => IdLess(q[i], q[j])
<1> DEFINE before == {p \in S \X S : IdLess(p[1], p[2])}
<1>1. \A x, y \in S : <<x, y>> \in before <=> IdLess(x, y) OBVIOUS
<1> HIDE DEF before
<1>2. \A x \in S : <<x, x>> \notin before BY <1>1, IdsOrdered
<1>3. \A x, y, z \in S : <<x, y>> \in before /\ <<y, z>> \in before => <<x, z>> \in before
  <2>1. ASSUME NEW x \in S, NEW y \in S, NEW z \in S, <<x, y>> \in before, <<y, z>> \in before
        PROVE  <<x, z>> \in before
    <3>1. IdLess(x, y) /\ IdLess(y, z) BY <1>1, <2>1
    <3>2. x \in IDs /\ y \in IDs /\ z \in IDs OBVIOUS
    <3>3. IdLess(x, z) BY <3>1, <3>2, IdsOrdered
    <3> QED BY <3>3, <1>1
  <2> QED BY <2>1
<1>4. \A x, y \in S : x # y => <<x, y>> \in before \/ <<y, x>> \in before BY <1>1, IdsOrdered
<1>5. PICK s \in [1 .. Cardinality(S) -> S] : \A a, b \in DOMAIN s : a < b => <<s[a], s[b]>> \in before
  <2>1. OrdersAll(S, before) BY ONLY <1>2, <1>3, <1>4 DEF OrdersAll
  <2>2. SortingsOf(S, before) # {} BY ONLY <2>1, IsFiniteSet(S), SortedExists
  <2> QED BY <2>2 DEF SortingsOf
<1>6. \A a, b \in DOMAIN s : a < b => IdLess(s[a], s[b]) BY <1>1, <1>5
<1>7. \E q \in [1 .. Cardinality(S) -> S] : \A i, j \in DOMAIN q : i < j => IdLess(q[i], q[j]) BY <1>6
<1> DEFINE q == SortedIds(S)
<1>8. q \in [1 .. Cardinality(S) -> S] /\ \A i, j \in DOMAIN q : i < j => IdLess(q[i], q[j]) BY <1>7 DEF SortedIds
<1>9. DOMAIN q = 1 .. Cardinality(S) BY <1>8
<1> QED BY <1>8, <1>9

\* A product with a positive factor keeps and reflects the order.
LEMMA MulOrder ==
  ASSUME NEW a \in Nat, NEW b \in Nat, NEW c \in Nat, c > 0
  PROVE  (a > b <=> a * c > b * c) /\ (a = b <=> a * c = b * c)
OBVIOUS

\* Fractions compare transitively by their cross products.
LEMMA CrossTransitive ==
  ASSUME NEW x \in Nat, NEW y \in Nat, NEW z \in Nat, NEW u \in Nat, NEW v \in Nat, NEW w \in Nat,
         u > 0, v > 0, w > 0, x * v >= y * u, y * w >= z * v
  PROVE  /\ x * w >= z * u
         /\ x * v > y * u \/ y * w > z * v => x * w > z * u
<1> DEFINE a == x * v  b == y * u  c == y * w  d == z * v  e == x * w  f == z * u
<1>1. a \in Nat /\ b \in Nat /\ c \in Nat /\ d \in Nat /\ e \in Nat /\ f \in Nat OBVIOUS
<1>2. a >= b /\ c >= d OBVIOUS
<1>3. a * w = e * v /\ b * w = c * u /\ d * u = f * v OBVIOUS
<1>4. x * v > y * u \/ y * w > z * v <=> a > b \/ c > d OBVIOUS
<1> HIDE DEF a, b, c, d, e, f
<1> DEFINE aw == a * w  bw == b * w  cu == c * u  du == d * u  ev == e * v  fv == f * v
<1>5. aw \in Int /\ bw \in Int /\ cu \in Int /\ du \in Int /\ ev \in Int /\ fv \in Int BY <1>1
<1>6. aw = ev /\ bw = cu /\ du = fv BY <1>3
<1>7. (a > b <=> aw > bw) /\ (a = b <=> aw = bw) BY <1>1, MulOrder
<1>8. (c > d <=> cu > du) /\ (c = d <=> cu = du) BY <1>1, MulOrder
<1>9. (e > f <=> ev > fv) /\ (e = f <=> ev = fv) BY <1>1, MulOrder
<1> HIDE DEF aw, bw, cu, du, ev, fv
<1>10. e >= f /\ (a > b \/ c > d => e > f) BY <1>1, <1>2, <1>5, <1>6, <1>7, <1>8, <1>9
<1> QED BY <1>10, <1>4 DEF e, f

\* A power of two is a positive number.
LEMMA TwoToPositive == ASSUME NEW n \in Nat PROVE TwoTo(n) \in Nat /\ TwoTo(n) > 0
<1> DEFINE Eqn(g) == g = [k \in 0 .. n |-> IF k = 0 THEN 1 ELSE 2 * g[k - 1]]
           P == {x \in Nat : x > 0}
           one == 1
           step == [d \in (1 .. n) \X P |-> 2 * d[2]]
<1>1. step \in StepsIn(n, P) /\ one \in P
  <2>1. \A d \in (1 .. n) \X P : 2 * d[2] \in P OBVIOUS
  <2> QED BY <2>1 DEF StepsIn
<1>2. \A k \in 1 .. n, x \in P : step[<<k, x>>] = 2 * x OBVIOUS
<1> HIDE DEF step, P, one
<1>3. PICK g \in [0 .. n -> P] : g[0] = one /\ \A k \in 1 .. n : g[k] = step[<<k, g[k - 1]>>]
  <2>1. n \in Nat /\ step \in StepsIn(n, P) /\ one \in P BY <1>1
  <2>2. RunsIn(n, P, one, step) # {} BY ONLY <2>1, RecursionExists
  <2> QED BY <2>2 DEF RunsIn
<1>4. Eqn(g)
  <2>1. ASSUME NEW k \in 0 .. n PROVE g[k] = IF k = 0 THEN 1 ELSE 2 * g[k - 1]
    <3>1. CASE k = 0 BY <3>1, <1>3 DEF one
    <3>2. CASE k # 0
      <4>1. k \in 1 .. n /\ k - 1 \in 0 .. n BY <3>2
      <4>2. g[k - 1] \in P BY <4>1, <1>3
      <4>3. g[k] = step[<<k, g[k - 1]>>] BY <4>1, <1>3
        <4> QED BY <3>2, <4>1, <4>2, <4>3, <1>2
    <3> QED BY <3>1, <3>2
  <2>2. g = [k \in 0 .. n |-> g[k]] BY <1>3
  <2> QED BY <2>1, <2>2
<1> DEFINE p == CHOOSE h : Eqn(h)
<1>5. Eqn(p) BY <1>4
<1>6. TwoTo(n) = p[n] BY DEF TwoTo
<1> HIDE DEF p
<1>7. p[0] \in P /\ \A k \in 1 .. n : p[k - 1] \in P => p[k] = step[<<k, p[k - 1]>>]
  <2>1. p[0] = 1 /\ \A k \in 1 .. n : p[k] = 2 * p[k - 1] BY <1>5
  <2> QED BY <2>1, <1>1, <1>2 DEF one
<1>8. \A k \in 0 .. n : p[k] \in P BY <1>1, <1>7, RecursionTyped
<1>9. p[n] \in P BY <1>8
<1> QED BY <1>6, <1>9 DEF P

\* The rank of a record that passes is a fraction of natural numbers.
LEMMA RankType ==
  ASSUME MemoryTyped, NEW q \in Queries, NEW i \in DOMAIN records, Passes(q, i)
  PROVE  Rank(q, i)[1] \in Nat /\ Rank(q, i)[2] \in Nat /\ Rank(q, i)[2] > 0
<1> DEFINE a == Similarity(q, i)[1]  b == Similarity(q, i)[2]  h == TwoTo(HalfLives(records[i]))  w == records[i].weight
<1>1. IsFiniteSet(q) /\ IsFiniteSet(records[i].terms) BY MemoryAssumption DEF MemoryTyped
<1>2. a \in Nat
  <2>1. IsFiniteSet(q \cap records[i].terms) BY <1>1, FS_Intersection
  <2>2. a = Cardinality(q \cap records[i].terms) BY DEF Similarity, Inter
  <2> QED BY <2>1, <2>2, FS_CardinalityType
<1>3. b \in Nat
  <2>1. IsFiniteSet(q \cup records[i].terms) BY <1>1, FS_Union
  <2>2. b = Cardinality(q \cup records[i].terms) BY DEF Similarity, Union
  <2> QED BY <2>1, <2>2, FS_CardinalityType
<1>4. b > 0 BY DEF Passes
<1>5. HalfLives(records[i]) \in Nat BY DEF HalfLives, MemoryTyped
<1>6. h \in Nat /\ h > 0 BY <1>5, TwoToPositive
<1>7. w \in Nat BY DEF MemoryTyped
<1>8. Rank(q, i)[1] = a * (20 * h + w) /\ Rank(q, i)[2] = b * h BY DEF Rank
<1> HIDE DEF a, b, h, w
<1> DEFINE c == 20 * h + w  e == b * h  d == a * c
<1>9. c \in Nat BY <1>6, <1>7
<1>10. e \in Nat /\ e > 0 BY <1>3, <1>4, <1>6
<1> HIDE DEF c
<1>11. d \in Nat BY <1>2, <1>9
<1> QED BY <1>8, <1>10, <1>11 DEF c

\* By rank, the records that pass are strictly ordered, any two of them.
LEMMA AboveOrders ==
  ASSUME MemoryTyped, NEW q \in Queries, NEW K \in SUBSET DOMAIN records, \A i \in K : Passes(q, i)
  PROVE  /\ \A i \in K : ~Above(q, i, i)
         /\ \A i, j, k \in K : Above(q, i, j) /\ Above(q, j, k) => Above(q, i, k)
         /\ \A i, j \in K : i # j => Above(q, i, j) \/ Above(q, j, i)
<1>0. K \in SUBSET IDs BY DEF MemoryTyped
<1>1. \A i \in K : Rank(q, i)[1] \in Nat /\ Rank(q, i)[2] \in Nat /\ Rank(q, i)[2] > 0 BY RankType
<1> DEFINE num(i) == Rank(q, i)[1]
           den(i) == Rank(q, i)[2]
           cross(i, j) == num(i) * den(j)
<1>2. \A i, j \in K : cross(i, j) \in Nat BY <1>1
<1>3. \A i, j \in K : Above(q, i, j) <=> cross(i, j) > cross(j, i) \/ (cross(i, j) = cross(j, i) /\ IdLess(i, j))
  BY DEF Above
<1>4. ASSUME NEW i \in K, NEW j \in K, NEW k \in K, cross(i, j) >= cross(j, i), cross(j, k) >= cross(k, j)
      PROVE  /\ cross(i, k) >= cross(k, i)
             /\ cross(i, j) > cross(j, i) \/ cross(j, k) > cross(k, j) => cross(i, k) > cross(k, i)
  <2> DEFINE x == num(i)  y == num(j)  z == num(k)  u == den(i)  v == den(j)  w == den(k)
  <2>1. x \in Nat /\ y \in Nat /\ z \in Nat /\ u \in Nat /\ v \in Nat /\ w \in Nat /\ u > 0 /\ v > 0 /\ w > 0 BY <1>1
  <2>2. x * v >= y * u /\ y * w >= z * v BY <1>4
  <2> HIDE DEF x, y, z, u, v, w
  <2>3. x * w >= z * u /\ (x * v > y * u \/ y * w > z * v => x * w > z * u) BY ONLY <2>1, <2>2, CrossTransitive
  <2> QED BY <2>3 DEF x, y, z, u, v, w
<1> HIDE DEF cross
<1>5. \A i \in K : ~Above(q, i, i)
  <2>1. ASSUME NEW i \in K PROVE ~Above(q, i, i)
    <3>1. cross(i, i) \in Nat /\ ~IdLess(i, i) BY <1>0, <1>2, IdsOrdered
    <3> QED BY <3>1, <1>3
  <2> QED BY <2>1
<1>6. ASSUME NEW i \in K, NEW j \in K, NEW k \in K, Above(q, i, j), Above(q, j, k) PROVE Above(q, i, k)
  <2> DEFINE ij == cross(i, j)  ji == cross(j, i)  jk == cross(j, k)  kj == cross(k, j)  ik == cross(i, k)  ki == cross(k, i)
  <2>1. ij \in Nat /\ ji \in Nat /\ jk \in Nat /\ kj \in Nat /\ ik \in Nat /\ ki \in Nat BY <1>2
  <2>2. ij > ji \/ (ij = ji /\ IdLess(i, j)) BY <1>3, <1>6
  <2>3. jk > kj \/ (jk = kj /\ IdLess(j, k)) BY <1>3, <1>6
  <2>4. ij >= ji /\ jk >= kj => ik >= ki /\ (ij > ji \/ jk > kj => ik > ki) BY <1>4
  <2>5. Above(q, i, k) <=> ik > ki \/ (ik = ki /\ IdLess(i, k)) BY <1>3
  <2>6. IdLess(i, j) /\ IdLess(j, k) => IdLess(i, k)
    <3>1. i \in IDs /\ j \in IDs /\ k \in IDs BY <1>0
    <3> QED BY <3>1, IdsOrdered
  <2> HIDE DEF ij, ji, jk, kj, ik, ki
  <2> QED BY <2>1, <2>2, <2>3, <2>4, <2>5, <2>6
<1>7. ASSUME NEW i \in K, NEW j \in K, i # j PROVE Above(q, i, j) \/ Above(q, j, i)
  <2> DEFINE ij == cross(i, j)  ji == cross(j, i)
  <2>1. ij \in Nat /\ ji \in Nat BY <1>2
  <2>2. IdLess(i, j) \/ IdLess(j, i)
    <3>1. i \in IDs /\ j \in IDs BY <1>0
    <3> QED BY <3>1, <1>7, IdsOrdered
  <2>3. Above(q, i, j) <=> ij > ji \/ (ij = ji /\ IdLess(i, j)) BY <1>3
  <2>4. Above(q, j, i) <=> ji > ij \/ (ji = ij /\ IdLess(j, i)) BY <1>3
  <2> HIDE DEF ij, ji
  <2> QED BY <2>1, <2>2, <2>3, <2>4
<1> QED BY <1>5, <1>6, <1>7

\* The ranked list: each of them at one place.
LEMMA ByRankArranges ==
  ASSUME MemoryTyped, NEW q \in Queries, NEW K \in SUBSET DOMAIN records, \A i \in K : Passes(q, i)
  PROVE  ByRank(q, K) \in Arranged(K)
<1> DEFINE before == {p \in K \X K : Above(q, p[1], p[2])}
<1>0. IsFiniteSet(K) BY FS_Subset DEF MemoryTyped
<1>1. \A x, y \in K : <<x, y>> \in before <=> Above(q, x, y) OBVIOUS
<1>2. /\ \A x \in K : ~Above(q, x, x)
      /\ \A x, y, z \in K : Above(q, x, y) /\ Above(q, y, z) => Above(q, x, z)
      /\ \A x, y \in K : x # y => Above(q, x, y) \/ Above(q, y, x)
  BY AboveOrders
<1> HIDE DEF before
<1>3. OrdersAll(K, before) BY ONLY <1>1, <1>2 DEF OrdersAll
<1>4. PICK s \in [1 .. Cardinality(K) -> K] : \A a, b \in DOMAIN s : a < b => <<s[a], s[b]>> \in before
  <2>1. SortingsOf(K, before) # {} BY ONLY <1>0, <1>3, SortedExists
  <2> QED BY <2>1 DEF SortingsOf
<1>5. \A a, b \in DOMAIN s : a < b => Above(q, s[a], s[b]) BY <1>1, <1>4
<1>6. \E t \in [1 .. Cardinality(K) -> K] : \A a, b \in DOMAIN t : a < b => Above(q, t[a], t[b]) BY <1>5
<1> DEFINE t == ByRank(q, K)
<1>7. t \in [1 .. Cardinality(K) -> K] /\ \A a, b \in DOMAIN t : a < b => Above(q, t[a], t[b])
  BY <1>6 DEF ByRank
<1> HIDE DEF t
<1>8. ASSUME NEW a \in DOMAIN t, NEW b \in DOMAIN t, t[a] = t[b] PROVE a = b
  <2>1. DOMAIN t = 1 .. Cardinality(K) /\ a \in Int /\ b \in Int /\ t[a] \in K BY <1>7
  <2>2. ~(a < b) /\ ~(b < a) BY <2>1, <1>2, <1>7, <1>8
  <2> QED BY <2>1, <2>2
<1> QED BY <1>7, <1>8 DEF Arranged, t

\* More recent, or as recent and earlier in the order of the ids; and the records
\* that a similar one outdoes.
Better(w, l) ==
  \/ records[w].created > records[l].created
  \/ records[w].created = records[l].created /\ IdLess(w, l)
Outdone == {l \in DOMAIN records : \E w \in DOMAIN records : SameFamily(records[l], records[w]) /\ Better(w, l)}

\* Of two similar records the one that is merged away is outdone by the other.
LEMMA LoserOutdone ==
  ASSUME MemoryTyped, NEW a \in DOMAIN records, NEW b \in DOMAIN records, IdLess(a, b),
         SameFamily(records[a], records[b])
  PROVE  Loser(a, b) \in Outdone
<1>1. SameFamily(records[b], records[a])
  <2>1. records[a].terms \cap records[b].terms = records[b].terms \cap records[a].terms
        /\ records[a].terms \cup records[b].terms = records[b].terms \cup records[a].terms
    OBVIOUS
  <2> QED BY <2>1 DEF SameFamily, Inter, Union
<1>2. records[a].created \in Int /\ records[b].created \in Int BY DEF MemoryTyped
<1>3. CASE records[b].created > records[a].created
  <2>1. Loser(a, b) = a /\ Better(b, a) BY <1>3 DEF Loser, Better
  <2> QED BY <2>1 DEF Outdone
<1>4. CASE ~(records[b].created > records[a].created)
  <2>1. Loser(a, b) = b BY <1>4 DEF Loser
  <2>2. Better(a, b) BY <1>2, <1>4 DEF Better
  <2> QED BY <2>1, <2>2, <1>1 DEF Outdone
<1> QED BY <1>3, <1>4

\* A round of Consolidate merges away only records that are outdone.
LEMMA ComparedOutdone ==
  ASSUME MemoryTyped, NEW n \in Nat, NEW ids \in [1 .. n -> DOMAIN records],
         \A j, k \in 1 .. n : j < k => IdLess(ids[j], ids[k]),
         NEW i \in 1 .. n, NEW lost \in SUBSET Outdone
  PROVE  Compared(ids, i, lost) \in SUBSET Outdone
<1> DEFINE P == SUBSET Outdone
           loses(j, L) == ids[j] \notin L /\ SameFamily(records[ids[i]], records[ids[j]])
           after(j, L) == IF j <= i THEN lost ELSE IF loses(j, L) THEN L \cup {Loser(ids[i], ids[j])} ELSE L
           Eqn(g) == g = [j \in 0 .. n |-> IF j <= i THEN lost
                            ELSE IF ids[j] \notin g[j - 1] /\ SameFamily(records[ids[i]], records[ids[j]])
                                 THEN g[j - 1] \cup {Loser(ids[i], ids[j])} ELSE g[j - 1]]
           step == [d \in (1 .. n) \X P |-> after(d[1], d[2])]
           u == CHOOSE g : Eqn(g)
<1>0. Len(ids) = n
  <2>1. ids \in Seq(DOMAIN records) /\ DOMAIN ids = 1 .. n OBVIOUS
  <2> QED BY <2>1
<1>1. Compared(ids, i, lost) = u[n] BY <1>0 DEF Compared
<1>2. ASSUME NEW j \in 1 .. n, NEW L \in P PROVE after(j, L) \in P
  <2>1. CASE j <= i BY <2>1
  <2>2. CASE ~(j <= i) /\ ~loses(j, L) BY <2>2
  <2>3. CASE ~(j <= i) /\ loses(j, L)
    <3>1. IdLess(ids[i], ids[j]) /\ ids[i] \in DOMAIN records /\ ids[j] \in DOMAIN records BY <2>3
    <3>2. Loser(ids[i], ids[j]) \in Outdone BY <3>1, <2>3, LoserOutdone
    <3> QED BY <2>3, <3>2
  <2> QED BY <2>1, <2>2, <2>3
<1>3. \A g : Eqn(g) <=> g = [j \in 0 .. n |-> after(j, g[j - 1])] OBVIOUS
<1>4. \A L : after(0, L) = lost OBVIOUS
<1> HIDE DEF after, Eqn, P
<1>5. step \in StepsIn(n, P) BY <1>2 DEF StepsIn
<1>6. \A j \in 1 .. n, L \in P : step[<<j, L>>] = after(j, L) OBVIOUS
<1> HIDE DEF step
<1>7. lost \in P BY DEF P
<1>8. \E g : Eqn(g)
  <2>1. RunsIn(n, P, lost, step) # {} BY ONLY n \in Nat, <1>5, <1>7, RecursionExists
  <2>2. PICK g \in [0 .. n -> P] : g[0] = lost /\ \A k \in 1 .. n : g[k] = step[<<k, g[k - 1]>>] BY <2>1 DEF RunsIn
  <2>3. ASSUME NEW k \in 0 .. n PROVE g[k] = after(k, g[k - 1])
    <3>1. CASE k = 0 BY <3>1, <2>2, <1>4
    <3>2. CASE k # 0
      <4>1. k \in 1 .. n /\ k - 1 \in 0 .. n BY <3>2
      <4>2. g[k - 1] \in P /\ g[k] = step[<<k, g[k - 1]>>] BY <4>1, <2>2
      <4> QED BY <4>1, <4>2, <1>6
    <3> QED BY <3>1, <3>2
  <2>4. g = [k \in 0 .. n |-> g[k]] BY <2>2
  <2>5. g = [k \in 0 .. n |-> after(k, g[k - 1])] BY <2>3, <2>4
  <2> QED BY <2>5, <1>3
<1>9. Eqn(u) BY <1>8
<1> HIDE DEF u
<1>10. u = [j \in 0 .. n |-> after(j, u[j - 1])] BY <1>3, <1>9
<1>11. u[0] \in P /\ \A k \in 1 .. n : u[k - 1] \in P => u[k] = step[<<k, u[k - 1]>>] BY <1>10, <1>4, <1>6, <1>7
<1>12. \A k \in 0 .. n : u[k] \in P BY <1>5, <1>11, RecursionTyped
<1>13. u[n] \in P BY <1>12
<1> QED BY <1>1, <1>13 DEF P

\* Consolidate merges away only records that a similar one outdoes.
LEMMA MergedAwayOutdone == ASSUME MemoryTyped PROVE MergedAway \in SUBSET Outdone
<1> DEFINE P == SUBSET Outdone
           n == Cardinality(DOMAIN records)
           ids == SortedIds(DOMAIN records)
           after(i, L) == IF i = 0 THEN {} ELSE IF ids[i] \in L THEN L ELSE Compared(ids, i, L)
           Eqn(g) == g = [i \in 0 .. n |-> IF i = 0 THEN {} ELSE
                            IF ids[i] \in g[i - 1] THEN g[i - 1] ELSE Compared(ids, i, g[i - 1])]
           step == [d \in (1 .. n) \X P |-> after(d[1], d[2])]
           u == CHOOSE g : Eqn(g)
           none == {}
<1>0. /\ n \in Nat /\ ids \in [1 .. n -> DOMAIN records]
      /\ \A j, k \in 1 .. n : j < k => IdLess(ids[j], ids[k])
  <2>1. DOMAIN records \in SUBSET IDs /\ IsFiniteSet(DOMAIN records) BY DEF MemoryTyped
  <2> QED BY <2>1, SortedIdsList, FS_CardinalityType
<1>1. MergedAway = u[n]
  <2> HIDE DEF n
  <2>1. ids \in Seq(DOMAIN records) /\ DOMAIN ids = 1 .. n BY <1>0
  <2>2. Len(ids) = n BY <2>1, <1>0
  <2> QED BY <2>2 DEF MergedAway
<1> HIDE DEF ids, n
<1>2. ASSUME NEW j \in 1 .. n, NEW L \in P PROVE after(j, L) \in P
  <2>1. Compared(ids, j, L) \in P BY <1>0, ComparedOutdone
  <2> QED BY <2>1
<1>3. \A g : Eqn(g) <=> g = [i \in 0 .. n |-> after(i, g[i - 1])] OBVIOUS
<1>4. \A L : after(0, L) = none OBVIOUS
<1>7. none \in P OBVIOUS
<1> HIDE DEF after, Eqn, P, none
<1>5. step \in StepsIn(n, P) BY <1>2 DEF StepsIn
<1>6. \A j \in 1 .. n, L \in P : step[<<j, L>>] = after(j, L) OBVIOUS
<1> HIDE DEF step
<1>8. \E g : Eqn(g)
  <2>0. n \in Nat BY <1>0
  <2>1. RunsIn(n, P, none, step) # {} BY ONLY <2>0, <1>5, <1>7, RecursionExists
  <2>2. PICK g \in [0 .. n -> P] : g[0] = none /\ \A k \in 1 .. n : g[k] = step[<<k, g[k - 1]>>] BY <2>1 DEF RunsIn
  <2>3. ASSUME NEW k \in 0 .. n PROVE g[k] = after(k, g[k - 1])
    <3>1. CASE k = 0 BY <3>1, <2>2, <1>4
    <3>2. CASE k # 0
      <4>1. k \in 1 .. n /\ k - 1 \in 0 .. n BY <3>2, <1>0
      <4>2. g[k - 1] \in P /\ g[k] = step[<<k, g[k - 1]>>] BY <4>1, <2>2
      <4> QED BY <4>1, <4>2, <1>6
    <3> QED BY <3>1, <3>2
  <2>4. g = [k \in 0 .. n |-> g[k]] BY <2>2
  <2>5. g = [k \in 0 .. n |-> after(k, g[k - 1])] BY <2>3, <2>4
  <2> QED BY <2>5, <1>3
<1>9. Eqn(u) BY <1>8
<1> HIDE DEF u
<1>10. u = [i \in 0 .. n |-> after(i, u[i - 1])] BY <1>3, <1>9
<1>11. u[0] \in P /\ \A k \in 1 .. n : u[k - 1] \in P => u[k] = step[<<k, u[k - 1]>>] BY <1>0, <1>10, <1>4, <1>6, <1>7
<1>12. \A k \in 0 .. n : u[k] \in P BY <1>0, <1>5, <1>11, RecursionTyped
<1>13. u[n] \in P BY <1>12, <1>0
<1> QED BY <1>1, <1>13 DEF P

\* No family is forgotten: the best of the records that similarity leads to is
\* outdone by none.
LEMMA FamilyKept == MemoryTyped => FamilySurvives
<1> SUFFICES ASSUME MemoryTyped, NEW i \in MergedAway, NEW S \in SUBSET DOMAIN records, i \in S, Closed(S)
             PROVE  \E s \in S \ MergedAway : records[s].created >= records[i].created
  BY DEF FamilySurvives
<1> DEFINE K == {s \in S : s = i \/ Better(s, i)}
           before == {p \in S \X S : Better(p[1], p[2])}
<1>1. \A x, y \in S : <<x, y>> \in before <=> Better(x, y) OBVIOUS
<1>2. IsFiniteSet(K) /\ K # {} /\ K \in SUBSET S
  <2>1. K \in SUBSET DOMAIN records OBVIOUS
  <2> HIDE DEF K
  <2>2. IsFiniteSet(K) BY <2>1, FS_Subset DEF MemoryTyped
  <2> QED BY <2>2 DEF K
<1>3. \A x \in S : x \in IDs /\ records[x].created \in Int BY DEF MemoryTyped
<1>4. \A x, y, z \in S : Better(x, y) /\ Better(y, z) => Better(x, z)
  <2>1. ASSUME NEW x \in S, NEW y \in S, NEW z \in S, Better(x, y), Better(y, z) PROVE Better(x, z)
    <3>1. IdLess(x, y) /\ IdLess(y, z) => IdLess(x, z) BY <1>3, IdsOrdered
    <3>2. records[x].created \in Int /\ records[y].created \in Int /\ records[z].created \in Int BY <1>3
    <3> QED BY <2>1, <3>1, <3>2 DEF Better
  <2> QED BY <2>1
<1>5. \A x \in S : ~Better(x, x)
  <2>1. ASSUME NEW x \in S PROVE ~Better(x, x)
    <3>1. ~IdLess(x, x) /\ records[x].created \in Int BY <1>3, IdsOrdered
    <3> QED BY <3>1 DEF Better
  <2> QED BY <2>1
<1> HIDE DEF before, K
<1>6. PICK m \in K : \A y \in K : <<y, m>> \notin before
  <2>1. \A x \in K : <<x, x>> \notin before BY <1>1, <1>2, <1>5
  <2>2. \A x, y, z \in K : <<x, y>> \in before /\ <<y, z>> \in before => <<x, z>> \in before
    BY ONLY <1>1, <1>2, <1>4
  <2> QED BY ONLY <1>2, <2>1, <2>2, LeastExists
<1>7. m \in S /\ (m = i \/ Better(m, i)) BY <1>6 DEF K
<1>8. m \notin MergedAway
  <2> SUFFICES ASSUME m \in MergedAway PROVE FALSE OBVIOUS
  <2>1. m \in Outdone BY MergedAwayOutdone
  <2>2. PICK w \in DOMAIN records : SameFamily(records[m], records[w]) /\ Better(w, m) BY <2>1 DEF Outdone
  <2>3. w \in S BY <2>2, <1>7 DEF Closed
  <2>4. Better(w, i) BY <2>2, <2>3, <1>4, <1>7
  <2>5. w \in K BY <2>3, <2>4 DEF K
  <2> QED BY <2>2, <2>3, <2>5, <1>1, <1>6, <1>7
<1>9. records[m].created >= records[i].created
  <2>1. records[m].created \in Int /\ records[i].created \in Int BY <1>3, <1>7
  <2> QED BY <1>7, <2>1 DEF Better
<1> QED BY <1>7, <1>8, <1>9

\* A pass over one pair: the superseder comes to stand above what it supersedes,
\* and everything else keeps its place.
LEMMA LiftedOrder ==
  ASSUME NEW K, NEW s \in Arranged(K), NEW o, NEW c
  PROVE  /\ Lifted(s, o, c) \in Arranged(K)
         /\ \A a \in DOMAIN s, x \in K : x # o /\ x # c => (Lifted(s, o, c)[a] = x <=> s[a] = x)
         /\ o # c => \A a, b \in DOMAIN s : Lifted(s, o, c)[a] = o /\ Lifted(s, o, c)[b] = c => b < a
<1> DEFINE D == DOMAIN s
           t == Lifted(s, o, c)
           po == Pos(s, o)
           pc == Pos(s, c)
<1>1. /\ s \in [D -> K] /\ D = 1 .. Cardinality(K) /\ D \subseteq Int
      /\ \A a, b \in D : s[a] = s[b] => a = b
  BY DEF Arranged
<1>2. \A x : x \in {s[a] : a \in D} => Pos(s, x) \in D /\ s[Pos(s, x)] = x BY DEF Pos
<1> HIDE DEF D
<1>3. CASE {o, c} \subseteq {s[a] : a \in D} /\ pc > po
  <2>1. po \in D /\ s[po] = o /\ pc \in D /\ s[pc] = c BY <1>3, <1>2
  <2>2. t = [s EXCEPT ![po] = c, ![pc] = o]
    <3>1. t = Swapped(s, po, pc) BY <1>3 DEF Lifted, D
    <3> QED BY <3>1, <2>1 DEF Swapped
  <2> HIDE DEF t, po, pc
  <2>3. po # pc BY <1>3, <1>1, <2>1
  <2>4. t \in [D -> K] /\ t[po] = c /\ t[pc] = o /\ \A a \in D : a # po /\ a # pc => t[a] = s[a]
    BY <1>1, <2>1, <2>2, <2>3
  <2>5. o # c BY <2>1, <2>3, <1>1
  <2>6. \A a \in D : (t[a] = o <=> a = pc) /\ (t[a] = c <=> a = po)
    <3>1. ASSUME NEW a \in D PROVE (t[a] = o <=> a = pc) /\ (t[a] = c <=> a = po)
      <4>1. CASE a = po BY <4>1, <2>3, <2>4, <2>5
      <4>2. CASE a = pc BY <4>2, <2>3, <2>4, <2>5
      <4>3. CASE a # po /\ a # pc
        <5>1. s[a] # o /\ s[a] # c BY <4>3, <2>1, <1>1
        <5> QED BY <4>3, <5>1, <2>4
      <4> QED BY <4>1, <4>2, <4>3
    <3> QED BY <3>1
  <2>7. \A a \in D, x \in K : x # o /\ x # c => (t[a] = x <=> s[a] = x)
    <3>1. ASSUME NEW a \in D, NEW x \in K, x # o, x # c PROVE t[a] = x <=> s[a] = x
      <4>1. CASE a = po \/ a = pc BY <4>1, <3>1, <2>1, <2>4
      <4>2. CASE a # po /\ a # pc BY <4>2, <2>4
      <4> QED BY <4>1, <4>2
    <3> QED BY <3>1
  <2>8. \A a, b \in D : t[a] = t[b] => a = b
    <3>1. ASSUME NEW a \in D, NEW b \in D, t[a] = t[b] PROVE a = b
      <4>1. t[a] \in K BY <2>4
      <4>2. CASE t[a] = o BY <4>2, <3>1, <2>6
      <4>3. CASE t[a] = c BY <4>3, <3>1, <2>6
      <4>4. CASE t[a] # o /\ t[a] # c BY <4>1, <4>4, <3>1, <2>7, <1>1
      <4> QED BY <4>2, <4>3, <4>4
    <3> QED BY <3>1
  <2>9. t \in Arranged(K) BY <1>1, <2>4, <2>8 DEF Arranged
  <2>10. \A a, b \in D : t[a] = o /\ t[b] = c => b < a BY <1>1, <1>3, <2>1, <2>6 DEF po, pc
  <2> QED BY <2>7, <2>9, <2>10 DEF D, t
<1>4. CASE ~({o, c} \subseteq {s[a] : a \in D} /\ pc > po)
  <2>1. t = s BY <1>4 DEF Lifted, D
  <2>2. ASSUME o # c, NEW a \in D, NEW b \in D, s[a] = o, s[b] = c PROVE b < a
    <3>1. {o, c} \subseteq {s[x] : x \in D} BY <2>2
    <3>2. po \in D /\ s[po] = o /\ pc \in D /\ s[pc] = c BY <3>1, <1>2
    <3>3. a = po /\ b = pc BY <3>2, <2>2, <1>1
    <3> HIDE DEF po, pc
    <3>4. ~(b > a) /\ a # b BY <1>4, <3>1, <3>3, <2>2
    <3> QED BY <3>4, <1>1
  <2> HIDE DEF t
  <2> QED BY <2>1, <2>2 DEF D, t
<1> QED BY <1>3, <1>4

\* The runs of the last pass, over one pair after the other.
SwapRuns(m, K, s, by, queue) ==
  {u \in [0 .. m -> Arranged(K)] :
     /\ u[0] = s /\ AfterSwaps(s, by, queue) = u[m]
     /\ \A k \in 1 .. m : u[k] = Lifted(u[k - 1], queue[k], by[queue[k]])}

\* There is one, from the ranked list to what is returned.
LEMMA SwapsRun ==
  ASSUME NEW m \in Nat, NEW K, NEW s \in Arranged(K), NEW by, NEW queue, Len(queue) = m
  PROVE  SwapRuns(m, K, s, by, queue) # {}
<1> DEFINE P == Arranged(K)
           after(k, t) == IF k = 0 THEN s ELSE Lifted(t, queue[k], by[queue[k]])
           Eqn(g) == g = [k \in 0 .. m |-> IF k = 0 THEN s ELSE Lifted(g[k - 1], queue[k], by[queue[k]])]
           step == [d \in (1 .. m) \X P |-> after(d[1], d[2])]
           u == CHOOSE g : Eqn(g)
<1>1. AfterSwaps(s, by, queue) = u[m] BY DEF AfterSwaps
<1>2. \A k \in 1 .. m, t \in P : after(k, t) \in P /\ after(k, t) = Lifted(t, queue[k], by[queue[k]]) BY LiftedOrder
<1>3. \A g : Eqn(g) <=> g = [k \in 0 .. m |-> after(k, g[k - 1])] OBVIOUS
<1>4. \A t : after(0, t) = s OBVIOUS
<1>7. s \in P OBVIOUS
<1> HIDE DEF after, Eqn, P
<1>5. step \in StepsIn(m, P) BY <1>2 DEF StepsIn
<1>6. \A k \in 1 .. m, t \in P : step[<<k, t>>] = after(k, t) OBVIOUS
<1> HIDE DEF step
<1>8. \E g : Eqn(g)
  <2>1. RunsIn(m, P, s, step) # {} BY ONLY m \in Nat, <1>5, <1>7, RecursionExists
  <2>2. PICK g \in [0 .. m -> P] : g[0] = s /\ \A k \in 1 .. m : g[k] = step[<<k, g[k - 1]>>] BY <2>1 DEF RunsIn
  <2>3. ASSUME NEW k \in 0 .. m PROVE g[k] = after(k, g[k - 1])
    <3>1. CASE k = 0 BY <3>1, <2>2, <1>4
    <3>2. CASE k # 0
      <4>1. k \in 1 .. m /\ k - 1 \in 0 .. m BY <3>2
      <4>2. g[k - 1] \in P /\ g[k] = step[<<k, g[k - 1]>>] BY <4>1, <2>2
      <4> QED BY <4>1, <4>2, <1>6
    <3> QED BY <3>1, <3>2
  <2>4. g = [k \in 0 .. m |-> g[k]] BY <2>2
  <2>5. g = [k \in 0 .. m |-> after(k, g[k - 1])] BY <2>3, <2>4
  <2> QED BY <2>5, <1>3
<1>9. Eqn(u) BY <1>8
<1> HIDE DEF u
<1>10. u = [k \in 0 .. m |-> after(k, u[k - 1])] BY <1>3, <1>9
<1>11. u[0] = s /\ \A k \in 1 .. m : u[k - 1] \in P => u[k] = step[<<k, u[k - 1]>>] BY <1>10, <1>4, <1>6
<1>12. \A k \in 0 .. m : u[k] \in P BY <1>5, <1>7, <1>11, RecursionTyped
<1>13. u \in [0 .. m -> P]
  <2>1. u = [k \in 0 .. m |-> u[k]] BY <1>10
  <2> QED BY <2>1, <1>12
<1>14. ASSUME NEW k \in 1 .. m PROVE u[k] = Lifted(u[k - 1], queue[k], by[queue[k]])
  <2>1. k - 1 \in 0 .. m /\ k \in 0 .. m OBVIOUS
  <2>2. u[k - 1] \in P /\ u[k] = after(k, u[k - 1]) BY <2>1, <1>12, <1>10
  <2> QED BY <2>2, <1>2
<1> QED BY <1>1, <1>11, <1>13, <1>14 DEF P, SwapRuns

\* Where both are, c stands above o.
Placed(t, o, c) == \A a, b \in DOMAIN t : t[a] = o /\ t[b] = c => b < a

\* When no two pairs overlap, all of them stand in order in the end, whatever the
\* order of the passes.
LEMMA SwapsPlace ==
  ASSUME NEW m \in Nat, NEW K, NEW s \in Arranged(K), NEW by, NEW O, NEW queue \in [1 .. m -> O],
         \A j, k \in 1 .. m : queue[j] = queue[k] => j = k,
         \A o \in O : by[o] \notin O,
         \A o, p \in O : by[o] = by[p] => o = p
  PROVE  /\ AfterSwaps(s, by, queue) \in Arranged(K)
         /\ \A j \in 1 .. m : Placed(AfterSwaps(s, by, queue), queue[j], by[queue[j]])
<1>1. PICK u \in [0 .. m -> Arranged(K)] :
        /\ u[0] = s /\ AfterSwaps(s, by, queue) = u[m]
        /\ \A k \in 1 .. m : u[k] = Lifted(u[k - 1], queue[k], by[queue[k]])
  <2>1. queue \in Seq(O) /\ DOMAIN queue = 1 .. m OBVIOUS
  <2>2. Len(queue) = m BY <2>1
  <2>3. SwapRuns(m, K, s, by, queue) # {} BY ONLY <2>2, m \in Nat, s \in Arranged(K), SwapsRun
  <2> QED BY <2>3 DEF SwapRuns
<1> DEFINE A == {k \in 0 .. m : \A j \in 1 .. k : Placed(u[k], queue[j], by[queue[j]])}
<1>2. 0 \in A OBVIOUS
<1>3. ASSUME NEW k \in 1 .. m, k - 1 \in A PROVE k \in A
  <2> DEFINE t == u[k - 1]  o == queue[k]  c == by[o]
  <2>1. t \in Arranged(K) /\ u[k] \in Arranged(K) /\ u[k] = Lifted(t, o, c)
    <3>1. k - 1 \in 0 .. m /\ k \in 0 .. m OBVIOUS
    <3> QED BY <3>1, <1>1
  <2>2. DOMAIN t = 1 .. Cardinality(K) /\ DOMAIN u[k] = 1 .. Cardinality(K)
        /\ \A a \in 1 .. Cardinality(K) : t[a] \in K /\ u[k][a] \in K
    BY <2>1 DEF Arranged
  <2>3. o \in O /\ o # c OBVIOUS
  <2> HIDE DEF t, c
  <2>4. /\ \A a \in DOMAIN t, x \in K : x # o /\ x # c => (Lifted(t, o, c)[a] = x <=> t[a] = x)
        /\ \A a, b \in DOMAIN t : Lifted(t, o, c)[a] = o /\ Lifted(t, o, c)[b] = c => b < a
    BY <2>1, <2>3, LiftedOrder
  <2>5. Placed(u[k], o, c) BY <2>1, <2>2, <2>4 DEF Placed
  <2>6. ASSUME NEW j \in 1 .. k - 1 PROVE Placed(u[k], queue[j], by[queue[j]])
    <3> DEFINE p == queue[j]  d == by[p]
    <3>1. p \in O /\ p # o /\ p # c /\ d # o /\ d # c
      <4>1. j \in 1 .. m /\ j # k OBVIOUS
      <4>2. p \in O /\ p # o BY <4>1
      <4> QED BY <4>2, <2>3 DEF c
    <3>2. Placed(t, p, d) BY <1>3 DEF t
    <3> HIDE DEF p, d
    <3>3. \A a \in DOMAIN t : (u[k][a] = p => t[a] = p) /\ (u[k][a] = d => t[a] = d)
      BY <2>1, <2>2, <2>4, <3>1
    <3> QED BY <2>2, <3>2, <3>3 DEF Placed, p, d
  <2>7. \A j \in 1 .. k : j = k \/ j \in 1 .. k - 1 OBVIOUS
  <2>8. \A j \in 1 .. k : Placed(u[k], queue[j], by[queue[j]]) BY <2>5, <2>6, <2>7 DEF c
  <2> QED BY <2>8
<1> HIDE DEF A
<1>4. \A k \in 0 .. m : k \in A BY <1>2, <1>3, Along
<1>5. m \in A BY <1>4
<1> QED BY <1>1, <1>5 DEF A

\* The records that supersede one, when there is at most one.
LEMMA OnlySuperseder ==
  ASSUME MemoryTyped, NEW o, ~CorrectedAgain(o)
  PROVE  \A i, j \in Superseders(o) : i = j
<1>1. IsFiniteSet(Superseders(o)) /\ Cardinality(Superseders(o)) \in Nat
  <2>1. Superseders(o) \in SUBSET DOMAIN records BY DEF Superseders
  <2> QED BY <2>1, FS_Subset, FS_CardinalityType DEF MemoryTyped
<1>2. SUFFICES ASSUME NEW i \in Superseders(o), NEW j \in Superseders(o), i # j PROVE FALSE OBVIOUS
<1> DEFINE W == Superseders(o) \ {i}
<1>3. IsFiniteSet(W) /\ Cardinality(W) = Cardinality(Superseders(o)) - 1 BY <1>1, FS_RemoveElement
<1>4. Cardinality(W) \in Nat /\ j \in W BY <1>2, <1>3, FS_CardinalityType
<1>5. Cardinality(W) # 0 BY <1>3, <1>4, FS_EmptySet
<1>6. ~(Cardinality(Superseders(o)) > 1) BY DEF CorrectedAgain
<1> QED BY <1>1, <1>3, <1>4, <1>5, <1>6

\* Only finitely many records are superseded.
LEMMA SupersededFinite == ASSUME MemoryTyped PROVE IsFiniteSet(Superseded)
<1> DEFINE D == DOMAIN records
           Z == {records[i].supersedes : i \in D}
           f == [i \in D |-> records[i].supersedes]
<1>1. f \in Surjection(D, Z) BY DEF Surjection
<1>2. IsFiniteSet(D) BY DEF MemoryTyped
<1>3. Superseded \in SUBSET Z BY DEF Superseded
<1> HIDE DEF D, Z, f
<1>4. IsFiniteSet(Z) BY <1>1, <1>2, FS_Surjection
<1> QED BY <1>3, <1>4, FS_Subset

\* What Similar returns respects the corrections.
LEMMA CorrectionsKept == MemoryTyped => CorrectionsRespected
<1> DEFINE inPairs == \A o \in Superseded : ~CorrectedAgain(o)
<1> SUFFICES ASSUME MemoryTyped, NEW q \in Queries, NEW out \in Similar(q), NEW a \in DOMAIN out
             PROVE  LET above == {b \in DOMAIN out : records[out[b]].supersedes = out[a]} IN
                    /\ out[a] \in Superseded /\ ~CorrectedAgain(out[a]) => above # {}
                    /\ inPairs => \A b \in above : b < a
  BY DEF CorrectionsRespected
<1>1. PICK by \in SupersederMaps, queue \in Orders(Superseded) : out = AfterSwaps(ByRank(q, Kept(q, by)), by, queue)
  BY DEF Similar
<1> DEFINE K == Kept(q, by)
           s == ByRank(q, K)
           m == Cardinality(Superseded)
<1>2. K \in SUBSET DOMAIN records /\ \A i \in K : Passes(q, i) BY DEF Kept
<1>3. IsFiniteSet(K) BY <1>2, FS_Subset DEF MemoryTyped
<1>4. s \in Arranged(K) BY <1>2, ByRankArranges
<1>5. m \in Nat /\ queue \in [1 .. m -> Superseded] /\ \A j, k \in 1 .. m : queue[j] = queue[k] => j = k
  BY SupersededFinite, FS_CardinalityType DEF Orders
<1>6. \A o \in Superseded : by[o] \in DOMAIN records /\ records[by[o]].supersedes = o /\ by[o] \in Superseders(o)
  BY DEF SupersederMaps, Superseders
<1> HIDE DEF s, m, K
<1>7. out \in Arranged(K)
  <2>1. queue \in Seq(Superseded) /\ DOMAIN queue = 1 .. m BY <1>5
  <2>2. Len(queue) = m BY <2>1, <1>5
  <2>3. SwapRuns(m, K, s, by, queue) # {} BY ONLY <2>2, <1>4, <1>5, SwapsRun
  <2>4. PICK u \in [0 .. m -> Arranged(K)] : AfterSwaps(s, by, queue) = u[m] BY <2>3 DEF SwapRuns
  <2> QED BY <2>4, <1>1, <1>5 DEF s, K
<1>8. DOMAIN out = 1 .. Cardinality(K) /\ \A b \in DOMAIN out : out[b] \in K BY <1>7 DEF Arranged
<1>9. ASSUME out[a] \in Superseded, ~CorrectedAgain(out[a])
      PROVE  \E b \in DOMAIN out : records[out[b]].supersedes = out[a]
  <2> DEFINE c == by[out[a]]
  <2>1. c \in DOMAIN records /\ records[c].supersedes = out[a] /\ c \in Superseders(out[a]) BY <1>6, <1>9
  <2>2. Passes(q, c) BY <1>8, <1>9 DEF K, Kept
  <2>3. c \notin Superseded BY <2>1, <1>9 DEF CorrectedAgain
  <2>4. c \in K BY <2>1, <2>2, <2>3 DEF K, Kept
  <2>5. PICK b \in 1 .. Cardinality(K) : out[b] = c BY <1>3, <1>7, <2>4, ArrangedOnto
  <2> QED BY <2>1, <2>5, <1>8
<1>10. ASSUME inPairs, NEW b \in DOMAIN out, records[out[b]].supersedes = out[a] PROVE b < a
  <2>1. out[a] \in Superseded
    <3>1. out[a] \in DOMAIN records /\ out[b] \in DOMAIN records BY <1>2, <1>8
    <3>2. out[a] # NoRecord BY <3>1, MemoryAssumption DEF MemoryTyped
    <3> QED BY <3>1, <3>2, <1>10 DEF Superseded
  <2>2. out[b] = by[out[a]]
    <3>1. out[b] \in Superseders(out[a]) /\ by[out[a]] \in Superseders(out[a])
      BY <1>2, <1>6, <1>8, <1>10, <2>1 DEF Superseders
    <3> QED BY <3>1, <2>1, <1>10, OnlySuperseder
  <2>3. \A o \in Superseded : by[o] \notin Superseded BY <1>6, <1>10 DEF CorrectedAgain
  <2>4. \A o, p \in Superseded : by[o] = by[p] => o = p BY <1>6
  <2>5. \A j \in 1 .. m : Placed(out, queue[j], by[queue[j]])
    <3>1. \A j \in 1 .. m : Placed(AfterSwaps(s, by, queue), queue[j], by[queue[j]])
      BY <1>4, <1>5, <2>3, <2>4, SwapsPlace
    <3> QED BY <3>1, <1>1 DEF s, K
  <2>6. PICK j \in 1 .. m : queue[j] = out[a]
    <3>1. queue \in Arranged(Superseded) BY <1>5 DEF Arranged, m
    <3> QED BY <3>1, <2>1, SupersededFinite, ArrangedOnto DEF m
  <2> QED BY <2>2, <2>5, <2>6 DEF Placed
<1> QED BY <1>9, <1>10

\* Weights stay within their bounds, consolidation forgets no family, and what is
\* retrieved respects the corrections (Confirm, Correct, Consolidate, Similar).
THEOREM MemoryRemembers == MemorySpec => []MemorySound
<1>1. MemoryTyped => MemorySound
  <2>1. MemoryTyped => WeightsBounded BY DEF MemoryTyped, WeightsBounded
  <2> QED BY <2>1, FamilyKept, CorrectionsKept DEF MemorySound
<1> QED BY <1>1, MemoryInvariant, PTL

-----------------------------------------------------------------------------
(* Records.                                                                *)

Earlier(S, x) == {y \in S : y.ts < x.ts}

\* The n earliest of distinct times are n of them, or all.
LEMMA EarliestFacts ==
  ASSUME NEW F, IsFiniteSet(F), \A x \in F : x.ts \in Int, \A x, y \in F : x.ts = y.ts => x = y,
         NEW n \in Nat \ {0}
  PROVE  /\ EarliestOf(F, n) \subseteq F /\ IsFiniteSet(EarliestOf(F, n)) /\ Cardinality(EarliestOf(F, n)) <= n
         /\ EarliestOf(F, n) # F => Cardinality(EarliestOf(F, n)) = n
         /\ \A y \in F \ EarliestOf(F, n), x \in EarliestOf(F, n) : x.ts <= y.ts
<1> DEFINE E == EarliestOf(F, n)
<1>1. E \subseteq F /\ \A x \in F : x \in E <=> Cardinality(Earlier(F, x)) < n BY DEF EarliestOf, Earlier
<1>2. \A x \in F : IsFiniteSet(Earlier(F, x)) /\ Cardinality(Earlier(F, x)) \in Nat
  <2>1. \A x \in F : Earlier(F, x) \subseteq F BY DEF Earlier
  <2>2. \A x \in F : IsFiniteSet(Earlier(F, x)) BY <2>1, FS_Subset
  <2> QED BY <2>2, FS_CardinalityType
<1>3. IsFiniteSet(E) /\ Cardinality(E) \in Nat BY <1>1, FS_Subset, FS_CardinalityType
<1> HIDE DEF E
<1>4. Cardinality(E) <= n
  <2>1. CASE E = {} BY <2>1, FS_EmptySet
  <2>2. CASE E # {}
    <3> DEFINE later == {p \in E \X E : p[1].ts > p[2].ts}
    <3>1. /\ \A x \in E : <<x, x>> \notin later
          /\ \A x, y, z \in E : <<x, y>> \in later /\ <<y, z>> \in later => <<x, z>> \in later
          /\ \A x, y \in E : <<y, x>> \notin later => y.ts <= x.ts
      BY <1>1
    <3> HIDE DEF later
    <3>2. PICK x \in E : \A y \in E : <<y, x>> \notin later BY <1>3, <2>2, <3>1, LeastExists
    <3>3. E \ {x} \subseteq Earlier(F, x)
      <4>1. ASSUME NEW y \in E, y # x PROVE y \in Earlier(F, x)
        <5>1. y.ts <= x.ts /\ y.ts # x.ts BY <3>1, <3>2, <4>1, <1>1
        <5> QED BY <5>1, <1>1 DEF Earlier
      <4> QED BY <4>1
    <3>4. Cardinality(E \ {x}) <= Cardinality(Earlier(F, x)) BY <1>1, <1>2, <3>3, FS_Subset
    <3>5. Cardinality(E \ {x}) = Cardinality(E) - 1 BY <1>3, FS_RemoveElement
    <3>6. Cardinality(Earlier(F, x)) < n /\ Cardinality(Earlier(F, x)) \in Nat BY <1>1, <1>2
    <3> QED BY <3>4, <3>5, <3>6, <1>3
  <2> QED BY <2>1, <2>2
<1>5. \A y \in F \ E, x \in E : x.ts <= y.ts
  <2> SUFFICES ASSUME NEW y \in F \ E, NEW x \in E, ~(x.ts <= y.ts) PROVE FALSE OBVIOUS
  <2>1. Earlier(F, y) \subseteq Earlier(F, x) BY <1>1 DEF Earlier
  <2>2. Cardinality(Earlier(F, y)) <= Cardinality(Earlier(F, x)) BY <2>1, <1>1, <1>2, FS_Subset
  <2>3. ~(Cardinality(Earlier(F, y)) < n) /\ Cardinality(Earlier(F, x)) < n BY <1>1
  <2>4. Cardinality(Earlier(F, y)) \in Nat /\ Cardinality(Earlier(F, x)) \in Nat BY <1>1, <1>2
  <2> QED BY <2>2, <2>3, <2>4
<1>6. E # F => Cardinality(E) = n
  <2> SUFFICES ASSUME E # F PROVE Cardinality(E) = n OBVIOUS
  <2> DEFINE U == F \ E
           below == {p \in U \X U : p[1].ts < p[2].ts}
  <2>1. U # {} /\ IsFiniteSet(U) BY <1>1, FS_Subset
  <2>2. /\ \A x \in U : <<x, x>> \notin below
        /\ \A x, y, z \in U : <<x, y>> \in below /\ <<y, z>> \in below => <<x, z>> \in below
        /\ \A x, y \in U : <<y, x>> \notin below => ~(y.ts < x.ts)
    OBVIOUS
  <2> HIDE DEF below
  <2>3. PICK y \in U : \A z \in U : <<z, y>> \notin below
    <3> HIDE DEF U
    <3> QED BY <2>1, <2>2, LeastExists
  <2>4. Earlier(F, y) \subseteq E BY <2>2, <2>3 DEF Earlier
  <2>5. Cardinality(Earlier(F, y)) <= Cardinality(E) BY <2>4, <1>3, FS_Subset
  <2>6. ~(Cardinality(Earlier(F, y)) < n) /\ Cardinality(Earlier(F, y)) \in Nat BY <1>1, <1>2
  <2> QED BY <2>5, <2>6, <1>3, <1>4
<1> QED BY <1>1, <1>3, <1>4, <1>5, <1>6 DEF E

\* What is later than n elements of a set is later than its n earliest.
LEMMA BehindMany ==
  ASSUME NEW F, IsFiniteSet(F), \A x \in F : x.ts \in Int, \A x, y \in F : x.ts = y.ts => x = y,
         NEW n \in Nat \ {0}, NEW A \in SUBSET F, Cardinality(A) >= n,
         NEW y, y.ts \in Int, \A z \in A : z.ts <= y.ts
  PROVE  Cardinality(EarliestOf(F, n)) = n /\ \A x \in EarliestOf(F, n) : x.ts <= y.ts
<1> DEFINE E == EarliestOf(F, n)
<1>1. E \subseteq F /\ IsFiniteSet(E) /\ Cardinality(E) <= n /\ (E # F => Cardinality(E) = n)
  BY EarliestFacts
<1>2. \A x \in F : x \in E <=> Cardinality(Earlier(F, x)) < n BY DEF EarliestOf, Earlier
<1> HIDE DEF E
<1>3. IsFiniteSet(A) /\ Cardinality(A) \in Nat /\ Cardinality(E) \in Nat BY <1>1, FS_Subset, FS_CardinalityType
<1>4. Cardinality(E) = n
  <2>1. CASE E = F
    <3>1. Cardinality(A) <= Cardinality(E) BY <2>1, FS_Subset
    <3> QED BY <3>1, <1>1, <1>3
  <2> QED BY <2>1, <1>1
<1>5. ASSUME NEW x \in E, ~(x.ts <= y.ts) PROVE FALSE
  <2>0. x \in F BY <1>1
  <2>1. A \subseteq Earlier(F, x) BY <1>5, <2>0 DEF Earlier
  <2>2. IsFiniteSet(Earlier(F, x))
    <3>1. Earlier(F, x) \subseteq F BY DEF Earlier
    <3> QED BY <3>1, FS_Subset
  <2>3. Cardinality(A) <= Cardinality(Earlier(F, x)) /\ Cardinality(Earlier(F, x)) \in Nat
    BY <2>1, <2>2, FS_Subset, FS_CardinalityType
  <2>4. Cardinality(Earlier(F, x)) < n BY <2>0, <1>2
  <2> QED BY <2>3, <2>4, <1>3
<1> QED BY <1>4, <1>5 DEF E

\* Under what answers are cached.
CacheKeys == {KeyOf(r) : r \in Requests}
Asked(r) == {AdaptersOf[r.kind][i] : i \in DOMAIN AdaptersOf[r.kind]}
AllMatching(r) == UNION {Matching(a, r) : a \in Asked(r)}

\* A looked-up request is one of the program's kinds, with a limit.
LEMMA LookUpType ==
  ASSUME NEW r \in Requests
  PROVE  /\ r.kind \in DOMAIN AdaptersOf /\ r.tenant \in Tenants /\ Limit(r) \in Nat \ {0}
         /\ AdaptersOf[r.kind] \in Seq(Names) /\ Asked(r) \subseteq Names
         /\ r.kind = "logs" => r.of = r.id
<1>1. /\ r.kind \in DOMAIN AdaptersOf /\ r.limit \in Int /\ DefaultLimit \in Nat \ {0}
      /\ r.kind = "logs" => r.of = r.id
  BY CorrelatorAssumption
<1>2. Limit(r) \in Nat \ {0} BY <1>1 DEF Limit
<1>3. AdaptersOf[r.kind] \in Seq(Names) BY <1>1, CorrelatorAssumption
<1>4. Asked(r) \subseteq Names BY <1>1 DEF Asked, Names
<1> QED BY <1>1, <1>2, <1>3, <1>4 DEF Tenants

\* Requests for lines with one key ask for the same.
LEMMA KeyTells ==
  ASSUME NEW q \in Requests, NEW r \in Requests, KeyOf(q) = KeyOf(r)
  PROVE  /\ q.kind = r.kind /\ q.tenant = r.tenant
         /\ r.kind = "logs" => \A found, failed : Owed(q, found, failed) => Owed(r, found, failed)
<1>1. /\ q.kind = r.kind /\ q.tenant = r.tenant /\ q.id = r.id /\ q.from = r.from /\ q.to = r.to
      /\ r.kind = "logs" => Limit(q) = Limit(r)
  BY DEF KeyOf
<1>2. r.kind = "logs" => q.of = r.of BY <1>1, LookUpType
<1>3. \A ts : InWindow(ts, q) = InWindow(ts, r) BY <1>1 DEF InWindow
<1>4. r.kind = "logs" => \A a : Matching(a, q) = Matching(a, r) BY <1>1, <1>2, <1>3 DEF Matching
<1>5. ASSUME r.kind = "logs", NEW found, NEW failed, Owed(q, found, failed) PROVE Owed(r, found, failed)
  <2>1. q.kind = r.kind /\ Limit(q) = Limit(r) /\ \A a : Matching(a, q) = Matching(a, r) BY <1>1, <1>4, <1>5
  <2>2. AdaptersOf[q.kind] = AdaptersOf[r.kind] BY <2>1
  <2> QED BY <1>5, <2>1, <2>2 DEF Owed
<1> QED BY <1>1, <1>5

\* Of one subject there is one record for each time.
LEMMA MatchingType ==
  ASSUME NEW r \in Requests
  PROVE  /\ \A a \in Asked(r) : IsFiniteSet(Matching(a, r))
         /\ \A x \in AllMatching(r) : x.ts \in Int
         /\ \A x, y \in AllMatching(r) : x.ts = y.ts => x = y
<1>1. \A a \in Asked(r) : /\ IsFiniteSet(Held[<<a, r.tenant>>])
                          /\ \A x \in Held[<<a, r.tenant>>] : x = [of |-> x.of, ts |-> x.ts] /\ x.ts \in Int
  BY LookUpType, CorrelatorAssumption
<1>2. \A a \in Asked(r) : Matching(a, r) \subseteq Held[<<a, r.tenant>>] /\ \A x \in Matching(a, r) : x.of = r.of
  BY DEF Matching
<1>3. \A x \in AllMatching(r) : x = [of |-> r.of, ts |-> x.ts] /\ x.ts \in Int
  BY <1>1, <1>2 DEF AllMatching
<1>4. ASSUME NEW a \in Asked(r) PROVE IsFiniteSet(Matching(a, r))
  <2>1. IsFiniteSet(Held[<<a, r.tenant>>]) /\ Matching(a, r) \subseteq Held[<<a, r.tenant>>] BY <1>1, <1>2
  <2> QED BY <2>1, FS_Subset
<1>5. \A x, y \in AllMatching(r) : x.ts = y.ts => x = y BY <1>3
<1> QED BY <1>3, <1>4, <1>5

\* What is owed to some request with the key.
OwedTo(k, found, failed) == \E q \in Requests : KeyOf(q) = k /\ Owed(q, found, failed)

\* What a call has gathered: everything that the adapters asked so far answered.
Gathered(r, found, failed, n) ==
  /\ IsFiniteSet(found) /\ found \subseteq AllMatching(r)
  /\ \A j \in 1 .. n : AdaptersOf[r.kind][j] \notin failed => Answers(AdaptersOf[r.kind][j], r) \subseteq found

\* An adapter answers with records of the subject.
LEMMA AnswersType ==
  ASSUME NEW r \in Requests, NEW a \in Asked(r)
  PROVE  IsFiniteSet(Answers(a, r)) /\ Answers(a, r) \subseteq Matching(a, r)
<1>1. IsFiniteSet(Matching(a, r)) BY MatchingType
<1>2. Answers(a, r) \subseteq Matching(a, r) BY DEF Answers, EarliestOf
<1> QED BY <1>1, <1>2, FS_Subset

\* The answer of a call that has asked every adapter, cut to its limit.
Cut(r, found) == IF r.kind = "logs" THEN EarliestOf(found, Limit(r)) ELSE found

\* What all adapters answered, cut to the limit, is an answer to the request.
LEMMA GatheredOwn ==
  ASSUME NEW r \in Requests, NEW F, NEW failed, NEW n \in Nat, n >= Len(AdaptersOf[r.kind]), Gathered(r, F, failed, n)
  PROVE  Owed(r, Cut(r, F), failed)
<1> DEFINE m == Limit(r)  E == EarliestOf(F, m)
<1>t. m \in Nat \ {0} /\ AdaptersOf[r.kind] \in Seq(Names) BY LookUpType
<1>0. IsFiniteSet(F) /\ F \subseteq AllMatching(r) BY DEF Gathered
<1>1. ASSUME NEW a \in Asked(r) \ failed PROVE Answers(a, r) \subseteq F
  <2>1. PICK j \in DOMAIN AdaptersOf[r.kind] : a = AdaptersOf[r.kind][j] BY DEF Asked
  <2>2. j \in 1 .. n BY <2>1, <1>t
  <2> QED BY <2>1, <2>2, <1>1 DEF Gathered
<1>2. CASE r.kind # "logs"
  <2>1. Cut(r, F) = F /\ \A a \in Asked(r) \ failed : Matching(a, r) \subseteq F BY <1>1, <1>2 DEF Cut, Answers
  <2> QED BY <2>1, <1>0, <1>2 DEF Owed, AllMatching, Asked
<1>3. CASE r.kind = "logs"
  <2> HIDE DEF m, E
  <2>0. Cut(r, F) = E /\ m = Limit(r) BY <1>3 DEF Cut, E, m
  <2>1. (\A x \in F : x.ts \in Int) /\ \A x, y \in F : x.ts = y.ts => x = y BY <1>0, MatchingType
  <2>2. /\ E \subseteq F /\ Cardinality(E) <= m /\ (E # F => Cardinality(E) = m)
        /\ \A y \in F \ E, x \in E : x.ts <= y.ts
    BY <2>1, <1>0, <1>t, EarliestFacts DEF E
  <2>3. ASSUME NEW a \in Asked(r) \ failed, NEW y \in Matching(a, r) \ E
        PROVE  Cardinality(E) = m /\ \A x \in E : x.ts <= y.ts
    <3>1. CASE y \in F BY <3>1, <2>2, <2>3
    <3>2. CASE y \notin F
      <4> DEFINE M == Matching(a, r)  A == Answers(a, r)
      <4>1. A = EarliestOf(M, m) /\ A \subseteq F BY <1>1, <1>3, <2>0 DEF Answers
      <4>2. IsFiniteSet(M) /\ M \subseteq AllMatching(r) BY MatchingType DEF AllMatching
      <4>3. (\A x \in M : x.ts \in Int) /\ \A x, z \in M : x.ts = z.ts => x = z BY <4>2, MatchingType
      <4>4. y \in M /\ y \notin A BY <3>2, <2>3, <4>1
      <4> HIDE DEF M, A
      <4>5. Cardinality(A) = m /\ \A x \in A : x.ts <= y.ts
        <5>1. /\ EarliestOf(M, m) # M => Cardinality(EarliestOf(M, m)) = m
              /\ \A z \in M \ EarliestOf(M, m), x \in EarliestOf(M, m) : x.ts <= z.ts
          BY <4>2, <4>3, <1>t, EarliestFacts
        <5> QED BY <5>1, <4>1, <4>4
      <4>6. Cardinality(A) >= m /\ y.ts \in Int BY <4>5, <1>t, <4>3, <4>4
      <4> QED BY <4>1, <4>5, <4>6, <2>1, <1>0, <1>t, BehindMany DEF E
    <3> QED BY <3>1, <3>2
  <2>4. E \subseteq AllMatching(r) BY <2>2, <1>0
  <2> QED BY <2>0, <2>2, <2>3, <2>4, <1>3 DEF Owed, AllMatching, Asked
<1> QED BY <1>2, <1>3

-----------------------------------------------------------------------------
(* The invariant of the correlator.                                        *)

\* Where a call stands: before its global slot, between both slots and their
\* release, or with what it answers.
IsWaiting(e) == e = [at |-> e.at, req |-> e.req] /\ e.at \in {"missed", "admitted", "refused"} /\ e.req \in Requests
IsAsking(e) ==
  /\ e = [at |-> e.at, req |-> e.req, i |-> e.i, found |-> e.found, errs |-> e.errs]
  /\ e.at \in {"next", "asking"} /\ e.req \in Requests
  /\ e.i \in 1 .. Len(AdaptersOf[e.req.kind]) + 1 /\ (e.at = "asking" => e.i <= Len(AdaptersOf[e.req.kind]))
  /\ Gathered(e.req, e.found, e.errs, e.i - 1)
IsFinished(e) ==
  /\ e = [at |-> e.at, req |-> e.req, found |-> e.found, errs |-> e.errs, failed |-> e.failed]
  /\ e.at \in {"stored", "released", "answered"}
  /\ e.req \in Requests /\ OwedTo(KeyOf(e.req), e.found, e.failed)
Calling(e) == e = Out \/ IsWaiting(e) \/ IsAsking(e) \/ IsFinished(e)

CallsOk == call = [c \in Callers |-> call[c]] /\ \A c \in Callers : Calling(call[c])

GlobalOk == IsFiniteSet(Running) /\ inflight = Cardinality(Running) /\ inflight <= MaxGlobal
TenantsOk ==
  /\ taken = [t \in Tenants |-> Cardinality(Admitted(t))]
  /\ \A t \in Tenants : IsFiniteSet(Admitted(t)) /\ taken[t] <= MaxPerTenant
SlotsOk == GlobalOk /\ TenantsOk

\* What is cached is an answer to its key, and is in its tenant's order.
CacheOk ==
  /\ \A k \in DOMAIN cache : k \in CacheKeys /\ OwedTo(k, cache[k].found, cache[k].failed)
  /\ IsFiniteSet(DOMAIN order)
  /\ \A t \in DOMAIN order : /\ order[t] \in Seq(CacheKeys) /\ Len(order[t]) <= CacheMax
                             /\ \A i \in DOMAIN order[t] : order[t][i].tenant = t
  /\ \A k \in DOMAIN cache : k.tenant \in DOMAIN order /\ \E i \in DOMAIN order[k.tenant] : order[k.tenant][i] = k

CorrelatorInvariant == CallsOk /\ SlotsOk /\ CacheOk

\* The steps that change one call and no slot.
LEMMA ExceptCall ==
  ASSUME CallsOk, NEW c \in Callers, NEW e, call' = [call EXCEPT ![c] = e], Calling(e)
  PROVE  CallsOk'
<1>1. call' = [d \in Callers |-> IF d = c THEN e ELSE call[d]] BY DEF CallsOk
<1>2. \A d \in Callers : call'[d] = IF d = c THEN e ELSE call[d] BY <1>1
<1>3. \A d \in Callers : Calling(call'[d]) BY <1>2 DEF CallsOk
<1>4. call' = [d \in Callers |-> call'[d]] BY <1>1
<1> QED BY <1>3, <1>4 DEF CallsOk

\* The records of the calls are apart by where they stand.
LEMMA CallShapes ==
  ASSUME CallsOk, NEW c \in Callers
  PROVE  /\ call[c].at \in {"missed", "admitted", "refused"} => IsWaiting(call[c])
         /\ call[c].at \in {"next", "asking"} => IsAsking(call[c])
         /\ call[c].at \in {"stored", "released", "answered"} => IsFinished(call[c])
<1>1. Calling(call[c]) BY DEF CallsOk
<1> QED BY <1>1 DEF Calling, Out, IsWaiting, IsAsking, IsFinished

\* What a call that stores answers is owed to its request.
LEMMA StoredOwed ==
  ASSUME CallsOk, NEW c \in Callers, Store(c)
  PROVE  call[c].req \in Requests /\ Owed(call[c].req, Cut(call[c].req, call[c].found), call[c].errs)
<1> DEFINE e == call[c]  r == e.req
<1>1. IsAsking(e) /\ e.i > Len(AdaptersOf[r.kind]) BY CallShapes DEF Store, Adapters
<1> HIDE DEF e
<1>2. r \in Requests /\ Len(AdaptersOf[r.kind]) \in Nat BY <1>1, LookUpType DEF IsAsking
<1>3. e.i - 1 \in Nat /\ e.i - 1 >= Len(AdaptersOf[r.kind]) /\ Gathered(r, e.found, e.errs, e.i - 1)
  BY <1>1, <1>2 DEF IsAsking
<1>4. Owed(r, Cut(r, e.found), e.errs) BY <1>2, <1>3, GatheredOwn
<1> QED BY <1>2, <1>4 DEF e

\* A call stands where its records say, whatever the others do.
THEOREM CallsInductive == CorrelatorInvariant /\ [CorrelatorNext]_correlatorVars => CallsOk'
<1> SUFFICES ASSUME CallsOk, CacheOk, [CorrelatorNext]_correlatorVars PROVE CallsOk'
  BY DEF CorrelatorInvariant
<1>1. ASSUME NEW c \in Callers, Look(c) PROVE CallsOk'
  <2>1. PICK r \in Requests : LET k == KeyOf(r) IN
          call' = [call EXCEPT ![c] =
            IF FreshEntry(k) THEN [at |-> "answered", req |-> r, found |-> cache[k].found, errs |-> {}, failed |-> cache[k].failed]
            ELSE [at |-> "missed", req |-> r]]
    BY <1>1 DEF Look
  <2> DEFINE k == KeyOf(r)
             hit == [at |-> "answered", req |-> r, found |-> cache[k].found, errs |-> {}, failed |-> cache[k].failed]
             miss == [at |-> "missed", req |-> r]
             e == IF FreshEntry(k) THEN hit ELSE miss
  <2>3. call' = [call EXCEPT ![c] = e] BY <2>1
  <2>4. IsWaiting(miss) BY DEF IsWaiting
  <2>5. FreshEntry(k) => IsFinished(hit)
    <3>1. FreshEntry(k) => OwedTo(k, cache[k].found, cache[k].failed) BY DEF FreshEntry, Cached, CacheOk
    <3>2. hit = [at |-> hit.at, req |-> hit.req, found |-> hit.found, errs |-> hit.errs, failed |-> hit.failed]
          /\ hit.at = "answered" /\ hit.req = r /\ hit.found = cache[k].found /\ hit.failed = cache[k].failed OBVIOUS
    <3> HIDE DEF hit
    <3> QED BY <3>1, <3>2 DEF IsFinished
  <2>6. Calling(e) BY <2>4, <2>5 DEF Calling
  <2> QED BY <2>3, <2>6, ExceptCall
<1>2. ASSUME NEW c \in Callers, TakeTenant(c) PROVE CallsOk'
  <2> DEFINE r == call[c].req
             in == [at |-> "admitted", req |-> r]
  <2>1. PICK free \in BOOLEAN : call' = [call EXCEPT ![c] = IF free THEN in ELSE Out] BY <1>2 DEF TakeTenant
  <2>2. r \in Requests BY <1>2, CallShapes DEF TakeTenant, IsWaiting
  <2>3. IsWaiting(in) BY <2>2 DEF IsWaiting
  <2>4. Calling(IF free THEN in ELSE Out) BY <2>3 DEF Calling
  <2> QED BY <2>1, <2>4, ExceptCall
<1>10. ASSUME NEW c \in Callers, TakeGlobal(c) PROVE CallsOk'
  <2> DEFINE r == call[c].req
             run == Starting(r)
             no == [at |-> "refused", req |-> r]
  <2>1. PICK free \in BOOLEAN : call' = [call EXCEPT ![c] = IF free THEN run ELSE no] BY <1>10 DEF TakeGlobal
  <2>2. r \in Requests BY <1>10, CallShapes DEF TakeGlobal, IsWaiting
  <2>3. Len(AdaptersOf[r.kind]) \in Nat BY <2>2, LookUpType
  <2>4. Gathered(r, {}, {}, 0) BY FS_EmptySet DEF Gathered
  <2>7. IsWaiting(no) BY <2>2 DEF IsWaiting
  <2> HIDE DEF r
  <2>5. IsAsking(run)
    <3>1. run = [at |-> run.at, req |-> run.req, i |-> run.i, found |-> run.found, errs |-> run.errs]
          /\ run.at = "next" /\ run.req = r /\ run.i = 1 /\ run.found = {} /\ run.errs = {} BY DEF Starting
    <3> HIDE DEF run
    <3> QED BY <3>1, <2>2, <2>3, <2>4 DEF IsAsking
  <2> HIDE DEF run, no
  <2>6. Calling(IF free THEN run ELSE no) BY <2>5, <2>7 DEF Calling
  <2> QED BY <2>1, <2>6, ExceptCall
<1>3. ASSUME NEW c \in Callers, CheckBreaker(c) PROVE CallsOk'
  <2> DEFINE e == call[c]  r == e.req  a == AdaptersOf[r.kind][e.i]
             skip == Onward(e, {}, {a})
             ask == [at |-> "asking", req |-> r, i |-> e.i, found |-> e.found, errs |-> e.errs]
             open == cnow < breaker[a].openUntil
  <2>2. IsAsking(e) /\ e.at = "next" /\ e.i <= Len(AdaptersOf[r.kind])
    BY <1>3, CallShapes DEF CheckBreaker, Adapters
  <2>1. call' = [call EXCEPT ![c] = IF open THEN skip ELSE ask]
    <3>1. call' = [call EXCEPT ![c] = IF open THEN skip ELSE [e EXCEPT !.at = "asking"]]
      BY <1>3 DEF CheckBreaker, Adapter, Adapters
    <3> HIDE DEF e, a, open
    <3>2. [e EXCEPT !.at = "asking"] = ask BY <2>2 DEF IsAsking
    <3> QED BY <3>1, <3>2
  <2> HIDE DEF e, open
  <2>3. r \in Requests /\ Len(AdaptersOf[r.kind]) \in Nat BY <2>2, LookUpType DEF IsAsking
  <2>4. e.i \in 1 .. Len(AdaptersOf[r.kind]) BY <2>2, <2>3 DEF IsAsking
  <2>5. IsAsking(ask)
    <3>1. ask = [at |-> ask.at, req |-> ask.req, i |-> ask.i, found |-> ask.found, errs |-> ask.errs]
          /\ ask.at = "asking" /\ ask.req = r /\ ask.i = e.i /\ ask.found = e.found /\ ask.errs = e.errs OBVIOUS
    <3>2. Gathered(r, e.found, e.errs, e.i - 1) BY <2>2 DEF IsAsking
    <3> HIDE DEF ask, r
    <3> QED BY <3>1, <3>2, <2>3, <2>4 DEF IsAsking
  <2>6. IsAsking(skip)
    <3>1. skip = [at |-> skip.at, req |-> skip.req, i |-> skip.i, found |-> skip.found, errs |-> skip.errs]
          /\ skip.at = "next" /\ skip.req = r /\ skip.i = e.i + 1 /\ skip.found = e.found /\ skip.errs = e.errs \cup {a}
      BY DEF Onward
    <3>2. Gathered(r, e.found, e.errs \cup {a}, e.i) BY <2>2, <2>4 DEF IsAsking, Gathered
    <3> HIDE DEF skip, a, r
    <3> QED BY <3>1, <3>2, <2>3, <2>4 DEF IsAsking
  <2> HIDE DEF skip, ask
  <2>7. Calling(IF open THEN skip ELSE ask) BY <2>5, <2>6 DEF Calling
  <2> QED BY <2>1, <2>7, ExceptCall
<1>4. ASSUME NEW c \in Callers, AdapterFails(c) PROVE CallsOk'
  <2> DEFINE e == call[c]  r == e.req  a == AdaptersOf[r.kind][e.i]
             next == Onward(e, {}, {a})
  <2>2. IsAsking(e) /\ e.at = "asking" BY <1>4, CallShapes DEF AdapterFails
  <2>1. call' = [call EXCEPT ![c] = next] BY <1>4 DEF AdapterFails, Adapter, Adapters
  <2> HIDE DEF e
  <2>3. r \in Requests /\ Len(AdaptersOf[r.kind]) \in Nat BY <2>2, LookUpType DEF IsAsking
  <2>4. next = [at |-> next.at, req |-> next.req, i |-> next.i, found |-> next.found, errs |-> next.errs]
        /\ next.at = "next" /\ next.req = r /\ next.i = e.i + 1 /\ next.found = e.found /\ next.errs = e.errs \cup {a}
    BY DEF Onward
  <2>5. e.i \in 1 .. Len(AdaptersOf[r.kind]) BY <2>2, <2>3 DEF IsAsking
  <2>6. Gathered(r, e.found, e.errs \cup {a}, e.i) BY <2>2, <2>5 DEF IsAsking, Gathered
  <2> HIDE DEF next, a, r
  <2>7. IsAsking(next) BY <2>4, <2>5, <2>6, <2>3 DEF IsAsking
  <2>8. Calling(next) BY <2>7 DEF Calling
  <2> QED BY <2>1, <2>8, ExceptCall
<1>5. ASSUME NEW c \in Callers, AdapterAnswers(c) PROVE CallsOk'
  <2> DEFINE e == call[c]  r == e.req  a == AdaptersOf[r.kind][e.i]
             next == Onward(e, Answers(a, r), {})
  <2>2. IsAsking(e) /\ e.at = "asking" BY <1>5, CallShapes DEF AdapterAnswers
  <2>1. call' = [call EXCEPT ![c] = next] BY <1>5 DEF AdapterAnswers, Adapter, Adapters
  <2> HIDE DEF e
  <2>3. r \in Requests /\ AdaptersOf[r.kind] \in Seq(Names) BY <2>2, LookUpType DEF IsAsking
  <2>4. next = [at |-> next.at, req |-> next.req, i |-> next.i, found |-> next.found, errs |-> next.errs]
        /\ next.at = "next" /\ next.req = r /\ next.i = e.i + 1 /\ next.found = e.found \cup Answers(a, r) /\ next.errs = e.errs
    BY DEF Onward
  <2>5. e.i \in 1 .. Len(AdaptersOf[r.kind]) /\ e.i \in DOMAIN AdaptersOf[r.kind] BY <2>2, <2>3 DEF IsAsking
  <2>6. a \in Asked(r) BY <2>5 DEF Asked
  <2>7. IsFiniteSet(Answers(a, r)) /\ Answers(a, r) \subseteq AllMatching(r) BY <2>3, <2>6, AnswersType DEF AllMatching
  <2>8. Gathered(r, e.found, e.errs, e.i - 1) BY <2>2 DEF IsAsking
  <2>9. IsFiniteSet(e.found \cup Answers(a, r)) BY <2>7, <2>8, FS_Union DEF Gathered
  <2>10. Gathered(r, e.found \cup Answers(a, r), e.errs, e.i) BY <2>5, <2>7, <2>8, <2>9 DEF Gathered
  <2> HIDE DEF next, a, r
  <2>11. IsAsking(next) BY <2>4, <2>5, <2>10, <2>3 DEF IsAsking
  <2>12. Calling(next) BY <2>11 DEF Calling
  <2> QED BY <2>1, <2>12, ExceptCall
<1>6. ASSUME NEW c \in Callers, Store(c) PROVE CallsOk'
  <2> DEFINE e == call[c]  r == e.req  f == Cut(r, e.found)
             es == IF f = {} THEN e.errs ELSE {}
             done == [at |-> "stored", req |-> r, found |-> f, errs |-> es, failed |-> e.errs]
  <2>1. call' = [call EXCEPT ![c] = done] BY <1>6 DEF Store, Cut
  <2>5. r \in Requests /\ Owed(r, f, e.errs) BY <1>6, StoredOwed
  <2> HIDE DEF f, es, r
  <2>6. done = [at |-> done.at, req |-> done.req, found |-> done.found, errs |-> done.errs, failed |-> done.failed]
        /\ done.at = "stored" /\ done.req = r /\ done.found = f /\ done.failed = e.errs OBVIOUS
  <2> HIDE DEF done, e
  <2>7. IsFinished(done) BY <2>5, <2>6 DEF IsFinished, OwedTo
  <2>8. Calling(done) BY <2>7 DEF Calling
  <2> QED BY <2>1, <2>8, ExceptCall
<1>11. ASSUME NEW c \in Callers, ReleaseGlobal(c) PROVE CallsOk'
  <2> DEFINE e == call[c]
             gone == [at |-> "released", req |-> e.req, found |-> e.found, errs |-> e.errs, failed |-> e.failed]
  <2>1. IsFinished(e) BY <1>11, CallShapes DEF ReleaseGlobal
  <2>2. call' = [call EXCEPT ![c] = [e EXCEPT !.at = "released"]] BY <1>11 DEF ReleaseGlobal
  <2> HIDE DEF e
  <2>3. [e EXCEPT !.at = "released"] = gone BY <2>1 DEF IsFinished
  <2>4. IsFinished(gone) BY <2>1 DEF IsFinished
  <2>5. Calling(gone) BY <2>4 DEF Calling
  <2> HIDE DEF gone
  <2> QED BY <2>2, <2>3, <2>5, ExceptCall
<1>12. ASSUME NEW c \in Callers, ReleaseTenant(c) PROVE CallsOk'
  <2> DEFINE e == call[c]
             gone == [at |-> "answered", req |-> e.req, found |-> e.found, errs |-> e.errs, failed |-> e.failed]
             next == IF e.at = "refused" THEN Out ELSE [e EXCEPT !.at = "answered"]
  <2>1. e.at # "refused" => IsFinished(e) BY <1>12, CallShapes DEF ReleaseTenant
  <2>2. call' = [call EXCEPT ![c] = next] BY <1>12 DEF ReleaseTenant
  <2> HIDE DEF e
  <2>3. e.at # "refused" => [e EXCEPT !.at = "answered"] = gone BY <2>1 DEF IsFinished
  <2>4. e.at # "refused" => IsFinished(gone) BY <2>1 DEF IsFinished
  <2> HIDE DEF gone
  <2>5. Calling(next) BY <2>3, <2>4 DEF Calling
  <2> HIDE DEF next
  <2> QED BY <2>2, <2>5, ExceptCall
<1>7. ASSUME NEW c \in Callers, Leave(c) PROVE CallsOk'
  <2>1. call' = [call EXCEPT ![c] = Out] /\ Calling(Out) BY <1>7 DEF Leave, Calling
  <2> QED BY <2>1, ExceptCall
<1>8. CASE TickCorrelator BY <1>8 DEF TickCorrelator, CallsOk
<1>9. CASE UNCHANGED correlatorVars BY <1>9 DEF correlatorVars, CallsOk
<1> QED BY <1>1, <1>2, <1>3, <1>4, <1>5, <1>6, <1>7, <1>8, <1>9, <1>10, <1>11, <1>12 DEF CorrelatorNext

-----------------------------------------------------------------------------
(* The slots.                                                              *)

Holding == {"admitted", "refused", "next", "asking", "stored", "released"}
Serving == {"next", "asking", "stored"}

\* A step that leaves every call on its side of a semaphore leaves it alone.
LEMMA GlobalKept ==
  ASSUME GlobalOk, UNCHANGED inflight, \A d \in Callers : call'[d].at \in Serving <=> call[d].at \in Serving
  PROVE  GlobalOk'
<1>1. Running' = Running BY DEF Running, Serving
<1> QED BY <1>1 DEF GlobalOk

\* The same of the tenants' semaphores.
LEMMA TenantsKept ==
  ASSUME TenantsOk, UNCHANGED taken,
         \A d \in Callers : /\ call'[d].at \in Holding <=> call[d].at \in Holding
                            /\ call[d].at \in Holding => call'[d].req = call[d].req
  PROVE  TenantsOk'
<1>1. \A t \in Tenants : Admitted(t)' = Admitted(t) BY DEF Admitted, Holding
<1> QED BY <1>1 DEF TenantsOk

\* One call taking or giving back a slot.
LEMMA GlobalMoved ==
  ASSUME GlobalOk, NEW c \in Callers, \A d \in Callers \ {c} : call'[d] = call[d]
  PROVE  /\ call[c].at \notin Serving /\ call'[c].at \in Serving /\ inflight < MaxGlobal /\ inflight' = inflight + 1 => GlobalOk'
         /\ call[c].at \in Serving /\ call'[c].at \notin Serving /\ inflight' = inflight - 1 => GlobalOk'
<1>0. MaxGlobal \in Nat /\ Cardinality(Running) \in Nat /\ inflight = Cardinality(Running) /\ IsFiniteSet(Running)
  BY CorrelatorAssumption, FS_CardinalityType DEF GlobalOk
<1>1. ASSUME call[c].at \notin Serving, call'[c].at \in Serving, inflight < MaxGlobal, inflight' = inflight + 1 PROVE GlobalOk'
  <2>1. Running' = Running \cup {c} /\ c \notin Running BY <1>1 DEF Running, Serving
  <2>2. IsFiniteSet(Running') /\ Cardinality(Running') = Cardinality(Running) + 1 BY <2>1, <1>0, FS_AddElement
  <2> QED BY <2>2, <1>0, <1>1 DEF GlobalOk
<1>2. ASSUME call[c].at \in Serving, call'[c].at \notin Serving, inflight' = inflight - 1 PROVE GlobalOk'
  <2>1. Running' = Running \ {c} /\ c \in Running BY <1>2 DEF Running, Serving
  <2>2. IsFiniteSet(Running') /\ Cardinality(Running') = Cardinality(Running) - 1 BY <2>1, <1>0, FS_RemoveElement
  <2> QED BY <2>2, <1>0, <1>2 DEF GlobalOk
<1> QED BY <1>1, <1>2

\* The same of one tenant's.
LEMMA TenantMoved ==
  ASSUME TenantsOk, NEW c \in Callers, \A d \in Callers \ {c} : call'[d] = call[d], NEW t \in Tenants
  PROVE  /\ /\ call[c].at \notin Holding /\ call'[c].at \in Holding /\ call'[c].req.tenant = t
            /\ taken[t] < MaxPerTenant /\ taken' = [taken EXCEPT ![t] = @ + 1]
            => TenantsOk'
         /\ /\ call[c].at \in Holding /\ call'[c].at \notin Holding /\ call[c].req.tenant = t
            /\ taken' = [taken EXCEPT ![t] = @ - 1]
            => TenantsOk'
<1>0. MaxPerTenant \in Nat BY CorrelatorAssumption
<1>a. \A u \in Tenants : IsFiniteSet(Admitted(u)) /\ taken[u] = Cardinality(Admitted(u)) /\ taken[u] \in Nat /\ taken[u] <= MaxPerTenant
  BY FS_CardinalityType DEF TenantsOk
<1>1. ASSUME call[c].at \notin Holding, call'[c].at \in Holding, call'[c].req.tenant = t,
             taken[t] < MaxPerTenant, taken' = [taken EXCEPT ![t] = @ + 1]
      PROVE  TenantsOk'
  <2>1. Admitted(t)' = Admitted(t) \cup {c} /\ c \notin Admitted(t) BY <1>1 DEF Admitted, Holding
  <2>2. \A u \in Tenants \ {t} : Admitted(u)' = Admitted(u) BY <1>1 DEF Admitted, Holding
  <2>3. IsFiniteSet(Admitted(t)') /\ Cardinality(Admitted(t)') = Cardinality(Admitted(t)) + 1 BY <2>1, <1>a, FS_AddElement
  <2>4. taken' = [u \in Tenants |-> IF u = t THEN taken[t] + 1 ELSE taken[u]] BY <1>1 DEF TenantsOk
  <2>5. \A u \in Tenants : taken'[u] = Cardinality(Admitted(u)') BY <2>2, <2>3, <2>4, <1>a
  <2>6. taken' = [u \in Tenants |-> Cardinality(Admitted(u)')] BY <2>4, <2>5
  <2>7. \A u \in Tenants : taken'[u] <= MaxPerTenant BY <2>4, <1>0, <1>1, <1>a
  <2>8. \A u \in Tenants : IsFiniteSet(Admitted(u)') BY <2>2, <2>3, <1>a
  <2> QED BY <2>6, <2>7, <2>8 DEF TenantsOk
<1>2. ASSUME call[c].at \in Holding, call'[c].at \notin Holding, call[c].req.tenant = t, taken' = [taken EXCEPT ![t] = @ - 1]
      PROVE  TenantsOk'
  <2>1. Admitted(t)' = Admitted(t) \ {c} /\ c \in Admitted(t) BY <1>2 DEF Admitted, Holding
  <2>2. \A u \in Tenants \ {t} : Admitted(u)' = Admitted(u) BY <1>2 DEF Admitted, Holding
  <2>3. IsFiniteSet(Admitted(t)') /\ Cardinality(Admitted(t)') = Cardinality(Admitted(t)) - 1 BY <2>1, <1>a, FS_RemoveElement
  <2>4. taken' = [u \in Tenants |-> IF u = t THEN taken[t] - 1 ELSE taken[u]] BY <1>2 DEF TenantsOk
  <2>5. \A u \in Tenants : taken'[u] = Cardinality(Admitted(u)') BY <2>2, <2>3, <2>4, <1>a
  <2>6. taken' = [u \in Tenants |-> Cardinality(Admitted(u)')] BY <2>4, <2>5
  <2>7. \A u \in Tenants : taken'[u] <= MaxPerTenant BY <2>4, <1>0, <1>a
  <2>8. \A u \in Tenants : IsFiniteSet(Admitted(u)') BY <2>2, <2>3, <1>a
  <2> QED BY <2>6, <2>7, <2>8 DEF TenantsOk
<1> QED BY <1>1, <1>2

\* Where each step takes its call.
LEMMA Moves ==
  ASSUME CallsOk, NEW c \in Callers, NEW e, call' = [call EXCEPT ![c] = e]
  PROVE  call'[c] = e /\ \A d \in Callers \ {c} : call'[d] = call[d]
BY DEF CallsOk

\* A call that stays on its side of both changes neither.
LEMMA SlotsKept ==
  ASSUME SlotsOk, UNCHANGED <<taken, inflight>>, NEW c \in Callers, \A d \in Callers \ {c} : call'[d] = call[d],
         call'[c].at \in Serving <=> call[c].at \in Serving,
         call'[c].at \in Holding <=> call[c].at \in Holding,
         call[c].at \in Holding => call'[c].req = call[c].req
  PROVE  SlotsOk'
BY GlobalKept, TenantsKept DEF SlotsOk

\* Every step that moves a call across acquire or release moves a slot with it.
THEOREM SlotsInductive == CorrelatorInvariant /\ [CorrelatorNext]_correlatorVars => SlotsOk'
<1> SUFFICES ASSUME CallsOk, SlotsOk, [CorrelatorNext]_correlatorVars PROVE SlotsOk'
  BY DEF CorrelatorInvariant
<1>1. ASSUME NEW c \in Callers, Look(c) PROVE SlotsOk'
  <2>1. PICK r, e : /\ call' = [call EXCEPT ![c] = e] /\ e.at \in {"answered", "missed"}
                    /\ e.req = r
    <3>1. PICK r \in Requests : LET k == KeyOf(r) IN
            call' = [call EXCEPT ![c] =
              IF FreshEntry(k) THEN [at |-> "answered", req |-> r, found |-> cache[k].found, errs |-> {}, failed |-> cache[k].failed]
              ELSE [at |-> "missed", req |-> r]]
      BY <1>1 DEF Look
    <3> DEFINE k == KeyOf(r)
               e == IF FreshEntry(k) THEN [at |-> "answered", req |-> r, found |-> cache[k].found, errs |-> {}, failed |-> cache[k].failed]
                    ELSE [at |-> "missed", req |-> r]
    <3>2. call' = [call EXCEPT ![c] = e] BY <3>1
    <3> HIDE DEF k
    <3>3. e.at \in {"answered", "missed"} /\ e.req = r OBVIOUS
    <3> HIDE DEF e
    <3> QED BY <3>2, <3>3
  <2>2. call'[c] = e /\ \A d \in Callers \ {c} : call'[d] = call[d] BY <2>1, Moves
  <2>3. call[c].at = "out" /\ UNCHANGED <<taken, inflight>> BY <1>1 DEF Look, Out
  <2> QED BY <2>1, <2>2, <2>3, SlotsKept DEF Serving, Holding
<1>2. ASSUME NEW c \in Callers, TakeTenant(c) PROVE SlotsOk'
  <2> DEFINE r == call[c].req  t == r.tenant  in == [at |-> "admitted", req |-> r]
  <2>1. call[c].at = "missed" /\ t \in Tenants /\ UNCHANGED inflight
    BY <1>2, CallShapes, LookUpType DEF TakeTenant, IsWaiting
  <2>2. CASE ~(taken[t] < MaxPerTenant)
    <3>1. call' = [call EXCEPT ![c] = Out] /\ UNCHANGED taken BY <1>2, <2>2 DEF TakeTenant
    <3>2. call'[c] = Out /\ \A d \in Callers \ {c} : call'[d] = call[d] BY <3>1, Moves
    <3> QED BY <2>1, <3>1, <3>2, SlotsKept DEF Serving, Holding, Out
  <2>3. CASE taken[t] < MaxPerTenant
    <3>1. call' = [call EXCEPT ![c] = in] /\ taken' = [taken EXCEPT ![t] = @ + 1] BY <1>2, <2>3 DEF TakeTenant
    <3>2. call'[c] = in /\ \A d \in Callers \ {c} : call'[d] = call[d] BY <3>1, Moves
    <3>3. call'[c].at = "admitted" /\ call'[c].req.tenant = t BY <3>2
    <3>4. GlobalOk' 
      <4>1. \A d \in Callers : call'[d].at \in Serving <=> call[d].at \in Serving BY <2>1, <3>2, <3>3 DEF Serving
      <4> QED BY <4>1, <2>1, GlobalKept DEF SlotsOk
    <3>5. call[c].at \notin Holding /\ call'[c].at \in Holding BY <2>1, <3>3 DEF Holding
    <3> HIDE DEF t
    <3>6. TenantsOk' BY <2>1, <2>3, <3>1, <3>2, <3>3, <3>5, TenantMoved DEF SlotsOk
    <3> QED BY <3>4, <3>6 DEF SlotsOk
  <2> QED BY <2>2, <2>3
<1>8. ASSUME NEW c \in Callers, TakeGlobal(c) PROVE SlotsOk'
  <2> DEFINE r == call[c].req
  <2>1. call[c].at = "admitted" /\ UNCHANGED taken BY <1>8 DEF TakeGlobal
  <2>2. CASE ~(inflight < MaxGlobal)
    <3>1. call' = [call EXCEPT ![c] = [at |-> "refused", req |-> r]] /\ UNCHANGED inflight BY <1>8, <2>2 DEF TakeGlobal
    <3>2. call'[c] = [at |-> "refused", req |-> r] /\ \A d \in Callers \ {c} : call'[d] = call[d] BY <3>1, Moves
    <3>3. call'[c].at = "refused" /\ call'[c].req = r BY <3>2
    <3> QED BY <2>1, <3>1, <3>2, <3>3, SlotsKept DEF Serving, Holding
  <2>3. CASE inflight < MaxGlobal
    <3>1. call' = [call EXCEPT ![c] = Starting(r)] /\ inflight' = inflight + 1 BY <1>8, <2>3 DEF TakeGlobal
    <3>2. call'[c] = Starting(r) /\ \A d \in Callers \ {c} : call'[d] = call[d] BY <3>1, Moves
    <3>3. call'[c].at = "next" /\ call'[c].req = r BY <3>2 DEF Starting
    <3>4. TenantsOk'
      <4>1. \A d \in Callers : /\ call'[d].at \in Holding <=> call[d].at \in Holding
                               /\ call[d].at \in Holding => call'[d].req = call[d].req
        BY <2>1, <3>2, <3>3 DEF Holding
      <4> QED BY <4>1, <2>1, TenantsKept DEF SlotsOk
    <3>5. call[c].at \notin Serving /\ call'[c].at \in Serving BY <2>1, <3>3 DEF Serving
    <3>6. GlobalOk' BY <2>3, <3>1, <3>2, <3>5, GlobalMoved DEF SlotsOk
    <3> QED BY <3>4, <3>6 DEF SlotsOk
  <2> QED BY <2>2, <2>3
<1>3. ASSUME NEW c \in Callers, CheckBreaker(c) PROVE SlotsOk'
  <2> DEFINE e == call[c]
             skip == Onward(e, {}, {Adapter(c)})
             ask == [e EXCEPT !.at = "asking"]
             open == cnow < breaker[Adapter(c)].openUntil
  <2>0. IsAsking(e) /\ UNCHANGED <<taken, inflight>> BY <1>3, CallShapes DEF CheckBreaker
  <2>1. call' = [call EXCEPT ![c] = IF open THEN skip ELSE ask] BY <1>3 DEF CheckBreaker
  <2>2. skip.at = "next" /\ skip.req = e.req BY DEF Onward
  <2>3. ask.at = "asking" /\ ask.req = e.req BY <2>0 DEF IsAsking
  <2> HIDE DEF skip, ask, open
  <2>4. call'[c].at \in {"next", "asking"} /\ call'[c].req = e.req /\ \A d \in Callers \ {c} : call'[d] = call[d]
    BY <2>1, <2>2, <2>3, Moves
  <2>5. e.at \in {"next", "asking"} BY <2>0 DEF IsAsking
  <2> QED BY <2>0, <2>4, <2>5, SlotsKept DEF Serving, Holding
<1>4. ASSUME NEW c \in Callers, AdapterFails(c) \/ AdapterAnswers(c) PROVE SlotsOk'
  <2>1. PICK recs, errs : call' = [call EXCEPT ![c] = Onward(call[c], recs, errs)]
    BY <1>4 DEF AdapterFails, AdapterAnswers
  <2>2. call[c].at = "asking" /\ UNCHANGED <<taken, inflight>> BY <1>4 DEF AdapterFails, AdapterAnswers
  <2> DEFINE e == Onward(call[c], recs, errs)
  <2>4. e.at = "next" /\ e.req = call[c].req BY DEF Onward
  <2> HIDE DEF e
  <2>3. call'[c] = e /\ \A d \in Callers \ {c} : call'[d] = call[d] BY <2>1, Moves DEF e
  <2> QED BY <2>2, <2>3, <2>4, SlotsKept DEF Serving, Holding
<1>5. ASSUME NEW c \in Callers, Store(c) PROVE SlotsOk'
  <2>1. PICK found, errs, failed : call' = [call EXCEPT ![c] =
          [at |-> "stored", req |-> call[c].req, found |-> found, errs |-> errs, failed |-> failed]]
    BY <1>5 DEF Store
  <2>2. call[c].at = "next" /\ UNCHANGED <<taken, inflight>> BY <1>5 DEF Store
  <2> DEFINE e == [at |-> "stored", req |-> call[c].req, found |-> found, errs |-> errs, failed |-> failed]
  <2>4. e.at = "stored" /\ e.req = call[c].req OBVIOUS
  <2> HIDE DEF e
  <2>3. call'[c] = e /\ \A d \in Callers \ {c} : call'[d] = call[d] BY <2>1, Moves DEF e
  <2> QED BY <2>2, <2>3, <2>4, SlotsKept DEF Serving, Holding
<1>9. ASSUME NEW c \in Callers, ReleaseGlobal(c) PROVE SlotsOk'
  <2> DEFINE e == call[c]  gone == [e EXCEPT !.at = "released"]
  <2>1. IsFinished(e) /\ e.at = "stored" /\ UNCHANGED taken /\ inflight' = inflight - 1
    BY <1>9, CallShapes DEF ReleaseGlobal
  <2>2. call' = [call EXCEPT ![c] = gone] BY <1>9 DEF ReleaseGlobal
  <2>3. gone.at = "released" /\ gone.req = e.req BY <2>1 DEF IsFinished
  <2> HIDE DEF gone
  <2>4. call'[c] = gone /\ \A d \in Callers \ {c} : call'[d] = call[d] BY <2>2, Moves
  <2>5. TenantsOk'
    <3>1. \A d \in Callers : /\ call'[d].at \in Holding <=> call[d].at \in Holding
                             /\ call[d].at \in Holding => call'[d].req = call[d].req
      BY <2>1, <2>3, <2>4 DEF Holding
    <3> QED BY <3>1, <2>1, TenantsKept DEF SlotsOk
  <2>6. call[c].at \in Serving /\ call'[c].at \notin Serving BY <2>1, <2>3, <2>4 DEF Serving
  <2>7. GlobalOk' BY <2>1, <2>4, <2>6, GlobalMoved DEF SlotsOk
  <2> QED BY <2>5, <2>7 DEF SlotsOk
<1>10. ASSUME NEW c \in Callers, ReleaseTenant(c) PROVE SlotsOk'
  <2> DEFINE e == call[c]  t == e.req.tenant  gone == [e EXCEPT !.at = "answered"]
             next == IF e.at = "refused" THEN Out ELSE gone
  <2>1. e.at \in {"refused", "released"} /\ UNCHANGED inflight /\ taken' = [taken EXCEPT ![t] = @ - 1]
        /\ call' = [call EXCEPT ![c] = next]
    BY <1>10 DEF ReleaseTenant
  <2>a. (e.at = "refused" => IsWaiting(e)) /\ (e.at = "released" => IsFinished(e)) BY CallShapes
  <2>b. e.req \in Requests BY <2>1, <2>a DEF IsWaiting, IsFinished
  <2>d. e.at = "released" => gone.at = "answered" BY <2>a DEF IsFinished
  <2>2. t \in Tenants /\ (e.at = "released" => gone.at = "answered") BY <2>b, <2>d, LookUpType
  <2>3. next.at \in {"out", "answered"} BY <2>1, <2>2 DEF Out
  <2> HIDE DEF next
  <2>4. call'[c] = next /\ \A d \in Callers \ {c} : call'[d] = call[d] BY <2>1, Moves
  <2>5. GlobalOk'
    <3>1. \A d \in Callers : call'[d].at \in Serving <=> call[d].at \in Serving BY <2>1, <2>3, <2>4 DEF Serving
    <3> QED BY <3>1, <2>1, GlobalKept DEF SlotsOk
  <2>6. call[c].at \in Holding /\ call'[c].at \notin Holding BY <2>1, <2>3, <2>4 DEF Holding
  <2>7. PICK u \in Tenants : u = t BY <2>2
  <2>8. call[c].req.tenant = u /\ taken' = [taken EXCEPT ![u] = @ - 1] BY <2>1, <2>7
  <2>9. TenantsOk' BY <2>4, <2>6, <2>8, TenantMoved DEF SlotsOk
  <2> QED BY <2>5, <2>9 DEF SlotsOk
<1>6. ASSUME NEW c \in Callers, Leave(c) PROVE SlotsOk'
  <2>1. call[c].at = "answered" /\ call' = [call EXCEPT ![c] = Out] /\ UNCHANGED <<taken, inflight>> BY <1>6 DEF Leave
  <2>2. call'[c] = Out /\ \A d \in Callers \ {c} : call'[d] = call[d] BY <2>1, Moves
  <2> QED BY <2>1, <2>2, SlotsKept DEF Serving, Holding, Out
<1>7. CASE TickCorrelator \/ UNCHANGED correlatorVars
  <2>1. UNCHANGED <<call, taken, inflight>> BY <1>7 DEF TickCorrelator, correlatorVars
  <2>2. GlobalOk' BY <2>1, GlobalKept DEF SlotsOk
  <2>3. TenantsOk' BY <2>1, TenantsKept DEF SlotsOk
  <2> QED BY <2>2, <2>3 DEF SlotsOk
<1> QED BY <1>1, <1>2, <1>3, <1>4, <1>5, <1>6, <1>7, <1>8, <1>9, <1>10 DEF CorrelatorNext

-----------------------------------------------------------------------------
(* The cache.                                                              *)

\* A tenant's share is never nothing and never more than the cache.
LEMMA ShareType == IsFiniteSet(DOMAIN order) => Share \in 1 .. CacheMax
<1> SUFFICES ASSUME IsFiniteSet(DOMAIN order) PROVE Share \in 1 .. CacheMax OBVIOUS
<1> DEFINE n == Cardinality(DOMAIN order)
<1>1. n \in Nat /\ CacheMax \in Nat \ {0} BY FS_CardinalityType, CorrelatorAssumption
<1> HIDE DEF n
<1>2. n > 1 => CacheMax \div n \in Nat /\ CacheMax \div n <= CacheMax BY <1>1, Z3
<1> QED BY <1>1, <1>2 DEF Share, n

\* What is evicted leaves room for the new key; the rest stays in the order.
LEMMA Evicting ==
  ASSUME CacheOk, NEW k \in CacheKeys
  PROVE  LET t == k.tenant
             kept == SubSeq(OrderOf(t), Excess(t) + 1, Len(OrderOf(t)))
         IN /\ OrderOf(t) \in Seq(CacheKeys) /\ kept \in Seq(CacheKeys) /\ Len(kept) < CacheMax
            /\ \A i \in DOMAIN OrderOf(t) : OrderOf(t)[i].tenant = t
            /\ \A i \in DOMAIN kept : kept[i].tenant = t
            /\ Evicted(t) \subseteq {OrderOf(t)[i] : i \in DOMAIN OrderOf(t)}
            /\ \A i \in DOMAIN OrderOf(t) : OrderOf(t)[i] \notin Evicted(t) =>
                 \E j \in DOMAIN kept : kept[j] = OrderOf(t)[i]
<1> DEFINE t == k.tenant  os == OrderOf(t)  x == Excess(t)
           kept == SubSeq(os, x + 1, Len(os))
<1>1. Share \in 1 .. CacheMax /\ CacheMax \in Nat BY ShareType, CorrelatorAssumption DEF CacheOk
<1>2. os \in Seq(CacheKeys) /\ \A i \in DOMAIN os : os[i].tenant = t
  <2>1. CASE t \in DOMAIN order BY <2>1 DEF CacheOk, OrderOf
  <2>2. CASE t \notin DOMAIN order BY <2>2 DEF OrderOf
  <2> QED BY <2>1, <2>2
<1>3. x = IF Len(os) >= Share THEN Len(os) - Share + 1 ELSE 0 BY DEF Excess
<1>4. Evicted(t) = {os[i] : i \in 1 .. x} BY DEF Evicted
<1> HIDE DEF t, os, x
<1>5. Len(os) \in Nat /\ DOMAIN os = 1 .. Len(os) BY <1>2
<1>6. x \in 0 .. Len(os) /\ Len(os) - x < Share BY <1>1, <1>3, <1>5
<1>7. kept \in Seq(CacheKeys) /\ Len(kept) = Len(os) - x /\ \A i \in 1 .. Len(kept) : kept[i] = os[x + i]
  <2> DEFINE m == Len(os)
  <2>1. m \in Nat /\ x \in 0 .. m /\ \A i \in 1 .. m : os[i] \in CacheKeys BY <1>2, <1>5, <1>6
  <2> HIDE DEF m
  <2>2. x + 1 \in Int /\ m \in Int /\ (\A i \in x + 1 .. m : os[i] \in CacheKeys) BY <2>1
  <2> DEFINE first == x + 1
  <2> HIDE DEF first
  <2>3. /\ SubSeq(os, first, m) \in Seq(CacheKeys)
        /\ Len(SubSeq(os, first, m)) = IF first <= m THEN m - first + 1 ELSE 0
        /\ \A i \in 1 .. m - first + 1 : SubSeq(os, first, m)[i] = os[first + i - 1]
    BY <2>2, SubSeqProperties DEF first
  <2>4. kept = SubSeq(os, first, m) BY DEF first, m
  <2> HIDE DEF kept
  <2>5. Len(kept) = m - x BY <2>1, <2>3, <2>4 DEF first
  <2>6. \A i \in 1 .. Len(kept) : kept[i] = os[x + i]
    <3>1. ASSUME NEW i \in 1 .. Len(kept) PROVE kept[i] = os[x + i]
      <4>1. i \in 1 .. m - first + 1 /\ first + i - 1 = x + i BY <2>1, <2>5 DEF first
      <4>2. kept[i] = os[first + i - 1] BY <2>3, <2>4, <4>1
      <4> QED BY <4>1, <4>2
    <3> QED BY <3>1
  <2> QED BY <2>3, <2>4, <2>5, <2>6 DEF m
<1> HIDE DEF kept
<1>8. DOMAIN kept = 1 .. Len(kept) /\ Len(kept) < CacheMax BY <1>1, <1>6, <1>7
<1>9. ASSUME NEW i \in DOMAIN kept PROVE kept[i].tenant = t
  <2>1. x + i \in DOMAIN os /\ kept[i] = os[x + i] BY <1>5, <1>6, <1>7, <1>8
  <2> QED BY <2>1, <1>2
<1>10. Evicted(t) \subseteq {os[i] : i \in DOMAIN os} BY <1>4, <1>5, <1>6
<1>11. ASSUME NEW i \in DOMAIN os, os[i] \notin Evicted(t) PROVE \E j \in DOMAIN kept : kept[j] = os[i]
  <2>1. i > x BY <1>4, <1>5, <1>6, <1>11
  <2>2. i - x \in DOMAIN kept /\ kept[i - x] = os[i] BY <2>1, <1>5, <1>6, <1>7, <1>8
  <2> QED BY <2>2
<1> QED BY <1>2, <1>7, <1>8, <1>9, <1>10, <1>11 DEF kept, os, t, x

\* An answer stored under its key.
LEMMA CacheSetKeeps ==
  ASSUME CacheOk, NEW k \in CacheKeys, NEW e, OwedTo(k, e.found, e.failed), CacheSet(k, e)
  PROVE  CacheOk'
<1> DEFINE t == k.tenant
           os == OrderOf(t)
           old == SubSeq(os, Excess(t) + 1, Len(os))
           keys == Append(old, k)
           kept == IF Cached(k) THEN cache ELSE Dropped(cache, Evicted(t))
<1>1. /\ cache' = [x \in DOMAIN kept \cup {k} |-> IF x = k THEN e ELSE kept[x]]
      /\ order' = IF Cached(k) THEN order
                  ELSE [u \in DOMAIN order \cup {t} |-> IF u = t THEN keys ELSE order[u]]
  BY DEF CacheSet
<1>2. DOMAIN kept \subseteq DOMAIN cache /\ \A x \in DOMAIN kept : kept[x] = cache[x] BY DEF Dropped
<1>k. ~Cached(k) => \A x \in DOMAIN kept : x \notin Evicted(t) BY DEF Dropped
<1>e. /\ old \in Seq(CacheKeys) /\ Len(old) < CacheMax /\ CacheMax \in Nat
      /\ \A i \in DOMAIN old : old[i].tenant = t
      /\ \A i \in DOMAIN os : os[i] \notin Evicted(t) => \E j \in DOMAIN old : old[j] = os[i]
  BY Evicting, CorrelatorAssumption
<1>o. t \in DOMAIN order => os = order[t] BY DEF OrderOf
<1> HIDE DEF old, os, kept
<1>3. \A x \in DOMAIN cache' : x \in CacheKeys /\ OwedTo(x, cache'[x].found, cache'[x].failed)
  BY <1>1, <1>2 DEF CacheOk
<1>4. /\ keys \in Seq(CacheKeys) /\ Len(keys) <= CacheMax /\ keys[Len(keys)] = k /\ Len(keys) \in DOMAIN keys
      /\ \A i \in DOMAIN keys : keys[i].tenant = t
      /\ \A i \in DOMAIN old : i \in DOMAIN keys /\ keys[i] = old[i]
  BY <1>e
<1> HIDE DEF keys
<1>5. CASE Cached(k)
  <2>1. order' = order BY <1>1, <1>5
  <2>2. DOMAIN cache' \subseteq DOMAIN cache BY <1>1, <1>2, <1>5 DEF Cached
  <2> QED BY <2>1, <2>2, <1>3 DEF CacheOk
<1>6. CASE ~Cached(k)
  <2>1. DOMAIN order' = DOMAIN order \cup {t} /\ \A u \in DOMAIN order' : order'[u] = IF u = t THEN keys ELSE order[u]
    BY <1>1, <1>6
  <2>2. IsFiniteSet(DOMAIN order') BY <2>1, FS_AddElement DEF CacheOk
  <2>3. \A u \in DOMAIN order' : /\ order'[u] \in Seq(CacheKeys) /\ Len(order'[u]) <= CacheMax
                                 /\ \A i \in DOMAIN order'[u] : order'[u][i].tenant = u
    BY <2>1, <1>4 DEF CacheOk
  <2>4. ASSUME NEW x \in DOMAIN cache'
        PROVE  x.tenant \in DOMAIN order' /\ \E i \in DOMAIN order'[x.tenant] : order'[x.tenant][i] = x
    <3>1. CASE x = k
      <4>1. order'[t] = keys /\ t \in DOMAIN order' BY <2>1
      <4> QED BY <3>1, <4>1, <1>4
    <3>2. CASE x # k
      <4>1. x \in DOMAIN kept /\ x \in DOMAIN cache BY <3>2, <2>4, <1>1, <1>2
      <4>2. PICK i \in DOMAIN order[x.tenant] : order[x.tenant][i] = x BY <4>1 DEF CacheOk
      <4>3. x.tenant \in DOMAIN order BY <4>1 DEF CacheOk
      <4>4. CASE x.tenant # t
        <5>1. order'[x.tenant] = order[x.tenant] /\ x.tenant \in DOMAIN order' BY <4>3, <4>4, <2>1
        <5> QED BY <5>1, <4>2
      <4>5. CASE x.tenant = t
        <5>1. order'[t] = keys /\ t \in DOMAIN order' BY <2>1
        <5>2. i \in DOMAIN os /\ os[i] = x /\ x \notin Evicted(t) BY <4>1, <4>2, <4>3, <4>5, <1>6, <1>k, <1>o
        <5>3. PICK j \in DOMAIN old : old[j] = x BY <5>2, <1>e
        <5> QED BY <5>1, <5>3, <4>5, <1>4
      <4> QED BY <4>4, <4>5
    <3> QED BY <3>1, <3>2
  <2> QED BY <2>2, <2>3, <2>4, <1>3 DEF CacheOk
<1> QED BY <1>5, <1>6

\* What a call stores is owed to its key.
LEMMA StoreCaches ==
  ASSUME CallsOk, NEW c \in Callers, Store(c)
  PROVE  LET k == KeyOf(call[c].req) IN k \in CacheKeys /\ \E e : OwedTo(k, e.found, e.failed) /\ CacheSet(k, e)
<1> DEFINE p == call[c]  r == p.req  f == Cut(r, p.found)  k == KeyOf(r)
           e == [found |-> f, failed |-> p.errs, at |-> cnow]
<1>1. CacheSet(k, e) BY DEF Store, Cut
<1>2. r \in Requests /\ Owed(r, f, p.errs) BY StoredOwed
<1>3. e.found = f /\ e.failed = p.errs OBVIOUS
<1> HIDE DEF e, f, p
<1>4. k \in CacheKeys /\ OwedTo(k, e.found, e.failed) BY <1>2, <1>3 DEF CacheKeys, OwedTo
<1> HIDE DEF k
<1> QED BY <1>1, <1>4 DEF k, p

\* The order and the cache stay together over an insertion, an eviction, an expiry.
THEOREM CacheInductive == CorrelatorInvariant /\ [CorrelatorNext]_correlatorVars => CacheOk'
<1> SUFFICES ASSUME CallsOk, CacheOk, [CorrelatorNext]_correlatorVars PROVE CacheOk'
  BY DEF CorrelatorInvariant
<1>1. ASSUME NEW c \in Callers, Look(c) PROVE CacheOk'
  <2>1. PICK k : cache' = IF Cached(k) /\ ~FreshEntry(k) THEN Dropped(cache, {k}) ELSE cache BY <1>1 DEF Look
  <2>2. DOMAIN cache' \subseteq DOMAIN cache /\ (\A x \in DOMAIN cache' : cache'[x] = cache[x]) /\ order' = order
    BY <2>1, <1>1 DEF Dropped, Look
  <2> QED BY <2>2 DEF CacheOk
<1>2. ASSUME NEW c \in Callers, Store(c) PROVE CacheOk'
  <2> DEFINE k == KeyOf(call[c].req)
  <2>1. k \in CacheKeys /\ \E e : OwedTo(k, e.found, e.failed) /\ CacheSet(k, e) BY <1>2, StoreCaches
  <2> HIDE DEF k
  <2> QED BY <2>1, CacheSetKeeps
<1>3. ASSUME NEW c \in Callers, TakeTenant(c) \/ TakeGlobal(c) \/ CheckBreaker(c) \/ AdapterFails(c) \/ AdapterAnswers(c) \/ ReleaseGlobal(c)
                            \/ ReleaseTenant(c) \/ Leave(c)
      PROVE  CacheOk'
  BY <1>3 DEF TakeTenant, TakeGlobal, CheckBreaker, AdapterFails, AdapterAnswers, ReleaseGlobal, ReleaseTenant, Leave, CacheOk
<1>4. CASE TickCorrelator \/ UNCHANGED correlatorVars BY <1>4 DEF TickCorrelator, correlatorVars, CacheOk
<1> QED BY <1>1, <1>2, <1>3, <1>4 DEF CorrelatorNext

\* Calls, slots and cache, at every point of every interleaving.
THEOREM CorrelatorInvariantHolds == CorrelatorSpec => []CorrelatorInvariant
<1>1. CorrelatorInit => CorrelatorInvariant
  <2> SUFFICES ASSUME CorrelatorInit PROVE CorrelatorInvariant OBVIOUS
  <2>1. \A c \in Callers : call[c] = Out /\ call[c].at = "out" BY DEF CorrelatorInit, Out
  <2>2. CallsOk BY <2>1 DEF CorrelatorInit, CallsOk, Calling
  <2>3. Running = {} /\ \A t \in Tenants : Admitted(t) = {} BY <2>1 DEF Running, Admitted
  <2>4. SlotsOk
    <3>1. /\ IsFiniteSet(Running) /\ Cardinality(Running) = 0
          /\ \A t \in Tenants : IsFiniteSet(Admitted(t)) /\ Cardinality(Admitted(t)) = 0
      BY <2>3, FS_EmptySet
    <3>2. {MaxPerTenant, MaxGlobal} \subseteq Nat BY CorrelatorAssumption
    <3>3. inflight = 0 /\ taken = [t \in Tenants |-> 0] BY DEF CorrelatorInit
    <3>4. taken = [t \in Tenants |-> Cardinality(Admitted(t))] BY <3>1, <3>3
    <3>5. \A t \in Tenants : taken[t] = 0 BY <3>3
    <3> QED BY <3>1, <3>2, <3>3, <3>4, <3>5 DEF SlotsOk, GlobalOk, TenantsOk
  <2>5. DOMAIN cache = {} /\ DOMAIN order = {} BY DEF CorrelatorInit, NoKeys
  <2>6. CacheOk BY <2>5, FS_EmptySet DEF CacheOk
  <2> QED BY <2>2, <2>4, <2>6 DEF CorrelatorInvariant
<1>2. CorrelatorInvariant /\ [CorrelatorNext]_correlatorVars => CorrelatorInvariant'
  BY CallsInductive, SlotsInductive, CacheInductive DEF CorrelatorInvariant
<1> QED BY <1>1, <1>2, PTL DEF CorrelatorSpec

\* However calls interleave between the two semaphores and whatever the adapters
\* do, a slot is held by every call between taking it and giving it back and by no
\* other, and every cached key is where its tenant's eviction finds it.  The lines
\* that a call answers with, cached or not, are of its own tenant and trace, and
\* the earliest of what the answering adapters hold; samples are so for some
\* request of that tenant, span id and window (acquire, cacheSet, LogsForTrace,
\* MetricsForSpan).
THEOREM LookUpsSound == CorrelatorSpec => []CorrelatorSound
<1>1. CorrelatorInvariant => CorrelatorSound
  <2> SUFFICES ASSUME CallsOk, SlotsOk, CacheOk PROVE CorrelatorSound BY DEF CorrelatorInvariant
  <2>1. SlotsAccounted BY DEF SlotsOk, GlobalOk, TenantsOk, SlotsAccounted
  <2>2. CacheAccounted BY DEF CacheOk, CacheAccounted, OrderOf
  <2>3. ASSUME NEW c \in Callers, call[c].at = "answered"
        PROVE  \E q \in Requests : /\ KeyOf(q) = KeyOf(call[c].req) /\ Owed(q, call[c].found, call[c].failed)
                                   /\ call[c].req.kind = "logs" => Owed(call[c].req, call[c].found, call[c].failed)
    <3>1. IsFinished(call[c]) BY <2>3, CallShapes
    <3>2. PICK q \in Requests : KeyOf(q) = KeyOf(call[c].req) /\ Owed(q, call[c].found, call[c].failed)
      BY <3>1 DEF IsFinished, OwedTo
    <3>3. call[c].req \in Requests BY <3>1 DEF IsFinished
    <3> QED BY <3>2, <3>3, KeyTells
  <2>4. OwnRecords BY <2>3 DEF OwnRecords
  <2> QED BY <2>1, <2>2, <2>4 DEF CorrelatorSound
<1> QED BY <1>1, CorrelatorInvariantHolds, PTL

\* An entry leaves the cache by expiry or because its own tenant inserts: the
\* order that eviction follows holds that tenant's keys only (cacheSet, cacheGet).
THEOREM EvictionsStayInTenant == CorrelatorSpec => EvictsOwnOnly
<1> DEFINE StaysFresh == \A k \in DOMAIN cache \ DOMAIN cache' :
                            \/ ~FreshEntry(k)
                            \/ \E j \in DOMAIN cache' \ DOMAIN cache : j.tenant = k.tenant
<1>1. CorrelatorInvariant /\ [CorrelatorNext]_correlatorVars => [StaysFresh]_correlatorVars
  <2> SUFFICES ASSUME CallsOk, CacheOk, CorrelatorNext, NEW k \in DOMAIN cache \ DOMAIN cache'
               PROVE  ~FreshEntry(k) \/ \E j \in DOMAIN cache' \ DOMAIN cache : j.tenant = k.tenant
    BY DEF CorrelatorInvariant
  <2>1. ASSUME NEW c \in Callers, Look(c) PROVE ~FreshEntry(k)
    <3>1. PICK j : cache' = IF Cached(j) /\ ~FreshEntry(j) THEN Dropped(cache, {j}) ELSE cache BY <2>1 DEF Look
    <3> QED BY <3>1 DEF Dropped
  <2>2. ASSUME NEW c \in Callers, Store(c)
        PROVE  \E j \in DOMAIN cache' \ DOMAIN cache : j.tenant = k.tenant
    <3> DEFINE r == KeyOf(call[c].req)
    <3>1. r \in CacheKeys BY <2>2, StoreCaches
    <3>2. PICK e : CacheSet(r, e) BY <2>2, StoreCaches
    <3> HIDE DEF r
    <3>3. ~Cached(r) /\ k \in Evicted(r.tenant) /\ r \in DOMAIN cache' BY <3>2 DEF CacheSet, Dropped
    <3>4. /\ \A i \in DOMAIN OrderOf(r.tenant) : OrderOf(r.tenant)[i].tenant = r.tenant
          /\ Evicted(r.tenant) \subseteq {OrderOf(r.tenant)[i] : i \in DOMAIN OrderOf(r.tenant)}
      BY <3>1, Evicting
    <3>5. k.tenant = r.tenant BY <3>3, <3>4
    <3> QED BY <3>3, <3>5 DEF Cached
  <2>3. ASSUME NEW c \in Callers, TakeTenant(c) \/ TakeGlobal(c) \/ CheckBreaker(c) \/ AdapterFails(c) \/ AdapterAnswers(c) \/ ReleaseGlobal(c)
                            \/ ReleaseTenant(c) \/ Leave(c)
        PROVE  cache' = cache
    BY <2>3 DEF TakeTenant, TakeGlobal, CheckBreaker, AdapterFails, AdapterAnswers, ReleaseGlobal, ReleaseTenant, Leave
  <2>4. TickCorrelator => cache' = cache BY DEF TickCorrelator
  <2> QED BY <2>1, <2>2, <2>3, <2>4 DEF CorrelatorNext
<1> QED BY <1>1, CorrelatorInvariantHolds, PTL DEF CorrelatorSpec, EvictsOwnOnly

-----------------------------------------------------------------------------
(* The baselines and their detectors.                                      *)

EntryFields == {"firstSeen", "updated", "global", "seasons"}
Entry(e) == DOMAIN e = EntryFields /\ e.firstSeen \in Nat /\ e.global.samples \in Nat

Baselines ==
  /\ IsFiniteSet(DOMAIN base) /\ Cardinality(DOMAIN base) <= MaxKeys
  /\ \A k \in DOMAIN base : Entry(base[k])

Ticks ==
  /\ dnow \in Nat /\ ticked \in BOOLEAN
  /\ consecutive \in [Kinds \X Keys -> Nat]

\* Since its last event a detector has counted at most one breach a tick.
Left == IF ticked THEN 0 ELSE 1
Of(e) == <<e.kind, e.key>>
Paced ==
  \A e \in events : e.at \in Nat /\ Of(e) \in Kinds \X Keys /\ consecutive[Of(e)] + e.at + Left <= dnow

DInv == Baselines /\ Ticks /\ Paced /\ ColdSuppressed /\ Debounced

\* At the start there is no entry, no count and no event.
LEMMA DetectionInits == DetectionInit => DInv
<1> SUFFICES ASSUME DetectionInit PROVE DInv OBVIOUS
<1>1. DOMAIN base = {} BY DEF DetectionInit
<1>2. Baselines BY <1>1, FS_EmptySet, DetectionAssumption DEF Baselines
<1> QED BY <1>2 DEF DInv, Ticks, Paced, ColdSuppressed, Debounced, DetectionInit

\* A bucket gives its key an entry, and no other key.
LEMMA ObservedEntries ==
  ASSUME Baselines, dnow \in Nat, NEW k \in Keys, NEW l, NEW kept \in SUBSET DOMAIN base
  PROVE  /\ DOMAIN Observed(k, l, kept) = kept \cup {k}
         /\ \A j \in kept \cup {k} : Entry(Observed(k, l, kept)[j])
<1> DEFINE e == IF k \in DOMAIN base THEN base[k] ELSE NewEntry
           n == [e EXCEPT !.updated = dnow, !.global = Updated(@, l), !.seasons[HourOf(dnow)] = Updated(@, l)]
<1>1. Entry(e)
  <2>1. Entry(NewEntry) BY DEF Entry, NewEntry, EntryFields, EmptySlot
  <2> QED BY <2>1 DEF Baselines
<1>2. Entry(n)
  <2>1. DOMAIN n = EntryFields BY <1>1 DEF Entry
  <2>2. n.firstSeen = e.firstSeen BY <1>1 DEF Entry, EntryFields
  <2>3. n.global = Updated(e.global, l) BY <1>1 DEF Entry, EntryFields
  <2>4. n.global.samples = e.global.samples + 1 BY <2>3 DEF Updated
  <2> QED BY <2>1, <2>2, <2>4, <1>1 DEF Entry
<1>3. Observed(k, l, kept) = [j \in kept \cup {k} |-> IF j = k THEN n ELSE base[j]] BY DEF Observed
<1> QED BY <1>2, <1>3 DEF Baselines

\* A closed bucket gives its key an entry, and makes room for it.
LEMMA ObserveStep ==
  ASSUME DInv, NEW k \in Keys, NEW l \in Loads, Observe(k, l)
  PROVE  DInv'
<1>0. Baselines /\ Ticks BY DEF DInv
<1>1. \E kept \in SUBSET DOMAIN base : base' = Observed(k, l, kept) /\ Cardinality(kept \cup {k}) <= MaxKeys
  <2>f. IsFiniteSet(DOMAIN base) /\ Cardinality(DOMAIN base) <= MaxKeys BY <1>0 DEF Baselines
  <2>1. CASE k \in DOMAIN base
    <3>1. DOMAIN base \cup {k} = DOMAIN base BY <2>1
    <3>2. base' = Observed(k, l, DOMAIN base) BY <2>1 DEF Observe
    <3>3. Cardinality(DOMAIN base \cup {k}) <= MaxKeys BY <3>1, <2>f
    <3>4. DOMAIN base \in SUBSET DOMAIN base OBVIOUS
    <3> QED BY <3>2, <3>3, <3>4, Zenon
  <2>2. CASE k \notin DOMAIN base /\ Cardinality(DOMAIN base) < MaxKeys
    <3>1. base' = Observed(k, l, DOMAIN base) BY <2>2 DEF Observe
    <3>2. Cardinality(DOMAIN base \cup {k}) = Cardinality(DOMAIN base) + 1 BY <2>2, <2>f, FS_AddElement
    <3>3. Cardinality(DOMAIN base) \in Nat BY <2>f, FS_CardinalityType
    <3>4. Cardinality(DOMAIN base \cup {k}) <= MaxKeys BY <3>2, <3>3, <2>2, DetectionAssumption
    <3>5. DOMAIN base \in SUBSET DOMAIN base OBVIOUS
    <3> QED BY <3>1, <3>4, <3>5, Zenon
  <2>3. CASE k \notin DOMAIN base /\ ~(Cardinality(DOMAIN base) < MaxKeys)
    <3>1. PICK v \in Victims : base' = Observed(k, l, DOMAIN base \ {v}) BY <2>3 DEF Observe
    <3>2. v \in DOMAIN base BY DEF Victims
    <3> DEFINE U == DOMAIN base \ {v}
    <3>3. IsFiniteSet(U) /\ Cardinality(U) = Cardinality(DOMAIN base) - 1 BY <2>f, <3>2, FS_RemoveElement
    <3>4. Cardinality(U \cup {k}) = Cardinality(U) + 1 BY <2>3, <3>3, FS_AddElement
    <3>5. Cardinality(DOMAIN base) \in Nat BY <2>f, FS_CardinalityType
    <3>6. Cardinality(U \cup {k}) <= MaxKeys BY <3>3, <3>4, <3>5, <2>f
    <3>7. U \in SUBSET DOMAIN base OBVIOUS
    <3> QED BY <3>1, <3>6, <3>7, Zenon
  <2> QED BY <2>1, <2>2, <2>3
<1>2. PICK kept \in SUBSET DOMAIN base : base' = Observed(k, l, kept) /\ Cardinality(kept \cup {k}) <= MaxKeys BY <1>1
<1>3. DOMAIN base' = kept \cup {k} /\ \A j \in kept \cup {k} : Entry(base'[j])
  BY <1>0, <1>2, ObservedEntries DEF Ticks
<1>4. IsFiniteSet(kept \cup {k})
  <2>1. IsFiniteSet(kept) BY <1>0, FS_Subset DEF Baselines
  <2> QED BY <2>1, FS_AddElement
<1>5. Baselines' BY <1>2, <1>3, <1>4 DEF Baselines
<1> QED BY <1>5 DEF DInv, Observe, Ticks, Paced, Left, ColdSuppressed, Debounced

\* What fires has a baseline that is not cold, and a full debounce.
LEMMA FiresFacts ==
  ASSUME DInv, NEW x \in Kinds \X Keys, Fires(x)
  PROVE  /\ Of(Event(x)) = x /\ Event(x).at = dnow /\ consecutive[x] + 1 >= DebounceTicks
         /\ Event(x).samples >= WarmupSamples \/ (~Event(x).cold /\ Event(x).provisional)
         /\ x[2] \in Judged
<1> DEFINE k == x[2]  e == Event(x)
<1>1. e = [kind |-> x[1], key |-> k, at |-> dnow, samples |-> base[k].global.samples,
           cold |-> dnow - base[k].firstSeen <= MaxColdStart, provisional |-> Get(k).provisional]
  BY DEF Event
<1>2. k \in DOMAIN base /\ Get(k).known BY DEF Fires, Breach
<1>3. State(k) # "cold" BY <1>2 DEF Get
<1>4. Get(k).provisional = (State(k) \in {"globalOnly", "decreed"}) BY DEF Get
<1>5. base[k].global.samples \in Nat /\ base[k].firstSeen \in Nat /\ dnow \in Nat
  BY <1>2 DEF DInv, Baselines, Entry, Ticks
<1>8. Of(e) = x /\ consecutive[x] + 1 >= DebounceTicks /\ k \in Judged BY <1>1 DEF Fires, Of
<1>6. CASE base[k].global.samples < WarmupSamples
  <2>1. State(k) = "decreed" /\ dnow - base[k].firstSeen > MaxColdStart BY <1>3, <1>6 DEF State
  <2>2. ~(dnow - base[k].firstSeen <= MaxColdStart) BY <2>1, <1>5, DetectionAssumption
  <2>6. e.cold = (dnow - base[k].firstSeen <= MaxColdStart) BY <1>1
  <2>3. ~e.cold BY <2>2, <2>6, Zenon
  <2>4. Get(k).provisional BY <2>1, <1>4
  <2>5. e.provisional BY <2>4, <1>1
  <2> QED BY <2>3, <2>5, <1>1, <1>8
<1>7. CASE ~(base[k].global.samples < WarmupSamples)
  <2>1. base[k].global.samples >= WarmupSamples BY <1>5, <1>7, DetectionAssumption
  <2> QED BY <2>1, <1>1, <1>8
<1> QED BY <1>6, <1>7

\* A tick fires a detector only from a count that then starts again.
LEMMA EvaluateStep ==
  ASSUME DInv, EvaluateKeys
  PROVE  DInv'
<1> DEFINE new == {Event(x) : x \in {y \in Kinds \X Keys : Fires(y)}}
<1>0. /\ ~ticked /\ ticked' = TRUE /\ events' = events \cup new
      /\ dnow' = dnow /\ base' = base
      /\ consecutive' = [x \in Kinds \X Keys |-> IF x[2] \notin Judged THEN consecutive[x]
                           ELSE IF Breach(x[1], x[2]) /\ ~Fires(x) THEN consecutive[x] + 1 ELSE 0]
  BY DEF EvaluateKeys
<1>t. dnow \in Nat /\ \A x \in Kinds \X Keys : consecutive[x] \in Nat BY DEF DInv, Ticks
<1>1. Baselines' BY <1>0 DEF DInv, Baselines
<1>2. Ticks' BY <1>0, <1>t DEF Ticks
<1>3. ASSUME NEW e \in new
      PROVE  /\ Of(e) \in Kinds \X Keys /\ Fires(Of(e)) /\ e.at = dnow
             /\ consecutive[Of(e)] + 1 >= DebounceTicks /\ Of(e)[2] \in Judged
             /\ e.samples >= WarmupSamples \/ (~e.cold /\ e.provisional)
  <2>1. PICK x \in Kinds \X Keys : Fires(x) /\ e = Event(x) OBVIOUS
  <2> QED BY <2>1, FiresFacts
<1>4. ASSUME NEW e \in events PROVE e.at \in Nat /\ Of(e) \in Kinds \X Keys /\ consecutive[Of(e)] + e.at + 1 <= dnow
  BY <1>0 DEF DInv, Paced, Left
<1> HIDE DEF new
<1>5. Paced'
  <2>1. ASSUME NEW e \in new PROVE consecutive'[Of(e)] + e.at <= dnow
    <3>1. consecutive'[Of(e)] = 0 BY <1>0, <1>3
    <3> QED BY <3>1, <1>3, <1>t
  <2>2. ASSUME NEW e \in events PROVE consecutive'[Of(e)] + e.at <= dnow
    <3> DEFINE c == consecutive[Of(e)]  d == consecutive'[Of(e)]
    <3>1. d = c \/ d = c + 1 \/ d = 0 BY <1>0, <1>4
    <3>2. c \in Nat BY <1>t, <1>4
    <3> HIDE DEF c, d
    <3>3. c + e.at + 1 <= dnow /\ e.at \in Nat BY <1>4 DEF c
    <3>4. d + e.at <= dnow BY <3>1, <3>2, <3>3, <1>t
    <3> QED BY <3>4 DEF d
  <2>3. ASSUME NEW e \in events' PROVE e.at \in Nat /\ Of(e) \in Kinds \X Keys /\ consecutive'[Of(e)] + e.at + 0 <= dnow'
    <3>1. CASE e \in new
      <4>1. e.at = dnow /\ Of(e) \in Kinds \X Keys /\ consecutive'[Of(e)] + e.at <= dnow BY <3>1, <1>3, <2>1
      <4>2. consecutive'[Of(e)] \in Nat BY <4>1, <1>2 DEF Ticks
      <4> QED BY <4>1, <4>2, <1>0, <1>t
    <3>2. CASE e \in events
      <4>1. e.at \in Nat /\ Of(e) \in Kinds \X Keys /\ consecutive'[Of(e)] + e.at <= dnow BY <3>2, <1>4, <2>2
      <4>2. consecutive'[Of(e)] \in Nat BY <4>1, <1>2 DEF Ticks
      <4> QED BY <4>1, <4>2, <1>0, <1>t
    <3> QED BY <3>1, <3>2, <1>0
  <2> QED BY <2>3, <1>0 DEF Paced, Left, Of
<1>6. ColdSuppressed' BY <1>0, <1>3 DEF DInv, ColdSuppressed
<1>7. Debounced'
  <2>1. ASSUME NEW d \in events', NEW e \in events', d.kind = e.kind, d.key = e.key, d.at < e.at
        PROVE  e.at - d.at >= DebounceTicks
    <3>0. Of(d) = Of(e) BY <2>1 DEF Of
    <3>1. CASE d \in events /\ e \in events BY <2>1, <3>1 DEF DInv, Debounced
    <3>2. CASE d \in new
      <4>1. e.at <= dnow /\ e.at \in Nat
        <5>1. CASE e \in new BY <5>1, <1>3, <1>t
        <5>2. CASE e \in events BY <5>2, <1>4, <1>t
        <5> QED BY <5>1, <5>2, <1>0
      <4> QED BY <4>1, <3>2, <1>3, <2>1, <1>t
    <3>3. CASE d \in events /\ e \in new
      <4>1. consecutive[Of(d)] + 1 >= DebounceTicks /\ e.at = dnow BY <3>0, <3>3, <1>3
      <4>2. consecutive[Of(d)] + d.at + 1 <= dnow /\ consecutive[Of(d)] \in Nat /\ d.at \in Nat BY <3>3, <1>4, <1>t
      <4> QED BY <4>1, <4>2, <1>t, DetectionAssumption
    <3> QED BY <3>1, <3>2, <3>3, <1>0
  <2> QED BY <2>1 DEF Debounced
<1> QED BY <1>1, <1>2, <1>5, <1>6, <1>7 DEF DInv

\* The next bucket lets every detector count once more.
LEMMA NextBucketStep ==
  ASSUME DInv, NextBucket
  PROVE  DInv'
<1>1. dnow \in Nat /\ \A x \in Kinds \X Keys : consecutive[x] \in Nat BY DEF DInv, Ticks
<1>2. Baselines' BY DEF DInv, NextBucket, Baselines
<1>4. Ticks'
  <2>1. dnow' \in Nat /\ consecutive' = consecutive BY <1>1 DEF NextBucket
  <2>2. ticked' = FALSE /\ Ticks BY DEF DInv, NextBucket
  <2> QED BY <2>1, <2>2 DEF Ticks
<1>3. Paced'
  <2>1. ASSUME NEW e \in events PROVE e.at \in Nat /\ Of(e) \in Kinds \X Keys /\ consecutive[Of(e)] + e.at + 1 <= dnow + 1
    <3>1. e.at \in Nat /\ Of(e) \in Kinds \X Keys /\ consecutive[Of(e)] + e.at + 0 <= dnow BY DEF DInv, Paced, Left, NextBucket
    <3> QED BY <3>1, <1>1
  <2> QED BY <2>1 DEF NextBucket, Paced, Left, Of
<1> QED BY <1>2, <1>3, <1>4 DEF DInv, NextBucket, ColdSuppressed, Debounced

\* Entries stay within the bound and counts behind the events: the two facts that
\* the detectors' promises follow from.
THEOREM DetectionInvariant == DetectionSpec => []DInv
<1>1. DInv /\ [DetectionNext]_detectionVars => DInv'
  <2> SUFFICES ASSUME DInv, [DetectionNext]_detectionVars PROVE DInv' OBVIOUS
  <2>1. CASE \E k \in Keys, l \in Loads : Observe(k, l) BY <2>1, ObserveStep
  <2>2. CASE EvaluateKeys BY <2>2, EvaluateStep
  <2>3. CASE NextBucket BY <2>3, NextBucketStep
  <2>4. CASE UNCHANGED detectionVars
    BY <2>4 DEF detectionVars, DInv, Baselines, Ticks, Paced, Left, ColdSuppressed, Debounced
  <2> QED BY <2>1, <2>2, <2>3, <2>4 DEF DetectionNext
<1> QED BY <1>1, DetectionInits, PTL DEF DetectionSpec

\* However traffic, evictions and ticks interleave, a tenant holds at most MaxKeys
\* baselines, nothing fires on a cold one unless its key has been known for
\* max_cold_start, and then provisionally, and two events of one detector about
\* one key are DebounceTicks ticks apart (Observe, evictOne, Evaluate).
THEOREM DetectorsSound == DetectionSpec => []DetectionSound
<1>1. DInv => DetectionSound BY DEF DInv, Baselines, DetectionSound, KeysBounded
<1> QED BY <1>1, DetectionInvariant, PTL

-----------------------------------------------------------------------------
(* The doors.                                                              *)

\* The capability that a route asks for is the one that each of its operations needs.
LEMMA RouteCaps ==
  ASSUME NEW r \in DOMAIN Routes, NEW o \in Ops(r)
  PROVE  Routes[r].cap = Needs(o)
<1>1. DOMAIN Reads = {"overview", "search_traces", "get_trace", "topology", "incidents", "investigation"} BY DEF Reads
<1>2. DOMAIN InvestigationRoutes = {"replay", "correct"} BY DEF InvestigationRoutes
<1>3. DOMAIN ActionRoutes = {"list_actions", "propose", "approve", "rollback"} BY DEF ActionRoutes
<1>4. /\ InvestigationRoutes["replay"].cap = "investigation:replay" /\ InvestigationRoutes["correct"].cap = "investigation:correct"
      /\ ActionRoutes["propose"].cap = "remediation_action:propose" /\ ActionRoutes["approve"].cap = "remediation_action:approve"
      /\ ActionRoutes["rollback"].cap = "remediation_action:approve" /\ ActionRoutes["list_actions"].cap = "telemetry:read"
  BY DEF R, InvestigationRoutes, ActionRoutes
<1>5. \A q \in DOMAIN Reads : Reads[q].cap = "telemetry:read" BY <1>1 DEF R, Reads
<1>6. Routes[r] = IF r \in DOMAIN Reads THEN Reads[r] ELSE IF r \in {"replay", "correct"} THEN InvestigationRoutes[r] ELSE ActionRoutes[r]
  BY <1>2 DEF Routes
<1>7. r \in DOMAIN Reads \/ r \in {"replay", "correct", "list_actions", "propose", "approve", "rollback"}
  BY <1>1, <1>2, <1>3 DEF Routes
<1>8. CASE r \in DOMAIN Reads
  <2>1. o \in {"incidents", "query_red", "search_traces", "get_trace", "topology", "investigation"} BY <1>1, <1>8 DEF Ops
  <2>2. Needs(o) = "telemetry:read" BY <2>1 DEF Needs
  <2> QED BY <2>2, <1>5, <1>6, <1>8
<1>9. CASE r \notin DOMAIN Reads
  <2>1. o = r BY <1>1, <1>9 DEF Ops
  <2>2. Routes[r] = IF r \in {"replay", "correct"} THEN InvestigationRoutes[r] ELSE ActionRoutes[r] BY <1>6, <1>9
  <2> QED BY <2>1, <2>2, <1>4, <1>7, <1>9 DEF Needs
<1> QED BY <1>8, <1>9

\* The calls of a request, for a subject that holds what they need.
LEMMA CallsChecked ==
  ASSUME NEW s, NEW door, NEW calls, Known(s),
         \A o \in calls : door # "chat" \/ o \in Gated => "authz" \in wired /\ Needs(o) \in granted[s],
         did' = CallsOf(s, door, calls), wired' = wired
  PROVE  EveryDoorChecks'
<1>1. ASSUME NEW c \in did'
      PROVE  /\ "auth" \in wired /\ c.tenant # None
             /\ c.door # "chat" \/ c.op \in Gated => "authz" \in wired /\ Needs(c.op) \in c.held
  <2>1. PICK o \in calls : c = [op |-> o, door |-> door, tenant |-> TenantOf[s], held |-> granted[s]] BY DEF CallsOf
  <2>2. c.op = o /\ c.tenant = TenantOf[s] /\ c.door = door /\ c.held = granted[s] BY <2>1
  <2> QED BY <2>2 DEF Known
<1> QED BY <1>1 DEF EveryDoorChecks

\* A refusal and a plain call claim nothing about an intent.
Plain == reply' = [is |-> "called"] \/ \E why \in {"unauthenticated", "forbidden", "unavailable", "invalid", "unimplemented"} : reply' = [is |-> why]

\* A reply that carries no intent keeps both promises about answers.
LEMMA PlainReply ==
  ASSUME Plain
  PROVE  NoSilentGuess' /\ ActsOnTheClearest'
<1>1. reply'.is \notin {"answered", "clarifying"} BY DEF Plain
<1> QED BY <1>1 DEF NoSilentGuess, ActsOnTheClearest

\* A refusal calls nothing and carries no intent.
LEMMA RefusedSound ==
  ASSUME NEW why \in {"unauthenticated", "forbidden", "unavailable", "invalid", "unimplemented"}, Refused(why)
  PROVE  GatewaySound'
<1>1. NoSilentGuess' /\ ActsOnTheClearest' BY PlainReply DEF Refused, Plain
<1>2. EveryDoorChecks' BY DEF EveryDoorChecks, Refused
<1> QED BY <1>1, <1>2 DEF GatewaySound

\* A request over HTTP.
LEMMA RestStep ==
  ASSUME NEW s \in Subjects, NEW r \in DOMAIN Routes, NEW b \in BOOLEAN, Rest(s, r, b)
  PROVE  GatewaySound'
<1>1. CASE \E why \in {"unauthenticated", "forbidden", "unavailable", "invalid", "unimplemented"} : Refused(why)
  BY <1>1, RefusedSound
<1>2. CASE Known(s) /\ Can(s, Routes[r].cap) /\ Calls(s, "rest", Ops(r))
  <2>1. \A o \in Ops(r) : "authz" \in wired /\ Needs(o) \in granted[s] BY <1>2, RouteCaps DEF Can
  <2>2. wired' = wired BY DEF Rest
  <2>5. did' = CallsOf(s, "rest", Ops(r)) BY <1>2 DEF Calls
  <2> DEFINE calls == Ops(r)  door == "rest"
  <2> HIDE DEF calls, door
  <2>6. did' = CallsOf(s, door, calls) /\ \A o \in calls : "authz" \in wired /\ Needs(o) \in granted[s]
    BY <2>1, <2>5 DEF calls, door
  <2>3. EveryDoorChecks' BY <1>2, <2>2, <2>6, CallsChecked
  <2>4. NoSilentGuess' /\ ActsOnTheClearest' BY <1>2, PlainReply DEF Calls, Plain
  <2> QED BY <2>3, <2>4 DEF GatewaySound
<1>3. \/ \E why \in {"unauthenticated", "forbidden", "unavailable", "invalid", "unimplemented"} : Refused(why)
      \/ Known(s) /\ Can(s, Routes[r].cap) /\ Calls(s, "rest", Ops(r))
  BY DEF Rest
<1> QED BY <1>1, <1>2, <1>3

\* A request over MCP.
LEMMA McpStep ==
  ASSUME NEW s \in Subjects, NEW t \in DOMAIN Tools, NEW b \in BOOLEAN, Mcp(s, t, b)
  PROVE  GatewaySound'
<1>1. CASE \E why \in {"unauthenticated", "forbidden", "unavailable", "invalid", "unimplemented"} : Refused(why)
  BY <1>1, RefusedSound
<1>2. CASE Known(s) /\ Can(s, CapabilityForRole[Tools[t].role]) /\ t \in Implemented /\ Calls(s, "mcp", {t})
  <2> DEFINE calls == {t}  door == "mcp"
  <2>1. CapabilityForRole[Tools[t].role] = "telemetry:read" BY <1>2 DEF Implemented, Tools, T, CapabilityForRole
  <2>7. Needs(t) = "telemetry:read" BY <1>2 DEF Implemented, Needs
  <2>2. wired' = wired BY DEF Mcp
  <2>5. did' = CallsOf(s, door, calls) BY <1>2 DEF Calls
  <2>6. \A o \in calls : "authz" \in wired /\ Needs(o) \in granted[s] BY <1>2, <2>1, <2>7 DEF Can
  <2> HIDE DEF calls, door
  <2>3. EveryDoorChecks' BY <1>2, <2>2, <2>5, <2>6, CallsChecked
  <2>4. NoSilentGuess' /\ ActsOnTheClearest' BY <1>2, PlainReply DEF Calls, Plain
  <2> QED BY <2>3, <2>4 DEF GatewaySound
<1>3. \/ \E why \in {"unauthenticated", "forbidden", "unavailable", "invalid", "unimplemented"} : Refused(why)
      \/ Known(s) /\ Can(s, CapabilityForRole[Tools[t].role]) /\ t \in Implemented /\ Calls(s, "mcp", {t})
  BY DEF Mcp
<1> QED BY <1>1, <1>2, <1>3

-----------------------------------------------------------------------------
(* Questions.                                                              *)

\* The better of two intents is a matter of confidence, then of order.
LEMMA FirstAhead ==
  ASSUME NEW x \in Texts, NEW S \in SUBSET DOMAIN x.matches, S # {}
  PROVE  First(x, S) \in S /\ \A j \in S \ {First(x, S)} : Ahead(x, First(x, S), j)
<1> DEFINE conf(k) == Confidence(x.matches[k])
           ahead == {p \in S \X S : conf(p[1]) > conf(p[2]) \/ (conf(p[1]) = conf(p[2]) /\ Index(p[1]) < Index(p[2]))}
           kinds == {IntentKinds[i] : i \in DOMAIN IntentKinds}
<1>1. S \subseteq kinds /\ \A k \in S : x.matches[k] \in Nat BY GatewayAssumption
<1>2. IsFiniteSet(S)
  <2>1. DOMAIN IntentKinds = 1 .. 10 BY DEF IntentKinds
  <2>2. IsFiniteSet(DOMAIN IntentKinds)
    <3> DEFINE one == 1  ten == 10
    <3>1. one \in Int /\ ten \in Int /\ DOMAIN IntentKinds = one .. ten BY <2>1
    <3> HIDE DEF one, ten
    <3> QED BY <3>1, FS_Interval
  <2>3. IntentKinds \in Surjection(DOMAIN IntentKinds, kinds)
    <3>1. IntentKinds \in [DOMAIN IntentKinds -> kinds] BY DEF IntentKinds
    <3> QED BY <3>1 DEF Surjection
  <2>4. IsFiniteSet(kinds) BY <2>2, <2>3, FS_Surjection
  <2> QED BY <2>4, <1>1, FS_Subset
<1>3. \A k \in S : Index(k) \in DOMAIN IntentKinds /\ IntentKinds[Index(k)] = k BY <1>1 DEF Index
<1>4. \A j, k \in S : Index(j) = Index(k) => j = k BY <1>3
<1>5. \A k \in S : Index(k) \in Int
  <2>1. DOMAIN IntentKinds \subseteq Int BY DEF IntentKinds
  <2> QED BY <2>1, <1>3
<1>6. \A k \in S : conf(k) \in Int BY <1>1 DEF Confidence
<1>a. \A j, k \in S : Ahead(x, j, k) <=> (conf(j) > conf(k) \/ (conf(j) = conf(k) /\ Index(j) < Index(k)))
  BY DEF Ahead
<1> HIDE DEF conf
<1>7. \A y \in S : <<y, y>> \notin ahead BY <1>5, <1>6
<1>8. \A a, b, c \in S : <<a, b>> \in ahead /\ <<b, c>> \in ahead => <<a, c>> \in ahead BY <1>5, <1>6
<1>9. \A j, k \in S : <<j, k>> \notin ahead /\ j # k => Ahead(x, k, j) BY <1>4, <1>5, <1>6, <1>a
<1> HIDE DEF ahead
<1>10. PICK m \in S : \A j \in S : <<j, m>> \notin ahead BY <1>2, <1>7, <1>8, LeastExists
<1>11. \A j \in S \ {m} : Ahead(x, m, j) BY <1>9, <1>10
<1>12. \E k \in S : \A j \in S \ {k} : Ahead(x, k, j) BY <1>11
<1> QED BY <1>12 DEF First

\* A gap wide enough for the threshold is one of three priorities and more.
LEMMA Gap ==
  ASSUME NEW p \in Nat, NEW q \in Nat, NEW r \in Nat, Confidence(r) <= Confidence(q), ~TooClose(p, q)
  PROVE  p > r + 2
<1>1. Confidence(p) - Confidence(q) >= 15 BY DEF TooClose, Confidence
<1>2. Confidence(p) - Confidence(r) >= 15 BY <1>1 DEF Confidence
<1> QED BY <1>2 DEF Confidence

\* What Interpret settles on is the clearest intent of the text.
LEMMA Interpreted ==
  ASSUME NEW x \in Texts, NEW turns, NEW focus, Interpret(x, turns, focus).kind # "unknown"
  PROVE  LET in == Interpret(x, turns, focus) IN
         /\ Named(x) # None => in.service = Named(x) \/ (in.service = None /\ in.kind \notin Follows \cup DOMAIN Gate)
         /\ in.fuzzy <=> Named(x) # None /\ in.service = Named(x) /\ ~Exact(x)
         /\ \A k \in DOMAIN x.matches \ {in.kind} : x.matches[in.kind] > x.matches[k] + 2
<1> DEFINE in == Interpret(x, turns, focus)
           D == DOMAIN x.matches
           k == First(x, D)
           rest == D \ {k}
           service == ServiceFor(x, k, turns, focus)
<1>1. D # {} BY DEF Interpret
<1>2. ~(rest # {} /\ TooClose(x.matches[k], x.matches[First(x, rest)])) BY <1>1 DEF Interpret
<1>3. in.kind = k /\ in.service = service /\ in.fuzzy = (UsesService(x, k, focus) /\ Named(x) # None /\ ~Exact(x))
  BY <1>1, <1>2 DEF Interpret
<1>4. Named(x) # None => service = IF UsesService(x, k, focus) THEN Named(x) ELSE None BY DEF ServiceFor
<1>7. k \in Follows \cup DOMAIN Gate => UsesService(x, k, focus)
  <2> HIDE DEF k
  <2> QED BY DEF UsesService, Follows, Gate
<1>n. \A j \in D : x.matches[j] \in Nat BY GatewayAssumption
<1>5. k \in D BY <1>1, FirstAhead
<1>6. ASSUME NEW j \in rest PROVE x.matches[k] > x.matches[j] + 2
  <2> DEFINE m == First(x, rest)
  <2>1. rest \in SUBSET D /\ rest # {} BY <1>6
  <2> HIDE DEF rest, k
  <2>2. m \in rest /\ \A i \in rest \ {m} : Ahead(x, m, i) BY <2>1, FirstAhead
  <2>3. Confidence(x.matches[j]) <= Confidence(x.matches[m])
    <3>1. x.matches[j] \in Nat /\ x.matches[m] \in Nat BY <1>n, <1>6, <2>1, <2>2
    <3>2. Confidence(x.matches[j]) \in Int /\ Confidence(x.matches[m]) \in Int BY <3>1 DEF Confidence
    <3> QED BY <3>2, <2>2, <1>6 DEF Ahead
  <2>4. ~TooClose(x.matches[k], x.matches[m]) BY <1>2, <2>1
  <2>5. x.matches[k] \in Nat /\ x.matches[m] \in Nat /\ x.matches[j] \in Nat BY <1>n, <1>5, <1>6, <2>1, <2>2
  <2> QED BY <2>3, <2>4, <2>5, Gap
<1> HIDE DEF in, k, service
<1>8. in.fuzzy <=> Named(x) # None /\ in.service = Named(x) /\ ~Exact(x) BY <1>3, <1>4
<1>9. Named(x) # None => in.service = Named(x) \/ (in.service = None /\ in.kind \notin Follows \cup DOMAIN Gate)
  BY <1>3, <1>4, <1>7
<1> QED BY <1>3, <1>6, <1>8, <1>9 DEF in

\* What an answer calls its subject may call.
LEMMA AnsweredChecked ==
  ASSUME NEW in, NEW held, NEW o \in Answered(in, held).ops, o \in Gated
  PROVE  "authz" \in wired /\ Needs(o) \in held
<1> DEFINE made == CASE in.kind = "incident_status" -> IF "anomaly" \in wired THEN {"incidents"} ELSE {}
                     [] in.kind = "investigate" -> IF "rca" \in wired THEN {"investigate"} ELSE {}
                     [] in.kind = "remediate" -> IF "remediate" \in wired THEN {"propose"} ELSE {}
                     [] OTHER -> IF "registry" \in wired THEN {"dispatch"} ELSE {}
           refused == in.kind \in DOMAIN Gate /\ ~("authz" \in wired /\ Gate[in.kind] \in held)
<1>1. Answered(in, held).ops = IF in.kind = "unknown" \/ refused THEN {} ELSE made BY DEF Answered
<1>2. o \in made /\ ~refused BY <1>1
<1>3. \/ o = "investigate" /\ in.kind = "investigate"
      \/ o = "propose" /\ in.kind = "remediate"
  <2>1. CASE in.kind = "incident_status" BY <2>1, <1>2 DEF Gated
  <2>2. CASE in.kind = "investigate" BY <2>2, <1>2
  <2>3. CASE in.kind = "remediate" BY <2>3, <1>2
  <2>4. CASE in.kind \notin {"incident_status", "investigate", "remediate"}
    <3>1. made = IF "registry" \in wired THEN {"dispatch"} ELSE {} BY <2>4
    <3> QED BY <3>1, <1>2 DEF Gated
  <2> QED BY <2>1, <2>2, <2>3, <2>4
<1>4. DOMAIN Gate = {"investigate", "remediate"} /\ Gate["investigate"] = "incident:investigate" /\ Gate["remediate"] = "remediation_action:propose"
  BY DEF Gate
<1> QED BY <1>2, <1>3, <1>4 DEF Needs

\* What a question is answered with.
LEMMA RepliedSound ==
  ASSUME NEW s \in Subjects, NEW door, NEW x \in Texts, NEW turns, NEW focus, NEW held \in SUBSET granted[s],
         Known(s), wired' = wired, door # "chat" => Can(s, "telemetry:read"),
         Replied(s, door, x, Interpret(x, turns, focus), Answered(Interpret(x, turns, focus), held))
  PROVE  GatewaySound'
<1> DEFINE in == Interpret(x, turns, focus)
           a == Answered(in, held)
<1>1. \A o \in a.ops : o \in Gated => "authz" \in wired /\ Needs(o) \in granted[s] BY AnsweredChecked
<1>2. a.clarifying = (in.kind = "unknown" \/ (in.kind \in DOMAIN Gate /\ ~("authz" \in wired /\ Gate[in.kind] \in held)))
  BY DEF Answered
<1> DEFINE v == ~a.clarifying /\ in.fuzzy
<1>3. /\ did' = CallsOf(s, door, a.ops)
      /\ reply' = [is |-> IF a.clarifying THEN "clarifying" ELSE "answered", intent |-> in, text |-> x, caveat |-> v]
  BY DEF Replied
<1>4. in.kind # "unknown" =>
        /\ Named(x) # None => in.service = Named(x) \/ (in.service = None /\ in.kind \notin Follows \cup DOMAIN Gate)
        /\ in.fuzzy <=> Named(x) # None /\ in.service = Named(x) /\ ~Exact(x)
        /\ \A k \in DOMAIN x.matches \ {in.kind} : x.matches[in.kind] > x.matches[k] + 2
  BY Interpreted
<1> HIDE DEF in, a
<1>5. EveryDoorChecks'
  <2> DEFINE calls == a.ops
  <2>1. ASSUME NEW o \in calls, door # "chat" \/ o \in Gated PROVE "authz" \in wired /\ Needs(o) \in granted[s]
    <3>1. CASE o \in Gated BY <3>1, <1>1
    <3>2. CASE o \notin Gated
      <4>1. Needs(o) = "telemetry:read" BY <3>2 DEF Needs, Gated
      <4> QED BY <4>1, <3>2, <2>1 DEF Can
    <3> QED BY <3>1, <3>2
  <2>2. did' = CallsOf(s, door, calls) BY <1>3
  <2> HIDE DEF calls
  <2> QED BY <2>1, <2>2, CallsChecked
<1>6. reply'.is = (IF a.clarifying THEN "clarifying" ELSE "answered") /\ reply'.intent = in /\ reply'.text = x /\ reply'.caveat = v
  <2> HIDE DEF v
  <2> QED BY <1>3
<1>7. ActsOnTheClearest' BY <1>4, <1>6 DEF ActsOnTheClearest
<1>8. reply'.is = "answered" => ~a.clarifying BY <1>6
<1>9. ~a.clarifying => in.kind # "unknown" BY <1>2
<1>10. NoSilentGuess'
  <2> SUFFICES ASSUME reply'.is = "answered"
               PROVE  /\ Named(x) # None => in.service = Named(x) \/ (in.service = None /\ in.kind \notin Follows \cup DOMAIN Gate)
                      /\ v <=> Named(x) # None /\ in.service = Named(x) /\ ~Exact(x)
    BY <1>6 DEF NoSilentGuess, Named, Nearest, Exact
  <2>1. ~a.clarifying /\ in.kind # "unknown" BY <1>8, <1>9
  <2>2. v <=> in.fuzzy BY <2>1
  <2> HIDE DEF v
  <2> QED BY <2>1, <2>2, <1>4
<1> QED BY <1>5, <1>7, <1>10 DEF GatewaySound

\* A single question.
LEMMA NLQueryStep ==
  ASSUME NEW s \in Subjects, NEW x \in Texts, NLQuery(s, x)
  PROVE  GatewaySound'
<1> DEFINE in == Interpret(x, <<>>, NoFocus)
           ok == Replied(s, "rest", x, in, Answered(in, {}))
<1>1. \/ \E why \in {"unauthenticated", "forbidden", "unavailable", "invalid", "unimplemented"} : Refused(why)
      \/ Known(s) /\ Can(s, "telemetry:read") /\ ok
  BY DEF NLQuery
<1>2. ASSUME Known(s), Can(s, "telemetry:read"), ok PROVE GatewaySound'
  <2> DEFINE empty == {}  none == <<>>  door == "rest"
  <2>1. empty \in SUBSET granted[s] /\ wired' = wired BY DEF NLQuery
  <2>2. Replied(s, door, x, Interpret(x, none, NoFocus), Answered(Interpret(x, none, NoFocus), empty)) BY <1>2
  <2> HIDE DEF empty, none, door
  <2> QED BY <1>2, <2>1, <2>2, RepliedSound
<1> QED BY <1>1, <1>2, RefusedSound

\* A question within a conversation.
LEMMA ChatStep ==
  ASSUME NEW s \in Subjects, NEW x \in Texts, NEW focus, Chat(s, x, focus)
  PROVE  GatewaySound'
<1> DEFINE turns == IF Expired THEN <<>> ELSE thread
           held == granted[s]  door == "chat"
<1>1. Known(s) /\ wired' = wired /\ Replied(s, door, x, Interpret(x, turns, focus), Answered(Interpret(x, turns, focus), held))
  BY DEF Chat
<1>2. held \in SUBSET granted[s] /\ ~(door # "chat") OBVIOUS
<1> HIDE DEF turns, held, door
<1> QED BY <1>1, <1>2, RepliedSound

\* Other steps leave the calls and the replies of the last request alone.
LEMMA GatewayFrame ==
  ASSUME GatewaySound, UNCHANGED <<wired, granted, did, reply>>
  PROVE  GatewaySound'
<1>1. EveryDoorChecks' BY DEF GatewaySound, EveryDoorChecks
<1>2. NoSilentGuess' BY DEF GatewaySound, NoSilentGuess, Named, Nearest, Exact
<1>3. ActsOnTheClearest' BY DEF GatewaySound, ActsOnTheClearest
<1> QED BY <1>1, <1>2, <1>3 DEF GatewaySound

\* Whichever door a request comes through and whatever is wired, what it calls, reads
\* included, was checked for the capability that DR-25 gives the operation (for what a
\* chat front end reads: for authentication and a tenant only); a guessed service is
\* called a guess, and an intent is acted on only when every other one is less likely
\* (requireCapability, mcpToolsCall, AnswerForSubject, Interpret).
THEOREM DoorsSound == GatewaySpec => []GatewaySound
<1>1. GatewayInit => GatewaySound
  BY DEF GatewayInit, GatewaySound, EveryDoorChecks, NoSilentGuess, ActsOnTheClearest
<1>2. GatewaySound /\ [GatewayNext]_gatewayVars => GatewaySound'
  <2> SUFFICES ASSUME GatewaySound, [GatewayNext]_gatewayVars PROVE GatewaySound' OBVIOUS
  <2>1. ASSUME NEW s \in Subjects, NEW r \in DOMAIN Routes, NEW b \in BOOLEAN, Rest(s, r, b) PROVE GatewaySound' BY <2>1, RestStep
  <2>2. ASSUME NEW s \in Subjects, NEW t \in DOMAIN Tools, NEW b \in BOOLEAN, Mcp(s, t, b) PROVE GatewaySound' BY <2>2, McpStep
  <2>3. ASSUME NEW s \in Subjects, NEW x \in Texts, NLQuery(s, x) PROVE GatewaySound' BY <2>3, NLQueryStep
  <2>4. ASSUME NEW s \in Subjects, NEW x \in Texts, NEW f, Chat(s, x, f) PROVE GatewaySound' BY <2>4, ChatStep
  <2>5. CASE Wait BY <2>5, GatewayFrame DEF Wait
  <2>6. CASE UNCHANGED gatewayVars BY <2>6, GatewayFrame DEF gatewayVars
  <2> QED BY <2>1, <2>2, <2>3, <2>4, <2>5, <2>6 DEF GatewayNext
<1> QED BY <1>1, <1>2, PTL DEF GatewaySpec

-----------------------------------------------------------------------------
(* The rows of the hot index.                                              *)

\* A trace's row outlives its span, and the span's rows live equally long.
LEMMA HorizonFacts ==
  /\ \A x \in TraceTables : Horizons[x] \in Nat
  /\ \A x \in {"span", "attr", "fts"} : Horizons[x] = Horizons["span"]
  /\ Horizons["trace"] = 0 \/ (Horizons["span"] # 0 /\ Horizons["span"] <= Horizons["trace"])
<1>1. SweptTables[1] = "span" /\ SweptTables[2] = "attr" /\ SweptTables[3] = "fts" /\ SweptTables[4] = "trace"
  BY DEF SweptTables
<1>2. Horizons[SweptTables[1]] \in Nat /\ Horizons[SweptTables[2]] \in Nat
      /\ Horizons[SweptTables[3]] \in Nat /\ Horizons[SweptTables[4]] \in Nat
  BY IndexAssumption
<1>3. Horizons.span = Horizons["span"] /\ Horizons.attr = Horizons["attr"]
      /\ Horizons.fts = Horizons["fts"] /\ Horizons.trace = Horizons["trace"]
  OBVIOUS
<1> QED BY <1>1, <1>2, <1>3, IndexAssumption DEF TraceTables

\* The bucket of the attribute index errs on the side of keeping.
LEMMA BeforeIsOlder ==
  ASSUME NEW x, NEW t \in IndexTraces, NEW cutoff \in Int, Before(x, t, cutoff)
  PROVE  StartOf[t] < cutoff
<1>1. StartOf[t] \in Int /\ AttrBucket \in Nat \ {0} BY IndexAssumption
<1> DEFINE s == StartOf[t]  n == AttrBucket
<1>2. CASE x = "attr"
  <2>1. s \div n < cutoff \div n BY <1>2 DEF Before
  <2> HIDE DEF s, n
  <2>2. s = n * (s \div n) + (s % n) /\ s % n \in 0 .. n - 1 /\ s \div n \in Int BY <1>1, Z3 DEF s, n
  <2>3. cutoff = n * (cutoff \div n) + (cutoff % n) /\ cutoff % n \in 0 .. n - 1 /\ cutoff \div n \in Int BY <1>1, Z3 DEF n
  <2> DEFINE p == s \div n  q == cutoff \div n
  <2> HIDE DEF p, q
  <2>4. n * q >= n * p + n
    <3>1. q - p >= 1 /\ q \in Int /\ p \in Int BY <2>1, <2>2, <2>3 DEF p, q
    <3>2. n * (q - p) >= n BY <3>1, <1>1, Z3 DEF n
    <3>3. n * (q - p) = n * q - n * p BY <3>1, <1>1, Z3 DEF n
    <3>4. n * q \in Int /\ n * p \in Int /\ n \in Int BY <3>1, <1>1, Z3 DEF n
    <3> QED BY <3>2, <3>3, <3>4
  <2>5. n * q \in Int /\ n * p \in Int /\ n \in Nat BY <1>1, <2>2, <2>3, Z3 DEF n, p, q
  <2> DEFINE u == n * p  v == n * q  c == s % n  d == cutoff % n
  <2>6. s = u + c /\ cutoff = v + d BY <2>2, <2>3 DEF p, q
  <2>7. u \in Int /\ v \in Int /\ v >= u + n /\ n \in Nat /\ c \in 0 .. n - 1 /\ d \in 0 .. n - 1
    BY <2>2, <2>3, <2>4, <2>5
  <2> HIDE DEF u, v, c, d
  <2>8. s < cutoff BY <2>6, <2>7
  <2> QED BY <2>8 DEF s
<1>3. CASE x # "attr" BY <1>3 DEF Before
<1> QED BY <1>2, <1>3

RowsTyped ==
  /\ itime \in Int
  /\ rows = [x \in TraceTables |-> rows[x]]
  /\ \A x \in TraceTables : rows[x] \subseteq IndexTraces /\ IsFiniteSet(rows[x])

\* What was due in the tables that the sweep has left is gone; what is due in
\* the others is found by the sweep's own cutoff.
Sweeping ==
  \/ sweep = NoSweep
  \/ /\ sweep = [i |-> sweep.i, at |-> sweep.at, due |-> sweep.due]
     /\ sweep.i \in 1 .. 7 /\ sweep.at \in Int /\ sweep.at <= itime
     /\ sweep.due \subseteq TraceTables \X IndexTraces
     /\ \A p \in sweep.due : /\ Horizons[p[1]] > 0 /\ Before(p[1], p[2], sweep.at - Horizons[p[1]])
                             /\ \A j \in 1 .. 4 : SweptTables[j] = p[1] /\ j < sweep.i => p[2] \notin rows[p[1]]

\* A span whose row another table has lost is past the horizon.
LostIsOld ==
  \A x \in TraceTables : \A t \in rows["span"] \ rows[x] : StartOf[t] < itime - Horizons["span"]

RowsInvariant == RowsTyped /\ Sweeping /\ LostIsOld

\* A batch writes its trace into every table at once.
LEMMA WriteKeepsRows == ASSUME RowsInvariant, NEW t \in IndexTraces, WriteTrace(t) PROVE RowsInvariant'
<1>1. /\ rows' = [x \in TraceTables |-> rows[x] \cup {t}] /\ itime' = itime
      /\ sweep' = [sweep EXCEPT !.due = {p \in sweep.due : p[2] # t}]
  BY DEF WriteTrace
<1>2. RowsTyped'
  <2>1. \A x \in TraceTables : rows'[x] = rows[x] \cup {t} BY <1>1
  <2>2. \A x \in TraceTables : IsFiniteSet(rows[x] \cup {t}) BY FS_AddElement DEF RowsInvariant, RowsTyped
  <2> QED BY <1>1, <2>1, <2>2 DEF RowsInvariant, RowsTyped
<1>3. LostIsOld'
  <2>1. "span" \in TraceTables BY DEF TraceTables
  <2> QED BY <2>1, <1>1 DEF RowsInvariant, LostIsOld
<1>4. Sweeping'
  <2> DEFINE due == {p \in sweep.due : p[2] # t}
  <2>1. CASE sweep = NoSweep
    <3>1. sweep.due = {} BY <2>1 DEF NoSweep
    <3>2. due = {} BY <3>1
    <3>3. sweep' = [NoSweep EXCEPT !.due = {}] BY <1>1, <2>1, <3>2
    <3>4. [NoSweep EXCEPT !.due = {}] = NoSweep BY DEF NoSweep
    <3> QED BY <3>3, <3>4 DEF Sweeping
  <2>2. CASE sweep # NoSweep
    <3>1. sweep' = [i |-> sweep.i, at |-> sweep.at, due |-> due] BY <1>1, <2>2 DEF RowsInvariant, Sweeping
    <3>2. sweep'.i = sweep.i /\ sweep'.at = sweep.at /\ sweep'.due = due BY <3>1
    <3>3. \A x \in TraceTables : rows'[x] = rows[x] \cup {t} BY <1>1
    <3>4. \A p \in due : p \in sweep.due /\ p[1] \in TraceTables /\ (p[2] \notin rows[p[1]] => p[2] \notin rows'[p[1]])
      BY <3>3, <2>2 DEF RowsInvariant, Sweeping
    <3>5. \A p \in sweep'.due : /\ Horizons[p[1]] > 0 /\ Before(p[1], p[2], sweep'.at - Horizons[p[1]])
                                /\ \A j \in 1 .. 4 : SweptTables[j] = p[1] /\ j < sweep'.i => p[2] \notin rows'[p[1]]
      BY <3>2, <3>4, <2>2 DEF RowsInvariant, Sweeping
    <3> HIDE DEF due
    <3>6. sweep' = [i |-> sweep'.i, at |-> sweep'.at, due |-> sweep'.due] BY <3>1, <3>2
    <3>7. due \subseteq TraceTables \X IndexTraces BY <2>2 DEF due, RowsInvariant, Sweeping
    <3>8. sweep'.i \in 1 .. 7 /\ sweep'.at \in Int /\ sweep'.at <= itime' BY <3>2, <1>1, <2>2 DEF RowsInvariant, Sweeping
    <3> QED BY <3>2, <3>5, <3>6, <3>7, <3>8 DEF Sweeping
  <2> QED BY <2>1, <2>2
<1> QED BY <1>2, <1>3, <1>4 DEF RowsInvariant

\* A transaction deletes rows that are past the horizon of the search.
LEMMA SweptIsOld ==
  ASSUME RowsInvariant, NEW x \in TraceTables, NEW t \in IndexTraces, Horizons[x] # 0,
         sweep # NoSweep, Before(x, t, sweep.at - Horizons[x])
  PROVE  StartOf[t] < itime - Horizons["span"]
<1>1. sweep.at \in Int /\ sweep.at <= itime /\ itime \in Int BY DEF RowsInvariant, Sweeping, RowsTyped
<1>2. Horizons[x] \in Nat /\ Horizons["span"] \in Nat /\ Horizons["span"] <= Horizons[x]
  BY HorizonFacts DEF TraceTables
<1>3. sweep.at - Horizons[x] \in Int BY <1>1, <1>2
<1>4. StartOf[t] < sweep.at - Horizons[x] BY <1>3, BeforeIsOlder
<1>5. StartOf[t] \in Int BY IndexAssumption
<1> QED BY <1>1, <1>2, <1>4, <1>5

\* A batch that is not full has deleted all that is left of its table.
LEMMA SweepKeepsRows == ASSUME RowsInvariant, SweepRows PROVE RowsInvariant'
<1> DEFINE table == SweptTables[sweep.i]
           old == Expirable(table, sweep.at - Horizons[table])
<1>1. sweep.i \in 1 .. 4 /\ sweep # NoSweep /\ itime' = itime BY DEF SweepRows, NoSweep
<1>2. table \in TraceTables /\ \A j \in 1 .. 4 : SweptTables[j] = table => j = sweep.i
  BY <1>1 DEF SweptTables, TraceTables
<1>3. /\ sweep = [i |-> sweep.i, at |-> sweep.at, due |-> sweep.due]
      /\ sweep.i \in 1 .. 7 /\ sweep.at \in Int /\ sweep.at <= itime
      /\ sweep.due \subseteq TraceTables \X IndexTraces
      /\ \A p \in sweep.due : /\ Horizons[p[1]] > 0 /\ Before(p[1], p[2], sweep.at - Horizons[p[1]])
                              /\ \A j \in 1 .. 4 : SweptTables[j] = p[1] /\ j < sweep.i => p[2] \notin rows[p[1]]
  BY <1>1 DEF RowsInvariant, Sweeping
<1>4. NextTable = [i |-> sweep.i + 1, at |-> sweep.at, due |-> sweep.due] BY <1>3 DEF NextTable
<1>5. PICK S \in SUBSET old :
        /\ Horizons[table] = 0 => S = {}
        /\ \A x \in TraceTables : rows'[x] = IF x = table THEN rows[x] \ S ELSE rows[x]
        /\ rows' = [x \in TraceTables |-> rows'[x]]
        /\ \/ sweep' = sweep
           \/ sweep' = NextTable /\ (Horizons[table] = 0 \/ S = old)
  <2>1. CASE Horizons[table] = 0
    <3>1. sweep' = NextTable /\ rows' = rows BY <2>1 DEF SweepRows
    <3>2. {} \in SUBSET old OBVIOUS
    <3> HIDE DEF old
    <3> QED BY <2>1, <3>1, <3>2 DEF RowsInvariant, RowsTyped
  <2>2. CASE Horizons[table] # 0
    <3>1. PICK S \in SUBSET old :
            /\ Cardinality(S) = IF Cardinality(old) < ExpireBatch THEN Cardinality(old) ELSE ExpireBatch
            /\ rows' = [rows EXCEPT ![table] = @ \ S]
            /\ sweep' = IF Done(Cardinality(S)) THEN NextTable ELSE sweep
      BY <2>2 DEF SweepRows
    <3>2. old \subseteq rows[table] BY DEF Expirable
    <3>3. IsFiniteSet(old) BY <3>2, <1>2, FS_Subset DEF RowsInvariant, RowsTyped
    <3>4. Cardinality(old) \in Nat /\ ExpireBatch \in Nat BY <3>3, FS_CardinalityType, IndexAssumption
    <3>5. Done(Cardinality(S)) => S = old
      <4> HIDE DEF old
      <4>1. Done(Cardinality(S)) => Cardinality(S) = Cardinality(old) BY <3>1, <3>4 DEF Done
      <4>2. Cardinality(S) = Cardinality(old) => S = old BY <3>3, FS_Subset
      <4> QED BY <4>1, <4>2
    <3> HIDE DEF old, table
    <3>6. rows' = [x \in TraceTables |-> IF x = table THEN rows[x] \ S ELSE rows[x]]
      BY <3>1 DEF RowsInvariant, RowsTyped
    <3> QED BY <2>2, <3>1, <3>5, <3>6
  <2> QED BY <2>1, <2>2
<1>6. \A t \in S : t \in rows[table] /\ t \in IndexTraces /\ StartOf[t] < itime - Horizons["span"]
  <2>1. \A t \in S : t \in rows[table] /\ Before(table, t, sweep.at - Horizons[table]) BY DEF Expirable
  <2>2. \A t \in S : t \in IndexTraces BY <2>1, <1>2 DEF RowsInvariant, RowsTyped
  <2>3. S # {} => Horizons[table] # 0 BY <1>5
  <2> HIDE DEF table
  <2> QED BY <2>1, <2>2, <2>3, <1>1, <1>2, SweptIsOld
<1>7. \A p \in sweep.due : p[1] = table /\ S = old => p[2] \notin rows'[table]
  BY <1>2, <1>3, <1>5 DEF Expirable
<1> HIDE DEF old, table
<1>8. RowsTyped'
  <2>1. \A x \in TraceTables : rows'[x] \subseteq rows[x] BY <1>5
  <2>2. \A x \in TraceTables : IsFiniteSet(rows'[x]) BY <2>1, FS_Subset DEF RowsInvariant, RowsTyped
  <2> QED BY <1>1, <1>5, <2>1, <2>2 DEF RowsInvariant, RowsTyped
<1>9. LostIsOld'
  <2>1. ASSUME NEW x \in TraceTables, NEW t, t \in rows'["span"], t \notin rows'[x] PROVE StartOf[t] < itime - Horizons["span"]
    <3>1. "span" \in TraceTables BY DEF TraceTables
    <3>2. t \in rows["span"] BY <2>1, <3>1, <1>5
    <3>3. CASE t \notin rows[x] BY <3>2, <3>3 DEF RowsInvariant, LostIsOld
    <3>4. CASE t \in rows[x] BY <3>4, <2>1, <1>5, <1>6
    <3> QED BY <3>3, <3>4
  <2> QED BY <2>1, <1>1 DEF LostIsOld
<1>10. Sweeping'
  <2>0. \A p \in sweep.due : p[1] \in TraceTables BY <1>3
  <2>1. \A p \in sweep.due : p[2] \notin rows[p[1]] => p[2] \notin rows'[p[1]] BY <2>0, <1>5
  <2>2. CASE sweep' = sweep
    <3>1. \A p \in sweep.due : \A j \in 1 .. 4 : SweptTables[j] = p[1] /\ j < sweep.i => p[2] \notin rows'[p[1]]
      BY <2>1, <1>3
    <3> QED BY <3>1, <2>2, <1>1, <1>3 DEF Sweeping
  <2>3. CASE sweep' = NextTable /\ (Horizons[table] = 0 \/ S = old)
    <3>1. sweep'.i = sweep.i + 1 /\ sweep'.at = sweep.at /\ sweep'.due = sweep.due
          /\ sweep' = [i |-> sweep'.i, at |-> sweep'.at, due |-> sweep'.due]
      BY <2>3, <1>4
    <3>2. ASSUME NEW p \in sweep.due, NEW j \in 1 .. 4, SweptTables[j] = p[1], j < sweep.i + 1 PROVE p[2] \notin rows'[p[1]]
      <4>1. CASE j < sweep.i BY <4>1, <3>2, <2>1, <1>3
      <4>2. CASE j = sweep.i
        <5>1. p[1] = table BY <4>2, <3>2 DEF table
        <5> QED BY <5>1, <2>3, <1>3, <1>7, HorizonFacts
      <4> QED BY <4>1, <4>2, <3>2, <1>1
    <3>3. sweep'.i \in 1 .. 7 /\ sweep'.at <= itime' BY <3>1, <1>1, <1>3
    <3> QED BY <3>1, <3>2, <3>3, <1>3 DEF Sweeping
  <2> QED BY <2>2, <2>3, <1>5
<1> QED BY <1>8, <1>9, <1>10 DEF RowsInvariant

\* However batches of the sweep and writes alternate, no row is lost before its time.
THEOREM RowsInductive == RowsInvariant /\ [IndexNext]_indexVars => RowsInvariant'
<1> SUFFICES ASSUME RowsInvariant, [IndexNext]_indexVars PROVE RowsInvariant' OBVIOUS
<1>1. ASSUME NEW t \in IndexTraces, WriteTrace(t) PROVE RowsInvariant' BY <1>1, WriteKeepsRows
<1>2. CASE SweepRows BY <1>2, SweepKeepsRows
<1>3. ASSUME SweepStart PROVE RowsInvariant'
  <2> DEFINE due == {p \in TraceTables \X IndexTraces :
                  Horizons[p[1]] > 0 /\ p[2] \in Expirable(p[1], itime - Horizons[p[1]])}
  <2>1. sweep' = [i |-> 1, at |-> itime, due |-> due] /\ itime' = itime /\ rows' = rows BY <1>3 DEF SweepStart
  <2>2. sweep'.i = 1 /\ sweep'.at = itime /\ sweep'.due = due /\ sweep' = [i |-> sweep'.i, at |-> sweep'.at, due |-> sweep'.due]
    <3> HIDE DEF due
    <3> QED BY <2>1
  <2>3. due \subseteq TraceTables \X IndexTraces
        /\ \A p \in due : Horizons[p[1]] > 0 /\ Before(p[1], p[2], itime - Horizons[p[1]])
    BY DEF Expirable
  <2> HIDE DEF due
  <2>4. Sweeping'
    <3>1. \A p \in sweep'.due : \A j \in 1 .. 4 : ~(j < sweep'.i) BY <2>2
    <3>2. sweep'.i \in 1 .. 7 /\ sweep'.at \in Int /\ sweep'.at <= itime' BY <2>1, <2>2 DEF RowsInvariant, RowsTyped
    <3> QED BY <2>2, <2>3, <3>1, <3>2 DEF Sweeping
  <2> QED BY <2>1, <2>4 DEF RowsInvariant, RowsTyped, LostIsOld
<1>4. ASSUME SweepRollups PROVE RowsInvariant'
  <2>1. /\ sweep.i \in {5, 6} /\ sweep' = [sweep EXCEPT !.i = sweep.i + 1] /\ UNCHANGED <<itime, rows>>
    BY <1>4 DEF SweepRollups, NextTable
  <2>2. /\ sweep = [i |-> sweep.i, at |-> sweep.at, due |-> sweep.due]
        /\ sweep.at \in Int /\ sweep.at <= itime /\ sweep.due \subseteq TraceTables \X IndexTraces
        /\ \A p \in sweep.due : /\ Horizons[p[1]] > 0 /\ Before(p[1], p[2], sweep.at - Horizons[p[1]])
                                /\ \A j \in 1 .. 4 : SweptTables[j] = p[1] /\ j < sweep.i => p[2] \notin rows[p[1]]
    BY <2>1 DEF RowsInvariant, Sweeping, NoSweep
  <2>3. sweep' = [i |-> sweep.i + 1, at |-> sweep.at, due |-> sweep.due] BY <2>1, <2>2
  <2>4. sweep'.i = sweep.i + 1 /\ sweep'.at = sweep.at /\ sweep'.due = sweep.due
        /\ sweep' = [i |-> sweep'.i, at |-> sweep'.at, due |-> sweep'.due]
    BY <2>3
  <2>5. \A j \in 1 .. 4 : j < sweep.i BY <2>1
  <2>6. sweep'.i \in 1 .. 7 BY <2>1, <2>4
  <2>7. Sweeping' BY <2>1, <2>2, <2>4, <2>5, <2>6 DEF Sweeping
  <2> QED BY <2>1, <2>7 DEF RowsInvariant, RowsTyped, LostIsOld
<1>5. CASE SweepReturns \/ SweepFails
  BY <1>5 DEF SweepReturns, SweepFails, RowsInvariant, RowsTyped, Sweeping, LostIsOld
<1>6. ASSUME TickIndex PROVE RowsInvariant'
  <2>1. itime' = itime + 1 /\ UNCHANGED <<rows, sweep>> BY <1>6 DEF TickIndex
  <2>2. itime \in Int /\ Horizons["span"] \in Nat /\ \A t \in IndexTraces : StartOf[t] \in Int
    BY HorizonFacts, IndexAssumption DEF RowsInvariant, RowsTyped, TraceTables
  <2>3. RowsTyped' BY <2>1 DEF RowsInvariant, RowsTyped
  <2>4. Sweeping' BY <2>1, <2>2 DEF RowsInvariant, Sweeping
  <2>5. LostIsOld'
    <3>1. ASSUME NEW x \in TraceTables, NEW t \in rows'["span"] \ rows'[x] PROVE StartOf[t] < itime' - Horizons["span"]
      <4>0. t \in rows["span"] \ rows[x] BY <3>1, <2>1
      <4>1. StartOf[t] < itime - Horizons["span"] BY <4>0 DEF RowsInvariant, LostIsOld
      <4>2. t \in IndexTraces BY <4>0 DEF RowsInvariant, RowsTyped, TraceTables
      <4> QED BY <4>1, <4>2, <2>1, <2>2
    <3> QED BY <3>1 DEF LostIsOld
  <2> QED BY <2>3, <2>4, <2>5 DEF RowsInvariant
<1>7. CASE UNCHANGED <<itime, rows, sweep>> BY <1>7 DEF RowsInvariant, RowsTyped, Sweeping, LostIsOld
<1>8. (\E b \in Times : WriteRED(b)) \/ Sight \/ WriteEdges \/ (\E from \in {1, 2} : CascadeRead(from))
      \/ CascadeWrite \/ CascadeFails \/ UNCHANGED indexVars => UNCHANGED <<itime, rows, sweep>>
  BY DEF WriteRED, Sight, WriteEdges, CascadeRead, CascadeWrite, CascadeFails, indexVars
<1> QED BY <1>1, <1>2, <1>3, <1>4, <1>5, <1>6, <1>7, <1>8 DEF IndexNext

-----------------------------------------------------------------------------
(* The rollups.                                                            *)

CallColumn(f) == [b \in Times |-> f[b].calls]
Rollup(f) == f = [b \in Times |-> f[b]] /\ \A b \in Times : f[b].calls \in Int

\* The buckets are finitely many.
LEMMA TimesFinite == IsFiniteSet(Times)
<1>1. 0 \in Int /\ MaxITime \in Int BY IndexAssumption
<1> QED BY <1>1, FS_Interval DEF Times

\* The calls of a resolution are the sum over its buckets.
LEMMA CallsInOf ==
  ASSUME NEW f, Rollup(f)
  PROVE  CallsIn(f) = SumFunctionOnSet(CallColumn(f), Times) /\ CallsIn(f) \in Int
<1>1. DOMAIN f = Times BY DEF Rollup
<1>2. CallsIn(f) = SumFunctionOnSet(CallColumn(f), Times) BY <1>1 DEF CallsIn, CallColumn, SumFunction
<1>3. \A b \in Times : CallColumn(f)[b] \in Int BY DEF Rollup, CallColumn
<1>4. SumFunctionOnSet(CallColumn(f), Times) \in Int BY <1>3, TimesFinite, SumType
<1> QED BY <1>2, <1>4

\* One call more in one bucket.
LEMMA OneMore ==
  ASSUME NEW f, NEW g, Rollup(f), Rollup(g), NEW b \in Times, g[b].calls = f[b].calls + 1,
         \A x \in Times \ {b} : g[x] = f[x]
  PROVE  CallsIn(g) = CallsIn(f) + 1
<1> DEFINE F == CallColumn(f)  G == CallColumn(g)
<1>1. /\ \A x \in Times : F[x] \in Int /\ G[x] \in Int
      /\ \A x \in Times \ {b} : F[x] = G[x]
      /\ G[b] = F[b] + 1 /\ F[b] \in Int
  BY DEF CallColumn, Rollup
<1>2. CallsIn(f) = SumFunctionOnSet(F, Times) /\ CallsIn(g) = SumFunctionOnSet(G, Times) /\ CallsIn(f) \in Int
  BY CallsInOf
<1> HIDE DEF F, G
<1>3. SumFunctionOnSet(G, Times) = SumFunctionOnSet(F, Times) + (G[b] - F[b])
  BY <1>1, TimesFinite, SumChange
<1> QED BY <1>1, <1>2, <1>3

\* Calls that move from one resolution to another, bucket by bucket.
LEMMA Moved ==
  ASSUME NEW f, NEW g, NEW ff, NEW gg, Rollup(f), Rollup(g), Rollup(ff), Rollup(gg),
         \A b \in Times : ff[b].calls + gg[b].calls = f[b].calls + g[b].calls
  PROVE  CallsIn(ff) + CallsIn(gg) = CallsIn(f) + CallsIn(g)
<1> DEFINE F == CallColumn(f)  G == CallColumn(g)  FF == CallColumn(ff)  GG == CallColumn(gg)
           h == [b \in Times |-> F[b] + G[b]]
<1>1. \A b \in Times : F[b] \in Int /\ G[b] \in Int /\ FF[b] \in Int /\ GG[b] \in Int /\ h[b] = F[b] + G[b] /\ h[b] = FF[b] + GG[b]
  BY DEF CallColumn, Rollup
<1>2. /\ CallsIn(f) = SumFunctionOnSet(F, Times) /\ CallsIn(g) = SumFunctionOnSet(G, Times)
      /\ CallsIn(ff) = SumFunctionOnSet(FF, Times) /\ CallsIn(gg) = SumFunctionOnSet(GG, Times)
  BY CallsInOf
<1> HIDE DEF F, G, FF, GG, h
<1>3. SumFunctionOnSet(h, Times) = SumFunctionOnSet(F, Times) + SumFunctionOnSet(G, Times)
  BY <1>1, TimesFinite, SumPlus
<1>4. SumFunctionOnSet(h, Times) = SumFunctionOnSet(FF, Times) + SumFunctionOnSet(GG, Times)
  BY <1>1, TimesFinite, SumPlus
<1> QED BY <1>2, <1>3, <1>4

Rollups == red = [i \in 1 .. 3 |-> red[i]] /\ \A i \in 1 .. 3 : Rollup(red[i])

\* What a cascade has read is what its buckets hold, unless somebody wrote there.
Cascading ==
  cascade # NoCascade =>
    /\ cascade.from \in {1, 2} /\ DOMAIN cascade.read \subseteq Times
    /\ \A b \in DOMAIN cascade.read : cascade.read[b].calls \in Int
                                      /\ (~raced => cascade.read[b] = red[cascade.from][b])

RollupsInvariant == Rollups /\ Cascading /\ counted \in Int /\ CallsConserved

\* A rollup written into a bucket that a cascade has read counts as a race.
LEMMA WriteREDKeeps == ASSUME RollupsInvariant, NEW b \in Times, WriteRED(b) PROVE RollupsInvariant'
<1> DEFINE new == AddedRED(red[1][b], [calls |-> 1, hist |-> 1])
           first == [x \in Times |-> IF x = b THEN new ELSE red[1][x]]
<1>1. /\ red' = [red EXCEPT ![1][b] = new] /\ counted' = counted + 1 /\ cascade' = cascade
      /\ raced' = (raced \/ (cascade.from = 1 /\ b \in DOMAIN cascade.read))
  BY DEF WriteRED
<1>2. new.calls = red[1][b].calls + 1 BY DEF AddedRED
<1>3. red[1][b].calls \in Int /\ Rollup(red[1]) /\ Rollup(red[2]) /\ Rollup(red[3])
  BY DEF RollupsInvariant, Rollups, Rollup
<1>4. red' = [red EXCEPT ![1] = [red[1] EXCEPT ![b] = new]] BY <1>1
<1>5. [red[1] EXCEPT ![b] = new] = first BY <1>3 DEF Rollup
<1>6. red'[1] = first /\ red'[2] = red[2] /\ red'[3] = red[3] /\ red' = [i \in 1 .. 3 |-> red'[i]]
  <2> HIDE DEF first, new
  <2>1. red' = [red EXCEPT ![1] = first] BY <1>4, <1>5
  <2>2. red = [i \in 1 .. 3 |-> red[i]] BY DEF RollupsInvariant, Rollups
  <2>3. DOMAIN red = 1 .. 3 BY <2>2
  <2>4. red' = [i \in 1 .. 3 |-> IF i = 1 THEN first ELSE red[i]] BY <2>1, <2>3
  <2>5. red'[1] = first /\ red'[2] = red[2] /\ red'[3] = red[3] BY <2>4
  <2>6. red' = [i \in 1 .. 3 |-> red'[i]] BY <2>4
  <2> QED BY <2>5, <2>6
<1> HIDE DEF new
<1>7. Rollup(first) /\ first[b].calls = red[1][b].calls + 1 /\ \A x \in Times \ {b} : first[x] = red[1][x]
  BY <1>2, <1>3 DEF Rollup
<1> HIDE DEF first
<1>8. CallsIn(first) = CallsIn(red[1]) + 1 BY <1>3, <1>7, OneMore
<1>9. Rollups'
  <2>1. \A i \in 1 .. 3 : Rollup(red'[i]) BY <1>3, <1>6, <1>7
  <2> QED BY <1>6, <2>1 DEF Rollups
<1>r. raced => raced' BY <1>1, Zenon
<1>10. Cascading'
  <2> SUFFICES ASSUME cascade # NoCascade PROVE Cascading' BY <1>1 DEF Cascading
  <2>1. /\ cascade.from \in {1, 2} /\ DOMAIN cascade.read \subseteq Times
        /\ \A x \in DOMAIN cascade.read : cascade.read[x].calls \in Int
                                          /\ (~raced => cascade.read[x] = red[cascade.from][x])
    BY DEF RollupsInvariant, Cascading
  <2>2. ~raced' => ~(cascade.from = 1 /\ b \in DOMAIN cascade.read) BY <1>1, Zenon
  <2>3. ASSUME ~raced', NEW x \in DOMAIN cascade.read PROVE cascade.read[x] = red'[cascade.from][x]
    <3>1. cascade.read[x] = red[cascade.from][x] BY <1>r, <2>1, <2>3
    <3>2. CASE cascade.from = 1
      <4>1. x \in Times \ {b} BY <2>1, <2>2, <2>3, <3>2
      <4> QED BY <3>1, <3>2, <4>1, <1>6, <1>7
    <3>3. CASE cascade.from = 2 BY <3>1, <3>3, <1>6
    <3> QED BY <2>1, <3>2, <3>3
  <2> QED BY <1>1, <2>1, <2>3 DEF Cascading
<1>11. CallsConserved'
  <2>1. CallsIn(red[1]) \in Int /\ CallsIn(red[2]) \in Int /\ CallsIn(red[3]) \in Int BY <1>3, CallsInOf
  <2>2. ~raced => CallsIn(red[1]) + CallsIn(red[2]) + CallsIn(red[3]) = counted BY DEF RollupsInvariant, CallsConserved
  <2>3. ~raced => CallsIn(red'[1]) + CallsIn(red'[2]) + CallsIn(red'[3]) = counted'
    BY <2>1, <2>2, <1>1, <1>6, <1>8 DEF RollupsInvariant
  <2>4. ~raced' => CallsIn(red'[1]) + CallsIn(red'[2]) + CallsIn(red'[3]) = counted' BY <2>3, <1>r
  <2> QED BY <2>4 DEF CallsConserved
<1>12. counted' \in Int BY <1>1 DEF RollupsInvariant
<1> QED BY <1>9, <1>10, <1>11, <1>12 DEF RollupsInvariant

\* The sweep accounts for what it deletes, and races with a cascade like a write.
LEMMA SweepRollupsKeeps == ASSUME RollupsInvariant, SweepRollups PROVE RollupsInvariant'
<1> DEFINE h == Horizons[SweptTables[sweep.i]]
           trimmed == Trimmed(red[1], sweep.at - h, NoRED)
<1>1. /\ red' = IF sweep.i = 5 /\ h > 0 THEN [red EXCEPT ![1] = trimmed] ELSE red
      /\ raced' = (raced \/ (cascade.from = 1 /\ red'[1] # red[1]))
      /\ counted' = counted - (CallsIn(red[1]) - CallsIn(red'[1])) /\ cascade' = cascade
  BY DEF SweepRollups
<1>3. Rollup(red[1]) /\ Rollup(red[2]) /\ Rollup(red[3]) BY DEF RollupsInvariant, Rollups
<1>4. Rollup(trimmed)
  <2>1. NoRED.calls = 0 BY DEF NoRED
  <2> HIDE DEF h
  <2> QED BY <2>1, <1>3 DEF Rollup, Trimmed
<1> HIDE DEF trimmed
<1>6. Rollup(red'[1]) /\ red'[2] = red[2] /\ red'[3] = red[3] /\ red' = [i \in 1 .. 3 |-> red'[i]]
  BY <1>1, <1>3, <1>4 DEF RollupsInvariant, Rollups
<1>9. Rollups'
  <2>1. \A i \in 1 .. 3 : Rollup(red'[i]) BY <1>3, <1>6
  <2> QED BY <1>6, <2>1 DEF Rollups
<1>r. raced => raced' BY <1>1, Zenon
<1>10. Cascading'
  <2> SUFFICES ASSUME cascade # NoCascade PROVE Cascading' BY <1>1 DEF Cascading
  <2>1. /\ cascade.from \in {1, 2} /\ DOMAIN cascade.read \subseteq Times
        /\ \A x \in DOMAIN cascade.read : cascade.read[x].calls \in Int
                                          /\ (~raced => cascade.read[x] = red[cascade.from][x])
    BY DEF RollupsInvariant, Cascading
  <2>2. ~raced' => ~(cascade.from = 1 /\ red'[1] # red[1])
    <3> DEFINE Hit == red'[1] # red[1]
    <3>1. raced' = (raced \/ (cascade.from = 1 /\ Hit)) BY <1>1
    <3> HIDE DEF Hit
    <3>2. ~raced' => ~(cascade.from = 1 /\ Hit) BY <3>1, Zenon
    <3> QED BY <3>2 DEF Hit
  <2>3. ASSUME ~raced', NEW x \in DOMAIN cascade.read PROVE cascade.read[x] = red'[cascade.from][x]
    <3>1. cascade.read[x] = red[cascade.from][x] BY <1>r, <2>1, <2>3
    <3> QED BY <2>1, <2>2, <2>3, <3>1, <1>6
  <2> QED BY <1>1, <2>1, <2>3 DEF Cascading
<1>s. /\ CallsIn(red[1]) \in Int /\ CallsIn(red[2]) \in Int /\ CallsIn(red[3]) \in Int /\ CallsIn(red'[1]) \in Int
  BY <1>3, <1>6, CallsInOf
<1>11. CallsConserved'
  <2>2. ~raced => CallsIn(red[1]) + CallsIn(red[2]) + CallsIn(red[3]) = counted BY DEF RollupsInvariant, CallsConserved
  <2>3. ~raced => CallsIn(red'[1]) + CallsIn(red'[2]) + CallsIn(red'[3]) = counted'
    BY <1>s, <2>2, <1>1, <1>6 DEF RollupsInvariant
  <2>4. ~raced' => CallsIn(red'[1]) + CallsIn(red'[2]) + CallsIn(red'[3]) = counted' BY <2>3, <1>r
  <2> QED BY <2>4 DEF CallsConserved
<1>12. counted' \in Int BY <1>1, <1>s DEF RollupsInvariant
<1> QED BY <1>9, <1>10, <1>11, <1>12 DEF RollupsInvariant

\* The bucket that a cascade empties holds what it read, which it adds elsewhere.
LEMMA CascadeKeeps == ASSUME RollupsInvariant, CascadeWrite PROVE RollupsInvariant'
<1> DEFINE from == cascade.from  read == cascade.read
           src == [b \in Times |-> IF b \in DOMAIN read THEN NoRED ELSE red[from][b]]
           dst == [b \in Times |-> IF b \in DOMAIN read THEN AddedRED(red[from + 1][b], read[b]) ELSE red[from + 1][b]]
<1>1. cascade # NoCascade /\ red' = Cascaded(from, read) /\ cascade' = NoCascade /\ UNCHANGED <<counted, raced>>
  BY DEF CascadeWrite
<1>2. /\ from \in {1, 2} /\ DOMAIN read \subseteq Times
      /\ \A b \in DOMAIN read : read[b].calls \in Int /\ (~raced => read[b] = red[from][b])
  BY <1>1 DEF RollupsInvariant, Cascading
<1>3. Rollup(red[from]) /\ Rollup(red[from + 1]) /\ from \in 1 .. 3 /\ from + 1 \in 1 .. 3 /\ from # from + 1
  BY <1>2 DEF RollupsInvariant, Rollups
<1>4. /\ red'[from] = src /\ red'[from + 1] = dst
      /\ \A i \in (1 .. 3) \ {from, from + 1} : red'[i] = red[i]
      /\ red' = [i \in 1 .. 3 |-> red'[i]]
  <2>1. red' = [red EXCEPT ![from] = src, ![from + 1] = dst]
    BY <1>1, <1>3 DEF Cascaded, RollupsInvariant, Rollups
  <2> HIDE DEF src, dst, from
  <2> QED BY <2>1, <1>3 DEF RollupsInvariant, Rollups
<1>5. NoRED.calls = 0 BY DEF NoRED
<1>6. \A b \in DOMAIN read : AddedRED(red[from + 1][b], read[b]).calls = red[from + 1][b].calls + read[b].calls
  BY DEF AddedRED
<1> HIDE DEF from, read
<1>7. \A b \in Times : red[from][b].calls \in Int /\ red[from + 1][b].calls \in Int BY <1>3 DEF Rollup
<1>8. Rollup(src) /\ Rollup(dst) BY <1>2, <1>5, <1>6, <1>7 DEF Rollup
<1>9. ~raced => \A b \in Times : src[b].calls + dst[b].calls = red[from][b].calls + red[from + 1][b].calls
  BY <1>2, <1>5, <1>6, <1>7
<1> HIDE DEF src, dst
<1>10. ~raced => CallsIn(src) + CallsIn(dst) = CallsIn(red[from]) + CallsIn(red[from + 1])
  BY <1>3, <1>8, <1>9, Moved
<1>11. Rollups'
  <2>1. \A i \in 1 .. 3 : Rollup(red'[i]) BY <1>4, <1>8 DEF RollupsInvariant, Rollups
  <2> QED BY <1>4, <2>1 DEF Rollups
<1>12. CallsConserved'
  <2>1. \A i \in 1 .. 3 : CallsIn(red[i]) \in Int /\ CallsIn(red'[i]) \in Int
    BY <1>11, CallsInOf DEF RollupsInvariant, Rollups
  <2>2. ~raced => CallsIn(red[1]) + CallsIn(red[2]) + CallsIn(red[3]) = counted BY DEF RollupsInvariant, CallsConserved
  <2>3. CASE from = 1
    <3>1. ~raced => CallsIn(red'[1]) + CallsIn(red'[2]) = CallsIn(red[1]) + CallsIn(red[2]) BY <1>4, <1>10, <2>3
    <3>2. red'[3] = red[3] BY <1>4, <2>3
    <3>3. ~raced => CallsIn(red'[1]) + CallsIn(red'[2]) + CallsIn(red'[3]) = counted BY <2>1, <2>2, <3>1, <3>2
    <3> QED BY <3>3, <1>1 DEF CallsConserved
  <2>4. CASE from = 2
    <3>1. ~raced => CallsIn(red'[2]) + CallsIn(red'[3]) = CallsIn(red[2]) + CallsIn(red[3]) BY <1>4, <1>10, <2>4
    <3>2. red'[1] = red[1] BY <1>4, <2>4
    <3>3. ~raced => CallsIn(red'[1]) + CallsIn(red'[2]) + CallsIn(red'[3]) = counted BY <2>1, <2>2, <3>1, <3>2
    <3> QED BY <3>3, <1>1 DEF CallsConserved
  <2> QED BY <1>2, <2>3, <2>4
<1>13. Cascading' /\ counted' \in Int BY <1>1 DEF Cascading, RollupsInvariant
<1> QED BY <1>11, <1>12, <1>13 DEF RollupsInvariant

\* Between cascades, writes and sweeps no call is lost unless they have raced.
THEOREM RollupsInductive == RollupsInvariant /\ [IndexNext]_indexVars => RollupsInvariant'
<1> SUFFICES ASSUME RollupsInvariant, [IndexNext]_indexVars PROVE RollupsInvariant' OBVIOUS
<1>1. ASSUME NEW b \in Times, WriteRED(b) PROVE RollupsInvariant' BY <1>1, WriteREDKeeps
<1>2. CASE SweepRollups BY <1>2, SweepRollupsKeeps
<1>3. CASE CascadeWrite BY <1>3, CascadeKeeps
<1>4. ASSUME NEW from \in {1, 2}, CascadeRead(from) PROVE RollupsInvariant'
  <2> DEFINE read == [b \in {x \in Times : x < itime - Horizon5m /\ red[from][x] # NoRED} |-> red[from][b]]
  <2>1. cascade' = [from |-> from, read |-> read] /\ UNCHANGED <<red, counted, raced>> BY <1>4 DEF CascadeRead
  <2>2. DOMAIN read \subseteq Times /\ \A b \in DOMAIN read : read[b] = red[from][b] OBVIOUS
  <2> HIDE DEF read
  <2>3. cascade'.from = from /\ cascade'.read = read BY <2>1
  <2>4. \A b \in Times : red[from][b].calls \in Int BY DEF RollupsInvariant, Rollups, Rollup
  <2>5. Cascading' BY <2>1, <2>2, <2>3, <2>4 DEF Cascading
  <2> QED BY <2>1, <2>5 DEF RollupsInvariant, Rollups, CallsConserved
<1>5. CASE CascadeFails BY <1>5 DEF CascadeFails, RollupsInvariant, Rollups, Cascading, CallsConserved
<1>6. CASE UNCHANGED <<red, cascade, counted, raced>>
  BY <1>6 DEF RollupsInvariant, Rollups, Cascading, CallsConserved
<1>7. (\E t \in IndexTraces : WriteTrace(t)) \/ Sight \/ WriteEdges \/ SweepStart \/ SweepRows \/ SweepReturns \/ SweepFails
      \/ TickIndex \/ UNCHANGED indexVars => UNCHANGED <<red, cascade, counted, raced>>
  BY DEF WriteTrace, Sight, WriteEdges, SweepStart, SweepRows, SweepReturns, SweepFails, TickIndex, indexVars
<1> QED BY <1>1, <1>2, <1>3, <1>4, <1>5, <1>6, <1>7 DEF IndexNext

\* The invariant of the hot index: rows and rollups do not touch each other.
THEOREM IndexInvariantHolds == IndexSpec => [](RowsInvariant /\ RollupsInvariant)
<1>1. IndexInit => RowsInvariant
  <2> SUFFICES ASSUME IndexInit PROVE RowsInvariant OBVIOUS
  <2>1. itime = 0 /\ rows = [x \in TraceTables |-> {}] /\ sweep = NoSweep BY DEF IndexInit
  <2>2. "span" \in TraceTables BY DEF TraceTables
  <2> QED BY <2>1, <2>2, FS_EmptySet DEF RowsInvariant, RowsTyped, Sweeping, LostIsOld
<1>2. IndexInit => RollupsInvariant
  <2> SUFFICES ASSUME IndexInit PROVE RollupsInvariant OBVIOUS
  <2> DEFINE none == [b \in Times |-> NoRED]
  <2>1. red = [i \in 1 .. 3 |-> none] /\ cascade = NoCascade /\ counted = 0 BY DEF IndexInit
  <2>2. Rollup(none) /\ \A b \in Times : CallColumn(none)[b] = 0 BY DEF Rollup, NoRED, CallColumn
  <2> HIDE DEF none
  <2>3. SumFunctionOnSet(CallColumn(none), Times) = 0
    <3> DEFINE F == CallColumn(none)
    <3>1. \A b \in Times : F[b] = 0 BY <2>2
    <3> HIDE DEF F
    <3>2. SumFunctionOnSet(F, Times) = 0 BY <3>1, TimesFinite, SumZero
    <3> QED BY <3>2 DEF F
  <2>4. CallsIn(none) = 0 BY <2>2, <2>3, CallsInOf
  <2>5. red[1] = none /\ red[2] = none /\ red[3] = none BY <2>1
  <2>6. CallsIn(red[1]) + CallsIn(red[2]) + CallsIn(red[3]) = counted BY <2>1, <2>4, <2>5
  <2> QED BY <2>1, <2>2, <2>6 DEF RollupsInvariant, Rollups, Cascading, CallsConserved
<1>3. RowsInvariant /\ RollupsInvariant /\ [IndexNext]_indexVars => (RowsInvariant /\ RollupsInvariant)'
  BY RowsInductive, RollupsInductive
<1> QED BY <1>1, <1>2, <1>3, PTL DEF IndexSpec

\* However a sweep's transactions, its failures, late writes and cascades
\* interleave, the searches agree on a span within the horizon, a sweep that
\* ends has deleted what was due, and the rollups' calls add up unless a bucket
\* was written between a cascade's read and its write (ExpireBefore,
\* expireAttrIndexBefore, CascadeRED).
THEOREM HotIndexSound == IndexSpec => []HotSound
<1>1. RowsInvariant => IndexesAgree
  <2> SUFFICES ASSUME RowsInvariant, NEW t \in SearchSpans("service"), StartOf[t] >= itime - Horizons.span
               PROVE  t \in SearchSpans("attribute") \cap SearchSpans("text") \cap SearchTraces
    BY DEF IndexesAgree
  <2>1. t \in rows["span"] BY DEF SearchSpans
  <2>2. t \in IndexTraces /\ "span" \in TraceTables BY <2>1 DEF RowsInvariant, RowsTyped, TraceTables
  <2>3. StartOf[t] \in Int /\ itime \in Int /\ Horizons["span"] \in Nat /\ Horizons.span = Horizons["span"]
    BY <2>2, HorizonFacts, IndexAssumption DEF RowsInvariant, RowsTyped
  <2>4. \A x \in TraceTables : t \in rows[x]
    <3> SUFFICES ASSUME NEW x \in TraceTables, t \notin rows[x] PROVE FALSE OBVIOUS
    <3>1. StartOf[t] < itime - Horizons["span"] BY <2>1 DEF RowsInvariant, LostIsOld
    <3> QED BY <3>1, <2>3
  <2>5. t \in rows["attr"] /\ t \in rows["fts"] /\ t \in rows["trace"] BY <2>4 DEF TraceTables
  <2> QED BY <2>1, <2>5 DEF SearchSpans, SearchTraces
<1>2. RowsInvariant => SweptClean
  <2> SUFFICES ASSUME RowsInvariant, sweep.i = 7, NEW p \in sweep.due PROVE p[2] \notin rows[p[1]] BY DEF SweptClean
  <2>1. sweep # NoSweep BY DEF NoSweep
  <2>2. p[1] \in TraceTables BY <2>1 DEF RowsInvariant, Sweeping
  <2>3. PICK j \in 1 .. 4 : SweptTables[j] = p[1]
    <3>1. SweptTables[1] = "span" /\ SweptTables[2] = "attr" /\ SweptTables[3] = "fts" /\ SweptTables[4] = "trace"
      BY DEF SweptTables
    <3>2. 1 \in 1 .. 4 /\ 2 \in 1 .. 4 /\ 3 \in 1 .. 4 /\ 4 \in 1 .. 4 OBVIOUS
    <3> HIDE DEF SweptTables
    <3> QED BY <2>2, <3>1, <3>2 DEF TraceTables
  <2> QED BY <2>1, <2>3 DEF RowsInvariant, Sweeping
<1>3. RollupsInvariant => CallsConserved BY DEF RollupsInvariant
<1> QED BY <1>1, <1>2, <1>3, IndexInvariantHolds, PTL DEF HotSound
=============================================================================
