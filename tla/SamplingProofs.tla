--------------------------- MODULE SamplingProofs ---------------------------
(***************************************************************************)
(* What decides the traces to keep. The interest predicates: the bound on  *)
(* a tenant's predicates and the finality of a removal, for any number of  *)
(* tenants, requests and predicates. Both rest on what the copy held by a  *)
(* match may differ in: never in its tenant or identifier.                 *)
(*                                                                         *)
(* The keep policy: no minute holds more keeps of a metered class than a   *)
(* full bucket and a minute's refill, for any window, capacities and       *)
(* traffic. The strengthening bounds every younger part of the window too, *)
(* by what its ticks refill, against the tokens that are left (Meters).    *)
(***************************************************************************)
EXTENDS Interest, KeepPolicy, SumLemmas, WellFoundedInduction

(* The interest predicates. *)

Scopes == {r.scope : r \in Requests}
Selectors == SUBSET UNION {r.services : r \in Requests}
Signatures == {r.errorSigs : r \in Requests}

PredSet ==
  [id : Nat, tenant : Tenants, scope : Scopes, services : Selectors, errorSigs : Signatures,
   expires : Nat, slowOnly : BOOLEAN, errorsOnly : BOOLEAN, level : 0..3, hits : Nat]

IInv ==
  /\ lastId \in Nat
  /\ IsFiniteSet(preds)
  /\ preds \subseteq PredSet /\ \A p \in preds : p.id <= lastId
  /\ NamesOne
  /\ matching # NoMatch => matching.pred \in PredSet /\ matching.pred.id <= lastId
  /\ CopyFaithful
  /\ TenantBound

-----------------------------------------------------------------------------

\* A set of natural numbers that is not empty has a least element.
LEMMA NatMin ==
  ASSUME NEW T \in SUBSET Nat, T # {}
  PROVE  \E x \in T : \A y \in T : x <= y
<1> DEFINE D == {0 .. x : x \in T}
<1>1. D \subseteq FiniteSubsetsOf(Nat) /\ D # {}
  <2>1. ASSUME NEW x \in T PROVE 0 .. x \in FiniteSubsetsOf(Nat)
    BY FS_Interval DEF FiniteSubsetsOf
  <2> QED BY <2>1
<1>2. PICK d \in D : \A c \in D : ~(<<c, d>> \in StrictSubsetOrdering(Nat))
  <2> HIDE DEF D
  <2> QED BY <1>1, FS_StrictSubsetOrderingWellFounded, WFMin
<1>3. PICK x \in T : d = 0 .. x
  OBVIOUS
<1>4. ASSUME NEW y \in T, y < x PROVE FALSE
  <2>1. 0 .. y \in SUBSET Nat /\ 0 .. x \in SUBSET Nat /\ 0 .. y \subseteq 0 .. x /\ x \in 0 .. x /\ x \notin 0 .. y
    BY <1>4
  <2>2. <<0 .. y, d>> \in StrictSubsetOrdering(Nat)
    BY <2>1, <1>3 DEF StrictSubsetOrdering
  <2> QED BY <1>2, <2>2
<1> QED BY <1>4

\* A map over a finite set has at most as many values as the set has members.
LEMMA Mapped ==
  ASSUME NEW S, IsFiniteSet(S), NEW T, NEW f \in [S -> T], T = {f[x] : x \in S}
  PROVE  IsFiniteSet(T) /\ Cardinality(T) <= Cardinality(S)
<1>1. f \in Surjection(S, T)
  BY DEF Surjection
<1> QED BY <1>1, FS_Surjection

\* The eviction finds a victim: Before is a total order on predicates with
\* identifiers of their own.
LEMMA SomeVictim ==
  ASSUME NEW P \in SUBSET PredSet, P # {}, \A p, q \in P : p.id = q.id => p = q
  PROVE  \E p \in P : \A q \in P \ {p} : Before(p, q)
<1> DEFINE H == {p.hits : p \in P}
<1>1. PICK h \in H : \A k \in H : h <= k
  <2>1. H \in SUBSET Nat /\ H # {}
    BY DEF PredSet
  <2> HIDE DEF H
  <2> QED BY <2>1, NatMin
<1> DEFINE P1 == {p \in P : p.hits = h}
           E == {p.expires : p \in P1}
<1>2. PICK e \in E : \A k \in E : e <= k
  <2>1. E \in SUBSET Nat /\ E # {}
    BY DEF PredSet
  <2> HIDE DEF E
  <2> QED BY <2>1, NatMin
<1> DEFINE P2 == {p \in P1 : p.expires = e}
           I == {p.id : p \in P2}
<1>3. PICK i \in I : \A k \in I : i <= k
  <2>1. I \in SUBSET Nat /\ I # {}
    BY DEF PredSet
  <2> HIDE DEF I
  <2> QED BY <2>1, NatMin
<1>4. PICK p \in P2 : p.id = i
  OBVIOUS
<1>5. ASSUME NEW q \in P \ {p} PROVE Before(p, q)
  <2>1. p \in PredSet /\ q \in PredSet /\ p.id # q.id /\ p.hits <= q.hits
    BY <1>1
  <2>2. p.hits \in Nat /\ q.hits \in Nat /\ p.expires \in Nat /\ q.expires \in Nat /\ p.id \in Nat /\ q.id \in Nat
    BY <2>1 DEF PredSet
  <2>3. q.hits = p.hits => q \in P1 /\ p.expires <= q.expires
    BY <1>2
  <2>4. q.hits = p.hits /\ q.expires = p.expires => p.id <= q.id
    BY <1>3, <1>4, <2>3
  <2> QED BY <2>1, <2>2, <2>3, <2>4 DEF Before
<1> QED BY <1>4, <1>5

-----------------------------------------------------------------------------
(* The steps.                                                              *)

\* Add keeps the invariant: it evicts before it adds.
LEMMA AddKeeps == ASSUME IInv, NEW r \in Requests, Add(r) PROVE IInv'
<1> DEFINE t == r.tenant
           new == Pred(r, lastId + 1)
<1>1. new \in PredSet /\ new.id = lastId + 1 /\ new.tenant = t
  BY InterestAssumption DEF IInv, Pred, PredSet, Scopes, Selectors, Signatures
<1>2. preds' = (preds \ Victims(t)) \cup {new} /\ lastId' = lastId + 1 /\ matching' = matching
  BY DEF Add
<1>3. IsFiniteSet(preds \ Victims(t)) /\ IsFiniteSet(preds')
  BY <1>2, FS_Subset, FS_AddElement DEF IInv
<1>4. \A p \in preds : p.id \in Nat /\ p.id # new.id
  BY <1>1 DEF IInv, PredSet
<1>5. NamesOne'
  BY <1>1, <1>2, <1>4 DEF IInv, NamesOne
<1>6. CopyFaithful'
  <2>1. matching.pred.id # new.id \/ matching = NoMatch
    BY <1>1 DEF IInv, PredSet
  <2> QED BY <1>2, <2>1 DEF IInv, CopyFaithful
<1>7. ASSUME NEW s \in Tenants PROVE Cardinality(Of(s)') <= MaxPreds
  <2>1. IsFiniteSet(Of(s)) /\ Cardinality(Of(s)) \in Nat /\ Cardinality(Of(s)) <= MaxPreds /\ MaxPreds \in Nat \ {0}
    BY FS_Subset, FS_CardinalityType, InterestAssumption DEF IInv, Of, TenantBound
  <2>2. CASE s # t
    <3>1. Of(s)' = Of(s)
      BY <1>1, <1>2, <2>2 DEF Of, Victims
    <3> QED BY <2>1, <3>1
  <2>3. CASE s = t
    <3>1. Of(s)' = (Of(s) \ Victims(t)) \cup {new}
      BY <1>1, <1>2, <2>3 DEF Of
    <3>2. IsFiniteSet(Of(s) \ Victims(t)) /\ Cardinality(Of(s) \ Victims(t)) < MaxPreds
      <4>1. CASE Cardinality(Of(t)) < MaxPreds
        <5>1. Victims(t) = {}
          BY <4>1 DEF Victims
        <5> QED BY <2>1, <2>3, <4>1, <5>1
      <4>2. CASE ~(Cardinality(Of(t)) < MaxPreds)
        <5>1. Of(t) # {} /\ Of(t) \in SUBSET PredSet
          BY <2>1, <2>3, <4>2, FS_EmptySet DEF IInv, Of
        <5>2. PICK v \in Of(t) : \A q \in Of(t) \ {v} : Before(v, q)
          BY <5>1, SomeVictim DEF IInv, NamesOne, Of
        <5>3. v \in Victims(t)
          BY <4>2, <5>2 DEF Victims
        <5>4. Cardinality(Of(t) \ {v}) = Cardinality(Of(t)) - 1 /\ IsFiniteSet(Of(t) \ {v})
          BY <2>1, <2>3, <5>2, FS_RemoveElement
        <5>5. IsFiniteSet(Of(s) \ Victims(t)) /\ Cardinality(Of(s) \ Victims(t)) <= Cardinality(Of(t) \ {v})
          BY <2>3, <5>3, <5>4, FS_Subset
        <5>6. Cardinality(Of(s) \ Victims(t)) \in Nat
          BY <5>5, FS_CardinalityType
        <5> QED BY <2>1, <2>3, <5>4, <5>5, <5>6
      <4> QED BY <4>1, <4>2
    <3> DEFINE kept == Of(s) \ Victims(t)
    <3> HIDE DEF kept, new
    <3>3. Cardinality(kept \cup {new}) <= Cardinality(kept) + 1 /\ Cardinality(kept) \in Nat /\ Cardinality(kept \cup {new}) \in Nat
      <4>1. IsFiniteSet(kept)
        BY <3>2 DEF kept
      <4>2. Cardinality(kept) \in Nat
        BY <4>1, FS_CardinalityType
      <4>3. Cardinality(kept \cup {new}) = IF new \in kept THEN Cardinality(kept) ELSE Cardinality(kept) + 1
        BY <4>1, FS_AddElement
      <4> QED BY <4>2, <4>3
    <3>4. Of(s)' = kept \cup {new} /\ Cardinality(kept) < MaxPreds
      BY <3>1, <3>2 DEF kept
    <3> QED BY <2>1, <3>2, <3>3, <3>4
  <2> QED BY <2>2, <2>3
<1>8. TenantBound'
  BY <1>7 DEF TenantBound
<1>9. preds' \subseteq PredSet /\ \A p \in preds' : p.id <= lastId'
  BY <1>1, <1>2, <1>4 DEF IInv
<1>10. matching' # NoMatch => matching'.pred \in PredSet /\ matching'.pred.id <= lastId'
  BY <1>2 DEF IInv, PredSet
<1> QED BY <1>2, <1>3, <1>5, <1>6, <1>8, <1>9, <1>10 DEF IInv

\* Steps that only take predicates away.
LEMMA ShrinkKeeps ==
  ASSUME IInv, preds' \subseteq preds, lastId' = lastId, matching' = matching
  PROVE  IInv'
<1>1. IsFiniteSet(preds')
  BY FS_Subset DEF IInv
<1>2. ASSUME NEW t \in Tenants PROVE Cardinality(Of(t)') <= MaxPreds
  <2>1. IsFiniteSet(Of(t)) /\ Of(t)' \subseteq Of(t)
    BY FS_Subset DEF IInv, Of
  <2>2. Cardinality(Of(t)') <= Cardinality(Of(t)) /\ Cardinality(Of(t)') \in Nat /\ Cardinality(Of(t)) \in Nat
    BY <2>1, FS_Subset, FS_CardinalityType
  <2> QED BY <2>2, InterestAssumption DEF IInv, TenantBound
<1> QED BY <1>1, <1>2 DEF IInv, NamesOne, CopyFaithful, TenantBound

\* Steps that replace every predicate by one with its identifier and tenant.
LEMMA ReplaceKeeps ==
  ASSUME IInv, NEW f \in [preds -> PredSet], preds' = {f[p] : p \in preds},
         \A p \in preds : f[p].id = p.id /\ f[p].tenant = p.tenant,
         lastId' = lastId, matching' \in {matching, NoMatch}
  PROVE  IInv'
<1>1. IsFiniteSet(preds')
  BY Mapped DEF IInv
<1>2. ASSUME NEW t \in Tenants PROVE Cardinality(Of(t)') <= MaxPreds
  <2> DEFINE g == [p \in Of(t) |-> f[p]]
  <2>1. IsFiniteSet(Of(t)) /\ Of(t) \subseteq preds
    BY FS_Subset DEF IInv, Of
  <2>2. Of(t)' = {g[p] : p \in Of(t)}
    BY DEF Of
  <2>3. g \in [Of(t) -> Of(t)']
    BY <2>2
  <2> HIDE DEF g
  <2>4. Cardinality(Of(t)') <= Cardinality(Of(t)) /\ IsFiniteSet(Of(t)')
    BY <2>1, <2>2, <2>3, Mapped
  <2>5. Cardinality(Of(t)') \in Nat /\ Cardinality(Of(t)) \in Nat
    BY <2>1, <2>4, FS_CardinalityType
  <2> QED BY <2>4, <2>5, InterestAssumption DEF IInv, TenantBound
<1> QED BY <1>1, <1>2 DEF IInv, NamesOne, CopyFaithful, TenantBound

\* What a match holds stays typed.
LEMMA ScanKeeps == ASSUME IInv, NEW t \in TraceKinds, MatchScan(t) PROVE IInv'
<1> DEFINE fitting == {p \in preds : Fits(p, t)}
           p0 == First(fitting)
           u == [p0 EXCEPT !.hits = @ + 1]
<1>1. PICK p \in fitting : \A q \in fitting : p.id <= q.id
  <2> DEFINE I == {p.id : p \in fitting}
  <2>1. I \in SUBSET Nat /\ I # {}
    BY DEF MatchScan, IInv, PredSet
  <2>2. PICK i \in I : \A k \in I : i <= k
    <3> HIDE DEF I
    <3> QED BY <2>1, NatMin
  <2>3. PICK p \in fitting : p.id = i
    OBVIOUS
  <2> QED BY <2>2, <2>3
<1>2. p0 \in preds
  BY <1>1 DEF First
<1>3. p0 \in PredSet /\ p0.id <= lastId
  BY <1>2 DEF IInv
<1> HIDE DEF p0
<1>4. u \in PredSet /\ u.id = p0.id /\ u.tenant = p0.tenant
  BY <1>3 DEF PredSet
<1>5. matching' = [pred |-> u, tenant |-> t.tenant] /\ preds' = preds /\ lastId' = lastId
  BY DEF MatchScan, p0
<1>6. CopyFaithful'
  BY <1>2, <1>4, <1>5 DEF IInv, NamesOne, CopyFaithful
<1>7. NamesOne' /\ TenantBound'
  BY <1>5 DEF IInv, NamesOne, TenantBound, Of
<1> QED BY <1>3, <1>4, <1>5, <1>6, <1>7 DEF IInv

\* What a match publishes replaces the predicate it was copied from.
LEMMA PublishKeeps == ASSUME IInv, MatchPublish PROVE IInv'
<1> DEFINE u == matching.pred
           f == [p \in preds |-> IF p.id = u.id THEN u ELSE p]
<1>1. f \in [preds -> PredSet]
  BY DEF MatchPublish, IInv
<1>2. preds' = {f[p] : p \in preds} /\ lastId' = lastId /\ matching' = NoMatch
  BY DEF MatchPublish, Published
<1>3. \A p \in preds : f[p].id = p.id /\ f[p].tenant = p.tenant
  BY DEF MatchPublish, IInv, CopyFaithful
<1> HIDE DEF f
<1> QED BY <1>1, <1>2, <1>3, ReplaceKeeps

\* Narrow keeps it: one predicate is evicted or replaced under its own
\* identifier.
LEMMA NarrowKeeps == ASSUME IInv, NEW level \in Levels, Narrow(level) PROVE IInv'
<1>1. CASE level = 4
  BY <1>1, ShrinkKeeps DEF Narrow
<1>2. CASE level # 4
  <2> DEFINE f == [p \in preds |-> Narrower(p, level)]
  <2>1. level \in {1, 2, 3} /\ level \in 0..3
    BY <1>2, InterestAssumption
  <2>2. ASSUME NEW p \in preds
        PROVE  /\ Narrower(p, level) \in PredSet
               /\ Narrower(p, level).id = p.id /\ Narrower(p, level).tenant = p.tenant
    <3>1. p \in PredSet
      BY DEF IInv
    <3>2. CASE level = 1
      <4> DEFINE flag == TRUE
      <4>1. flag \in BOOLEAN
        OBVIOUS
      <4>2. Narrower(p, level) = [p EXCEPT !.slowOnly = flag, !.level = level]
        BY <3>2 DEF Narrower
      <4> HIDE DEF flag
      <4>3. [p EXCEPT !.slowOnly = flag, !.level = level] \in PredSet
        BY <2>1, <3>1, <4>1 DEF PredSet
      <4> QED BY <3>1, <4>2, <4>3 DEF PredSet
    <3>3. CASE level = 2
      <4> DEFINE flag == TRUE
      <4>1. flag \in BOOLEAN
        OBVIOUS
      <4>2. Narrower(p, level) = [p EXCEPT !.errorsOnly = flag, !.level = level]
        BY <3>3 DEF Narrower
      <4> HIDE DEF flag
      <4>3. [p EXCEPT !.errorsOnly = flag, !.level = level] \in PredSet
        BY <2>1, <3>1, <4>1 DEF PredSet
      <4> QED BY <3>1, <4>2, <4>3 DEF PredSet
    <3>4. CASE level = 3
      <4> DEFINE one == IF Cardinality(p.services) > 1 THEN {CHOOSE s \in p.services : TRUE} ELSE p.services
      <4>1. Cardinality(p.services) > 1 => p.services # {}
        BY FS_EmptySet
      <4>2. p.services \in Selectors
        BY <3>1 DEF PredSet
      <4>3. one \in Selectors
        BY <4>1, <4>2 DEF Selectors
      <4>4. Narrower(p, level) = [p EXCEPT !.services = one, !.level = level]
        BY <3>4 DEF Narrower
      <4> HIDE DEF one
      <4>5. [p EXCEPT !.services = one, !.level = level] \in PredSet
        BY <2>1, <3>1, <4>3 DEF PredSet
      <4> QED BY <3>1, <4>4, <4>5 DEF PredSet
    <3> QED BY <2>1, <3>2, <3>3, <3>4
  <2>3. f \in [preds -> PredSet] /\ \A p \in preds : f[p].id = p.id /\ f[p].tenant = p.tenant
    BY <2>2
  <2>4. preds' = {f[p] : p \in preds} /\ lastId' = lastId /\ matching' = matching
    BY <1>2 DEF Narrow
  <2> HIDE DEF f
  <2> QED BY <2>3, <2>4, ReplaceKeeps
<1> QED BY <1>1, <1>2

\* The inductive invariant of the predicates.
LEMMA InterestInv == InterestSpec => []IInv
<1>1. InterestInit => IInv
  <2> SUFFICES ASSUME InterestInit PROVE IInv
    OBVIOUS
  <2>1. \A t \in Tenants : Of(t) = {}
    BY DEF InterestInit, Of
  <2>2. TenantBound
    BY <2>1, FS_EmptySet, InterestAssumption DEF TenantBound
  <2> QED BY <2>2, FS_EmptySet DEF InterestInit, IInv, NamesOne, CopyFaithful
<1>2. IInv /\ [InterestNext]_interestVars => IInv'
  <2> SUFFICES ASSUME IInv, [InterestNext]_interestVars PROVE IInv'
    OBVIOUS
  <2>1. ASSUME NEW r \in Requests, Add(r) PROVE IInv'
    BY <2>1, AddKeeps
  <2>2. ASSUME NEW id \in Ids, Remove(id) PROVE IInv'
    BY <2>2, ShrinkKeeps DEF Remove, Without
  <2>3. ASSUME NEW t \in TraceKinds, MatchScan(t) PROVE IInv'
    BY <2>3, ScanKeeps
  <2>4. CASE MatchPublish
    BY <2>4, PublishKeeps
  <2>5. ASSUME NEW now \in Times, ExpireDue(now) PROVE IInv'
    BY <2>5, ShrinkKeeps DEF ExpireDue
  <2>6. ASSUME NEW level \in Levels, Narrow(level) PROVE IInv'
    BY <2>6, NarrowKeeps
  <2>7. CASE UNCHANGED interestVars
    BY <2>7, ShrinkKeeps DEF interestVars
  <2> QED BY <2>1, <2>2, <2>3, <2>4, <2>5, <2>6, <2>7 DEF InterestNext
<1> QED BY <1>1, <1>2, PTL DEF InterestSpec

-----------------------------------------------------------------------------
(* What the program relies on.                                             *)

\* No tenant ever holds more than max_predicates predicates, whatever copies
\* matches publish between the additions (Add, storeUpdated).
THEOREM BoundPerTenant == InterestSpec => []TenantBound
<1>1. IInv => TenantBound
  BY DEF IInv
<1> QED BY <1>1, InterestInv, PTL

\* A predicate that was removed, evicted or expired does not come back, though
\* a match may still hold a copy of it (storeUpdated).
THEOREM RemovedStaysRemoved == InterestSpec => GoneForGood
<1> DEFINE Gone == \A id \in 1..lastId : id \notin Ids => id \notin Ids'
<1>1. ASSUME IInv, InterestNext PROVE Gone
  <2>1. ASSUME NEW r \in Requests, Add(r) PROVE Gone
    <3>1. Pred(r, lastId + 1).id = lastId + 1
      BY DEF Pred
    <3>2. preds' \subseteq preds \cup {Pred(r, lastId + 1)}
      BY <2>1 DEF Add
    <3> QED BY <1>1, <3>1, <3>2 DEF Ids, IInv
  <2>2. ASSUME preds' \subseteq preds PROVE Gone
    BY <2>2 DEF Ids
  <2>3. ASSUME NEW id \in Ids, Remove(id) PROVE Gone
    BY <2>2, <2>3 DEF Remove, Without
  <2>4. ASSUME NEW t \in TraceKinds, MatchScan(t) PROVE Gone
    BY <2>2, <2>4 DEF MatchScan
  <2>5. CASE MatchPublish
    BY <2>5 DEF MatchPublish, Published, Ids
  <2>6. ASSUME NEW now \in Times, ExpireDue(now) PROVE Gone
    BY <2>2, <2>6 DEF ExpireDue
  <2>7. ASSUME NEW level \in Levels, Narrow(level) PROVE Gone
    <3>1. CASE level = 4
      BY <2>2, <2>7, <3>1 DEF Narrow
    <3>2. CASE level # 4
      <4>1. level \in {1, 2, 3}
        BY <3>2, InterestAssumption
      <4>2. \A p \in preds : Narrower(p, level).id = p.id
        BY <1>1, <4>1 DEF Narrower, IInv, PredSet
      <4> QED BY <2>7, <3>2, <4>2 DEF Narrow, Ids
    <3> QED BY <3>1, <3>2
  <2> QED BY <1>1, <2>1, <2>3, <2>4, <2>5, <2>6, <2>7 DEF InterestNext
<1>2. IInv /\ [InterestNext]_interestVars => [Gone]_interestVars
  BY <1>1
<1> QED BY <1>2, InterestInv, PTL DEF InterestSpec, GoneForGood

-----------------------------------------------------------------------------
(* The keep policy. *)

Classes == {"error", "slow", "rare", "interest", "floor", "probabilistic", "dropped", "truncated", "shed"}
Events == [age : Nat, reason : Classes, root : Roots]

\* The events of a history no older than k ticks whose class is in T, where a
\* class is a reason and a root.
Counted(h, T, k) == {i \in DOMAIN h : h[i].age <= k /\ <<h[i].reason, h[i].root>> \in T}

Young(h, T, k) == Cardinality(Counted(h, T, k))

\* The keeps of a class in k ticks and the tokens left are at most a full bucket
\* and what k ticks refill, for every k.
Metered(h, T, tokens, cap) == \A k \in 0..W : W * Young(h, T, k) + tokens <= cap * W + cap * k

\* The history is in the order of the decisions, and no older than the window.
Sorted(h) == \A i, j \in DOMAIN h : i <= j => h[j].age <= h[i].age
Within(h) == \A i \in DOMAIN h : h[i].age <= W

RareKeeps == {"rare"} \X Roots
FloorKeeps(r) == {<<"floor", r>>}

\* The types: no bucket is overdrawn or above its capacity.
Buckets ==
  /\ window \in Seq(Events)
  /\ rareTokens \in 0..RareCap * W
  /\ floorTokens \in [Roots -> 0..FloorCap * W]

\* The inductive part: the order of the history, and the meter of each class.
Meters ==
  /\ Sorted(window) /\ Within(window)
  /\ Metered(window, RareKeeps, rareTokens, RareCap)
  /\ \A r \in Roots : Metered(window, FloorKeeps(r), floorTokens[r], FloorCap)

\* What the proofs need of the constants.
LEMMA PolicyConstants ==
  /\ W \in Nat /\ W > 0 /\ RareCap \in Nat /\ FloorCap \in Nat
BY PolicyAssumption

\* The counts are numbers.
LEMMA YoungType ==
  ASSUME NEW h \in Seq(Events), NEW T, NEW k
  PROVE  IsFiniteSet(Counted(h, T, k)) /\ Young(h, T, k) \in Nat
<1>1. Counted(h, T, k) \in SUBSET (1 .. Len(h)) BY DEF Counted
<1>2. IsFiniteSet(1 .. Len(h)) BY FS_Interval
<1>3. IsFiniteSet(Counted(h, T, k)) BY <1>1, <1>2, FS_Subset
<1> QED BY <1>3, FS_CardinalityType DEF Young

\* A product of natural numbers, for the provers.
LEMMA Products ==
  ASSUME NEW a \in Nat, NEW b \in Nat
  PROVE  a * b \in Nat /\ a * (b + 1) = a * b + a /\ (b > 0 => a * (b - 1) = a * b - a)
OBVIOUS

\* W times a count is below W times twice the capacity only if the count is.
LEMMA MeterBound ==
  ASSUME NEW n \in Nat, NEW c \in Nat, W * n <= c * W + c * W
  PROVE  n <= 2 * c
<1> SUFFICES ASSUME n > 2 * c PROVE FALSE
  OBVIOUS
<1>1. W \in Nat /\ W > 0 BY PolicyConstants
<1> DEFINE d == n - 2 * c
<1>2. d \in Nat /\ d >= 1 /\ n = 2 * c + d OBVIOUS
<1> HIDE DEF d
<1>3. W * n = W * (2 * c) + W * d BY <1>1, <1>2
<1>4. W * d >= W BY <1>1, <1>2
<1>5. W * (2 * c) = c * W + c * W BY <1>1
<1> DEFINE x == W * n  y == W * (2 * c)  z == W * d  v == c * W
<1>6. x \in Int /\ y \in Int /\ z \in Int /\ v \in Int BY <1>1, <1>2
<1>7. x = y + z /\ z >= W /\ y = v + v /\ x <= v + v BY <1>3, <1>4, <1>5
<1> HIDE DEF x, y, z, v
<1> QED BY <1>1, <1>6, <1>7

-----------------------------------------------------------------------------
(* The history. *)

\* A set of numbers that with each has all the smaller ones is an interval.
LEMMA FrontCount ==
  ASSUME NEW N \in Nat, NEW S \in SUBSET (1 .. N), \A i \in S : \A j \in 1 .. i : j \in S
  PROVE  S = 1 .. Cardinality(S) /\ Cardinality(S) \in 0 .. N
<1>0. IsFiniteSet(S) /\ Cardinality(S) \in Nat
  <2>1. IsFiniteSet(1 .. N) BY FS_Interval
  <2>2. IsFiniteSet(S) BY <2>1, FS_Subset
  <2> QED BY <2>2, FS_CardinalityType
<1>1. CASE S = {}
  <2>1. Cardinality(S) = 0 BY <1>1, FS_EmptySet
  <2> QED BY <1>1, <2>1
<1>2. CASE S # {}
  <2>1. \E m \in S : \A i \in S : i <= m
    <3> DEFINE B == {k \in Nat : \A i \in S : i <= N - k}
    <3> SUFFICES ASSUME \A m \in S : \E i \in S : ~(i <= m) PROVE FALSE
      OBVIOUS
    <3>1. B \in SUBSET Nat OBVIOUS
    <3>2. 0 \in B OBVIOUS
    <3>3. ASSUME NEW k \in B PROVE k + 1 \in B
      <4>1. \A i \in S : i <= N - k /\ i \in Int /\ k \in Nat OBVIOUS
      <4>2. N - k \notin S BY <4>1
      <4>3. \A i \in S : i <= N - (k + 1) BY <4>1, <4>2
      <4> QED BY <4>1, <4>3
    <3> HIDE DEF B
    <3>4. B = Nat BY <3>1, <3>2, <3>3, NumbersInduct
    <3>5. N \in B BY <3>4
    <3>6. \A i \in S : i <= 0 BY <3>5 DEF B
    <3>7. PICK i \in S : TRUE BY <1>2
    <3>8. i \in 1 .. N /\ i <= 0 BY <3>6, <3>7
    <3> QED BY <3>8
  <2>2. PICK m \in S : \A i \in S : i <= m BY <2>1
  <2>3. m \in 1 .. N BY <2>2
  <2>4. S = 1 .. m
    <3>1. 1 .. m \subseteq S BY <2>2
    <3>2. S \subseteq 1 .. m BY <2>2
    <3> QED BY <3>1, <3>2
  <2>5. Cardinality(1 .. m) = m BY <2>3, FS_Interval
  <2> QED BY <2>3, <2>4, <2>5
<1> QED BY <1>1, <1>2

\* Where the loop of the pruning has passed.
ExpiredSet(h) == {k \in DOMAIN h : \A j \in 1..k : h[j].age >= W}

\* What has expired is the front of the history.
LEMMA ExpiredFront ==
  ASSUME NEW h \in Seq(Events), Sorted(h)
  PROVE  /\ Expired(h) \in 0 .. Len(h)
         /\ \A i \in DOMAIN h : i <= Expired(h) <=> h[i].age >= W
<1> DEFINE N == Len(h)  S == ExpiredSet(h)  n == Cardinality(S)
<1>1. N \in Nat /\ DOMAIN h = 1 .. N /\ \A i \in 1 .. N : h[i].age \in Nat
  <2>1. N \in Nat /\ DOMAIN h = 1 .. N /\ \A i \in 1 .. N : h[i] \in Events OBVIOUS
  <2> QED BY <2>1 DEF Events
<1>2. Expired(h) = n BY DEF Expired, ExpiredSet
<1>3. \A i \in 1 .. N : i \in S <=> h[i].age >= W
  <2> SUFFICES ASSUME NEW i \in 1 .. N, h[i].age >= W, NEW j \in 1 .. i PROVE h[j].age >= W
    BY <1>1 DEF ExpiredSet
  <2>1. j \in 1 .. N /\ j <= i BY <1>1
  <2>2. h[i].age <= h[j].age BY <1>1, <2>1 DEF Sorted
  <2>3. h[i].age \in Nat /\ h[j].age \in Nat /\ W \in Nat BY <1>1, <2>1, PolicyConstants
  <2> QED BY <2>2, <2>3
<1>4. S \in SUBSET (1 .. N) BY <1>1 DEF ExpiredSet
<1>5. \A i \in S : \A j \in 1 .. i : j \in S
  <2> SUFFICES ASSUME NEW i \in S, NEW j \in 1 .. i PROVE j \in S
    OBVIOUS
  <2>1. i \in 1 .. N /\ \A m \in 1 .. i : h[m].age >= W BY <1>1 DEF ExpiredSet
  <2>2. j \in 1 .. N BY <2>1, <1>1
  <2> QED BY <2>1, <2>2, <1>3
<1> HIDE DEF S
<1>6. S = 1 .. n /\ n \in 0 .. N BY <1>1, <1>4, <1>5, FrontCount
<1> QED BY <1>1, <1>2, <1>3, <1>6

\* What is left of the history is its end, each event a tick older.
LEMMA AgedShape ==
  ASSUME NEW h \in Seq(Events), Sorted(h)
  PROVE  /\ Aged(h) \in Seq(Events)
         /\ DOMAIN Aged(h) = 1 .. Len(h) - Expired(h)
         /\ \A k \in DOMAIN Aged(h) :
              /\ k + Expired(h) \in DOMAIN h
              /\ Aged(h)[k].age = h[k + Expired(h)].age + 1
              /\ Aged(h)[k].reason = h[k + Expired(h)].reason
              /\ Aged(h)[k].root = h[k + Expired(h)].root
<1> DEFINE g == Expired(h)  n == Len(h) - g  a == Aged(h)  Older(e) == [e EXCEPT !.age = @ + 1]
<1>1. g \in 0 .. Len(h) BY ExpiredFront
<1>2. Len(h) \in Nat /\ DOMAIN h = 1 .. Len(h) /\ \A i \in 1 .. Len(h) : h[i] \in Events OBVIOUS
<1>3. a = [k \in 1 .. n |-> Older(h[k + g])] BY DEF Aged
<1>4. \A e \in Events : Older(e) \in Events /\ Older(e).age = e.age + 1
                        /\ Older(e).reason = e.reason /\ Older(e).root = e.root
  BY DEF Events
<1> HIDE DEF g, Older, a
<1>5. n \in Nat /\ \A k \in 1 .. n : k + g \in 1 .. Len(h) BY <1>1, <1>2
<1> HIDE DEF n
<1>6. \A k \in 1 .. n : a[k] = Older(h[k + g]) /\ h[k + g] \in Events BY <1>2, <1>3, <1>5
<1>7. DOMAIN a = 1 .. n BY <1>3
<1>8. \A k \in 1 .. n : a[k] \in Events BY <1>4, <1>6
<1>9. a \in Seq(Events)
  <2>1. a = [k \in 1 .. n |-> a[k]] BY <1>3
  <2>2. a \in [1 .. n -> Events] BY <1>8, <2>1
  <2> QED BY <1>5, <2>2
<1>10. \A k \in 1 .. n : a[k].age = h[k + g].age + 1 /\ a[k].reason = h[k + g].reason /\ a[k].root = h[k + g].root
  BY <1>4, <1>6
<1> QED BY <1>2, <1>5, <1>7, <1>9, <1>10 DEF a, g, n

\* A tick keeps the order, and leaves nothing older than the window.
LEMMA AgedOrder ==
  ASSUME NEW h \in Seq(Events), Sorted(h)
  PROVE  Sorted(Aged(h)) /\ Within(Aged(h))
<1> DEFINE g == Expired(h)  a == Aged(h)
<1>1. \A k \in DOMAIN a : k + g \in DOMAIN h /\ a[k].age = h[k + g].age + 1 BY AgedShape
<1>2. \A i \in DOMAIN h : h[i].age \in Nat
  <2>1. \A i \in DOMAIN h : h[i] \in Events OBVIOUS
  <2> QED BY <2>1 DEF Events
<1>3. g \in Nat /\ \A i \in DOMAIN h : i <= g <=> h[i].age >= W BY ExpiredFront
<1>4. DOMAIN a \subseteq Nat \ {0}
  <2>1. DOMAIN a = 1 .. Len(h) - g BY AgedShape
  <2> QED BY <2>1, <1>3
<1> HIDE DEF a, g
<1>5. ASSUME NEW k \in DOMAIN a PROVE a[k].age <= W
  <2>1. k + g \in DOMAIN h /\ k >= 1 /\ k \in Nat BY <1>1, <1>4
  <2>2. ~(k + g <= g) BY <1>3, <2>1
  <2>3. ~(h[k + g].age >= W) /\ h[k + g].age \in Nat BY <1>2, <1>3, <2>1, <2>2
  <2>4. a[k].age = h[k + g].age + 1 BY <1>1
  <2> QED BY <2>3, <2>4, PolicyConstants
<1>6. ASSUME NEW i \in DOMAIN a, NEW j \in DOMAIN a, i <= j PROVE a[j].age <= a[i].age
  <2>1. i + g \in DOMAIN h /\ j + g \in DOMAIN h BY <1>1
  <2>2. i + g <= j + g BY <1>3, <1>4, <1>6
  <2>3. h[j + g].age <= h[i + g].age BY <2>1, <2>2 DEF Sorted
  <2>4. a[i].age = h[i + g].age + 1 /\ a[j].age = h[j + g].age + 1 BY <1>1
  <2>5. h[i + g].age \in Nat /\ h[j + g].age \in Nat BY <1>2, <2>1
  <2> QED BY <2>3, <2>4, <2>5
<1> QED BY <1>5, <1>6 DEF Sorted, Within, a

\* What is younger than k after a tick was younger than k - 1 before it.
LEMMA AgedYoung ==
  ASSUME NEW h \in Seq(Events), Sorted(h), NEW T, NEW k \in Nat
  PROVE  /\ k > 0 => Young(Aged(h), T, k) <= Young(h, T, k - 1)
         /\ k = 0 => Young(Aged(h), T, k) = 0
<1> DEFINE g == Expired(h)  a == Aged(h)  A == Counted(a, T, k)  B == Counted(h, T, k - 1)
           f == [i \in A |-> i + g]
<1>1. a \in Seq(Events) BY AgedShape
<1>2. \A i \in DOMAIN a : /\ i + g \in DOMAIN h /\ a[i].age = h[i + g].age + 1
                          /\ a[i].reason = h[i + g].reason /\ a[i].root = h[i + g].root
  BY AgedShape
<1>3. \A i \in DOMAIN h : h[i].age \in Nat
  <2>1. \A i \in DOMAIN h : h[i] \in Events OBVIOUS
  <2> QED BY <2>1 DEF Events
<1>4. g \in Nat BY ExpiredFront
<1>5. IsFiniteSet(A) /\ IsFiniteSet(B) BY <1>1, YoungType
<1>6. \A i \in A : i \in DOMAIN a /\ a[i].age <= k /\ <<a[i].reason, a[i].root>> \in T BY DEF Counted
<1>7. DOMAIN a \subseteq Nat BY <1>1
<1> HIDE DEF a, g
<1>8. ASSUME NEW i \in A PROVE i + g \in B
  <2>1. i + g \in DOMAIN h /\ a[i].age = h[i + g].age + 1 /\ a[i].age <= k BY <1>2, <1>6
  <2>2. h[i + g].age \in Nat BY <1>3, <2>1
  <2>3. h[i + g].age <= k - 1 BY <2>1, <2>2
  <2>4. <<h[i + g].reason, h[i + g].root>> \in T BY <1>2, <1>6
  <2> QED BY <2>1, <2>3, <2>4 DEF Counted
<1>9. CASE k > 0
  <2>1. f \in Injection(A, B)
    <3>1. f \in [A -> B] BY <1>8
    <3>2. \A i, j \in A : f[i] = f[j] => i = j
      <4>1. \A i \in A : i \in Nat BY <1>6, <1>7
      <4>2. \A i \in A : f[i] = i + g OBVIOUS
      <4> HIDE DEF A, f
      <4> QED BY <4>1, <4>2, <1>4
    <3> HIDE DEF f, A, B
    <3> QED BY <3>1, <3>2 DEF Injection, IsInjective
  <2> HIDE DEF f, A, B
  <2>2. Cardinality(A) <= Cardinality(B) BY <2>1, <1>5, FS_Injection
  <2> QED BY <2>2, <1>9 DEF A, B, Young, a
<1>10. CASE k = 0
  <2>1. A = {}
    <3> SUFFICES ASSUME NEW i \in A PROVE FALSE
      OBVIOUS
    <3>1. i + g \in DOMAIN h /\ a[i].age = h[i + g].age + 1 /\ a[i].age <= 0 BY <1>2, <1>6, <1>10
    <3>2. h[i + g].age \in Nat BY <1>3, <3>1
    <3> QED BY <3>1, <3>2
  <2> HIDE DEF A
  <2>2. Cardinality(A) = 0 BY <2>1, FS_EmptySet
  <2> QED BY <2>2, <1>10 DEF A, Young, a
<1> QED BY <1>9, <1>10

\* A decision joins the end of the history at age 0.
LEMMA AppendShape ==
  ASSUME NEW h \in Seq(Events), NEW e \in Events, e.age = 0, Sorted(h), Within(h)
  PROVE  /\ Append(h, e) \in Seq(Events) /\ Sorted(Append(h, e)) /\ Within(Append(h, e))
         /\ DOMAIN Append(h, e) = 1 .. Len(h) + 1 /\ Append(h, e)[Len(h) + 1] = e
         /\ \A i \in 1 .. Len(h) : Append(h, e)[i] = h[i]
<1> DEFINE a == Append(h, e)  n == Len(h)
<1>1. n \in Nat /\ DOMAIN h = 1 .. n /\ DOMAIN a = 1 .. n + 1 /\ a[n + 1] = e /\ a \in Seq(Events)
      /\ \A i \in 1 .. n : a[i] = h[i] /\ h[i] \in Events
  OBVIOUS
<1> HIDE DEF a, n
<1>2. ASSUME NEW i \in DOMAIN a PROVE i = n + 1 \/ (i \in 1 .. n /\ i \in DOMAIN h /\ a[i] = h[i])
  BY <1>1
<1>3. \A i \in DOMAIN a : a[i].age \in Nat
  <2>1. \A i \in DOMAIN a : a[i] \in Events BY <1>1, <1>2
  <2> QED BY <2>1 DEF Events
<1>4. ASSUME NEW i \in DOMAIN a PROVE a[i].age <= W
  <2>1. CASE i = n + 1 BY <2>1, <1>1, PolicyConstants
  <2>2. CASE i # n + 1 BY <2>2, <1>2 DEF Within
  <2> QED BY <2>1, <2>2
<1>5. ASSUME NEW i \in DOMAIN a, NEW j \in DOMAIN a, i <= j PROVE a[j].age <= a[i].age
  <2>1. CASE j = n + 1
    <3>1. a[j].age = 0 BY <2>1, <1>1
    <3> QED BY <3>1, <1>3
  <2>2. CASE j # n + 1
    <3>1. j \in 1 .. n BY <2>2, <1>2
    <3>2. i # n + 1 BY <3>1, <1>5, <1>1
    <3> QED BY <2>2, <3>2, <1>2, <1>5 DEF Sorted
  <2> QED BY <2>1, <2>2
<1> QED BY <1>1, <1>4, <1>5 DEF Sorted, Within, a, n

\* It adds one to the count of its class, and nothing to the others.
LEMMA AppendYoung ==
  ASSUME NEW h \in Seq(Events), NEW e \in Events, e.age = 0, Sorted(h), Within(h), NEW T, NEW k \in Nat
  PROVE  /\ Young(Append(h, e), T, k) <= Young(h, T, k) + 1
         /\ <<e.reason, e.root>> \notin T => Young(Append(h, e), T, k) = Young(h, T, k)
<1> DEFINE a == Append(h, e)  n == Len(h)  A == Counted(a, T, k)  B == Counted(h, T, k)
<1>1. n \in Nat /\ DOMAIN h = 1 .. n BY DEF n
<1>2. DOMAIN a = 1 .. n + 1 /\ a[n + 1] = e /\ a \in Seq(Events) /\ \A i \in 1 .. n : a[i] = h[i]
  BY AppendShape
<1>3. IsFiniteSet(A) /\ IsFiniteSet(B) /\ Cardinality(B) \in Nat /\ Cardinality(A) \in Nat
  BY <1>2, YoungType DEF Young
<1> HIDE DEF a, n
<1>4. \A i \in 1 .. n : i \in A <=> i \in B BY <1>1, <1>2 DEF Counted
<1>5. A \subseteq 1 .. n + 1 /\ B \subseteq 1 .. n BY <1>1, <1>2 DEF Counted
<1>6. n + 1 \in A => <<e.reason, e.root>> \in T BY <1>2 DEF Counted
<1> HIDE DEF A, B
<1>7. A \ {n + 1} = B
  <2>1. \A i \in 1 .. n + 1 : i # n + 1 => i \in 1 .. n BY <1>1
  <2>2. \A i \in 1 .. n : i # n + 1 /\ i \in 1 .. n + 1 BY <1>1
  <2> QED BY <2>1, <2>2, <1>4, <1>5
<1>8. CASE n + 1 \in A
  <2>1. Cardinality(A \ {n + 1}) = Cardinality(A) - 1 BY <1>3, <1>8, FS_RemoveElement
  <2> DEFINE x == Cardinality(A)  y == Cardinality(B)
  <2>3. y = x - 1 /\ x \in Nat /\ y \in Nat BY <2>1, <1>3, <1>7
  <2> HIDE DEF x, y
  <2>4. x <= y + 1 BY <2>3
  <2>2. Cardinality(A) <= Cardinality(B) + 1 BY <2>4 DEF x, y
  <2> QED BY <2>2, <1>6, <1>8 DEF Young, A, B, a
<1>9. CASE n + 1 \notin A
  <2>1. A = B BY <1>7, <1>9
  <2>2. Cardinality(A) = Cardinality(B) /\ Cardinality(A) <= Cardinality(B) + 1 BY <2>1, <1>3
  <2> QED BY <2>2 DEF Young, A, B, a
<1> QED BY <1>8, <1>9

-----------------------------------------------------------------------------
(* The meters: the keeps of a class younger than k ticks, and the tokens   *)
(* left, are at most a full bucket and what k ticks refill.                *)

\* A tick keeps a meter: each age moves on by one, and the bucket gains no more
\* than the bound does.
LEMMA MeterTick ==
  ASSUME NEW h \in Seq(Events), Sorted(h), NEW T, NEW cap \in Nat, NEW tokens \in 0..cap * W,
         Metered(h, T, tokens, cap)
  PROVE  /\ Metered(Aged(h), T, Refilled(tokens, cap), cap)
         /\ Refilled(tokens, cap) \in 0..cap * W
<1> DEFINE c == cap * W  t == Refilled(tokens, cap)
<1>1. c \in Nat /\ W \in Nat BY PolicyConstants, Products
<1>2. tokens \in 0..c /\ t = IF tokens + cap < c THEN tokens + cap ELSE c BY DEF Refilled
<1> HIDE DEF c, t
<1>3. t \in 0..c /\ t <= tokens + cap BY <1>1, <1>2
<1>4. ASSUME NEW k \in 0..W PROVE W * Young(Aged(h), T, k) + t <= c + cap * k
  <2>1. k \in Nat BY <1>1
  <2>2. CASE k = 0
    <3>1. Young(Aged(h), T, k) = 0 BY <2>1, <2>2, AgedYoung
    <3>2. W * Young(Aged(h), T, k) = 0 /\ cap * k = 0 BY <3>1, <2>2, <1>1
    <3> QED BY <3>2, <1>1, <1>3
  <2>3. CASE k > 0
    <3> DEFINE x == Young(Aged(h), T, k)  y == Young(h, T, k - 1)
    <3>1. x <= y BY <2>1, <2>3, AgedYoung
    <3>2. x \in Nat /\ y \in Nat BY YoungType, AgedShape
    <3>3. W * y + tokens <= c + cap * (k - 1)
      <4>1. k - 1 \in 0..W BY <2>1, <2>3, <1>1
      <4> QED BY <4>1 DEF Metered, c
    <3>4. cap * (k - 1) = cap * k - cap /\ cap * k \in Nat BY <2>1, <2>3, Products
    <3> HIDE DEF x, y
    <3>5. W * x <= W * y /\ W * x \in Nat /\ W * y \in Nat BY <3>1, <3>2, <1>1
    <3> DEFINE p == W * x  q == W * y  r == cap * k
    <3>6. p \in Nat /\ q \in Nat /\ r \in Nat /\ p <= q /\ q + tokens <= c + (r - cap) BY <3>3, <3>4, <3>5
    <3> HIDE DEF p, q, r
    <3>7. p + t <= c + r BY <3>6, <1>1, <1>2, <1>3
    <3> QED BY <3>7 DEF p, r, x
  <2> QED BY <2>1, <2>2, <2>3
<1> QED BY <1>3, <1>4 DEF Metered, c, t

\* A decision that takes a token keeps the meter of its bucket, whatever it is
\* recorded as.
LEMMA MeterSpend ==
  ASSUME NEW h \in Seq(Events), NEW e \in Events, e.age = 0, Sorted(h), Within(h),
         NEW T, NEW cap \in Nat, NEW tokens \in Nat, Metered(h, T, tokens, cap)
  PROVE  Metered(Append(h, e), T, tokens - W, cap)
<1> SUFFICES ASSUME NEW k \in 0..W
             PROVE  W * Young(Append(h, e), T, k) + (tokens - W) <= cap * W + cap * k
  BY DEF Metered
<1> DEFINE x == Young(Append(h, e), T, k)  y == Young(h, T, k)
<1>1. k \in Nat /\ W \in Nat BY PolicyConstants
<1>2. x <= y + 1 BY <1>1, AppendYoung
<1>3. x \in Nat /\ y \in Nat BY YoungType, AppendShape
<1>4. W * y + tokens <= cap * W + cap * k BY DEF Metered
<1> HIDE DEF x, y
<1>5. W * x <= W * y + W /\ W * x \in Nat /\ W * y \in Nat
  <2>1. W * (y + 1) = W * y + W /\ W * (y + 1) \in Nat BY <1>1, <1>3
  <2>2. W * x <= W * (y + 1) BY <1>1, <1>2, <1>3
  <2>3. W * x \in Nat /\ W * y \in Nat BY <1>1, <1>3, Products
  <2> QED BY <2>1, <2>2, <2>3
<1>6. cap * W \in Nat /\ cap * k \in Nat BY <1>1, Products
<1> DEFINE p == W * x  q == W * y  r == cap * W  s == cap * k
<1>7. p \in Nat /\ q \in Nat /\ r \in Nat /\ s \in Nat /\ p <= q + W /\ q + tokens <= r + s
  BY <1>4, <1>5, <1>6
<1> HIDE DEF p, q, r, s
<1>8. p + (tokens - W) <= r + s BY <1>1, <1>7
<1> QED BY <1>8 DEF p, r, s, x

\* One that takes none keeps the meter if it is not recorded in the class.
LEMMA MeterKeep ==
  ASSUME NEW h \in Seq(Events), NEW e \in Events, e.age = 0, Sorted(h), Within(h),
         NEW T, NEW cap \in Nat, NEW tokens \in Nat, Metered(h, T, tokens, cap), <<e.reason, e.root>> \notin T
  PROVE  Metered(Append(h, e), T, tokens, cap)
<1> SUFFICES ASSUME NEW k \in 0..W
             PROVE  W * Young(Append(h, e), T, k) + tokens <= cap * W + cap * k
  BY DEF Metered
<1>1. k \in Nat BY PolicyConstants
<1>2. Young(Append(h, e), T, k) = Young(h, T, k) BY <1>1, AppendYoung
<1>3. W * Young(h, T, k) + tokens <= cap * W + cap * k BY DEF Metered
<1> QED BY <1>2, <1>3

-----------------------------------------------------------------------------
(* The invariant. *)

\* The buckets are full and the history is empty initially.
LEMMA BucketsInit == PolicyInit => Buckets /\ Meters
<1> SUFFICES ASSUME PolicyInit PROVE Buckets /\ Meters
  OBVIOUS
<1>1. /\ window = <<>> /\ rareTokens = RareCap * W /\ floorTokens = [r \in Roots |-> FloorCap * W]
  BY DEF PolicyInit
<1>2. RareCap * W \in Nat /\ FloorCap * W \in Nat /\ RareCap \in Nat /\ FloorCap \in Nat /\ W \in Nat
  BY PolicyConstants, Products
<1>3. <<>> \in Seq(Events) /\ DOMAIN <<>> = {} OBVIOUS
<1>4. ASSUME NEW T, NEW cap \in Nat PROVE Metered(<<>>, T, cap * W, cap)
  <2> SUFFICES ASSUME NEW k \in 0..W PROVE W * Young(<<>>, T, k) + cap * W <= cap * W + cap * k
    BY DEF Metered
  <2>1. Counted(<<>>, T, k) = {} BY DEF Counted
  <2>2. Young(<<>>, T, k) = 0 BY <2>1, FS_EmptySet DEF Young
  <2>3. W * Young(<<>>, T, k) = 0 BY <2>2, <1>2
  <2>4. k \in Nat /\ cap * k \in Nat /\ cap * W \in Nat BY <1>2, Products
  <2> DEFINE p == cap * W  q == cap * k
  <2>5. p \in Nat /\ q \in Nat BY <2>4
  <2> HIDE DEF p, q
  <2>6. 0 + p <= p + q BY <2>5
  <2> QED BY <2>3, <2>6 DEF p, q
<1>5. Sorted(<<>>) /\ Within(<<>>) BY <1>3 DEF Sorted, Within
<1>6. Metered(window, RareKeeps, rareTokens, RareCap) BY <1>1, <1>2, <1>4
<1>7. \A r \in Roots : Metered(window, FloorKeeps(r), floorTokens[r], FloorCap)
  <2> TAKE r \in Roots
  <2>1. floorTokens[r] = FloorCap * W BY <1>1
  <2> QED BY <2>1, <1>1, <1>2, <1>4
<1>8. Buckets BY <1>1, <1>2, <1>3 DEF Buckets
<1> QED BY <1>1, <1>5, <1>6, <1>7, <1>8 DEF Meters

\* A tick keeps the invariant.
LEMMA TickMeters ==
  ASSUME Buckets, Meters, PolicyTick
  PROVE  Buckets' /\ Meters'
<1>1. /\ window' = Aged(window) /\ rareTokens' = Refilled(rareTokens, RareCap)
      /\ floorTokens' = [r \in Roots |-> Refilled(floorTokens[r], FloorCap)]
  BY DEF PolicyTick
<1>2. window \in Seq(Events) /\ Sorted(window) BY DEF Buckets, Meters
<1>3. Aged(window) \in Seq(Events) /\ Sorted(Aged(window)) /\ Within(Aged(window))
  BY <1>2, AgedShape, AgedOrder
<1>4. /\ Metered(Aged(window), RareKeeps, Refilled(rareTokens, RareCap), RareCap)
      /\ Refilled(rareTokens, RareCap) \in 0..RareCap * W
  BY <1>2, MeterTick, PolicyConstants DEF Buckets, Meters
<1>5. ASSUME NEW r \in Roots
      PROVE  /\ Metered(Aged(window), FloorKeeps(r), Refilled(floorTokens[r], FloorCap), FloorCap)
             /\ Refilled(floorTokens[r], FloorCap) \in 0..FloorCap * W
  <2>1. floorTokens[r] \in 0..FloorCap * W /\ Metered(window, FloorKeeps(r), floorTokens[r], FloorCap)
    BY DEF Buckets, Meters
  <2> QED BY <1>2, <2>1, MeterTick, PolicyConstants
<1>6. Buckets' BY <1>1, <1>3, <1>4, <1>5 DEF Buckets
<1>7. Metered(window', RareKeeps, rareTokens', RareCap) BY <1>1, <1>4
<1>8. \A r \in Roots : Metered(window', FloorKeeps(r), floorTokens'[r], FloorCap)
  <2> TAKE r \in Roots
  <2>1. floorTokens'[r] = Refilled(floorTokens[r], FloorCap) BY <1>1
  <2> QED BY <1>1, <1>5, <2>1
<1> QED BY <1>1, <1>3, <1>6, <1>7, <1>8 DEF Meters

\* A decision is recorded as rare only if it took a rare token, and as floor
\* only if it took one of its root's.
LEMMA ClassTakes ==
  ASSUME NEW t \in FinalTraces, NEW m \in Matches
  PROVE  /\ Reason(t, m) \in Classes
         /\ Reason(t, m) = "rare" => TakesRare(t)
         /\ Reason(t, m) = "floor" => TakesFloor(t, m)
<1> DEFINE F == TakesFloor(t, m)  R == TakesRare(t)
<1>1. t.error \in BOOLEAN /\ t.slow \in BOOLEAN BY PolicyAssumption
<1>2. F => ~t.error /\ ~t.slow /\ ~R /\ m = "none" BY DEF TakesFloor
<1>3. R => ~t.error /\ ~t.slow BY DEF TakesRare
<1> HIDE DEF F, R
<1>4. /\ ClassOf(t, m) \in Classes \ {"truncated", "shed"}
      /\ ClassOf(t, m) = "rare" => R
      /\ ClassOf(t, m) = "floor" => F
  <2>1. ClassOf(t, m) =
          CASE t.error -> "error"
            [] ~t.error /\ t.slow -> "slow"
            [] R -> "rare"
            [] ~t.error /\ ~t.slow /\ ~R /\ m # "none" -> "interest"
            [] F -> "floor"
            [] OTHER -> IF t.hash < floor THEN "probabilistic" ELSE "dropped"
    BY DEF ClassOf, F, R
  <2> QED BY <1>1, <1>2, <1>3, <2>1 DEF Classes
<1>5. Reason(t, m) \in {"truncated", ClassOf(t, m)} BY DEF Reason
<1> QED BY <1>4, <1>5 DEF Classes, F, R

\* A decision keeps the invariant.
LEMMA EvaluateMeters ==
  ASSUME Buckets, Meters, NEW t \in FinalTraces, NEW m \in Matches, Evaluate(t, m)
  PROVE  Buckets' /\ Meters'
<1> DEFINE outcome == IF Sheds(t, m) THEN "shed" ELSE Reason(t, m)
           e == [age |-> 0, reason |-> outcome, root |-> t.root]
<1>1. /\ window' = Append(window, e)
      /\ rareTokens' = IF TakesRare(t) THEN rareTokens - W ELSE rareTokens
      /\ floorTokens' = IF TakesFloor(t, m) THEN [floorTokens EXCEPT ![t.root] = @ - W] ELSE floorTokens
  BY DEF Evaluate
<1>2. t.root \in Roots BY PolicyAssumption
<1>3. /\ outcome \in Classes /\ (outcome = "rare" => TakesRare(t))
      /\ (outcome = "floor" => TakesFloor(t, m))
  BY ClassTakes DEF Classes
<1> HIDE DEF outcome
<1>4. /\ e \in Events /\ e.age = 0 /\ e.reason = outcome /\ e.root = t.root
  BY <1>2, <1>3 DEF Events
<1> HIDE DEF e
<1>5. window \in Seq(Events) /\ Sorted(window) /\ Within(window) BY DEF Buckets, Meters
<1>6. window' \in Seq(Events) /\ Sorted(window') /\ Within(window') BY <1>1, <1>4, <1>5, AppendShape
<1>7. Metered(window', RareKeeps, rareTokens', RareCap) /\ rareTokens' \in 0..RareCap * W
  <2>1. rareTokens \in Nat /\ rareTokens <= RareCap * W /\ RareCap * W \in Nat
        /\ Metered(window, RareKeeps, rareTokens, RareCap) /\ RareCap \in Nat /\ W \in Nat
    BY PolicyConstants, Products DEF Buckets, Meters
  <2>2. CASE TakesRare(t)
    <3>1. rareTokens' = rareTokens - W /\ rareTokens >= W BY <1>1, <2>2 DEF TakesRare
    <3>2. Metered(window', RareKeeps, rareTokens - W, RareCap) BY <1>1, <1>4, <1>5, <2>1, MeterSpend
    <3> QED BY <3>1, <3>2, <2>1
  <2>3. CASE ~TakesRare(t)
    <3>1. rareTokens' = rareTokens BY <1>1, <2>3
    <3>2. <<e.reason, e.root>> \notin RareKeeps BY <1>3, <1>4, <2>3 DEF RareKeeps
    <3>3. Metered(window', RareKeeps, rareTokens, RareCap) BY <1>1, <1>4, <1>5, <2>1, <3>2, MeterKeep
    <3> QED BY <3>1, <3>3, <2>1
  <2> QED BY <2>2, <2>3
<1>8. ASSUME NEW r \in Roots
      PROVE  Metered(window', FloorKeeps(r), floorTokens'[r], FloorCap) /\ floorTokens'[r] \in 0..FloorCap * W
  <2>1. floorTokens[r] \in Nat /\ floorTokens[r] <= FloorCap * W /\ FloorCap * W \in Nat
        /\ Metered(window, FloorKeeps(r), floorTokens[r], FloorCap) /\ FloorCap \in Nat /\ W \in Nat
    BY PolicyConstants, Products DEF Buckets, Meters
  <2>2. CASE TakesFloor(t, m) /\ r = t.root
    <3>1. floorTokens'[r] = floorTokens[r] - W /\ floorTokens[r] >= W
      BY <1>1, <2>2 DEF TakesFloor, Buckets
    <3>2. Metered(window', FloorKeeps(r), floorTokens[r] - W, FloorCap) BY <1>1, <1>4, <1>5, <2>1, MeterSpend
    <3> QED BY <3>1, <3>2, <2>1
  <2>3. CASE ~(TakesFloor(t, m) /\ r = t.root)
    <3>1. floorTokens'[r] = floorTokens[r] BY <1>1, <2>3 DEF Buckets
    <3>2. <<e.reason, e.root>> \notin FloorKeeps(r) BY <1>3, <1>4, <2>3 DEF FloorKeeps
    <3>3. Metered(window', FloorKeeps(r), floorTokens[r], FloorCap) BY <1>1, <1>4, <1>5, <2>1, <3>2, MeterKeep
    <3> QED BY <3>1, <3>3, <2>1
  <2> QED BY <2>2, <2>3
<1>9. floorTokens' \in [Roots -> 0..FloorCap * W]
  <2>1. floorTokens' = [r \in Roots |-> floorTokens'[r]] BY <1>1 DEF Buckets
  <2> QED BY <1>8, <2>1
<1>10. Buckets' BY <1>6, <1>7, <1>9 DEF Buckets
<1> QED BY <1>6, <1>7, <1>8, <1>10 DEF Meters

\* Every step keeps the invariant.
LEMMA MetersStep == Buckets /\ Meters /\ [PolicyNext]_policyVars => Buckets' /\ Meters'
<1> SUFFICES ASSUME Buckets, Meters, [PolicyNext]_policyVars PROVE Buckets' /\ Meters'
  OBVIOUS
<1>1. CASE PolicyTick BY <1>1, TickMeters
<1>2. ASSUME NEW t \in FinalTraces, NEW m \in Matches, Evaluate(t, m) PROVE Buckets' /\ Meters'
  BY <1>2, EvaluateMeters
<1>3. CASE (\E f \in Floors : AdjustFloor(f)) \/ UNCHANGED policyVars
  <2>1. window' = window /\ rareTokens' = rareTokens /\ floorTokens' = floorTokens
    BY <1>3 DEF AdjustFloor, policyVars
  <2> QED BY <2>1 DEF Buckets, Meters
<1> QED BY <1>1, <1>2, <1>3 DEF PolicyNext

\* At the age of the window, a meter is the bound of the property.
LEMMA MetersSound == Buckets /\ Meters => ClassesMetered
<1> SUFFICES ASSUME Buckets, Meters PROVE ClassesMetered
  OBVIOUS
<1>1. window \in Seq(Events) BY DEF Buckets
<1>2. \A i \in DOMAIN window : window[i].age <= W /\ window[i].root \in Roots
  <2>1. \A i \in DOMAIN window : window[i] \in Events BY <1>1
  <2> QED BY <2>1 DEF Events, Meters, Within
<1>3. ASSUME NEW T, NEW cap \in Nat, NEW tokens \in Nat, Metered(window, T, tokens, cap)
      PROVE  Young(window, T, W) <= 2 * cap
  <2> DEFINE n == Young(window, T, W)  c == cap * W
  <2>1. n \in Nat BY <1>1, YoungType
  <2>2. W \in 0..W BY PolicyConstants
  <2>3. W * n + tokens <= c + c BY <2>2, <1>3 DEF Metered
  <2>4. c \in Nat /\ W * n \in Nat BY <2>1, PolicyConstants, Products
  <2> DEFINE p == W * n
  <2>5. p \in Nat /\ p + tokens <= c + c BY <2>3, <2>4
  <2> HIDE DEF p, c
  <2>6. p <= c + c BY <2>4, <2>5
  <2>7. W * n <= cap * W + cap * W BY <2>6 DEF p, c
  <2> HIDE DEF n
  <2> QED BY <2>1, <2>7, MeterBound DEF n
<1>4. CountIn(LAMBDA e : e.reason = "rare") <= 2 * RareCap
  <2>1. {i \in DOMAIN window : window[i].reason = "rare"} = Counted(window, RareKeeps, W)
    BY <1>2 DEF Counted, RareKeeps
  <2>2. rareTokens \in Nat /\ RareCap \in Nat BY PolicyConstants DEF Buckets
  <2>3. Young(window, RareKeeps, W) <= 2 * RareCap BY <2>2, <1>3 DEF Meters
  <2> QED BY <2>1, <2>3 DEF CountIn, Young
<1>5. ASSUME NEW r \in Roots
      PROVE  CountIn(LAMBDA e : e.reason = "floor" /\ e.root = r) <= 2 * FloorCap
  <2>1. {i \in DOMAIN window : window[i].reason = "floor" /\ window[i].root = r} = Counted(window, FloorKeeps(r), W)
    BY <1>2 DEF Counted, FloorKeeps
  <2>2. floorTokens[r] \in Nat /\ FloorCap \in Nat BY PolicyConstants DEF Buckets
  <2>3. Young(window, FloorKeeps(r), W) <= 2 * FloorCap BY <2>2, <1>3 DEF Meters
  <2> QED BY <2>1, <2>3 DEF CountIn, Young
<1> QED BY <1>4, <1>5 DEF ClassesMetered

\* The buckets and the meters hold in every reachable state.
THEOREM MetersInvariant == PolicySpec => [](Buckets /\ Meters)
<1> QED BY BucketsInit, MetersStep, PTL DEF PolicySpec

\* Sixty seconds hold at most a full bucket and a minute's refill of each metered
\* class, whatever the traffic (tryTakeRare, tryTakeFloor, Take).
THEOREM KeepsMetered == PolicySpec => []ClassesMetered
<1> QED BY MetersSound, MetersInvariant, PTL
=============================================================================
