------------------------------- MODULE Memory -------------------------------
(***************************************************************************)
(* The incident memory of one tenant (src/internal/memory): investigations, *)
(* corrections that supersede them, runbooks and imported records; their    *)
(* weights; retrieval by fingerprint similarity; consolidation.  Every map  *)
(* is keyed by tenant and every method holds one mutex.                     *)
(*                                                                          *)
(* A fingerprint is its set of tokens.  Weights are in twentieths, time in  *)
(* half-lives of the decay.                                                 *)
(***************************************************************************)
EXTENDS Integers, Sequences, FiniteSets

CONSTANTS
  Terms,          \* the fingerprints records may have
  Queries,        \* the fingerprints asked for
  Bundles,        \* what Import may be given, exported by such a store: records with their ids
  NoRecord,       \* the empty SupersedesID
  MaxCandidates,  \* maxCandidates
  PruneAfter,     \* pruneAfter
  MaxRecords, MaxConfirms, MaxAge  \* bounds, for checking

\* Ids compare as strings: by their prefix, then by their number.
Prefix == [cor |-> 1, imp |-> 2, rec |-> 3, run |-> 4]
IDs == [p : DOMAIN Prefix, n : Nat]
IdLess(a, b) == Prefix[a.p] < Prefix[b.p] \/ (a.p = b.p /\ a.n < b.n)

RecordFields == {"kind", "terms", "supersedes", "weight", "confirmations", "corrections", "created", "used"}

ASSUME MemoryAssumption ==
  /\ MaxCandidates \in Nat /\ PruneAfter \in Nat
  /\ NoRecord \notin IDs
  /\ \A t \in Terms \cup Queries : IsFiniteSet(t)
  /\ \A n \in DOMAIN Bundles : LET r == Bundles[n].record IN
       /\ Bundles[n].id \in IDs /\ DOMAIN r = RecordFields
       /\ IsFiniteSet(r.terms) /\ r.weight \in 0 .. 40 /\ r.created \in Int /\ r.used \in Nat

VARIABLES
  age,      \* the clock
  records,  \* id -> record
  lastSeq   \* s.seq

memoryVars == <<age, records, lastSeq>>

MemoryInit == age = 0 /\ records = [i \in {} |-> NoRecord] /\ lastSeq = 0

NextID(prefix) == [p |-> prefix, n |-> lastSeq + 1]
SortedIds(S) == CHOOSE q \in [1..Cardinality(S) -> S] : \A i, j \in DOMAIN q : i < j => IdLess(q[i], q[j])

Survivors(S) == [i \in DOMAIN records \cap S |-> records[i]]
With(id, r) == [i \in DOMAIN records \cup {id} |-> IF i = id THEN r ELSE records[i]]

-----------------------------------------------------------------------------
(* Writing.                                                                *)

NewRecord(kind, terms, supersedes) ==
  [kind |-> kind, terms |-> terms, supersedes |-> supersedes, weight |-> 20, confirmations |-> 0,
   corrections |-> 0, created |-> age, used |-> age]

Room == Cardinality(DOMAIN records) < MaxRecords /\ lastSeq < MaxRecords

Insert(prefix, r) ==
  /\ Room
  /\ records' = With(NextID(prefix), r)
  /\ lastSeq' = lastSeq + 1
  /\ UNCHANGED age

Record(terms) == Insert("rec", NewRecord("investigation", terms, NoRecord))
ImportRunbook(terms) == Insert("run", NewRecord("runbook", terms, NoRecord))

Confirmed(r) == [r EXCEPT !.weight = IF @ + 3 > 40 THEN 40 ELSE @ + 3, !.confirmations = @ + 1, !.used = age]

Confirm(id) ==
  /\ records[id].confirmations < MaxConfirms
  /\ records' = [records EXCEPT ![id] = Confirmed(records[id])]
  /\ UNCHANGED <<age, lastSeq>>

Weakened(r) == [r EXCEPT !.weight = IF @ < 7 THEN 0 ELSE @ - 7, !.corrections = @ + 1]

Correct(id) ==
  LET new == NextID("cor") IN
  /\ Room
  /\ records' = [i \in DOMAIN records \cup {new} |->
                   IF i = new THEN NewRecord("correction", records[id].terms, id)
                   ELSE IF i = id THEN Weakened(records[i]) ELSE records[i]]
  /\ lastSeq' = lastSeq + 1
  /\ UNCHANGED age

Delete(id) ==
  /\ records' = Survivors(DOMAIN records \ {id})
  /\ UNCHANGED <<age, lastSeq>>

\* A colliding id is replaced; what other records supersede is not renamed.
ImportOne(b) ==
  LET collides == b.id \in DOMAIN records
      id == IF collides THEN NextID("imp") ELSE b.id
  IN /\ Room
     /\ records' = With(id, b.record)
     /\ lastSeq' = IF collides THEN lastSeq + 1 ELSE lastSeq
     /\ UNCHANGED age

-----------------------------------------------------------------------------
(* Consolidate: every pair in id order; a record that has lost is skipped   *)
(* as the second of a pair, and as the first only from the next round on.   *)

Inter(a, b) == Cardinality(a \cap b)
Union(a, b) == Cardinality(a \cup b)
SameFamily(a, b) == a.kind = b.kind /\ Union(a.terms, b.terms) > 0 /\ 5 * Inter(a.terms, b.terms) >= 3 * Union(a.terms, b.terms)
Loser(a, b) == IF records[b].created > records[a].created THEN a ELSE b

\* Round i compares its record with each later one that has not lost yet.
Compared(ids, i, lost) ==
  LET N == Len(ids)
      upto[j \in 0..N] ==
        IF j <= i THEN lost
        ELSE IF ids[j] \notin upto[j - 1] /\ SameFamily(records[ids[i]], records[ids[j]])
             THEN upto[j - 1] \cup {Loser(ids[i], ids[j])} ELSE upto[j - 1]
  IN  upto[N]

\* The ids that have lost once all rounds are over.
MergedAway ==
  LET ids == SortedIds(DOMAIN records)
      N == Len(ids)
      round[i \in 0..N] ==
        IF i = 0 THEN {}
        ELSE IF ids[i] \in round[i - 1] THEN round[i - 1] ELSE Compared(ids, i, round[i - 1])
  IN  round[N]

Prunable(r) == r.kind # "runbook" /\ age - r.created > PruneAfter

Consolidate ==
  /\ records' = Survivors({i \in DOMAIN records \ MergedAway : ~Prunable(records[i])})
  /\ records' # records
  /\ UNCHANGED <<age, lastSeq>>

Aging == age < MaxAge /\ age' = age + 1 /\ UNCHANGED <<records, lastSeq>>

MemoryNext ==
  \/ \E t \in Terms : Record(t) \/ ImportRunbook(t)
  \/ \E id \in DOMAIN records : Confirm(id) \/ Correct(id) \/ Delete(id)
  \/ \E n \in DOMAIN Bundles : ImportOne(Bundles[n])
  \/ Consolidate
  \/ Aging

MemorySpec == MemoryInit /\ [][MemoryNext]_memoryVars

-----------------------------------------------------------------------------
(* Similar.  The map that says which correction supersedes a record keeps   *)
(* one of several, and the last pass swaps in the order of that map: both   *)
(* orders are those of a map iteration.                                     *)

\* The records that share most tokens with the query, ids breaking ties.
Retrieved(q) ==
  {i \in DOMAIN records :
     Cardinality({j \in DOMAIN records :
       \/ Inter(q, records[j].terms) > Inter(q, records[i].terms)
       \/ Inter(q, records[j].terms) = Inter(q, records[i].terms) /\ IdLess(j, i)}) < MaxCandidates}

Similarity(q, i) == <<Inter(q, records[i].terms), Union(q, records[i].terms)>>
Passes(q, i) ==
  /\ i \in Retrieved(q)
  /\ Similarity(q, i)[2] > 0 /\ 20 * Similarity(q, i)[1] >= 7 * Similarity(q, i)[2]

\* The rank: score * (1 + weight halved for each half-life since the last use).
TwoTo(n) == LET power[k \in 0..n] == IF k = 0 THEN 1 ELSE 2 * power[k - 1] IN power[n]
HalfLives(r) == IF r.used > age THEN 0 ELSE age - r.used
Rank(q, i) == LET r == records[i]  h == TwoTo(HalfLives(r)) IN
  <<Similarity(q, i)[1] * (20 * h + r.weight), Similarity(q, i)[2] * h>>
Above(q, i, j) == LET x == Rank(q, i)  y == Rank(q, j) IN
  x[1] * y[2] > y[1] * x[2] \/ (x[1] * y[2] = y[1] * x[2] /\ IdLess(i, j))

Superseded == {records[i].supersedes : i \in DOMAIN records} \ {NoRecord}
SupersederMaps == {f \in [Superseded -> DOMAIN records] : \A o \in Superseded : records[f[o]].supersedes = o}

\* Not the code: a superseded record kept without its superseder.
KeptAlone(q, by) == {i \in DOMAIN records : Passes(q, i)}

Kept(q, by) == {i \in DOMAIN records : Passes(q, i) /\ (i \in Superseded => Passes(q, by[i]))}
ByRank(q, S) == CHOOSE s \in [1..Cardinality(S) -> S] : \A a, b \in DOMAIN s : a < b => Above(q, s[a], s[b])

Pos(s, x) == CHOOSE a \in DOMAIN s : s[a] = x
Swapped(s, a, b) == [s EXCEPT ![a] = s[b], ![b] = s[a]]
Lifted(s, orig, corr) ==
  IF {orig, corr} \subseteq {s[a] : a \in DOMAIN s} /\ Pos(s, corr) > Pos(s, orig)
  THEN Swapped(s, Pos(s, orig), Pos(s, corr)) ELSE s

Orders(S) == {o \in [1..Cardinality(S) -> S] : \A a, b \in DOMAIN o : o[a] = o[b] => a = b}
AfterSwaps(s, by, order) ==
  LET f[n \in 0..Len(order)] == IF n = 0 THEN s ELSE Lifted(f[n - 1], order[n], by[order[n]])
  IN  f[Len(order)]

\* Everything Similar may return for q.
Similar(q) == {AfterSwaps(ByRank(q, Kept(q, by)), by, order) : by \in SupersederMaps, order \in Orders(Superseded)}

-----------------------------------------------------------------------------
(* Properties.                                                             *)

\* Weights stay within [0, 2] (Correct, Confirm).
WeightsBounded == \A i \in DOMAIN records : records[i].weight \in 0..40

\* Consolidation forgets no family: among the records that similarity leads to
\* from one it merges away, one that is at least as recent stays (Consolidate).
Closed(S) == \A a \in S, b \in DOMAIN records : SameFamily(records[a], records[b]) => b \in S
FamilySurvives ==
  LET lost == MergedAway IN
  \A i \in lost, S \in SUBSET DOMAIN records :
    i \in S /\ Closed(S) => \E s \in S \ lost : records[s].created >= records[i].created

\* Corrections in pairs: nothing is superseded twice, no correction is corrected.
Superseders(o) == {i \in DOMAIN records : records[i].supersedes = o}
CorrectedAgain(o) == Cardinality(Superseders(o)) > 1 \/ Superseders(o) \cap Superseded # {}

\* Similar returns a superseded record only together with a record that
\* supersedes it, unless that one has been corrected in turn; and as long as all
\* corrections are in pairs, below it, whatever the order of the swaps (DR-19 19.4).
CorrectionsRespected ==
  LET inPairs == \A o \in Superseded : ~CorrectedAgain(o) IN
  \A q \in Queries : \A out \in Similar(q) : \A a \in DOMAIN out :
    LET above == {b \in DOMAIN out : records[out[b]].supersedes = out[a]} IN
    /\ out[a] \in Superseded /\ ~CorrectedAgain(out[a]) => above # {}
    /\ inPairs => \A b \in above : b < a

MemorySound == WeightsBounded /\ FamilySurvives /\ CorrectionsRespected

\* What the register says (DR-19 19.4) and chains of corrections break --------

\* A superseded record is returned only together with its superseder.
AlwaysAccompanied ==
  \A q \in Queries : \A out \in Similar(q) : \A a \in DOMAIN out :
    out[a] \in Superseded => \E b \in DOMAIN out : records[out[b]].supersedes = out[a]

\* It is always ranked below it.
AlwaysBelow ==
  \A q \in Queries : \A out \in Similar(q) : \A a, b \in DOMAIN out :
    records[out[b]].supersedes = out[a] => b < a
=============================================================================
