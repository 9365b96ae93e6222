------------------------------ MODULE HotIndex ------------------------------
(***************************************************************************)
(* The hot index (src/internal/store/sqlite): the rows by which spans and   *)
(* traces are searched, the RED rollups in three resolutions, the rows of   *)
(* one topology edge, and the retention sweep of src/internal/store.        *)
(*                                                                          *)
(* One goroutine runs every write as a transaction, so each is a step;      *)
(* SweepRetention is a series of them, and CascadeRED reads outside the     *)
(* transaction that uses what it read.  A trace stands for its row, its one *)
(* span, the attribute row and the text row.  LIMIT and the order of pages   *)
(* are left out; an absent RED or edge row has no calls.  The live graph    *)
(* hands over the edge's count since its process started.  The cold blocks  *)
(* that SweepRetention expires after the tables are left out.               *)
(***************************************************************************)
EXTENDS Integers, FiniteSets, FiniteSetsExt, Functions

CONSTANTS
  IndexTraces,
  StartOf,          \* trace -> start time of its span
  Horizons,         \* table -> horizon of the retention policy, 0 for none
  AttrBucket,       \* attrIndexBucketSeconds
  ExpireBatch,      \* rows one DELETE takes
  Horizon5m,        \* age at which a rollup is cascaded
  MaxITime, MaxWrites  \* bounds, for checking

Resolutions == <<"10s", "5m", "1h">>
Times == 0 .. MaxITime

\* SweepRetention's order.
SweptTables == <<"span", "attr", "fts", "trace", "red", "edge">>

ASSUME IndexAssumption ==
  /\ StartOf \in [IndexTraces -> Nat] /\ AttrBucket \in Nat \ {0} /\ ExpireBatch \in Nat \ {0}
  /\ MaxITime \in Nat /\ Horizon5m \in Nat /\ \A i \in 1 .. 6 : Horizons[SweptTables[i]] \in Nat
  /\ Horizons.span = Horizons.attr /\ Horizons.span = Horizons.fts  \* HotSpanRows
  /\ Horizons.trace = 0 \/ (Horizons.span # 0 /\ Horizons.span <= Horizons.trace)

VARIABLES
  itime,
  rows,      \* table -> rows: traces, or for "red" and "edge" the functions below
  red,       \* resolution -> bucket -> [calls, hist]
  edgeRows,  \* bucket -> calls of the edge
  live,      \* the graph's edge: [calls, bucket]
  flushed,   \* what the last Flush handed over
  sweep,     \* SweepRetention: the table, its clock, what was due (history)
  cascade,   \* CascadeRED: what it read, by bucket
  counted,   \* history: RED calls written and not expired
  raced      \* history: a rollup was written between a cascade's read and its transaction

indexVars == <<itime, rows, red, edgeRows, live, flushed, sweep, cascade, counted, raced>>

NoRED == [calls |-> 0, hist |-> 0]
NoSweep == [i |-> 0, at |-> 0, due |-> {}]
NoCascade == [from |-> 0, read |-> [b \in {} |-> NoRED]]
TraceTables == {"span", "attr", "fts", "trace"}

IndexInit ==
  /\ itime = 0
  /\ rows = [x \in TraceTables |-> {}]
  /\ red = [i \in 1 .. 3 |-> [b \in Times |-> NoRED]]
  /\ edgeRows = [b \in Times |-> 0] /\ live = [calls |-> 0, bucket |-> 0] /\ flushed = 0
  /\ sweep = NoSweep /\ cascade = NoCascade
  /\ counted = 0 /\ raced = FALSE

-----------------------------------------------------------------------------
(* WriteBatch.  A batch that fails is rolled back and leaves no row.       *)

WriteTrace(t) ==
  /\ StartOf[t] <= itime
  /\ rows' = [x \in TraceTables |-> rows[x] \cup {t}]
  /\ sweep' = [sweep EXCEPT !.due = {p \in @ : p[2] # t}]
  /\ UNCHANGED <<itime, red, edgeRows, live, flushed, cascade, counted, raced>>

\* ON CONFLICT adds the calls and keeps the histogram that is there.
AddedRED(row, new) ==
  [calls |-> row.calls + new.calls, hist |-> IF row.calls = 0 THEN new.hist ELSE row.hist]

CallsIn(f) == SumFunction([b \in DOMAIN f |-> f[b].calls])

WriteRED(b) ==
  /\ b <= itime /\ CallsIn(red[1]) + CallsIn(red[2]) + CallsIn(red[3]) < MaxWrites
  /\ red' = [red EXCEPT ![1][b] = AddedRED(@, [calls |-> 1, hist |-> 1])]
  /\ counted' = counted + 1
  /\ raced' = (raced \/ (cascade.from = 1 /\ b \in DOMAIN cascade.read))
  /\ UNCHANGED <<itime, rows, edgeRows, live, flushed, sweep, cascade>>

\* A sighting of the edge, and Flush through WriteEdges.
Sight ==
  /\ live.calls < MaxWrites
  /\ live' = [calls |-> live.calls + 1, bucket |-> itime]
  /\ UNCHANGED <<itime, rows, red, edgeRows, flushed, sweep, cascade, counted, raced>>

AddedEdge(calls, new) == calls + new

WriteEdges ==
  /\ live.calls > 0 /\ edgeRows[live.bucket] < MaxWrites
  /\ edgeRows' = [edgeRows EXCEPT ![live.bucket] = AddedEdge(@, live.calls)]
  /\ flushed' = live.calls
  /\ UNCHANGED <<itime, rows, red, live, sweep, cascade, counted, raced>>

-----------------------------------------------------------------------------
(* SweepRetention and ExpireBefore.                                        *)

\* Not the code: a bucket of the attribute index deleted with the cutoff in it.
BeforeOrAt(table, x, cutoff) ==
  IF table = "attr" THEN StartOf[x] \div AttrBucket <= cutoff \div AttrBucket ELSE StartOf[x] < cutoff

\* Which rows are older than the cutoff: the attribute index knows its row's
\* bucket only.
Before(table, x, cutoff) ==
  IF table = "attr" THEN StartOf[x] \div AttrBucket < cutoff \div AttrBucket ELSE StartOf[x] < cutoff
Expirable(table, cutoff) == {x \in rows[table] : Before(table, x, cutoff)}

SweepStart ==
  /\ sweep = NoSweep
  /\ sweep' = [i |-> 1, at |-> itime,
       due |-> {p \in TraceTables \X IndexTraces :
                  Horizons[p[1]] > 0 /\ p[2] \in Expirable(p[1], itime - Horizons[p[1]])}]
  /\ UNCHANGED <<itime, rows, red, edgeRows, live, flushed, cascade, counted, raced>>

NextTable == [sweep EXCEPT !.i = @ + 1]

\* One transaction of a table with row ids; a full batch calls for another.
Done(n) == n < ExpireBatch
SweepRows ==
  /\ sweep.i \in 1 .. 4
  /\ LET table == SweptTables[sweep.i]
         old == Expirable(table, sweep.at - Horizons[table])
     IN IF Horizons[table] = 0 THEN sweep' = NextTable /\ UNCHANGED rows
        ELSE \E S \in SUBSET old :
               /\ Cardinality(S) = IF Cardinality(old) < ExpireBatch THEN Cardinality(old) ELSE ExpireBatch
               /\ rows' = [rows EXCEPT ![table] = @ \ S]
               /\ sweep' = IF Done(Cardinality(S)) THEN NextTable ELSE sweep
  /\ UNCHANGED <<itime, red, edgeRows, live, flushed, cascade, counted, raced>>

Trimmed(f, cutoff, none) == [b \in Times |-> IF b < cutoff THEN none ELSE f[b]]

\* The rollups and the edges have no row ids: one plain DELETE each, of the
\* finest resolution's rollups.
SweepRollups ==
  /\ sweep.i \in {5, 6}
  /\ LET h == Horizons[SweptTables[sweep.i]]  cutoff == sweep.at - h IN
     /\ red' = IF sweep.i = 5 /\ h > 0 THEN [red EXCEPT ![1] = Trimmed(@, cutoff, NoRED)] ELSE red
     /\ edgeRows' = IF sweep.i = 6 /\ h > 0 THEN Trimmed(edgeRows, cutoff, 0) ELSE edgeRows
     /\ raced' = (raced \/ (cascade.from = 1 /\ red'[1] # red[1]))
  /\ counted' = counted - (CallsIn(red[1]) - CallsIn(red'[1]))
  /\ sweep' = IF sweep.i = 6 THEN [sweep EXCEPT !.i = 7] ELSE NextTable
  /\ UNCHANGED <<itime, rows, live, flushed, cascade>>

\* The sweep ends, or gives up at an error.
SweepReturns == sweep.i > 6 /\ sweep' = NoSweep /\ UNCHANGED <<itime, rows, red, edgeRows, live, flushed, cascade, counted, raced>>
SweepFails == sweep.i \in 1 .. 6 /\ sweep' = NoSweep /\ UNCHANGED <<itime, rows, red, edgeRows, live, flushed, cascade, counted, raced>>

-----------------------------------------------------------------------------
(* CascadeRED.                                                             *)

CascadeRead(from) ==
  /\ cascade = NoCascade
  /\ cascade' = [from |-> from,
       read |-> [b \in {x \in Times : x < itime - Horizon5m /\ red[from][x] # NoRED} |-> red[from][b]]]
  /\ UNCHANGED <<itime, rows, red, edgeRows, live, flushed, sweep, counted, raced>>

\* The bucket keeps its start; the source row is deleted whatever it holds now.
Cascaded(from, read) ==
  [red EXCEPT ![from] = [b \in Times |-> IF b \in DOMAIN read THEN NoRED ELSE @[b]],
              ![from + 1] = [b \in Times |-> IF b \in DOMAIN read THEN AddedRED(@[b], read[b]) ELSE @[b]]]

CascadeWrite ==
  /\ cascade # NoCascade
  /\ red' = Cascaded(cascade.from, cascade.read)
  /\ cascade' = NoCascade
  /\ UNCHANGED <<itime, rows, edgeRows, live, flushed, sweep, counted, raced>>

CascadeFails == cascade # NoCascade /\ cascade' = NoCascade /\ UNCHANGED <<itime, rows, red, edgeRows, live, flushed, sweep, counted, raced>>

TickIndex == itime < MaxITime /\ itime' = itime + 1 /\ UNCHANGED <<rows, red, edgeRows, live, flushed, sweep, cascade, counted, raced>>

IndexNext ==
  \/ \E t \in IndexTraces : WriteTrace(t)
  \/ \E b \in Times : WriteRED(b)
  \/ Sight \/ WriteEdges
  \/ SweepStart \/ SweepRows \/ SweepRollups \/ SweepReturns \/ SweepFails
  \/ (\E from \in {1, 2} : CascadeRead(from)) \/ CascadeWrite \/ CascadeFails
  \/ TickIndex

IndexSpec == IndexInit /\ [][IndexNext]_indexVars

-----------------------------------------------------------------------------
(* Reading.                                                                *)

\* By attribute and by text the span table is joined.
SearchSpans(by) ==
  CASE by = "attribute" -> rows["span"] \cap rows["attr"]
    [] by = "text" -> rows["span"] \cap rows["fts"]
    [] OTHER -> rows["span"]
SearchTraces == rows["trace"]

\* LoadEdges returns an edge's rows newest first, and WarmStart lets the next
\* replace the one before.
EdgeBuckets == {b \in Times : edgeRows[b] > 0}
Restored == edgeRows[Min(EdgeBuckets)]

-----------------------------------------------------------------------------
(* Properties.                                                             *)

\* However a sweep, its batches, its failures and late writes interleave, a
\* span within the horizon that one search finds is found by every search, and
\* its trace's row is there (ExpireBefore, expireAttrIndexBefore).
IndexesAgree ==
  \A t \in SearchSpans("service") : StartOf[t] >= itime - Horizons.span =>
    t \in SearchSpans("attribute") \cap SearchSpans("text") \cap SearchTraces

\* A sweep that ends without an error has deleted everything that was due when
\* it began and was not written again, however many batches that takes.  The
\* attribute index, which rounds, included (ExpireBefore).
SweptClean == sweep.i = 7 => \A p \in sweep.due : p[2] \notin rows[p[1]]

\* Between the tables no call is lost or counted twice, as long as nobody
\* writes a rollup that a cascade has read and not yet moved (CascadeRED).
CallsConserved == ~raced => CallsIn(red[1]) + CallsIn(red[2]) + CallsIn(red[3]) = counted

HotSound == IndexesAgree /\ SweptClean /\ CallsConserved

\* What the documents say and the code does not do ----------------------------

\* "merging Hist by addition" (CascadeRED's comment): a rollup's histogram
\* holds as many calls as its count.
HistMerged == \A i \in 1 .. 3 : \A b \in Times : red[i][b].hist = red[i][b].calls

\* FR-F04-7: a warm start restores what the last Flush handed over.
RestoredAsFlushed == EdgeBuckets # {} => Restored = flushed
=============================================================================
