----------------------------- MODULE LiveGraph -----------------------------
(***************************************************************************)
(* The live service graph (src/internal/topology/livegraph.go): edges       *)
(* derived from client and server spans of every tenant, a bounded edge     *)
(* map with its companion maps, the buffer of client spans that wait for    *)
(* their server span, and the drop-oldest channel of changes.               *)
(*                                                                          *)
(* One drain goroutine consumes; the sweeps run on tickers beside it.       *)
(* Flush and Snapshot copy the edges out and change nothing.  An edge is    *)
(* identified within a tenant by caller, callee and protocol; the ID under  *)
(* which its operations are kept omits the tenant.  An edge may be evicted  *)
(* by its own insertion, before its anchor and its operation are written.   *)
(***************************************************************************)
EXTENDS Integers, Sequences, FiniteSets

CONSTANTS
  Spans,        \* the spans a batch may hold: tenant, kind, service, peer, protocol, id, parent, op
  Nobody,       \* the absent peer, span id or operation
  MaxEdges,     \* topology.max_edges; 0 is unbounded
  NewWindow,    \* newEdgeWindow
  VanishAfter,  \* topology.vanished_after
  PendingTTL,
  ChangesCap,   \* capacity of the changes channel
  Stored,       \* what EdgeSource may load: sequences of rows, several of an edge possible
  MaxClock,     \* bounds the clock, for checking
  MaxCalls,     \* bounds the calls of an edge, for checking
  MaxInserts    \* bounds the edges ever inserted, for checking

ASSUME GraphAssumption ==
  /\ MaxEdges \in Nat /\ ChangesCap \in Nat \ {0}
  /\ NewWindow \in Nat /\ VanishAfter \in Nat /\ PendingTTL \in Nat
  /\ \A s \in Spans : s.kind \in {"client", "server", "internal"}
  /\ \A loaded \in Stored :
       /\ loaded \in Seq({loaded[i] : i \in DOMAIN loaded})
       /\ \A i \in DOMAIN loaded : loaded[i].calls \in Int /\ loaded[i].last \in Int

VARIABLES
  gclock,
  edges,       \* edge key -> calls, firstSeen, last, vanished, seq
  nextSeq,
  ops,         \* edge ID and operation -> tenant that created the entry, calls
  lastNewEmit, \* edge key -> time
  pending,     \* tenant and span id -> service, protocol, at
  nodes,       \* tenant and service
  changes

graphVars == <<gclock, edges, nextSeq, ops, lastNewEmit, pending, nodes, changes>>

Only(f, S) == [x \in DOMAIN f \cap S |-> f[x]]
Put(f, x, v) == [y \in DOMAIN f \cup {x} |-> IF y = x THEN v ELSE f[y]]
Empty == [x \in {} |-> 0]

GraphInit ==
  /\ gclock = 1 /\ nextSeq = 0
  /\ edges = Empty /\ ops = Empty /\ lastNewEmit = Empty /\ pending = Empty
  /\ nodes = {} /\ changes = <<>>

-----------------------------------------------------------------------------
(* Edges.                                                                  *)

Key(tenant, caller, callee, protocol) ==
  [tenant |-> tenant, caller |-> caller, callee |-> callee,
   protocol |-> IF caller # Nobody /\ caller = callee THEN "internal" ELSE protocol]

edgeID(k) == <<k.caller, k.callee, k.protocol>>

\* The edge of es to evict first: fewest calls, then longest unseen, then oldest.
Colder(es, a, b) ==
  \/ es[a].calls < es[b].calls
  \/ es[a].calls = es[b].calls /\ es[a].last < es[b].last
  \/ es[a].calls = es[b].calls /\ es[a].last = es[b].last /\ es[a].seq < es[b].seq

\* evictIfNeeded: the MaxEdges warmest stay.
Surviving(es) ==
  IF MaxEdges = 0 THEN DOMAIN es
  ELSE {k \in DOMAIN es : Cardinality({j \in DOMAIN es : Colder(es, k, j)}) < MaxEdges}

SentTo(ch, events) ==
  LET all == ch \o events
  IN  IF Len(all) <= ChangesCap THEN all ELSE SubSeq(all, Len(all) - ChangesCap + 1, Len(all))

Counted(k) ==
  IF k \in DOMAIN edges
  THEN Put(edges, k, [edges[k] EXCEPT !.calls = @ + 1, !.last = gclock, !.vanished = FALSE])
  ELSE Put(edges, k, [calls |-> 1, firstSeen |-> gclock, last |-> gclock, vanished |-> FALSE, seq |-> nextSeq + 1])

\* New to the change detection: not sighted within the window.
IsNew(k, seen) == k \in DOMAIN seen => gclock - seen[k] > NewWindow

\* Not the code: the anchor refreshed only when the edge is announced.
AnchoredWhenNew(seen, k) == IF IsNew(k, seen) THEN Put(seen, k, gclock) ELSE seen

\* Every sighting refreshes the anchor, announced or not.
Anchored(seen, k) == Put(seen, k, gclock)

\* The entry of an operation keeps the tenant that created it.
OpCounted(os, k, op) ==
  LET o == <<edgeID(k), op>> IN
  IF op = Nobody THEN os
  ELSE Put(os, o, IF o \in DOMAIN os THEN [os[o] EXCEPT !.calls = @ + 1]
                  ELSE [tenant |-> k.tenant, calls |-> 1])

WithoutOps(victims) == Only(ops, {o \in DOMAIN ops : o[1] \notin {edgeID(v) : v \in victims}})

UpsertEdge(k, op) ==
  LET counted == Counted(k)
      kept == IF k \in DOMAIN edges THEN DOMAIN edges ELSE Surviving(counted)
      victims == DOMAIN counted \ kept
      seen == Only(lastNewEmit, DOMAIN lastNewEmit \ victims)
      event == [kind |-> "NewEdge", key |-> k, calls |-> counted[k].calls]
  IN
  /\ IF k \in DOMAIN edges THEN edges[k].calls < MaxCalls ELSE nextSeq < MaxInserts
  /\ edges' = Only(counted, kept)
  /\ nextSeq' = IF k \in DOMAIN edges THEN nextSeq ELSE nextSeq + 1
  /\ lastNewEmit' = Anchored(seen, k)
  /\ ops' = OpCounted(WithoutOps(victims), k, op)
  /\ changes' = IF IsNew(k, seen) THEN SentTo(changes, <<event>>) ELSE changes

-----------------------------------------------------------------------------
(* Consume, one span: a client span with a peer makes its edge, one        *)
(* without waits for its server span; a server span takes the client span  *)
(* it descends from, or counts as called from outside.                     *)

WaitFor(s) ==
  /\ pending' = Put(pending, <<s.tenant, s.id>>, [service |-> s.service, protocol |-> s.protocol, at |-> gclock])
  /\ UNCHANGED <<edges, nextSeq, ops, lastNewEmit, changes>>

ClientSpan(s) ==
  IF s.peer = Nobody THEN WaitFor(s)
  ELSE UpsertEdge(Key(s.tenant, s.service, s.peer, s.protocol), s.op) /\ UNCHANGED pending

ServerSpan(s) ==
  LET parent == <<s.tenant, s.parent>> IN
  IF parent \in DOMAIN pending
  THEN /\ UpsertEdge(Key(s.tenant, pending[parent].service, s.service, pending[parent].protocol), s.op)
       /\ pending' = Only(pending, DOMAIN pending \ {parent})
  ELSE UpsertEdge(Key(s.tenant, "external", s.service, "unknown"), s.op) /\ UNCHANGED pending

NoEdge == UNCHANGED <<edges, nextSeq, ops, lastNewEmit, changes, pending>>

Consume(s) ==
  /\ nodes' = nodes \cup {<<s.tenant, s.service>>}
  /\ CASE s.kind = "client" -> ClientSpan(s)
       [] s.kind = "server" -> ServerSpan(s)
       [] s.kind = "internal" -> NoEdge
  /\ UNCHANGED <<gclock>>

-----------------------------------------------------------------------------
(* The sweeps and the warm start.                                          *)

Gone == {k \in DOMAIN edges : ~edges[k].vanished /\ gclock - edges[k].last > VanishAfter}

\* The events of a sweep come in the order of a map iteration.
SweepVanished ==
  /\ Gone # {}
  /\ edges' = [k \in DOMAIN edges |-> IF k \in Gone THEN [edges[k] EXCEPT !.vanished = TRUE] ELSE edges[k]]
  /\ \E order \in [1..Cardinality(Gone) -> Gone] :
       /\ \A i, j \in DOMAIN order : order[i] = order[j] => i = j
       /\ changes' = SentTo(changes, [i \in DOMAIN order |->
                       [kind |-> "VanishedEdge", key |-> order[i], calls |-> edges[order[i]].calls]])
  /\ UNCHANGED <<gclock, nextSeq, ops, lastNewEmit, pending, nodes>>

SweepPending ==
  /\ pending' = Only(pending, {p \in DOMAIN pending : gclock - pending[p].at <= PendingTTL})
  /\ pending' # pending
  /\ UNCHANGED <<gclock, edges, nextSeq, ops, lastNewEmit, nodes, changes>>

\* What EdgeSource loads is installed as it is, in its order, a later row of an
\* edge over an earlier one, then the bound is applied.  It happens once per
\* tenant at boot, before any span.
WarmStart(loaded) ==
  LET k(i) == loaded[i].key
      keys == {k(i) : i \in DOMAIN loaded}
      New == {i \in DOMAIN loaded : k(i) \notin DOMAIN edges /\ \A j \in 1 .. i - 1 : k(j) # k(i)}
      Upto(x) == {i \in New : \A j \in New : k(j) = x => i <= j}
      row(x) == CHOOSE i \in DOMAIN loaded : k(i) = x /\ \A j \in i + 1 .. Len(loaded) : k(j) # x
      Installed(x) == [calls |-> loaded[row(x)].calls, firstSeen |-> loaded[row(x)].firstSeen,
                       last |-> loaded[row(x)].last, vanished |-> loaded[row(x)].vanished,
                       seq |-> IF x \in DOMAIN edges THEN edges[x].seq ELSE nextSeq + Cardinality(Upto(x))]
      all == [x \in DOMAIN edges \cup keys |-> IF x \in keys THEN Installed(x) ELSE edges[x]]
      victims == DOMAIN all \ Surviving(all)
  IN
  /\ nodes = {} /\ {e.tenant : e \in DOMAIN edges} \cap {x.tenant : x \in keys} = {}
  /\ nextSeq' = nextSeq + Cardinality(New)
  /\ edges' = Only(all, Surviving(all))
  /\ lastNewEmit' = Only(lastNewEmit, DOMAIN lastNewEmit \ victims)
  /\ ops' = WithoutOps(victims)
  /\ UNCHANGED <<gclock, pending, nodes, changes>>

TickClock ==
  /\ gclock < MaxClock
  /\ gclock' = gclock + 1
  /\ UNCHANGED <<edges, nextSeq, ops, lastNewEmit, pending, nodes, changes>>

GraphNext ==
  \/ \E s \in Spans : Consume(s)
  \/ SweepVanished
  \/ SweepPending
  \/ \E loaded \in Stored : WarmStart(loaded)
  \/ TickClock

GraphSpec == GraphInit /\ [][GraphNext]_graphVars

-----------------------------------------------------------------------------
(* Queries.                                                                *)

Has(tenant, service) == <<tenant, service>> \in nodes

Adjacent(tenant, a, b) ==
  \E k \in DOMAIN edges : k.tenant = tenant /\ {k.caller, k.callee} = {a, b}

Ends(tenant) == {k.caller : k \in {e \in DOMAIN edges : e.tenant = tenant}}
           \cup {k.callee : k \in {e \in DOMAIN edges : e.tenant = tenant}}

\* The breadth-first walk of Neighbors in both directions and of Distance: what
\* each hop reaches that no earlier hop did.
Hops(tenant, a, max) ==
  LET walk[h \in 0..max] ==
        IF h = 0 THEN [visited |-> {a}, frontier |-> {a}]
        ELSE LET next == {b \in Ends(tenant) : \E s \in walk[h - 1].frontier : Adjacent(tenant, s, b)}
                         \ walk[h - 1].visited
             IN  [visited |-> walk[h - 1].visited \cup next, frontier |-> next]
  IN [h \in 0..max |-> walk[h].frontier]

Distances(tenant, a, b, max) == {h \in 0..max : b \in Hops(tenant, a, max)[h]}

EdgeOps(tenant, k) == {o \in DOMAIN ops : o[1] = edgeID(k) /\ ops[o].tenant = tenant}

-----------------------------------------------------------------------------
(* Properties.                                                             *)

\* The graph never holds more than topology.max_edges edges, over a warm start
\* too, and the eviction order is total (evictIfNeeded, WarmStart).
Bounded ==
  /\ MaxEdges > 0 => Cardinality(DOMAIN edges) <= MaxEdges
  /\ \A j, k \in DOMAIN edges : edges[j].seq = edges[k].seq => j = k
  /\ \A k \in DOMAIN edges : edges[k].seq <= nextSeq

\* While an edge stays in the graph, the anchor of its change detection is its
\* last sighting, announced or not (upsertEdge's refresh of lastNewEmit), so it is
\* announced again only after a silence.  This says nothing of an edge that the
\* cap evicts, whose anchor goes with it: see OnlyAbsentIsNew.
AnchorFollowsTraffic ==
  \A k \in DOMAIN edges \cap DOMAIN lastNewEmit : lastNewEmit[k] = edges[k].last

\* Distance finds a walk of one or two hops exactly when there is one, in either
\* direction of the calls, and never reports the longer one (Distance).
DistanceIsShortest ==
  \A k \in DOMAIN edges : \A b \in Ends(k.tenant) \ {k.caller} :
    /\ Adjacent(k.tenant, k.caller, b) <=> 1 \in Distances(k.tenant, k.caller, b, 2)
    /\ 2 \in Distances(k.tenant, k.caller, b, 2) <=>
         /\ ~Adjacent(k.tenant, k.caller, b)
         /\ \E m \in Ends(k.tenant) : Adjacent(k.tenant, k.caller, m) /\ Adjacent(k.tenant, m, b)

\* The bound on the edges, the anchors of the edges held and the distances.
GraphSound == Bounded /\ AnchorFollowsTraffic /\ DistanceIsShortest

\* The calls that EdgeOps reports of an edge are those of its own tenant
\* (EdgeOp.Tenant): never more than the edge has.
OpsOwnTenant == \A k \in DOMAIN edges : \A o \in EdgeOps(k.tenant, k) : ops[o].calls <= edges[k].calls

\* What the comments say and the code does not do -----------------------------

\* upsertEdge's comment: only an edge that is absent for more than the window is
\* announced again on its next sighting.
Announcements(ch, k) == Cardinality({i \in DOMAIN ch : ch[i].kind = "NewEdge" /\ ch[i].key = k})
OnlyAbsentIsNew ==
  [][\A k \in DOMAIN lastNewEmit :
       gclock - lastNewEmit[k] <= NewWindow => Announcements(changes', k) <= Announcements(changes, k)]_graphVars

\* evictIfNeeded's comment: eviction drops an edge's companion state too, so that
\* max_edges bounds the companion maps and not the edges alone.
CompanionsBounded == MaxEdges > 0 => Cardinality(DOMAIN lastNewEmit) <= MaxEdges
=============================================================================
