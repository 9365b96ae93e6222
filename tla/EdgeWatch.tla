----------------------------- MODULE EdgeWatch -----------------------------
(***************************************************************************)
(* TopologyChangeDetector (src/internal/anomaly/detectors.go) at the end of *)
(* the live graph's channel of changes.  Each tick drains the channel for   *)
(* one tenant and then reads the edges that the durable edge table lists as *)
(* first seen since the tenant's last tick (EdgeMetaReader, which nothing   *)
(* implements yet: taken from its contract).                                *)
(***************************************************************************)
EXTENDS LiveGraph

CONSTANTS
  Watched,        \* the tenants ticks evaluate
  EvalInterval,
  DedupeTTL,
  NewEdgeMinCalls,
  VanishedEdgeMinCalls

ASSUME WatchAssumption == EvalInterval \in Nat /\ DedupeTTL \in Nat

VARIABLES
  lastReconcile, \* tenant -> time
  emitted        \* edge key and kind -> when it was last reported; never pruned here,
                 \* for an entry past its TTL counts for nothing

watchVars == <<lastReconcile, emitted>>

WatchInit == lastReconcile = Empty /\ emitted = Empty

MinCalls(kind) == IF kind = "NewEdge" THEN NewEdgeMinCalls ELSE VanishedEdgeMinCalls

Suppressed(key, kind) ==
  <<key, kind>> \in DOMAIN emitted /\ gclock - emitted[<<key, kind>>] < DedupeTTL

Since(t) == IF t \in DOMAIN lastReconcile THEN lastReconcile[t] ELSE gclock - EvalInterval

\* EdgeMetaReader.NewEdgesSince: is_new = 1 and first_seen > since.
NewEdgesSince(t) ==
  {[kind |-> "NewEdge", key |-> k, calls |-> edges[k].calls] :
     k \in {e \in DOMAIN edges : e.tenant = t /\ edges[e].firstSeen > Since(t)}}

\* The channel's events of other tenants are received and dropped.
Heard(t) == {changes[i] : i \in {j \in DOMAIN changes : changes[j].key.tenant = t}} \cup NewEdgesSince(t)

EventsOf(t) == {<<e.key, e.kind>> : e \in {h \in Heard(t) : h.calls >= MinCalls(h.kind) /\ ~Suppressed(h.key, h.kind)}}

Evaluate(t) ==
  /\ emitted' = [x \in DOMAIN emitted \cup EventsOf(t) |-> IF x \in EventsOf(t) THEN gclock ELSE emitted[x]]
  /\ lastReconcile' = Put(lastReconcile, t, gclock)
  /\ changes' = <<>>
  /\ UNCHANGED <<gclock, edges, nextSeq, ops, lastNewEmit, pending, nodes>>

WatchNext ==
  \/ GraphNext /\ UNCHANGED watchVars
  \/ \E t \in Watched : Evaluate(t)

WatchSpec == GraphInit /\ WatchInit /\ [][WatchNext]_<<graphVars, watchVars>>

-----------------------------------------------------------------------------
(* Properties.                                                             *)

\* The reconciliation makes NewEdge lossless: once a tick of its tenant finds a
\* new edge with enough calls, the edge has been reported (Evaluate,
\* EdgeMetaReader).
NewEdgeNeverLost ==
  [][\A t \in Watched : Evaluate(t) =>
       \A k \in DOMAIN edges : k.tenant = t /\ edges[k].firstSeen >= 1 /\ edges[k].calls >= NewEdgeMinCalls
                                => <<k, "NewEdge">> \in DOMAIN emitted']_<<graphVars, watchVars>>
=============================================================================
