------------------------------ MODULE Interest ------------------------------
(***************************************************************************)
(* The sampler's interest predicates (src/internal/sampler/predicate.go)   *)
(* and the adapter through which the RCA engine pushes and removes them    *)
(* (src/cmd/traceiq/interest_adapter.go).                                  *)
(*                                                                         *)
(* Writers replace the whole slice under a mutex; Match scans a slice it   *)
(* loaded before and then publishes its own copy of the predicate that     *)
(* matched.  The slice is a set of records here: identifiers are issued in *)
(* increasing order and every writer keeps the order of the others, so the *)
(* identifier is the position.                                             *)
(***************************************************************************)
EXTENDS Integers, FiniteSets

CONSTANTS
  Tenants,
  Requests,    \* what a caller may push: tenant, scope, services, expires
  TraceKinds,  \* what Match tells apart: tenant, services, slow, error
  MaxPreds,    \* sampler.interest.max_predicates
  NoMatch,
  Times,       \* the instants at which ExpireDue may run, for checking
  Levels,      \* the levels Narrow may be asked for, out of 1..4
  MaxIds,      \* bounds Add, for checking
  MaxHits      \* bounds Match, for checking

ASSUME InterestAssumption ==
  /\ MaxPreds \in Nat \ {0} /\ MaxIds \in Nat /\ MaxHits \in Nat
  /\ Levels \subseteq 1..4 /\ \A r \in Requests : r.tenant \in Tenants /\ r.expires \in Nat

VARIABLES
  preds,    \* the published snapshot
  lastId,   \* ps.seq
  evicted,  \* ps.evictedTotal
  matching  \* the copy Match holds between its scan and storeUpdated

interestVars == <<preds, lastId, evicted, matching>>

Ids == {p.id : p \in preds}
Of(t) == {p \in preds : p.tenant = t}
Without(id) == {p \in preds : p.id # id}
First(ps) == CHOOSE p \in ps : \A q \in ps : p.id <= q.id

InterestInit == preds = {} /\ lastId = 0 /\ evicted = 0 /\ matching = NoMatch

-----------------------------------------------------------------------------
(* Add: past the tenant's limit the predicate with the fewest hits goes,   *)
(* the soonest to expire among those, the oldest among those.              *)

Before(p, q) == \/ p.hits < q.hits
                \/ p.hits = q.hits /\ p.expires < q.expires
                \/ p.hits = q.hits /\ p.expires = q.expires /\ p.id < q.id

\* Not the code: one predicate too many survives.
VictimsOffByOne(t) == IF Cardinality(Of(t)) <= MaxPreds THEN {}
              ELSE {p \in Of(t) : \A q \in Of(t) \ {p} : Before(p, q)}

Victims(t) == IF Cardinality(Of(t)) < MaxPreds THEN {}
              ELSE {p \in Of(t) : \A q \in Of(t) \ {p} : Before(p, q)}

Pred(r, id) ==
  [id |-> id, tenant |-> r.tenant, scope |-> r.scope, services |-> r.services, errorSigs |-> r.errorSigs,
   expires |-> r.expires, slowOnly |-> FALSE, errorsOnly |-> FALSE, level |-> 0, hits |-> 0]

Add(r) ==
  /\ lastId < MaxIds
  /\ lastId' = lastId + 1
  /\ preds' = (preds \ Victims(r.tenant)) \cup {Pred(r, lastId + 1)}
  /\ evicted' = evicted + Cardinality(Victims(r.tenant))
  /\ UNCHANGED matching

Remove(id) ==
  /\ preds' = Without(id)
  /\ UNCHANGED <<lastId, evicted, matching>>

-----------------------------------------------------------------------------
(* Match: a trace fits a predicate that asks for its services, or one that *)
(* names no selector at all.  A predicate that names only error signatures *)
(* fits nothing.                                                           *)

Candidate(p, t) == IF p.services # {} THEN p.services \cap t.services # {} ELSE ~p.errorSigs

Fits(p, t) == /\ p.slowOnly => t.slow
              /\ p.errorsOnly => t.error
              /\ Candidate(p, t)

MatchScan(t) ==
  LET fitting == {p \in preds : Fits(p, t)} IN
  /\ matching = NoMatch /\ fitting # {} /\ First(fitting).hits < MaxHits
  /\ matching' = [pred |-> [First(fitting) EXCEPT !.hits = @ + 1], tenant |-> t.tenant]
  /\ UNCHANGED <<preds, lastId, evicted>>

\* Not the code: a copy published whether or not the predicate is still there.
PublishedAnyway(u) == {p \in preds : p.id # u.id} \cup {u}

\* storeUpdated replaces a predicate that is still there, by its identifier.
Published(u) == {IF p.id = u.id THEN u ELSE p : p \in preds}

MatchPublish ==
  /\ matching # NoMatch
  /\ preds' = Published(matching.pred)
  /\ matching' = NoMatch
  /\ UNCHANGED <<lastId, evicted>>

-----------------------------------------------------------------------------
(* ExpireDue and Narrow are offered to the owner of the set; the program   *)
(* wires neither.                                                          *)

ExpireDue(now) ==
  /\ preds' = {p \in preds : now < p.expires}
  /\ UNCHANGED <<lastId, evicted, matching>>

Narrower(p, level) ==
  CASE level = 1 -> [p EXCEPT !.slowOnly = TRUE, !.level = 1]
    [] level = 2 -> [p EXCEPT !.errorsOnly = TRUE, !.level = 2]
    [] level = 3 -> [p EXCEPT !.services = IF Cardinality(@) > 1 THEN {CHOOSE s \in @ : TRUE} ELSE @, !.level = 3]

LeastHitRecurrence ==
  {p \in preds : /\ p.scope = "recurrence"
                 /\ \A q \in preds \ {p} : q.scope = "recurrence" =>
                      p.hits < q.hits \/ (p.hits = q.hits /\ p.id < q.id)}

Narrow(level) ==
  /\ preds' = IF level = 4 THEN preds \ LeastHitRecurrence ELSE {Narrower(p, level) : p \in preds}
  /\ UNCHANGED <<lastId, evicted, matching>>

InterestNext ==
  \/ \E r \in Requests : Add(r)
  \/ \E id \in Ids : Remove(id)
  \/ \E t \in TraceKinds : MatchScan(t)
  \/ MatchPublish
  \/ \E now \in Times : ExpireDue(now)
  \/ \E level \in Levels : Narrow(level)

InterestSpec == InterestInit /\ [][InterestNext]_interestVars

-----------------------------------------------------------------------------
(* Properties.                                                             *)

\* An identifier names one predicate: Remove and the publication of a match
\* address by identifier (storeUpdated, Remove).
NamesOne == \A p, q \in preds : p.id = q.id => p = q

\* The copy a match publishes belongs to the same tenant as the predicate it
\* replaces (Match, storeUpdated).
CopyFaithful == matching # NoMatch =>
                  \A p \in preds : p.id = matching.pred.id => p.tenant = matching.pred.tenant

\* No tenant holds more than sampler.interest.max_predicates predicates, both
\* scopes together, whatever matches publish meanwhile (Add's eviction).
TenantBound == \A t \in Tenants : Cardinality(Of(t)) <= MaxPreds

\* A predicate that was removed, evicted or expired does not come back: the
\* copy that a concurrent Match publishes afterwards is dropped (storeUpdated).
GoneForGood == [][\A id \in 1..lastId : id \notin Ids => id \notin Ids']_interestVars

\* A predicate keeps only its own tenant's traces: every lookup of the sampler
\* carries a tenant (DR-5).
OwnTenant == matching # NoMatch => matching.tenant = matching.pred.tenant
=============================================================================
