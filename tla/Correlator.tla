---------------------------- MODULE Correlator ----------------------------
(***************************************************************************)
(* Logs of a trace and metrics of a span, joined over the adapters          *)
(* (src/internal/correlate): a cache partitioned by tenant, a bound on the  *)
(* calls in flight and a circuit breaker per adapter name.                  *)
(*                                                                          *)
(* A call looks the cache up, takes a slot of its tenant and then one of    *)
(* all tenants', for each adapter reads the breaker, asks the adapter and   *)
(* records the outcome, stores what it has and gives the slots back: every  *)
(* such step is one lock held, and other calls run between them.            *)
(***************************************************************************)
EXTENDS Integers, Sequences, FiniteSets

CONSTANTS
  Callers,          \* concurrent calls
  Requests,         \* [kind, tenant, id, of, from, to, limit]: id, the trace or the span asked about;
                    \* of, what the adapters are asked for: that trace, or the span's service and operation
  AdaptersOf,       \* kind -> the adapters' names, in order
  Held,             \* [adapter, tenant] -> the records [of, ts] in its files
  DefaultLimit, MaxPerTenant, MaxGlobal, CacheTTL, CacheMax, BreakerFailures, BreakerOpen,
  MaxNow, MaxCollects  \* bounds, for checking

Tenants == {r.tenant : r \in Requests}
Names == UNION {{AdaptersOf[k][i] : i \in DOMAIN AdaptersOf[k]} : k \in DOMAIN AdaptersOf}

ASSUME CorrelatorAssumption ==
  /\ {DefaultLimit, MaxPerTenant, MaxGlobal, CacheMax, BreakerFailures, CacheTTL, BreakerOpen} \subseteq Nat \ {0}
  /\ \A k \in DOMAIN AdaptersOf : AdaptersOf[k] \in Seq(Names)
  /\ \A r \in Requests : /\ DOMAIN r = {"kind", "tenant", "id", "of", "from", "to", "limit"}
                         /\ r.kind \in DOMAIN AdaptersOf /\ r.limit \in Int
                         /\ r.kind = "logs" => r.of = r.id
  /\ \A a \in Names : \A t \in Tenants :
       IsFiniteSet(Held[<<a, t>>]) /\ \A x \in Held[<<a, t>>] : x = [of |-> x.of, ts |-> x.ts] /\ x.ts \in Int

VARIABLES
  cnow,      \* the clock
  call,      \* caller -> where its call stands
  taken,     \* tenant -> slots of its semaphore that are taken
  inflight,  \* slots of the global semaphore that are taken
  cache,     \* key -> [found, failed, at]; failed, the adapters that had failed, is history
  order,     \* tenant -> keys, oldest insertion first, once it has inserted one
  breaker,   \* adapter -> [failures, openUntil]
  started    \* calls so far, for checking

correlatorVars == <<cnow, call, taken, inflight, cache, order, breaker, started>>

Out == [at |-> "out"]
NoKeys == [x \in {} |-> <<>>]

CorrelatorInit ==
  /\ cnow = 0 /\ started = 0 /\ inflight = 0
  /\ call = [c \in Callers |-> Out]
  /\ taken = [t \in Tenants |-> 0]
  /\ cache = NoKeys /\ order = NoKeys
  /\ breaker = [a \in Names |-> [failures |-> 0, openUntil |-> 0]]

-----------------------------------------------------------------------------
(* What an adapter holds for a request.                                    *)

Limit(r) == IF r.limit <= 0 THEN DefaultLimit ELSE r.limit
\* Spans are told apart by their id alone, whatever service and operation they name.
KeyOf(r) == [kind |-> r.kind, tenant |-> r.tenant, id |-> r.id, from |-> r.from, to |-> r.to,
             limit |-> IF r.kind = "logs" THEN Limit(r) ELSE 0]

InWindow(ts, r) == ts >= r.from /\ (r.to = 0 \/ ts <= r.to)

\* The n earliest; files with equal timestamps are left out.
EarliestOf(S, n) == {x \in S : Cardinality({y \in S : y.ts < x.ts}) < n}

Matching(a, r) == {x \in Held[<<a, r.tenant>>] : x.of = r.of /\ InWindow(x.ts, r)}
Answers(a, r) == IF r.kind = "logs" THEN EarliestOf(Matching(a, r), Limit(r)) ELSE Matching(a, r)

-----------------------------------------------------------------------------
(* The cache.                                                              *)

Cached(k) == k \in DOMAIN cache
FreshEntry(k) == Cached(k) /\ cnow - cache[k].at <= CacheTTL
Dropped(f, S) == [x \in DOMAIN f \ S |-> f[x]]

\* The share is fixed by the tenants that have inserted something before.
Share == LET n == Cardinality(DOMAIN order) IN
  IF n <= 1 THEN CacheMax ELSE IF CacheMax \div n < 1 THEN 1 ELSE CacheMax \div n

OrderOf(t) == IF t \in DOMAIN order THEN order[t] ELSE <<>>
Excess(t) == IF Len(OrderOf(t)) >= Share THEN Len(OrderOf(t)) - Share + 1 ELSE 0

\* Not the code: the oldest entry of any tenant evicted from a full cache.
EvictedFirst(t) ==
  IF Cardinality(DOMAIN cache) < CacheMax THEN {}
  ELSE {k \in DOMAIN cache : \A j \in DOMAIN cache : cache[k].at <= cache[j].at}

\* A key that expired is still in the order, and is appended a second time.
Evicted(t) == {OrderOf(t)[i] : i \in 1..Excess(t)}

CacheSet(k, e) ==
  LET ks == OrderOf(k.tenant)
      kept == IF Cached(k) THEN cache ELSE Dropped(cache, Evicted(k.tenant))
      keys == Append(SubSeq(ks, Excess(k.tenant) + 1, Len(ks)), k)
  IN /\ cache' = [x \in DOMAIN kept \cup {k} |-> IF x = k THEN e ELSE kept[x]]
     /\ order' = IF Cached(k) THEN order
                 ELSE [t \in DOMAIN order \cup {k.tenant} |-> IF t = k.tenant THEN keys ELSE order[t]]

-----------------------------------------------------------------------------
(* A call.                                                                 *)

\* cacheGet deletes an entry that has expired.
Look(c) ==
  /\ call[c] = Out /\ started < MaxCollects
  /\ started' = started + 1
  /\ \E r \in Requests :
       LET k == KeyOf(r) IN
       /\ call' = [call EXCEPT ![c] =
            IF FreshEntry(k) THEN [at |-> "answered", req |-> r, found |-> cache[k].found, errs |-> {}, failed |-> cache[k].failed]
            ELSE [at |-> "missed", req |-> r]]
       /\ cache' = IF Cached(k) /\ ~FreshEntry(k) THEN Dropped(cache, {k}) ELSE cache
  /\ UNCHANGED <<cnow, taken, inflight, order, breaker>>

\* Neither semaphore is waited for.
TakeTenant(c) ==
  /\ call[c].at = "missed"
  /\ LET t == call[c].req.tenant  free == taken[t] < MaxPerTenant IN
     /\ taken' = IF free THEN [taken EXCEPT ![t] = @ + 1] ELSE taken
     /\ call' = [call EXCEPT ![c] = IF free THEN [at |-> "admitted", req |-> @.req] ELSE Out]
  /\ UNCHANGED <<cnow, inflight, cache, order, breaker, started>>

Starting(r) == [at |-> "next", req |-> r, i |-> 1, found |-> {}, errs |-> {}]

\* Not the code: the tenant's slot kept when there is no global one.
TakeGlobalLeaking(c) ==
  /\ call[c].at = "admitted"
  /\ LET free == inflight < MaxGlobal IN
     /\ inflight' = IF free THEN inflight + 1 ELSE inflight
     /\ call' = [call EXCEPT ![c] = IF free THEN Starting(@.req) ELSE Out]
  /\ UNCHANGED <<cnow, taken, cache, order, breaker, started>>

\* A call refused here still has its tenant's slot, and another of the tenant
\* may be refused for it.
TakeGlobal(c) ==
  /\ call[c].at = "admitted"
  /\ LET free == inflight < MaxGlobal IN
     /\ inflight' = IF free THEN inflight + 1 ELSE inflight
     /\ call' = [call EXCEPT ![c] = IF free THEN Starting(@.req) ELSE [at |-> "refused", req |-> @.req]]
  /\ UNCHANGED <<cnow, taken, cache, order, breaker, started>>

Adapters(c) == AdaptersOf[call[c].req.kind]
Adapter(c) == Adapters(c)[call[c].i]

\* On to the next adapter, with what this one answered or its name as an error.
Onward(e, records, errs) ==
  [at |-> "next", req |-> e.req, i |-> e.i + 1, found |-> e.found \cup records, errs |-> e.errs \cup errs]

\* An open breaker counts as an error and the adapter is not asked.
CheckBreaker(c) ==
  /\ call[c].at = "next" /\ call[c].i <= Len(Adapters(c))
  /\ call' = [call EXCEPT ![c] =
       IF cnow < breaker[Adapter(c)].openUntil THEN Onward(@, {}, {Adapter(c)})
       ELSE [@ EXCEPT !.at = "asking"]]
  /\ UNCHANGED <<cnow, taken, inflight, cache, order, breaker, started>>

\* The files cannot be read, or the caller's context has ended.
AdapterFails(c) ==
  /\ call[c].at = "asking"
  /\ LET a == Adapter(c)  n == breaker[a].failures + 1 IN
     /\ breaker' = [breaker EXCEPT ![a] =
          [failures |-> n, openUntil |-> IF n >= BreakerFailures THEN cnow + BreakerOpen ELSE @.openUntil]]
     /\ call' = [call EXCEPT ![c] = Onward(@, {}, {a})]
  /\ UNCHANGED <<cnow, taken, inflight, cache, order, started>>

AdapterAnswers(c) ==
  /\ call[c].at = "asking"
  /\ breaker' = [breaker EXCEPT ![Adapter(c)] = [failures |-> 0, openUntil |-> 0]]
  /\ call' = [call EXCEPT ![c] = Onward(@, Answers(Adapter(c), call[c].req), {})]
  /\ UNCHANGED <<cnow, taken, inflight, cache, order, started>>

\* The merged lines are cut to the limit; what was found is cached, errors or
\* not, and the error is returned only when nothing was found.
Store(c) ==
  /\ call[c].at = "next" /\ call[c].i > Len(Adapters(c))
  /\ LET r == call[c].req
         found == IF r.kind = "logs" THEN EarliestOf(call[c].found, Limit(r)) ELSE call[c].found
     IN /\ CacheSet(KeyOf(r), [found |-> found, failed |-> call[c].errs, at |-> cnow])
        /\ call' = [call EXCEPT ![c] = [at |-> "stored", req |-> r, found |-> found,
                       errs |-> IF found = {} THEN @.errs ELSE {}, failed |-> @.errs]]
  /\ UNCHANGED <<cnow, taken, inflight, breaker, started>>

\* The deferred release, first of the global slot.
ReleaseGlobal(c) ==
  /\ call[c].at = "stored"
  /\ inflight' = inflight - 1
  /\ call' = [call EXCEPT ![c].at = "released"]
  /\ UNCHANGED <<cnow, taken, cache, order, breaker, started>>

\* The tenant's slot goes back at the end, or when there was no global one.
ReleaseTenant(c) ==
  /\ call[c].at \in {"refused", "released"}
  /\ taken' = [taken EXCEPT ![call[c].req.tenant] = @ - 1]
  /\ call' = [call EXCEPT ![c] = IF @.at = "refused" THEN Out ELSE [@ EXCEPT !.at = "answered"]]
  /\ UNCHANGED <<cnow, inflight, cache, order, breaker, started>>

Leave(c) ==
  /\ call[c].at = "answered"
  /\ call' = [call EXCEPT ![c] = Out]
  /\ UNCHANGED <<cnow, taken, inflight, cache, order, breaker, started>>

TickCorrelator == cnow < MaxNow /\ cnow' = cnow + 1 /\ UNCHANGED <<call, taken, inflight, cache, order, breaker, started>>

CorrelatorNext ==
  \/ \E c \in Callers : \/ Look(c) \/ TakeTenant(c) \/ TakeGlobal(c) \/ CheckBreaker(c) \/ AdapterFails(c) \/ AdapterAnswers(c)
                        \/ Store(c) \/ ReleaseGlobal(c) \/ ReleaseTenant(c) \/ Leave(c)
  \/ TickCorrelator

CorrelatorSpec == CorrelatorInit /\ [][CorrelatorNext]_correlatorVars

-----------------------------------------------------------------------------
(* Properties.                                                             *)

Admitted(t) == {c \in Callers : call[c].at \in {"admitted", "refused", "next", "asking", "stored", "released"} /\ call[c].req.tenant = t}
Running == {c \in Callers : call[c].at \in {"next", "asking", "stored"}}

\* A slot is taken for every call that stands between taking it and giving it
\* back and for no other, wherever another was refused, whatever the adapters do;
\* neither bound is exceeded (acquire and its release, DR-20 20.4).
SlotsAccounted ==
  /\ \A t \in Tenants : taken[t] = Cardinality(Admitted(t)) /\ taken[t] <= MaxPerTenant
  /\ inflight = Cardinality(Running) /\ inflight <= MaxGlobal

\* Every cached key is where its tenant's eviction will find it, and no tenant
\* holds more than the whole cache (cacheSet).
CacheAccounted ==
  /\ \A k \in DOMAIN cache : \E i \in DOMAIN OrderOf(k.tenant) : OrderOf(k.tenant)[i] = k
  /\ \A t \in DOMAIN order : Len(order[t]) <= CacheMax

\* What a request is owed, when the adapters in failed had failed: records of its
\* own tenant and subject only, and the earliest ones; a record that an adapter
\* which did answer holds is left out for earlier ones only.
Owed(r, found, failed) ==
  LET asked == {AdaptersOf[r.kind][i] : i \in DOMAIN AdaptersOf[r.kind]} IN
  /\ found \subseteq UNION {Matching(a, r) : a \in asked}
  /\ r.kind = "logs" => Cardinality(found) <= Limit(r)
  /\ \A a \in asked \ failed : \A y \in Matching(a, r) \ found :
       r.kind = "logs" /\ Cardinality(found) = Limit(r) /\ \A x \in found : x.ts <= y.ts

\* The lines of a trace are what is owed to who asked for them; samples of a span
\* are what is owed to a request of the same tenant, span id and window, which
\* may have named another service and operation (LogsForTrace, MetricsForSpan).
OwnRecords ==
  \A c \in Callers : call[c].at = "answered" =>
    LET e == call[c] IN
    \E q \in Requests : /\ KeyOf(q) = KeyOf(e.req) /\ Owed(q, e.found, e.failed)
                        /\ e.req.kind = "logs" => Owed(e.req, e.found, e.failed)

CorrelatorSound == SlotsAccounted /\ CacheAccounted /\ OwnRecords

\* One tenant's insertions evict no other tenant's entries: an entry leaves the
\* cache by expiry or because its own tenant inserts (DR-20 20.4).
EvictsOwnOnly ==
  [][\A k \in DOMAIN cache \ DOMAIN cache' :
       \/ ~FreshEntry(k)
       \/ \E j \in DOMAIN cache' \ DOMAIN cache : j.tenant = k.tenant]_correlatorVars

\* What the comments say and the code does not do -----------------------------

\* The samples of a span are those of its service and operation
\* (MetricsForSpan, correlator.go:328).
SamplesOfSpan ==
  \A c \in Callers : call[c].at = "answered" => \A x \in call[c].found : x.of = call[c].req.of
=============================================================================
