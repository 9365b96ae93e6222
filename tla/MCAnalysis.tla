------------------------------ MODULE MCAnalysis ------------------------------
(***************************************************************************)
(* The components that make evidence out of what was ingested, and the     *)
(* doors to it: the live graph with the detector that watches its edges,    *)
(* the grouper, the memory, the correlator, the baselines with their        *)
(* detectors, and the gateway.  They meet only through calls the modules    *)
(* take as inputs, so a behaviour exercises one of them: the instances add  *)
(* up instead of multiplying.                                               *)
(***************************************************************************)
EXTENDS EdgeWatch, Grouper, Memory, Correlator, Detection, Gateway, HotIndex, TLC

CONSTANTS ta, tb, none, f1, f2, f3

\* Two tenants call the same peer; a server span names the waiting client span.
GraphSpan(t, k, s, p, i, q) ==
  [tenant |-> t, kind |-> k, service |-> s, peer |-> p, protocol |-> "http", id |-> i, parent |-> q, op |-> none]
MCSpans == {[GraphSpan(ta, "client", "x", "y", 1, none) EXCEPT !.op = "get"],
            [GraphSpan(tb, "client", "x", "y", 1, none) EXCEPT !.op = "get"],
            GraphSpan(ta, "client", "y", none, 2, none), GraphSpan(ta, "server", "z", none, 3, 2)}
Stored3 == LET K == [tenant |-> ta, caller |-> "x", callee |-> "y", protocol |-> "http"]
               Loaded(k, c) == [key |-> k, calls |-> c, firstSeen |-> 0, last |-> 0, vanished |-> FALSE]
           IN  <<Loaded(K, 1), Loaded([K EXCEPT !.callee = "w"], 2), Loaded([K EXCEPT !.callee = "v"], 2), Loaded(K, 2)>>
MCStored == {Stored3}

\* Two neighbours and a stranger.
GroupedEvent(s, f, x, p) == [service |-> s, fp |-> f, score |-> x, provisional |-> p]
MCEvents == {GroupedEvent(1, f1, 60, FALSE), GroupedEvent(2, f2, 90, TRUE), GroupedEvent(3, f3, 80, FALSE)}
MCNear == <<{2}, {1}, {}>>

MCTerms == {{1, 2, 3}, {1, 2, 3, 4}, {2, 3, 4}}
MCBundles ==
  <<[id |-> [p |-> "rec", n |-> 1],
     record |-> [kind |-> "investigation", terms |-> {1, 2, 3, 4}, supersedes |-> NoRecord, weight |-> 20,
                 confirmations |-> 0, corrections |-> 0, created |-> 0, used |-> 0]]>>

\* Logs and metrics come from adapters of the same name; the two sides of a call
\* share a span id.
Ask(k, t, i, o) == [kind |-> k, tenant |-> t, id |-> i, of |-> o, from |-> 0, to |-> 0, limit |-> 0]
MCRequests == {Ask("logs", "ta", 1, 1), Ask("logs", "ta", 2, 2), Ask("metrics", "tb", 7, 1), Ask("metrics", "tb", 7, 2)}
MCAdaptersOf == [logs |-> <<"file">>, metrics |-> <<"file">>]
MCHeld == [x \in {<<"file", "ta">>, <<"file", "tb">>} |-> {[of |-> 1, ts |-> 1], [of |-> 1, ts |-> 2]}]

\* A quiet, a failing and slow, and a rare second.
Load(c, e, p) == [calls |-> c, errors |-> e, p95 |-> p]
MCLoads == {Load(4, 0, 1), Load(4, 4, 4), Load(1, 0, 1)}
FiveBuckets(t) == t \div 5

Says(m, d, e) == [matches |-> m, far |-> <<d, e>>, quotes |-> FALSE]
MCTexts == {Says([x \in {} |-> 0], 9, 9), Says([trace_search |-> 5], 1, 1), Says([trace_search |-> 5], 3, 9),
            Says([explain_trace |-> 9, trace_search |-> 5], 9, 9), Says([investigate |-> 7, investigation_ask |-> 4], 1, 0),
            Says([remediate |-> 6], 9, 9), Says([remediate |-> 6, explain_trace |-> 9], 9, 9),
            Says([incident_status |-> 6], 2, 3), Says([investigation_ask |-> 7], 1, 9),
            Says([memory_lookup |-> 6], 9, 2), [Says([memory_lookup |-> 6], 2, 9) EXCEPT !.quotes = TRUE]}
MCCatalog == <<"svc1", "svc2">>
MCTenantOf == [alice |-> "ta", nemo |-> None]
Everything == {"auth", "authz", "store", "topology", "anomaly", "rca", "remediate", "registry", "nl"}
MCDeployments == {Everything, {"auth", "authz", "anomaly", "nl"}, {"auth", "rca", "remediate", "nl"}, {"authz", "store"}}
MCGrants == {{}, {"telemetry:read"}, {"telemetry:read", "incident:investigate", "remediation_action:propose"}}

\* The callers of the correlator are alike.
CallerSymmetry == Permutations(Callers)

MCStartOf == <<0, 1, 2>>
MCHorizons == [span |-> 1, attr |-> 1, fts |-> 1, trace |-> 2, red |-> 2, edge |-> 2]

VARIABLE part

Parts == {"graph", "grouper", "memory", "correlator", "detection", "gateway", "rows", "rollups", "edges"}

Init == /\ GraphInit /\ WatchInit /\ GrouperInit /\ MemoryInit /\ CorrelatorInit /\ DetectionInit /\ GatewayInit /\ IndexInit
        /\ part \in Parts
        /\ IF part = "gateway" THEN granted["nemo"] = {"telemetry:read", "incident:investigate", "remediation_action:propose"}
           ELSE wired = Everything /\ granted = [s \in Subjects |-> {}]

Next ==
  /\ UNCHANGED part
  /\ \/ part = "graph" /\ WatchNext /\ UNCHANGED <<grouperVars, memoryVars, correlatorVars, detectionVars, gatewayVars, indexVars>>
     \/ part = "grouper" /\ GrouperNext /\ UNCHANGED <<graphVars, watchVars, memoryVars, correlatorVars, detectionVars, gatewayVars, indexVars>>
     \/ part = "memory" /\ MemoryNext /\ UNCHANGED <<graphVars, watchVars, grouperVars, correlatorVars, detectionVars, gatewayVars, indexVars>>
     \/ part = "correlator" /\ CorrelatorNext /\ UNCHANGED <<graphVars, watchVars, grouperVars, memoryVars, detectionVars, gatewayVars, indexVars>>
     \/ part = "detection" /\ DetectionNext /\ UNCHANGED <<graphVars, watchVars, grouperVars, memoryVars, correlatorVars, gatewayVars, indexVars>>
     \/ part = "gateway" /\ GatewayNext /\ UNCHANGED <<graphVars, watchVars, grouperVars, memoryVars, correlatorVars, detectionVars, indexVars>>
     \/ part = "rows" /\ IndexNext /\ UNCHANGED <<red, live, cascade>> /\ UNCHANGED <<graphVars, watchVars, grouperVars, memoryVars, correlatorVars, detectionVars, gatewayVars>>
     \/ part = "edges" /\ IndexNext /\ UNCHANGED <<rows, red, cascade>> /\ UNCHANGED <<graphVars, watchVars, grouperVars, memoryVars, correlatorVars, detectionVars, gatewayVars>>
     \/ part = "rollups" /\ IndexNext /\ UNCHANGED <<rows, live>> /\ UNCHANGED <<graphVars, watchVars, grouperVars, memoryVars, correlatorVars, detectionVars, gatewayVars>>

Spec == Init /\ [][Next]_<<part, graphVars, watchVars, grouperVars, memoryVars, correlatorVars, detectionVars, gatewayVars, indexVars>>
=============================================================================
