------------------------------ MODULE MCIntake ------------------------------
(***************************************************************************)
(* The ingest server, the interest predicates and the keep policy.  They   *)
(* meet only through calls the modules take as inputs, so a behaviour      *)
(* exercises one of them: the instances add up instead of multiplying.     *)
(***************************************************************************)
EXTENDS Interest, KeepPolicy, Pipeline, TLC

CONSTANTS ta, tb, e1, e2, b1, b2

Push(t, s, v, g, x) == [tenant |-> t, scope |-> s, services |-> v, errorSigs |-> g, expires |-> x]
MCRequests == {Push(ta, "investigation", {"x", "y"}, FALSE, 1), Push(tb, "investigation", {"x"}, FALSE, 1),
               Push(ta, "recurrence", {}, FALSE, 2)}
MCTraceKinds == {[tenant |-> ta, services |-> {"y"}, slow |-> FALSE, error |-> FALSE],
                 [tenant |-> tb, services |-> {"x"}, slow |-> TRUE, error |-> TRUE]}

Trace(e, s, t, sig, h) == [error |-> e, slow |-> s, truncated |-> t, sig |-> sig, root |-> "r", hash |-> h]
MCFinalized == {Trace(FALSE, FALSE, FALSE, k, 0) : k \in 1..2}
          \cup {Trace(FALSE, TRUE, FALSE, 1, 0), Trace(TRUE, FALSE, TRUE, 2, 0)}

Attr(k, bk, bv) == [key |-> k, bigKey |-> bk, bigValue |-> bv]
MCRequest == b1 :> [wellformed |-> TRUE, size |-> 2, spans |-> 1,
                    attrs |-> {Attr(1, TRUE, FALSE), Attr(2, FALSE, FALSE), Attr(3, FALSE, TRUE)}]
          @@ b2 :> [wellformed |-> TRUE, size |-> 2, spans |-> 1, attrs |-> {Attr(1, FALSE, TRUE)}]

Dev(blocks, rejects) == [ingestAuth |-> "none", profile |-> "dev", auth |-> "none", loopback |-> TRUE,
                         defaultTenant |-> "default", blocks |-> blocks, rejectsBig |-> rejects]
MCDeployments == {Dev(TRUE, FALSE), Dev(FALSE, TRUE), [Dev(FALSE, FALSE) EXCEPT !.profile = "prod"]}

VARIABLE part

Init == /\ InterestInit /\ PolicyInit /\ PipelineInit /\ part \in {"interest", "policy", "pipeline"}
        /\ part = "pipeline" \/ deployment = Dev(TRUE, FALSE)

Next == /\ UNCHANGED part
        /\ \/ part = "interest" /\ InterestNext /\ UNCHANGED <<policyVars, pipelineVars>>
           \/ part = "policy" /\ PolicyNext /\ UNCHANGED <<interestVars, pipelineVars>>
           \/ part = "pipeline" /\ PipelineNext /\ UNCHANGED <<interestVars, policyVars>>

Spec == Init /\ [][Next]_<<part, interestVars, policyVars, pipelineVars>> /\ PipelineFairness
=============================================================================
