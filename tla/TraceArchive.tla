----------------------------- MODULE TraceArchive -----------------------------
(***************************************************************************)
(* What the tiered store promises its caller: GetTrace finds exactly the   *)
(* traces whose Append has been acknowledged, each from that moment on.    *)
(* Nothing is forgotten and nothing appears that was not put.              *)
(***************************************************************************)
CONSTANT Traces
VARIABLES put, found

Init == put = {} /\ found = {}
Put(t) == put' = put \cup {t} /\ found' = found \cup {t}
Next == \E t \in Traces : Put(t)
Spec == Init /\ [][Next]_<<put, found>>
=============================================================================
