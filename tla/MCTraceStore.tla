----------------------------- MODULE MCTraceStore -----------------------------
(***************************************************************************)
(* Instances of TraceStore for TLC: when the traces start.                 *)
(***************************************************************************)
EXTENDS TraceStore, TLC

SameHour == [t \in Traces |-> 1]
\* One trace of the second hour, the others of the first.
TwoHours == LET late == CHOOSE t \in Traces : TRUE
            IN [t \in Traces |-> IF t = late THEN 2 ELSE 1]

\* Where a property speaks only of stores in which no id was handed out twice,
\* there is nothing to explore beyond the first reuse: reused never shrinks.
NoIdReused == reused = {}

TraceSymmetry == Permutations(Traces)
=============================================================================
