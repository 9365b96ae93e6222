-------------------------- MODULE MCInvestigation --------------------------
EXTENDS Investigation, TLC

CONSTANTS i1, i2, r1, r2, guess

MCCatalog == <<r1, r2>>
MCToolOf == r1 :> "metric_query" @@ r2 :> "trace_query"
MCMoves == {<<r1, "strong">>}
MCCharges == {[tokens |-> 1, cached |-> 0, out |-> 1, cost |-> 1], [tokens |-> 0, cached |-> 2, out |-> 1, cost |-> 1]}
=============================================================================
