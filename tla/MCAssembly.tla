------------------------------ MODULE MCAssembly ------------------------------
(***************************************************************************)
(* Instances of Assembly for TLC: two traces of one shard.                 *)
(***************************************************************************)
EXTENDS Assembly

CONSTANTS s1, s2, s3, t1, t2

TwoAndOne == [s \in Spans |-> IF s = s3 THEN t2 ELSE t1]
OneShard == [t \in Traces |-> 1]
=============================================================================
