--------------------------- MODULE MCEventPipeline ---------------------------
(* Instances of EventPipeline for TLC: keys of the accounts. *)
EXTENDS EventPipeline

CONSTANTS p1, p2, a1, a2

OnePartition == [a \in {a1} |-> p1]
TwoPartitions == [a \in {a1, a2} |-> IF a = a1 THEN p1 ELSE p2]
=============================================================================
