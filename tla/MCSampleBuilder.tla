--------------------------- MODULE MCSampleBuilder ---------------------------
(* Two small archives for the sample builder: where the first may yield,   *)
(* a part ends in the middle of the pattern, in the second within a header.*)
EXTENDS SampleBuilder

MCTargets == {"data cut", "header cut"}

MCPlan ==
  [t \in MCTargets |->
     IF t = "data cut"
     THEN <<[method |-> "DEFLATE", size |-> 1], [method |-> "STORED", size |-> 3]>>
     ELSE <<[method |-> "DEFLATE", size |-> 3], [method |-> "STORED", size |-> 1]>>]

=============================================================================
