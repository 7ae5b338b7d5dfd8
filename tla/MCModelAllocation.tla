------------------------- MODULE MCModelAllocation -------------------------
(* Two small models: one with two operators in two subgraphs and scratch    *)
(* buffers, one with a variable tensor and a larger plan.                   *)
EXTENDS ModelAllocation

Operator(subgraph, node) == [subgraph |-> subgraph, node |-> node]

TwoSubgraphs ==
  [subgraphs |-> 2, structs |-> <<Buffer(2, 2), Buffer(2, 2)>>,
   operators |-> <<Operator(0, 0), Operator(1, 0), Operator(1, 1)>>,
   tensors |-> 1, buffers |-> 1, variables |-> <<>>, usages |-> {4, 12},
   io |-> <<Buffer(2, 2)>>]

WithVariable ==
  [subgraphs |-> 1, structs |-> <<Buffer(2, 2)>>, operators |-> <<Operator(0, 0)>>,
   tensors |-> 2, buffers |-> 1, variables |-> <<Buffer(4, 4)>>, usages |-> {0, 8},
   io |-> <<>>]

SmallModels == {TwoSubgraphs, WithVariable}
=============================================================================
