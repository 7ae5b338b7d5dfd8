-------------------------- MODULE DecompressionMemory --------------------------
(***************************************************************************)
(* The alternate memory regions of MicroContext, in which tensors are put   *)
(* when they are decompressed: by the DECODE operator (kernels/decode.cc),  *)
(* which finds a place for its outputs in Prepare and fills it in Eval, and *)
(* by kernels that have compressed weights (AllocateDecompressionScratch-   *)
(* Buffer in Prepare, GetTensorData in Eval), which find a place twice.     *)
(*                                                                          *)
(* A tensor is <<k, j>>: the j-th output of DECODE operator k, or the j-th  *)
(* compressed input of another operator k.                                  *)
(***************************************************************************)
EXTENDS Integers, Sequences

CONSTANTS
  Graphs,             \* each a sequence of operators, see Decode and Kernel
  Layouts,            \* each a sequence of regions [base, bytes]
  Alignment,          \* MicroArenaBufferAlignment
  USE_TFLM_COMPRESSION,
  Failures,           \* the arena may be full
  MaxInvokes

\* An operator: the sizes of the tensors it decompresses, the outputs of DECODE
\* operators that it reads.
Decode(sizes) == [decode |-> TRUE, sizes |-> sizes, reads |-> {}]
Kernel(sizes, reads) == [decode |-> FALSE, sizes |-> sizes, reads |-> reads]

\* A build has one of the two; what is read is the output of a DECODE operator before.
WellFormed(g) ==
  /\ g \in Seq([decode : BOOLEAN, sizes : Seq(Nat), reads : SUBSET (Nat \X Nat)])
  /\ g # <<>>
  /\ \A k \in DOMAIN g :
       IF USE_TFLM_COMPRESSION THEN ~g[k].decode /\ g[k].reads = {}
       ELSE /\ g[k].decode \/ g[k].sizes = <<>>
            /\ \A t \in g[k].reads :
                 t[1] \in 1..k - 1 /\ g[t[1]].decode /\ t[2] \in DOMAIN g[t[1]].sizes

VARIABLES
  pc,           \* "init", "preparing", "ready", "running" or "crashed"
  graph,
  regions,      \* decompress_regions_, <<>> while it is null
  allocations,  \* decompress_regions_allocations_, <<>> while it is null
  place,        \* of each tensor that is prepared
  memory,       \* the tensor that each byte of a region was last written for
  op,           \* the operator that is prepared or run
  todo,         \* its tensors that are still to be handled
  invokes

context == <<regions, allocations>>
vars == <<pc, graph, context, place, memory, op, todo, invokes>>

Tensors == UNION {{k} \X DOMAIN graph[k].sizes : k \in DOMAIN graph}
Size(t) == graph[t[1]].sizes[t[2]]

\* Where a tensor is: in the arena, which the memory planner looks after; at a place
\* in a region; or where Eval will find room (the handle is -1).
InArena == [region |-> 0, offset |-> 0]
PlacedInEval == [region |-> -1, offset |-> 0]

Nothing == <<0, 0>>
NoData == [r \in DOMAIN regions |-> [b \in 0..regions[r].bytes - 1 |-> Nothing]]

Init ==
  /\ pc = "init" /\ graph \in Graphs
  /\ regions = <<>> /\ allocations = <<>> /\ place = <<>> /\ memory = <<>>
  /\ op = 1 /\ todo = {} /\ invokes = 0

-----------------------------------------------------------------------------
(* MicroContext. *)

\* A second call is refused, after a first that failed too.
SetDecompressionMemory ==
  /\ pc = "init" /\ regions = <<>>
  /\ \E l \in Layouts : regions' = l
  /\ memory' = NoData'
  /\ \/ allocations' = [r \in DOMAIN regions' |-> 0]
     \/ Failures /\ UNCHANGED allocations
  /\ UNCHANGED <<pc, graph, place, op, todo, invokes>>

\* What ResetDecompressionMemoryAllocations leaves.
Cleared == [r \in DOMAIN regions |-> 0]

Aligned(address) == ((address + Alignment - 1) \div Alignment) * Alignment

\* The bytes that an allocation takes of a region, padding included.
Padding(r) == Aligned(regions[r].base + allocations[r]) - (regions[r].base + allocations[r])

Holds(r, bytes) == bytes + Padding(r) + allocations[r] <= regions[r].bytes

HasRoom(bytes) == \E r \in DOMAIN regions : Holds(r, bytes)

FirstThatHolds(bytes) ==
  CHOOSE r \in DOMAIN regions : Holds(r, bytes) /\ \A q \in 1..r - 1 : ~Holds(q, bytes)

\* What AllocateDecompressionMemory returns, where a region holds the bytes.
Spot(bytes) ==
  LET r == FirstThatHolds(bytes) IN [region |-> r, offset |-> allocations[r] + Padding(r)]

\* What it leaves.
Take(bytes) ==
  allocations' = [allocations EXCEPT ![FirstThatHolds(bytes)] = @ + bytes + Padding(FirstThatHolds(bytes))]

\* Set, but with a failure: whoever uses the allocations follows a null pointer.
NullAllocations == regions # <<>> /\ allocations = <<>>

Crash ==
  /\ pc' = "crashed"
  /\ UNCHANGED <<graph, context, place, memory, op, todo, invokes>>

-----------------------------------------------------------------------------
(* PrepareSubgraphs: the tensors of each operator in turn. *)

Operators == DOMAIN graph

\* The operator whose turn it is.
Enter(k) ==
  /\ op' = k
  /\ todo' = IF k \in Operators THEN DOMAIN graph[k].sizes ELSE {}

AllocateTensors ==
  /\ pc = "init"
  /\ pc' = "preparing" /\ op' = 0 /\ todo' = {}
  /\ UNCHANGED <<graph, context, place, memory, invokes>>

\* DECODE resets the allocations in its Prepare.
StartsFresh(k) == graph[k].decode

NextPrepare ==
  /\ pc = "preparing" /\ todo = {}
  /\ IF op = Len(graph)
     THEN pc' = "ready" /\ UNCHANGED <<graph, context, place, memory, op, todo, invokes>>
     ELSE IF StartsFresh(op + 1) /\ NullAllocations THEN Crash
     ELSE /\ Enter(op + 1)
          /\ allocations' = IF StartsFresh(op + 1) THEN Cleared ELSE allocations
          /\ UNCHANGED <<pc, graph, regions, place, memory, invokes>>

First(s) == CHOOSE j \in s : \A i \in s : j <= i

\* SetOutputTensorData of DECODE, AllocateDecompressionScratchBuffer of other
\* operators: what no region holds goes into the arena.
PrepareTensor ==
  LET t == <<op, First(todo)>>
      Placed(p) == place' = [u \in DOMAIN place \cup {t} |-> IF u = t THEN p ELSE place[u]]
  IN
  /\ pc = "preparing" /\ todo # {}
  /\ IF NullAllocations THEN Crash
     ELSE /\ todo' = todo \ {t[2]}
          /\ IF HasRoom(Size(t))
             THEN Take(Size(t)) /\ Placed(IF graph[op].decode THEN Spot(Size(t)) ELSE PlacedInEval)
             ELSE Placed(InArena) /\ UNCHANGED allocations
          /\ UNCHANGED <<pc, graph, regions, memory, op, invokes>>

-----------------------------------------------------------------------------
(* InvokeSubgraph. *)

Invoke ==
  /\ pc = "ready" /\ invokes < MaxInvokes
  /\ pc' = "running" /\ invokes' = invokes + 1 /\ Enter(1)
  /\ UNCHANGED <<graph, context, place, memory>>

\* The memory after the bytes of tensor t are written at p.
Written(t, p) ==
  IF p = InArena THEN memory
  ELSE [memory EXCEPT ![p.region] =
          [b \in DOMAIN @ |-> IF b \in p.offset..p.offset + Size(t) - 1 THEN t ELSE @[b]]]

\* DECODE decodes its outputs one after another.
DecodeTensor ==
  LET t == <<op, First(todo)>> IN
  /\ pc = "running" /\ todo # {} /\ graph[op].decode
  /\ memory' = Written(t, place[t]) /\ todo' = todo \ {t[2]}
  /\ UNCHANGED <<pc, graph, context, place, op, invokes>>

\* GetTensorData of the compressed inputs, which are arguments of one call: their
\* order is the compiler's.
DecompressTensor ==
  /\ pc = "running" /\ todo # {} /\ ~graph[op].decode
  /\ \E j \in todo :
       LET t == <<op, j>> IN
       IF place[t] = InArena
       THEN todo' = todo \ {j} /\ UNCHANGED <<pc, graph, context, place, memory, op, invokes>>
       ELSE IF ~HasRoom(Size(t)) THEN Crash
       ELSE /\ Take(Size(t)) /\ place' = [place EXCEPT ![t] = Spot(Size(t))]
            /\ memory' = Written(t, Spot(Size(t))) /\ todo' = todo \ {j}
            /\ UNCHANGED <<pc, graph, regions, op, invokes>>

\* The reset after each operator, which only one build has.
AfterOperator == IF USE_TFLM_COMPRESSION THEN Cleared ELSE allocations

\* The operator computes and is done.
FinishOperator ==
  /\ pc = "running" /\ todo = {}
  /\ IF USE_TFLM_COMPRESSION /\ NullAllocations THEN Crash
     ELSE /\ allocations' = AfterOperator
          /\ place' = [t \in DOMAIN place |->
                         IF t[1] = op /\ ~graph[op].decode /\ place[t] # InArena
                         THEN PlacedInEval ELSE place[t]]
          /\ IF op < Len(graph) THEN Enter(op + 1) /\ UNCHANGED pc
             ELSE pc' = "ready" /\ UNCHANGED <<op, todo>>
          /\ UNCHANGED <<graph, regions, memory, invokes>>

Next ==
  \/ SetDecompressionMemory \/ AllocateTensors \/ NextPrepare \/ PrepareTensor
  \/ Invoke \/ DecodeTensor \/ DecompressTensor \/ FinishOperator

Spec == Init /\ [][Next]_vars

-----------------------------------------------------------------------------
(* Properties. *)

InRegion(p) == p.region > 0

\* The state has its types; allocations stay inside their regions.
TypeOK ==
  /\ pc \in {"init", "preparing", "ready", "running", "crashed"}
  /\ op \in 0..Len(graph) /\ invokes \in 0..MaxInvokes
  /\ DOMAIN place \subseteq Tensors
  /\ \A r \in DOMAIN allocations : allocations[r] \in 0..regions[r].bytes

\* What is placed in a region is inside it and aligned there.
PlacesInside ==
  \A t \in DOMAIN place : InRegion(place[t]) =>
    LET p == place[t]
        r == regions[p.region]
    IN p.offset + Size(t) <= r.bytes /\ (r.base + p.offset) % Alignment = 0

Intact(t) ==
  LET p == place[t] IN
  InRegion(p) => \A b \in p.offset..p.offset + Size(t) - 1 : memory[p.region][b] = t

Computing == pc = "running" /\ todo = {}

\* No other DECODE operator has run behind the one that made tensor t: the Prepare of
\* each gives it all regions from their start, also where an earlier one's outputs are.
StillPlaced(t) == \A i \in t[1] + 1..op : ~graph[i].decode

\* An operator finds the tensors that it reads as they were decompressed for it, its
\* own and those of the DECODE operator that ran last before it; what an earlier DECODE
\* has put into a region is lost, although it should be "available for the lifetime
\* of the memory buffer" (docs/compression.md).
InputsIntact ==
  Computing => \A t \in graph[op].reads \cup ({op} \X DOMAIN graph[op].sizes) :
                 StillPlaced(t) => Intact(t)

\* Two places that one operator has at a time share no byte.
PlacesApart ==
  \A t, u \in DOMAIN place :
    LET p == place[t]
        q == place[u]
    IN t[1] = u[1] /\ t # u /\ InRegion(p) /\ p.region = q.region =>
         p.offset + Size(t) <= q.offset \/ q.offset + Size(u) <= p.offset

=============================================================================
