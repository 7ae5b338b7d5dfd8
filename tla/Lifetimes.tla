------------------------------ MODULE Lifetimes ------------------------------
(***************************************************************************)
(* The lifetimes that AllocationInfoBuilder gives to the buffers of a      *)
(* model (micro_allocation_info.cc), as a walk over its subgraphs with an  *)
(* explicit stack in place of the recursion of MarkAllocationLifetimes and *)
(* MarkSubgraphLifetimesIfNecessary.                                       *)
(*                                                                         *)
(* A model is a record                                                     *)
(*   subgraphs  a sequence of [tensors, inputs, outputs, ops]: the number  *)
(*              of tensors, two sequences of tensor indices, operators     *)
(*   requests   the scratch buffers, as [subgraph, node]                   *)
(*   weights    tensors whose data is in the flatbuffer                    *)
(*   variables  variable tensors                                           *)
(*   offsets    the offline plan of the metadata, <<>> when there is none  *)
(* An operator is [code, inputs, outputs, subgraphs, copies]: its code is  *)
(* "IF", "WHILE", "CALL_ONCE" or "KERNEL" for all others, its subgraphs    *)
(* are <<then, else>>, <<cond, body>> or <<init>>, and copies says that    *)
(* its first output is its first input.  Indices start at 1, and index 0   *)
(* stands for the -1 of an optional tensor that is left out.               *)
(*                                                                         *)
(* A buffer is <<s, t>>, tensor t of subgraph s, or <<0, k>>, the scratch  *)
(* buffer of request k.                                                    *)
(***************************************************************************)
EXTENDS Integers, Sequences, SequencesExt

CONSTANT Models

kOnlinePlannedBuffer == -1
kUninitializedLifetime == -1

\* The tensors of all subgraphs are concatenated in the offline plan.
SubgraphOffset(m, s) ==
  FoldFunctionOnSet(+, 0, [g \in DOMAIN m.subgraphs |-> m.subgraphs[g].tensors], 1 .. s - 1)

-----------------------------------------------------------------------------
(* What is assumed of a model: it comes from a converter, and the Prepare     *)
(* functions of the control-flow kernels have accepted it.                    *)

Operators ==
  [code : {"KERNEL", "IF", "WHILE", "CALL_ONCE"}, inputs : Seq(Nat), outputs : Seq(Nat),
   subgraphs : Seq(Nat), copies : BOOLEAN]

Graphs == [tensors : Nat, inputs : Seq(Nat), outputs : Seq(Nat), ops : Seq(Operators)]

ModelRecords ==
  [subgraphs : Seq(Graphs), requests : Seq([subgraph : Nat, node : Nat]),
   weights : SUBSET (Nat \X Nat), variables : SUBSET (Nat \X Nat), offsets : Seq(Int)]

\* IfPrepare, WhilePrepare and CallOncePrepare; the copies of IfEval compare the
\* number of tensors once more.  The subgraph that runs once has no inputs.
TakesCallees(m, op) ==
  LET NumInputs(g) == Len(m.subgraphs[g].inputs)
      NumOutputs(g) == Len(m.subgraphs[g].outputs)
  IN  /\ ToSet(op.subgraphs) \subseteq DOMAIN m.subgraphs
      /\ op.code = "IF" =>
           \A g \in ToSet(op.subgraphs) :
             Len(op.inputs) = NumInputs(g) + 1 /\ Len(op.outputs) = NumOutputs(g)
      /\ op.code = "WHILE" =>
           /\ Len(op.subgraphs) = 2
           /\ \A g \in ToSet(op.subgraphs) : Len(op.inputs) = NumInputs(g)
           /\ Len(op.outputs) = Len(op.inputs)
           /\ Len(op.outputs) = NumOutputs(op.subgraphs[2])
      /\ op.code = "CALL_ONCE" =>
           /\ op.inputs = <<>> /\ op.outputs = <<>>
           /\ Len(op.subgraphs) = 1 /\ NumInputs(op.subgraphs[1]) = 0
      /\ op.code # "KERNEL" => 0 \notin ToSet(op.inputs) \union ToSet(op.outputs)

\* The tensors that have a value before operator i of subgraph s.
HasValue(m, s, i) ==
  LET g == m.subgraphs[s]
  IN  {t \in 1 .. g.tensors :
         \/ <<s, t>> \in m.weights \union m.variables
         \/ t \in ToSet(g.inputs)
         \/ \E j \in DOMAIN g.ops : j < i /\ t \in ToSet(g.ops[j].outputs)}

\* Operators come in an order in which each finds its inputs made.
InOrder(m, s) ==
  LET g == m.subgraphs[s]
  IN  /\ ToSet(g.inputs) \subseteq 1 .. g.tensors
      /\ ToSet(g.outputs) \subseteq HasValue(m, s, Len(g.ops) + 1)
      /\ \A i \in DOMAIN g.ops :
           /\ ToSet(g.ops[i].inputs) \ {0} \subseteq HasValue(m, s, i)
           /\ ToSet(g.ops[i].outputs) \subseteq 0 .. g.tensors
           /\ TakesCallees(m, g.ops[i])

\* The first subgraph reaches subgraph s through operators.
Reachable(m, s) ==
  \A R \in SUBSET DOMAIN m.subgraphs :
    /\ 1 \in R
    /\ \A g \in R : \A i \in DOMAIN m.subgraphs[g].ops :
         ToSet(m.subgraphs[g].ops[i].subgraphs) \subseteq R
    => s \in R

\* No subgraph comes to invoke itself: of any subgraphs one invokes none of them.
NoRecursion(m) ==
  \A R \in (SUBSET DOMAIN m.subgraphs) \ {{}} :
    \E g \in R : \A i \in DOMAIN m.subgraphs[g].ops :
      ToSet(m.subgraphs[g].ops[i].subgraphs) \intersect R = {}

\* Scratch buffers are requested by operators of any subgraph, also of one that
\* nothing reaches; no variable is in an offline plan, at its place in it nor at
\* the one AllocateVariablesDirect looks at.
WellFormed(m) ==
  /\ m \in ModelRecords
  /\ 1 \in DOMAIN m.subgraphs
  /\ \A s \in DOMAIN m.subgraphs : InOrder(m, s)
  /\ NoRecursion(m)
  /\ \A k \in DOMAIN m.requests :
       /\ m.requests[k].subgraph \in DOMAIN m.subgraphs
       /\ m.requests[k].node \in DOMAIN m.subgraphs[m.requests[k].subgraph].ops
  /\ \A b \in m.variables :
       \/ m.offsets = <<>>
       \/ /\ m.offsets[b[2]] = kOnlinePlannedBuffer
          /\ m.offsets[SubgraphOffset(m, b[1]) + b[2]] = kOnlinePlannedBuffer

ASSUME ModelAssumption == \A m \in Models : WellFormed(m)

VARIABLES
  model,                   \* the model that is allocated
  calls,                   \* the activations of MarkAllocationLifetimes
  allocation_scope_count_,
  first_created,
  last_used,
  described                \* scratch buffers with a size and an output pointer

markingVars == <<model, calls, allocation_scope_count_, first_created,
                 last_used, described>>

-----------------------------------------------------------------------------
(* The model. *)

Subgraph(s) == model.subgraphs[s]
Tensors == UNION {{s} \X (1..Subgraph(s).tensors) : s \in DOMAIN model.subgraphs}
Scratch == {0} \X DOMAIN model.requests
Buffers == Tensors \union Scratch

Named(s, indices) == {s} \X (ToSet(indices) \ {0})
Inputs(s) == Named(s, Subgraph(s).inputs)
Outputs(s) == Named(s, Subgraph(s).outputs)

Op(s, i) == Subgraph(s).ops[i]
OpInputs(s, i) == Named(s, Op(s, i).inputs)
OpOutputs(s, i) == Named(s, Op(s, i).outputs)

OpScratch(s, i) ==
  {0} \X {k \in DOMAIN model.requests :
            model.requests[k] = [subgraph |-> s, node |-> i]}

OfflineOffset(b) ==
  IF model.offsets = <<>> \/ b \in Scratch
  THEN kOnlinePlannedBuffer ELSE model.offsets[SubgraphOffset(model, b[1]) + b[2]]

\* AllocateVariablesDirect looks the offline offset up at the tensor's index
\* within its own subgraph.
InPersistentMemory(b) ==
  /\ b \in model.variables
  /\ model.offsets = <<>> \/ model.offsets[b[2]] = kOnlinePlannedBuffer

NeedsAllocating(b) ==
  IF b \in model.variables THEN OfflineOffset(b) # kOnlinePlannedBuffer
                           ELSE b \notin model.weights

\* Where the data of a buffer is once the plan is committed.
Location(b) ==
  CASE NeedsAllocating(b) -> "overlay"
    [] b \in model.weights -> "flatbuffer"
    [] InPersistentMemory(b) /\ ~NeedsAllocating(b) -> "persistent"
    [] OTHER -> "nowhere"

-----------------------------------------------------------------------------
(* Marking. *)

UpdateFirstCreated(created, buffers, scope) ==
  [b \in Buffers |-> IF b \in buffers /\ created[b] = kUninitializedLifetime
                     THEN scope ELSE created[b]]

UpdateLastUsed(used, buffers, scope) ==
  [b \in Buffers |-> IF b \in buffers THEN scope ELSE used[b]]

\* An activation for subgraph s: op is the operator reached, start the scope at
\* which it began, callees the subgraphs of it that are still to be marked, and
\* busy says that it has begun and not ended.
Activation(s) ==
  [subgraph |-> s, op |-> 0, busy |-> FALSE, start |-> 0, callees |-> <<>>]

Unmarked == [b \in Buffers |-> kUninitializedLifetime]

Init ==
  /\ model \in Models
  /\ calls = <<Activation(1)>>
  /\ allocation_scope_count_ = 0
  /\ first_created = UpdateFirstCreated(Unmarked, Inputs(1), 0)
  /\ last_used = UpdateLastUsed(Unmarked, Inputs(1), 0)
  /\ described = {}

Marking == calls # <<>>
Planned == calls = <<>>

Current == Head(calls)
NextScope == allocation_scope_count_ + 1

\* The next operator of the current subgraph enters its own allocation scope.
BeginOperator ==
  /\ Marking /\ ~Current.busy
  /\ Current.op < Len(Subgraph(Current.subgraph).ops)
  /\ LET s == Current.subgraph
         i == Current.op + 1
     IN /\ first_created' = UpdateFirstCreated(first_created, OpOutputs(s, i), NextScope)
        /\ calls' = [calls EXCEPT ![1] = [subgraph |-> s, op |-> i, busy |-> TRUE,
                                          start |-> NextScope,
                                          callees |-> Op(s, i).subgraphs]]
  /\ allocation_scope_count_' = NextScope
  /\ UNCHANGED <<model, last_used, described>>

\* A bug: the second subgraph of an operator is not marked.
BugFirstCalleeOnly ==
  /\ Marking /\ Current.busy /\ Current.callees # <<>>
  /\ LET g == Head(Current.callees)
     IN /\ calls' = <<Activation(g)>> \o [calls EXCEPT ![1].callees = <<>>]
        /\ first_created' = UpdateFirstCreated(first_created, Inputs(g), NextScope)
        /\ last_used' = UpdateLastUsed(last_used, Inputs(g), NextScope)
  /\ allocation_scope_count_' = NextScope
  /\ UNCHANGED <<model, described>>

\* A subgraph that the operator may invoke is marked in a new scope.
MarkCallee ==
  /\ Marking /\ Current.busy /\ Current.callees # <<>>
  /\ LET g == Head(Current.callees)
     IN /\ calls' = <<Activation(g)>>
                      \o [calls EXCEPT ![1].callees = Tail(Current.callees)]
        /\ first_created' = UpdateFirstCreated(first_created, Inputs(g), NextScope)
        /\ last_used' = UpdateLastUsed(last_used, Inputs(g), NextScope)
  /\ allocation_scope_count_' = NextScope
  /\ UNCHANGED <<model, described>>

\* A bug: the inputs were last used before the operator's subgraphs.
BugInputsEndAtStart ==
  /\ Marking /\ Current.busy /\ Current.callees = <<>>
  /\ LET s == Current.subgraph
         i == Current.op
     IN /\ last_used' = UpdateLastUsed(
                          UpdateLastUsed(last_used, OpInputs(s, i), Current.start),
                          OpOutputs(s, i) \union OpScratch(s, i),
                          allocation_scope_count_)
        /\ first_created' =
             UpdateFirstCreated(first_created, OpScratch(s, i), Current.start)
        /\ described' = described \union OpScratch(s, i)
  /\ calls' = [calls EXCEPT ![1].busy = FALSE]
  /\ UNCHANGED <<model, allocation_scope_count_>>

\* After its subgraphs the last uses of the operator's tensors are marked, and
\* the whole life of its scratch buffers.
EndOperator ==
  /\ Marking /\ Current.busy /\ Current.callees = <<>>
  /\ LET s == Current.subgraph
         i == Current.op
     IN /\ last_used' = UpdateLastUsed(last_used,
                          OpInputs(s, i) \union OpOutputs(s, i) \union OpScratch(s, i),
                          allocation_scope_count_)
        /\ first_created' =
             UpdateFirstCreated(first_created, OpScratch(s, i), Current.start)
        /\ described' = described \union OpScratch(s, i)
  /\ calls' = [calls EXCEPT ![1].busy = FALSE]
  /\ UNCHANGED <<model, allocation_scope_count_>>

\* The outputs of a subgraph live to the end of its invocation.
EndSubgraph ==
  /\ Marking /\ ~Current.busy
  /\ Current.op = Len(Subgraph(Current.subgraph).ops)
  /\ LET outputs == Outputs(Current.subgraph)
     IN /\ first_created' = UpdateFirstCreated(first_created, outputs, allocation_scope_count_)
        /\ last_used' = UpdateLastUsed(last_used, outputs, allocation_scope_count_)
  /\ calls' = Tail(calls)
  /\ UNCHANGED <<model, allocation_scope_count_, described>>

MarkAllocationLifetimes ==
  BeginOperator \/ MarkCallee \/ EndOperator \/ EndSubgraph

-----------------------------------------------------------------------------

\* Buffers that a sound plan may place on the same bytes: both are placed at
\* run time in the overlay, and they are not in use at the same time.  Two
\* buffers with offline offsets are the business of the offline planner.
MayShare(a, b) ==
  /\ NeedsAllocating(a) /\ NeedsAllocating(b)
  /\ OfflineOffset(a) = kOnlinePlannedBuffer \/ OfflineOffset(b) = kOnlinePlannedBuffer
  /\ first_created[a] > last_used[b] \/ first_created[b] > last_used[a]

=============================================================================
