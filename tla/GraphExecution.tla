---------------------------- MODULE GraphExecution ----------------------------
(***************************************************************************)
(* MicroInterpreterGraph::InvokeSubgraph and the control-flow kernels IF,  *)
(* WHILE and CALL_ONCE, running a model whose buffers are planned with the *)
(* lifetimes of module Lifetimes.                                          *)
(*                                                                         *)
(* Memory is what is left of the data: a buffer is intact while its bytes  *)
(* are those last written to it.  Writing a buffer destroys every buffer   *)
(* that a sound plan may place on the same bytes, so that one behaviour    *)
(* stands for the executions over all plans.                               *)
(***************************************************************************)
EXTENDS Lifetimes

\* The operator after which InvokeSubgraph copies two bytes of its first input
\* over its first output (index 0x1D in the code, which counts from 0).
kPatchedOperator == 30

VARIABLES
  frames,                  \* activations of InvokeSubgraph, the running one first
  current_subgraph_index_,
  current_operator_index_,
  invoke_status,
  answered,                \* the last Invoke succeeded
  has_run,                 \* CALL_ONCE operators that have run
  intact,
  patched                  \* tensors overwritten by the copy after an operator

executionVars == <<frames, current_subgraph_index_, current_operator_index_,
                   invoke_status, answered, has_run, intact, patched>>
vars == <<markingVars, executionVars>>

-----------------------------------------------------------------------------

\* An activation of InvokeSubgraph: node is the operator it has begun, stage how
\* far that operator's kernel is, callee the subgraph the kernel has invoked;
\* the rest are the indices to be restored.
Frame(s) ==
  [subgraph |-> s, node |-> 0, stage |-> "fetch", callee |-> 0,
   previous_subgraph_idx |-> current_subgraph_index_,
   previous_operator_idx |-> current_operator_index_]

Running == frames # <<>>
Top == Head(frames)
AtStage(stage) == Running /\ invoke_status = "ok" /\ Top.stage = stage

\* Kernels reach their tensors through the current subgraph.
Node == Op(Top.subgraph, Top.node)
NodeInputs == Named(current_subgraph_index_, Node.inputs)
NodeOutputs == Named(current_subgraph_index_, Node.outputs)
NodeScratch == OpScratch(Top.subgraph, Top.node)

\* What is intact after the given buffers were written.
Written(buffers) ==
  {b \in intact \union buffers : \A w \in buffers \ {b} : ~MayShare(b, w)}

WriteBuffers(buffers) ==
  /\ intact' = Written(buffers)
  /\ patched' = patched \ buffers

\* Tensors are copied one after the other, from sources to destinations; one
\* that lies on the bytes of the other spoils the copies.
CopyBuffers(pairs) ==
  LET destinations == {p[2] : p \in pairs}
      spoiled == IF \E p \in pairs : MayShare(p[1], p[2]) THEN destinations ELSE {}
  IN /\ intact' = Written(destinations) \ spoiled
     /\ patched' = patched \ destinations

Unwritten == UNCHANGED <<intact, patched>>

\* The kernel of the running operator invokes subgraph g and is then at stage.
InvokeSubgraph(g, stage) ==
  /\ frames' = <<Frame(g)>> \o [frames EXCEPT ![1].stage = stage, ![1].callee = g]
  /\ current_subgraph_index_' = g
  /\ current_operator_index_' = 1

StageTo(stage) ==
  /\ frames' = [frames EXCEPT ![1].stage = stage]
  /\ UNCHANGED <<current_subgraph_index_, current_operator_index_>>

\* A bug: the operator index of the calling kernel is not restored.
BugOperatorNotRestored ==
  /\ frames' = Tail(frames)
  /\ current_subgraph_index_' = Top.previous_subgraph_idx
  /\ UNCHANGED current_operator_index_

RestoreIndices ==
  /\ frames' = Tail(frames)
  /\ current_subgraph_index_' = Top.previous_subgraph_idx
  /\ current_operator_index_' = Top.previous_operator_idx

-----------------------------------------------------------------------------

InitExecution ==
  /\ Init
  /\ frames = <<>>
  /\ current_subgraph_index_ = 1
  /\ current_operator_index_ = 1
  /\ invoke_status = "ok"
  /\ answered = FALSE
  /\ has_run = {}
  /\ intact = model.weights \union model.variables
  /\ patched = {}

Mark == MarkAllocationLifetimes /\ UNCHANGED executionVars

\* The application sets the inputs and invokes the first subgraph.
Invoke ==
  /\ Planned /\ ~Running
  /\ WriteBuffers(Inputs(1))
  /\ frames' = <<Frame(1)>>
  /\ current_subgraph_index_' = 1
  /\ current_operator_index_' = 1
  /\ invoke_status' = "ok"
  /\ answered' = FALSE
  /\ UNCHANGED <<markingVars, has_run>>

FetchOperator ==
  /\ AtStage("fetch")
  /\ current_operator_index_ <= Len(Subgraph(Top.subgraph).ops)
  /\ frames' = [frames EXCEPT
                  ![1].node = current_operator_index_,
                  ![1].stage = Op(Top.subgraph, current_operator_index_).code]
  /\ UNCHANGED <<markingVars, current_subgraph_index_, current_operator_index_,
                 invoke_status, answered, has_run>>
  /\ Unwritten

\* A kernel reads its inputs while it writes scratch buffers, outputs and the
\* variables among its inputs.
RunKernel ==
  /\ AtStage("KERNEL")
  /\ WriteBuffers(NodeOutputs \union NodeScratch \union (NodeInputs \cap model.variables))
  /\ StageTo("invoked")
  /\ UNCHANGED <<markingVars, invoke_status, answered, has_run>>

\* IfEval.
IfInvokesBranch ==
  /\ AtStage("IF")
  /\ \E g \in ToSet(Node.subgraphs) :
       /\ CopyBuffers(NodeInputs \X Inputs(g))
       /\ InvokeSubgraph(g, "branch")
  /\ UNCHANGED <<markingVars, invoke_status, answered, has_run>>

IfCopiesOutputs ==
  /\ AtStage("branch")
  /\ CopyBuffers(Outputs(Top.callee) \X NodeOutputs)
  /\ StageTo("invoked")
  /\ UNCHANGED <<markingVars, invoke_status, answered, has_run>>

\* WhileEval.
CondSubgraph == Node.subgraphs[1]
BodySubgraph == Node.subgraphs[2]

WhileInvokesCond ==
  /\ AtStage("WHILE")
  /\ CopyBuffers(NodeInputs \X Inputs(CondSubgraph))
  /\ InvokeSubgraph(CondSubgraph, "first condition")
  /\ UNCHANGED <<markingVars, invoke_status, answered, has_run>>

\* The inputs are copied to the body and to the outputs whatever the condition.
WhileBegins ==
  /\ AtStage("first condition")
  /\ CopyBuffers((NodeInputs \X (Inputs(BodySubgraph) \union NodeOutputs))
                   \union (NodeOutputs \X Inputs(BodySubgraph)))
  /\ \/ InvokeSubgraph(BodySubgraph, "body")
     \/ StageTo("invoked")
  /\ UNCHANGED <<markingVars, invoke_status, answered, has_run>>

WhileTestsAgain ==
  /\ AtStage("body")
  /\ CopyBuffers((Outputs(Top.callee) \X NodeOutputs)
                   \union (NodeOutputs \X Inputs(CondSubgraph)))
  /\ InvokeSubgraph(CondSubgraph, "condition")
  /\ UNCHANGED <<markingVars, invoke_status, answered, has_run>>

WhileIterates ==
  /\ AtStage("condition")
  /\ CopyBuffers(NodeOutputs \X Inputs(BodySubgraph))
  /\ InvokeSubgraph(BodySubgraph, "body")
  /\ UNCHANGED <<markingVars, invoke_status, answered, has_run>>

WhileEnds ==
  /\ AtStage("condition")
  /\ StageTo("invoked")
  /\ UNCHANGED <<markingVars, invoke_status, answered, has_run>>
  /\ Unwritten

\* CallOnceEval.
CallOnceInvokes ==
  /\ AtStage("CALL_ONCE")
  /\ <<Top.subgraph, Top.node>> \notin has_run
  /\ InvokeSubgraph(Node.subgraphs[1], "once")
  /\ UNCHANGED <<markingVars, invoke_status, answered, has_run>>
  /\ Unwritten

CallOnceSkips ==
  /\ AtStage("CALL_ONCE")
  /\ <<Top.subgraph, Top.node>> \in has_run
  /\ StageTo("invoked")
  /\ UNCHANGED <<markingVars, invoke_status, answered, has_run>>
  /\ Unwritten

CallOnceDone ==
  /\ AtStage("once")
  /\ has_run' = has_run \union {<<Top.subgraph, Top.node>>}
  /\ StageTo("invoked")
  /\ UNCHANGED <<markingVars, invoke_status, answered>>
  /\ Unwritten

\* The copy after operator kPatchedOperator changes the result of every kernel
\* but one that copies its first input to its first output.
Patched ==
  IF Top.node = kPatchedOperator /\ ~Node.copies /\ Node.outputs # <<>>
  THEN {<<Top.subgraph, Node.outputs[1]>>} ELSE {}

\* The loop of InvokeSubgraph goes on to the next operator.
OperatorInvoked ==
  /\ AtStage("invoked")
  /\ patched' = patched \union Patched
  /\ frames' = [frames EXCEPT ![1].stage = "fetch"]
  /\ current_operator_index_' = current_operator_index_ + 1
  /\ UNCHANGED <<markingVars, current_subgraph_index_, invoke_status, answered,
                 has_run, intact>>

\* All operators are done: control goes back to the calling kernel or to Invoke.
SubgraphInvoked ==
  /\ AtStage("fetch")
  /\ current_operator_index_ > Len(Subgraph(Top.subgraph).ops)
  /\ RestoreIndices
  /\ answered' = (Len(frames) = 1)
  /\ UNCHANGED <<markingVars, invoke_status, has_run>>
  /\ Unwritten

\* A kernel returns an error; InvokeSubgraph leaves its loop and so do the
\* kernels and the activations that called it.
KernelFails ==
  /\ AtStage("KERNEL") \/ (AtStage("invoked") /\ Node.code = "KERNEL")
  /\ invoke_status' = "error"
  /\ UNCHANGED <<markingVars, frames, current_subgraph_index_,
                 current_operator_index_, answered, has_run>>
  /\ Unwritten

\* A bug: a kernel ignores the status of the subgraph that it invoked.
BugStatusIgnored ==
  /\ Running /\ invoke_status = "error"
  /\ RestoreIndices
  /\ invoke_status' = IF Len(frames) > 1 THEN "ok" ELSE "error"
  /\ UNCHANGED <<markingVars, answered, has_run>>
  /\ Unwritten

Unwind ==
  /\ Running /\ invoke_status = "error"
  /\ RestoreIndices
  /\ UNCHANGED <<markingVars, invoke_status, answered, has_run>>
  /\ Unwritten

Execute ==
  \/ FetchOperator \/ RunKernel
  \/ IfInvokesBranch \/ IfCopiesOutputs
  \/ WhileInvokesCond \/ WhileBegins \/ WhileTestsAgain \/ WhileIterates \/ WhileEnds
  \/ CallOnceInvokes \/ CallOnceSkips \/ CallOnceDone
  \/ OperatorInvoked \/ SubgraphInvoked
  \/ Unwind

Next == Mark \/ Invoke \/ Execute \/ KernelFails

\* An invocation is one call on one thread: it goes on until it returns.
Spec == InitExecution /\ [][Next]_vars /\ WF_vars(Execute)

-----------------------------------------------------------------------------
(* Properties. *)

\* The buffers that the running kernel, or the application after Invoke, reads.
Reads ==
  CASE ~Running -> IF answered THEN Outputs(1) ELSE {}
    [] invoke_status = "error" -> {}
    [] OTHER ->
       CASE Top.stage \in {"KERNEL", "IF", "WHILE"} -> NodeInputs
         [] Top.stage = "invoked" ->
              NodeOutputs \union (IF Node.code = "KERNEL" THEN NodeInputs \union NodeScratch
                                                          ELSE {})
         [] Top.stage \in {"branch", "body"} -> Outputs(Top.callee)
         [] Top.stage = "first condition" -> Outputs(Top.callee) \union NodeInputs
         [] Top.stage = "condition" -> Outputs(Top.callee) \union NodeOutputs
         [] OTHER -> {}

\* Whatever is read has been given memory and holds what was last written to it, in
\* every plan that keeps buffers with overlapping lifetimes apart: through nested
\* subgraphs, all iterations of a loop, failed invocations and from one Invoke to the
\* next (MarkAllocationLifetimes, micro_allocation_info.h:99-102).
ReadsIntact ==
  /\ Reads \subseteq intact
  /\ AtStage("invoked") => \A b \in NodeInputs \union NodeOutputs : Location(b) # "nowhere"

\* A kernel that runs, also after it has invoked subgraphs, works on its own node's
\* subgraph and operator, and between invocations, failed ones too, the indices are
\* those of the start (InvokeSubgraph saves and restores them).
IndicesRight ==
  IF Running
  THEN invoke_status = "ok" =>
         /\ current_subgraph_index_ = Top.subgraph
         /\ Top.stage # "fetch" => current_operator_index_ = Top.node
  ELSE current_subgraph_index_ = 1 /\ current_operator_index_ = 1

\* When the plan is made, the scratch buffers that have a size and the address of
\* the handle that is to receive the offset are exactly those requested by operators
\* of subgraphs that the first one reaches, through operators of any kind and depth.
\* All others enter the plan with what was left in the arena: every subgraph is
\* prepared, but InitializeAllocationInfo gives a scratch buffer no size
\* (micro_allocation_info.cc:273) and the walk passes only what is reached.
ScratchDescribed ==
  Planned => described = {b \in Scratch : Reachable(model, model.requests[b[2]].subgraph)}

\* A kernel that fails, in whatever depth of nested subgraphs and loops, ends the
\* whole invocation (the early returns of InvokeSubgraph and of the kernels).
ErrorsReturn == invoke_status = "error" ~> ~Running

=============================================================================
