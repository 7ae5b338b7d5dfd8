------------------------------ MODULE Interpreter ------------------------------
(***************************************************************************)
(* The life of a MicroInterpreter: its constructor, AllocateTensors,       *)
(* Invoke, Reset and destructor, in any order in which an application may  *)
(* call them, with the callbacks of the kernels (init, prepare, invoke,    *)
(* reset, free) one step each, and a failure possible in every place that  *)
(* can return an error.                                                    *)
(*                                                                         *)
(* The operators of all subgraphs are numbered 1 to NumOps in the order of *)
(* the loops over them.  Where the memory goes is left to ModelAllocation, *)
(* which subgraph runs when to GraphExecution; here an invocation runs all *)
(* operators once.                                                         *)
(***************************************************************************)
EXTENDS Naturals

CONSTANTS
  NumOps,        \* operators of the model
  Registered,    \* operators that the resolver finds
  Parsed,        \* operators of a kind that the interpreter can parse
  Faults,        \* the places where an error may happen
  ArenaHolds     \* how many times the structures of the model fit in the arena

Ops == 1..NumOps
FaultPlaces == {"start", "nodes", "prepare", "finish", "inputs", "kernel", "leak"}

ASSUME ConstantsAssumption ==
  /\ NumOps \in Nat
  /\ Registered \subseteq Ops
  /\ Parsed \subseteq Ops
  /\ Faults \subseteq FaultPlaces
  /\ ArenaHolds \in Nat

VARIABLES
  pc,                       \* the loop that runs, "idle" between calls
  op,                       \* the operator that its next round is for
  caller,                   \* the call of the application that is under way
  answer,                   \* what the last call returned
  state_,                   \* MicroInterpreterContext::state_
  tensors_allocated_,
  initialization_status_,
  model_is_allocating_,     \* of the MicroAllocator
  generation,               \* which model allocation the graph has, 0 for none
  completed,                \* the last one with which AllocateTensors succeeded
  registration,             \* of each node: "garbage", "null" or "found"
  user_data,                \* of each node: "garbage", "null" or "data"
  prepared,                 \* operators prepared in this generation
  live,                     \* <<generation, operator>> initialised and not freed
  temps                     \* a kernel has kept a temp buffer

vars == <<pc, op, caller, answer, state_, tensors_allocated_,
          initialization_status_, model_is_allocating_, generation,
          completed, registration, user_data, prepared, live, temps>>

nodes == <<registration, user_data, prepared, live>>
interpreter == <<state_, tensors_allocated_, initialization_status_>>
allocator == <<model_is_allocating_, generation, completed>>

Init ==
  /\ pc = "idle" /\ op = 1 /\ caller = "none" /\ answer = "none"
  /\ state_ = "kInit"
  /\ tensors_allocated_ = FALSE
  /\ initialization_status_ = "ok"
  /\ model_is_allocating_ = FALSE
  /\ generation = 0
  /\ completed = 0
  /\ registration = [i \in Ops |-> "garbage"]
  /\ user_data = [i \in Ops |-> "garbage"]
  /\ prepared = {}
  /\ live = {}
  /\ temps = FALSE

-----------------------------------------------------------------------------
(* Control. *)

Goto(place) == pc' = place /\ op' = 1 /\ UNCHANGED <<caller, answer>>
NextOp == op' = op + 1 /\ UNCHANGED <<pc, caller, answer>>
Return(result) == pc' = "idle" /\ op' = 1 /\ answer' = result /\ UNCHANGED caller

At(loop) == pc = loop /\ op \in Ops
Done(loop) == pc = loop /\ op \notin Ops

MayFail(place) == place \in Faults

-----------------------------------------------------------------------------
(* The calls of the application. *)

\* Nothing keeps the application from allocating tensors that are allocated.
CallAllocateTensors ==
  /\ pc = "idle"
  /\ pc' = "start" /\ caller' = "AllocateTensors"
  /\ UNCHANGED <<op, answer, interpreter, allocator, nodes, temps>>

\* A bug: Invoke does not look whether the tensors are allocated.
BugInvokeUnallocated ==
  /\ pc = "idle"
  /\ caller' = "Invoke" /\ op' = 1
  /\ IF initialization_status_ = "error" \/ generation = 0
     THEN pc' = "idle" /\ answer' = "error"
     ELSE pc' = "invoke" /\ UNCHANGED answer
  /\ UNCHANGED <<interpreter, allocator, nodes, temps>>

CallInvoke ==
  /\ pc = "idle"
  /\ caller' = "Invoke" /\ op' = 1
  /\ IF initialization_status_ = "error"
     THEN pc' = "idle" /\ answer' = "error"
     ELSE /\ pc' = IF tensors_allocated_ THEN "invoke" ELSE "start"
          /\ UNCHANGED answer
  /\ UNCHANGED <<interpreter, allocator, nodes, temps>>

\* Without a model allocation the table that Reset walks is a null pointer.
CallReset ==
  /\ pc = "idle"
  /\ \/ generation # 0 /\ pc' = "reset"
     \/ generation = 0 /\ Ops # {} /\ pc' = "crashed"
  /\ caller' = "Reset"
  /\ UNCHANGED <<op, answer, interpreter, allocator, nodes, temps>>

Destroy ==
  /\ pc = "idle"
  /\ pc' = IF generation = 0 THEN "destroyed" ELSE "free"
  /\ caller' = "destructor"
  /\ UNCHANGED <<op, answer, interpreter, allocator, nodes, temps>>

-----------------------------------------------------------------------------
(* AllocateTensors. *)

\* StartModelAllocation refuses to begin while another allocation has not ended,
\* and cannot make a head section while a temp buffer is kept.
StartModelAllocation ==
  /\ pc = "start"
  /\ ~model_is_allocating_ /\ generation < ArenaHolds /\ ~temps
  /\ model_is_allocating_' = TRUE
  /\ generation' = generation + 1
  /\ registration' = [i \in Ops |-> "garbage"]
  /\ user_data' = [i \in Ops |-> "garbage"]
  /\ prepared' = {}
  /\ Goto("nodes")
  /\ UNCHANGED <<interpreter, completed, live, temps>>

StartModelAllocationFails ==
  /\ pc = "start"
  /\ model_is_allocating_ \/ generation = ArenaHolds \/ temps \/ MayFail("start")
  /\ model_is_allocating_' = TRUE
  /\ initialization_status_' = "error"
  /\ Return("error")
  /\ UNCHANGED <<state_, tensors_allocated_, generation, completed, nodes, temps>>

\* PrepareNodeAndRegistrationDataFromFlatbuffer, one operator a step: an operator
\* that is not registered, cannot be parsed, or whose parameters do not fit in the
\* arena, ends it.  A custom operator is refused before it is looked up.
PrepareNode ==
  /\ At("nodes") /\ op \in Registered \cap Parsed
  /\ registration' = [registration EXCEPT ![op] = "found"]
  /\ user_data' = [user_data EXCEPT ![op] = "null"]
  /\ NextOp
  /\ UNCHANGED <<interpreter, allocator, prepared, live, temps>>

PrepareNodeFails ==
  /\ At("nodes")
  /\ op \notin Registered \cap Parsed \/ MayFail("nodes")
  /\ \E result \in {registration[op], IF op \in Registered THEN "found" ELSE "null"} :
       registration' = [registration EXCEPT ![op] = result]
  /\ Return("error")
  /\ UNCHANGED <<interpreter, allocator, user_data, prepared, live, temps>>

NodesPrepared ==
  /\ Done("nodes")
  /\ state_' = "kInit"
  /\ Goto("init")
  /\ UNCHANGED <<tensors_allocated_, initialization_status_, allocator, nodes, temps>>

\* InitSubgraphs.
InitKernel ==
  /\ At("init")
  /\ user_data' = [user_data EXCEPT ![op] = "data"]
  /\ live' = live \union {<<generation, op>>}
  /\ NextOp
  /\ UNCHANGED <<interpreter, allocator, registration, prepared, temps>>

KernelsInitialised ==
  /\ Done("init")
  /\ state_' = "kPrepare"
  /\ Goto("prepare")
  /\ UNCHANGED <<tensors_allocated_, initialization_status_, allocator, nodes, temps>>

\* PrepareSubgraphs.  A temp buffer that a kernel keeps is not noticed here.
PrepareKernel ==
  /\ At("prepare")
  /\ temps' \in {temps, temps \/ MayFail("leak")}
  /\ prepared' = prepared \union {op}
  /\ NextOp
  /\ UNCHANGED <<interpreter, allocator, registration, user_data, live>>

PrepareKernelFails ==
  /\ At("prepare") /\ MayFail("prepare")
  /\ temps' \in {temps, temps \/ MayFail("leak")}
  /\ Return("error")
  /\ UNCHANGED <<interpreter, allocator, nodes>>

KernelsPrepared ==
  /\ Done("prepare")
  /\ state_' = "kMemoryPlanning"
  /\ Goto("finish")
  /\ UNCHANGED <<tensors_allocated_, initialization_status_, allocator, nodes, temps>>

\* FinishModelAllocation: the head section cannot be released while a temp buffer
\* is kept.
FinishModelAllocation ==
  /\ pc = "finish" /\ ~temps
  /\ model_is_allocating_' = FALSE
  /\ Goto("inputs")
  /\ UNCHANGED <<interpreter, generation, completed, nodes, temps>>

FinishModelAllocationFails ==
  /\ pc = "finish"
  /\ temps \/ MayFail("finish")
  /\ Return("error")
  /\ UNCHANGED <<interpreter, allocator, nodes, temps>>

\* The tensors for input() and output().
AllocateInputsOutputs ==
  /\ pc = "inputs"
  /\ Goto("reset")
  /\ UNCHANGED <<interpreter, allocator, nodes, temps>>

AllocateInputsOutputsFails ==
  /\ pc = "inputs" /\ MayFail("inputs")
  /\ Return("error")
  /\ UNCHANGED <<interpreter, allocator, nodes, temps>>

\* Reset: the kernels and then the variables.
ResetKernel ==
  /\ At("reset")
  /\ NextOp
  /\ UNCHANGED <<interpreter, allocator, nodes, temps>>

ResetDone ==
  /\ Done("reset")
  /\ IF caller = "Reset"
     THEN UNCHANGED <<state_, tensors_allocated_, completed>>
     ELSE tensors_allocated_' = TRUE /\ state_' = "kInvoke" /\ completed' = generation
  /\ IF caller = "Invoke" THEN Goto("invoke") ELSE Return("ok")
  /\ UNCHANGED <<initialization_status_, model_is_allocating_, generation, nodes, temps>>

-----------------------------------------------------------------------------
(* Invoke. *)

\* A bug: the status of the reset of the temp buffers is not looked at.
BugResetStatusIgnored ==
  /\ At("invoke") /\ registration[op] = "found"
  /\ temps' \in {temps, temps \/ MayFail("leak")}
  /\ NextOp
  /\ UNCHANGED <<interpreter, allocator, nodes>>

\* A kernel runs, and the temp buffers are reset after it, which fails when one
\* is kept.
InvokeKernel ==
  /\ At("invoke") /\ registration[op] = "found"
  /\ temps' \in {temps, temps \/ MayFail("leak")}
  /\ IF temps' THEN Return("error") ELSE NextOp
  /\ UNCHANGED <<interpreter, allocator, nodes>>

\* A bug: the loop over the operators begins again after an error.
BugInvokeRestarted ==
  /\ At("invoke")
  /\ registration[op] # "found" \/ MayFail("kernel")
  /\ Goto("invoke")
  /\ UNCHANGED <<interpreter, allocator, nodes, temps>>

InvokeKernelFails ==
  /\ At("invoke")
  /\ registration[op] # "found" \/ MayFail("kernel")
  /\ temps' \in {temps, temps \/ MayFail("leak")}
  /\ Return("error")
  /\ UNCHANGED <<interpreter, allocator, nodes>>

Invoked ==
  /\ Done("invoke")
  /\ Return("ok")
  /\ UNCHANGED <<interpreter, allocator, nodes, temps>>

-----------------------------------------------------------------------------
(* The destructor: FreeSubgraphs. *)

\* A bug: the last operator is not freed.
BugLastNotFreed ==
  /\ At("free")
  /\ live' = IF op < NumOps THEN live \ {<<generation, op>>} ELSE live
  /\ NextOp
  /\ UNCHANGED <<interpreter, allocator, registration, user_data, prepared, temps>>

FreeKernel ==
  /\ At("free")
  /\ live' = IF registration[op] = "found" THEN live \ {<<generation, op>>} ELSE live
  /\ NextOp
  /\ UNCHANGED <<interpreter, allocator, registration, user_data, prepared, temps>>

Freed ==
  /\ Done("free")
  /\ pc' = "destroyed"
  /\ UNCHANGED <<op, caller, answer, interpreter, allocator, nodes, temps>>

\* A node that a failed AllocateTensors has not reached holds what the arena held
\* there before: its registration may look like a null pointer, like one to a kernel
\* without the callback, or lead nowhere, as its user data may.
FollowGarbage ==
  /\ pc \in {"reset", "invoke", "free"} /\ op \in Ops
  /\ "garbage" \in {registration[op], user_data[op]}
  /\ pc' = "crashed"
  /\ UNCHANGED <<op, caller, answer, interpreter, allocator, nodes, temps>>

Calls == CallAllocateTensors \/ CallInvoke \/ CallReset \/ Destroy

Steps ==
  \/ StartModelAllocation \/ StartModelAllocationFails
  \/ PrepareNode \/ PrepareNodeFails \/ NodesPrepared
  \/ InitKernel \/ KernelsInitialised
  \/ PrepareKernel \/ PrepareKernelFails \/ KernelsPrepared
  \/ FinishModelAllocation \/ FinishModelAllocationFails
  \/ AllocateInputsOutputs \/ AllocateInputsOutputsFails
  \/ ResetKernel \/ ResetDone
  \/ InvokeKernel \/ InvokeKernelFails \/ Invoked
  \/ FreeKernel \/ Freed \/ FollowGarbage

Next == Calls \/ Steps

\* A call runs on one thread and goes on until it returns.
Spec == Init /\ [][Next]_vars /\ WF_vars(Steps)

-----------------------------------------------------------------------------
(* Properties. *)

Loops == {"start", "nodes", "init", "prepare", "finish", "inputs", "reset",
          "invoke", "free"}

\* The state has its types.
TypeOK ==
  /\ pc \in Loops \union {"idle", "destroyed", "crashed"}
  /\ op \in 1..NumOps + 1
  /\ caller \in {"none", "AllocateTensors", "Invoke", "Reset", "destructor"}
  /\ answer \in {"none", "ok", "error"}
  /\ state_ \in {"kInit", "kPrepare", "kMemoryPlanning", "kInvoke"}
  /\ tensors_allocated_ \in BOOLEAN
  /\ initialization_status_ \in {"ok", "error"}
  /\ model_is_allocating_ \in BOOLEAN
  /\ generation \in 0..ArenaHolds
  /\ completed \in 0..ArenaHolds
  /\ registration \in [Ops -> {"garbage", "null", "found"}]
  /\ user_data \in [Ops -> {"garbage", "null", "data"}]
  /\ prepared \subseteq Ops
  /\ live \subseteq (1..ArenaHolds) \X Ops
  /\ temps \in BOOLEAN

\* AllocateTensors was called on tensors that were allocated and has not succeeded:
\* tensors_allocated_ is still set, by the call before.
HalfAllocated == 0 < completed /\ completed < generation

\* Every callback of a kernel finds the context in the state that it asserts: a
\* kernel may allocate persistent buffers in init and prepare, request scratch
\* buffers in prepare and get them in invoke (micro_interpreter_context.cc:72-101).
\* Invoke misses its state when tensors are half allocated.
CallbackStates ==
  /\ At("init") => state_ = "kInit"
  /\ At("prepare") => state_ = "kPrepare"
  /\ At("invoke") => state_ = "kInvoke" \/ HalfAllocated

\* Whatever failed before, and however often AllocateTensors was called again, a
\* kernel is invoked only on a node of the present allocation that was initialised
\* and prepared, and what a failed allocation left in the nodes is never followed
\* once AllocateTensors has succeeded (the guards of Invoke).  The code keeps this up
\* to one case, stated here: a call of AllocateTensors on allocated tensors that
\* fails takes nothing back, and the Invoke after it runs on the half of it that
\* was done.
InvokesPrepared ==
  /\ pc = "invoke" =>
       \/ prepared = Ops /\ \A i \in Ops : user_data[i] = "data"
       \/ HalfAllocated
  /\ pc = "crashed" => completed = 0 \/ HalfAllocated

\* No kernel of the present allocation is left when the interpreter is gone.
PresentFreed ==
  pc = "destroyed" => \A i \in Ops : <<generation, i>> \notin live

\* An invocation that leaves a temp buffer behind does not succeed, nor does any
\* after it (the reset of temp allocations after every operator).
OkWithoutTemps ==
  pc = "idle" /\ caller = "Invoke" /\ answer = "ok" => ~temps

\* Every call ends: it returns, or follows what a failed allocation left in a node.
CallsReturn == pc \in Loops ~> pc \in {"idle", "destroyed", "crashed"}

=============================================================================
