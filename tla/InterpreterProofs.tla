--------------------------- MODULE InterpreterProofs ---------------------------
(***************************************************************************)
(* Proofs about Interpreter for any number of operators and any set of      *)
(* faults.  The inductive invariant says what each loop of AllocateTensors  *)
(* has done when it ends, and that a graph that AllocateTensors has completed   *)
(* is one for which all of them have ended.  Then the services around it, as *)
(* MCServices composes them: the application that hands the interpreter its *)
(* images, the reader of the flash its model lies in, the allocators and    *)
(* planners that hand out its memory, and the tables of operators,          *)
(* variables and profiled events.                                           *)
(***************************************************************************)
EXTENDS Interpreter, MCServices, FiniteSetTheorems, SequenceTheorems, WellFoundedInduction,
        TLAPS

LEMMA ConstantFacts == NumOps \in Nat /\ ArenaHolds \in Nat
  BY ConstantsAssumption

\* Kernels up to the last have been found and initialised, and prepared.
AllInitialised == \A i \in Ops : registration[i] = "found" /\ user_data[i] = "data"
Ready == AllInitialised /\ prepared = Ops

\* The graph is the one that AllocateTensors completed last.
Complete == completed # 0 /\ completed = generation

\* What the loops have done.
Progress ==
  /\ pc = "nodes" => \A i \in Ops : i < op => registration[i] = "found"
  /\ pc = "init" =>
       \A i \in Ops : registration[i] = "found" /\ (i < op => user_data[i] = "data")
  /\ pc = "prepare" => AllInitialised /\ \A i \in Ops : i < op => i \in prepared
  /\ pc \in {"finish", "inputs"} => Ready
  /\ pc = "reset" /\ caller # "Reset" => Ready
  /\ pc = "invoke" => caller = "Invoke"

\* Temp buffers are kept by kernels, and the invocation does not pass one that
\* keeps them.
Leaks ==
  /\ temps => Ops # {}
  /\ pc = "invoke" /\ op > 1 => ~temps

\* A completed graph is ready.
FlagHolds ==
  /\ completed <= generation
  /\ tensors_allocated_ => completed # 0
  /\ Complete =>
       Ready /\ state_ = "kInvoke"
       /\ pc \in {"idle", "start", "reset", "invoke", "free", "destroyed"}

CalledFrom ==
  /\ pc \in {"start", "nodes", "init", "prepare", "finish", "inputs"} =>
       caller \in {"AllocateTensors", "Invoke"}
  /\ pc = "invoke" => completed # 0
  /\ pc = "crashed" => ~Complete

\* There is a graph to work on.
Generated ==
  /\ pc \notin {"idle", "start", "destroyed", "crashed"} => generation # 0
  /\ tensors_allocated_ => generation # 0

StatesMatch ==
  /\ pc = "init" => state_ = "kInit"
  /\ pc = "prepare" => state_ = "kPrepare"

IInv == TypeOK /\ Progress /\ Leaks /\ OkWithoutTemps /\ FlagHolds /\ CalledFrom
        /\ Generated /\ StatesMatch

-----------------------------------------------------------------------------
LEMMA OpsFacts == Ops = 1..NumOps /\ NumOps \in Nat
  BY ConstantFacts DEF Ops

\* The types, in three parts.
TypeControl ==
  /\ pc \in Loops \union {"idle", "destroyed", "crashed"}
  /\ op \in 1..NumOps + 1
  /\ caller \in {"none", "AllocateTensors", "Invoke", "Reset", "destructor"}
  /\ answer \in {"none", "ok", "error"}

TypeFlags ==
  /\ state_ \in {"kInit", "kPrepare", "kMemoryPlanning", "kInvoke"}
  /\ tensors_allocated_ \in BOOLEAN
  /\ initialization_status_ \in {"ok", "error"}
  /\ model_is_allocating_ \in BOOLEAN
  /\ generation \in 0..ArenaHolds
  /\ completed \in 0..ArenaHolds

TypeNodes ==
  /\ registration \in [Ops -> {"garbage", "null", "found"}]
  /\ user_data \in [Ops -> {"garbage", "null", "data"}]
  /\ prepared \subseteq Ops
  /\ live \subseteq (1..ArenaHolds) \X Ops
  /\ temps \in BOOLEAN

LEMMA TypeParts == TypeOK <=> TypeControl /\ TypeFlags /\ TypeNodes
  BY DEF TypeOK, TypeControl, TypeFlags, TypeNodes

LEMMA ControlStep == TypeOK /\ Next => TypeControl'
<1> SUFFICES ASSUME TypeOK, Next PROVE TypeControl'
  OBVIOUS
<1> USE TypeParts, OpsFacts DEF TypeControl, Loops
<1>1. CASE Calls
  BY <1>1 DEF Calls, CallAllocateTensors, CallInvoke, CallReset, Destroy
<1>2. CASE \/ StartModelAllocation \/ NodesPrepared \/ KernelsInitialised
           \/ KernelsPrepared \/ FinishModelAllocation \/ AllocateInputsOutputs
  BY <1>2 DEF StartModelAllocation, NodesPrepared, KernelsInitialised,
              KernelsPrepared, FinishModelAllocation, AllocateInputsOutputs, Goto
<1>3. CASE \/ StartModelAllocationFails \/ PrepareNodeFails \/ PrepareKernelFails
           \/ FinishModelAllocationFails \/ AllocateInputsOutputsFails
           \/ InvokeKernelFails \/ Invoked
  BY <1>3 DEF StartModelAllocationFails, PrepareNodeFails, PrepareKernelFails,
              FinishModelAllocationFails, AllocateInputsOutputsFails,
              InvokeKernelFails, Invoked, Return
<1>4. CASE \/ PrepareNode \/ InitKernel \/ PrepareKernel \/ ResetKernel
           \/ InvokeKernel \/ FreeKernel
  BY <1>4 DEF PrepareNode, InitKernel, PrepareKernel, ResetKernel, InvokeKernel,
              FreeKernel, At, NextOp, Return
<1>5. CASE ResetDone \/ Freed \/ FollowGarbage
  BY <1>5 DEF ResetDone, Freed, FollowGarbage, Goto, Return
<1> QED
  BY <1>1, <1>2, <1>3, <1>4, <1>5 DEF Next, Steps

LEMMA FlagsStep == TypeOK /\ Next => TypeFlags'
<1> SUFFICES ASSUME TypeOK, Next PROVE TypeFlags'
  OBVIOUS
<1> USE TypeParts, ConstantFacts DEF TypeFlags, interpreter, allocator
<1>1. CASE StartModelAllocation
  BY <1>1 DEF StartModelAllocation
<1>2. CASE StartModelAllocationFails
  BY <1>2 DEF StartModelAllocationFails
<1>3. CASE FinishModelAllocation
  BY <1>3 DEF FinishModelAllocation
<1>4. CASE NodesPrepared \/ KernelsInitialised \/ KernelsPrepared
  BY <1>4 DEF NodesPrepared, KernelsInitialised, KernelsPrepared
<1>5. CASE ResetDone
  BY <1>5 DEF ResetDone
<1>6. CASE Calls
  BY <1>6 DEF Calls, CallAllocateTensors, CallInvoke, CallReset, Destroy
<1>7. CASE \/ PrepareNode \/ PrepareNodeFails \/ InitKernel \/ PrepareKernel
           \/ PrepareKernelFails \/ FinishModelAllocationFails
           \/ AllocateInputsOutputs \/ AllocateInputsOutputsFails
  BY <1>7 DEF PrepareNode, PrepareNodeFails, InitKernel, PrepareKernel,
              PrepareKernelFails, FinishModelAllocationFails,
              AllocateInputsOutputs, AllocateInputsOutputsFails
<1>8. CASE \/ ResetKernel \/ InvokeKernel \/ InvokeKernelFails \/ Invoked
           \/ FreeKernel \/ Freed \/ FollowGarbage
  BY <1>8 DEF ResetKernel, InvokeKernel, InvokeKernelFails, Invoked, FreeKernel, Freed,
              FollowGarbage
<1> QED
  BY <1>1, <1>2, <1>3, <1>4, <1>5, <1>6, <1>7, <1>8 DEF Next, Steps

LEMMA NodesStep == TypeOK /\ Generated /\ Next => TypeNodes'
<1> SUFFICES ASSUME TypeOK, Generated, Next PROVE TypeNodes'
  OBVIOUS
<1> USE TypeParts, OpsFacts, ConstantFacts DEF TypeNodes, nodes
<1>1. CASE StartModelAllocation
  BY <1>1 DEF StartModelAllocation
<1>2. CASE PrepareNode \/ PrepareNodeFails
  <2>1. CASE PrepareNode
    BY <2>1 DEF PrepareNode
  <2>2. CASE PrepareNodeFails
    BY <2>2 DEF PrepareNodeFails, At
  <2> QED
    BY <1>2, <2>1, <2>2
<1>3. CASE InitKernel
  <2>1. op \in Ops /\ generation \in 0..ArenaHolds
    BY <1>3 DEF InitKernel, At, TypeFlags
  <2>2. generation # 0
    BY <1>3 DEF InitKernel, At, Generated
  <2> QED
    BY <1>3, <2>1, <2>2 DEF InitKernel
<1>4. CASE PrepareKernel \/ PrepareKernelFails
  BY <1>4 DEF PrepareKernel, PrepareKernelFails, At, MayFail
<1>5. CASE InvokeKernel \/ InvokeKernelFails
  BY <1>5 DEF InvokeKernel, InvokeKernelFails, MayFail
<1>6. CASE FreeKernel
  BY <1>6 DEF FreeKernel
<1>7. CASE Calls
  BY <1>7 DEF Calls, CallAllocateTensors, CallInvoke, CallReset, Destroy
<1>8. CASE \/ StartModelAllocationFails \/ NodesPrepared \/ KernelsInitialised
           \/ KernelsPrepared \/ FinishModelAllocation
           \/ FinishModelAllocationFails \/ AllocateInputsOutputs
           \/ AllocateInputsOutputsFails
  BY <1>8 DEF StartModelAllocationFails, NodesPrepared, KernelsInitialised,
              KernelsPrepared, FinishModelAllocation, FinishModelAllocationFails,
              AllocateInputsOutputs, AllocateInputsOutputsFails
<1>9. CASE ResetKernel \/ ResetDone \/ Invoked \/ Freed \/ FollowGarbage
  BY <1>9 DEF ResetKernel, ResetDone, Invoked, Freed, FollowGarbage
<1> QED
  BY <1>1, <1>2, <1>3, <1>4, <1>5, <1>6, <1>7, <1>8, <1>9 DEF Next, Steps

-----------------------------------------------------------------------------
LEMMA Initially == Init => IInv
<1> SUFFICES ASSUME Init PROVE IInv
  OBVIOUS
<1> USE OpsFacts, ConstantFacts DEF Init
<1>1. TypeOK
  <2>1. TypeControl
    BY DEF TypeControl, Loops
  <2>2. TypeFlags
    <3>1. generation \in 0..ArenaHolds /\ completed \in 0..ArenaHolds
      OBVIOUS
    <3>2. tensors_allocated_ \in BOOLEAN /\ model_is_allocating_ \in BOOLEAN
      OBVIOUS
    <3> QED
      BY <3>1, <3>2 DEF TypeFlags
  <2>3. TypeNodes
    BY DEF TypeNodes
  <2> QED
    BY <2>1, <2>2, <2>3, TypeParts
<1>2. Progress /\ Leaks /\ OkWithoutTemps /\ CalledFrom /\ StatesMatch
  BY DEF Progress, Leaks, OkWithoutTemps, CalledFrom, StatesMatch
<1>3. FlagHolds /\ Generated
  BY DEF FlagHolds, Generated, Complete
<1> QED
  BY <1>1, <1>2, <1>3 DEF IInv

LEMMA GeneratedStep == TypeOK /\ Generated /\ Next => Generated'
<1> SUFFICES ASSUME TypeOK, Generated, Next PROVE Generated'
  OBVIOUS
<1> USE ConstantFacts DEF Generated, interpreter, allocator
<1>1. CASE Calls
  BY <1>1 DEF Calls, CallAllocateTensors, CallInvoke, CallReset, Destroy
<1>2. CASE StartModelAllocation
  BY <1>2, TypeParts DEF StartModelAllocation, TypeFlags, Goto
<1>3. CASE \/ NodesPrepared \/ KernelsInitialised \/ KernelsPrepared
           \/ FinishModelAllocation \/ AllocateInputsOutputs
  BY <1>3 DEF NodesPrepared, KernelsInitialised, KernelsPrepared,
              FinishModelAllocation, AllocateInputsOutputs, Goto, Done
<1>4. CASE \/ StartModelAllocationFails \/ PrepareNodeFails \/ PrepareKernelFails
           \/ FinishModelAllocationFails \/ AllocateInputsOutputsFails
           \/ InvokeKernelFails \/ Invoked
  BY <1>4 DEF StartModelAllocationFails, PrepareNodeFails, PrepareKernelFails,
              FinishModelAllocationFails, AllocateInputsOutputsFails,
              InvokeKernelFails, Invoked, Return, At, Done
<1>5. CASE \/ PrepareNode \/ InitKernel \/ PrepareKernel \/ ResetKernel
           \/ InvokeKernel \/ FreeKernel
  BY <1>5 DEF PrepareNode, InitKernel, PrepareKernel, ResetKernel, InvokeKernel,
              FreeKernel, At, NextOp, Return
<1>6. CASE ResetDone \/ Freed \/ FollowGarbage
  BY <1>6 DEF ResetDone, Freed, FollowGarbage, Goto, Return, Done
<1> QED
  BY <1>1, <1>2, <1>3, <1>4, <1>5, <1>6 DEF Next, Steps

\* A loop that has ended has passed every operator.
LEMMA LoopEnds ==
  ASSUME NEW loop, TypeOK, Done(loop)
  PROVE  \A i \in Ops : i < op
  BY TypeParts, OpsFacts DEF Done, TypeControl

LEMMA ProgressStep == IInv /\ Next => Progress'
<1> SUFFICES ASSUME IInv, Next PROVE Progress'
  OBVIOUS
<1> USE OpsFacts DEF Progress, Ready, AllInitialised
<1>0. TypeOK /\ Progress /\ op \in 1..NumOps + 1 /\ user_data \in [Ops -> {"garbage", "null", "data"}]
      /\ registration \in [Ops -> {"garbage", "null", "found"}] /\ prepared \subseteq Ops
  BY TypeParts DEF IInv, TypeControl, TypeNodes
<1>1. CASE Calls
  BY <1>0, <1>1 DEF Calls, CallAllocateTensors, CallInvoke, CallReset, Destroy, nodes,
                    IInv, FlagHolds
<1>2. CASE StartModelAllocation
  BY <1>2 DEF StartModelAllocation, Goto
<1>3. CASE NodesPrepared
  BY <1>0, <1>3, LoopEnds DEF NodesPrepared, Goto, nodes, Done
<1>4. CASE KernelsInitialised
  BY <1>0, <1>4, LoopEnds DEF KernelsInitialised, Goto, nodes, Done
<1>5. CASE KernelsPrepared
  BY <1>0, <1>5, LoopEnds DEF KernelsPrepared, Goto, nodes, Done
<1>6. CASE FinishModelAllocation \/ AllocateInputsOutputs
  BY <1>0, <1>6 DEF FinishModelAllocation, AllocateInputsOutputs, Goto, nodes
<1>7. CASE \/ StartModelAllocationFails \/ PrepareNodeFails \/ PrepareKernelFails
           \/ FinishModelAllocationFails \/ AllocateInputsOutputsFails
           \/ InvokeKernelFails \/ Invoked
  BY <1>7 DEF StartModelAllocationFails, PrepareNodeFails, PrepareKernelFails,
              FinishModelAllocationFails, AllocateInputsOutputsFails,
              InvokeKernelFails, Invoked, Return
<1>8. CASE PrepareNode
  BY <1>0, <1>8 DEF PrepareNode, At, NextOp
<1>9. CASE InitKernel
  BY <1>0, <1>9 DEF InitKernel, At, NextOp
<1>10. CASE PrepareKernel
  BY <1>0, <1>10 DEF PrepareKernel, At, NextOp
<1>11. CASE ResetKernel
  BY <1>0, <1>11 DEF ResetKernel, At, NextOp, nodes
<1>12. CASE InvokeKernel
  BY <1>0, <1>12 DEF InvokeKernel, At, NextOp, Return, nodes
<1>13. CASE ResetDone
  BY <1>0, <1>13 DEF ResetDone, Done, Goto, Return, nodes
<1>14. CASE FreeKernel \/ Freed \/ FollowGarbage
  BY <1>14 DEF FreeKernel, Freed, FollowGarbage, At, NextOp
<1> QED
  BY <1>1, <1>2, <1>3, <1>4, <1>5, <1>6, <1>7, <1>8, <1>9, <1>10, <1>11, <1>12,
     <1>13, <1>14 DEF Next, Steps

LEMMA LeaksStep == IInv /\ Next => Leaks' /\ OkWithoutTemps'
<1> SUFFICES ASSUME IInv, Next PROVE Leaks' /\ OkWithoutTemps'
  OBVIOUS
<1> USE OpsFacts DEF Leaks, OkWithoutTemps
<1>0. Leaks /\ OkWithoutTemps /\ op \in 1..NumOps + 1 /\ temps \in BOOLEAN
  BY TypeParts DEF IInv, TypeControl, TypeNodes
<1>1. CASE Calls
  BY <1>0, <1>1 DEF Calls, CallAllocateTensors, CallInvoke, CallReset, Destroy
<1>2. CASE \/ StartModelAllocation \/ NodesPrepared \/ KernelsInitialised
           \/ KernelsPrepared \/ FinishModelAllocation \/ AllocateInputsOutputs
  BY <1>0, <1>2 DEF StartModelAllocation, NodesPrepared, KernelsInitialised,
                    KernelsPrepared, FinishModelAllocation, AllocateInputsOutputs, Goto
<1>3. CASE \/ StartModelAllocationFails \/ PrepareNodeFails
           \/ FinishModelAllocationFails \/ AllocateInputsOutputsFails
  BY <1>0, <1>3 DEF StartModelAllocationFails, PrepareNodeFails,
                    FinishModelAllocationFails, AllocateInputsOutputsFails, Return
<1>4. CASE \/ PrepareNode \/ InitKernel \/ ResetKernel \/ FreeKernel \/ Freed \/ FollowGarbage
  BY <1>0, <1>4 DEF PrepareNode, InitKernel, ResetKernel, FreeKernel, Freed,
                    FollowGarbage, At, NextOp
<1>5. CASE PrepareKernel
  BY <1>0, <1>5 DEF PrepareKernel, At, NextOp
<1>6. CASE PrepareKernelFails \/ InvokeKernelFails
  BY <1>0, <1>6 DEF PrepareKernelFails, InvokeKernelFails, At, Return
<1>7. CASE InvokeKernel
  BY <1>0, <1>7 DEF InvokeKernel, At, NextOp, Return
<1>8. CASE Invoked
  <2>1. op = NumOps + 1
    BY <1>0, <1>8 DEF Invoked, Done
  <2>2. ~temps
    <3>1. CASE NumOps = 0
      BY <1>0, <3>1
    <3>2. CASE NumOps # 0
      BY <1>0, <1>8, <2>1, <3>2 DEF Invoked, Done
    <3> QED
      BY <3>1, <3>2
  <2> QED
    BY <1>8, <2>2 DEF Invoked, Return
<1>9. CASE ResetDone
  BY <1>0, <1>9 DEF ResetDone, Goto, Return
<1> QED
  BY <1>1, <1>2, <1>3, <1>4, <1>5, <1>6, <1>7, <1>8, <1>9 DEF Next, Steps

LEMMA FlagStep == IInv /\ Next => FlagHolds' /\ CalledFrom'
<1> SUFFICES ASSUME IInv, Next PROVE FlagHolds' /\ CalledFrom'
  OBVIOUS
<1> USE ConstantFacts DEF FlagHolds, CalledFrom, Ready, AllInitialised, Complete, allocator
<1>0. /\ FlagHolds /\ CalledFrom /\ Progress /\ tensors_allocated_ \in BOOLEAN
      /\ generation \in 0..ArenaHolds /\ completed \in 0..ArenaHolds /\ Generated
  BY TypeParts DEF IInv, TypeFlags
<1>1. CASE Calls
  BY <1>0, <1>1 DEF Calls, CallAllocateTensors, CallInvoke, CallReset, Destroy,
                    nodes, interpreter, Generated
<1>2. CASE StartModelAllocation
  BY <1>0, <1>2 DEF StartModelAllocation, Goto, interpreter
<1>3. CASE NodesPrepared \/ KernelsInitialised \/ KernelsPrepared
  BY <1>0, <1>3 DEF NodesPrepared, KernelsInitialised, KernelsPrepared, Goto, Done
<1>4. CASE FinishModelAllocation \/ AllocateInputsOutputs
  BY <1>0, <1>4 DEF FinishModelAllocation, AllocateInputsOutputs, Goto, interpreter
<1>5. CASE \/ StartModelAllocationFails \/ PrepareNodeFails \/ PrepareKernelFails
           \/ FinishModelAllocationFails \/ AllocateInputsOutputsFails
  BY <1>0, <1>5 DEF StartModelAllocationFails, PrepareNodeFails, PrepareKernelFails,
                    FinishModelAllocationFails, AllocateInputsOutputsFails, Return,
                    At, interpreter, nodes
<1>6. CASE PrepareNode \/ InitKernel \/ PrepareKernel
  BY <1>0, <1>6 DEF PrepareNode, InitKernel, PrepareKernel, At, NextOp, interpreter
<1>7. CASE ResetKernel
  BY <1>0, <1>7 DEF ResetKernel, At, NextOp, interpreter, nodes
<1>8. CASE ResetDone
  BY <1>0, <1>8 DEF ResetDone, Done, Goto, Return, interpreter, nodes, Progress, Generated
<1>9. CASE InvokeKernel \/ InvokeKernelFails \/ Invoked
  BY <1>0, <1>9 DEF InvokeKernel, InvokeKernelFails, Invoked, At, Done, NextOp,
                    Return, interpreter, nodes
<1>10. CASE FreeKernel \/ Freed \/ FollowGarbage
  BY <1>0, <1>10 DEF FreeKernel, Freed, FollowGarbage, At, Done, NextOp, interpreter, nodes
<1> QED
  BY <1>1, <1>2, <1>3, <1>4, <1>5, <1>6, <1>7, <1>8, <1>9, <1>10 DEF Next, Steps

LEMMA StatesStep == IInv /\ Next => StatesMatch'
<1> SUFFICES ASSUME IInv, Next PROVE StatesMatch'
  OBVIOUS
<1> USE DEF StatesMatch, interpreter
<1>0. StatesMatch
  BY DEF IInv
<1>1. CASE Calls
  BY <1>1 DEF Calls, CallAllocateTensors, CallInvoke, CallReset, Destroy
<1>2. CASE \/ StartModelAllocation \/ NodesPrepared \/ KernelsInitialised
           \/ KernelsPrepared \/ FinishModelAllocation \/ AllocateInputsOutputs
  BY <1>2 DEF StartModelAllocation, NodesPrepared, KernelsInitialised,
              KernelsPrepared, FinishModelAllocation, AllocateInputsOutputs, Goto
<1>3. CASE \/ StartModelAllocationFails \/ PrepareNodeFails \/ PrepareKernelFails
           \/ FinishModelAllocationFails \/ AllocateInputsOutputsFails
           \/ InvokeKernelFails \/ Invoked
  BY <1>3 DEF StartModelAllocationFails, PrepareNodeFails, PrepareKernelFails,
              FinishModelAllocationFails, AllocateInputsOutputsFails,
              InvokeKernelFails, Invoked, Return
<1>4. CASE \/ PrepareNode \/ InitKernel \/ PrepareKernel \/ ResetKernel
           \/ InvokeKernel \/ FreeKernel
  BY <1>0, <1>4 DEF PrepareNode, InitKernel, PrepareKernel, ResetKernel,
                    InvokeKernel, FreeKernel, At, NextOp, Return
<1>5. CASE ResetDone \/ Freed \/ FollowGarbage
  BY <1>5 DEF ResetDone, Freed, FollowGarbage, Goto, Return
<1> QED
  BY <1>1, <1>2, <1>3, <1>4, <1>5 DEF Next, Steps

LEMMA Inductive == IInv /\ [Next]_vars => IInv'
<1> SUFFICES ASSUME IInv, [Next]_vars PROVE IInv'
  OBVIOUS
<1>1. CASE Next
  BY <1>1, ControlStep, FlagsStep, NodesStep, TypeParts, ProgressStep, LeaksStep,
     FlagStep, GeneratedStep, StatesStep DEF IInv, TypeOK, TypeControl, TypeFlags, TypeNodes
<1>2. CASE UNCHANGED vars
  <2>1. TypeOK'
    BY <1>2 DEF vars, IInv, TypeOK, Loops
  <2>2. Progress' /\ Leaks' /\ OkWithoutTemps' /\ StatesMatch'
    BY <1>2 DEF vars, IInv, Progress, Ready, AllInitialised, Leaks, OkWithoutTemps, StatesMatch
  <2>3. FlagHolds' /\ CalledFrom' /\ Generated'
    BY <1>2 DEF vars, IInv, FlagHolds, CalledFrom, Generated, Ready, AllInitialised, Complete
  <2> QED
    BY <2>1, <2>2, <2>3 DEF IInv
<1> QED
  BY <1>1, <1>2

THEOREM Invariant == Spec => []IInv
<1>1. Init => IInv
  BY Initially
<1>2. IInv /\ [Next]_vars => IInv'
  BY Inductive
<1> QED
  BY <1>1, <1>2, PTL DEF Spec

-----------------------------------------------------------------------------
\* The variables keep their types, for any number of operators and any faults.
THEOREM TypeCorrect == Spec => []TypeOK
<1>1. IInv => TypeOK
  BY DEF IInv
<1> QED
  BY <1>1, Invariant, PTL

\* Kernels are only called back in the state that the context asserts for the call,
\* but for invocations of half allocated tensors.
THEOREM CallbacksInTheirState == Spec => []CallbackStates
<1>1. IInv => CallbackStates
  BY TypeParts DEF IInv, CallbackStates, StatesMatch, FlagHolds, CalledFrom, At, Complete,
                   HalfAllocated, TypeFlags
<1> QED
  BY <1>1, Invariant, PTL

\* No kernel is invoked that was not initialised and prepared, and nothing left in a
\* node is followed, once AllocateTensors has succeeded and until it is called again
\* on the allocated tensors and fails.
THEOREM NeverUnprepared == Spec => []InvokesPrepared
<1>1. IInv => InvokesPrepared
  BY TypeParts DEF IInv, InvokesPrepared, FlagHolds, CalledFrom, Ready, AllInitialised,
                   Complete, HalfAllocated, TypeFlags
<1> QED
  BY <1>1, Invariant, PTL

\* An invocation that succeeds leaves no temp buffer behind.
THEOREM SuccessIsClean == Spec => []OkWithoutTemps
<1>1. IInv => OkWithoutTemps
  BY DEF IInv
<1> QED
  BY <1>1, Invariant, PTL

-----------------------------------------------------------------------------
(* What the destructor frees *)

\* Only operators that were found are initialised, and none while the nodes are
\* still being prepared; the destructor has freed the operators it has passed.  An
\* earlier allocation of the model is not looked at any more.
FreedSoFar ==
  /\ pc = "idle" => op = 1
  /\ \A e \in live : e[1] <= generation
  /\ \A i \in Ops : <<generation, i>> \in live => registration[i] = "found"
  /\ pc = "nodes" => \A i \in Ops : /\ <<generation, i>> \notin live
                                    /\ i < op => registration[i] = "found"
  /\ pc = "init" => \A i \in Ops : registration[i] = "found"
  /\ pc = "free" => \A i \in Ops : i < op => <<generation, i>> \notin live

FreeInv == IInv /\ FreedSoFar /\ PresentFreed

LEMMA FreedStep == FreeInv /\ Next => FreedSoFar' /\ PresentFreed'
<1> SUFFICES ASSUME FreeInv, Next PROVE FreedSoFar' /\ PresentFreed'
  OBVIOUS
<1> USE OpsFacts, ConstantFacts DEF FreedSoFar, PresentFreed
<1>0. /\ FreedSoFar /\ PresentFreed /\ op \in 1..NumOps + 1 /\ generation \in 0..ArenaHolds
      /\ registration \in [Ops -> {"garbage", "null", "found"}]
      /\ live \subseteq (1..ArenaHolds) \X Ops
  BY TypeParts DEF FreeInv, IInv, TypeControl, TypeFlags, TypeNodes
<1>1. CASE CallAllocateTensors \/ CallInvoke \/ CallReset
  BY <1>0, <1>1 DEF CallAllocateTensors, CallInvoke, CallReset, nodes, allocator
<1>2. CASE Destroy
  BY <1>0, <1>2 DEF Destroy, nodes, allocator
<1>3. CASE StartModelAllocation
  BY <1>0, <1>3 DEF StartModelAllocation, Goto
<1>4. CASE PrepareNode
  BY <1>0, <1>4 DEF PrepareNode, At, NextOp, allocator
<1>5. CASE PrepareNodeFails
  <2>1. pc' = "idle" /\ op' = 1 /\ UNCHANGED <<live, generation>> /\ pc = "nodes"
    BY <1>5 DEF PrepareNodeFails, At, Return, allocator
  <2> QED
    BY <1>0, <2>1
<1>6. CASE NodesPrepared
  <2>1. \A i \in Ops : registration[i] = "found"
    BY <1>0, <1>6, LoopEnds DEF NodesPrepared, Done, FreeInv, IInv
  <2> QED
    BY <1>0, <1>6, <2>1 DEF NodesPrepared, Goto, nodes, allocator
<1>7. CASE InitKernel
  <2>1. live' = live \union {<<generation, op>>} /\ op \in Ops /\ pc = "init" /\ pc' = "init"
        /\ UNCHANGED <<generation, registration>>
    BY <1>7 DEF InitKernel, At, NextOp, allocator
  <2> QED
    BY <1>0, <2>1
<1>8. CASE KernelsInitialised \/ KernelsPrepared \/ FinishModelAllocation \/ AllocateInputsOutputs
  BY <1>0, <1>8 DEF KernelsInitialised, KernelsPrepared, FinishModelAllocation,
                    AllocateInputsOutputs, Goto, nodes, allocator
<1>9. CASE \/ StartModelAllocationFails \/ PrepareKernelFails \/ FinishModelAllocationFails
           \/ AllocateInputsOutputsFails \/ InvokeKernelFails \/ Invoked
  BY <1>0, <1>9 DEF StartModelAllocationFails, PrepareKernelFails, FinishModelAllocationFails,
                    AllocateInputsOutputsFails, InvokeKernelFails, Invoked, Return, nodes,
                    allocator
<1>10. CASE PrepareKernel \/ ResetKernel
  BY <1>0, <1>10 DEF PrepareKernel, ResetKernel, At, NextOp, nodes, allocator
<1>11. CASE InvokeKernel
  BY <1>0, <1>11 DEF InvokeKernel, At, NextOp, Return, nodes, allocator
<1>12. CASE ResetDone
  BY <1>0, <1>12 DEF ResetDone, Done, Goto, Return, nodes, allocator
<1>13. CASE FreeKernel
  <2>1. <<generation, op>> \notin live' /\ live' \subseteq live
    BY <1>0, <1>13 DEF FreeKernel, At
  <2>2. pc = "free" /\ pc' = "free" /\ op' = op + 1 /\ UNCHANGED <<generation, registration>>
    BY <1>13 DEF FreeKernel, At, NextOp, allocator
  <2> QED
    BY <1>0, <2>1, <2>2
<1>14. CASE Freed
  <2>1. \A i \in Ops : <<generation, i>> \notin live
    BY <1>0, <1>14, LoopEnds DEF Freed, Done, FreeInv, IInv
  <2> QED
    BY <1>0, <1>14, <2>1 DEF Freed, nodes, allocator
<1>15. CASE FollowGarbage
  BY <1>0, <1>15 DEF FollowGarbage, nodes, allocator
<1> QED
  BY <1>1, <1>2, <1>3, <1>4, <1>5, <1>6, <1>7, <1>8, <1>9, <1>10, <1>11, <1>12, <1>13,
     <1>14, <1>15 DEF Next, Calls, Steps

\* When the interpreter is gone no kernel of its last allocation is left, wherever
\* that allocation failed and also when tensors were allocated more than once.
THEOREM LastAllocationFreed == Spec => []PresentFreed
<1>1. Init => FreeInv
  BY Initially DEF FreeInv, FreedSoFar, PresentFreed, Init
<1>2. FreeInv /\ [Next]_vars => FreeInv'
  <2>1. FreeInv /\ Next => FreeInv'
    BY FreedStep, Inductive DEF FreeInv
  <2>2. FreeInv /\ UNCHANGED vars => FreeInv'
    BY Inductive DEF FreeInv, FreedSoFar, PresentFreed, vars
  <2> QED
    BY <2>1, <2>2
<1>3. FreeInv => PresentFreed
  BY DEF FreeInv
<1> QED
  BY <1>1, <1>2, <1>3, PTL DEF Spec

-----------------------------------------------------------------------------
(* The application, for any number of turns and operators.  In part            *)
(* "application" the variables are those of PersonDetection in its order: v1 is  *)
(* pc, v2 turns, v3 interpreter, v4 input, v5 allocated, v6 which,              *)
(* v7 mismatched, v8 inputHolds, v9 outputHolds, v10 carried, v11 operator,     *)
(* v12 shown and v13 results.                                                  *)

LEMMA PersonInit == Person!Init => PersonIInv
<1> SUFFICES ASSUME Person!Init PROVE PersonIInv
  OBVIOUS
<1>1. RightResults
  BY EmptySeq DEF Person!Init, RightResults
<1>2. PersonTypes
  <2>1. 0 \in 0..Turns /\ 0 \in 0..GraphOperators
    BY ApplicationAssumption
  <2>2. v7 \subseteq Person!Images /\ v6 \in Person!Images
    BY DEF Person!Init, Person!Images
  <2>3. v8 \in Person!Contents /\ v9 \in Person!Contents /\ v10 \in Person!Contents
        /\ v12 \in Person!Contents
    BY DEF Person!Init, Person!Contents
  <2> QED
    BY <2>1, <2>2, <2>3 DEF Person!Init, PersonTypes
<1>3. SetUpFirst /\ ImagePassedOn
  BY DEF Person!Init, SetUpFirst, ImagePassedOn
<1> QED
  BY <1>1, <1>2, <1>3 DEF PersonIInv

\* setup changes no tensor, and ends with its input set only if the tensors are allocated.
LEMMA SetUpKeeps ==
  PersonIInv /\ (\/ Person!ModelRefused \/ Person!CreateInterpreter
                 \/ Person!AllocateTensorsFails \/ Person!AllocateTensors
                 \/ Person!NoInput \/ Person!TakeInput)
    => PersonIInv'
<1> SUFFICES ASSUME PersonIInv,
                    \/ Person!ModelRefused \/ Person!CreateInterpreter
                    \/ Person!AllocateTensorsFails \/ Person!AllocateTensors
                    \/ Person!NoInput \/ Person!TakeInput
             PROVE  PersonIInv'
  OBVIOUS
<1>1. /\ v1 = "setup" /\ v3 \in BOOLEAN /\ v4 \in BOOLEAN /\ v5 \in BOOLEAN /\ (v4 => v5)
  BY DEF PersonIInv, PersonTypes, SetUpFirst, Person!ModelRefused, Person!CreateInterpreter,
     Person!AllocateTensorsFails, Person!AllocateTensors, Person!NoInput, Person!TakeInput
<1>2. /\ v1' \in {"setup", "main", "hung"}
      /\ v3' = v3 \/ v3' = TRUE
      /\ v5' = v5 \/ v5' = TRUE
      /\ v4' = v4 \/ (v4' = TRUE /\ v5 /\ v5' = v5)
      /\ UNCHANGED <<v2, v6, v7, v8, v9, v10, v11, v12, v13>>
  <2>1. CASE Person!ModelRefused \/ Person!AllocateTensorsFails \/ Person!NoInput
    BY <2>1 DEF Person!ModelRefused, Person!AllocateTensorsFails, Person!NoInput,
       Person!settings, Person!tensors
  <2>2. CASE Person!CreateInterpreter \/ Person!AllocateTensors
    BY <1>1, <2>2 DEF Person!CreateInterpreter, Person!AllocateTensors, Person!tensors
  <2>3. CASE Person!TakeInput
    BY <2>3 DEF Person!TakeInput, Person!tensors
  <2> QED
    BY <2>1, <2>2, <2>3
<1>3. v3' \in BOOLEAN /\ v4' \in BOOLEAN /\ v5' \in BOOLEAN /\ (v4' => v5')
  <2>1. v3' \in BOOLEAN /\ v4' \in BOOLEAN /\ v5' \in BOOLEAN
    BY <1>1, <1>2, Zenon
  <2>2. v5 => v5'
    BY <1>2, Zenon
  <2>3. CASE v4' = v4
    <3>1. v4' => v4
      BY <2>3, Zenon
    <3> QED
      BY <1>1, <2>1, <2>2, <3>1, Zenon
  <2>4. CASE v5 /\ v5' = v5
    BY <2>1, <2>4, Zenon
  <2> QED
    BY <1>2, <2>3, <2>4
<1> QED
  BY <1>2, <1>3 DEF PersonIInv, PersonTypes, SetUpFirst, ImagePassedOn, RightResults

\* A turn that is refused, that has no image, or that fails in the model or behind it.
LEMMA TurnGivenUpKeeps ==
  PersonIInv /\ (\/ Person!LoopRefused \/ Person!GetImageFails
                 \/ Person!OperatorFails \/ Person!NoOutput)
    => PersonIInv'
<1> SUFFICES ASSUME PersonIInv,
                    \/ Person!LoopRefused \/ Person!GetImageFails
                    \/ Person!OperatorFails \/ Person!NoOutput
             PROVE  PersonIInv'
  OBVIOUS
<1>1. /\ v1' = "main" /\ v2 < Turns /\ v2' = v2 + 1
      /\ UNCHANGED <<v3, v4, v5, v6, v7, v8, v9, v10, v11, v12, v13>>
  BY DEF PersonIInv, SetUpFirst, Person!LoopRefused, Person!GetImageFails,
     Person!OperatorFails, Person!NoOutput, Person!LoopReturns, Person!settings, Person!tensors
<1>2. v2' \in 0..Turns
  BY <1>1, ApplicationAssumption DEF PersonIInv, PersonTypes
<1> QED
  BY <1>1, <1>2 DEF PersonIInv, PersonTypes, SetUpFirst, ImagePassedOn, RightResults

LEMMA StartLoopKeeps == PersonIInv /\ Person!StartLoop => PersonIInv'
  BY DEF PersonIInv, PersonTypes, SetUpFirst, ImagePassedOn, RightResults,
     Person!StartLoop, Person!settings, Person!tensors

LEMMA GetImageKeeps == PersonIInv /\ Person!GetImage => PersonIInv'
<1> SUFFICES ASSUME PersonIInv, Person!GetImage PROVE PersonIInv'
  OBVIOUS
<1>1. /\ v1 = "image" /\ v1' = "invoke" /\ v8' = v6 /\ v12' = v6
      /\ v6' = (v6 + 1) % 4 /\ v11' = 0
      /\ UNCHANGED <<v2, v3, v4, v5, v7, v9, v10, v13>>
  BY DEF Person!GetImage, Person!settings
<1>2. v6 \in 0..3 /\ v6' \in 0..3 /\ v6 \in Person!Images /\ v6 \in Person!Contents
  BY <1>1 DEF PersonIInv, PersonTypes, Person!Images, Person!Contents
<1>3. GraphOperators # 0 /\ 0 \in 0..GraphOperators /\ 0 \notin 1..(GraphOperators - 1)
  BY ApplicationAssumption
<1> QED
  BY <1>1, <1>2, <1>3
  DEF PersonIInv, PersonTypes, SetUpFirst, ImagePassedOn, RightResults, Person!Images

LEMMA RunOperatorKeeps == PersonIInv /\ Person!RunOperator => PersonIInv'
<1> SUFFICES ASSUME PersonIInv, Person!RunOperator PROVE PersonIInv'
  OBVIOUS
<1>1. /\ v1 = "invoke" /\ v11 < GraphOperators /\ v11' = v11 + 1
      /\ v10' = IF v11' = 1 THEN v8 ELSE v10
      /\ v8' \in {v8, Person!leftover}
      /\ v11' = GraphOperators => v9' = v10
      /\ v11' # GraphOperators => v9' \in {v9, Person!leftover}
      /\ UNCHANGED <<v1, v2, v3, v4, v5, v6, v7, v12, v13>>
  BY DEF Person!RunOperator, Person!settings
<1>2. GraphOperators \in Nat /\ GraphOperators >= 2 /\ v11 \in 0..GraphOperators /\ v11' \in 0..GraphOperators
  BY <1>1, ApplicationAssumption DEF PersonIInv, PersonTypes
<1>3. v8' \in Person!Contents /\ v9' \in Person!Contents /\ v10' \in Person!Contents
  BY <1>1 DEF PersonIInv, PersonTypes, Person!Contents
<1>4. ImagePassedOn'
  <2>1. CASE v11 = 0
    <3>1. v8 = v12 /\ v11' = 1 /\ v11' # GraphOperators
      BY <1>1, <1>2, <2>1 DEF PersonIInv, ImagePassedOn
    <3> QED
      BY <1>1, <3>1 DEF PersonIInv, ImagePassedOn
  <2>2. CASE v11 # 0
    <3>1. v11 \in 1..(GraphOperators - 1) /\ v11' # 1 /\ v11' # 0
      BY <1>1, <1>2, <2>2
    <3>2. v10 = v12 /\ v10' = v12
      BY <1>1, <3>1 DEF PersonIInv, ImagePassedOn
    <3> QED
      BY <1>1, <3>1, <3>2 DEF PersonIInv, ImagePassedOn
  <2> QED
    BY <2>1, <2>2
<1> QED
  BY <1>1, <1>2, <1>3, <1>4 DEF PersonIInv, PersonTypes, SetUpFirst, RightResults

LEMMA ReportKeeps == PersonIInv /\ Person!Report => PersonIInv'
<1> SUFFICES ASSUME PersonIInv, Person!Report PROVE PersonIInv'
  OBVIOUS
<1> DEFINE R == {r \in [shown : Person!Images, scored : Person!Images] : r.scored = r.shown}
           result == [shown |-> v12, scored |-> v9]
<1>1. /\ v1 = "invoke" /\ v11 = GraphOperators /\ v1' = "main" /\ v2' = v2 + 1
      /\ v13' = Append(v13, result)
      /\ UNCHANGED <<v3, v4, v5, v6, v7, v8, v9, v10, v11, v12>>
  BY DEF Person!Report, Person!LoopReturns, Person!settings, Person!tensors
<1>2. v2' \in 0..Turns
  BY <1>1, ApplicationAssumption DEF PersonIInv, PersonTypes, SetUpFirst
<1>3. result \in R
  BY <1>1 DEF PersonIInv, ImagePassedOn
<1>4. v13 \in Seq(R)
  BY DEF PersonIInv, RightResults
<1> HIDE DEF R, result
<1>5. v13' \in Seq(R)
  BY <1>1, <1>3, <1>4, AppendProperties
<1>6. RightResults'
  BY <1>5 DEF RightResults, R
<1> QED
  BY <1>1, <1>2, <1>6 DEF PersonIInv, PersonTypes, SetUpFirst, ImagePassedOn

LEMMA MainReturnsKeeps == PersonIInv /\ Person!MainReturns => PersonIInv'
  BY DEF PersonIInv, PersonTypes, SetUpFirst, ImagePassedOn, RightResults,
     Person!MainReturns, Person!settings, Person!tensors

LEMMA PersonRight ==
  PersonIInv => Person!TypeOK /\ Person!ResultsOfShownImages /\ Person!LoopOnlyWhenSetUp
<1> SUFFICES ASSUME PersonIInv
             PROVE  Person!TypeOK /\ Person!ResultsOfShownImages /\ Person!LoopOnlyWhenSetUp
  OBVIOUS
<1> DEFINE R == {r \in [shown : Person!Images, scored : Person!Images] : r.scored = r.shown}
           Pair == [shown : Person!Contents, scored : Person!Contents]
<1>1. v13 \in Seq(R)
  BY DEF PersonIInv, RightResults
<1>2. R \subseteq Pair /\ \A r \in R : r.shown \in Person!Images /\ r.scored = r.shown
  BY DEF Person!Contents
<1>3. v13 \in Seq(Pair) /\ \A i \in DOMAIN v13 : v13[i] \in R
  <2> HIDE DEF R, Pair
  <2>1. Len(v13) \in Nat /\ v13 \in [1..Len(v13) -> R] /\ DOMAIN v13 = 1..Len(v13)
    BY <1>1, LenProperties
  <2>2. v13 \in [1..Len(v13) -> Pair]
    BY <1>2, <2>1
  <2> QED
    BY <2>1, <2>2, SeqDef
<1>4. Person!ResultsOfShownImages
  <2> HIDE DEF R
  <2> QED
    BY <1>2, <1>3 DEF Person!ResultsOfShownImages
<1>5. Person!TypeOK
  BY <1>3 DEF PersonIInv, PersonTypes, Person!TypeOK
<1>6. Person!LoopOnlyWhenSetUp
  BY DEF PersonIInv, SetUpFirst, Person!LoopOnlyWhenSetUp
<1> QED
  BY <1>4, <1>5, <1>6

-----------------------------------------------------------------------------
(* Reads of the flash, for FIFOs of any depth that holds a request, any          *)
(* addresses and any numbers of polls.  In part "flash" the variables are those  *)
(* of FlashRead in its order: v1 is pc, v2 flash_addr, v3 txto, v4 i, v5 out,    *)
(* v6 tx, v7 rx, v8 go and v9 heard.                                           *)

LEMMA WireFacts ==
  /\ Flash!CMD_READ \in Wire /\ Flash!Filler \in Wire /\ Flash!Floating \in Wire
  /\ Flash!E1 \in Wire /\ Flash!E2 \in Wire
  /\ \A n \in Nat : Flash!Byte(n) \in Wire /\ Flash!AddressByte(n) \in Wire
  /\ \A n \in Nat : Flash!AddressByte(n)[2] = n
<1> DEFINE Kinds == {"read", "address", "filler", "floating", "flash", "mark"}
<1>1. \A s \in Kinds, n \in Nat : <<s, n>> \in Wire
  BY DEF Wire
<1>2. /\ "read" \in Kinds /\ "filler" \in Kinds /\ "floating" \in Kinds
      /\ "mark" \in Kinds /\ "flash" \in Kinds /\ "address" \in Kinds
  OBVIOUS
<1> HIDE DEF Kinds
<1>3. 0 \in Nat /\ 1 \in Nat /\ 2 \in Nat
  OBVIOUS
<1>4. Flash!CMD_READ \in Wire /\ Flash!Filler \in Wire /\ Flash!Floating \in Wire
  BY <1>1, <1>2, <1>3 DEF Flash!CMD_READ, Flash!Filler, Flash!Floating
<1>5. Flash!E1 \in Wire /\ Flash!E2 \in Wire
  BY <1>1, <1>2, <1>3 DEF Flash!E1, Flash!E2
<1>6. \A n \in Nat : Flash!Byte(n) \in Wire /\ Flash!AddressByte(n) \in Wire
  BY <1>1, <1>2 DEF Flash!Byte, Flash!AddressByte
<1>7. \A n \in Nat : Flash!AddressByte(n)[2] = n
  BY DEF Flash!AddressByte
<1> QED
  BY <1>4, <1>5, <1>6, <1>7

LEMMA RequestFacts ==
  ASSUME NEW a \in Nat
  PROVE  /\ Flash!Request(a) \in Seq(Wire) /\ Len(Flash!Request(a)) = 12
         /\ Flash!Request(a)[1] = Flash!CMD_READ
         /\ \A j \in 2..4 : Flash!Request(a)[j] = Flash!AddressByte(a)
<1> DEFINE c == Flash!CMD_READ
           b == Flash!AddressByte(a)
           front == <<c, b, b, b>>
           back == [j \in 1..8 |-> Flash!Filler]
<1>1. c \in Wire /\ b \in Wire /\ Flash!Filler \in Wire
  BY WireFacts
<1>2. Flash!Request(a) = front \o back
  BY DEF Flash!Request, Flash!kDataBytes
<1> HIDE DEF c, b
<1>3. front \in Seq(Wire) /\ Len(front) = 4
      /\ front[1] = c /\ front[2] = b /\ front[3] = b /\ front[4] = b
  BY <1>1
<1>4. back \in Seq(Wire) /\ Len(back) = 8
  BY <1>1
<1> HIDE DEF front, back
<1>5. /\ front \o back \in Seq(Wire) /\ Len(front \o back) = 12
      /\ \A j \in 1..4 : (front \o back)[j] = front[j]
  <2>1. /\ front \o back \in Seq(Wire) /\ Len(front \o back) = Len(front) + Len(back)
        /\ \A j \in 1..Len(front) + Len(back) :
             (front \o back)[j] = IF j <= Len(front) THEN front[j] ELSE back[j - Len(front)]
    BY <1>3, <1>4, ConcatProperties, Zenon
  <2>2. ASSUME NEW j \in 1..4 PROVE (front \o back)[j] = front[j]
    <3>1. j \in 1..Len(front) + Len(back) /\ j <= Len(front)
      BY <1>3, <1>4
    <3> QED
      BY <2>1, <3>1
  <2>3. Len(front) + Len(back) = 12
    BY <1>3, <1>4
  <2> QED
    BY <2>1, <2>2, <2>3
<1>6. \A j \in 2..4 : front[j] = b
  BY <1>3
<1> QED
  BY <1>2, <1>3, <1>5, <1>6 DEF c, b

LEMMA AnswerFacts ==
  ASSUME NEW a \in ReadAddresses, NEW h \in Seq(Wire), Len(h) < 12,
         \A j \in 1..Len(h) : h[j] = Flash!Request(a)[j]
  PROVE  Flash!Answer(h) = AnswerTo(a, Len(h) + 1)
<1>1. a \in Nat /\ Len(h) \in Nat
  BY ApplicationAssumption
<1>2. CASE Len(h) < 4
  BY <1>1, <1>2 DEF Flash!Answer, Flash!kCommandBytes, AnswerTo
<1>3. CASE Len(h) >= 4
  <2>1. h[1] = Flash!CMD_READ /\ \A j \in 2..4 : h[j] = Flash!AddressByte(a)
    <3>1. 1 \in 1..Len(h) /\ \A j \in 2..4 : j \in 1..Len(h)
      BY <1>1, <1>3
    <3>2. /\ Flash!Request(a)[1] = Flash!CMD_READ
          /\ \A j \in 2..4 : Flash!Request(a)[j] = Flash!AddressByte(a)
      BY <1>1, RequestFacts
    <3> QED
      BY <3>1, <3>2
  <2>2. h[2][2] = a
    BY <1>1, <2>1, WireFacts
  <2>3. Flash!Answer(h) = Flash!Byte(a + Len(h) - 4)
    BY <1>1, <1>3, <2>1, <2>2 DEF Flash!Answer, Flash!kCommandBytes
  <2>4. a + Len(h) - 4 = a + (Len(h) + 1) - 5 /\ ~(Len(h) + 1 <= 4)
    BY <1>1, <1>3
  <2> QED
    BY <2>3, <2>4 DEF AnswerTo
<1> QED
  BY <1>1, <1>2, <1>3

\* Answers are bytes on the wire.
LEMMA AnswerTypes ==
  ASSUME NEW a \in Nat, NEW n \in Nat PROVE AnswerTo(a, n) \in Wire
<1>1. CASE n <= 4
  BY <1>1, WireFacts DEF AnswerTo
<1>2. CASE ~(n <= 4)
  <2>1. a + n - 5 \in Nat
    BY <1>2
  <2> QED
    BY <1>2, <2>1, WireFacts DEF AnswerTo
<1> QED
  BY <1>1, <1>2

LEMMA FlashInit == Flash!Init => FlashIInv
<1> SUFFICES ASSUME Flash!Init PROVE FlashIInv
  OBVIOUS
<1>1. FlashTypes
  <2>1. 0 \in 0..TxPolls /\ 0 \in 0..8
    BY ApplicationAssumption
  <2>2. /\ v1 = "idle" /\ v2 = 0 /\ v3 = 0 /\ v4 = 0 /\ v8 = FALSE
        /\ v5 = << >> /\ v6 = << >> /\ v7 = << >> /\ v9 = << >>
    BY DEF Flash!Init
  <2>3. \A s : s = << >> => s \in Seq(Wire) /\ Len(s) = 0
    OBVIOUS
  <2>4. /\ v5 \in Seq(Wire) /\ v6 \in Seq(Wire) /\ v7 \in Seq(Wire) /\ v9 \in Seq(Wire)
        /\ Len(v5) = 0 /\ Len(v7) = 0
    BY <2>2, <2>3, Zenon
  <2>5. Len(v5) <= 8 /\ Len(v7) <= 12
    BY <2>4
  <2>6. /\ v1 \in {"idle", "sending", "skipping", "reading"} /\ v2 \in ReadAddresses \cup {0}
        /\ v3 \in 0..TxPolls /\ v4 \in 0..8 /\ v8 \in BOOLEAN
    BY <2>1, <2>2
  <2> QED
    BY <2>4, <2>5, <2>6 DEF FlashTypes
<1>2. NoRead
  BY DEF Flash!Init, NoRead
<1> QED
  BY <1>1, <1>2 DEF FlashIInv

LEMMA StartReadKeeps ==
  ASSUME NEW a \in ReadAddresses, FlashIInv, Flash!StartRead(a) PROVE FlashIInv'
<1>1. /\ v1' = "sending" /\ v2' = a /\ v3' = TxPolls /\ v4' = 0 /\ v5' = << >>
      /\ v7' = Flash!Flushed(Flash!Reset(v7))
      /\ v6' = Flash!Push(Flash!Reset(v6), Flash!Request(a))
      /\ v8' = TRUE /\ v9' = << >>
  BY DEF Flash!StartRead
<1>2. a \in Nat /\ Flash!Request(a) \in Seq(Wire) /\ Len(Flash!Request(a)) = 12
  BY RequestFacts, ApplicationAssumption
<1>3. v6' = Flash!Request(a)
  <2> DEFINE r == Flash!Request(a)
  <2> HIDE DEF r
  <2>1. << >> \o r = r
    BY <1>2, ConcatEmptySeq DEF r
  <2>2. Len(r) <= Depth
    BY <1>2, ApplicationAssumption DEF r
  <2> QED
    BY <1>1, <2>1, <2>2 DEF Flash!Push, Flash!Reset, r
<1>4. v7' = << >>
  <2>1. FlushPolls \in Nat /\ FlushPolls > 0 /\ Len(<< >>) = 0
    BY ApplicationAssumption
  <2>2. SubSeq(<< >>, FlushPolls, 0) = << >>
    BY <2>1
  <2> QED
    BY <1>1, <2>1, <2>2 DEF Flash!Flushed, Flash!Reset
<1>5. FlashTypes'
  BY <1>1, <1>2, <1>3, <1>4, ApplicationAssumption, EmptySeq DEF FlashTypes
<1>6. RequestSplit'
  BY <1>1, <1>2, <1>3, EmptySeq DEF RequestSplit
<1>7. AnswersWait'
  BY <1>1, <1>4, EmptySeq DEF AnswersWait, Taken
<1>8. DriverState' /\ ReadEnded'
  BY <1>1, ApplicationAssumption DEF DriverState, ReadEnded
<1> QED
  BY <1>5, <1>6, <1>7, <1>8 DEF FlashIInv

\* A read that is under way.
LEMMA UnderWay ==
  ASSUME FlashIInv, v1 # "idle"
  PROVE  /\ FlashTypes /\ RequestSplit /\ AnswersWait /\ DriverState
         /\ v2 \in Nat /\ Len(v9) \in 0..12 /\ Len(v7) \in Nat /\ v4 \in Nat
         /\ Taken \in Nat
<1>1. FlashTypes /\ RequestSplit /\ AnswersWait /\ DriverState
  BY DEF FlashIInv, NoRead
<1>2. v2 \in Nat /\ Len(v9) \in Nat /\ Len(v6) \in Nat /\ Len(v7) \in Nat /\ v4 \in Nat
  BY <1>1, ApplicationAssumption, LenProperties DEF FlashTypes
<1>3. Len(v9) \in 0..12
  <2>1. Len(v9) + Len(v6) = 12
    BY <1>1 DEF RequestSplit
  <2>2. \A m, n \in Nat : m + n = 12 => m \in 0..12
    OBVIOUS
  <2> QED
    BY <1>2, <2>1, <2>2, Zenon
<1>4. Taken \in Nat
  BY <1>2 DEF Taken
<1> QED
  BY <1>1, <1>2, <1>3, <1>4

LEMMA ShiftKeeps ==
  ASSUME FlashIInv, Flash!Shift PROVE FlashIInv'
<1>1. /\ v8 /\ v6 # << >> /\ v6' = Tail(v6)
      /\ v7' = Flash!Push(v7, <<Flash!Answer(v9)>>)
      /\ v9' = Append(v9, Head(v6))
      /\ UNCHANGED <<v1, v2, v3, v4, v5, v8>>
  BY DEF Flash!Shift, Flash!driver
<1>2. v1 = "sending"
  BY <1>1 DEF FlashIInv, NoRead, DriverState
<1>3. /\ FlashTypes /\ RequestSplit /\ AnswersWait /\ DriverState
      /\ v2 \in Nat /\ Len(v9) \in 0..12 /\ Len(v7) \in Nat /\ Taken = 0
  BY <1>2, UnderWay DEF Taken
<1>4. v6 \in Seq(Wire) /\ v7 \in Seq(Wire) /\ v9 \in Seq(Wire) /\ v2 \in ReadAddresses
  BY <1>3 DEF FlashTypes, RequestSplit
<1>5. /\ Head(v6) \in Wire /\ Head(v6) = v6[1] /\ v6' \in Seq(Wire)
      /\ Len(v6) \in Nat /\ Len(v6) >= 1 /\ Len(v6') = Len(v6) - 1
      /\ \A j \in 1..Len(v6') : v6'[j] = v6[j + 1]
  BY <1>1, <1>4, HeadTailProperties, EmptySeq, LenProperties
<1>6. /\ v9' \in Seq(Wire) /\ Len(v9') = Len(v9) + 1 /\ v9'[Len(v9) + 1] = v6[1]
      /\ \A j \in 1..Len(v9) : v9'[j] = v9[j]
  BY <1>1, <1>4, <1>5, AppendProperties
<1>7. Len(v9) < 12 /\ Len(v9) + Len(v6) = 12 /\ Len(v7) = Len(v9)
  <2>1. Len(v9) + Len(v6) = 12
    BY <1>3 DEF RequestSplit
  <2>2. Len(v7) + 0 = Len(v9)
    BY <1>2, <1>3 DEF AnswersWait
  <2> QED
    BY <1>3, <1>5, <2>1, <2>2
<1>8. Flash!Answer(v9) = AnswerTo(v2, Len(v9) + 1)
  BY <1>3, <1>4, <1>7, AnswerFacts DEF RequestSplit
<1>9. /\ v7' \in Seq(Wire) /\ Len(v7') = Len(v7) + 1
      /\ v7'[Len(v7) + 1] = Flash!Answer(v9)
      /\ \A j \in 1..Len(v7) : v7'[j] = v7[j]
  <2> DEFINE x == Flash!Answer(v9)
             longer == v7 \o <<x>>
  <2>1. x \in Wire
    BY <1>3, <1>8, AnswerTypes
  <2> HIDE DEF x
  <2>2. longer = Append(v7, x)
    BY <1>4, <2>1, AppendIsConcat
  <2>3. /\ longer \in Seq(Wire) /\ Len(longer) = Len(v7) + 1 /\ longer[Len(v7) + 1] = x
        /\ \A j \in 1..Len(v7) : longer[j] = v7[j]
    BY <1>4, <2>1, <2>2, AppendProperties
  <2> HIDE DEF longer
  <2>4. Len(longer) <= Depth
    BY <1>3, <1>7, <2>3, ApplicationAssumption
  <2>5. v7' = longer
    BY <1>1, <2>4 DEF Flash!Push, longer, x
  <2> QED
    BY <2>3, <2>5 DEF x
<1>10. FlashTypes'
  BY <1>1, <1>3, <1>5, <1>6, <1>7, <1>9 DEF FlashTypes
<1>11. RequestSplit'
  <2>1. Len(v9') + Len(v6') = 12
    BY <1>3, <1>5, <1>6, <1>7
  <2>2. v6[1] = Flash!Request(v2)[Len(v9) + 1]
    BY <1>3, <1>5 DEF RequestSplit
  <2>3. ASSUME NEW j \in 1..Len(v9') PROVE v9'[j] = Flash!Request(v2)[j]
    <3>1. CASE j = Len(v9) + 1
      BY <1>6, <2>2, <3>1
    <3>2. CASE j # Len(v9) + 1
      <4>1. j \in 1..Len(v9)
        BY <1>3, <1>6, <3>2
      <4> QED
        BY <1>3, <1>6, <4>1 DEF RequestSplit
    <3> QED
      BY <3>1, <3>2
  <2>4. ASSUME NEW j \in 1..Len(v6') PROVE v6'[j] = Flash!Request(v2)[Len(v9') + j]
    <3>1. j + 1 \in 1..Len(v6) /\ Len(v9') + j = Len(v9) + (j + 1)
      BY <1>3, <1>5, <1>6
    <3> QED
      BY <1>3, <1>5, <3>1 DEF RequestSplit
  <2> QED
    BY <1>1, <1>4, <2>1, <2>3, <2>4 DEF RequestSplit
<1>12. AnswersWait'
  <2>1. Taken' = 0
    BY <1>1, <1>2 DEF Taken
  <2>2. ASSUME NEW j \in 1..Len(v7') PROVE v7'[j] = AnswerTo(v2, 0 + j)
    <3>1. CASE j = Len(v7) + 1
      <4>1. 0 + j = Len(v9) + 1
        BY <1>3, <1>7, <3>1
      <4> QED
        BY <1>8, <1>9, <3>1, <4>1
    <3>2. CASE j # Len(v7) + 1
      <4>1. j \in 1..Len(v7)
        BY <1>3, <1>9, <3>2
      <4> QED
        BY <1>2, <1>3, <1>9, <4>1 DEF AnswersWait
    <3> QED
      BY <3>1, <3>2
  <2>3. Len(v7') + 0 = Len(v9')
    BY <1>3, <1>6, <1>7, <1>9
  <2> QED
    BY <1>1, <2>1, <2>2, <2>3 DEF AnswersWait
<1>13. DriverState' /\ ReadEnded'
  BY <1>1, <1>2, <1>3 DEF DriverState, ReadEnded
<1> QED
  BY <1>10, <1>11, <1>12, <1>13 DEF FlashIInv

LEMMA PollKeeps ==
  ASSUME FlashIInv, Flash!PollTxEmpty \/ Flash!StopSending PROVE FlashIInv'
<1>1. /\ v1 = "sending"
      /\ UNCHANGED <<v2, v4, v5, v6, v7, v9>>
      /\ \/ v1' = "sending" /\ v3 > 1 /\ v3' = v3 - 1 /\ v8' = v8
         \/ v1' = "skipping" /\ v3' = v3 /\ v8' = FALSE
  BY DEF Flash!PollTxEmpty, Flash!StopSending, Flash!controller
<1>2. /\ FlashTypes /\ RequestSplit /\ AnswersWait /\ DriverState /\ v4 = 0 /\ Taken = 0
      /\ v5 = << >>
  BY <1>1, UnderWay DEF Taken, DriverState
<1>3. Taken' = 0
  BY <1>1, <1>2 DEF Taken
<1>4. v3' \in 0..TxPolls /\ (v1' = "sending" => v3' >= 1)
  BY <1>1, <1>2, ApplicationAssumption DEF FlashTypes, DriverState
<1>5. FlashTypes'
  BY <1>1, <1>2, <1>4 DEF FlashTypes
<1>6. RequestSplit' /\ AnswersWait'
  BY <1>1, <1>2, <1>3 DEF RequestSplit, AnswersWait
<1>7. DriverState' /\ ReadEnded'
  BY <1>1, <1>2, <1>4 DEF DriverState, ReadEnded
<1> QED
  BY <1>5, <1>6, <1>7 DEF FlashIInv

\* One byte of the answer is taken out of the FIFO.
LEMMA TakeFacts ==
  ASSUME FlashIInv, v1 \in {"skipping", "reading"}, v7 # << >>, v7' = Tail(v7),
         v2' = v2, v9' = v9, v1' # "idle" => Taken' = Taken + 1
  PROVE  /\ v7' \in Seq(Wire) /\ Len(v7') <= 12 /\ AnswersWait'
         /\ Head(v7) = AnswerTo(v2, Taken + 1) /\ Head(v7) \in Wire
<1>1. /\ FlashTypes /\ AnswersWait /\ v2 \in Nat /\ Taken \in Nat
      /\ Len(v7) \in Nat /\ Len(v9) \in 0..12
  BY UnderWay
<1>2. v7 \in Seq(Wire)
  BY <1>1 DEF FlashTypes
<1>3. /\ Head(v7) = v7[1] /\ Tail(v7) \in Seq(Wire) /\ Len(v7) >= 1
      /\ Len(Tail(v7)) = Len(v7) - 1
      /\ \A j \in 1..Len(Tail(v7)) : Tail(v7)[j] = v7[j + 1]
      /\ Head(v7) \in Wire
  BY <1>1, <1>2, HeadTailProperties, EmptySeq
<1>4. Head(v7) = AnswerTo(v2, Taken + 1)
  BY <1>1, <1>3 DEF AnswersWait
<1>5. ASSUME v1' # "idle"
      PROVE  /\ Len(v7') + Taken' = Len(v9)
             /\ \A j \in 1..Len(v7') : v7'[j] = AnswerTo(v2, Taken' + j)
  <2>1. Taken' = Taken + 1 /\ Len(v7) + Taken = Len(v9)
    BY <1>1, <1>5 DEF AnswersWait
  <2>2. ASSUME NEW j \in 1..Len(v7') PROVE v7'[j] = AnswerTo(v2, Taken' + j)
    <3>1. j + 1 \in 1..Len(v7) /\ Taken' + j = Taken + (j + 1)
      BY <1>1, <1>3, <2>1
    <3> QED
      BY <1>1, <1>3, <3>1 DEF AnswersWait
  <2> QED
    BY <1>1, <1>3, <2>1, <2>2
<1>6. Len(v7') <= 12
  BY <1>1, <1>3 DEF FlashTypes
<1> QED
  BY <1>3, <1>4, <1>5, <1>6 DEF AnswersWait

LEMMA SkipByteKeeps ==
  ASSUME FlashIInv, Flash!SkipByte PROVE FlashIInv'
<1>1. /\ v1 = "skipping" /\ v7 # << >> /\ v7' = Tail(v7)
      /\ v4 + 1 < 4 => v4' = v4 + 1 /\ v1' = v1
      /\ ~(v4 + 1 < 4) => v4' = 0 /\ v1' = "reading"
      /\ UNCHANGED <<v2, v3, v5, v6, v8, v9>>
  BY DEF Flash!SkipByte, Flash!kCommandBytes
<1>2. /\ FlashTypes /\ RequestSplit /\ DriverState /\ v4 \in Nat /\ v4 < 4
      /\ v5 = << >>
  BY <1>1, UnderWay DEF DriverState
<1>3. Taken' = Taken + 1
  BY <1>1, <1>2 DEF Taken
<1>4. v7' \in Seq(Wire) /\ Len(v7') <= 12 /\ AnswersWait'
  BY <1>1, <1>3, TakeFacts
<1>5. FlashTypes' /\ RequestSplit'
  BY <1>1, <1>2, <1>4 DEF FlashTypes, RequestSplit
<1>6. DriverState' /\ ReadEnded'
  BY <1>1, <1>2, EmptySeq DEF DriverState, ReadEnded
<1> QED
  BY <1>4, <1>5, <1>6 DEF FlashIInv

LEMMA ReadByteKeeps ==
  ASSUME FlashIInv, Flash!ReadByte PROVE FlashIInv'
<1>1. /\ v1 = "reading" /\ v7 # << >> /\ v7' = Tail(v7) /\ v5' = Append(v5, Head(v7))
      /\ v4' = v4 + 1
      /\ v4' < 8 => v1' = "reading"
      /\ ~(v4' < 8) => v1' = "idle"
      /\ UNCHANGED <<v2, v3, v6, v8, v9>>
  BY DEF Flash!ReadByte, Flash!kDataBytes
<1>2. /\ FlashTypes /\ RequestSplit /\ DriverState /\ v2 \in Nat /\ v4 \in Nat /\ v4 < 8
      /\ Len(v5) = v4 /\ \A j \in 1..v4 : v5[j] = Flash!Byte(v2 + j - 1)
      /\ v5 \in Seq(Wire)
  BY <1>1, UnderWay DEF DriverState, FlashTypes
<1>3. Taken = 4 + v4 /\ (v1' # "idle" => Taken' = Taken + 1)
  BY <1>1, <1>2 DEF Taken
<1>4. /\ v7' \in Seq(Wire) /\ Len(v7') <= 12 /\ AnswersWait'
      /\ Head(v7) = AnswerTo(v2, Taken + 1) /\ Head(v7) \in Wire
  BY <1>1, <1>3, TakeFacts
<1>5. Head(v7) = Flash!Byte(v2 + v4)
  <2>1. ~(Taken + 1 <= 4) /\ v2 + (Taken + 1) - 5 = v2 + v4
    BY <1>2, <1>3
  <2> QED
    BY <1>4, <2>1 DEF AnswerTo
<1>6. /\ v5' \in Seq(Wire) /\ Len(v5') = v4 + 1
      /\ \A j \in 1..(v4 + 1) : v5'[j] = Flash!Byte(v2 + j - 1)
  <2>1. /\ v5' \in Seq(Wire) /\ Len(v5') = v4 + 1 /\ v5'[v4 + 1] = Flash!Byte(v2 + v4)
        /\ \A j \in 1..v4 : v5'[j] = v5[j]
    BY <1>1, <1>2, <1>4, <1>5, AppendProperties
  <2>2. ASSUME NEW j \in 1..(v4 + 1) PROVE v5'[j] = Flash!Byte(v2 + j - 1)
    <3>1. CASE j = v4 + 1
      <4>1. v2 + j - 1 = v2 + v4
        BY <1>2, <3>1
      <4> QED
        BY <2>1, <3>1, <4>1
    <3>2. CASE j # v4 + 1
      <4>1. j \in 1..v4
        BY <1>2, <3>2
      <4> QED
        BY <1>2, <2>1, <4>1
    <3> QED
      BY <3>1, <3>2
  <2> QED
    BY <2>1, <2>2
<1>7. FlashTypes' /\ RequestSplit'
  <2>1. v4' \in 0..8 /\ Len(v5') <= 8 /\ v1' \in {"reading", "idle"}
    BY <1>1, <1>2, <1>6
  <2> QED
    BY <1>1, <1>2, <1>4, <1>6, <2>1 DEF FlashTypes, RequestSplit
<1>8. DriverState'
  BY <1>1, <1>2, <1>6 DEF DriverState
<1>9. ReadEnded'
  <2> SUFFICES ASSUME v1' = "idle" PROVE v5' = Marked(v2, 8)
    BY <1>1 DEF ReadEnded
  <2>1. v4 + 1 = 8
    BY <1>1, <1>2
  <2>2. \A j \in 1..8 : v5'[j] = Marked(v2, 8)[j]
    BY <1>6, <2>1 DEF Marked
  <2>3. v5' = [j \in 1..8 |-> v5'[j]]
    BY <1>6, <2>1, LenProperties
  <2> QED
    BY <2>2, <2>3 DEF Marked
<1> QED
  BY <1>4, <1>7, <1>8, <1>9 DEF FlashIInv

\* Nothing comes any more: the rest is marked, and a part of the request is unsent.
LEMMA GiveUpKeeps ==
  ASSUME FlashIInv, Flash!SkipFails \/ Flash!ReadFails PROVE FlashIInv'
<1>1. /\ v1 \in {"skipping", "reading"} /\ v7 = << >> /\ v1' = "idle"
      /\ UNCHANGED <<v2, v3, v4, v6, v7, v8, v9>>
  BY DEF Flash!SkipFails, Flash!ReadFails, Flash!controller
<1>2. /\ FlashTypes /\ RequestSplit /\ AnswersWait /\ DriverState
      /\ v2 \in Nat /\ v4 \in Nat /\ Len(v9) \in 0..12
  BY <1>1, UnderWay
<1>3. v6 # << >>
  <2>1. Len(v9) = Taken
    BY <1>1, <1>2, EmptySeq DEF AnswersWait, Taken
  <2>2. Taken < 12
    BY <1>1, <1>2 DEF Taken, DriverState
  <2> QED
    BY <1>2, <2>1, <2>2, EmptySeq DEF RequestSplit
<1>4. ASSUME Flash!SkipFails PROVE v5' = AllMarked
  BY <1>4 DEF Flash!SkipFails, AllMarked, Flash!kDataBytes
<1>5. ASSUME Flash!ReadFails PROVE v4 \in 0..8 /\ v5' = Marked(v2, v4)
  <2> DEFINE rest == [j \in 1..(8 - v4) |-> Flash!E2]
  <2>1. v1 = "reading" /\ v5' = v5 \o rest
    BY <1>5 DEF Flash!ReadFails, Flash!kDataBytes
  <2>2. /\ v4 < 8 /\ Len(v5) = v4 /\ v5 \in Seq(Wire)
        /\ \A j \in 1..v4 : v5[j] = Flash!Byte(v2 + j - 1)
    BY <1>2, <2>1 DEF DriverState, FlashTypes
  <2>3. /\ rest \in Seq(Wire) /\ Len(rest) = 8 - v4
        /\ \A j \in 1..(8 - v4) : rest[j] = Flash!E2
    BY <1>2, <2>2, WireFacts
  <2> HIDE DEF rest
  <2>4. /\ v5' \in Seq(Wire) /\ Len(v5') = Len(v5) + Len(rest)
        /\ \A j \in 1..Len(v5) : v5'[j] = v5[j]
        /\ \A j \in 1..Len(rest) : v5'[Len(v5) + j] = rest[j]
    BY <2>1, <2>2, <2>3, ConcatProperties
  <2>5. Len(v5') = 8
    BY <1>2, <2>2, <2>3, <2>4
  <2>6. ASSUME NEW j \in 1..8 PROVE v5'[j] = Marked(v2, v4)[j]
    <3>1. CASE j <= v4
      <4>1. j \in 1..v4
        BY <1>2, <3>1
      <4> QED
        BY <2>2, <2>4, <3>1, <4>1 DEF Marked
    <3>2. CASE ~(j <= v4)
      <4>1. j - v4 \in 1..(8 - v4) /\ v4 + (j - v4) = j
        BY <1>2, <2>2, <3>2
      <4>2. v5'[j] = Flash!E2
        BY <2>2, <2>3, <2>4, <4>1
      <4> QED
        BY <3>2, <4>2 DEF Marked
    <3> QED
      BY <3>1, <3>2
  <2>7. v5' = [j \in 1..8 |-> v5'[j]]
    BY <2>4, <2>5, LenProperties
  <2>8. v4 \in 0..8
    BY <1>2, <2>2
  <2> QED
    BY <2>6, <2>7, <2>8 DEF Marked
<1>6. v5' = AllMarked \/ \E n \in 0..8 : v5' = Marked(v2, n)
  BY <1>4, <1>5
<1>7. v5' \in Seq(Wire) /\ Len(v5') <= 8
  <2>1. ASSUME NEW n \in 0..8
        PROVE  Marked(v2, n) \in [1..8 -> Wire]
    <3>1. ASSUME NEW j \in 1..8
          PROVE  (IF j <= n THEN Flash!Byte(v2 + j - 1) ELSE Flash!E2) \in Wire
      BY <1>2, WireFacts
    <3> QED
      BY <3>1 DEF Marked
  <2>2. AllMarked \in [1..8 -> Wire]
    BY WireFacts DEF AllMarked
  <2>3. ASSUME NEW f \in [1..8 -> Wire] PROVE f \in Seq(Wire) /\ Len(f) = 8
    <3>1. f \in Seq(Wire)
      BY SeqDef
    <3>2. DOMAIN f = 1..8 /\ DOMAIN f = 1..Len(f) /\ Len(f) \in Nat
      BY <3>1, LenProperties
    <3> QED
      BY <3>1, <3>2
  <2>4. v5' \in [1..8 -> Wire]
    BY <1>6, <2>1, <2>2
  <2>5. v5' \in Seq(Wire) /\ Len(v5') = 8
    BY <2>3, <2>4
  <2> QED
    BY <2>5
<1>8. FlashTypes'
  BY <1>1, <1>2, <1>7 DEF FlashTypes
<1>9. RequestSplit' /\ AnswersWait'
  BY <1>1, <1>2 DEF RequestSplit, AnswersWait
<1>10. DriverState'
  BY <1>1, <1>2 DEF DriverState
<1>11. ReadEnded'
  BY <1>1, <1>3, <1>6 DEF ReadEnded
<1> QED
  BY <1>8, <1>9, <1>10, <1>11 DEF FlashIInv

LEMMA FlashRight ==
  ASSUME FlashIInv
  PROVE  /\ Flash!TypeOK /\ Flash!RightOrMarked
         /\ Flash!SentIsRead /\ Flash!StoppedOutsideSending
<1>1. Flash!TypeOK
  <2>1. Len(v6) <= Depth
    <3>1. Len(v6) <= 12
      BY EmptySeq, LenProperties DEF FlashIInv, NoRead, RequestSplit, FlashTypes
    <3>2. Len(v6) \in Nat
      BY LenProperties DEF FlashIInv, FlashTypes
    <3> QED
      BY <3>1, <3>2, ApplicationAssumption
  <2>2. Len(v7) <= Depth
    BY LenProperties, ApplicationAssumption DEF FlashIInv, FlashTypes
  <2> QED
    BY <2>1, <2>2 DEF FlashIInv, FlashTypes, Flash!TypeOK, Flash!kDataBytes
<1>2. ASSUME Flash!Returned
      PROVE  \/ v5 = AllMarked /\ v6 # << >>
             \/ \E n \in 0..8 : v5 = Marked(v2, n) /\ (v6 = << >> => n = 8)
  BY <1>2 DEF Flash!Returned, FlashIInv, NoRead, ReadEnded
<1>3. Flash!RightOrMarked
  BY <1>2 DEF Flash!RightOrMarked, Marked, AllMarked, Flash!kDataBytes
<1>4. Flash!SentIsRead
  <2> SUFFICES ASSUME Flash!Returned, v6 = << >>
               PROVE  v5 = [j \in 1..8 |-> Flash!Byte(v2 + j - 1)]
    BY DEF Flash!SentIsRead, Flash!kDataBytes
  <2>1. v5 = Marked(v2, 8)
    BY <1>2
  <2> QED
    BY <2>1 DEF Marked
<1>5. Flash!StoppedOutsideSending
  BY DEF Flash!StoppedOutsideSending, FlashIInv, NoRead, DriverState
<1> QED
  BY <1>1, <1>3, <1>4, <1>5

-----------------------------------------------------------------------------

LEMMA ApplicationInvariant == ServicesSpec => []ApplicationIInv
<1>1. ServicesInit => ApplicationIInv
  BY PersonInit, FlashInit DEF ServicesInit, ApplicationIInv
<1>2. ASSUME ApplicationIInv, [ServicesNext]_<<part, pool>> PROVE ApplicationIInv'
  <2>1. CASE UNCHANGED <<part, pool>>
    <3>1. UNCHANGED <<part, v1, v2, v3, v4, v5, v6, v7, v8, v9, v10, v11, v12, v13>>
      BY <2>1 DEF pool, from6, from7, from10, from11, from12
    <3>2. Taken' = Taken
      BY <3>1 DEF Taken
    <3>3. PersonIInv' = PersonIInv
      BY <3>1 DEF PersonIInv, PersonTypes, SetUpFirst, ImagePassedOn, RightResults
    <3>4. FlashIInv' = FlashIInv
      BY <3>1, <3>2 DEF FlashIInv, FlashTypes, NoRead, RequestSplit, AnswersWait, DriverState,
         ReadEnded
    <3> QED
      BY <1>2, <3>1, <3>3, <3>4 DEF ApplicationIInv
  <2>2. CASE ServicesNext
    <3>1. part' = part
      BY <2>2 DEF ServicesNext, OtherNext, LutNext, PersonNext, FlashNext
    <3>2. ASSUME part = "application" PROVE PersonIInv'
      <4>1. PersonNext /\ PersonIInv
        BY <1>2, <2>2, <3>2
        DEF ServicesNext, OtherNext, LutNext, FlashNext, ApplicationIInv
      <4> QED
        BY <4>1, SetUpKeeps, TurnGivenUpKeeps, StartLoopKeeps, GetImageKeeps,
           RunOperatorKeeps, ReportKeeps, MainReturnsKeeps DEF PersonNext, Person!Next
    <3>3. ASSUME part = "flash" PROVE FlashIInv'
      <4>1. FlashNext /\ FlashIInv
        BY <1>2, <2>2, <3>3
        DEF ServicesNext, OtherNext, LutNext, PersonNext, ApplicationIInv
      <4> QED
        BY <4>1, StartReadKeeps, ShiftKeeps, PollKeeps, SkipByteKeeps, ReadByteKeeps,
           GiveUpKeeps DEF FlashNext, Flash!Next, Flash!Driver
    <3> QED
      BY <3>1, <3>2, <3>3 DEF ApplicationIInv
  <2> QED
    BY <1>2, <2>1, <2>2
<1> QED
  BY <1>1, <1>2, PTL DEF ServicesSpec

\* Whatever setup leaves unset, whichever turns fail and wherever, what the
\* application reports are the scores of the image of the turn; and what qspi_read8
\* returns is the flash from the address that it was asked for, up to the byte from
\* which on it is marked, however slow the controller is in this read or was before.
THEOREM ApplicationStaysRight == ServicesSpec => []ApplicationRight
<1>1. ApplicationIInv => ApplicationRight
  BY PersonRight, FlashRight DEF ApplicationIInv, ApplicationRight
<1> QED
  BY <1>1, ApplicationInvariant, PTL

-----------------------------------------------------------------------------
(* The allocators of two arenas.  tailTemp is v1, headTemp v2, nextTemp v3,   *)
(* tempCount v4, tempCheckSum v5, resizableBufferAllocated v6, persistent v7, *)
(* reserved v8, temps v9 and holders v10.                                     *)

LEMMA SplitDown ==
  ASSUME NEW p \in Int, NEW alignment \in Nat \ {0}
  PROVE  /\ Split!AlignPointerDown(p, alignment) \in Int
         /\ Split!AlignPointerDown(p, alignment) <= p
         /\ p \in Nat => Split!AlignPointerDown(p, alignment) \in Nat
BY DEF Split!AlignPointerDown, Split!nullptr

LEMMA SplitUp ==
  ASSUME NEW p \in Nat \ {0}, NEW alignment \in Nat \ {0}
  PROVE  /\ Split!AlignPointerUp(p, alignment) \in Nat
         /\ p <= Split!AlignPointerUp(p, alignment)
         /\ Split!AlignPointerUp(p, alignment) < p + alignment
BY DEF Split!AlignPointerUp, Split!nullptr

LEMMA ProductMonotone ==
  ASSUME NEW i \in Int, NEW j \in Int, i <= j, NEW a \in Nat
  PROVE  i * a <= j * a
<1>1. (j - i) * a = j * a - i * a
  OBVIOUS
<1>2. (j - i) * a >= 0
  <2> DEFINE d == j - i
  <2>1. d \in Nat
    OBVIOUS
  <2> HIDE DEF d
  <2>2. d * a \in Nat
    BY <2>1
  <2> QED
    BY <2>2 DEF d
<1> QED
  BY <1>1, <1>2

\* Rounding up keeps the order.
LEMMA SplitUpMonotone ==
  ASSUME NEW p \in Nat \ {0}, NEW q \in Nat \ {0}, p <= q, NEW alignment \in Nat \ {0}
  PROVE  Split!AlignPointerUp(p, alignment) <= Split!AlignPointerUp(q, alignment)
<1> DEFINE i == (p + alignment - 1) \div alignment
           j == (q + alignment - 1) \div alignment
<1>1. /\ i \in Int /\ j \in Int
      /\ i * alignment <= p + alignment - 1
      /\ q + alignment - 1 < j * alignment + alignment
  OBVIOUS
<1> HIDE DEF i, j
<1>2. i <= j
  <2> SUFFICES ASSUME j + 1 <= i PROVE FALSE
    BY <1>1
  <2>1. (j + 1) * alignment <= i * alignment
    BY <1>1, ProductMonotone
  <2>2. (j + 1) * alignment = j * alignment + alignment
    BY <1>1
  <2> QED
    BY <1>1, <2>1, <2>2
<1>3. i * alignment <= j * alignment
  BY <1>1, <1>2, ProductMonotone
<1> QED
  BY <1>3 DEF Split!AlignPointerUp, Split!nullptr, i, j

LEMMA SplitConstants ==
  /\ TwoArenas.space \in Nat /\ TwoArenas.head \in Nat \ {0} /\ TwoArenas.tail \in Nat \ {0}
  /\ TwoArenas.persistent_head \in Nat \ {0} /\ TwoArenas.persistent_end \in Nat \ {0}
  /\ TwoArenas.tail < TwoArenas.space /\ TwoArenas.persistent_end < TwoArenas.space
  /\ Split!NonPersistentHead \in Nat /\ TwoArenas.head <= Split!NonPersistentHead
  /\ Split!NonPersistentHead <= TwoArenas.tail
  /\ Split!PersistentTail \in Nat /\ Split!PersistentTail <= TwoArenas.persistent_end
  /\ \/ TwoArenas.tail <= TwoArenas.persistent_head
     \/ TwoArenas.persistent_end <= TwoArenas.head
<1>1. /\ TwoArenas.space \in Nat
      /\ TwoArenas.head \in 1 .. TwoArenas.space - 1
      /\ TwoArenas.tail \in 1 .. TwoArenas.space - 1
      /\ TwoArenas.persistent_head \in 1 .. TwoArenas.space - 1
      /\ TwoArenas.persistent_end \in 1 .. TwoArenas.space - 1
      /\ TwoArenas.alignment \in Nat \ {0}
      /\ Split!NonPersistentHead <= TwoArenas.tail
      /\ \/ TwoArenas.tail <= TwoArenas.persistent_head
         \/ TwoArenas.persistent_end <= TwoArenas.head
  BY TwoArenasAssumption
<1>2. /\ TwoArenas.head \in Nat \ {0} /\ TwoArenas.tail \in Nat \ {0}
      /\ TwoArenas.persistent_head \in Nat \ {0} /\ TwoArenas.persistent_end \in Nat \ {0}
      /\ TwoArenas.tail < TwoArenas.space /\ TwoArenas.persistent_end < TwoArenas.space
  BY <1>1
<1>3. /\ Split!NonPersistentHead \in Nat /\ TwoArenas.head <= Split!NonPersistentHead
  BY <1>1, <1>2, SplitUp DEF Split!NonPersistentHead
<1>4. TwoArenas.persistent_end \in Int /\ TwoArenas.persistent_end \in Nat
  BY <1>2
<1>5. Split!PersistentTail \in Nat /\ Split!PersistentTail <= TwoArenas.persistent_end
  BY <1>1, <1>4, SplitDown DEF Split!PersistentTail
<1> QED
  BY <1>1, <1>2, <1>3, <1>5

\* Create puts the allocators behind one another below the end of their arena.
LEMMA SplitCreated ==
  /\ Split!NonPersistentSelf \in Nat /\ Split!PersistentSelf \in Nat
  /\ TwoArenas.persistent_object \in Nat /\ TwoArenas.non_persistent_object \in Nat
  /\ TwoArenas.persistent_head <= Split!NonPersistentSelf
  /\ Split!NonPersistentSelf + TwoArenas.non_persistent_object <= Split!PersistentSelf
  /\ Split!PersistentSelf + TwoArenas.persistent_object <= Split!PersistentTail
<1>1. /\ TwoArenas.persistent_object \in Nat /\ TwoArenas.non_persistent_object \in Nat
      /\ TwoArenas.alignment \in Nat \ {0}
      /\ TwoArenas.persistent_head <= Split!NonPersistentSelf
  BY TwoArenasAssumption
<1>2. /\ Split!PersistentSelf \in Int
      /\ Split!PersistentSelf <= Split!PersistentTail - TwoArenas.persistent_object
  BY <1>1, SplitDown, SplitConstants DEF Split!PersistentSelf
<1>3. /\ Split!NonPersistentSelf \in Int
      /\ Split!NonPersistentSelf <= Split!PersistentSelf - TwoArenas.non_persistent_object
  BY <1>1, <1>2, SplitDown DEF Split!NonPersistentSelf
<1> QED
  BY <1>1, <1>2, <1>3, SplitConstants

LEMMA SplitRequests ==
  ASSUME NEW size \in TwoArenas.sizes, NEW alignment \in TwoArenas.alignments
  PROVE  /\ size \in Nat \ {0} /\ size <= TwoArenas.persistent_head
         /\ alignment \in Nat \ {0}
         /\ Split!AlignPointerUp(Split!NonPersistentHead, alignment) = Split!NonPersistentHead
         /\ Split!AlignPointerUp(TwoArenas.tail, alignment) = TwoArenas.tail
BY TwoArenasAssumption

LEMMA SplitTypes ==
  ASSUME SplitIInv
  PROVE  /\ v1 \in Nat /\ v2 \in Nat /\ v3 \in Nat /\ v4 \in Nat
         /\ v8.at \in Nat /\ v8.size \in Nat
         /\ \A b \in v7 : b.at \in Nat /\ b.size \in Nat
         /\ \A t \in v9 : t.at \in Nat /\ t.size \in Nat
         /\ Split!NonPersistentHead <= v2 /\ v2 > 0 /\ v3 > 0 /\ v3 < TwoArenas.space
BY SplitConstants DEF SplitIInv, SplitChain, Split!TypeOK, Split!Blocks, Split!Addresses

LEMMA SplitInit == Split!Init => SplitIInv
<1> SUFFICES ASSUME Split!Init PROVE SplitIInv
  OBVIOUS
<1> USE SplitConstants, SplitCreated
<1>1. Split!TypeOK
  <2>1. /\ Split!NonPersistentSelf \in Split!Addresses
        /\ Split!PersistentSelf \in Split!Addresses
        /\ Split!NonPersistentHead \in Split!Addresses
    BY DEF Split!Addresses
  <2>2. /\ {v1, v2, v3} \subseteq Split!Addresses /\ v4 \in Nat
        /\ v5 \in SUBSET Split!BitPositions /\ v6 \in BOOLEAN /\ v10 \in Nat
    BY <2>1 DEF Split!Init
  <2>3. v8 \in Split!Blocks /\ v9 \in SUBSET Split!Blocks /\ v7 \in SUBSET Split!Blocks
    BY <2>1 DEF Split!Init, Split!Block, Split!Blocks
  <2> QED
    BY <2>2, <2>3 DEF Split!TypeOK
<1>2. Split!PersistentIntact /\ SplitTail
  BY DEF Split!Init, Split!PersistentIntact, Split!AllApart, Split!Apart, Split!Block, SplitTail
<1>3. SplitChain
  BY FS_EmptySet DEF Split!Init, SplitChain, Split!Block, Split!AllApart
<1>4. SplitAudit
  <2> SUFFICES ASSUME NEW i \in Split!BitPositions
               PROVE  i \notin v5 /\ ~(Cardinality(WithBit(i)) % 2 = 1)
    BY DEF SplitAudit
  <2>1. WithBit(i) = {}
    BY DEF Split!Init, WithBit
  <2>2. Cardinality(WithBit(i)) = 0
    BY <2>1, FS_EmptySet
  <2> QED
    BY <2>2 DEF Split!Init
<1> QED
  BY <1>1, <1>2, <1>3, <1>4 DEF SplitIInv, Split!Init

LEMMA SplitPersistentKeeps ==
  ASSUME SplitIInv, NEW size \in TwoArenas.sizes, NEW alignment \in TwoArenas.alignments,
         Split!AllocatePersistent(size, alignment)
  PROVE  /\ SplitIInv'
         /\ \E b \in v7' : /\ v7' = v7 \cup {b} /\ b \notin v7
<1> DEFINE at == Split!AlignPointerDown(Split!Wrapped(v1 - size), alignment)
           b == Split!Block(at, size)
<1>1. /\ v1' = at /\ v7' = v7 \cup {b} /\ b.at = at /\ b.size = size
      /\ UNCHANGED <<v2, v3, v4, v5, v6, v8, v9, v10>> /\ TwoArenas.persistent_head <= at
  BY DEF Split!AllocatePersistent, Split!Fits, Split!chain, Split!head, Split!Block
<1>2. at \in Nat /\ at + size <= v1 /\ v1 < TwoArenas.space
  <2>1. v1 \in Nat /\ v1 - size \in Nat /\ v1 < TwoArenas.space
    BY SplitRequests, SplitTypes, SplitConstants DEF SplitIInv, SplitTail
  <2>2. Split!Wrapped(v1 - size) = v1 - size
    BY <2>1, SplitRequests, SplitConstants DEF Split!Wrapped
  <2>3. v1 - size \in Int
    BY <2>1
  <2> QED
    BY <2>1, <2>2, <2>3, SplitRequests, SplitDown
<1> HIDE DEF at, b
<1> USE SplitTypes, SplitRequests, SplitConstants
<1>3. \A c \in v7 : at + size <= c.at
  BY <1>2 DEF SplitIInv, SplitTail
<1>4. Split!TypeOK'
  <2>1. b \in Split!Blocks
    BY <1>1, <1>2 DEF b, Split!Block, Split!Blocks, Split!Addresses
  <2> QED
    BY <1>1, <1>2, <2>1 DEF SplitIInv, Split!TypeOK, Split!Addresses
<1>5. Split!PersistentIntact' /\ SplitTail'
  <2>1. \A c \in v7 : Split!Apart(b, c) /\ Split!Apart(c, b)
    BY <1>1, <1>3 DEF Split!Apart
  <2>2. Split!AllApart(v7')
    BY <1>1, <2>1 DEF SplitIInv, Split!PersistentIntact, Split!AllApart
  <2>3. \A c \in v7' : at <= c.at
    BY <1>1, <1>2, <1>3
  <2>4. \A c \in v7' : /\ TwoArenas.persistent_head <= c.at
                       /\ c.at + c.size <= Split!PersistentTail
    BY <1>1, <1>2 DEF SplitIInv, Split!PersistentIntact, SplitTail
  <2>5. at <= Split!PersistentTail
    BY <1>2 DEF SplitIInv, SplitTail
  <2> QED
    BY <1>1, <2>2, <2>3, <2>4, <2>5 DEF Split!PersistentIntact, SplitTail
<1>6. SplitChain' /\ SplitAudit' /\ v10' = IF v6' THEN 1 ELSE 0
  BY <1>1 DEF SplitIInv, SplitChain, SplitAudit, WithBit
<1>7. b \notin v7
  BY <1>1, <1>2, <1>3
<1> QED
  BY <1>1, <1>4, <1>5, <1>6, <1>7 DEF SplitIInv

\* A call that sets the head section, by whichever function.
LEMMA SplitHeadSet ==
  ASSUME SplitIInv, NEW size \in Nat, NEW alignment \in Nat \ {0}, NEW buffer,
         Split!AlignPointerUp(Split!NonPersistentHead, alignment) = Split!NonPersistentHead,
         Split!ResizesBuffer(buffer, size, alignment),
         UNCHANGED <<v1, v7>>, v6' \in BOOLEAN, v10' = IF v6' THEN 1 ELSE 0
  PROVE  SplitIInv' /\ v9 = {}
<1> USE SplitTypes, SplitConstants
<1>1. /\ buffer = Split!NonPersistentHead /\ v2 = v3
      /\ Split!Wrapped(TwoArenas.tail - buffer) >= size
      /\ v2' = Split!Wrapped(buffer + size) /\ v3' = v2'
      /\ v8' = Split!Block(buffer, size) /\ UNCHANGED <<v4, v5, v9>>
  BY DEF Split!ResizesBuffer
<1>2. Split!Wrapped(TwoArenas.tail - buffer) = TwoArenas.tail - buffer
  BY <1>1 DEF Split!Wrapped
<1>3. Split!Wrapped(buffer + size) = buffer + size /\ buffer + size <= TwoArenas.tail
  BY <1>1, <1>2 DEF Split!Wrapped
<1>4. v8'.at = buffer /\ v8'.size = size /\ v2' = buffer + size /\ v3' = buffer + size
  BY <1>1, <1>3 DEF Split!Block
<1>5. v9 = {}
  BY <1>1 DEF SplitIInv, SplitChain
<1>6. Split!TypeOK'
  <2>1. v8' \in Split!Blocks
    BY <1>1, <1>3 DEF Split!Block, Split!Blocks, Split!Addresses
  <2> QED
    BY <1>1, <1>3, <1>4, <2>1 DEF SplitIInv, Split!TypeOK, Split!Addresses
<1>7. Split!PersistentIntact' /\ SplitTail'
  BY DEF SplitIInv, Split!PersistentIntact, SplitTail
<1>8. SplitChain'
  BY <1>1, <1>3, <1>4, <1>5 DEF SplitIInv, SplitChain, Split!AllApart
<1>9. SplitAudit'
  BY <1>1 DEF SplitIInv, SplitAudit, WithBit
<1> QED
  BY <1>5, <1>6, <1>7, <1>8, <1>9 DEF SplitIInv

LEMMA SplitHeadKeeps ==
  ASSUME SplitIInv,
         \/ Split!ResizeResizableBuffer(0, 1)
         \/ Split!DeallocateResizable
         \/ \E size \in TwoArenas.sizes, alignment \in TwoArenas.alignments :
              \/ Split!AllocateResizableBuffer(size, alignment)
              \/ Split!ResizeResizableBuffer(size, alignment)
              \/ Split!ReserveNonPersistentOverlayMemory(size, alignment)
  PROVE  SplitIInv' /\ v9 = {}
<1>1. Split!AlignPointerUp(Split!NonPersistentHead, 1) = Split!NonPersistentHead
  BY SplitConstants DEF Split!AlignPointerUp, Split!nullptr
<1>2. v6 \in BOOLEAN /\ v10 = IF v6 THEN 1 ELSE 0
  BY DEF SplitIInv, Split!TypeOK
<1>3. CASE Split!ResizeResizableBuffer(0, 1)
  BY <1>1, <1>2, <1>3, SplitHeadSet DEF Split!ResizeResizableBuffer, Split!persistentArena
<1>4. CASE Split!DeallocateResizable
  <2>1. v6 = TRUE /\ v10 = 1
    BY <1>2, <1>4 DEF Split!DeallocateResizable
  <2>2. v6' = FALSE /\ v10' = 0
    BY <1>4, <2>1 DEF Split!DeallocateResizable
  <2>3. Split!ResizesBuffer(v8.at, 0, 1) /\ UNCHANGED <<v1, v7>>
    BY <1>4 DEF Split!DeallocateResizable, Split!persistentArena
  <2>4. v6' \in BOOLEAN /\ v10' = IF v6' THEN 1 ELSE 0
    BY <2>2
  <2> QED
    BY <1>1, <2>3, <2>4, SplitHeadSet
<1>5. ASSUME NEW size \in TwoArenas.sizes, NEW alignment \in TwoArenas.alignments,
             Split!AllocateResizableBuffer(size, alignment)
      PROVE  SplitIInv' /\ v9 = {}
  <2>1. v6' = TRUE /\ v10' = 1
    BY <1>2, <1>5 DEF Split!AllocateResizableBuffer
  <2> QED
    BY <1>5, <2>1, SplitRequests, SplitHeadSet
    DEF Split!AllocateResizableBuffer, Split!persistentArena
<1>6. ASSUME NEW size \in TwoArenas.sizes, NEW alignment \in TwoArenas.alignments,
             \/ Split!ResizeResizableBuffer(size, alignment)
             \/ Split!ReserveNonPersistentOverlayMemory(size, alignment)
      PROVE  SplitIInv' /\ v9 = {}
  BY <1>2, <1>6, SplitRequests, SplitHeadSet
  DEF Split!ResizeResizableBuffer, Split!ReserveNonPersistentOverlayMemory,
      Split!persistentArena
<1> QED
  BY <1>3, <1>4, <1>5, <1>6

LEMMA SplitTempKeeps ==
  ASSUME SplitIInv, NEW size \in TwoArenas.sizes, NEW alignment \in TwoArenas.alignments,
         Split!AllocateTempBuffer(size, alignment)
  PROVE  /\ SplitIInv'
         /\ \E b \in v9' : /\ v9' = v9 \cup {b} /\ b \notin v9 /\ Split!Apart(b, v8)
<1> DEFINE at == Split!AlignPointerUp(v3, alignment)
           b == Split!Block(at, size)
<1> USE SplitTypes, SplitRequests, SplitConstants
<1>1. /\ Split!Wrapped(TwoArenas.tail - at) >= size
      /\ v3' = Split!Wrapped(at + size) /\ v4' = v4 + 1
      /\ v5' = Split!Xor(v5, Split!PointerBits(at))
      /\ v9' = v9 \cup {b} /\ b.at = at /\ b.size = size
      /\ UNCHANGED <<v1, v2, v6, v7, v8, v10>>
  BY DEF Split!AllocateTempBuffer, Split!Block, Split!persistentArena, Split!head
<1>2. at \in Nat /\ v3 <= at
  BY SplitUp, SMTT(60)
<1>3. at <= TwoArenas.tail
  <2>1. v3 <= TwoArenas.tail
    BY DEF SplitIInv, SplitChain
  <2> QED
    BY <2>1, SplitUpMonotone
<1> HIDE DEF at, b
<1>4. at + size <= TwoArenas.tail /\ v3' = at + size
  <2>1. Split!Wrapped(TwoArenas.tail - at) = TwoArenas.tail - at
    BY <1>2, <1>3 DEF Split!Wrapped
  <2>2. at + size <= TwoArenas.tail
    BY <1>1, <1>2, <1>3, <2>1
  <2> QED
    BY <1>1, <1>2, <2>2 DEF Split!Wrapped
<1>5. \A t \in v9 : v2 <= t.at /\ t.size > 0 /\ t.at + t.size <= at
  BY <1>2 DEF SplitIInv, SplitChain
<1>6. b \notin v9
  BY <1>1, <1>2, <1>5
<1>7. Split!TypeOK'
  <2>1. b \in Split!Blocks
    BY <1>1, <1>2, <1>4 DEF b, Split!Block, Split!Blocks, Split!Addresses
  <2>2. v5' \in SUBSET Split!BitPositions
    BY <1>1 DEF SplitIInv, Split!TypeOK, Split!Xor, Split!PointerBits
  <2> QED
    BY <1>1, <1>2, <1>4, <2>1, <2>2 DEF SplitIInv, Split!TypeOK, Split!Addresses
<1>8. Split!PersistentIntact' /\ SplitTail' /\ v10' = IF v6' THEN 1 ELSE 0
  BY <1>1 DEF SplitIInv, Split!PersistentIntact, SplitTail
<1>9. SplitChain'
  <2>1. IsFiniteSet(v9') /\ v4' = Cardinality(v9')
    BY <1>1, <1>6, FS_AddElement DEF SplitIInv, SplitChain
  <2>2. \A t \in v9 : Split!Apart(b, t) /\ Split!Apart(t, b)
    BY <1>1, <1>5 DEF Split!Apart
  <2>3. Split!AllApart(v9')
    BY <1>1, <2>2 DEF SplitIInv, SplitChain, Split!AllApart
  <2>4. v2 <= at
    BY <1>2 DEF SplitIInv, SplitChain
  <2>5. \A t \in v9' : v2 <= t.at /\ t.size > 0 /\ t.at + t.size <= at + size
    BY <1>1, <1>2, <1>5, <2>4
  <2> QED
    BY <1>1, <1>2, <1>4, <2>1, <2>3, <2>4, <2>5 DEF SplitIInv, SplitChain
<1>10. SplitAudit'
  <2> SUFFICES ASSUME NEW i \in Split!BitPositions
               PROVE  i \in v5' <=> Cardinality(WithBit(i)') % 2 = 1
    BY DEF SplitAudit
  <2>1. /\ IsFiniteSet(WithBit(i)) /\ Cardinality(WithBit(i)) \in Nat
        /\ i \in v5 <=> Cardinality(WithBit(i)) % 2 = 1
    BY FS_Subset, FS_CardinalityType DEF SplitIInv, SplitChain, SplitAudit, WithBit
  <2>2. CASE i \in Split!PointerBits(at)
    <3>1. WithBit(i)' = WithBit(i) \cup {b} /\ b \notin WithBit(i)
      BY <1>1, <1>6, <2>2 DEF WithBit
    <3>2. Cardinality(WithBit(i)') = Cardinality(WithBit(i)) + 1
      BY <2>1, <3>1, FS_AddElement
    <3>3. i \in v5' <=> i \notin v5
      BY <1>1, <2>2 DEF Split!Xor
    <3> QED
      BY <2>1, <3>2, <3>3
  <2>3. CASE i \notin Split!PointerBits(at)
    <3>1. WithBit(i)' = WithBit(i)
      BY <1>1, <2>3 DEF WithBit
    <3>2. i \in v5' <=> i \in v5
      BY <1>1, <2>3 DEF Split!Xor
    <3> QED
      BY <2>1, <3>1, <3>2
  <2> QED
    BY <2>2, <2>3
<1>11. Split!Apart(b, v8)
  BY <1>1, <1>2 DEF SplitIInv, SplitChain, Split!Apart
<1> QED
  BY <1>1, <1>6, <1>7, <1>8, <1>9, <1>10, <1>11 DEF SplitIInv

LEMMA SplitTempReturnKeeps ==
  ASSUME SplitIInv, NEW t \in v9, Split!DeallocateTempBuffer(t)
  PROVE  SplitIInv'
<1>1. /\ v5' = Split!Xor(v5, Split!PointerBits(t.at)) /\ v4' = v4 - 1 /\ v9' = v9 \ {t}
      /\ UNCHANGED <<v1, v2, v3, v6, v7, v8, v10>>
  BY DEF Split!DeallocateTempBuffer, Split!persistentArena, Split!head
<1>2. SplitChain'
  <2>1. IsFiniteSet(v9') /\ v4' = Cardinality(v9')
    BY <1>1, FS_RemoveElement DEF SplitIInv, SplitChain
  <2> QED
    BY <1>1, <2>1 DEF SplitIInv, SplitChain, Split!AllApart
<1>3. Split!TypeOK'
  <2>1. v5' \in SUBSET Split!BitPositions
    BY <1>1 DEF SplitIInv, Split!TypeOK, Split!Xor, Split!PointerBits
  <2>2. v4' \in Nat
    BY <1>2, FS_CardinalityType DEF SplitChain
  <2> QED
    BY <1>1, <2>1, <2>2 DEF SplitIInv, Split!TypeOK
<1>4. Split!PersistentIntact' /\ SplitTail' /\ v10' = IF v6' THEN 1 ELSE 0
  BY <1>1 DEF SplitIInv, Split!PersistentIntact, SplitTail
<1>5. SplitAudit'
  <2> SUFFICES ASSUME NEW i \in Split!BitPositions
               PROVE  i \in v5' <=> Cardinality(WithBit(i)') % 2 = 1
    BY DEF SplitAudit
  <2>1. /\ IsFiniteSet(WithBit(i)) /\ Cardinality(WithBit(i)) \in Nat
        /\ i \in v5 <=> Cardinality(WithBit(i)) % 2 = 1
    BY FS_Subset, FS_CardinalityType DEF SplitIInv, SplitChain, SplitAudit, WithBit
  <2>2. CASE i \in Split!PointerBits(t.at)
    <3>1. WithBit(i)' = WithBit(i) \ {t} /\ t \in WithBit(i)
      BY <1>1, <2>2 DEF WithBit
    <3>2. Cardinality(WithBit(i)') = Cardinality(WithBit(i)) - 1
      BY <2>1, <3>1, FS_RemoveElement
    <3>3. i \in v5' <=> i \notin v5
      BY <1>1, <2>2 DEF Split!Xor
    <3> QED
      BY <2>1, <3>2, <3>3
  <2>3. CASE i \notin Split!PointerBits(t.at)
    <3>1. WithBit(i)' = WithBit(i)
      BY <1>1, <2>3 DEF WithBit
    <3>2. i \in v5' <=> i \in v5
      BY <1>1, <2>3 DEF Split!Xor
    <3> QED
      BY <2>1, <3>1, <3>2
  <2> QED
    BY <2>2, <2>3
<1> QED
  BY <1>1, <1>2, <1>3, <1>4, <1>5 DEF SplitIInv

LEMMA SplitResetKeeps ==
  ASSUME SplitIInv, Split!ResetTemp
  PROVE  SplitIInv' /\ v9 = {}
<1>1. v4 = 0 /\ v3' = v2 /\ UNCHANGED <<v1, v2, v4, v5, v6, v7, v8, v9, v10>>
  BY DEF Split!ResetTemp, Split!AllTempDeallocated, Split!persistentArena, Split!head
<1>2. v9 = {}
  BY <1>1, FS_EmptySet DEF SplitIInv, SplitChain
<1>3. Split!TypeOK' /\ Split!PersistentIntact' /\ SplitTail' /\ SplitAudit'
  BY <1>1 DEF SplitIInv, Split!TypeOK, Split!PersistentIntact, SplitTail, SplitAudit, WithBit
<1>4. SplitChain'
  <2>1. v2 <= v3 /\ v3 <= TwoArenas.tail
    BY DEF SplitIInv, SplitChain
  <2>2. v3' <= TwoArenas.tail /\ v2' <= v3'
    BY <1>1, <2>1, SplitTypes, SplitConstants
  <2> QED
    BY <1>1, <1>2, <2>2 DEF SplitIInv, SplitChain
<1> QED
  BY <1>1, <1>2, <1>3, <1>4 DEF SplitIInv

LEMMA SplitKeeps == SplitIInv /\ Split!Next => SplitIInv'
<1> SUFFICES ASSUME SplitIInv, Split!Next PROVE SplitIInv'
  OBVIOUS
<1>1. ASSUME NEW size \in TwoArenas.sizes, NEW alignment \in TwoArenas.alignments,
             Split!AllocatePersistent(size, alignment)
      PROVE  SplitIInv'
  BY <1>1, SplitPersistentKeeps
<1>2. ASSUME NEW size \in TwoArenas.sizes, NEW alignment \in TwoArenas.alignments,
             Split!AllocateTempBuffer(size, alignment)
      PROVE  SplitIInv'
  BY <1>2, SplitTempKeeps
<1>3. ASSUME NEW t \in v9, Split!DeallocateTempBuffer(t) PROVE SplitIInv'
  BY <1>3, SplitTempReturnKeeps
<1>4. CASE Split!ResetTemp
  BY <1>4, SplitResetKeeps
<1> QED
  BY <1>1, <1>2, <1>3, <1>4, SplitHeadKeeps DEF Split!Next

\* All that is checked of the two arenas.
LEMMA SplitRight ==
  ASSUME SplitIInv
  PROVE  /\ Split!TypeOK /\ Split!PersistentIntact /\ Split!TempsIntact
         /\ Split!TempsInside /\ Split!TempAuditExact /\ Split!OneResizable
<1> USE SplitTypes, SplitConstants
<1>1. Split!TempsIntact
  BY DEF SplitIInv, SplitChain, Split!TempsIntact, Split!Apart
<1>2. Split!TempsInside
  BY DEF SplitIInv, SplitChain, Split!TempsInside
<1>3. Split!TempAuditExact
  <2>1. v4 = 0 <=> v9 = {}
    BY FS_EmptySet DEF SplitIInv, SplitChain
  <2>2. ASSUME v9 = {} PROVE v5 = {}
    <3>1. \A i \in Split!BitPositions : WithBit(i) = {}
      BY <2>2 DEF WithBit
    <3>2. \A i \in Split!BitPositions : i \notin v5
      BY <3>1, FS_EmptySet DEF SplitIInv, SplitAudit
    <3> QED
      BY <3>2 DEF SplitIInv, Split!TypeOK
  <2> QED
    BY <2>1, <2>2 DEF Split!TempAuditExact, Split!AllTempDeallocated
<1>4. Split!OneResizable
  BY DEF SplitIInv, Split!OneResizable
<1> QED
  BY <1>1, <1>2, <1>3, <1>4 DEF SplitIInv

\* Every step is one of the contract, or changes nothing that it mentions.
LEMMA SplitRefines == SplitIInv /\ Split!Next => Split!KeepsContract
<1> SUFFICES ASSUME SplitIInv, Split!Next
             PROVE  Split!Contract!Next \/ UNCHANGED <<v7, v8, v9>>
  BY DEF Split!KeepsContract
<1> USE SplitTypes, SplitConstants
<1>1. ASSUME NEW size \in TwoArenas.sizes, NEW alignment \in TwoArenas.alignments,
             Split!AllocatePersistent(size, alignment)
      PROVE  Split!Contract!Next
  <2>1. PICK b \in v7' : v7' = v7 \cup {b} /\ b \notin v7
    BY <1>1, SplitPersistentKeeps
  <2>2. SplitIInv' /\ UNCHANGED <<v8, v9>>
    BY <1>1, SplitPersistentKeeps DEF Split!AllocatePersistent, Split!chain, Split!head
  <2>3. \A c \in v7 : Split!Apart(b, c)
    BY <2>1, <2>2 DEF SplitIInv, Split!PersistentIntact, Split!AllApart
  <2>4. /\ TwoArenas.persistent_head <= b.at /\ b.at + b.size <= TwoArenas.persistent_end
        /\ b.at \in Nat /\ b.size \in Nat
    BY <2>1, <2>2 DEF SplitIInv, Split!PersistentIntact, Split!TypeOK, Split!Blocks,
       Split!Addresses
  <2>5. TwoArenas.head <= v8.at /\ v8.at + v8.size <= TwoArenas.tail
    BY DEF SplitIInv, SplitChain
  <2>6. Split!Apart(b, v8)
    BY <2>4, <2>5 DEF Split!Apart
  <2> QED
    BY <2>1, <2>2, <2>3, <2>6 DEF Split!Apart, Split!Contract!Next,
       Split!Contract!GrantPersistent, Split!Contract!ClearOf, Split!Contract!Apart
<1>2. ASSUME NEW size \in TwoArenas.sizes, NEW alignment \in TwoArenas.alignments,
             Split!AllocateTempBuffer(size, alignment)
      PROVE  Split!Contract!Next
  <2>1. PICK b \in v9' : v9' = v9 \cup {b} /\ b \notin v9 /\ Split!Apart(b, v8)
    BY <1>2, SplitTempKeeps
  <2>2. SplitIInv' /\ UNCHANGED <<v7, v8>>
    BY <1>2, SplitTempKeeps DEF Split!AllocateTempBuffer, Split!persistentArena, Split!head
  <2>3. \A c \in v9 : Split!Apart(b, c)
    BY <2>1, <2>2 DEF SplitIInv, SplitChain, Split!AllApart
  <2> QED
    BY <2>1, <2>2, <2>3 DEF Split!Apart, Split!Contract!Next, Split!Contract!GrantTemp,
       Split!Contract!ClearOf, Split!Contract!Apart
<1>3. ASSUME NEW t \in v9, Split!DeallocateTempBuffer(t) PROVE Split!Contract!Next
  BY <1>3 DEF Split!DeallocateTempBuffer, Split!persistentArena, Split!head,
     Split!Contract!Next, Split!Contract!ReturnTemp
<1>4. ASSUME \/ Split!ResizeResizableBuffer(0, 1)
             \/ Split!DeallocateResizable
             \/ \E size \in TwoArenas.sizes, alignment \in TwoArenas.alignments :
                  \/ Split!AllocateResizableBuffer(size, alignment)
                  \/ Split!ResizeResizableBuffer(size, alignment)
                  \/ Split!ReserveNonPersistentOverlayMemory(size, alignment)
      PROVE  Split!Contract!Next
  <2>1. SplitIInv' /\ v9 = {}
    BY <1>4, SplitHeadKeeps
  <2>2. UNCHANGED <<v7, v9>>
    BY <1>4 DEF Split!ResizeResizableBuffer, Split!DeallocateResizable,
       Split!AllocateResizableBuffer, Split!ReserveNonPersistentOverlayMemory,
       Split!ResizesBuffer, Split!persistentArena
  <2>3. /\ TwoArenas.head <= v8'.at /\ v8'.at + v8'.size <= TwoArenas.tail
        /\ v8'.at \in Nat /\ v8'.size \in Nat
    <3>1. v8' \in Split!Blocks /\ v2' \in Split!Addresses /\ v3' \in Split!Addresses
      BY <2>1 DEF SplitIInv, Split!TypeOK
    <3> QED
      BY <2>1, <3>1 DEF SplitIInv, SplitChain, Split!Blocks, Split!Addresses
  <2>4. \A b \in v7 : /\ TwoArenas.persistent_head <= b.at
                      /\ b.at + b.size <= TwoArenas.persistent_end
    BY DEF SplitIInv, Split!PersistentIntact
  <2>5. \A b \in v7 : Split!Apart(v8', b)
    BY <2>3, <2>4 DEF Split!Apart
  <2> QED
    BY <2>1, <2>2, <2>5 DEF Split!Apart, Split!Contract!Next, Split!Contract!SetReserved,
       Split!Contract!ClearOf, Split!Contract!Apart
<1>5. CASE Split!ResetTemp
  BY <1>5 DEF Split!ResetTemp, Split!persistentArena, Split!head
<1> QED
  BY <1>1, <1>2, <1>3, <1>4, <1>5 DEF Split!Next

-----------------------------------------------------------------------------
(* The allocators that record.  arena is v1, counters v2, recorded v3,        *)
(* bucket v4, snapshot v5 and truth v6.                                       *)

\* A remainder is one number only.
LEMMA RemainderUnique ==
  ASSUME NEW n \in Nat \ {0}, NEW p \in Int, NEW q \in Int,
         NEW x \in 0 .. n - 1, NEW y \in 0 .. n - 1, p * n + x = q * n + y
  PROVE  x = y
<1>1. ASSUME NEW i \in Int, NEW j \in Int, i + 1 <= j PROVE i * n + n <= j * n
  <2>1. (i + 1) * n <= j * n
    BY <1>1, ProductMonotone
  <2>2. (i + 1) * n = i * n + n
    OBVIOUS
  <2> QED
    BY <2>1, <2>2
<1>2. p * n \in Int /\ q * n \in Int
  OBVIOUS
<1>3. ~(p + 1 <= q)
  BY <1>1, <1>2
<1>4. ~(q + 1 <= p)
  BY <1>1, <1>2
<1>5. p = q
  BY <1>3, <1>4
<1> QED
  BY <1>2, <1>5

\* Wrapping a part of a sum changes nothing.
LEMMA WrapsOnce ==
  ASSUME NEW n \in Nat \ {0}, NEW x \in Int, NEW y \in Int
  PROVE  ((x % n) + y) % n = (x + y) % n
<1> DEFINE q == x \div n
           z == x % n
           s == (z + y) \div n
           u == (z + y) % n
           t == (x + y) \div n
           w == (x + y) % n
<1>1. q \in Int /\ z \in 0 .. n - 1 /\ x = q * n + z
  OBVIOUS
<1> HIDE DEF q, z
<1>2. s \in Int /\ u \in 0 .. n - 1 /\ z + y = s * n + u
  BY <1>1
<1>3. t \in Int /\ w \in 0 .. n - 1 /\ x + y = t * n + w
  OBVIOUS
<1> HIDE DEF s, u, t, w
<1>4. (q + s) * n = q * n + s * n
  BY <1>1, <1>2
<1>5. (q + s) * n + u = t * n + w
  <2>1. q * n \in Int /\ s * n \in Int /\ t * n \in Int
    BY <1>1, <1>2, <1>3
  <2> QED
    BY <1>1, <1>2, <1>3, <1>4, <2>1
<1>6. u = w
  <2>1. q + s \in Int
    BY <1>1, <1>2
  <2> QED
    BY <1>2, <1>3, <1>5, <2>1, RemainderUnique
<1> QED
  BY <1>6 DEF u, w, z

LEMMA RecordingWraps ==
  ASSUME NEW r, r.space \in Nat \ {0}, NEW x \in Int
  PROVE  /\ Recording(r)!Wrapped(x) \in 0 .. r.space - 1
         /\ x \in 0 .. r.space - 1 => Recording(r)!Wrapped(x) = x
BY DEF Recording!Wrapped

LEMMA RecordingWrapsOnce ==
  ASSUME NEW r, r.space \in Nat \ {0}, NEW x \in Int, NEW y \in Int
  PROVE  Recording(r)!Wrapped(Recording(r)!Wrapped(x) + y) = Recording(r)!Wrapped(x + y)
BY WrapsOnce DEF Recording!Wrapped

\* What is added to a counter arrives in the bucket by way of the snapshot.
LEMMA CountedArrives ==
  ASSUME NEW r, r.space \in Nat \ {0},
         NEW was \in Int, NEW count \in Int, NEW start \in Int, NEW more \in Int
  PROVE  Recording(r)!Wrapped(was
           + Recording(r)!Wrapped(Recording(r)!Wrapped(count + more) - start))
         = Recording(r)!Wrapped(Recording(r)!Wrapped(was
             + Recording(r)!Wrapped(count - start)) + more)
<1> DEFINE W(x) == Recording(r)!Wrapped(x)
<1>1. \A x \in Int : W(x) \in Int
  BY RecordingWraps
<1>2. \A x, y \in Int : W(W(x) + y) = W(x + y)
  BY RecordingWrapsOnce
<1> HIDE DEF W
<1>3. W(W(count + more) - start) = W(count + more - start)
  <2>1. W(W(count + more) + (0 - start)) = W(count + more + (0 - start))
    BY <1>2
  <2>2. /\ W(count + more) + (0 - start) = W(count + more) - start
        /\ count + more + (0 - start) = count + more - start
    BY <1>1
  <2> QED
    BY <2>1, <2>2
<1>4. W(was + W(count + more - start)) = W(was + count + more - start)
  <2>1. W(W(count + more - start) + was) = W(count + more - start + was)
    BY <1>2
  <2>2. /\ W(count + more - start) + was = was + W(count + more - start)
        /\ count + more - start + was = was + count + more - start
    BY <1>1
  <2> QED
    BY <2>1, <2>2
<1>5. W(was + W(count - start)) = W(was + count - start)
  <2>1. W(W(count - start) + was) = W(count - start + was)
    BY <1>2
  <2>2. /\ W(count - start) + was = was + W(count - start)
        /\ count - start + was = was + count - start
    BY <1>1
  <2> QED
    BY <2>1, <2>2
<1>6. W(W(was + count - start) + more) = W(was + count - start + more)
  BY <1>2
<1>7. was + count - start + more = was + count + more - start
  OBVIOUS
<1> QED
  BY <1>3, <1>4, <1>5, <1>6, <1>7 DEF W

LEMMA RecordingConstants ==
  ASSUME NEW r, RecordsInto(r)
  PROVE  /\ r.space \in Nat \ {0} /\ r.head \in Nat \ {0} /\ r.tail \in Nat
         /\ r.head <= r.tail /\ r.tail < r.space
         /\ r.allocator_size \in Nat /\ r.allocator_size <= r.head
         /\ r.allocator_alignment \in Nat \ {0}
         /\ Recording(r)!NoBucket \notin r.buckets
BY DEF RecordsInto

\* Where a persistent buffer goes: below the old tail, by its size at least.
LEMMA RecordingPersistent ==
  ASSUME NEW r, RecordsInto(r), NEW a, a.tail \in Nat, r.head <= a.tail, a.tail < r.space,
         NEW size \in Nat, size <= r.head, NEW alignment \in Nat \ {0}
  PROVE  /\ Recording(r)!PersistentResult(a, size, alignment) \in Nat
         /\ Recording(r)!PersistentResult(a, size, alignment) + size <= a.tail
<1>1. a.tail - size \in Nat /\ a.tail - size < r.space
  BY RecordingConstants
<1>2. Recording(r)!Wrapped(a.tail - size) = a.tail - size
  BY <1>1, RecordingConstants, RecordingWraps
<1>3. /\ Recording(r)!AlignPointerDown(a.tail - size, alignment) \in Nat
      /\ Recording(r)!AlignPointerDown(a.tail - size, alignment) <= a.tail - size
  <2> DEFINE p == a.tail - size
  <2>1. p \in Nat
    BY <1>1
  <2> HIDE DEF p
  <2>2. /\ Recording(r)!AlignPointerDown(p, alignment) \in Nat
        /\ Recording(r)!AlignPointerDown(p, alignment) <= p
    BY <2>1 DEF Recording!AlignPointerDown, Recording!nullptr
  <2> QED
    BY <2>2 DEF p
<1> QED
  BY <1>2, <1>3 DEF Recording!PersistentResult

\* Sums and differences of usages wrap.
LEMMA UsageTypes ==
  ASSUME NEW r, RecordsInto(r), NEW u \in [requested: Int, used: Int, count: Int],
         NEW v \in [requested: Int, used: Int, count: Int]
  PROVE  Recording(r)!Plus(u, v) \in Counts(r) /\ Recording(r)!Minus(u, v) \in Counts(r)
<1>1. \A x \in Int : Recording(r)!Wrapped(x) \in Recording(r)!Addresses
  BY RecordingConstants, RecordingWraps DEF Recording!Addresses
<1>2. /\ u.requested \in Int /\ u.used \in Int /\ u.count \in Int
      /\ v.requested \in Int /\ v.used \in Int /\ v.count \in Int
  OBVIOUS
<1> QED
  BY <1>1, <1>2 DEF Recording!Plus, Recording!Minus, Recording!Usage, Counts

LEMMA CountsAreUsages ==
  ASSUME NEW r, NEW u \in Counts(r)
  PROVE  /\ u \in [requested: Int, used: Int, count: Int]
         /\ u.requested \in Recording(r)!Addresses /\ u.used \in Recording(r)!Addresses
         /\ u.count \in Recording(r)!Addresses
BY DEF Counts, Recording!Addresses

LEMMA RecordingFields ==
  ASSUME NEW r, RecordsInto(r), RecordingIInv(r)
  PROVE  /\ v1.head \in Nat /\ v1.tail \in Nat
         /\ v2.head \in Nat /\ v2.tail \in Nat /\ v2.used \in Nat /\ v2.count \in Nat
         /\ v1.tail < r.space /\ r.head <= v1.tail
         /\ Recording(r)!SnapshotAllocationUsage \in Counts(r)
<1>1. /\ v1.head \in Nat /\ v1.tail \in Nat
      /\ v2.head \in Nat /\ v2.tail \in Nat
      /\ v2.used \in Recording(r)!Addresses /\ v2.count \in Recording(r)!Addresses
      /\ v2.used \in Nat /\ v2.count \in Nat
  BY DEF RecordingIInv, RecordingTypes, Recording!TypeOK, Recording!ArenaRecords,
     Recording!Addresses
<1>2. v1.tail < r.space /\ r.head <= v1.tail
  BY <1>1, RecordingConstants DEF RecordingIInv, RecordingOrdered
<1>3. Recording(r)!Wrapped(v2.head + v2.tail) \in Recording(r)!Addresses
  BY <1>1, RecordingConstants, RecordingWraps DEF Recording!Addresses
<1> QED
  BY <1>1, <1>2, <1>3 DEF Recording!SnapshotAllocationUsage, Recording!Usage, Counts

LEMMA RecordingInit ==
  ASSUME NEW r, RecordsInto(r), Recording(r)!Init
  PROVE  RecordingIInv(r)
<1> USE RecordingConstants
<1> DEFINE at == Recording(r)!PersistentResult(Recording(r)!NewArena, r.allocator_size,
                                               r.allocator_alignment)
<1>1. /\ Recording(r)!NewArena.head = r.head /\ Recording(r)!NewArena.tail = r.tail
      /\ Recording(r)!NewArena.temp = r.head /\ Recording(r)!NewArena.count = 0
      /\ Recording(r)!NewArena.checkSum = {}
  BY DEF Recording!NewArena, Recording!Fields
<1>2. at \in Nat /\ at + r.allocator_size <= r.tail
  BY <1>1, RecordingPersistent
<1>3. r.head <= at
  BY <1>1 DEF RecordsInto, Recording!CanAllocatePersistentBuffer
<1>4. v1 = Recording(r)!Fields(r.head, at, r.head, 0, {})
  BY <1>1 DEF Recording!Init, Recording!AllocatePersistentBuffer
<1>5. v2 = [head |-> 0, tail |-> r.allocator_size, used |-> r.tail - v1.tail, count |-> 1]
  BY DEF Recording!Init
<1>6. /\ v3 = [b \in r.buckets |-> Recording(r)!NoUsage] /\ v6 = v3
      /\ v4 = Recording(r)!NoBucket /\ v5 = Recording(r)!NoUsage
  BY DEF Recording!Init
<1> HIDE DEF at
<1>7. /\ v1.head = r.head /\ v1.tail = at /\ v1 \in Recording(r)!ArenaRecords
  <2>1. r.head \in Recording(r)!Addresses /\ at \in Recording(r)!Addresses
    BY <1>2 DEF Recording!Addresses
  <2> QED
    BY <1>4, <2>1 DEF Recording!Fields, Recording!ArenaRecords
<1>8. Recording(r)!NoUsage \in Counts(r)
  BY DEF Recording!NoUsage, Recording!Usage, Counts, Recording!Addresses
<1>9. RecordingTypes(r)
  <2>1. v2 \in [head: Recording(r)!Addresses, tail: Recording(r)!Addresses,
                used: Recording(r)!Addresses, count: Recording(r)!Addresses]
    <3>1. r.tail - v1.tail \in Nat /\ r.tail - v1.tail < r.space
      BY <1>2, <1>7
    <3>2. 1 < r.space
      BY <1>2, <1>3
    <3>3. /\ 0 \in Recording(r)!Addresses /\ r.allocator_size \in Recording(r)!Addresses
          /\ r.tail - v1.tail \in Recording(r)!Addresses /\ 1 \in Recording(r)!Addresses
      BY <3>1, <3>2 DEF Recording!Addresses
    <3> QED
      BY <1>5, <3>3
  <2> QED
    BY <1>6, <1>7, <1>8, <2>1 DEF RecordingTypes, Recording!TypeOK, Counts
<1>10. RecordingOrdered(r)
  BY <1>2, <1>3, <1>7 DEF RecordingOrdered
<1>11. RecordingBuckets(r)
  BY <1>6 DEF RecordingBuckets
<1>12. RecordingCounted(r)
  BY <1>2, <1>5, <1>7 DEF RecordingCounted, Recording!UsedIsOccupied
<1> QED
  BY <1>9, <1>10, <1>11, <1>12 DEF RecordingIInv

LEMMA StartBucketKeeps ==
  ASSUME NEW r, RecordsInto(r), RecordingIInv(r), NEW b \in r.buckets,
         Recording(r)!StartBucket(b)
  PROVE  RecordingIInv(r)'
<1>1. /\ v4 = Recording(r)!NoBucket /\ v4' = b
      /\ v5' = Recording(r)!SnapshotAllocationUsage /\ UNCHANGED <<v1, v2, v3, v6>>
  BY DEF Recording!StartBucket
<1>2. (Recording(r)!SnapshotAllocationUsage)' = Recording(r)!SnapshotAllocationUsage
  BY <1>1 DEF Recording!SnapshotAllocationUsage
<1>3. RecordingTypes(r)'
  BY <1>1, RecordingFields DEF RecordingIInv, RecordingTypes, Recording!TypeOK
<1>4. RecordingOrdered(r)' /\ (r.direct = {} => RecordingCounted(r)')
  BY <1>1 DEF RecordingIInv, RecordingOrdered, RecordingCounted, Recording!UsedIsOccupied
<1>5. RecordingBuckets(r)'
  <2> SUFFICES ASSUME NEW c \in r.buckets
               PROVE  IF c \in r.direct
                      THEN /\ v3'[c] = Recording(r)!NoUsage
                           /\ c = v4' => (Recording(r)!SnapshotAllocationUsage)' = v5'
                      ELSE v6'[c] = IF c = v4'
                                    THEN Recording(r)!Plus(v3'[c], Recording(r)!Minus(
                                           (Recording(r)!SnapshotAllocationUsage)', v5'))
                                    ELSE v3'[c]
    BY DEF RecordingBuckets
  <2>1. c # v4
    BY <1>1, RecordingConstants
  <2>2. CASE c \in r.direct
    BY <1>1, <1>2, <2>2 DEF RecordingIInv, RecordingBuckets
  <2>3. CASE c \notin r.direct
    <3>1. v6[c] = v3[c]
      BY <2>1, <2>3 DEF RecordingIInv, RecordingBuckets
    <3>2. Recording(r)!Plus(v3[c], Recording(r)!Minus(v5', v5')) = v3[c]
      <4>1. v3[c] \in Counts(r) /\ v5' \in Counts(r)
        BY <1>1, RecordingFields DEF RecordingIInv, RecordingTypes, Recording!TypeOK, Counts
      <4>2. Recording(r)!Minus(v5', v5') = Recording(r)!NoUsage
        <5>1. /\ v5'.requested - v5'.requested = 0 /\ v5'.used - v5'.used = 0
              /\ v5'.count - v5'.count = 0
          BY <4>1 DEF Counts, Recording!Addresses
        <5>2. Recording(r)!Wrapped(0) = 0
          BY RecordingConstants, RecordingWraps
        <5> QED
          BY <5>1, <5>2 DEF Recording!Minus, Recording!NoUsage, Recording!Usage
      <4>3. /\ v3[c] = [requested |-> v3[c].requested, used |-> v3[c].used,
                        count |-> v3[c].count]
            /\ v3[c].requested \in 0 .. r.space - 1 /\ v3[c].used \in 0 .. r.space - 1
            /\ v3[c].count \in 0 .. r.space - 1
        BY <4>1 DEF Counts, Recording!Addresses
      <4>4. \A x \in 0 .. r.space - 1 : Recording(r)!Wrapped(x + 0) = x
        BY RecordingConstants, RecordingWraps
      <4> QED
        BY <4>2, <4>3, <4>4 DEF Recording!Plus, Recording!NoUsage, Recording!Usage
    <3> QED
      BY <1>1, <1>2, <2>3, <3>1, <3>2
  <2> QED
    BY <2>2, <2>3
<1> QED
  BY <1>3, <1>4, <1>5 DEF RecordingIInv

\* A step between the ends of a bucket, or outside of one.
LEMMA AllocateKeeps ==
  ASSUME NEW r, RecordsInto(r), RecordingIInv(r), NEW size \in r.sizes,
         NEW alignment \in r.alignments, Recording(r)!Allocate(size, alignment)
  PROVE  RecordingIInv(r)'
<1> DEFINE at == Recording(r)!PersistentResult(v1, size, alignment)
           more == Recording(r)!Usage(size, v1.tail - v1'.tail, 1)
<1> USE RecordingConstants, RecordingFields
<1>1. /\ size \in Nat /\ size <= r.head /\ alignment \in Nat \ {0}
      /\ v4 \in r.buckets
  BY DEF RecordsInto, Recording!Allocate, RecordingIInv, RecordingTypes, Recording!TypeOK
<1>2. at \in Nat /\ at + size <= v1.tail
  BY <1>1, RecordingPersistent
<1>3. v1.head <= at
  BY DEF Recording!Allocate, Recording!CanAllocatePersistentBuffer
<1>4. /\ v1'.head = v1.head /\ v1'.tail = at
      /\ v1' = Recording(r)!Fields(v1.head, at, v1.temp, v1.count, v1.checkSum)
  BY DEF Recording!Allocate, Recording!AllocatePersistentBuffer, Recording!Fields
<1>5. /\ v2' = IF v4 \in r.direct THEN v2 ELSE Recording(r)!Counted(size, v1, v1')
      /\ v6' = [v6 EXCEPT ![v4] = Recording(r)!Plus(v6[v4], more)]
      /\ UNCHANGED <<v3, v4, v5>>
  BY DEF Recording!Allocate
<1> HIDE DEF at
<1>6. v1.tail - v1'.tail \in Nat /\ v1.tail - v1'.tail >= size
  BY <1>1, <1>2, <1>4
<1>7. RecordingOrdered(r)'
  BY <1>1, <1>2, <1>3, <1>4 DEF RecordingIInv, RecordingOrdered
<1>8. ASSUME v4 \notin r.direct
      PROVE  /\ v2'.head = v2.head /\ v2'.tail = Recording(r)!Wrapped(v2.tail + size)
             /\ v2'.used = Recording(r)!Wrapped(v2.used + v1.tail - v1'.tail)
             /\ v2'.count = Recording(r)!Wrapped(v2.count + 1)
             /\ v2' \in [head: Recording(r)!Addresses, tail: Recording(r)!Addresses,
                         used: Recording(r)!Addresses, count: Recording(r)!Addresses]
  <2>1. v2 \in [head: Recording(r)!Addresses, tail: Recording(r)!Addresses,
                used: Recording(r)!Addresses, count: Recording(r)!Addresses]
    BY DEF RecordingIInv, RecordingTypes, Recording!TypeOK
  <2>2. v2' = [head |-> v2.head, tail |-> Recording(r)!Wrapped(v2.tail + size),
               used |-> Recording(r)!Wrapped(v2.used + v1.tail - v1'.tail),
               count |-> Recording(r)!Wrapped(v2.count + 1)]
    BY <1>5, <1>8, <2>1 DEF Recording!Counted
  <2>3. /\ v2.tail + size \in Int /\ v2.used + v1.tail - v1'.tail \in Int
        /\ v2.count + 1 \in Int
    BY <1>1, <1>2, <1>4
  <2>4. /\ Recording(r)!Wrapped(v2.tail + size) \in Recording(r)!Addresses
        /\ Recording(r)!Wrapped(v2.used + v1.tail - v1'.tail) \in Recording(r)!Addresses
        /\ Recording(r)!Wrapped(v2.count + 1) \in Recording(r)!Addresses
    BY <2>3, RecordingWraps DEF Recording!Addresses
  <2> QED
    BY <2>1, <2>2, <2>4
<1>9. RecordingTypes(r)'
  <2>1. v1' \in Recording(r)!ArenaRecords
    <3>1. at \in Recording(r)!Addresses
      BY <1>1, <1>2 DEF Recording!Addresses
    <3> QED
      BY <1>4, <3>1 DEF RecordingIInv, RecordingTypes, Recording!TypeOK,
         Recording!ArenaRecords, Recording!Fields
  <2>2. v2' \in [head: Recording(r)!Addresses, tail: Recording(r)!Addresses,
                 used: Recording(r)!Addresses, count: Recording(r)!Addresses]
    <3>1. CASE v4 \in r.direct
      BY <1>5, <3>1 DEF RecordingIInv, RecordingTypes, Recording!TypeOK
    <3>2. CASE v4 \notin r.direct
      BY <1>8, <3>2
    <3> QED
      BY <3>1, <3>2
  <2>3. v6' \in [r.buckets -> Counts(r)]
    <3>1. v6 \in [r.buckets -> Counts(r)]
      BY DEF RecordingIInv, RecordingTypes
    <3>2. v6[v4] \in [requested: Int, used: Int, count: Int]
      BY <1>1, <3>1, CountsAreUsages
    <3>3. more \in [requested: Int, used: Int, count: Int]
      BY <1>1, <1>6 DEF Recording!Usage
    <3>4. Recording(r)!Plus(v6[v4], more) \in Counts(r)
      BY <3>2, <3>3, UsageTypes
    <3> QED
      BY <1>5, <3>1, <3>4
  <2> QED
    BY <1>5, <2>1, <2>2, <2>3 DEF RecordingIInv, RecordingTypes, Recording!TypeOK
<1>10. ASSUME r.direct = {} PROVE RecordingCounted(r)'
  <2>1. RecordingCounted(r) /\ v4 \notin r.direct
    BY <1>10 DEF RecordingIInv
  <2>2. /\ v2.used = (v1.head - r.head) + (r.tail - v1.tail)
        /\ v2.head <= v1.head - r.head /\ v2.tail <= r.tail - v1.tail
    BY <2>1 DEF RecordingCounted, Recording!UsedIsOccupied
  <2>3. r.head <= v1.head /\ v1.tail <= r.tail
    BY DEF RecordingIInv, RecordingOrdered
  <2>4. v2.tail + size \in 0 .. r.space - 1 /\ v2.tail + size <= r.tail - at
    BY <1>1, <1>2, <2>2, <2>3
  <2>5. /\ v2.used + v1.tail - v1'.tail = (v1.head - r.head) + (r.tail - at)
        /\ (v1.head - r.head) + (r.tail - at) \in 0 .. r.space - 1
    BY <1>1, <1>2, <1>3, <1>4, <2>2, <2>3
  <2>6. v2'.tail = v2.tail + size
    BY <1>8, <2>1, <2>4, RecordingWraps
  <2>7. v2'.used = (v1.head - r.head) + (r.tail - at)
    BY <1>8, <2>1, <2>5, RecordingWraps
  <2>8. v2'.head = v2.head
    BY <1>8, <2>1
  <2> QED
    BY <1>4, <2>2, <2>4, <2>6, <2>7, <2>8 DEF RecordingCounted, Recording!UsedIsOccupied
<1>11. RecordingBuckets(r)'
  <2> DEFINE before == Recording(r)!SnapshotAllocationUsage
             after == (Recording(r)!SnapshotAllocationUsage)'
  <2> SUFFICES ASSUME NEW c \in r.buckets
               PROVE  IF c \in r.direct
                      THEN /\ v3'[c] = Recording(r)!NoUsage
                           /\ c = v4' => after = v5'
                      ELSE v6'[c] = IF c = v4'
                                    THEN Recording(r)!Plus(v3'[c],
                                           Recording(r)!Minus(after, v5'))
                                    ELSE v3'[c]
    BY DEF RecordingBuckets
  <2>1. CASE c \in r.direct
    <3>1. c = v4 => after = before
      BY <1>5, <2>1 DEF Recording!SnapshotAllocationUsage
    <3> HIDE DEF after
    <3> QED
      BY <1>5, <2>1, <3>1 DEF RecordingIInv, RecordingBuckets
  <2>2. CASE c \notin r.direct /\ c # v4
    <3>1. v6'[c] = v6[c] /\ c # v4'
      BY <1>5, <2>2 DEF RecordingIInv, RecordingTypes
    <3> QED
      BY <1>5, <2>2, <3>1 DEF RecordingIInv, RecordingBuckets
  <2>3. CASE c \notin r.direct /\ c = v4
    <3>1. v6'[c] = Recording(r)!Plus(v6[c], more)
      BY <1>5, <2>3 DEF RecordingIInv, RecordingTypes
    <3>2. v6[c] = Recording(r)!Plus(v3[c], Recording(r)!Minus(before, v5))
      BY <2>3 DEF RecordingIInv, RecordingBuckets
    <3>3. /\ v3[c].requested \in Int /\ v3[c].used \in Int /\ v3[c].count \in Int
          /\ v5.requested \in Int /\ v5.used \in Int /\ v5.count \in Int
      BY DEF RecordingIInv, RecordingTypes, Recording!TypeOK, Counts, Recording!Addresses
    <3>4. /\ before.requested \in Int /\ before.used = v2.used /\ before.count = v2.count
          /\ before.requested = Recording(r)!Wrapped(v2.head + v2.tail)
      <4>1. v2.head + v2.tail \in Int
        OBVIOUS
      <4>2. Recording(r)!Wrapped(v2.head + v2.tail) \in Int
        BY <4>1, RecordingWraps
      <4> QED
        BY <4>2 DEF Recording!SnapshotAllocationUsage, Recording!Usage
    <3>5. /\ after.requested = Recording(r)!Wrapped(before.requested + size)
          /\ after.used = Recording(r)!Wrapped(before.used + (v1.tail - v1'.tail))
          /\ after.count = Recording(r)!Wrapped(before.count + 1)
      <4>1. /\ after.requested = Recording(r)!Wrapped(v2'.head + v2'.tail)
            /\ after.used = v2'.used /\ after.count = v2'.count
        BY DEF Recording!SnapshotAllocationUsage, Recording!Usage
      <4>2. Recording(r)!Wrapped(Recording(r)!Wrapped(v2.tail + size) + v2.head)
              = Recording(r)!Wrapped(v2.tail + size + v2.head)
        <5>1. v2.tail + size \in Int /\ v2.head \in Int /\ r.space \in Nat \ {0}
          BY <1>1
        <5> QED
          BY ONLY <5>1, RecordingWrapsOnce
      <4>3. Recording(r)!Wrapped(Recording(r)!Wrapped(v2.head + v2.tail) + size)
              = Recording(r)!Wrapped(v2.head + v2.tail + size)
        <5>1. v2.head + v2.tail \in Int /\ size \in Int /\ r.space \in Nat \ {0}
          BY <1>1
        <5> QED
          BY ONLY <5>1, RecordingWrapsOnce
      <4>4. /\ v2.tail + size + v2.head = v2.head + v2.tail + size
            /\ Recording(r)!Wrapped(v2.tail + size) + v2.head
                 = v2.head + Recording(r)!Wrapped(v2.tail + size)
            /\ v2.used + v1.tail - v1'.tail = v2.used + (v1.tail - v1'.tail)
        BY <1>1, <1>2, <1>4, RecordingWraps
      <4> QED
        BY <1>8, <2>3, <3>4, <4>1, <4>2, <4>3, <4>4
    <3> HIDE DEF before, after
    <3>6. /\ Recording(r)!Wrapped(v3[c].requested
                + Recording(r)!Wrapped(after.requested - v5.requested))
             = Recording(r)!Wrapped(Recording(r)!Wrapped(v3[c].requested
                + Recording(r)!Wrapped(before.requested - v5.requested)) + size)
          /\ Recording(r)!Wrapped(v3[c].used + Recording(r)!Wrapped(after.used - v5.used))
             = Recording(r)!Wrapped(Recording(r)!Wrapped(v3[c].used
                + Recording(r)!Wrapped(before.used - v5.used)) + (v1.tail - v1'.tail))
          /\ Recording(r)!Wrapped(v3[c].count + Recording(r)!Wrapped(after.count - v5.count))
             = Recording(r)!Wrapped(Recording(r)!Wrapped(v3[c].count
                + Recording(r)!Wrapped(before.count - v5.count)) + 1)
      BY <1>1, <1>6, <3>3, <3>4, <3>5, CountedArrives
    <3>7. Recording(r)!Plus(v3[c], Recording(r)!Minus(after, v5))
            = Recording(r)!Plus(v6[c], more)
      BY <3>2, <3>6 DEF Recording!Plus, Recording!Minus, Recording!Usage
    <3> QED
      BY <1>5, <2>3, <3>1, <3>7
  <2> QED
    BY <2>1, <2>2, <2>3
<1> QED
  BY <1>7, <1>9, <1>10, <1>11 DEF RecordingIInv

LEMMA RecordUsageKeeps ==
  ASSUME NEW r, RecordsInto(r), RecordingIInv(r), Recording(r)!RecordAllocationUsage
  PROVE  RecordingIInv(r)'
<1> DEFINE now == Recording(r)!SnapshotAllocationUsage
           sum == Recording(r)!Plus(v3[v4], Recording(r)!Minus(now, v5))
<1> USE RecordingConstants, RecordingFields
<1>1. /\ v4 \in r.buckets /\ v4' = Recording(r)!NoBucket
      /\ v3' = [v3 EXCEPT ![v4] = sum] /\ UNCHANGED <<v1, v2, v5, v6>>
  BY DEF Recording!RecordAllocationUsage, RecordingIInv, RecordingTypes, Recording!TypeOK
<1>2. v3 \in [r.buckets -> Counts(r)] /\ v5 \in Counts(r)
  BY DEF RecordingIInv, RecordingTypes, Recording!TypeOK, Counts
<1>3. Recording(r)!Minus(now, v5) \in Counts(r)
  BY <1>2, CountsAreUsages, UsageTypes
<1>4. sum \in Counts(r)
  BY <1>1, <1>2, <1>3, CountsAreUsages, UsageTypes
<1>5. RecordingTypes(r)'
  <2>1. v3' \in [r.buckets -> Counts(r)]
    BY <1>1, <1>2, <1>4
  <2> QED
    BY <1>1, <2>1 DEF RecordingIInv, RecordingTypes, Recording!TypeOK, Counts
<1>6. RecordingOrdered(r)' /\ (r.direct = {} => RecordingCounted(r)')
  BY <1>1 DEF RecordingIInv, RecordingOrdered, RecordingCounted, Recording!UsedIsOccupied
<1>7. RecordingBuckets(r)'
  <2> SUFFICES ASSUME NEW c \in r.buckets
               PROVE  IF c \in r.direct THEN v3'[c] = Recording(r)!NoUsage
                                        ELSE v6'[c] = v3'[c]
    BY <1>1 DEF RecordingBuckets
  <2>1. CASE c # v4
    BY <1>1, <1>2, <2>1 DEF RecordingIInv, RecordingBuckets
  <2>2. CASE c = v4 /\ c \notin r.direct
    BY <1>1, <1>2, <2>2 DEF RecordingIInv, RecordingBuckets
  <2>3. CASE c = v4 /\ c \in r.direct
    <3>1. v3[c] = Recording(r)!NoUsage /\ now = v5
      BY <2>3 DEF RecordingIInv, RecordingBuckets
    <3>2. /\ v5.requested - v5.requested = 0 /\ v5.used - v5.used = 0
          /\ v5.count - v5.count = 0
      BY <1>2 DEF Counts, Recording!Addresses
    <3>3. Recording(r)!Wrapped(0) = 0 /\ Recording(r)!Wrapped(0 + 0) = 0
      BY RecordingWraps
    <3>4. Recording(r)!Minus(v5, v5) = Recording(r)!NoUsage
      BY <3>2, <3>3 DEF Recording!Minus, Recording!NoUsage, Recording!Usage
    <3>5. Recording(r)!Plus(Recording(r)!NoUsage, Recording(r)!NoUsage) = Recording(r)!NoUsage
      BY <3>3 DEF Recording!Plus, Recording!NoUsage, Recording!Usage
    <3> QED
      BY <1>1, <1>2, <2>3, <3>1, <3>4, <3>5
  <2> QED
    BY <2>1, <2>2, <2>3
<1> QED
  BY <1>5, <1>6, <1>7 DEF RecordingIInv

LEMMA RecordingHeadKeeps ==
  ASSUME NEW r, RecordsInto(r), RecordingIInv(r), NEW size \in r.head_sizes,
         NEW alignment \in r.alignments,
         \/ Recording(r)!ResizeRecorded(size, alignment)
         \/ Recording(r)!ResizeDirect(size, alignment)
  PROVE  RecordingIInv(r)'
<1> USE RecordingConstants, RecordingFields
<1>1. /\ size \in Nat /\ Recording(r)!AlignPointerUp(r.head, alignment) = r.head
  BY DEF RecordsInto
<1>2. /\ v4 = Recording(r)!NoBucket /\ Recording(r)!CanSetHeadSection(v1, size, alignment)
      /\ v1' = Recording(r)!ResizeBuffer(v1, size, alignment)
      /\ UNCHANGED <<v3, v4, v5, v6>>
  BY DEF Recording!ResizeRecorded, Recording!ResizeDirect
<1>3. Recording(r)!Wrapped(v1.tail - r.head) >= size
  BY <1>1, <1>2 DEF Recording!CanSetHeadSection, Recording!CanResizeBuffer
<1>4. v1.tail - r.head >= size
  <2>1. v1.tail - r.head \in 0 .. r.space - 1
    OBVIOUS
  <2> QED
    BY <1>3, <2>1, RecordingWraps
<1>5. Recording(r)!Wrapped(r.head + size) = r.head + size
  <2>1. r.head + size \in 0 .. r.space - 1
    BY <1>1, <1>4
  <2> QED
    BY <2>1, RecordingWraps
<1>6. v1' = Recording(r)!Fields(r.head + size, v1.tail, r.head + size, v1.count, v1.checkSum)
  BY <1>1, <1>2, <1>5 DEF Recording!ResizeBuffer
<1>7. /\ v1'.head = r.head + size /\ v1'.tail = v1.tail
      /\ v1' \in Recording(r)!ArenaRecords
  <2>1. r.head + size \in Recording(r)!Addresses
    BY <1>1, <1>4 DEF Recording!Addresses
  <2> QED
    BY <1>6, <2>1 DEF RecordingIInv, RecordingTypes, Recording!TypeOK,
       Recording!ArenaRecords, Recording!Fields
<1>8. RecordingOrdered(r)'
  BY <1>1, <1>4, <1>7 DEF RecordingIInv, RecordingOrdered
<1>9. RecordingBuckets(r)'
  BY <1>2 DEF RecordingIInv, RecordingBuckets
<1>10. v2 \in [head: Recording(r)!Addresses, tail: Recording(r)!Addresses,
               used: Recording(r)!Addresses, count: Recording(r)!Addresses]
  BY DEF RecordingIInv, RecordingTypes, Recording!TypeOK
<1>11. CASE Recording(r)!ResizeDirect(size, alignment)
  <2>1. v2' = v2 /\ r.direct # {}
    BY <1>11 DEF Recording!ResizeDirect
  <2>2. RecordingTypes(r)'
    BY <1>2, <1>7, <1>10, <2>1 DEF RecordingIInv, RecordingTypes, Recording!TypeOK
  <2> QED
    BY <1>8, <1>9, <2>1, <2>2 DEF RecordingIInv
<1>12. CASE Recording(r)!ResizeRecorded(size, alignment)
  <2>1. v2' = [v2 EXCEPT !.used = Recording(r)!Wrapped(v2.used + v1'.head - v1.head),
                         !.head = size]
    BY <1>12 DEF Recording!ResizeRecorded
  <2>2. /\ v2'.tail = v2.tail /\ v2'.head = size
        /\ v2'.used = Recording(r)!Wrapped(v2.used + v1'.head - v1.head)
    BY <1>10, <2>1
  <2>3. RecordingTypes(r)'
    <3>1. Recording(r)!Wrapped(v2.used + v1'.head - v1.head) \in Recording(r)!Addresses
      <4>1. v2.used + v1'.head - v1.head \in Int
        BY <1>1, <1>7
      <4> QED
        BY <4>1, RecordingWraps DEF Recording!Addresses
    <3>2. size \in Recording(r)!Addresses
      BY <1>1, <1>4 DEF Recording!Addresses
    <3> QED
      BY <1>2, <1>7, <1>10, <2>1, <3>1, <3>2
      DEF RecordingIInv, RecordingTypes, Recording!TypeOK
  <2>4. ASSUME r.direct = {} PROVE RecordingCounted(r)'
    <3>1. /\ v2.used = (v1.head - r.head) + (r.tail - v1.tail)
          /\ v2.tail <= r.tail - v1.tail
      BY <2>4 DEF RecordingIInv, RecordingCounted, Recording!UsedIsOccupied
    <3>2. /\ v2.used + v1'.head - v1.head = size + (r.tail - v1.tail)
          /\ size + (r.tail - v1.tail) \in 0 .. r.space - 1
      <4>1. v1.tail <= r.tail
        BY DEF RecordingIInv, RecordingOrdered
      <4> QED
        BY <1>1, <1>4, <1>7, <3>1, <4>1
    <3>3. v2'.used = size + (r.tail - v1.tail)
      BY <2>2, <3>2, RecordingWraps
    <3> QED
      BY <1>1, <1>7, <2>2, <3>1, <3>3 DEF RecordingCounted, Recording!UsedIsOccupied
  <2> QED
    BY <1>8, <1>9, <2>3, <2>4 DEF RecordingIInv
<1> QED
  BY <1>11, <1>12

LEMMA RecordingKeeps ==
  ASSUME NEW r, RecordsInto(r), RecordingIInv(r), Recording(r)!Next
  PROVE  RecordingIInv(r)'
<1>1. ASSUME NEW b \in r.buckets, Recording(r)!StartBucket(b) PROVE RecordingIInv(r)'
  BY <1>1, StartBucketKeeps
<1>2. ASSUME NEW size \in r.sizes, NEW alignment \in r.alignments,
             Recording(r)!Allocate(size, alignment)
      PROVE  RecordingIInv(r)'
  BY <1>2, AllocateKeeps
<1>3. ASSUME NEW size \in r.head_sizes, NEW alignment \in r.alignments,
             \/ Recording(r)!ResizeRecorded(size, alignment)
             \/ Recording(r)!ResizeDirect(size, alignment)
      PROVE  RecordingIInv(r)'
  BY <1>3, RecordingHeadKeeps
<1> QED
  BY <1>1, <1>2, <1>3, RecordUsageKeeps DEF Recording!Next

\* All that is checked of an allocator that records.
LEMMA RecordingRight ==
  ASSUME NEW r, RecordsInto(r), RecordingIInv(r)
  PROVE  /\ Recording(r)!TypeOK /\ Recording(r)!CountedBucketsRight
         /\ r.direct = {} => /\ Recording(r)!UsedIsOccupied
                             /\ Recording(r)!RequestedAtMostUsed
                             /\ Recording(r)!BucketsRight
<1> USE RecordingConstants, RecordingFields
<1>1. Recording(r)!TypeOK
  BY DEF RecordingIInv, RecordingTypes
<1>2. Recording(r)!CountedBucketsRight
  BY DEF RecordingIInv, RecordingBuckets, Recording!CountedBucketsRight
<1>3. ASSUME r.direct = {}
      PROVE  Recording(r)!UsedIsOccupied /\ Recording(r)!RequestedAtMostUsed
  BY <1>3 DEF RecordingIInv, RecordingCounted, Recording!UsedIsOccupied,
     Recording!RequestedAtMostUsed
<1>4. ASSUME r.direct = {} PROVE Recording(r)!BucketsRight
  <2> SUFFICES ASSUME v4 = Recording(r)!NoBucket PROVE v3 = v6
    BY DEF Recording!BucketsRight
  <2>1. \A b \in r.buckets : v3[b] = v6[b]
    BY <1>4 DEF RecordingIInv, RecordingBuckets
  <2>2. v3 \in [r.buckets -> Counts(r)] /\ v6 \in [r.buckets -> Counts(r)]
    BY DEF RecordingIInv, RecordingTypes, Recording!TypeOK, Counts
  <2> QED
    BY <2>1, <2>2
<1> QED
  BY <1>1, <1>2, <1>3, <1>4

-----------------------------------------------------------------------------
(* The simple planners.  kind is v1, buffer_offsets_ v2, next_free_offset_    *)
(* v3, buffer_plan_ v4, buffer_request_count_ v5, pc v6, models v7, buffers   *)
(* v8, plan v9 and head_usage v10.                                            *)

LEMMA PlannersConstants ==
  /\ PlannedModels.max_count \in Nat
  /\ \A b \in PlannedModels.requirements : b.size \in Nat
  /\ \A plan \in DOMAIN PlannedModels.made_for :
       /\ plan \in Seq(Nat) /\ Len(MadeFor(plan)) = Len(plan)
       /\ Planners!Promise!Sound(MadeFor(plan), plan)
BY PlannersAssumption

LEMMA PlannersInit == Planners!Init => PlannersIInv
<1> SUFFICES ASSUME Planners!Init PROVE PlannersIInv
  OBVIOUS
<1>1. /\ v1 \in {"linear", "shim"} /\ v2 = << >> /\ v3 = 0
      /\ v4 \in (IF v1 = "shim" THEN DOMAIN PlannedModels.made_for ELSE {<< >>})
      /\ v5 = 0 /\ v6 = "idle" /\ v7 = 0 /\ v8 = << >> /\ v9 = Planners!NoPlan /\ v10 = 0
  BY DEF Planners!Init
<1>2. Len(<< >>) = 0 /\ DOMAIN << >> = {}
  OBVIOUS
<1>3. v2 \in Seq(Nat) /\ v8 \in Seq(PlannedModels.requirements)
  BY <1>1
<1>4. PlannersTypes
  BY <1>1, <1>2, <1>3, PlannersConstants DEF PlannersTypes
<1>5. OneModel
  BY <1>1, <1>2 DEF OneModel
<1>6. v1 = "linear" => BehindOneAnother
  BY <1>1, <1>2 DEF BehindOneAnother
<1>7. v1 = "shim" => AsPlanned
  <2> SUFFICES ASSUME v1 = "shim" PROVE AsPlanned
    OBVIOUS
  <2>1. v4 \in DOMAIN PlannedModels.made_for
    BY <1>1
  <2>2. Len(v4) \in Nat
    BY <2>1, PlannersConstants, LenProperties
  <2> QED
    BY <1>1, <1>2, <2>1, <2>2 DEF AsPlanned
<1> QED
  BY <1>4, <1>5, <1>6, <1>7 DEF PlannersIInv

LEMMA StartModelKeeps ==
  ASSUME PlannersIInv, Planners!StartModel
  PROVE  PlannersIInv'
<1>1. /\ v6 \in {"idle", "done"} /\ v7 < 1 /\ v6' = "adding" /\ v7' = v7 + 1
      /\ v8' = << >> /\ v9' = Planners!NoPlan /\ UNCHANGED <<v1, v2, v3, v4, v5, v10>>
  BY DEF Planners!StartModel, Planners!linearVars, Planners!shimVars
<1>2. v7 = 0 /\ v6 = "idle" /\ v2 = << >> /\ v5 = 0 /\ v8 = << >>
  BY <1>1 DEF PlannersIInv, PlannersTypes, OneModel
<1>3. PlannersTypes'
  BY <1>1, <1>2 DEF PlannersIInv, PlannersTypes
<1>4. OneModel'
  BY <1>1, <1>2 DEF OneModel
<1>5. (v1' = "linear" => BehindOneAnother') /\ (v1' = "shim" => AsPlanned')
  BY <1>1, <1>2 DEF PlannersIInv, BehindOneAnother, AsPlanned
<1> QED
  BY <1>3, <1>4, <1>5 DEF PlannersIInv

\* The step adds a buffer or refuses it.
LEMMA AddBufferSplit ==
  ASSUME PlannersIInv, Planners!AddBuffer
  PROVE  \E b \in PlannedModels.requirements :
           /\ v6 = "adding" /\ Planners!MayAdd(b)
           /\ b.offline_offset = Planners!kOnlinePlannedBuffer
           /\ UNCHANGED <<v1, v4, v7, v9, v10>>
           /\ \/ /\ v6' = "refused" /\ UNCHANGED <<v2, v3, v8>>
                 /\ v5' = v5 \/ v5' = v5 + 1
              \/ /\ v1 = "linear" /\ v6' = v6 /\ v8' = Append(v8, b)
                 /\ v2' = Append(v2, v3) /\ v3' = v3 + b.size /\ v5' = v5
                 /\ Len(v2) < PlannedModels.max_count
              \/ /\ v1 = "shim" /\ v6' = v6 /\ v8' = Append(v8, b)
                 /\ v5' = v5 + 1 /\ v5 + 1 <= Len(v4) /\ UNCHANGED <<v2, v3>>
<1>1. PICK b \in PlannedModels.requirements :
        /\ Planners!MayAdd(b)
        /\ b.offline_offset = Planners!kOnlinePlannedBuffer
        /\ IF v1 = "linear"
           THEN /\ UNCHANGED <<v4, v5>>
                /\ IF Planners!LinearFull
                   THEN v6' = "refused" /\ UNCHANGED <<v2, v3, v8>>
                   ELSE Planners!LinearAdd(b) /\ v8' = Append(v8, b) /\ v6' = v6
           ELSE /\ v5' = v5 + 1 /\ UNCHANGED <<v2, v3, v4>>
                /\ IF Planners!ShimFull THEN v6' = "refused" /\ UNCHANGED v8
                   ELSE v8' = Append(v8, b) /\ v6' = v6
  BY DEF Planners!AddBuffer, Planners!linearVars, Planners!shimVars
<1>2. v6 = "adding" /\ UNCHANGED <<v1, v7, v9, v10>>
  BY DEF Planners!AddBuffer
<1>3. CASE v1 = "linear"
  <2>1. Len(v2) \in Nat
    BY LenProperties DEF PlannersIInv, PlannersTypes
  <2> QED
    BY <1>1, <1>2, <1>3, <2>1, PlannersConstants DEF Planners!LinearFull, Planners!LinearAdd
<1>4. CASE v1 = "shim"
  <2>1. Len(v4) \in Nat /\ v5 \in Nat
    BY <1>4, PlannersConstants, LenProperties DEF PlannersIInv, PlannersTypes, AsPlanned
  <2> QED
    BY <1>1, <1>2, <1>4, <2>1 DEF Planners!ShimFull
<1> QED
  BY <1>3, <1>4 DEF PlannersIInv, PlannersTypes

LEMMA AddBufferKeeps ==
  ASSUME PlannersIInv, Planners!AddBuffer
  PROVE  PlannersIInv'
<1>1. PICK b \in PlannedModels.requirements :
           /\ v6 = "adding" /\ Planners!MayAdd(b)
           /\ b.offline_offset = Planners!kOnlinePlannedBuffer
           /\ UNCHANGED <<v1, v4, v7, v9, v10>>
           /\ \/ /\ v6' = "refused" /\ UNCHANGED <<v2, v3, v8>>
                 /\ v5' = v5 \/ v5' = v5 + 1
              \/ /\ v1 = "linear" /\ v6' = v6 /\ v8' = Append(v8, b)
                 /\ v2' = Append(v2, v3) /\ v3' = v3 + b.size /\ v5' = v5
                 /\ Len(v2) < PlannedModels.max_count
              \/ /\ v1 = "shim" /\ v6' = v6 /\ v8' = Append(v8, b)
                 /\ v5' = v5 + 1 /\ v5 + 1 <= Len(v4) /\ UNCHANGED <<v2, v3>>
  BY AddBufferSplit
<1>2. /\ v2 \in Seq(Nat) /\ v3 \in Nat /\ v5 \in Nat /\ b.size \in Nat
      /\ v8 \in Seq(PlannedModels.requirements)
      /\ Len(v2) \in Nat /\ Len(v8) \in Nat /\ DOMAIN v8 = 1 .. Len(v8)
      /\ DOMAIN v2 = 1 .. Len(v2)
  BY PlannersConstants, LenProperties DEF PlannersIInv, PlannersTypes
<1>3. CASE v6' = "refused" /\ UNCHANGED <<v2, v3, v8>> /\ (v5' = v5 \/ v5' = v5 + 1)
  <2>1. PlannersTypes' /\ OneModel'
    BY <1>1, <1>2, <1>3 DEF PlannersIInv, PlannersTypes, OneModel
  <2>2. (v1' = "linear" => BehindOneAnother') /\ (v1' = "shim" => AsPlanned')
    BY <1>1, <1>3 DEF PlannersIInv, BehindOneAnother, AsPlanned
  <2> QED
    BY <2>1, <2>2 DEF PlannersIInv
<1> DEFINE added == Append(v8, b)
<1>4. /\ added \in Seq(PlannedModels.requirements) /\ Len(added) = Len(v8) + 1
      /\ DOMAIN added = 1 .. Len(v8) + 1 /\ added[Len(v8) + 1] = b
      /\ \A i \in 1 .. Len(v8) : added[i] = v8[i]
  BY <1>2, AppendProperties, LenProperties
<1> HIDE DEF added
<1>5. ASSUME v8' = added, v6' = v6
      PROVE  OneModel'
  BY <1>1, <1>2, <1>4, <1>5 DEF PlannersIInv, OneModel
<1>6. CASE /\ v1 = "linear" /\ v6' = v6 /\ v8' = added
           /\ v2' = Append(v2, v3) /\ v3' = v3 + b.size /\ v5' = v5
           /\ Len(v2) < PlannedModels.max_count
  <2>1. /\ v2' \in Seq(Nat) /\ Len(v2') = Len(v2) + 1 /\ v2'[Len(v2) + 1] = v3
        /\ \A i \in 1 .. Len(v2) : v2'[i] = v2[i]
    BY <1>2, <1>6, AppendProperties
  <2>2. PlannersTypes'
    BY <1>1, <1>2, <1>4, <1>6, <2>1, PlannersConstants DEF PlannersIInv, PlannersTypes
  <2>3. BehindOneAnother
    BY <1>6 DEF PlannersIInv
  <2>4. \A i \in 1 .. Len(v8) : v2[i] \in Nat /\ v8[i].size \in Nat
    BY <1>2, <2>3, PlannersConstants, ElementOfSeq DEF BehindOneAnother
  <2>5. BehindOneAnother'
    <3>1. ASSUME NEW i \in 1 .. Len(v8) + 1 PROVE v2'[i] + added[i].size <= v3'
      <4>1. CASE i \in 1 .. Len(v8)
        <5>1. v2'[i] = v2[i] /\ added[i] = v8[i] /\ v2[i] + v8[i].size <= v3
          BY <1>2, <1>4, <2>1, <2>3, <4>1 DEF BehindOneAnother
        <5>2. v2[i] \in Nat /\ v8[i].size \in Nat
          BY <2>4, <4>1
        <5> QED
          BY <1>2, <1>6, <5>1, <5>2, SMTT(60)
      <4>2. CASE i = Len(v8) + 1
        BY <1>2, <1>4, <1>6, <2>1, <2>3, <4>2 DEF BehindOneAnother
      <4> QED
        BY <1>2, <4>1, <4>2
    <3>2. ASSUME NEW i \in 1 .. Len(v8) + 1, NEW j \in 1 .. Len(v8) + 1, i < j
          PROVE  v2'[i] + added[i].size <= v2'[j]
      <4>1. i \in 1 .. Len(v8)
        BY <1>2, <3>2
      <4>2. CASE j \in 1 .. Len(v8)
        BY <1>2, <1>4, <2>1, <2>3, <3>2, <4>1, <4>2 DEF BehindOneAnother
      <4>3. CASE j = Len(v8) + 1
        BY <1>2, <1>4, <2>1, <2>3, <4>1, <4>3 DEF BehindOneAnother
      <4> QED
        BY <1>2, <4>2, <4>3
    <3>3. Len(v2') = Len(v8')
      BY <1>4, <1>6, <2>1, <2>3 DEF BehindOneAnother
    <3> QED
      BY <1>4, <1>6, <3>1, <3>2, <3>3 DEF BehindOneAnother
  <2> QED
    BY <1>1, <1>5, <1>6, <2>2, <2>5 DEF PlannersIInv
<1>7. CASE /\ v1 = "shim" /\ v6' = v6 /\ v8' = added
           /\ v5' = v5 + 1 /\ v5 + 1 <= Len(v4) /\ UNCHANGED <<v2, v3>>
  <2>1. PlannersTypes'
    BY <1>1, <1>2, <1>4, <1>7 DEF PlannersIInv, PlannersTypes
  <2>2. AsPlanned /\ v5 = Len(v8)
    BY <1>1, <1>7 DEF PlannersIInv, AsPlanned
  <2>3. Len(MadeFor(v4)) = Len(v4) /\ Len(v4) \in Nat
    BY <2>2, PlannersConstants, LenProperties DEF AsPlanned
  <2>4. b = MadeFor(v4)[Len(v8) + 1]
    BY <1>1, <1>2, <1>7, <2>2, <2>3 DEF Planners!MayAdd
  <2>5. AsPlanned'
    <3>1. \A i \in 1 .. Len(v8) + 1 : added[i] = MadeFor(v4)[i]
      BY <1>2, <1>4, <2>2, <2>4 DEF AsPlanned
    <3> QED
      BY <1>1, <1>2, <1>4, <1>7, <2>2, <2>3, <3>1 DEF AsPlanned
  <2> QED
    BY <1>1, <1>5, <1>7, <2>1, <2>5 DEF PlannersIInv
<1> QED
  BY <1>1, <1>3, <1>6, <1>7 DEF added

LEMMA AddOfflineBufferKeeps ==
  ASSUME PlannersIInv, Planners!AddOfflineBuffer
  PROVE  PlannersIInv'
<1>1. /\ v6 = "adding" /\ v6' = "refused" /\ UNCHANGED <<v1, v2, v3, v4, v5, v7, v8, v9, v10>>
  BY DEF Planners!AddOfflineBuffer, Planners!linearVars, Planners!shimVars
<1> QED
  BY <1>1 DEF PlannersIInv, PlannersTypes, OneModel, BehindOneAnother, AsPlanned

LEMMA CommitPlanKeeps ==
  ASSUME PlannersIInv, Planners!CommitPlan
  PROVE  PlannersIInv'
<1>1. /\ v6 = "adding" /\ UNCHANGED <<v1, v2, v3, v4, v5, v7, v8>>
      /\ \/ v6' = "refused" /\ UNCHANGED <<v9, v10>>
         \/ /\ v6' = "done" /\ v9' = Planners!Committed
            /\ v10' \in Planners!MaximumRead
  BY DEF Planners!CommitPlan, Planners!linearVars, Planners!shimVars
<1>2. v10' \in Nat
  BY <1>1 DEF PlannersIInv, PlannersTypes, Planners!MaximumRead,
     Planners!GetMaximumMemorySize
<1>3. Planners!Committed' = Planners!Committed
  BY <1>1 DEF Planners!Committed, Planners!GetOffsetForBuffer
<1>4. PlannersTypes'
  BY <1>1, <1>2 DEF PlannersIInv, PlannersTypes
<1>5. OneModel'
  BY <1>1, <1>3 DEF PlannersIInv, OneModel
<1>6. (v1' = "linear" => BehindOneAnother') /\ (v1' = "shim" => AsPlanned')
  BY <1>1 DEF PlannersIInv, BehindOneAnother, AsPlanned
<1> QED
  BY <1>4, <1>5, <1>6 DEF PlannersIInv

LEMMA PlannersKeeps == PlannersIInv /\ Planners!Next => PlannersIInv'
BY StartModelKeeps, AddBufferKeeps, AddOfflineBufferKeeps, CommitPlanKeeps DEF Planners!Next

\* What the linear planner commits, by buffer.
LEMMA LinearCommitted ==
  ASSUME PlannersIInv, v1 = "linear"
  PROVE  /\ DOMAIN v8 = 1 .. Len(v8) /\ Len(v8) \in Nat
         /\ Planners!Committed = [i \in 1 .. Len(v8) |-> v2[i]]
         /\ \A i \in 1 .. Len(v8) : v2[i] \in Nat /\ v8[i].size \in Nat
<1>1. /\ v2 \in Seq(Nat) /\ v8 \in Seq(PlannedModels.requirements) /\ Len(v2) = Len(v8)
  BY DEF PlannersIInv, PlannersTypes, BehindOneAnother
<1>2. /\ DOMAIN v8 = 1 .. Len(v8) /\ DOMAIN v2 = 1 .. Len(v8) /\ Len(v8) \in Nat
  BY <1>1, LenProperties
<1>3. \A i \in 1 .. Len(v8) : v2[i] \in Nat /\ v8[i].size \in Nat
  BY <1>1, <1>2, PlannersConstants, ElementOfSeq
<1>4. Planners!Committed = [i \in 1 .. Len(v8) |-> v2[i]]
  BY <1>2 DEF Planners!Committed, Planners!GetOffsetForBuffer
<1> QED
  BY <1>2, <1>3, <1>4

LEMMA PlannersRight ==
  ASSUME PlannersIInv
  PROVE  Planners!TypeOK /\ Planners!TensorsPreserved
<1>1. Planners!TypeOK
  BY DEF PlannersIInv, PlannersTypes, Planners!TypeOK
<1>2. Planners!TensorsPreserved
  <2> SUFFICES ASSUME v1 = "linear", v6 = "done"
               PROVE  /\ \A i, j \in DOMAIN v8 :
                           i # j => \/ v9[i] + v8[i].size <= v9[j]
                                    \/ v9[j] + v8[j].size <= v9[i]
                      /\ \A i \in DOMAIN v8 : v9[i] + v8[i].size <= v3
    BY DEF Planners!TensorsPreserved, Planners!Ends, Planners!GetMaximumMemorySize
  <2>1. \A i \in DOMAIN v8 : v9[i] = v2[i]
    BY LinearCommitted DEF PlannersIInv, OneModel
  <2>2. BehindOneAnother
    BY DEF PlannersIInv
  <2>3. ASSUME NEW i \in DOMAIN v8, NEW j \in DOMAIN v8, i # j
        PROVE  v2[i] + v8[i].size <= v2[j] \/ v2[j] + v8[j].size <= v2[i]
    <3>1. i < j \/ j < i
      BY <2>3, LinearCommitted
    <3> QED
      BY <2>2, <3>1 DEF BehindOneAnother
  <2> QED
    BY <2>1, <2>2, <2>3 DEF BehindOneAnother
<1> QED
  BY <1>1, <1>2

\* The plan that is committed is sound for the buffers.
LEMMA CommittedSound ==
  ASSUME PlannersIInv,
         \A i \in DOMAIN v8 : Planners!Committed[i] # Planners!kOnlinePlannedBuffer
  PROVE  Planners!Promise!Sound(v8, Planners!Committed)
<1> DEFINE p == Planners!Committed
<1>1. /\ v8 \in Seq(PlannedModels.requirements) /\ DOMAIN v8 = 1 .. Len(v8)
      /\ Len(v8) \in Nat
  BY LenProperties DEF PlannersIInv, PlannersTypes
<1>2. \A i \in 1 .. Len(v8) : Planners!Promise!Online(v8[i])
  BY <1>1 DEF PlannersIInv, OneModel, Planners!Promise!Online,
     Planners!Promise!kOnlinePlannedBuffer, Planners!kOnlinePlannedBuffer
<1>3. CASE v1 = "linear"
  <2>1. p = [i \in 1 .. Len(v8) |-> v2[i]]
    BY <1>3, LinearCommitted
  <2>2. p \in [1 .. Len(v8) -> Nat]
    BY <1>3, <2>1, LinearCommitted
  <2>3. ASSUME NEW i \in 1 .. Len(v8), NEW j \in 1 .. Len(v8), i # j
        PROVE  p[i] + v8[i].size <= p[j] \/ p[j] + v8[j].size <= p[i]
    <3>1. BehindOneAnother /\ (i < j \/ j < i)
      BY <1>3, <2>3 DEF PlannersIInv
    <3> QED
      BY <1>1, <2>1, <3>1 DEF BehindOneAnother
  <2> HIDE DEF p
  <2>4. Planners!Promise!Sound(v8, p)
    BY <1>2, <2>2, <2>3 DEF Planners!Promise!Sound
  <2> QED
    BY <2>4 DEF p
<1>4. CASE v1 = "shim"
  <2>1. AsPlanned
    BY <1>4 DEF PlannersIInv
  <2>2. /\ v4 \in Seq(Nat) /\ Len(MadeFor(v4)) = Len(v4)
        /\ Planners!Promise!Sound(MadeFor(v4), v4)
    BY <2>1, PlannersConstants DEF AsPlanned
  <2>3. Len(v4) \in Nat /\ DOMAIN v4 = 1 .. Len(v4)
    BY <2>2, LenProperties
  <2>4. p = [i \in 1 .. Len(v8) |-> v4[i]]
    BY <1>1, <1>4, <2>1, <2>3
    DEF Planners!Committed, Planners!GetOffsetForBuffer, AsPlanned
  <2>5. p \in [1 .. Len(v8) -> Nat]
    BY <1>1, <2>1, <2>2, <2>3, <2>4, ElementOfSeq DEF AsPlanned
  <2>6. ASSUME NEW i \in 1 .. Len(v8), NEW j \in 1 .. Len(v8), i # j,
               Planners!Promise!InUseTogether(v8[i], v8[j])
        PROVE  p[i] + v8[i].size <= p[j] \/ p[j] + v8[j].size <= p[i]
    <3>1. /\ i \in 1 .. Len(MadeFor(v4)) /\ j \in 1 .. Len(MadeFor(v4))
          /\ v8[i] = MadeFor(v4)[i] /\ v8[j] = MadeFor(v4)[j]
          /\ p[i] = v4[i] /\ p[j] = v4[j]
      BY <1>1, <2>1, <2>2, <2>3, <2>4 DEF AsPlanned
    <3>2. Planners!Promise!Online(v8[i])
      BY <1>2
    <3>3. /\ Planners!Promise!InUseTogether(MadeFor(v4)[i], MadeFor(v4)[j])
          /\ Planners!Promise!Online(MadeFor(v4)[i])
      BY <2>6, <3>1, <3>2
    <3>4. \/ v4[i] + MadeFor(v4)[i].size <= v4[j]
          \/ v4[j] + MadeFor(v4)[j].size <= v4[i]
      BY <2>2, <2>6, <3>1, <3>3 DEF Planners!Promise!Sound
    <3> QED
      BY <3>1, <3>4
  <2> HIDE DEF p
  <2>7. Planners!Promise!Sound(v8, p)
    BY <1>2, <2>5, <2>6 DEF Planners!Promise!Sound
  <2> QED
    BY <2>7 DEF p
<1> QED
  BY <1>3, <1>4 DEF PlannersIInv, PlannersTypes

\* Every step keeps the promise of the planner interface.
LEMMA PlannersRefine == PlannersIInv /\ Planners!Next => Planners!KeepsPlan
<1> SUFFICES ASSUME PlannersIInv, Planners!Next
             PROVE  Planners!Promise!Next \/ UNCHANGED <<v8, v9>>
  BY DEF Planners!KeepsPlan
<1>1. Planners!NoPlan = Planners!Promise!NoPlan
  BY DEF Planners!NoPlan, Planners!Promise!NoPlan, Planners!kOnlinePlannedBuffer,
     Planners!Promise!kOnlinePlannedBuffer
<1>2. CASE Planners!StartModel
  BY <1>1, <1>2 DEF Planners!StartModel, Planners!Promise!Next, Planners!Promise!Start
<1>3. CASE Planners!AddBuffer
  <2>1. PICK b \in PlannedModels.requirements :
          /\ v6 = "adding" /\ v9' = v9
          /\ v8' = v8 \/ v8' = Append(v8, b)
    BY <1>3, AddBufferSplit
  <2>2. v9' = Planners!Promise!NoPlan
    BY <1>1, <2>1 DEF PlannersIInv, OneModel
  <2> QED
    BY <2>1, <2>2 DEF Planners!Promise!Next, Planners!Promise!Add
<1>4. CASE Planners!AddOfflineBuffer
  BY <1>4 DEF Planners!AddOfflineBuffer
<1>5. CASE Planners!CommitPlan
  <2>1. v6 = "adding" /\ v8' = v8
    BY <1>5 DEF Planners!CommitPlan
  <2>2. CASE \E i \in DOMAIN v8 : Planners!Committed[i] = Planners!kOnlinePlannedBuffer
    BY <1>5, <2>1, <2>2 DEF Planners!CommitPlan
  <2>3. CASE \A i \in DOMAIN v8 : Planners!Committed[i] # Planners!kOnlinePlannedBuffer
    <3>1. v9' = Planners!Committed
      BY <1>5, <2>3 DEF Planners!CommitPlan
    <3>2. v9 = Planners!Promise!NoPlan
      BY <1>1, <2>1 DEF PlannersIInv, OneModel
    <3>3. Planners!Promise!Sound(v8, v9')
      BY <2>3, <3>1, CommittedSound
    <3> QED
      BY <2>1, <3>2, <3>3 DEF Planners!Promise!Next, Planners!Promise!Settle
  <2> QED
    BY <2>2, <2>3
<1> QED
  BY <1>2, <1>3, <1>4, <1>5 DEF Planners!Next

-----------------------------------------------------------------------------

LEMMA MemoryStutters ==
  ASSUME UNCHANGED <<part, pool>>
  PROVE  MemoryIInv' = MemoryIInv
<1>1. UNCHANGED <<part, v1, v2, v3, v4, v5, v6, v7, v8, v9, v10>>
  BY DEF pool, from6, from7, from10
<1>2. SplitIInv' = SplitIInv
  BY <1>1 DEF SplitIInv, Split!TypeOK, Split!PersistentIntact, SplitTail, SplitChain,
     SplitAudit, WithBit
<1>3. ASSUME NEW r PROVE RecordingIInv(r)' = RecordingIInv(r)
  BY <1>1 DEF RecordingIInv, RecordingTypes, Recording!TypeOK, RecordingOrdered,
     RecordingBuckets, Recording!SnapshotAllocationUsage, RecordingCounted,
     Recording!UsedIsOccupied
<1>4. Planners!Committed' = Planners!Committed
  BY <1>1 DEF Planners!Committed, Planners!GetOffsetForBuffer
<1>5. PlannersIInv' = PlannersIInv
  BY <1>1, <1>4 DEF PlannersIInv, PlannersTypes, OneModel, BehindOneAnother, AsPlanned
<1> QED
  BY <1>1, <1>2, <1>3, <1>5 DEF MemoryIInv

\* A step of a part that hands out memory is one of that part.
LEMMA MemorySteps ==
  ASSUME ServicesNext
  PROVE  /\ part' = part
         /\ part = "split arenas" => Split!Next
         /\ part = "recorder" => Recording(CountedArena)!Next
         /\ part = "bypassed recorder" => Recording(BypassedArena)!Next
         /\ part = "planners" => Planners!Next
BY DEF ServicesNext, OtherNext, LutNext, PersonNext, FlashNext

LEMMA MemoryInvariant == ServicesSpec => []MemoryIInv
<1>1. ASSUME ServicesInit PROVE MemoryIInv
  <2>1. /\ part = "split arenas" => Split!Init
        /\ part = "recorder" => Recording(CountedArena)!Init
        /\ part = "bypassed recorder" => Recording(BypassedArena)!Init
        /\ part = "planners" => Planners!Init
    BY <1>1 DEF ServicesInit
  <2> QED
    BY <2>1, SplitInit, RecordingInit, PlannersInit, RecordingAssumption DEF MemoryIInv
<1>2. ASSUME MemoryIInv, [ServicesNext]_<<part, pool>> PROVE MemoryIInv'
  <2>1. CASE UNCHANGED <<part, pool>>
    BY <1>2, <2>1, MemoryStutters
  <2>2. CASE ServicesNext
    <3>1. /\ part' = part
          /\ part = "split arenas" => Split!Next
          /\ part = "recorder" => Recording(CountedArena)!Next
          /\ part = "bypassed recorder" => Recording(BypassedArena)!Next
          /\ part = "planners" => Planners!Next
      BY <2>2, MemorySteps
    <3> QED
      BY <1>2, <3>1, SplitKeeps, RecordingKeeps, PlannersKeeps, RecordingAssumption
      DEF MemoryIInv
  <2> QED
    BY <1>2, <2>1, <2>2
<1> QED
  BY <1>1, <1>2, PTL DEF ServicesSpec

\* In arenas of any size, for any requests, memory is handed out once: persistent
\* buffers, head section and temp buffers of two arenas keep apart and inside, and
\* the audit of temp buffers is exact; every bucket of an allocator that records
\* holds what was allocated for it, also when an allocation failed half-way, unless
\* its calls bypass the counters; and a linear plan preserves every tensor.
THEOREM MemoryStaysRight == ServicesSpec => []MemoryRight
<1>1. MemoryIInv => MemoryRight
  BY SplitRight, RecordingRight, PlannersRight, RecordingAssumption
  DEF MemoryIInv, MemoryRight
<1> QED
  BY <1>1, MemoryInvariant, PTL

-----------------------------------------------------------------------------
(* The operator resolver.  registrations_ is v1, builtin_codes_ v2,           *)
(* builtin_parsers_ v3, asked v4 and status v5.                               *)

LEMMA ResolverNames ==
  ASSUME NEW b
  PROVE  /\ Resolving(b)!CUSTOM = 32 /\ Resolving(b)!NoName = "none"
         /\ Resolving(b)!ETHOSU = "ethos-u" /\ Resolving(b)!nullptr = 0
         /\ Resolving(b)!MaxCode = 209
         /\ \A o : Resolving(b)!BuiltinKey(o) = <<o, "none">>
         /\ \A n : Resolving(b)!CustomKey(n) = <<32, n>>
  BY DEF Resolving!CUSTOM, Resolving!NoName, Resolving!ETHOSU, Resolving!nullptr,
     Resolving!MaxCode, Resolving!BuiltinKey, Resolving!CustomKey

LEMMA ResolverInit ==
  ASSUME NEW b, ResolvesIn(b), Resolving(b)!Init
  PROVE  ResolverIInv(b)
<1>1. v1 = <<>> /\ v2 = <<>> /\ v3 = <<>> /\ v4 \in Resolving(b)!Keys /\ v5 = "ok"
  BY DEF Resolving!Init
<1> QED
  BY <1>1 DEF ResolverIInv, ResolvesIn

\* A set of naturals that is not empty has a least element.
LEMMA LeastOf ==
  ASSUME NEW T, T \subseteq Nat, T # {}
  PROVE  \E x \in T : \A y \in T : x <= y
<1>1. PICK x \in T : \A y \in T : ~(<<y, x>> \in OpToRel(<, Nat))
  BY NatLessThanWellFounded, WFMin
<1>2. \A y \in T : ~(y < x)
  BY <1>1 DEF OpToRel
<1> QED
  BY <1>2

\* A search finds the first registration that is looked for, if there is one.
LEMMA BuiltinFound ==
  ASSUME NEW b, ResolvesIn(b), ResolverIInv(b), NEW o \in b.builtins
  PROVE  LET i == Resolving(b)!FindBuiltin(o)
         IN  \/ i = 0 /\ \A j \in DOMAIN v1 : v1[j].builtin_code # o
             \/ i \in DOMAIN v1 /\ i # 0 /\ v1[i].builtin_code = o
<1> DEFINE found == {i \in DOMAIN v1 : v1[i].builtin_code = o}
<1>1. o # 32
  BY ResolverNames DEF ResolvesIn
<1>2. Resolving(b)!FindBuiltin(o) = IF found = {} THEN 0 ELSE Resolving(b)!Min(found)
  BY <1>1, ResolverNames DEF Resolving!FindBuiltin, Resolving!First
<1>3. found \subseteq Nat \ {0}
  BY DEF ResolverIInv
<1>4. found # {} => Resolving(b)!Min(found) \in found
  BY <1>3, LeastOf DEF Resolving!Min
<1> QED
  BY <1>2, <1>3, <1>4

LEMMA CustomFound ==
  ASSUME NEW b, ResolvesIn(b), ResolverIInv(b), NEW name
  PROVE  LET i == Resolving(b)!FindCustom(name)
         IN  \/ i = 0 /\ \A j \in DOMAIN v1 :
                           ~(v1[j].builtin_code = 32 /\ v1[j].custom_name = name)
             \/ i \in DOMAIN v1 /\ i # 0 /\ v1[i].builtin_code = 32 /\ v1[i].custom_name = name
<1> DEFINE found == {i \in DOMAIN v1 : v1[i].builtin_code = 32 /\ v1[i].custom_name = name}
<1>1. Resolving(b)!FindCustom(name) = IF found = {} THEN 0 ELSE Resolving(b)!Min(found)
  BY ResolverNames DEF Resolving!FindCustom, Resolving!First
<1>2. found \subseteq Nat \ {0}
  BY DEF ResolverIInv
<1>3. found # {} => Resolving(b)!Min(found) \in found
  BY <1>2, LeastOf DEF Resolving!Min
<1> QED
  BY <1>1, <1>2, <1>3

LEMMA ParserFound ==
  ASSUME NEW b, ResolvesIn(b), ResolverIInv(b), NEW o \in b.builtins
  PROVE  Resolving(b)!GetOpDataParser(o)
           = IF \E i \in DOMAIN v2 : v2[i] = o THEN b.parsers[o] ELSE "nullptr"
<1> DEFINE found == {i \in DOMAIN v2 : v2[i] = o}
           first == IF found = {} THEN 0 ELSE Resolving(b)!Min(found)
<1>1. Resolving(b)!GetOpDataParser(o) = IF first = 0 THEN "nullptr" ELSE v3[first]
  BY ResolverNames DEF Resolving!GetOpDataParser, Resolving!First
<1>2. found \subseteq Nat \ {0}
  BY DEF ResolverIInv
<1>3. found # {} => Resolving(b)!Min(found) \in found
  BY <1>2, LeastOf DEF Resolving!Min
<1>4. \A i \in found : v3[i] = b.parsers[o]
  BY DEF ResolverIInv
<1> QED
  BY <1>1, <1>2, <1>3, <1>4

\* A registration that is appended has a key of its own.
LEMMA RegistrationAdded ==
  ASSUME NEW b, ResolvesIn(b), ResolverIInv(b),
         NEW code \in b.builtins \cup {32}, NEW name \in b.customs \cup {"ethos-u", "none"},
         NEW kernel \in b.kernels, Resolving(b)!Append1(code, name, kernel),
         ~Resolving(b)!Full, code = 32 => name # "none",
         \A i \in DOMAIN v1 :
           ~(v1[i].builtin_code = code /\ (code = 32 => v1[i].custom_name = name))
  PROVE  /\ v1' \in Seq(Registration(b)) /\ Len(v1') <= b.op_count
         /\ \A i \in DOMAIN v1' : v1'[i].builtin_code = 32 => v1'[i].custom_name # "none"
         /\ \A i, j \in DOMAIN v1' :
              Resolving(b)!KeyOf(v1'[i]) = Resolving(b)!KeyOf(v1'[j]) => i = j
         /\ \A i \in DOMAIN v1 : i \in DOMAIN v1' /\ v1'[i] = v1[i]
         /\ DOMAIN v1' = DOMAIN v1 \cup {Len(v1) + 1}
         /\ v1'[Len(v1) + 1].builtin_code = code
<1> DEFINE r == [builtin_code |-> code, custom_name |-> name, kernel |-> kernel]
<1>1. r \in Registration(b) /\ v1' = Append(v1, r)
  BY DEF Resolving!Append1, Registration
<1>2. v1 \in Seq(Registration(b)) /\ Len(v1) \in Nat /\ b.op_count \in Nat
  BY DEF ResolverIInv, ResolvesIn
<1>3. Len(v1) + 1 <= b.op_count
  BY <1>2 DEF Resolving!Full
<1>4. /\ v1' \in Seq(Registration(b)) /\ Len(v1') = Len(v1) + 1
      /\ DOMAIN v1 = 1 .. Len(v1) /\ DOMAIN v1' = 1 .. Len(v1) + 1
      /\ \A i \in DOMAIN v1 : v1'[i] = v1[i]
      /\ v1'[Len(v1) + 1] = r
  BY <1>1, <1>2
<1>5. ASSUME NEW i \in DOMAIN v1 PROVE Resolving(b)!KeyOf(v1[i]) # Resolving(b)!KeyOf(r)
  BY ResolverNames DEF Resolving!KeyOf, ResolvesIn
<1>6. ASSUME NEW i \in DOMAIN v1', NEW j \in DOMAIN v1',
             Resolving(b)!KeyOf(v1'[i]) = Resolving(b)!KeyOf(v1'[j])
      PROVE  i = j
  <2>1. i \in DOMAIN v1 \/ i = Len(v1) + 1
    BY <1>2, <1>4
  <2>2. j \in DOMAIN v1 \/ j = Len(v1) + 1
    BY <1>2, <1>4
  <2>3. CASE i \in DOMAIN v1 /\ j \in DOMAIN v1
    BY <1>4, <1>6, <2>3 DEF ResolverIInv
  <2> QED
    BY <1>4, <1>5, <1>6, <2>1, <2>2, <2>3
<1>7. \A i \in DOMAIN v1' : v1'[i].builtin_code = 32 => v1'[i].custom_name # "none"
  BY <1>2, <1>4, SMTT(60) DEF ResolverIInv
<1> QED
  BY <1>2, <1>3, <1>4, <1>6, <1>7

LEMMA AddCustomKeeps ==
  ASSUME NEW b, ResolvesIn(b), ResolverIInv(b), NEW name \in b.customs \cup {"ethos-u"},
         NEW kernel \in b.kernels, Resolving(b)!AddCustom(name, kernel)
  PROVE  ResolverIInv(b)' /\ Resolving(b)!PointersStay
<1>1. <<32, name>> \in Resolving(b)!Keys /\ name # "none"
  BY ResolverNames DEF Resolving!Keys, ResolvesIn
<1>2. CASE Resolving(b)!Full \/ Resolving(b)!FindCustom(name) # 0
  <2>1. v1' = v1 /\ v2' = v2 /\ v3' = v3 /\ v4' = <<32, name>> /\ v5' = "error"
    BY <1>2, ResolverNames
    DEF Resolving!AddCustom, Resolving!Answer, Resolving!NoChange
  <2> QED
    BY <1>1, <2>1 DEF ResolverIInv, Resolving!PointersStay, Resolving!Keys, Resolving!KeyOf
<1>3. CASE ~Resolving(b)!Full /\ Resolving(b)!FindCustom(name) = 0
  <2>1. /\ Resolving(b)!Append1(32, name, kernel)
        /\ v2' = v2 /\ v3' = v3 /\ v4' = <<32, name>> /\ v5' = "ok"
    BY <1>3, ResolverNames DEF Resolving!AddCustom, Resolving!Answer
  <2>2. PICK code \in b.builtins \cup {32} :
          /\ code = 32 /\ Resolving(b)!Append1(code, name, kernel)
          /\ \A i \in DOMAIN v1 :
               ~(v1[i].builtin_code = code /\ (code = 32 => v1[i].custom_name = name))
    BY <1>1, <1>3, <2>1, CustomFound
  <2>a. /\ name \in b.customs \cup {"ethos-u", "none"} /\ ~Resolving(b)!Full
        /\ Resolving(b)!Append1(code, name, kernel) /\ (code = 32 => name # "none")
        /\ \A i \in DOMAIN v1 :
             ~(v1[i].builtin_code = code /\ (code = 32 => v1[i].custom_name = name))
    BY <1>1, <1>3, <2>2
  <2>3. /\ v1' \in Seq(Registration(b)) /\ Len(v1') <= b.op_count
        /\ \A i \in DOMAIN v1' : v1'[i].builtin_code = 32 => v1'[i].custom_name # "none"
        /\ \A i, j \in DOMAIN v1' :
             Resolving(b)!KeyOf(v1'[i]) = Resolving(b)!KeyOf(v1'[j]) => i = j
        /\ \A i \in DOMAIN v1 : i \in DOMAIN v1' /\ v1'[i] = v1[i]
        /\ DOMAIN v1' = DOMAIN v1 \cup {Len(v1) + 1}
        /\ v1'[Len(v1) + 1].builtin_code = code
    BY ONLY <2>a, ResolvesIn(b), ResolverIInv(b), kernel \in b.kernels, RegistrationAdded,
       code \in b.builtins \cup {32}
  <2>4. \A o \in b.builtins :
          (\E i \in DOMAIN v1' : v1'[i].builtin_code = o) <=> (\E i \in DOMAIN v2' : v2'[i] = o)
    <3>1. ASSUME NEW o \in b.builtins
          PROVE  (\E i \in DOMAIN v1' : v1'[i].builtin_code = o)
                   <=> (\E i \in DOMAIN v1 : v1[i].builtin_code = o)
      <4>1. o # code
        BY <2>2, ResolverNames DEF ResolvesIn
      <4> QED
        BY ONLY <2>3, <4>1
    <3> QED
      BY <2>1, <3>1 DEF ResolverIInv
  <2> QED
    BY <1>1, <2>1, <2>3, <2>4
    DEF ResolverIInv, Resolving!PointersStay, Resolving!Keys, Resolving!KeyOf
<1> QED
  BY <1>2, <1>3

LEMMA AddBuiltinKeeps ==
  ASSUME NEW b, ResolvesIn(b), ResolverIInv(b), NEW o \in b.builtins,
         NEW name \in b.customs \cup {"none"},
         NEW kernel \in b.kernels, Resolving(b)!AddBuiltin(o, kernel, name)
  PROVE  ResolverIInv(b)' /\ Resolving(b)!PointersStay
<1>1. <<o, "none">> \in Resolving(b)!Keys /\ o # 32
  BY ResolverNames DEF Resolving!Keys, ResolvesIn
<1>2. CASE Resolving(b)!Full \/ Resolving(b)!FindBuiltin(o) # 0
  <2>1. v1' = v1 /\ v2' = v2 /\ v3' = v3 /\ v4' = <<o, "none">> /\ v5' = "error"
    BY <1>2, ResolverNames
    DEF Resolving!AddBuiltin, Resolving!Answer, Resolving!NoChange
  <2> QED
    BY <1>1, <2>1 DEF ResolverIInv, Resolving!PointersStay, Resolving!Keys, Resolving!KeyOf
<1>3. CASE ~Resolving(b)!Full /\ Resolving(b)!FindBuiltin(o) = 0
  <2>1. /\ Resolving(b)!Append1(o, name, kernel)
        /\ v2' = Append(v2, o) /\ v3' = Append(v3, b.parsers[o])
        /\ v4' = <<o, "none">> /\ v5' = "ok"
    BY <1>1, <1>3, ResolverNames DEF Resolving!AddBuiltin, Resolving!Answer
  <2>2. \A i \in DOMAIN v1 : v1[i].builtin_code # o
    BY <1>3, BuiltinFound
  <2>3. /\ v1' \in Seq(Registration(b)) /\ Len(v1') <= b.op_count
        /\ \A i \in DOMAIN v1' : v1'[i].builtin_code = 32 => v1'[i].custom_name # "none"
        /\ \A i, j \in DOMAIN v1' :
             Resolving(b)!KeyOf(v1'[i]) = Resolving(b)!KeyOf(v1'[j]) => i = j
        /\ \A i \in DOMAIN v1 : i \in DOMAIN v1' /\ v1'[i] = v1[i]
        /\ DOMAIN v1' = DOMAIN v1 \cup {Len(v1) + 1}
        /\ v1'[Len(v1) + 1].builtin_code = o
    BY <1>1, <1>3, <2>1, <2>2, RegistrationAdded
  <2>4. /\ v2' \in Seq(b.builtins) /\ DOMAIN v2' = DOMAIN v2 \cup {Len(v2) + 1}
        /\ \A i \in DOMAIN v2 : v2'[i] = v2[i]
        /\ v2'[Len(v2) + 1] = o
    BY <2>1 DEF ResolverIInv
  <2>5. ASSUME NEW p \in b.builtins
        PROVE  (\E i \in DOMAIN v1' : v1'[i].builtin_code = p) <=> (\E i \in DOMAIN v2' : v2'[i] = p)
    <3>1. (\E i \in DOMAIN v1 : v1[i].builtin_code = p) <=> (\E i \in DOMAIN v2 : v2[i] = p)
      BY DEF ResolverIInv
    <3>2. (\E i \in DOMAIN v1' : v1'[i].builtin_code = p)
            <=> (\E i \in DOMAIN v1 : v1[i].builtin_code = p) \/ p = o
      BY <2>3
    <3>3. (\E i \in DOMAIN v2' : v2'[i] = p) <=> (\E i \in DOMAIN v2 : v2[i] = p) \/ p = o
      BY <2>4
    <3> QED
      BY <3>1, <3>2, <3>3
  <2>6. v3' = [i \in DOMAIN v2' |-> b.parsers[v2'[i]]]
    <3>1. Len(v2) \in Nat /\ DOMAIN v2 = 1 .. Len(v2) /\ v3 = [i \in 1 .. Len(v2) |-> b.parsers[v2[i]]]
      BY DEF ResolverIInv
    <3>2. Len(v3) = Len(v2) /\ DOMAIN v3' = 1 .. Len(v2) + 1
      BY <2>1, <3>1
    <3>3. DOMAIN v2' = 1 .. Len(v2) + 1
      BY <2>1, <3>1 DEF ResolverIInv
    <3>4. \A i \in 1 .. Len(v2) + 1 : v3'[i] = b.parsers[v2'[i]]
      BY <2>1, <2>4, <3>1, <3>2
    <3> QED
      BY <2>1, <3>1, <3>2, <3>3, <3>4
  <2> QED
    BY <1>1, <2>1, <2>3, <2>4, <2>5, <2>6
    DEF ResolverIInv, Resolving!PointersStay, Resolving!Keys, Resolving!KeyOf
<1> QED
  BY <1>1, <1>2, <1>3

LEMMA ResolverKeeps ==
  ASSUME NEW b, ResolvesIn(b), ResolverIInv(b), Resolving(b)!Next
  PROVE  ResolverIInv(b)' /\ Resolving(b)!PointersStay
<1>1. CASE \E o \in b.builtins, k \in b.kernels, n \in b.customs \cup {"none"} :
             Resolving(b)!AddBuiltin(o, k, n)
  BY <1>1, AddBuiltinKeeps
<1>2. CASE \E name \in b.customs, k \in b.kernels : Resolving(b)!AddCustom(name, k)
  BY <1>2, AddCustomKeeps
<1>3. CASE \E k \in b.ethosu : Resolving(b)!AddCustom("ethos-u", k)
  BY <1>3, AddCustomKeeps DEF ResolvesIn
<1>4. CASE Resolving(b)!Answer(<<32, "ethos-u">>, "ok") /\ Resolving(b)!NoChange
  <2>1. v1' = v1 /\ v2' = v2 /\ v3' = v3 /\ v4' = <<32, "ethos-u">> /\ v5' = "ok"
    BY <1>4 DEF Resolving!Answer, Resolving!NoChange
  <2>2. <<32, "ethos-u">> \in Resolving(b)!Keys
    BY ResolverNames DEF Resolving!Keys
  <2> QED
    BY <2>1, <2>2 DEF ResolverIInv, Resolving!PointersStay, Resolving!Keys, Resolving!KeyOf
<1> QED
  BY <1>1, <1>2, <1>3, <1>4, ResolverNames DEF Resolving!Next, Resolving!AddEthosU

\* Of n different things in a row there are n.
LEMMA DifferentInARow ==
  ASSUME NEW n \in Nat, NEW f, NEW S, S = {f[i] : i \in 1 .. n},
         \A i, j \in 1 .. n : f[i] = f[j] => i = j
  PROVE  IsFiniteSet(S) /\ Cardinality(S) = n
<1> DEFINE g == [i \in 1 .. n |-> f[i]]
<1>1. g \in Bijection(1 .. n, S)
  <2>1. g \in [1 .. n -> S]
    OBVIOUS
  <2>2. g \in Injection(1 .. n, S)
    BY <2>1 DEF Injection, IsInjective
  <2>3. g \in Surjection(1 .. n, S)
    BY <2>1 DEF Surjection
  <2> QED
    BY <2>2, <2>3 DEF Bijection
<1>2. ExistsBijection(1 .. n, S)
  BY <1>1 DEF ExistsBijection
<1> QED
  BY <1>2, FS_NatBijection, FS_CountingElements

LEMMA KeysRegistered ==
  ASSUME NEW b, ResolvesIn(b), ResolverIInv(b)
  PROVE  Resolving(b)!Cardinality(Resolving(b)!RegisteredKeys) = Len(v1)
<1> DEFINE f == [i \in 1 .. Len(v1) |-> Resolving(b)!KeyOf(v1[i])]
           n == Len(v1)
<1>1. n \in Nat /\ DOMAIN v1 = 1 .. n /\ DOMAIN f = 1 .. n
  BY DEF ResolverIInv
<1>2. \A i, j \in 1 .. n : f[i] = f[j] => i = j
  BY <1>1 DEF ResolverIInv
<1>3. Resolving(b)!RegisteredKeys = {f[i] : i \in 1 .. n}
  BY <1>1 DEF Resolving!RegisteredKeys
<1> HIDE DEF f, n
<1>4. Cardinality(Resolving(b)!RegisteredKeys) = n
  BY <1>1, <1>2, <1>3, DifferentInARow
<1>5. Resolving(b)!Cardinality(Resolving(b)!RegisteredKeys)
        = Cardinality(Resolving(b)!RegisteredKeys)
  BY DEF Cardinality, Resolving!Cardinality, IsFiniteSet, Resolving!IsFiniteSet
<1> QED
  BY <1>4, <1>5 DEF n

LEMMA ResolverRight ==
  ASSUME NEW b, ResolvesIn(b), ResolverIInv(b)
  PROVE  Resolving(b)!TypeOK /\ Resolving(b)!ParserForEach /\ Resolving(b)!LookupsRight
<1>1. Resolving(b)!TypeOK
  <2>1. Len(v2) = Len(v3)
    <3>1. Len(v2) \in Nat /\ DOMAIN v3 = 1 .. Len(v2)
      BY DEF ResolverIInv
    <3> QED
      BY <3>1
  <2>2. \A i \in DOMAIN v1 : v1[i].builtin_code \in b.builtins \cup {32} /\ v1[i].kernel \in b.kernels
    <3>1. \A i \in DOMAIN v1 : v1[i] \in Registration(b)
      BY DEF ResolverIInv
    <3> QED
      BY <3>1 DEF Registration
  <2>3. Resolving(b)!CUSTOM = 32
    BY ResolverNames
  <2>4. Len(v1) <= b.op_count /\ v4 \in Resolving(b)!Keys /\ v5 \in {"ok", "error"}
    BY DEF ResolverIInv
  <2> QED
    BY ONLY <2>1, <2>2, <2>3, <2>4 DEF Resolving!TypeOK
<1>2. Resolving(b)!ParserForEach
  <2>1. ASSUME NEW o \in b.builtins
        PROVE  Resolving(b)!GetOpDataParser(o)
                 = IF Resolving(b)!FindBuiltin(o) = 0 THEN "nullptr" ELSE b.parsers[o]
    BY BuiltinFound, ParserFound DEF ResolverIInv
  <2> QED
    BY <2>1, ResolverNames DEF Resolving!ParserForEach
<1>3. ASSUME NEW key \in Resolving(b)!Keys
      PROVE  LET i == Resolving(b)!GetRegistrationFromOpCode(key[1], key[2])
             IN  IF key \in Resolving(b)!RegisteredKeys THEN Resolving(b)!KeyOf(v1[i]) = key
                 ELSE i = 0
  <2>1. CASE \E o \in b.builtins : key = <<o, "none">>
    <3>1. PICK o \in b.builtins : key = <<o, "none">>
      BY <2>1
    <3>2. o # 32 /\ o <= 209 /\ o \in Nat
      BY ResolverNames DEF ResolvesIn
    <3>3. Resolving(b)!GetRegistrationFromOpCode(key[1], key[2]) = Resolving(b)!FindBuiltin(o)
      BY <3>1, <3>2, ResolverNames DEF Resolving!GetRegistrationFromOpCode
    <3>4. \A i \in DOMAIN v1 : Resolving(b)!KeyOf(v1[i]) = key <=> v1[i].builtin_code = o
      BY <3>1, <3>2, ResolverNames DEF Resolving!KeyOf
    <3> QED
      BY <3>3, <3>4, BuiltinFound DEF Resolving!RegisteredKeys
  <2>2. CASE \E name \in b.customs \cup {"ethos-u"} : key = <<32, name>>
    <3>1. PICK name \in b.customs \cup {"ethos-u"} : key = <<32, name>>
      BY <2>2
    <3>2. name # "none"
      BY ResolverNames DEF ResolvesIn
    <3>3. Resolving(b)!GetRegistrationFromOpCode(key[1], key[2]) = Resolving(b)!FindCustom(name)
      BY <3>1, <3>2, ResolverNames DEF Resolving!GetRegistrationFromOpCode
    <3>4. \A i \in DOMAIN v1 :
            Resolving(b)!KeyOf(v1[i]) = key
              <=> v1[i].builtin_code = 32 /\ v1[i].custom_name = name
      BY <3>1, <3>2, ResolverNames DEF Resolving!KeyOf, ResolvesIn
    <3> QED
      BY <3>3, <3>4, CustomFound DEF Resolving!RegisteredKeys
  <2> QED
    BY <2>1, <2>2, ResolverNames DEF Resolving!Keys
<1>4. Resolving(b)!Cardinality(Resolving(b)!RegisteredKeys) = Len(v1) /\ Resolving(b)!nullptr = 0
  BY KeysRegistered, ResolverNames
<1>5. Resolving(b)!LookupsRight
  BY ONLY <1>3, <1>4 DEF Resolving!LookupsRight
<1> QED
  BY <1>1, <1>2, <1>5

\* What is refused has a registration, or there is no room.
LEMMA ResolverRefuses ==
  ASSUME NEW b, ResolvesIn(b), ResolverIInv(b), Resolving(b)!Next
  PROVE  Resolving(b)!RefusesRightly
<1> SUFFICES ASSUME v5' = "error"
             PROVE  v4' \in Resolving(b)!RegisteredKeys \/ Len(v1) = b.op_count
  BY KeysRegistered DEF Resolving!RefusesRightly
<1>1. Resolving(b)!Full => Len(v1) = b.op_count
  BY DEF Resolving!Full, ResolverIInv, ResolvesIn
<1>2. ASSUME NEW name, NEW k, Resolving(b)!AddCustom(name, k), ~Resolving(b)!Full
      PROVE  v4' \in Resolving(b)!RegisteredKeys
  <2>1. Resolving(b)!FindCustom(name) # 0 /\ v4' = <<32, name>>
    BY <1>2, ResolverNames DEF Resolving!AddCustom, Resolving!Answer
  <2> QED
    BY <2>1, CustomFound, ResolverNames DEF Resolving!RegisteredKeys, Resolving!KeyOf
<1>3. ASSUME NEW o \in b.builtins, NEW n, NEW k, Resolving(b)!AddBuiltin(o, k, n),
             ~Resolving(b)!Full
      PROVE  v4' \in Resolving(b)!RegisteredKeys
  <2>1. o # 32
    BY ResolverNames DEF ResolvesIn
  <2>2. Resolving(b)!FindBuiltin(o) # 0 /\ v4' = <<o, "none">>
    BY <1>3, <2>1, ResolverNames DEF Resolving!AddBuiltin, Resolving!Answer
  <2> QED
    BY <2>1, <2>2, BuiltinFound, ResolverNames DEF Resolving!RegisteredKeys, Resolving!KeyOf
<1>4. ASSUME Resolving(b)!Answer(<<32, "ethos-u">>, "ok") PROVE FALSE
  BY <1>4 DEF Resolving!Answer
<1> QED
  BY <1>1, <1>2, <1>3, <1>4, ResolverNames DEF Resolving!Next, Resolving!AddEthosU

-----------------------------------------------------------------------------
(* The resource variables.  model is v1, max_variable_count_ v2, room v3,     *)
(* resource_variables_ v4, handles v5, pc v6, place v7, has_run v8, input v9, *)
(* invocations v10, defaults v11, stored v12, answer v13 and pristine v14.    *)

LEMMA ModelFacts ==
  ASSUME VariablesTypes
  PROVE  /\ Variables!WellFormed(v1)
         /\ Len(v1) \in Nat /\ DOMAIN v1 = 1 .. Len(v1) /\ 1 \in DOMAIN v1
         /\ \A g \in DOMAIN v1 : Len(v1[g]) \in Nat /\ DOMAIN v1[g] = 1 .. Len(v1[g])
         /\ \A g \in DOMAIN v1 : \A i \in DOMAIN v1[g] :
              /\ v1[g][i] \in Variables!Operators
              /\ v1[g][i].code = "CALL_ONCE" => v1[g][i].init_subgraph \in DOMAIN v1
<1>1. Variables!WellFormed(v1)
  BY VariablesAssumption DEF VariablesTypes
<1>2. v1 \in Seq(Seq(Variables!Operators)) /\ v1 # <<>>
  BY <1>1 DEF Variables!WellFormed
<1>3. Len(v1) \in Nat /\ DOMAIN v1 = 1 .. Len(v1) /\ 1 \in DOMAIN v1
  BY <1>2
<1>4. \A g \in DOMAIN v1 : v1[g] \in Seq(Variables!Operators)
  BY <1>2
<1>5. \A g \in DOMAIN v1 : \A i \in DOMAIN v1[g] :
        /\ v1[g][i] \in Variables!Operators
        /\ v1[g][i].code = "CALL_ONCE" => v1[g][i].init_subgraph \in DOMAIN v1
  BY <1>1, <1>4 DEF Variables!WellFormed
<1> QED
  BY <1>1, <1>3, <1>4, <1>5

LEMMA OperatorFacts ==
  ASSUME NEW o \in Variables!Operators
  PROVE  /\ o.code = "VAR_HANDLE" => o.container \in STRING /\ o.shared_name \in STRING
         /\ o.code = "ASSIGN" => /\ o.zero_point \in STRING /\ o.zero_point # "nullptr"
                                  /\ o.value \in STRING /\ o.value # "nullptr"
BY DEF Variables!Operators, Variables!nullptr

\* A handle stands for the pair of the one operator that makes it.
LEMMA PairFacts ==
  ASSUME VariablesTypes, NEW g \in DOMAIN v1, NEW i \in DOMAIN v1[g],
         v1[g][i].code # "CALL_ONCE"
  PROVE  /\ Variables!PairOf(v1, g, v1[g][i].handle) \in Variables!PairsOf(v1)
         /\ <<g, v1[g][i].handle>> \in DOMAIN v5
         /\ v1[g][i].code = "VAR_HANDLE" =>
              Variables!PairOf(v1, g, v1[g][i].handle)
                = <<v1[g][i].container, v1[g][i].shared_name>>
<1> DEFINE h == v1[g][i].handle
<1>1. PICK j \in DOMAIN v1[g] : Variables!MakersOf(v1, g, h) = {j}
  <2>1. \A j \in 1 .. i : j \in DOMAIN v1[g]
    BY ModelFacts
  <2> QED
    BY <2>1, ModelFacts DEF Variables!WellFormed
<1>2. v1[g][j].code = "VAR_HANDLE" /\ v1[g][j].handle = h
  BY <1>1 DEF Variables!MakersOf
<1>3. Variables!PairOf(v1, g, h) = <<v1[g][j].container, v1[g][j].shared_name>>
  BY <1>1 DEF Variables!PairOf
<1>4. Variables!PairOf(v1, g, h) \in Variables!PairsOf(v1)
  BY <1>2 DEF Variables!PairsOf
<1>5. v1[g][i].code = "VAR_HANDLE" => i = j
  BY <1>1 DEF Variables!MakersOf
<1>6. <<g, h>> \in Variables!HandlesOf(v1)
  BY DEF Variables!HandlesOf
<1> QED
  BY <1>3, <1>4, <1>5, <1>6 DEF VariablesTypes

LEMMA VariablesInit ==
  ASSUME Variables!Init
  PROVE  VariablesIInv
<1> USE DEF Variables!nullptr
<1>1. /\ v1 \in VariableModels.models /\ v2 \in VariableModels.max_variables
      /\ v3 \in VariableModels.rooms /\ v4 = <<>>
      /\ v5 = [h \in Variables!HandlesOf(v1) |-> 0]
      /\ v6 = "prepare" /\ v7 = <<[g |-> 1, i |-> 1]>>
      /\ v9 \in VariableModels.inputs /\ v10 = 0
      /\ v11 = [p \in Variables!PairsOf(v1) |-> "nullptr"] /\ v12 = v11
      /\ v13 = [value |-> "nullptr", expected |-> "nullptr"] /\ v14 = <<>>
  BY DEF Variables!Init
<1>2. VariablesTypes
  <2>1. v1 \in Seq(Seq(Variables!Operators)) /\ v1 # <<>>
    BY <1>1, VariablesAssumption DEF Variables!WellFormed
  <2>2. Len(v1) \in Nat /\ 1 \in 1 .. Len(v1)
    BY <2>1
  <2>3. v7 \in Seq(Places)
    BY <1>1, <2>2 DEF Places
  <2> QED
    BY <1>1, <2>3, VariablesAssumption DEF VariablesTypes
<1>3. PreparedSoFar
  BY <1>1, <1>2, ModelFacts DEF PreparedSoFar, AssignedBy
<1> QED
  BY <1>1, <1>2, <1>3 DEF VariablesIInv, PairsOwned, BuffersAllocated, HoldStored,
     Variables!NullsFollowed

LEMMA VariableNames == Variables!nullptr = "nullptr" /\ Variables!NoName = "null"
  BY DEF Variables!nullptr, Variables!NoName

\* Names are compared exactly where containers are given for all pairs or for none.
LEMMA SamePair ==
  ASSUME VariablesIInv, NEW c, NEW n, <<c, n>> \in Variables!PairsOf(v1), NEW k \in DOMAIN v4
  PROVE  /\ Variables!SameName(v4[k], c, n) <=> NameOf(v4[k]) = <<c, n>>
         /\ ~(c # "null" /\ v4[k].container = "null")
<1>1. \A p, q \in Variables!PairsOf(v1) : p[1] = "null" <=> q[1] = "null"
  BY ModelFacts, VariableNames DEF VariablesIInv, Variables!WellFormed
<1>2. <<v4[k].container, v4[k].shared_name>> \in Variables!PairsOf(v1)
  BY DEF VariablesIInv, PairsOwned, NameOf
<1>3. c = "null" <=> v4[k].container = "null"
  BY <1>1, <1>2
<1> QED
  BY <1>3, VariableNames DEF Variables!SameName, NameOf

LEMMA FoundId ==
  ASSUME VariablesIInv, NEW c, NEW n, <<c, n>> \in Variables!PairsOf(v1)
  PROVE  LET id == Variables!FindId(c, n)
         IN  \/ id = 0 /\ \A k \in DOMAIN v4 : NameOf(v4[k]) # <<c, n>>
             \/ id \in DOMAIN v4 /\ id # 0 /\ NameOf(v4[id]) = <<c, n>>
<1> DEFINE found == {k \in DOMAIN v4 : Variables!SameName(v4[k], c, n)}
<1>1. Variables!FindId(c, n) = IF found = {} THEN 0 ELSE Variables!Min(found)
  BY DEF Variables!FindId
<1>2. found \subseteq Nat \ {0}
  BY DEF VariablesIInv, VariablesTypes
<1>3. found # {} => Variables!Min(found) \in found
  BY <1>2, LeastOf DEF Variables!Min
<1> QED
  BY <1>1, <1>2, <1>3, SamePair

\* The place of the operator that comes next.
LEMMA NextPlace ==
  ASSUME VariablesTypes, v7 # <<>>
  PROVE  /\ v7[1].g \in DOMAIN v1 /\ v7[1].i \in Nat \ {0}
         /\ Variables!NextOp \in Seq(Places) /\ Len(Variables!NextOp) = Len(v7)
         /\ Variables!NextOp[1].g = v7[1].g /\ Variables!NextOp[1].i = v7[1].i + 1
<1>1. v7 \in Seq(Places) /\ Len(v7) \in Nat /\ 1 \in DOMAIN v7
  BY DEF VariablesTypes
<1>2. v7[1] \in Places
  BY <1>1
<1>3. v7[1].g \in DOMAIN v1 /\ v7[1].i \in Nat \ {0}
  BY <1>2, ModelFacts DEF Places
<1>4. [v7[1] EXCEPT !.i = v7[1].i + 1] \in Places
  BY <1>2 DEF Places
<1>5. Variables!NextOp = [v7 EXCEPT ![1] = [v7[1] EXCEPT !.i = v7[1].i + 1]]
  BY DEF Variables!NextOp
<1> HIDE DEF Places
<1>6. Variables!NextOp[1] = [v7[1] EXCEPT !.i = v7[1].i + 1]
  BY <1>1, <1>5
<1>7. Variables!NextOp \in Seq(Places) /\ Len(Variables!NextOp) = Len(v7)
  BY <1>1, <1>4, <1>5
<1> QED
  BY <1>2, <1>3, <1>6, <1>7 DEF Places

\* What is left alone when a call does not reach the table.
LEMMA TableLeft ==
  ASSUME VariablesIInv, UNCHANGED <<v1, v2, v3, v4, v5, v11, v12, v14>>,
         v6' \in {"prepare", "idle", "invoke", "failed", "crashed"},
         v6' \in {"idle", "invoke"} => v6 \in {"idle", "invoke"},
         v6 \in {"prepare", "idle", "invoke"} \/ v6' = "crashed",
         v6' = "crashed" => (v14 = <<>> /\ v3 = 0) \/ ~Variables!ReadsAssigned(v1),
         v7' \in Seq(Places), v9' \in VariableModels.inputs,
         v10' \in 0 .. VariableModels.max_invocations,
         v13'.value = v13'.expected, PreparedSoFar'
  PROVE  VariablesIInv'
<1>1. VariablesTypes'
  BY DEF VariablesIInv, VariablesTypes, Places
<1>2. PairsOwned' /\ BuffersAllocated' /\ HoldStored' /\ Variables!NullsFollowed'
  <2>1. PairsOwned'
    BY DEF VariablesIInv, PairsOwned, NameOf
  <2>2. BuffersAllocated'
    <3>1. v6 \in {"failed", "crashed"} => v6' = "crashed"
      OBVIOUS
    <3> QED
      BY <3>1 DEF VariablesIInv, BuffersAllocated, NameOf, OutOfRoom
  <2>3. HoldStored'
    BY DEF VariablesIInv, HoldStored, NameOf
  <2> QED
    BY <2>1, <2>2, <2>3 DEF Variables!NullsFollowed
<1> QED
  BY <1>1, <1>2 DEF VariablesIInv

LEMMA FailKeeps ==
  ASSUME VariablesIInv, v6 = "prepare", Variables!Fail
  PROVE  VariablesIInv'
<1>1. UNCHANGED <<v1, v2, v3, v4, v5, v7, v9, v10, v11, v12, v13, v14>> /\ v6' = "failed"
  BY DEF Variables!Fail, Variables!config, Variables!history
<1>2. PreparedSoFar'
  BY <1>1 DEF VariablesIInv, PreparedSoFar
<1> QED
  BY <1>1, <1>2, TableLeft DEF VariablesIInv, VariablesTypes

LEMMA CrashStays ==
  ASSUME VariablesIInv, Variables!Crash,
         (v14 = <<>> /\ v3 = 0) \/ ~Variables!ReadsAssigned(v1)
  PROVE  VariablesIInv'
<1>1. UNCHANGED <<v1, v2, v3, v4, v5, v7, v9, v10, v11, v12, v13, v14>> /\ v6' = "crashed"
  BY DEF Variables!Crash, Variables!config, Variables!history
<1>2. PreparedSoFar'
  BY <1>1 DEF PreparedSoFar
<1> QED
  BY <1>1, <1>2, TableLeft DEF VariablesIInv, VariablesTypes

\* One more operator has been prepared.
LEMMA OneMorePrepared ==
  ASSUME VariablesIInv, v6 = "prepare", v7 # <<>>, v1' = v1, v6' = v6, v14' = v14,
         \A x \in DOMAIN v5 : v5[x] # 0 => v5'[x] # 0,
         v7' = Variables!NextOp, \A p \in DOMAIN v11 : v11[p] # "nullptr" => v11'[p] # "nullptr",
         NEW f, NEW j, f = v7[1].g, j = v7[1].i, AssignedBy(f, j)'
  PROVE  PreparedSoFar'
<1>1. /\ v7[1].g \in DOMAIN v1 /\ v7[1].i \in Nat /\ v7'[1].g = v7[1].g
      /\ v7'[1].i = v7[1].i + 1 /\ Len(v7') = Len(v7)
  BY NextPlace DEF VariablesIInv
<1>2. ASSUME NEW g \in DOMAIN v1, NEW i \in Nat,
             g < v7[1].g \/ (g = v7[1].g /\ i < v7[1].i + 1)
      PROVE  AssignedBy(g, i)'
  <2>1. CASE g < v7[1].g \/ (g = v7[1].g /\ i < v7[1].i)
    <3>1. AssignedBy(g, i)
      BY <2>1 DEF VariablesIInv, PreparedSoFar
    <3>2. i \in DOMAIN v1[g] /\ v1[g][i].code # "CALL_ONCE" =>
            /\ Variables!PairOf(v1, g, v1[g][i].handle) \in DOMAIN v11
            /\ <<g, v1[g][i].handle>> \in DOMAIN v5
      BY PairFacts DEF VariablesIInv, VariablesTypes
    <3> QED
      BY <3>1, <3>2 DEF AssignedBy
  <2>2. CASE g = v7[1].g /\ i = v7[1].i
    <3>1. g = f /\ i = j
      BY <2>2
    <3> QED
      BY <3>1
  <2>3. g \in Nat /\ v7[1].g \in Nat /\ v7[1].i \in Nat
    BY <1>1, ModelFacts DEF VariablesIInv
  <2>4. (g < v7[1].g \/ (g = v7[1].g /\ i < v7[1].i)) \/ (g = v7[1].g /\ i = v7[1].i)
    BY ONLY <1>2, <2>3, i \in Nat
  <2> QED
    BY <2>1, <2>2, <2>4
<1> QED
  BY <1>1, <1>2 DEF VariablesIInv, PreparedSoFar

LEMMA AtOperator ==
  ASSUME VariablesTypes, v7 # <<>>, NEW code, Variables!AtOp(code)
  PROVE  /\ v7[1].g \in DOMAIN v1 /\ v7[1].i \in DOMAIN v1[v7[1].g]
         /\ Variables!Op = v1[v7[1].g][v7[1].i] /\ Variables!Op.code = code
         /\ Variables!Op \in Variables!Operators
         /\ Variables!Here = v7[1]
         /\ Variables!Handle = v5[<<v7[1].g, Variables!Op.handle>>]
<1>1. Variables!Here = v7[1] /\ Variables!Op = v1[v7[1].g][v7[1].i]
  BY DEF Variables!Here, Variables!Op
<1>2. v7[1].g \in DOMAIN v1 /\ v7[1].i \in Nat \ {0}
  BY NextPlace
<1>3. v7[1].i <= Len(v1[v7[1].g]) /\ Variables!Op.code = code
  BY <1>1 DEF Variables!AtOp
<1>4. v7[1].i \in DOMAIN v1[v7[1].g]
  BY <1>2, <1>3, ModelFacts
<1>5. Variables!Handle = v5[<<v7[1].g, Variables!Op.handle>>]
  BY <1>1 DEF Variables!Handle
<1> QED
  BY <1>1, <1>2, <1>3, <1>4, <1>5, ModelFacts

LEMMA PrepareOtherKeeps ==
  ASSUME VariablesIInv, Variables!PrepareOther
  PROVE  VariablesIInv'
<1>1. PICK code \in {"READ", "CALL_ONCE"} : Variables!AtOp(code)
  BY DEF Variables!PrepareOther
<1>2. /\ v6 = "prepare" /\ v7 # <<>> /\ v7' = Variables!NextOp
      /\ UNCHANGED <<v1, v2, v3, v4, v5, v6, v9, v10, v11, v12, v13, v14>>
  BY DEF Variables!PrepareOther, Variables!Preparing, Variables!StillPreparing,
     Variables!config
<1>3. v1[v7[1].g][v7[1].i].code \notin {"ASSIGN", "VAR_HANDLE"}
  BY <1>1, <1>2, AtOperator DEF VariablesIInv
<1>4. PICK f, j : f = v7[1].g /\ j = v7[1].i
  OBVIOUS
<1>5. AssignedBy(f, j)'
  BY <1>2, <1>3, <1>4 DEF AssignedBy
<1>6. PreparedSoFar'
  BY <1>2, <1>4, <1>5, OneMorePrepared
<1>7. v7' \in Seq(Places)
  BY <1>2, NextPlace DEF VariablesIInv
<1> QED
  BY <1>2, <1>6, <1>7, TableLeft DEF VariablesIInv, VariablesTypes

LEMMA PrepareNextKeeps ==
  ASSUME VariablesIInv, Variables!PrepareNextSubgraph
  PROVE  VariablesIInv'
<1>1. /\ v6 = "prepare" /\ v7 # <<>> /\ v7[1].i > Len(v1[v7[1].g]) /\ v7[1].g < Len(v1)
      /\ v7' = <<[g |-> v7[1].g + 1, i |-> 1]>>
      /\ UNCHANGED <<v1, v2, v3, v4, v5, v6, v9, v10, v11, v12, v13, v14>>
  BY DEF Variables!PrepareNextSubgraph, Variables!Preparing, Variables!Here,
     Variables!config, Variables!history
<1>2. /\ v7[1].g \in Nat /\ v7[1].g \in DOMAIN v1 /\ Len(v1) \in Nat /\ v7[1].g + 1 \in 1 .. Len(v1)
      /\ v7[1].i \in Nat
  BY <1>1, NextPlace, ModelFacts DEF VariablesIInv
<1>3. [g |-> v7[1].g + 1, i |-> 1] \in Places
  BY <1>2 DEF Places
<1>4. v7' \in Seq(Places) /\ Len(v7') = 1 /\ v7'[1].g = v7[1].g + 1 /\ v7'[1].i = 1
  BY <1>1, <1>3
<1>5. ASSUME NEW g \in DOMAIN v1, NEW i \in Nat, g < v7[1].g + 1 \/ (g = v7[1].g + 1 /\ i < 1)
      PROVE  AssignedBy(g, i)
  <2>1. DOMAIN v1[g] = 1 .. Len(v1[g]) /\ g \in Nat /\ Len(v1[g]) \in Nat
    BY ModelFacts DEF VariablesIInv
  <2>2. g < v7[1].g \/ g = v7[1].g \/ i < 1
    BY <1>2, <1>5, <2>1
  <2>3. CASE g < v7[1].g
    BY <1>1, <1>2, <2>1, <2>3 DEF VariablesIInv, PreparedSoFar
  <2>4. CASE g = v7[1].g /\ i < v7[1].i
    BY <1>1, <2>4 DEF VariablesIInv, PreparedSoFar
  <2>5. CASE g = v7[1].g /\ ~(i < v7[1].i)
    <3>1. i \notin DOMAIN v1[g]
      BY <1>1, <1>2, <2>1, <2>5
    <3> QED
      BY <3>1 DEF AssignedBy
  <2>6. CASE i < 1
    BY <2>1, <2>6 DEF AssignedBy
  <2> QED
    BY <2>2, <2>3, <2>4, <2>5, <2>6
<1>6. PreparedSoFar'
  BY <1>1, <1>4, <1>5 DEF VariablesIInv, PreparedSoFar, AssignedBy
<1> QED
  BY <1>1, <1>4, <1>6, TableLeft DEF VariablesIInv, VariablesTypes

\* While the model runs everything stays prepared.
LEMMA StaysPrepared ==
  ASSUME VariablesIInv, v6 \in {"idle", "invoke"}, v6' \in {"idle", "invoke"},
         UNCHANGED <<v1, v5, v11>>
  PROVE  PreparedSoFar'
  BY DEF VariablesIInv, PreparedSoFar, AssignedBy

LEMMA InvokeKeeps ==
  ASSUME VariablesIInv, Variables!Invoke
  PROVE  VariablesIInv'
<1>1. /\ v6 = "idle" /\ v10 < VariableModels.max_invocations /\ v6' = "invoke"
      /\ v7' = <<[g |-> 1, i |-> 1]>> /\ v9' \in VariableModels.inputs /\ v10' = v10 + 1
      /\ UNCHANGED <<v1, v2, v3, v4, v5, v11, v12, v13, v14>>
  BY DEF Variables!Invoke, Variables!config, Variables!history
<1>2. v7' \in Seq(Places)
  <2>1. [g |-> 1, i |-> 1] \in Places
    BY ModelFacts DEF VariablesIInv, Places
  <2> QED
    BY <1>1, <2>1
<1>3. v10' \in 0 .. VariableModels.max_invocations
  BY <1>1, VariablesAssumption DEF VariablesIInv, VariablesTypes
<1>4. PreparedSoFar'
  BY <1>1, StaysPrepared
<1> QED
  BY <1>1, <1>2, <1>3, <1>4, TableLeft DEF VariablesIInv, VariablesTypes

LEMMA InvokeHandleKeeps ==
  ASSUME VariablesIInv, Variables!InvokeVarHandle
  PROVE  VariablesIInv'
<1>1. /\ v6 = "invoke" /\ v7 # <<>> /\ v7' = Variables!NextOp
      /\ UNCHANGED <<v1, v2, v3, v4, v5, v6, v9, v10, v11, v12, v13, v14>>
  BY DEF Variables!InvokeVarHandle, Variables!Invoking, Variables!StillInvoking,
     Variables!config
<1>2. v7' \in Seq(Places) /\ PreparedSoFar'
  BY <1>1, NextPlace, StaysPrepared DEF VariablesIInv
<1> QED
  BY <1>1, <1>2, TableLeft DEF VariablesIInv, VariablesTypes

LEMMA InvokeCallOnceKeeps ==
  ASSUME VariablesIInv, Variables!InvokeCallOnce
  PROVE  VariablesIInv'
<1>1. /\ v6 = "invoke" /\ v7 # <<>> /\ Variables!AtOp("CALL_ONCE")
      /\ \/ v7' = Variables!NextOp
         \/ v7' = <<[g |-> Variables!Op.init_subgraph, i |-> 1]>> \o v7
      /\ UNCHANGED <<v1, v2, v3, v4, v5, v6, v9, v10, v11, v12, v13, v14>>
  BY DEF Variables!InvokeCallOnce, Variables!Invoking, Variables!StillInvoking,
     Variables!config
<1>2. Variables!Op.init_subgraph \in 1 .. Len(v1)
  BY <1>1, AtOperator, ModelFacts DEF VariablesIInv
<1>3. [g |-> Variables!Op.init_subgraph, i |-> 1] \in Places
  BY <1>2 DEF Places
<1>4. v7' \in Seq(Places)
  <2>1. VariablesTypes /\ v7 \in Seq(Places)
    BY DEF VariablesIInv, VariablesTypes
  <2>2. Variables!NextOp \in Seq(Places)
    BY <1>1, <2>1, NextPlace
  <2> DEFINE e == [g |-> Variables!Op.init_subgraph, i |-> 1]
  <2>3. e \in Places
    BY <1>3
  <2> HIDE DEF e, Places
  <2>4. <<e>> \o v7 \in Seq(Places)
    BY <2>1, <2>3
  <2> QED
    BY <1>1, <2>2, <2>4 DEF e
<1>5. PreparedSoFar'
  BY <1>1, StaysPrepared
<1> QED
  BY <1>1, <1>4, <1>5, TableLeft DEF VariablesIInv, VariablesTypes

LEMMA EndSubgraphKeeps ==
  ASSUME VariablesIInv, Variables!EndSubgraph
  PROVE  VariablesIInv'
<1>1. /\ v6 = "invoke" /\ v7 # <<>>
      /\ \/ /\ Len(v7) > 1 /\ v7' = [Tail(v7) EXCEPT ![1].i = Tail(v7)[1].i + 1]
            /\ v6' = "invoke"
         \/ v6' = "idle" /\ v7' = <<>>
      /\ UNCHANGED <<v1, v2, v3, v4, v5, v9, v10, v11, v12, v13, v14>>
  BY DEF Variables!EndSubgraph, Variables!Invoking, Variables!Here,
     Variables!config, Variables!history
<1>2. v7' \in Seq(Places)
  <2>1. CASE /\ Len(v7) > 1 /\ v7' = [Tail(v7) EXCEPT ![1].i = Tail(v7)[1].i + 1]
    <3>1. Tail(v7) \in Seq(Places) /\ Len(Tail(v7)) \in Nat /\ Len(Tail(v7)) >= 1
      BY <2>1 DEF VariablesIInv, VariablesTypes
    <3>2. PICK p \in Places : p = Tail(v7)[1]
      BY <3>1
    <3>3. [p EXCEPT !.i = p.i + 1] \in Places
      BY DEF Places
    <3>4. v7' = [Tail(v7) EXCEPT ![1] = [p EXCEPT !.i = p.i + 1]]
      BY <2>1, <3>2
    <3> QED
      BY <3>1, <3>3, <3>4
  <2>2. CASE v7' = <<>>
    BY <2>2
  <2> QED
    BY <1>1, <2>1, <2>2
<1>3. PreparedSoFar'
  BY <1>1, StaysPrepared
<1> QED
  BY <1>1, <1>2, <1>3, TableLeft DEF VariablesIInv, VariablesTypes

LEMMA FailInvocationKeeps ==
  ASSUME VariablesIInv, v6 = "invoke", Variables!FailInvocation
  PROVE  VariablesIInv'
<1>1. v6' = "idle" /\ v7' = <<>> /\ UNCHANGED <<v1, v2, v3, v4, v5, v9, v10, v11, v12, v13, v14>>
  BY DEF Variables!FailInvocation, Variables!config, Variables!history
<1>2. v7' \in Seq(Places) /\ PreparedSoFar'
  BY <1>1, StaysPrepared
<1> QED
  BY <1>1, <1>2, TableLeft DEF VariablesIInv, VariablesTypes

\* The variable that a handle stands for.
LEMMA OfHandle ==
  ASSUME VariablesIInv, v7 # <<>>, NEW code \in {"ASSIGN", "READ", "VAR_HANDLE"},
         Variables!AtOp(code), Variables!IsId(Variables!Handle)
  PROVE  /\ Variables!Handle \in DOMAIN v4
         /\ NameOf(v4[Variables!Handle])
              = Variables!PairOf(v1, v7[1].g, Variables!Op.handle)
<1>1. Variables!Handle \in DOMAIN v4
  BY DEF Variables!IsId
<1>2. Variables!Handle # 0
  BY <1>1 DEF VariablesIInv, VariablesTypes
<1>3. /\ Variables!Handle = v5[<<v7[1].g, Variables!Op.handle>>]
      /\ <<v7[1].g, Variables!Op.handle>> \in DOMAIN v5
  BY AtOperator, PairFacts DEF VariablesIInv
<1> QED
  BY <1>1, <1>2, <1>3 DEF VariablesIInv, PairsOwned

LEMMA InvokeReadKeeps ==
  ASSUME VariablesIInv, Variables!InvokeRead
  PROVE  VariablesIInv'
<1>1. CASE ~Variables!IsId(Variables!Handle)
  BY <1>1, FailInvocationKeeps DEF Variables!InvokeRead, Variables!Invoking
<1>2. CASE Variables!IsId(Variables!Handle)
  <2>1. v6 = "invoke" /\ v7 # <<>> /\ Variables!AtOp("READ")
    BY DEF Variables!InvokeRead, Variables!Invoking
  <2> DEFINE p == Variables!PairOf(v1, v7[1].g, Variables!Op.handle)
  <2>2. Variables!Handle \in DOMAIN v4 /\ NameOf(v4[Variables!Handle]) = p
    BY <1>2, <2>1, OfHandle
  <2>3. Variables!ReadsAssigned(v1) => v11[p] # "nullptr"
    <3> SUFFICES ASSUME Variables!ReadsAssigned(v1) PROVE v11[p] # "nullptr"
      OBVIOUS
    <3>1. PICK f \in DOMAIN v1 : \E j \in DOMAIN v1[f] :
            /\ v1[f][j].code = "ASSIGN"
            /\ Variables!PairOf(v1, f, v1[f][j].handle) = p
      <4>1. /\ VariablesTypes /\ v7[1].g \in DOMAIN v1 /\ v7[1].i \in DOMAIN v1[v7[1].g]
            /\ Variables!Op = v1[v7[1].g][v7[1].i] /\ Variables!Op.code = "READ"
        BY <2>1, AtOperator DEF VariablesIInv
      <4> QED
        BY <4>1 DEF Variables!ReadsAssigned
    <3>2. PICK j \in DOMAIN v1[f] :
            /\ v1[f][j].code = "ASSIGN"
            /\ Variables!PairOf(v1, f, v1[f][j].handle) = p
      BY <3>1
    <3>3. j \in Nat
      BY ModelFacts DEF VariablesIInv
    <3> QED
      BY <2>1, <3>2, <3>3 DEF VariablesIInv, PreparedSoFar, AssignedBy
  <2>4. CASE v4[Variables!Handle].resource_buffer = "nullptr"
    <3>1. ~Variables!ReadsAssigned(v1)
      BY <2>2, <2>3, <2>4 DEF VariablesIInv, BuffersAllocated
    <3>2. Variables!Crash
      BY <1>2, <2>4, VariableNames DEF Variables!InvokeRead
    <3> QED
      BY <3>1, <3>2, CrashStays
  <2> SUFFICES ASSUME v4[Variables!Handle].resource_buffer # "nullptr" PROVE VariablesIInv'
    BY <2>4
  <2>5. /\ v13' = [value |-> v4[Variables!Handle].resource_buffer, expected |-> v12[p]]
        /\ v7' = Variables!NextOp
        /\ UNCHANGED <<v1, v2, v3, v4, v5, v6, v9, v10, v11, v12, v14>>
    BY <1>2, <2>1, AtOperator, VariableNames
    DEF VariablesIInv, Variables!InvokeRead, Variables!StillInvoking, Variables!config
  <2>6. v13'.value = v13'.expected
    BY <2>1, <2>2, <2>5 DEF VariablesIInv, HoldStored
  <2>7. v7' \in Seq(Places) /\ PreparedSoFar'
    BY <2>1, <2>5, NextPlace, StaysPrepared DEF VariablesIInv
  <2> QED
    BY <2>1, <2>5, <2>6, <2>7, TableLeft DEF VariablesIInv, VariablesTypes
<1> QED
  BY <1>1, <1>2

LEMMA PrepareHandleKeeps ==
  ASSUME VariablesIInv, Variables!PrepareVarHandle
  PROVE  VariablesIInv'
<1> DEFINE c == Variables!Op.container
           n == Variables!Op.shared_name
           h == Variables!Op.handle
           id == Variables!FindId(c, n)
           created == Variables!Created(c, n)
           fresh == Variables!NewVariable(c, n)
<1>1. v6 = "prepare" /\ v7 # <<>> /\ Variables!AtOp("VAR_HANDLE")
  BY DEF Variables!PrepareVarHandle, Variables!Preparing
<1>2. /\ v7[1].g \in DOMAIN v1 /\ v7[1].i \in DOMAIN v1[v7[1].g] /\ VariablesTypes
      /\ Variables!Op = v1[v7[1].g][v7[1].i] /\ Variables!Op.code = "VAR_HANDLE"
      /\ Variables!Op \in Variables!Operators /\ Variables!Here = v7[1]
  BY <1>1, AtOperator DEF VariablesIInv
<1>3. /\ Variables!PairOf(v1, v7[1].g, h) = <<c, n>> /\ <<c, n>> \in Variables!PairsOf(v1)
      /\ <<v7[1].g, h>> \in DOMAIN v5 /\ c \in STRING /\ n \in STRING
  BY <1>2, PairFacts, OperatorFacts
<1>4. ~Variables!FindCrashes(c, n)
  BY <1>3, SamePair, VariableNames DEF Variables!FindCrashes
<1>5. CASE created[2] = 0
  BY <1>1, <1>4, <1>5, FailKeeps DEF Variables!PrepareVarHandle
<1>6. CASE created[2] # 0
  <2>1. /\ v4' = created[1] /\ v5' = [v5 EXCEPT ![<<v7[1].g, h>>] = created[2]]
        /\ v7' = Variables!NextOp
        /\ UNCHANGED <<v1, v2, v3, v6, v9, v10, v11, v12, v13, v14>>
    BY <1>2, <1>4, <1>6 DEF Variables!PrepareVarHandle, Variables!StillPreparing,
       Variables!config
  <2>2. /\ fresh \in Variable /\ NameOf(fresh) = <<c, n>>
        /\ fresh.resource_buffer = "nullptr" /\ fresh.bytes = 0
    <3>1. fresh = [container |-> c, shared_name |-> n, resource_buffer |-> "nullptr",
                   bytes |-> 0, default_value |-> "0"]
      BY VariableNames DEF Variables!NewVariable
    <3>2. c \in STRING /\ n \in STRING
      BY <1>3
    <3> HIDE DEF c, n, fresh
    <3>3. fresh \in Variable
      BY <3>1, <3>2 DEF Variable, Values
    <3> QED
      BY <3>1, <3>3 DEF NameOf
  <2>3. \/ created[1] = v4 /\ created[2] = id /\ id # 0
        \/ /\ id = 0 /\ Len(v4) < v2
           /\ created[1] = Append(v4, fresh) /\ created[2] = Len(v4) + 1
    <3>1. v2 \in Nat /\ Len(v4) \in Nat
      BY <1>2, VariablesAssumption DEF VariablesTypes
    <3> QED
      BY <1>6, <3>1 DEF Variables!Created, Variables!TableFull
  <2> HIDE DEF id, created, fresh
  \* The table grows at most by a variable for this pair.
  <2>4. /\ v4' \in Seq(Variable) /\ Len(v4') <= v2
        /\ \A k \in DOMAIN v4 : k \in DOMAIN v4' /\ v4'[k] = v4[k]
        /\ v5'[<<v7[1].g, h>>] \in DOMAIN v4'
        /\ NameOf(v4'[v5'[<<v7[1].g, h>>]]) = <<c, n>>
        /\ \A k \in DOMAIN v4' : k \in DOMAIN v4
             \/ (/\ k = Len(v4) + 1 /\ v4'[k] = fresh
                 /\ \A l \in DOMAIN v4 : NameOf(v4[l]) # <<c, n>>)
    <3>1. v5'[<<v7[1].g, h>>] = created[2]
      BY <1>3, <2>1
    <3>2. v4 \in Seq(Variable) /\ Len(v4) <= v2 /\ v2 \in Nat
      BY <1>2, VariablesAssumption DEF VariablesTypes
    <3>3. CASE created[1] = v4 /\ created[2] = id /\ id # 0
      BY <1>3, <2>1, <3>1, <3>2, <3>3, FoundId DEF id
    <3>4. CASE /\ id = 0 /\ Len(v4) < v2
               /\ created[1] = Append(v4, fresh) /\ created[2] = Len(v4) + 1
      <4>1. /\ v4' \in Seq(Variable) /\ Len(v4') = Len(v4) + 1 /\ Len(v4) \in Nat
            /\ DOMAIN v4 = 1 .. Len(v4) /\ DOMAIN v4' = 1 .. Len(v4) + 1
            /\ \A k \in DOMAIN v4 : v4'[k] = v4[k]
            /\ v4'[Len(v4) + 1] = fresh
        BY <2>1, <2>2, <3>2, <3>4
      <4>2. \A l \in DOMAIN v4 : NameOf(v4[l]) # <<c, n>>
        BY <1>3, <3>4, FoundId DEF id
      <4>3. v5'[<<v7[1].g, h>>] = Len(v4) + 1
        BY <3>1, <3>4
      <4>4. Len(v4') <= v2
        BY <3>2, <3>4, <4>1
      <4>5. \A k \in DOMAIN v4' : k \in DOMAIN v4 \/ k = Len(v4) + 1
        BY <4>1
      <4> QED
        BY <2>2, <4>1, <4>2, <4>3, <4>4, <4>5
    <3> QED
      BY <2>3, <3>3, <3>4
  <2>5. DOMAIN v5' = DOMAIN v5 /\ \A x \in DOMAIN v5 : x # <<v7[1].g, h>> => v5'[x] = v5[x]
    BY <1>3, <2>1
  <2>6. VariablesTypes'
    <3>1. v7' \in Seq(Places)
      BY <1>1, <1>2, <2>1, NextPlace, SMTT(60)
    <3>2. \A x \in DOMAIN v5' : v5'[x] = 0 \/ v5'[x] \in DOMAIN v4'
      BY <1>2, <2>4, <2>5 DEF VariablesTypes
    <3>3. /\ UNCHANGED <<v1, v2, v3, v6, v9, v10, v11, v12>> /\ VariablesTypes
          /\ Places' = Places
      BY <1>2, <2>1 DEF Places
    <3>4. v4' \in Seq(Variable) /\ Len(v4') <= v2
      BY <2>4
    <3> HIDE DEF Places
    <3> QED
      BY ONLY <2>5, <3>1, <3>2, <3>3, <3>4 DEF VariablesTypes
  <2>7. PairsOwned'
    <3>1. \A k \in DOMAIN v4 : NameOf(v4'[k]) = NameOf(v4[k])
      BY <2>4
    <3>2. \A k \in DOMAIN v4' : NameOf(v4'[k]) \in Variables!PairsOf(v1)
      BY <1>3, <2>2, <2>4 DEF VariablesIInv, PairsOwned
    <3>3. ASSUME NEW k \in DOMAIN v4', NEW l \in DOMAIN v4',
                 NameOf(v4'[k]) = NameOf(v4'[l])
          PROVE  k = l
      <4>1. CASE k \in DOMAIN v4 /\ l \in DOMAIN v4
        BY <3>1, <3>3, <4>1 DEF VariablesIInv, PairsOwned
      <4>2. CASE k \in DOMAIN v4 /\ l \notin DOMAIN v4
        BY <2>2, <2>4, <3>1, <3>3, <4>2
      <4>3. CASE k \notin DOMAIN v4 /\ l \in DOMAIN v4
        BY <2>2, <2>4, <3>1, <3>3, <4>3
      <4>4. CASE k \notin DOMAIN v4 /\ l \notin DOMAIN v4
        BY <2>4, <4>4
      <4> QED
        BY <4>1, <4>2, <4>3, <4>4
    <3>4. ASSUME NEW g, NEW x, <<g, x>> \in DOMAIN v5', v5'[<<g, x>>] # 0
          PROVE  NameOf(v4'[v5'[<<g, x>>]]) = Variables!PairOf(v1, g, x)
      <4>1. CASE <<g, x>> = <<v7[1].g, h>>
        <5>1. g = v7[1].g /\ x = h
          BY <4>1
        <5> QED
          BY <1>3, <2>4, <5>1
      <4>2. CASE <<g, x>> # <<v7[1].g, h>>
        <5>1. <<g, x>> \in DOMAIN v5 /\ v5'[<<g, x>>] = v5[<<g, x>>]
          BY <2>5, <3>4, <4>2
        <5>2. v5[<<g, x>>] \in DOMAIN v4
          BY <1>2, <3>4, <5>1 DEF VariablesTypes
        <5> QED
          BY <3>1, <3>4, <5>1, <5>2 DEF VariablesIInv, PairsOwned
      <4> QED
        BY <4>1, <4>2
    <3> QED
      BY <2>1, <3>2, <3>3, <3>4 DEF PairsOwned, NameOf
  <2>8. BuffersAllocated'
    <3>1. \A p \in DOMAIN v11 : v11[p] # "nullptr" => \E k \in DOMAIN v4' : NameOf(v4'[k]) = p
      BY <2>4 DEF VariablesIInv, BuffersAllocated
    <3>2. ASSUME NEW k \in DOMAIN v4'
          PROVE  LET p == NameOf(v4'[k])
                 IN  /\ v4'[k].resource_buffer = "nullptr" <=> v11[p] = "nullptr"
                     /\ v11[p] # "nullptr" => v4'[k].default_value = v11[p]
                     /\ v4'[k].bytes > 0 => v4'[k].resource_buffer # "nullptr"
      <4>1. CASE k \in DOMAIN v4
        BY <1>1, <2>4, <4>1 DEF VariablesIInv, BuffersAllocated, OutOfRoom
      <4>2. CASE k \notin DOMAIN v4
        <5>1. /\ v4'[k] = fresh /\ NameOf(v4'[k]) = <<c, n>>
              /\ \A l \in DOMAIN v4 : NameOf(v4[l]) # <<c, n>>
          BY <2>2, <2>4, <4>2, SMTT(60)
        <5>2. v11[<<c, n>>] = "nullptr"
          BY <1>2, <1>3, <5>1 DEF VariablesIInv, BuffersAllocated, VariablesTypes
        <5> QED
          BY <2>2, <5>1, <5>2
      <4> QED
        BY <4>1, <4>2
    <3> QED
      BY <2>1, <3>1, <3>2 DEF BuffersAllocated, NameOf
  <2>9. PreparedSoFar'
    <3>1. PICK f, j : f = v7[1].g /\ j = v7[1].i
      OBVIOUS
    <3>2. v5'[<<v7[1].g, h>>] # 0
      BY <2>4, <2>6 DEF VariablesTypes
    <3>3. AssignedBy(f, j)'
      BY <1>2, <2>1, <3>1, <3>2 DEF AssignedBy
    <3> QED
      BY <1>1, <2>1, <2>5, <3>1, <3>2, <3>3, OneMorePrepared
  <2> QED
    BY <1>1, <2>1, <2>6, <2>7, <2>8, <2>9, SMTT(60) DEF VariablesIInv, HoldStored, Variables!NullsFollowed
<1> QED
  BY <1>5, <1>6

\* A variable that changes only in what it holds keeps its pair.
LEMMA SameVariables ==
  ASSUME VariablesIInv, v1' = v1, v5' = v5, DOMAIN v4' = DOMAIN v4,
         \A k \in DOMAIN v4 : NameOf(v4'[k]) = NameOf(v4[k])
  PROVE  PairsOwned'
<1>1. \A k \in DOMAIN v4' : NameOf(v4'[k]) \in Variables!PairsOf(v1)
  BY DEF VariablesIInv, PairsOwned
<1>2. \A j, k \in DOMAIN v4' : NameOf(v4'[j]) = NameOf(v4'[k]) => j = k
  BY DEF VariablesIInv, PairsOwned
<1>3. ASSUME NEW g, NEW h, <<g, h>> \in DOMAIN v5, v5[<<g, h>>] # 0
      PROVE  NameOf(v4'[v5[<<g, h>>]]) = Variables!PairOf(v1, g, h)
  <2>1. v5[<<g, h>>] \in DOMAIN v4
    BY <1>3 DEF VariablesIInv, VariablesTypes
  <2> QED
    BY <1>3, <2>1 DEF VariablesIInv, PairsOwned
<1> QED
  BY <1>1, <1>2, <1>3 DEF PairsOwned, NameOf

LEMMA PrepareAssignKeeps ==
  ASSUME VariablesIInv, Variables!PrepareAssign
  PROVE  VariablesIInv'
<1> DEFINE id == Variables!Handle
           z == Variables!Op.zero_point
           p == Variables!PairOf(v1, v7[1].g, Variables!Op.handle)
<1>1. v6 = "prepare" /\ v7 # <<>> /\ Variables!AtOp("ASSIGN")
  BY DEF Variables!PrepareAssign, Variables!Preparing
<1>2. /\ v7[1].g \in DOMAIN v1 /\ v7[1].i \in DOMAIN v1[v7[1].g] /\ VariablesTypes
      /\ Variables!Op = v1[v7[1].g][v7[1].i] /\ Variables!Op.code = "ASSIGN"
      /\ Variables!Op \in Variables!Operators /\ Variables!Here = v7[1]
  BY <1>1, AtOperator DEF VariablesIInv
<1>3. z \in STRING /\ z # "nullptr"
  BY <1>2, OperatorFacts
<1>6. id # 0 /\ Variables!IsId(id)
  <2> DEFINE f == v7[1].g
             h == Variables!Op.handle
  <2>1. v7[1].i \in 1 .. Len(v1[f]) /\ Len(v1[f]) \in Nat
    BY <1>2, ModelFacts
  <2>2. PICK j \in 1 .. v7[1].i : Variables!MakersOf(v1, f, h) = {j}
    BY <1>2, ModelFacts, ZenonT(60) DEF Variables!WellFormed
  <2>3. j \in DOMAIN v1[f] /\ v1[f][j].code = "VAR_HANDLE" /\ v1[f][j].handle = h
    BY <2>2 DEF Variables!MakersOf
  <2>4. j < v7[1].i /\ j \in Nat
    BY <1>2, <2>1, <2>3
  <2>5. v5[<<f, h>>] # 0
    BY <1>1, <1>2, <2>3, <2>4 DEF VariablesIInv, PreparedSoFar, AssignedBy
  <2>6. <<f, h>> \in DOMAIN v5 /\ id = v5[<<f, h>>]
    BY <1>1, <1>2, AtOperator, PairFacts
  <2> QED
    BY <2>5, <2>6, <1>2 DEF VariablesTypes, Variables!IsId
\* There is no room: only bytes changes, and the allocation ends.
<1>4. CASE ~Variables!AllocateOk(id)
  <2>1. /\ v4' = Variables!Allocated(id, z) /\ v6' = "failed"
        /\ UNCHANGED <<v1, v2, v3, v5, v7, v9, v10, v11, v12, v13, v14>>
    BY <1>4, <1>6 DEF Variables!PrepareAssign, Variables!config
  <2>2. Variables!Allocates(id) /\ v3 = 0
    BY <1>2, <1>4, <1>6 DEF Variables!AllocateOk, VariablesTypes
  <2>3. v4 \in Seq(Variable) /\ id \in DOMAIN v4
    BY <1>2, <1>6 DEF VariablesTypes, Variables!IsId
  <2> HIDE DEF id, p, z
  <2>4. v4[id] \in Variable
    BY <2>3
  <2> DEFINE after == [v4[id] EXCEPT !.bytes = 1]
  <2>5. v4' = [v4 EXCEPT ![id] = after]
    BY <2>1, <2>2, <2>3 DEF Variables!Allocated
  <2>6. /\ after \in Variable /\ NameOf(after) = NameOf(v4[id])
        /\ after.resource_buffer = v4[id].resource_buffer
        /\ after.default_value = v4[id].default_value
    BY <2>4 DEF Variable, NameOf
  <2> HIDE DEF after
  <2>7. /\ v4' \in Seq(Variable) /\ Len(v4') = Len(v4) /\ DOMAIN v4' = DOMAIN v4
        /\ v4'[id] = after /\ \A k \in DOMAIN v4 : k # id => v4'[k] = v4[k]
    BY <2>3, <2>5, <2>6
  <2>8. \A k \in DOMAIN v4 : /\ NameOf(v4'[k]) = NameOf(v4[k])
                            /\ v4'[k].resource_buffer = v4[k].resource_buffer
                            /\ v4'[k].default_value = v4[k].default_value
    BY <2>6, <2>7
  <2>9. VariablesTypes'
    BY <1>2, <2>1, <2>7 DEF VariablesTypes, Places
  <2>10. PairsOwned'
    BY <2>1, <2>7, <2>8, SameVariables
  <2>11. BuffersAllocated'
    <3>1. OutOfRoom'
      BY <2>1, <2>2 DEF OutOfRoom
    <3> QED
      BY <2>1, <2>7, <2>8, <3>1 DEF VariablesIInv, BuffersAllocated
  <2>12. PreparedSoFar'
    BY <1>1, <2>1 DEF VariablesIInv, PreparedSoFar
  <2> QED
    BY <2>1, <2>9, <2>10, <2>11, <2>12 DEF VariablesIInv, HoldStored, Variables!NullsFollowed
<1>5. CASE Variables!AllocateOk(id)
  <2>1. /\ v4' = Variables!Allocated(id, z)
        /\ v3' = IF Variables!Allocates(id) THEN v3 - 1 ELSE v3
        /\ v11' = [v11 EXCEPT ![p] = IF v11[p] = "nullptr" THEN z ELSE v11[p]]
        /\ v7' = Variables!NextOp
        /\ UNCHANGED <<v1, v2, v5, v6, v9, v10, v12, v13, v14>>
    BY <1>2, <1>5, <1>6, VariableNames DEF Variables!PrepareAssign, Variables!StillPreparing,
       Variables!config
  <2>2. Variables!IsId(id) /\ (Variables!Allocates(id) => v3 > 0)
    BY <1>5 DEF Variables!AllocateOk
  <2>3. id \in DOMAIN v4 /\ NameOf(v4[id]) = p
    BY <1>1, <2>2, OfHandle
  <2>4. p \in DOMAIN v11
    BY <2>3 DEF VariablesIInv, PairsOwned, VariablesTypes
  <2>5. Variables!Allocates(id) <=> v11[p] = "nullptr"
    BY <2>3, VariableNames DEF Variables!Allocates, VariablesIInv, BuffersAllocated
  <2>6. v3 \in Nat /\ v4 \in Seq(Variable)
    BY <1>2 DEF VariablesTypes
  <2> HIDE DEF id, p, z
  <2>7. v4[id] \in Variable
    BY <2>3, <2>6
  <2> DEFINE after == IF v11[p] = "nullptr"
                      THEN [v4[id] EXCEPT !.bytes = 1, !.resource_buffer = z, !.default_value = z]
                      ELSE v4[id]
  <2>8. v4' = [v4 EXCEPT ![id] = after]
    <3>1. CASE v11[p] = "nullptr"
      <4>1. v3 # 0
        BY <2>2, <2>5, <2>6, <3>1
      <4> QED
        BY <2>1, <2>3, <2>5, <3>1, <4>1 DEF Variables!Allocated
    <3>2. CASE v11[p] # "nullptr"
      <4>1. v4' = v4
        BY <2>1, <2>5, <3>2 DEF Variables!Allocated
      <4> QED
        BY <2>3, <2>6, <3>2, <4>1
    <3> QED
      BY <3>1, <3>2
  <2>9. /\ after \in Variable /\ NameOf(after) = p
        /\ after.resource_buffer # "nullptr"
        /\ after.default_value = v11'[p] /\ v11'[p] # "nullptr"
    <3>1. CASE v11[p] = "nullptr"
      <4>1. v11'[p] = z
        BY <2>1, <2>4, <3>1
      <4> QED
        BY <1>3, <2>3, <2>7, <3>1, <4>1 DEF Variable, Values, NameOf, z
    <3>2. CASE v11[p] # "nullptr"
      <4>1. v11'[p] = v11[p]
        BY <2>1, <2>4, <3>2
      <4>2. v4[id].resource_buffer # "nullptr" /\ v4[id].default_value = v11[p]
        BY <2>3, <3>2 DEF VariablesIInv, BuffersAllocated
      <4> QED
        BY <2>3, <2>7, <3>2, <4>1, <4>2
    <3> QED
      BY <3>1, <3>2
  <2> HIDE DEF after
  <2>10. /\ v4' \in Seq(Variable) /\ Len(v4') = Len(v4) /\ DOMAIN v4' = DOMAIN v4
         /\ v4'[id] = after /\ \A k \in DOMAIN v4 : k # id => v4'[k] = v4[k]
    BY <2>3, <2>6, <2>8, <2>9
  <2>11. /\ DOMAIN v11' = DOMAIN v11
         /\ \A q \in DOMAIN v11 : q # p => v11'[q] = v11[q]
    BY <2>1
  <2>12. \A k \in DOMAIN v4 : NameOf(v4'[k]) = NameOf(v4[k])
    BY <2>3, <2>9, <2>10
  <2>13. VariablesTypes'
    <3>1. v7' \in Seq(Places)
      BY <1>1, <1>2, <2>1, NextPlace
    <3>2. v3' \in Nat
      BY <2>1, <2>2, <2>6
    <3> QED
      BY <1>2, <2>1, <2>10, <2>11, <3>1, <3>2 DEF VariablesTypes, Places
  <2>14. PairsOwned'
    BY <2>1, <2>10, <2>12, SameVariables
  <2>15. BuffersAllocated'
    <3>1. ASSUME NEW q \in DOMAIN v11', v11'[q] # "nullptr"
          PROVE  \E k \in DOMAIN v4' : NameOf(v4'[k]) = q
      <4>1. CASE q = p
        BY <2>3, <2>10, <2>12, <4>1
      <4>2. CASE q # p
        <5>1. v11[q] # "nullptr" /\ q \in DOMAIN v11
          BY <2>11, <3>1, <4>2
        <5> QED
          BY <2>10, <2>12, <5>1 DEF VariablesIInv, BuffersAllocated
      <4> QED
        BY <4>1, <4>2
    <3>2. ASSUME NEW k \in DOMAIN v4'
          PROVE  LET q == NameOf(v4'[k])
                 IN  /\ v4'[k].resource_buffer = "nullptr" <=> v11'[q] = "nullptr"
                     /\ v11'[q] # "nullptr" => v4'[k].default_value = v11'[q]
                     /\ v4'[k].bytes > 0 => v4'[k].resource_buffer # "nullptr"
      <4>1. CASE k = id
        BY <2>9, <2>10, <4>1
      <4>2. CASE k # id
        <5>1. k \in DOMAIN v4 /\ v4'[k] = v4[k] /\ NameOf(v4[k]) # p
          BY <2>3, <2>10, <4>2 DEF VariablesIInv, PairsOwned
        <5>2. v11'[NameOf(v4[k])] = v11[NameOf(v4[k])]
          BY <2>11, <5>1 DEF VariablesIInv, PairsOwned, VariablesTypes
        <5> QED
          BY <1>1, <5>1, <5>2 DEF VariablesIInv, BuffersAllocated, OutOfRoom
      <4> QED
        BY <4>1, <4>2
    <3> QED
      BY <3>1, <3>2 DEF BuffersAllocated, NameOf
  <2>16. PreparedSoFar'
    <3>1. PICK f, j : f = v7[1].g /\ j = v7[1].i
      OBVIOUS
    <3>2. v11'[Variables!PairOf(v1, f, v1[f][j].handle)] # "nullptr"
      BY <1>2, <2>9, <3>1 DEF p
    <3>3. AssignedBy(f, j)'
      BY <1>2, <2>1, <3>1, <3>2 DEF AssignedBy
    <3>4. \A q \in DOMAIN v11 : v11[q] # "nullptr" => v11'[q] # "nullptr"
      BY <2>9, <2>11
    <3> QED
      BY <1>1, <2>1, <3>1, <3>3, <3>4, OneMorePrepared
  <2> QED
    BY <1>1, <2>1, <2>13, <2>14, <2>15, <2>16
    DEF VariablesIInv, HoldStored, Variables!NullsFollowed
<1> QED
  BY <1>4, <1>5

LEMMA InvokeAssignKeeps ==
  ASSUME VariablesIInv, Variables!InvokeAssign
  PROVE  VariablesIInv'
<1> DEFINE id == Variables!Handle
           v == IF Variables!Op.value = "input" THEN v9 ELSE Variables!Op.value
           p == Variables!PairOf(v1, v7[1].g, Variables!Op.handle)
<1>1. v6 = "invoke" /\ v7 # <<>> /\ Variables!AtOp("ASSIGN")
  BY DEF Variables!InvokeAssign, Variables!Invoking
<1>2. /\ v7[1].g \in DOMAIN v1 /\ v7[1].i \in DOMAIN v1[v7[1].g] /\ VariablesTypes
      /\ Variables!Op = v1[v7[1].g][v7[1].i] /\ Variables!Op.code = "ASSIGN"
      /\ Variables!Op \in Variables!Operators /\ Variables!Here = v7[1]
  BY <1>1, AtOperator DEF VariablesIInv
<1>3. v \in STRING /\ v # "nullptr"
  BY <1>2, OperatorFacts, VariablesAssumption, VariableNames DEF VariablesTypes
<1>4. CASE ~Variables!IsId(id) \/ v4[id].resource_buffer = "nullptr"
  BY <1>1, <1>4, FailInvocationKeeps, VariableNames DEF Variables!InvokeAssign
<1>5. CASE Variables!IsId(id) /\ v4[id].resource_buffer # "nullptr"
  <2>1. /\ v4' = Variables!Assigned(v) /\ v12' = [v12 EXCEPT ![p] = v]
        /\ v7' = Variables!NextOp
        /\ UNCHANGED <<v1, v2, v3, v5, v6, v9, v10, v11, v13, v14>>
    BY <1>2, <1>5, VariableNames DEF Variables!InvokeAssign, Variables!StillInvoking,
       Variables!config
  <2>2. id \in DOMAIN v4 /\ NameOf(v4[id]) = p
    BY <1>1, <1>5, OfHandle
  <2>3. p \in DOMAIN v12
    BY <2>2 DEF VariablesIInv, PairsOwned, VariablesTypes
  <2>4. v4 \in Seq(Variable)
    BY <1>2 DEF VariablesTypes
  <2> DEFINE after == [v4[id] EXCEPT !.resource_buffer = v]
  <2>5. v4' = [v4 EXCEPT ![id] = after]
    BY <2>1 DEF Variables!Assigned
  <2> HIDE DEF id, p, v
  <2>6. v4[id] \in Variable
    BY <2>2, <2>4
  <2>7. /\ after \in Variable /\ NameOf(after) = p
        /\ after.resource_buffer = v /\ v # "nullptr"
        /\ after.default_value = v4[id].default_value
        /\ Variables!Reset(after) = Variables!Reset(v4[id])
    <3>1. /\ after \in Variable /\ NameOf(after) = NameOf(v4[id])
          /\ after.resource_buffer = v /\ after.default_value = v4[id].default_value
      BY <1>3, <2>6 DEF Variable, Values, NameOf
    <3>2. Variables!Reset(after) = [after EXCEPT !.resource_buffer = after.default_value]
      BY <1>3, <3>1, VariableNames DEF Variables!Reset
    <3>3. Variables!Reset(v4[id]) = [v4[id] EXCEPT !.resource_buffer = v4[id].default_value]
      BY <1>5, VariableNames DEF Variables!Reset
    <3>4. [after EXCEPT !.resource_buffer = after.default_value]
            = [v4[id] EXCEPT !.resource_buffer = v4[id].default_value]
      BY <2>6, <3>1 DEF Variable
    <3> QED
      BY <1>3, <2>2, <3>1, <3>2, <3>3, <3>4
  <2> HIDE DEF after
  <2>8. /\ v4' \in Seq(Variable) /\ Len(v4') = Len(v4) /\ DOMAIN v4' = DOMAIN v4
        /\ v4'[id] = after /\ \A k \in DOMAIN v4 : k # id => v4'[k] = v4[k]
    BY <2>2, <2>4, <2>5, <2>7
  <2>9. \A k \in DOMAIN v4 : NameOf(v4'[k]) = NameOf(v4[k])
    BY <2>2, <2>7, <2>8
  <2>10. DOMAIN v12' = DOMAIN v12 /\ v12'[p] = v /\ \A q \in DOMAIN v12 : q # p => v12'[q] = v12[q]
    BY <2>1, <2>3
  <2>11. VariablesTypes'
    <3>1. v7' \in Seq(Places)
      BY <1>1, <1>2, <2>1, NextPlace
    <3> QED
      BY <1>2, <2>1, <2>8, <2>10, <3>1 DEF VariablesTypes, Places
  <2>12. PairsOwned'
    BY <2>1, <2>8, <2>9, SameVariables
  <2>13. BuffersAllocated'
    <3>1. \A q \in DOMAIN v11 : v11[q] # "nullptr" => \E k \in DOMAIN v4' : NameOf(v4'[k]) = q
      BY <2>8, <2>9 DEF VariablesIInv, BuffersAllocated
    <3>2. ASSUME NEW k \in DOMAIN v4'
          PROVE  LET q == NameOf(v4'[k])
                 IN  /\ v4'[k].resource_buffer = "nullptr" <=> v11[q] = "nullptr"
                     /\ v11[q] # "nullptr" => v4'[k].default_value = v11[q]
                     /\ v4'[k].bytes > 0 => v4'[k].resource_buffer # "nullptr"
      <4>1. CASE k = id
        <5>1. v11[p] # "nullptr" /\ v4[id].default_value = v11[p]
          BY <1>5, <2>2 DEF VariablesIInv, BuffersAllocated, id
        <5> QED
          BY <2>7, <2>8, <4>1, <5>1
      <4>2. CASE k # id
        BY <1>1, <2>8, <4>2 DEF VariablesIInv, BuffersAllocated, OutOfRoom
      <4> QED
        BY <4>1, <4>2
    <3> QED
      BY <2>1, <3>1, <3>2 DEF BuffersAllocated, NameOf
  <2>14. PreparedSoFar'
    BY <1>1, <2>1, StaysPrepared
  <2>15. HoldStored'
    <3>1. ASSUME NEW k \in DOMAIN v4'
          PROVE  v12'[NameOf(v4'[k])] = v4'[k].resource_buffer
      <4>1. CASE k = id
        BY <2>7, <2>8, <2>10, <4>1
      <4>2. CASE k # id
        <5>1. k \in DOMAIN v4 /\ v4'[k] = v4[k] /\ NameOf(v4[k]) # p
          BY <2>2, <2>8, <4>2 DEF VariablesIInv, PairsOwned
        <5>2. v12'[NameOf(v4[k])] = v12[NameOf(v4[k])]
          BY <2>10, <5>1 DEF VariablesIInv, PairsOwned, VariablesTypes
        <5> QED
          BY <1>1, <5>1, <5>2 DEF VariablesIInv, HoldStored
      <4> QED
        BY <4>1, <4>2
    <3>2. \A k \in DOMAIN v4 : Variables!Reset(v4'[k]) = Variables!Reset(v4[k])
      BY <2>7, <2>8
    <3>3. [k \in DOMAIN v4' |-> Variables!Reset(v4'[k])] = [k \in DOMAIN v4 |-> Variables!Reset(v4[k])]
      BY <2>8, <3>2
    <3>4. v14' # <<>> /\ v14'[1] = [k \in DOMAIN v4' |-> Variables!Reset(v4'[k])]
      BY <1>1, <2>1, <3>3 DEF VariablesIInv, HoldStored
    <3> QED
      BY <3>1, <3>4 DEF HoldStored, NameOf, Variables!Reset
  <2> QED
    BY <1>1, <2>1, <2>11, <2>12, <2>13, <2>14, <2>15 DEF VariablesIInv, Variables!NullsFollowed
<1> QED
  BY <1>4, <1>5

\* A reset follows a null pointer only after there was no room.
LEMMA ResetNullKeeps ==
  ASSUME VariablesIInv, v6 # "crashed", Variables!ResetNull
  PROVE  VariablesIInv' /\ v6 = "failed"
<1>1. OutOfRoom
  BY VariableNames DEF VariablesIInv, BuffersAllocated, Variables!ResetNull,
     Variables!ResetCrashes
<1> QED
  BY <1>1, CrashStays DEF VariablesIInv, PreparedSoFar, OutOfRoom, Variables!ResetNull

\* Otherwise it gives every allocated buffer its default.
LEMMA ResetAllKeeps ==
  ASSUME VariablesIInv, Variables!ResetAll, v7' \in Seq(Places), v6' \in {"idle", "failed"},
         v6' = "idle" =>
           /\ \A g \in DOMAIN v1, i \in Nat : AssignedBy(g, i)
           /\ v14' # <<>> /\ v14'[1] = [k \in DOMAIN v4 |-> Variables!Reset(v4[k])],
         v6' = "failed" => v14' = <<>>
  PROVE  VariablesIInv'
<1>1. \A k \in DOMAIN v4 : v4[k].bytes > 0 => v4[k].resource_buffer # "nullptr"
  BY VariableNames DEF Variables!ResetAll, Variables!ResetCrashes
<1>2. /\ v4' = [k \in DOMAIN v4 |-> Variables!Reset(v4[k])] /\ v12' = v11
      /\ UNCHANGED <<v1, v2, v3, v5, v9, v10, v11, v13>>
  BY DEF Variables!ResetAll, Variables!config
<1>3. v4 \in Seq(Variable) /\ Len(v4) \in Nat /\ DOMAIN v4 = 1 .. Len(v4)
  BY DEF VariablesIInv, VariablesTypes
<1>4. ASSUME NEW k \in DOMAIN v4
      PROVE  LET p == NameOf(v4[k])
             IN  /\ Variables!Reset(v4[k]) \in Variable
                 /\ NameOf(Variables!Reset(v4[k])) = p
                 /\ Variables!Reset(v4[k]).resource_buffer = v11[p]
                 /\ Variables!Reset(v4[k]).default_value = v4[k].default_value
                 /\ Variables!Reset(v4[k]).bytes = v4[k].bytes
                 /\ Variables!Reset(Variables!Reset(v4[k])) = Variables!Reset(v4[k])
  <2> DEFINE p == NameOf(v4[k])
  <2>1. /\ v4[k].resource_buffer = "nullptr" <=> v11[p] = "nullptr"
        /\ v11[p] # "nullptr" => v4[k].default_value = v11[p]
    BY DEF VariablesIInv, BuffersAllocated
  <2>2. v4[k] \in Variable
    BY <1>3
  <2>3. CASE v4[k].resource_buffer = "nullptr"
    <3>1. Variables!Reset(v4[k]) = v4[k]
      BY <2>2, <2>3, VariableNames DEF Variables!Reset, Variable
    <3> QED
      BY <2>1, <2>2, <2>3, <3>1
  <2>4. CASE v4[k].resource_buffer # "nullptr"
    <3> DEFINE after == [v4[k] EXCEPT !.resource_buffer = v4[k].default_value]
    <3>1. Variables!Reset(v4[k]) = after
      BY <2>4, VariableNames DEF Variables!Reset
    <3>2. /\ after \in Variable /\ NameOf(after) = p
          /\ after.resource_buffer = v4[k].default_value
          /\ after.default_value = v4[k].default_value /\ after.bytes = v4[k].bytes
      BY <2>2 DEF Variable, NameOf
    <3>3. v4[k].default_value = v11[p] /\ v11[p] # "nullptr"
      BY <2>1, <2>4
    <3>4. Variables!Reset(after) = [after EXCEPT !.resource_buffer = after.default_value]
      BY <3>2, <3>3, VariableNames DEF Variables!Reset
    <3>5. [after EXCEPT !.resource_buffer = after.default_value] = after
      BY <2>2, <3>2 DEF Variable
    <3> HIDE DEF after
    <3> QED
      BY <3>1, <3>2, <3>3, <3>4, <3>5
  <2> QED
    BY <2>3, <2>4
<1>5. DOMAIN v4' = DOMAIN v4 /\ v4' \in Seq(Variable) /\ Len(v4') = Len(v4)
  <2>1. v4' \in [1 .. Len(v4) -> Variable]
    BY <1>2, <1>3, <1>4
  <2> QED
    BY ONLY <1>3, <2>1
<1>6. \A k \in DOMAIN v4 : v4'[k] = Variables!Reset(v4[k])
  BY <1>2
<1>7. VariablesTypes'
  <2>1. Places' = Places
    BY <1>2 DEF Places
  <2>2. VariablesTypes /\ UNCHANGED <<v1, v2, v3, v5, v9, v10, v11, v13>> /\ v12' = v11
    BY <1>2 DEF VariablesIInv
  <2> HIDE DEF Places
  <2> QED
    BY <1>5, <2>1, <2>2 DEF VariablesTypes
<1>8. PairsOwned'
  BY <1>2, <1>4, <1>5, <1>6, SameVariables
<1>9. BuffersAllocated'
  <2>1. \A q \in DOMAIN v11 : v11[q] # "nullptr" => \E k \in DOMAIN v4' : NameOf(v4'[k]) = q
    BY <1>4, <1>5, <1>6 DEF VariablesIInv, BuffersAllocated
  <2>2. ASSUME NEW k \in DOMAIN v4'
        PROVE  LET q == NameOf(v4'[k])
               IN  /\ v4'[k].resource_buffer = "nullptr" <=> v11[q] = "nullptr"
                   /\ v11[q] # "nullptr" => v4'[k].default_value = v11[q]
                   /\ v4'[k].bytes > 0 => v4'[k].resource_buffer # "nullptr"
    <3>1. k \in DOMAIN v4
      BY <1>5
    <3>2. LET q == NameOf(v4[k])
          IN  /\ v4[k].resource_buffer = "nullptr" <=> v11[q] = "nullptr"
              /\ v11[q] # "nullptr" => v4[k].default_value = v11[q]
              /\ v4[k].bytes > 0 => v4[k].resource_buffer # "nullptr"
      BY <1>1, <3>1 DEF VariablesIInv, BuffersAllocated
    <3> QED
      BY <1>4, <1>6, <3>1, <3>2
  <2> QED
    BY <1>2, <2>1, <2>2 DEF BuffersAllocated, NameOf
<1>10. PreparedSoFar'
  BY <1>2 DEF PreparedSoFar, AssignedBy
<1>11. v6' = "idle" => v14' # <<>> /\ v14'[1] = v4'
  BY <1>2
<1>12. HoldStored'
  <2>1. \A k \in DOMAIN v4' : v12'[NameOf(v4'[k])] = v4'[k].resource_buffer
    BY <1>2, <1>4, <1>5, <1>6
  <2>2. v4' = [k \in DOMAIN v4' |-> Variables!Reset(v4'[k])]
    BY <1>2, <1>4, <1>5, <1>6
  <2>3. v6' = "idle" => v14'[1] = [k \in DOMAIN v4' |-> Variables!Reset(v4'[k])]
    BY <1>11, <2>2
  <2> QED
    BY <1>11, <2>1, <2>3 DEF HoldStored, NameOf, Variables!Reset
<1> QED
  BY <1>2, <1>7, <1>8, <1>9, <1>10, <1>12 DEF VariablesIInv, Variables!NullsFollowed

LEMMA FinishKeeps ==
  ASSUME VariablesIInv, Variables!FinishAllocateTensors
  PROVE  VariablesIInv'
<1>1. v6 = "prepare" /\ v7 # <<>> /\ v7[1].i > Len(v1[v7[1].g]) /\ v7[1].g = Len(v1)
  BY DEF Variables!FinishAllocateTensors, Variables!Preparing, Variables!Here
<1>2. ~Variables!ResetNull
  BY <1>1, ResetNullKeeps
<1>3. ASSUME NEW g \in DOMAIN v1, NEW i \in Nat PROVE AssignedBy(g, i)
  <2>1. /\ g \in Nat /\ Len(v1) \in Nat /\ g <= Len(v1) /\ v7[1].i \in Nat
        /\ DOMAIN v1[g] = 1 .. Len(v1[g]) /\ Len(v1[g]) \in Nat
    BY <1>1, ModelFacts, NextPlace DEF VariablesIInv
  <2>2. CASE g < v7[1].g \/ (g = v7[1].g /\ i < v7[1].i)
    BY <1>1, <2>2 DEF VariablesIInv, PreparedSoFar
  <2>3. CASE ~(g < v7[1].g \/ (g = v7[1].g /\ i < v7[1].i))
    <3>1. g = v7[1].g /\ ~(i < v7[1].i)
      BY <1>1, <2>1, <2>3
    <3>2. i \notin DOMAIN v1[g]
      BY <1>1, <2>1, <3>1
    <3> QED
      BY <3>2 DEF AssignedBy
  <2> QED
    BY <2>2, <2>3
<1>4. Variables!ResetAll /\ v6' = "idle" /\ v7' = <<>> /\ v14' = <<v4', v8>>
  BY <1>2 DEF Variables!FinishAllocateTensors
<1>5. v7' \in Seq(Places)
  BY <1>4
<1> QED
  BY <1>3, <1>4, <1>5, ResetAllKeeps DEF Variables!ResetAll

LEMMA CallResetKeeps ==
  ASSUME VariablesIInv, Variables!CallReset
  PROVE  VariablesIInv' /\ (v14 # <<>> => v4' = v14[1])
<1>1. v6 \in {"idle", "failed"} /\ (v6 = "failed" => v14 = <<>>)
  BY DEF Variables!CallReset, VariablesIInv, PreparedSoFar
<1>2. CASE Variables!ResetNull
  BY <1>1, <1>2, ResetNullKeeps
<1>3. CASE Variables!ResetAll /\ UNCHANGED <<v6, v7, v14>>
  <2>1. v6 = "idle" => /\ v14 # <<>> /\ v14[1] = [k \in DOMAIN v4 |-> Variables!Reset(v4[k])]
                       /\ \A g \in DOMAIN v1, i \in Nat : AssignedBy(g, i)
    BY DEF VariablesIInv, HoldStored, PreparedSoFar
  <2>2. v7' \in Seq(Places)
    BY <1>3 DEF VariablesIInv, VariablesTypes
  <2> QED
    BY <1>1, <1>3, <2>1, <2>2, ResetAllKeeps DEF Variables!ResetAll
<1> QED
  BY <1>2, <1>3 DEF Variables!CallReset

LEMMA VariablesKeeps ==
  ASSUME VariablesIInv, Variables!Next
  PROVE  VariablesIInv'
BY PrepareHandleKeeps, PrepareAssignKeeps, PrepareOtherKeeps, PrepareNextKeeps, FinishKeeps,
   InvokeKeeps, InvokeHandleKeeps, InvokeAssignKeeps, InvokeReadKeeps, InvokeCallOnceKeeps,
   EndSubgraphKeeps, CallResetKeeps DEF Variables!Next

LEMMA VariablesRight ==
  ASSUME VariablesIInv
  PROVE  Variables!TypeOK /\ Variables!ReadsStored /\ Variables!NullsFollowed
<1>1. \A k \in DOMAIN v7 : v7[k].g \in DOMAIN v1
  <2>1. \A k \in DOMAIN v7 : v7[k] \in Places
    BY DEF VariablesIInv, VariablesTypes
  <2> QED
    BY <2>1, ModelFacts DEF VariablesIInv, Places
<1>2. \A h \in DOMAIN v5 : v5[h] = 0 \/ Variables!IsId(v5[h])
  BY DEF VariablesIInv, VariablesTypes, Variables!IsId
<1> QED
  BY <1>1, <1>2 DEF VariablesIInv, VariablesTypes, Variables!TypeOK, Variables!ReadsStored,
     Variables!NullsFollowed

\* Room is only taken for the variable that a handle stands for, and only when it has
\* no buffer; and a reset leads back to the first state.
LEMMA VariablesKept ==
  ASSUME VariablesIInv, Variables!Next
  PROVE  Variables!AllocatedOnce /\ Variables!ResetRestores
<1>1. Variables!ResetRestores
  BY CallResetKeeps DEF Variables!ResetRestores
<1>2. CASE Variables!PrepareAssign
  <2>1. v3' = v3 \/ Variables!Allocates(Variables!Handle)
    BY <1>2 DEF Variables!PrepareAssign
  <2> QED
    BY <1>1, <2>1 DEF Variables!Allocates, Variables!AllocatedOnce
<1>3. CASE ~Variables!PrepareAssign
  <2>1. v3' = v3
    BY <1>3 DEF Variables!Next, Variables!PrepareVarHandle, Variables!PrepareOther,
       Variables!PrepareNextSubgraph, Variables!FinishAllocateTensors, Variables!ResetAll,
       Variables!Invoke, Variables!InvokeVarHandle, Variables!InvokeAssign,
       Variables!InvokeRead, Variables!InvokeCallOnce, Variables!EndSubgraph,
       Variables!CallReset, Variables!StillInvoking, Variables!Fail, Variables!Crash,
       Variables!ResetNull, Variables!FailInvocation
  <2> QED
    BY <1>1, <2>1 DEF Variables!AllocatedOnce
<1> QED
  BY <1>2, <1>3

-----------------------------------------------------------------------------
(* The profiler.  now is v1, events v2, totals v3, aborted v4, overrun v5,     *)
(* elapsed v6, open v7, reports v8 and faithful v9.                            *)

LEMMA ProfilerNames ==
  /\ Profiler!nullptr = "nullptr" /\ "nullptr" \notin ProfiledEvents.tags
  /\ Profiler!num_events = Len(v2)
  /\ ProfiledEvents.max_events \in Nat
  /\ Profiler!Slots = 1 .. ProfiledEvents.max_events
BY ProfilerAssumption DEF Profiler!nullptr, Profiler!num_events, Profiler!Slots

LEMMA ProfilerWraps ==
  ASSUME NEW x \in Int
  PROVE  /\ Profiler!Wrapped(x) \in Profiler!Ticks
         /\ x \in Profiler!Ticks => Profiler!Wrapped(x) = x
         /\ \A y \in Int : Profiler!Wrapped(Profiler!Wrapped(x) + y) = Profiler!Wrapped(x + y)
<1>1. ProfiledEvents.tick_space \in Nat \ {0}
  BY ProfilerAssumption
<1>2. \A y \in Int : Profiler!Wrapped(Profiler!Wrapped(x) + y) = Profiler!Wrapped(x + y)
  BY <1>1, WrapsOnce DEF Profiler!Wrapped
<1>3. /\ x % ProfiledEvents.tick_space \in 0 .. ProfiledEvents.tick_space - 1
      /\ x \in 0 .. ProfiledEvents.tick_space - 1 => x % ProfiledEvents.tick_space = x
  <2> DEFINE n == ProfiledEvents.tick_space
  <2>1. n \in Nat \ {0}
    BY <1>1
  <2> HIDE DEF n
  <2>2. x % n \in 0 .. n - 1 /\ (x \in 0 .. n - 1 => x % n = x)
    BY <2>1
  <2> QED
    BY <2>2 DEF n
<1> QED
  BY <1>2, <1>3 DEF Profiler!Wrapped, Profiler!Ticks

LEMMA TicksAreNumbers ==
  (\A x \in Profiler!Ticks : x \in Nat /\ x \in Int) /\ 0 \in Profiler!Ticks
BY ProfilerAssumption DEF Profiler!Ticks

LEMMA EventFacts ==
  ASSUME ProfilerTypes, NEW k \in DOMAIN v2
  PROVE  /\ v2[k].tag \in ProfiledEvents.tags /\ v2[k].tag # "nullptr"
         /\ v2[k].start \in Profiler!Ticks /\ v2[k].end \in Profiler!Ticks
         /\ v2[k].start \in Int /\ v2[k].end \in Int
         /\ v6[k] \in Profiler!Ticks /\ v6[k] \in Int
         /\ v1 \in Int /\ Profiler!Duration(k) \in Int
<1>1. v2 \in Seq(Event) /\ v6 \in Seq(Profiler!Ticks) /\ Len(v6) = Len(v2)
      /\ v1 \in Profiler!Ticks
  BY DEF ProfilerTypes
<1>2. v2[k] \in Event /\ v6[k] \in Profiler!Ticks
  BY <1>1
<1>3. /\ v2[k].tag \in ProfiledEvents.tags
      /\ v2[k].start \in Profiler!Ticks /\ v2[k].end \in Profiler!Ticks
  BY <1>2 DEF Event
<1>4. v2[k].start \in Int /\ v2[k].end \in Int /\ v6[k] \in Int /\ v1 \in Int
  BY <1>1, <1>2, <1>3, TicksAreNumbers
<1>5. v2[k].tag # "nullptr"
  BY <1>3, ProfilerNames
<1>6. v2[k].end - v2[k].start \in Int
  BY <1>4
<1>7. Profiler!Duration(k) \in Profiler!Ticks
  BY <1>6, ProfilerWraps DEF Profiler!Duration
<1>8. Profiler!Duration(k) \in Int
  BY <1>7, TicksAreNumbers
<1> QED
  BY <1>2, <1>3, <1>4, <1>5, <1>8

LEMMA RowFacts ==
  ASSUME NEW table, RowsRight(table), NEW i \in Profiler!Slots
  PROVE  table[i] \in Row /\ table[i].ticks \in Int /\ table[i].ticks \in Profiler!Ticks
<1>1. table[i] \in Row
  BY DEF RowsRight
<1>2. table[i].ticks \in Profiler!Ticks
  BY <1>1 DEF Row
<1> QED
  BY <1>1, <1>2, TicksAreNumbers

LEMMA NoTotalsRight == RowsRight(Profiler!NoTotals)
<1>1. \A i \in Profiler!Slots : Profiler!NoTotals[i] = [tag |-> "nullptr", ticks |-> 0]
  BY ProfilerNames DEF Profiler!NoTotals
<1>2. Profiler!NoTotals \in [Profiler!Slots -> Row]
  BY ProfilerNames, TicksAreNumbers DEF Profiler!NoTotals, Row
<1> QED
  BY <1>1, <1>2 DEF RowsRight

LEMMA ProfilerInit ==
  ASSUME Profiler!Init
  PROVE  ProfilerIInv
<1>1. v1 \in Profiler!Ticks /\ v2 = <<>> /\ v6 = <<>> /\ v7 = {} /\ v8 = 0 /\ v3 = Profiler!NoTotals
  BY DEF Profiler!Init
<1>2. ProfilerTypes /\ TimesRight
  BY <1>1, ProfilerNames DEF ProfilerTypes, TimesRight
<1> QED
  BY <1>1, <1>2, NoTotalsRight DEF ProfilerIInv

\* With one row per tag of an event there is a row for the tag of another event.
LEMMA PositionExists ==
  ASSUME ProfilerTypes, NEW table, RowsRight(table), NEW k \in DOMAIN v2
  PROVE  \E i \in 1 .. Len(v2) : table[i].tag \in {"nullptr", v2[k].tag}
<1> DEFINE S == 1 .. Len(v2)
           Event_(i) == CHOOSE j \in DOMAIN v2 : v2[j].tag = table[i].tag
           f == [i \in S |-> Event_(i)]
<1>1. Len(v2) \in Nat /\ DOMAIN v2 = S /\ S \subseteq Profiler!Slots
  BY ProfilerNames DEF ProfilerTypes
<1>2. SUFFICES ASSUME \A i \in S : table[i].tag \notin {"nullptr", v2[k].tag}
               PROVE  FALSE
  OBVIOUS
<1>3. ASSUME NEW i \in S PROVE f[i] \in S \ {k} /\ v2[f[i]].tag = table[i].tag
  <2>1. \E j \in DOMAIN v2 : v2[j].tag = table[i].tag
    BY <1>1, <1>2 DEF RowsRight
  <2>2. Event_(i) \in DOMAIN v2 /\ v2[Event_(i)].tag = table[i].tag
    BY <2>1
  <2>3. Event_(i) # k
    BY <1>2, <2>2
  <2> HIDE DEF Event_
  <2> QED
    BY <1>1, <2>2, <2>3
<1> HIDE DEF f
<1>4. f \in [S -> S \ {k}]
  <2>1. DOMAIN f = S /\ f = [i \in S |-> f[i]]
    BY DEF f
  <2> QED
    BY <1>3, <2>1
<1>5. \A i, j \in S : f[i] = f[j] => i = j
  BY <1>1, <1>2, <1>3 DEF RowsRight
<1>6. IsFiniteSet(S) /\ Cardinality(S) = Len(v2)
  <2>1. PICK n \in Nat : n = Len(v2)
    BY <1>1
  <2>2. IsFiniteSet(1 .. n) /\ Cardinality(1 .. n) = n
    BY FS_Interval
  <2> QED
    BY <2>1, <2>2
<1>7. IsFiniteSet(S \ {k}) /\ Cardinality(S \ {k}) = Len(v2) - 1
  <2>1. k \in S
    BY <1>1
  <2> HIDE DEF S
  <2> QED
    BY <1>6, <2>1, FS_RemoveElement
<1>8. f \in Injection(S, S \ {k})
  BY <1>4, <1>5 DEF Injection, IsInjective
<1>9. Cardinality(S) <= Cardinality(S \ {k})
  BY <1>6, <1>7, <1>8, FS_Injection
<1> QED
  BY <1>1, <1>6, <1>7, <1>9

\* The search finds the row of the tag, or else the first one that is free.
LEMMA PositionFound ==
  ASSUME ProfilerTypes, NEW table, RowsRight(table), NEW k \in DOMAIN v2
  PROVE  LET p == Profiler!FindExistingOrNextPosition(table, v2[k].tag)
         IN  /\ p \in Profiler!Slots /\ p <= Len(v2)
             /\ table[p].tag \in {"nullptr", v2[k].tag}
             /\ \A i \in Profiler!Slots :
                  i # p => table[i].tag # v2[k].tag
             /\ \A i \in 1 .. p : i # p => table[i].tag # "nullptr"
<1> DEFINE T == {i \in 1 .. Len(v2) : table[i].tag \in {"nullptr", v2[k].tag}}
           p == Profiler!FindExistingOrNextPosition(table, v2[k].tag)
<1>1. Len(v2) \in Nat /\ 1 .. Len(v2) \subseteq Profiler!Slots /\ T \subseteq Nat
  BY ProfilerNames DEF ProfilerTypes
<1>2. T # {}
  BY PositionExists
<1>3. \E x \in T : \A y \in T : x <= y
  BY <1>1, <1>2, LeastOf
<1>4. p = CHOOSE x \in T : \A y \in T : x <= y
  BY ProfilerNames DEF Profiler!FindExistingOrNextPosition, Profiler!Min
<1>5. p \in T /\ \A y \in T : p <= y
  BY <1>3, <1>4
<1> HIDE DEF p
<1>6. p \in 1 .. Len(v2) /\ p \in Profiler!Slots /\ table[p].tag \in {"nullptr", v2[k].tag}
  BY <1>1, <1>5
<1>7. v2[k].tag # "nullptr"
  BY EventFacts
<1>8. ASSUME NEW i \in Profiler!Slots, i # p PROVE table[i].tag # v2[k].tag
  <2>1. SUFFICES ASSUME table[i].tag = v2[k].tag PROVE FALSE
    OBVIOUS
  <2>2. i <= Len(v2) /\ \A j \in 1 .. i : table[j].tag # "nullptr"
    BY <1>7, <2>1 DEF RowsRight
  <2>3. i \in 1 .. Len(v2)
    BY <1>1, <2>2, ProfilerNames
  <2>4. p <= i
    BY <1>5, <2>1, <2>3
  <2>5. p \in 1 .. i
    BY <1>1, <1>6, <2>3, <2>4
  <2>6. table[p].tag = v2[k].tag
    BY <1>6, <2>2, <2>5
  <2> QED
    BY <1>6, <1>7, <1>8, <2>1, <2>6 DEF RowsRight
<1>9. ASSUME NEW i \in 1 .. p, i # p PROVE table[i].tag # "nullptr"
  <2>1. i \in 1 .. Len(v2) /\ ~(p <= i)
    BY <1>1, <1>6, <1>9
  <2> QED
    BY <1>5, <2>1
<1> QED
  BY <1>1, <1>6, <1>8, <1>9 DEF p

\* An event's ticks are added to the one row of its tag.
LEMMA AddedEventFacts ==
  ASSUME ProfilerTypes, NEW table, RowsRight(table), NEW k \in DOMAIN v2
  PROVE  LET p == Profiler!FindExistingOrNextPosition(table, v2[k].tag)
             next == Profiler!AddedEvent(table, k)
         IN  /\ p \in Profiler!Slots /\ DOMAIN next = Profiler!Slots
             /\ next[p].tag = v2[k].tag
             /\ next[p].ticks = Profiler!Wrapped(table[p].ticks + Profiler!Duration(k))
             /\ \A i \in Profiler!Slots : i # p => next[i] = table[i]
             /\ RowsRight(next)
<1> DEFINE p == Profiler!FindExistingOrNextPosition(table, v2[k].tag)
           next == Profiler!AddedEvent(table, k)
           row == [tag |-> v2[k].tag,
                   ticks |-> Profiler!Wrapped(table[p].ticks + Profiler!Duration(k))]
<1>1. next = [table EXCEPT ![p] = row]
  BY DEF Profiler!AddedEvent
<1>2. /\ p \in Profiler!Slots /\ p <= Len(v2)
      /\ table[p].tag \in {"nullptr", v2[k].tag}
      /\ \A i \in Profiler!Slots : i # p => table[i].tag # v2[k].tag
      /\ \A i \in 1 .. p : i # p => table[i].tag # "nullptr"
  BY PositionFound
<1>3. v2[k].tag \in ProfiledEvents.tags /\ v2[k].tag # "nullptr"
      /\ Profiler!Duration(k) \in Int
  BY EventFacts
<1> HIDE DEF p, next
<1>6. table \in [Profiler!Slots -> Row] /\ table[p].ticks \in Int
  BY <1>2, RowFacts DEF RowsRight
<1>7. row \in Row
  <2>1. table[p].ticks + Profiler!Duration(k) \in Int
    BY <1>3, <1>6
  <2>2. Profiler!Wrapped(table[p].ticks + Profiler!Duration(k)) \in Profiler!Ticks
    BY <2>1, ProfilerWraps
  <2> QED
    BY <1>3, <2>2 DEF Row
<1>8. /\ DOMAIN next = Profiler!Slots /\ next[p] = row
      /\ \A i \in Profiler!Slots : i # p => next[i] = table[i]
  BY <1>1, <1>2, <1>6
<1>9. row.tag = v2[k].tag /\ row.tag # "nullptr"
      /\ row.ticks = Profiler!Wrapped(table[p].ticks + Profiler!Duration(k))
  BY <1>3
<1> HIDE DEF row
<1>10. next \in [Profiler!Slots -> Row]
  BY <1>1, <1>6, <1>7
<1>11. ASSUME NEW i \in Profiler!Slots, NEW j \in Profiler!Slots,
              next[i].tag # "nullptr", next[i].tag = next[j].tag
       PROVE  i = j
  <2>1. CASE i = p
    BY <1>2, <1>8, <1>9, <1>11, <2>1
  <2>2. CASE j = p
    BY <1>2, <1>8, <1>9, <1>11, <2>2
  <2>3. CASE i # p /\ j # p
    BY <1>8, <1>11, <2>3 DEF RowsRight
  <2> QED
    BY <2>1, <2>2, <2>3
<1>12. ASSUME NEW i \in Profiler!Slots
       PROVE  IF next[i].tag = "nullptr" THEN next[i].ticks = 0
              ELSE /\ i <= Len(v2) /\ \E j \in DOMAIN v2 : v2[j].tag = next[i].tag
                   /\ \A j \in 1 .. i : next[j].tag # "nullptr"
  <2>1. \A j \in Profiler!Slots : table[j].tag # "nullptr" => next[j].tag # "nullptr"
    BY <1>8, <1>9
  <2>2. 1 .. i \subseteq Profiler!Slots
    BY ProfilerNames
  <2>3. CASE i = p
    <3>1. \A j \in 1 .. i : next[j].tag # "nullptr"
      BY <1>2, <1>8, <1>9, <2>1, <2>2, <2>3
    <3> QED
      BY <1>2, <1>8, <1>9, <2>3, <3>1
  <2>4. CASE i # p
    <3>1. next[i] = table[i]
      BY <1>8, <2>4
    <3>2. IF table[i].tag = "nullptr" THEN table[i].ticks = 0
          ELSE /\ i <= Len(v2) /\ \E j \in DOMAIN v2 : v2[j].tag = table[i].tag
               /\ \A j \in 1 .. i : table[j].tag # "nullptr"
      BY DEF RowsRight
    <3> QED
      BY <2>1, <2>2, <3>1, <3>2
  <2> QED
    BY <2>3, <2>4
<1>13. RowsRight(next)
  BY <1>10, <1>11, <1>12 DEF RowsRight
<1> QED
  BY <1>2, <1>8, <1>9, <1>13 DEF p, next

LEMMA Counting ==
  ASSUME NEW T, 0 \in T, \A n \in Nat : n \in T => n + 1 \in T
  PROVE  Nat \subseteq T
<1> DEFINE Missing == Nat \ T
<1>1. SUFFICES ASSUME Missing # {} PROVE FALSE
  OBVIOUS
<1>2. PICK x \in Missing : \A y \in Missing : x <= y
  BY <1>1, LeastOf
<1>3. x # 0 /\ x - 1 \in Nat /\ x - 1 \notin Missing
  BY <1>2
<1> QED
  BY <1>3

\* The tables after each of the events, and the ticks of those with a tag up to each.
AfterEvents(table) ==
  CHOOSE f : f = [k \in 0 .. Len(v2) |->
                   IF k = 0 THEN table ELSE Profiler!AddedEvent(f[k - 1], k)]
OpenUpto(tag) ==
  CHOOSE f : f = [k \in 0 .. Len(v2) |->
                   IF k = 0 THEN 0
                   ELSE f[k - 1] + (IF v2[k].tag = tag THEN v6[k] ELSE 0)]

LEMMA AfterEventsExist ==
  ASSUME NEW table, NEW n \in Nat
  PROVE  \E f : f = [k \in 0 .. n |->
                      IF k = 0 THEN table ELSE Profiler!AddedEvent(f[k - 1], k)]
<1> DEFINE Eq(f, m) == f = [k \in 0 .. m |->
                             IF k = 0 THEN table ELSE Profiler!AddedEvent(f[k - 1], k)]
           T == {m \in Nat : \E f : Eq(f, m)}
<1>1. 0 \in T
  <2>1. Eq([k \in 0 .. 0 |-> table], 0)
    OBVIOUS
  <2> QED
    BY <2>1
<1>2. ASSUME NEW m \in Nat, m \in T PROVE m + 1 \in T
  <2>1. PICK f : Eq(f, m)
    BY <1>2
  <2> DEFINE g == [k \in 0 .. m + 1 |->
                    IF k = m + 1 THEN Profiler!AddedEvent(f[m], m + 1) ELSE f[k]]
             h == [k \in 0 .. m + 1 |->
                    IF k = 0 THEN table ELSE Profiler!AddedEvent(g[k - 1], k)]
  <2>2. ASSUME NEW k \in 0 .. m + 1 PROVE g[k] = h[k]
    <3>1. CASE k = m + 1
      <4>1. k - 1 = m /\ k # 0 /\ m \in 0 .. m + 1 /\ m # m + 1
        BY <3>1
      <4>2. g[m] = f[m] /\ g[m + 1] = Profiler!AddedEvent(f[m], m + 1)
        BY <4>1
      <4> QED
        BY <3>1, <4>1, <4>2
    <3>2. CASE k # m + 1 /\ k # 0
      <4>1. k \in 0 .. m /\ k - 1 \in 0 .. m + 1 /\ k - 1 # m + 1
        BY <3>2
      <4>2. f[k] = Profiler!AddedEvent(f[k - 1], k)
        BY <4>1, <2>1, <3>2
      <4>3. g[k] = f[k] /\ g[k - 1] = f[k - 1]
        BY <4>1, <3>2
      <4> QED
        BY <3>2, <4>2, <4>3
    <3>3. CASE k = 0
      <4>1. f[0] = table
        BY <2>1
      <4> QED
        BY <3>3, <4>1
    <3> QED
      BY <3>1, <3>2, <3>3
  <2>3. g = h
    BY <2>2
  <2>4. Eq(g, m + 1)
    BY <2>3
  <2> HIDE DEF g, Eq
  <2> QED
    BY <2>4
<1> HIDE DEF Eq
<1>3. Nat \subseteq T
  BY <1>1, <1>2, Counting
<1>4. \E f : Eq(f, n)
  BY <1>3
<1> QED
  BY <1>4 DEF Eq

LEMMA OpenUptoExists ==
  ASSUME NEW tag, NEW n \in Nat
  PROVE  \E f : f = [k \in 0 .. n |->
                      IF k = 0 THEN 0
                      ELSE f[k - 1] + (IF v2[k].tag = tag THEN v6[k] ELSE 0)]
<1> DEFINE More(k) == IF v2[k].tag = tag THEN v6[k] ELSE 0
           Eq(f, m) == f = [k \in 0 .. m |-> IF k = 0 THEN 0 ELSE f[k - 1] + More(k)]
           T == {m \in Nat : \E f : Eq(f, m)}
<1> HIDE DEF More
<1>1. 0 \in T
  <2>1. Eq([k \in 0 .. 0 |-> 0], 0)
    OBVIOUS
  <2> QED
    BY <2>1
<1>2. ASSUME NEW m \in Nat, m \in T PROVE m + 1 \in T
  <2>1. PICK f : Eq(f, m)
    BY <1>2
  <2> DEFINE g == [k \in 0 .. m + 1 |-> IF k = m + 1 THEN f[m] + More(m + 1) ELSE f[k]]
             h == [k \in 0 .. m + 1 |-> IF k = 0 THEN 0 ELSE g[k - 1] + More(k)]
  <2>2. ASSUME NEW k \in 0 .. m + 1 PROVE g[k] = h[k]
    <3>1. CASE k = m + 1
      <4>1. k - 1 = m /\ k # 0 /\ m \in 0 .. m + 1 /\ m # m + 1
        BY <3>1
      <4>2. g[m] = f[m] /\ g[m + 1] = f[m] + More(m + 1)
        BY <4>1
      <4> QED
        BY <3>1, <4>1, <4>2
    <3>2. CASE k # m + 1 /\ k # 0
      <4>1. k \in 0 .. m /\ k - 1 \in 0 .. m + 1 /\ k - 1 # m + 1
        BY <3>2
      <4>2. f[k] = f[k - 1] + More(k)
        BY <4>1, <2>1, <3>2
      <4>3. g[k] = f[k] /\ g[k - 1] = f[k - 1]
        BY <4>1, <3>2
      <4> QED
        BY <3>2, <4>2, <4>3
    <3>3. CASE k = 0
      <4>1. f[0] = 0
        BY <2>1
      <4> QED
        BY <3>3, <4>1
    <3> QED
      BY <3>1, <3>2, <3>3
  <2>3. g = h
    BY <2>2
  <2>4. Eq(g, m + 1)
    BY <2>3
  <2> HIDE DEF g, Eq
  <2> QED
    BY <2>4
<1> HIDE DEF Eq
<1>3. Nat \subseteq T
  BY <1>1, <1>2, Counting
<1>4. \E f : Eq(f, n)
  BY <1>3
<1> QED
  BY <1>4 DEF Eq, More

LEMMA AfterEventsFacts ==
  ASSUME ProfilerTypes, NEW table
  PROVE  /\ AfterEvents(table)[0] = table
         /\ \A k \in DOMAIN v2 : AfterEvents(table)[k] = Profiler!AddedEvent(AfterEvents(table)[k - 1], k)
<1> DEFINE f == AfterEvents(table)
<1>1. Len(v2) \in Nat /\ DOMAIN v2 = 1 .. Len(v2)
  BY DEF ProfilerTypes
<1>2. f = [k \in 0 .. Len(v2) |->
            IF k = 0 THEN table ELSE Profiler!AddedEvent(f[k - 1], k)]
  BY <1>1, AfterEventsExist DEF AfterEvents
<1> HIDE DEF f
<1>3. 0 \in 0 .. Len(v2) /\ \A k \in DOMAIN v2 : k \in 0 .. Len(v2) /\ k # 0
  BY <1>1
<1>4. f[0] = table /\ \A k \in DOMAIN v2 : f[k] = Profiler!AddedEvent(f[k - 1], k)
  BY <1>2, <1>3
<1> QED
  BY <1>4 DEF f

LEMMA OpenUptoFacts ==
  ASSUME ProfilerTypes, NEW tag
  PROVE  /\ OpenUpto(tag)[0] = 0
         /\ \A k \in DOMAIN v2 :
              OpenUpto(tag)[k]
                = OpenUpto(tag)[k - 1] + (IF v2[k].tag = tag THEN v6[k] ELSE 0)
<1> DEFINE f == OpenUpto(tag)
<1>1. Len(v2) \in Nat /\ DOMAIN v2 = 1 .. Len(v2)
  BY DEF ProfilerTypes
<1>2. f = [k \in 0 .. Len(v2) |->
            IF k = 0 THEN 0 ELSE f[k - 1] + (IF v2[k].tag = tag THEN v6[k] ELSE 0)]
  BY <1>1, OpenUptoExists DEF OpenUpto
<1> HIDE DEF f
<1>3. 0 \in 0 .. Len(v2) /\ \A k \in DOMAIN v2 : k \in 0 .. Len(v2) /\ k # 0
  BY <1>1
<1>4. f[0] = 0
      /\ \A k \in DOMAIN v2 : f[k] = f[k - 1] + (IF v2[k].tag = tag THEN v6[k] ELSE 0)
  BY <1>2, <1>3
<1> QED
  BY <1>4 DEF f

\* The rows of a table are those of the first k events.
CountedBy(table, k) ==
  /\ \A j \in 1 .. k : \E i \in Profiler!Slots : table[i].tag = v2[j].tag
  /\ \A i \in Profiler!Slots :
       table[i].tag # "nullptr" =>
         table[i].ticks = Profiler!Wrapped(OpenUpto(table[i].tag)[k])
  /\ \A tag \in ProfiledEvents.tags :
       /\ OpenUpto(tag)[k] \in Int
       /\ (\A i \in Profiler!Slots : table[i].tag # tag) => OpenUpto(tag)[k] = 0

LEMMA NothingCounted ==
  ASSUME ProfilerTypes
  PROVE  CountedBy(Profiler!NoTotals, 0)
<1>1. \A i \in Profiler!Slots : Profiler!NoTotals[i].tag = "nullptr"
  BY ProfilerNames DEF Profiler!NoTotals
<1>2. \A tag : OpenUpto(tag)[0] = 0
  BY OpenUptoFacts
<1>3. 1 .. 0 = {}
  OBVIOUS
<1> QED
  BY <1>1, <1>2, <1>3 DEF CountedBy

LEMMA OneMoreCounted ==
  ASSUME ProfilerTypes, TimesRight, v7 = {}, NEW k \in DOMAIN v2,
         NEW table, RowsRight(table), CountedBy(table, k - 1)
  PROVE  CountedBy(Profiler!AddedEvent(table, k), k)
<1> DEFINE p == Profiler!FindExistingOrNextPosition(table, v2[k].tag)
           next == Profiler!AddedEvent(table, k)
           U(tag) == OpenUpto(tag)[k - 1]
           W(tag) == OpenUpto(tag)[k]
<1>1. /\ p \in Profiler!Slots
      /\ table[p].tag \in {"nullptr", v2[k].tag}
      /\ \A i \in Profiler!Slots : i # p => table[i].tag # v2[k].tag
  BY PositionFound
<1>2. /\ next[p].tag = v2[k].tag
      /\ next[p].ticks = Profiler!Wrapped(table[p].ticks + Profiler!Duration(k))
      /\ \A i \in Profiler!Slots : i # p => next[i] = table[i]
  BY AddedEventFacts
<1>3. /\ v2[k].tag \in ProfiledEvents.tags /\ v2[k].tag # "nullptr"
      /\ v6[k] \in Int /\ Profiler!Duration(k) \in Int
  BY EventFacts
<1>4. Profiler!Duration(k) = v6[k]
  BY DEF TimesRight, Profiler!Duration
<1>5. \A tag : W(tag) = U(tag) + (IF v2[k].tag = tag THEN v6[k] ELSE 0)
  BY OpenUptoFacts
<1>6. \A tag \in ProfiledEvents.tags :
        /\ U(tag) \in Int
        /\ (\A i \in Profiler!Slots : table[i].tag # tag) => U(tag) = 0
  BY DEF CountedBy
<1>7. \A i \in Profiler!Slots :
        table[i].tag # "nullptr" => table[i].ticks = Profiler!Wrapped(U(table[i].tag))
  BY DEF CountedBy
<1>8. \A j \in 1 .. (k - 1) : \E i \in Profiler!Slots : table[i].tag = v2[j].tag
  BY DEF CountedBy
<1>9. table[p].tag = "nullptr" => table[p].ticks = 0
  BY <1>1 DEF RowsRight
<1>10. k \in Nat
  BY DEF ProfilerTypes
<1> HIDE DEF p, next, U, W
<1>11. next[p].ticks = Profiler!Wrapped(W(v2[k].tag))
  <2>1. W(v2[k].tag) = U(v2[k].tag) + v6[k] /\ U(v2[k].tag) \in Int
    BY <1>3, <1>5, <1>6
  <2>2. CASE table[p].tag = "nullptr"
    <3>1. U(v2[k].tag) = 0
      BY <1>1, <1>3, <1>6, <2>2
    <3>2. 0 + v6[k] = W(v2[k].tag)
      BY <1>3, <2>1, <3>1
    <3> QED
      BY <1>2, <1>4, <1>9, <2>2, <3>2
  <2>3. CASE table[p].tag = v2[k].tag
    <3>1. table[p].ticks = Profiler!Wrapped(U(v2[k].tag))
      BY <1>1, <1>3, <1>7, <2>3
    <3>2. Profiler!Wrapped(Profiler!Wrapped(U(v2[k].tag)) + v6[k])
            = Profiler!Wrapped(U(v2[k].tag) + v6[k])
      BY <1>3, <2>1, ProfilerWraps
    <3> QED
      BY <1>2, <1>4, <2>1, <3>1, <3>2
  <2> QED
    BY <1>1, <2>2, <2>3
<1>12. ASSUME NEW i \in Profiler!Slots, next[i].tag # "nullptr"
       PROVE  next[i].ticks = Profiler!Wrapped(W(next[i].tag))
  <2>1. CASE i = p
    BY <1>2, <1>11, <2>1
  <2>2. CASE i # p
    <3>1. next[i] = table[i] /\ table[i].tag # v2[k].tag
      BY <1>1, <1>2, <2>2
    <3>2. table[i].tag \in ProfiledEvents.tags
      <4>1. table[i] \in Row
        BY RowFacts
      <4> QED
        BY <1>12, <3>1, <4>1 DEF Row
    <3>3. W(table[i].tag) = U(table[i].tag)
      BY <1>5, <1>6, <3>1, <3>2
    <3> QED
      BY <1>7, <1>12, <3>1, <3>3
  <2> QED
    BY <2>1, <2>2
<1>13. ASSUME NEW tag \in ProfiledEvents.tags
       PROVE  /\ W(tag) \in Int
              /\ (\A i \in Profiler!Slots : next[i].tag # tag) => W(tag) = 0
  <2>1. W(tag) \in Int
    BY <1>3, <1>5, <1>6
  <2>2. ASSUME \A i \in Profiler!Slots : next[i].tag # tag PROVE W(tag) = 0
    <3>1. v2[k].tag # tag
      BY <1>1, <1>2, <2>2
    <3>2. table[p].tag # tag
      BY <1>1, <3>1, ProfilerNames
    <3>3. \A i \in Profiler!Slots : table[i].tag # tag
      BY <1>2, <2>2, <3>2
    <3> QED
      BY <1>5, <1>6, <3>1, <3>3
  <2> QED
    BY <2>1, <2>2
<1>14. ASSUME NEW j \in 1 .. k PROVE \E i \in Profiler!Slots : next[i].tag = v2[j].tag
  <2>1. CASE v2[j].tag = v2[k].tag
    BY <1>1, <1>2, <2>1
  <2>2. CASE v2[j].tag # v2[k].tag
    <3>1. j \in 1 .. (k - 1)
      BY <1>10, <2>2
    <3>2. PICK i \in Profiler!Slots : table[i].tag = v2[j].tag
      BY <1>8, <3>1
    <3>3. v2[j].tag # "nullptr"
      <4>1. j \in DOMAIN v2
        BY <3>1 DEF ProfilerTypes
      <4> QED
        BY <4>1, EventFacts
    <3>4. i # p
      BY <1>1, <2>2, <3>2, <3>3
    <3> QED
      BY <1>2, <3>2, <3>4
  <2> QED
    BY <2>1, <2>2
<1> QED
  BY <1>12, <1>13, <1>14 DEF CountedBy, W, next

LEMMA RowsStayRight ==
  ASSUME ProfilerTypes, NEW table, RowsRight(table)
  PROVE  /\ \A k \in 0 .. Len(v2) : RowsRight(AfterEvents(table)[k])
         /\ TimesRight /\ v7 = {} /\ CountedBy(table, 0) =>
              \A k \in 0 .. Len(v2) : CountedBy(AfterEvents(table)[k], k)
<1> DEFINE f == AfterEvents(table)
           Fresh == TimesRight /\ v7 = {} /\ CountedBy(table, 0)
           Good(k) == RowsRight(f[k]) /\ (Fresh => CountedBy(f[k], k))
           T == {k \in Nat : k <= Len(v2) => Good(k)}
<1>1. Len(v2) \in Nat /\ DOMAIN v2 = 1 .. Len(v2)
  BY DEF ProfilerTypes
<1>2. /\ f[0] = table
      /\ \A k \in DOMAIN v2 : f[k] = Profiler!AddedEvent(f[k - 1], k)
  BY AfterEventsFacts
<1> HIDE DEF f
<1>3. 0 \in T
  BY <1>2
<1>4. ASSUME NEW m \in Nat, m \in T PROVE m + 1 \in T
  <2>1. SUFFICES ASSUME m + 1 <= Len(v2) PROVE Good(m + 1)
    OBVIOUS
  <2>2. m + 1 \in DOMAIN v2 /\ (m + 1) - 1 = m /\ m <= Len(v2)
    BY <1>1, <2>1
  <2>3. Good(m)
    BY <1>4, <2>2
  <2>4. f[m + 1] = Profiler!AddedEvent(f[m], m + 1)
    BY <1>2, <2>2
  <2>5. RowsRight(f[m + 1])
    BY <2>2, <2>3, <2>4, AddedEventFacts
  <2>6. ASSUME Fresh PROVE CountedBy(f[m + 1], m + 1)
    BY <2>2, <2>3, <2>4, <2>6, OneMoreCounted
  <2> QED
    BY <2>5, <2>6
<1> HIDE DEF T
<1>5. Nat \subseteq T
  BY <1>3, <1>4, Counting
<1>6. ASSUME NEW k \in 0 .. Len(v2) PROVE Good(k)
  <2>1. k \in T /\ k <= Len(v2)
    BY <1>1, <1>5
  <2> QED
    BY <2>1 DEF T
<1> QED
  BY <1>6 DEF f

\* A table that counts all events prints what is wanted.
LEMMA CountedPrints ==
  ASSUME ProfilerTypes, NEW table, RowsRight(table), CountedBy(table, Len(v2))
  PROVE  Profiler!Printed(table) = Profiler!Wanted
<1>1. Len(v2) \in Nat /\ DOMAIN v2 = 1 .. Len(v2) /\ 1 .. Len(v2) \subseteq Profiler!Slots
  BY ProfilerNames DEF ProfilerTypes
<1> DEFINE Of(tag) == [tag |-> tag, ticks |-> Profiler!Wrapped(OpenUpto(tag)[Len(v2)])]
           EventTags == {v2[i].tag : i \in DOMAIN v2}
<1>2. Profiler!Wanted = {Of(tag) : tag \in EventTags}
  BY ProfilerNames DEF Profiler!Wanted, Profiler!OpenTicks, OpenUpto
<1>3. Profiler!Printed(table)
        = {table[i] : i \in {i \in 1 .. Len(v2) : \A j \in 1 .. i : table[j].tag # "nullptr"}}
  BY ProfilerNames DEF Profiler!Printed, Profiler!Rows
<1>4. ASSUME NEW i \in Profiler!Slots, table[i].tag # "nullptr"
      PROVE  table[i] = Of(table[i].tag) /\ table[i].tag \in EventTags
  <2>1. table[i] \in Row
    BY RowFacts
  <2>2. table[i] = [tag |-> table[i].tag, ticks |-> table[i].ticks]
    BY <2>1 DEF Row
  <2>3. table[i].ticks = Profiler!Wrapped(OpenUpto(table[i].tag)[Len(v2)])
    BY <1>4 DEF CountedBy
  <2>4. \E j \in DOMAIN v2 : v2[j].tag = table[i].tag
    BY <1>4 DEF RowsRight
  <2> QED
    BY <2>2, <2>3, <2>4
<1> HIDE DEF Of
<1>5. ASSUME NEW tag \in EventTags
      PROVE  \E i \in 1 .. Len(v2) :
               table[i].tag = tag /\ \A j \in 1 .. i : table[j].tag # "nullptr"
  <2>1. PICK j \in DOMAIN v2 : v2[j].tag = tag
    OBVIOUS
  <2>2. tag # "nullptr"
    BY <2>1, EventFacts
  <2>3. PICK i \in Profiler!Slots : table[i].tag = tag
    BY <1>1, <2>1 DEF CountedBy
  <2>4. i <= Len(v2) /\ \A l \in 1 .. i : table[l].tag # "nullptr"
    BY <2>2, <2>3 DEF RowsRight
  <2>5. i \in 1 .. Len(v2)
    BY <1>1, <2>3, <2>4, ProfilerNames
  <2> QED
    BY <2>3, <2>4, <2>5
<1>6. ASSUME NEW x \in Profiler!Printed(table) PROVE x \in Profiler!Wanted
  <2>1. PICK i \in 1 .. Len(v2) : x = table[i] /\ \A j \in 1 .. i : table[j].tag # "nullptr"
    BY <1>3
  <2>2. table[i].tag # "nullptr" /\ i \in Profiler!Slots
    BY <1>1, <2>1
  <2> QED
    BY <1>2, <1>4, <2>1, <2>2
<1>7. ASSUME NEW x \in Profiler!Wanted PROVE x \in Profiler!Printed(table)
  <2>1. PICK tag \in EventTags : x = Of(tag)
    BY <1>2
  <2>2. PICK i \in 1 .. Len(v2) :
          table[i].tag = tag /\ \A j \in 1 .. i : table[j].tag # "nullptr"
    BY <1>5
  <2>3. i \in Profiler!Slots /\ table[i].tag # "nullptr"
    BY <1>1, <2>2
  <2>4. table[i] = x
    BY <1>4, <2>1, <2>2, <2>3
  <2> QED
    BY <1>3, <2>2, <2>4
<1> QED
  BY <1>6, <1>7

LEMMA RowsKept ==
  ASSUME RowsRight(v3), v3' = v3, v2 \in Seq(Event), v2' \in Seq(Event),
         \A j \in DOMAIN v2 : j \in DOMAIN v2' /\ v2'[j].tag = v2[j].tag
  PROVE  RowsRight(v3)'
<1>1. Len(v2) <= Len(v2')
  <2>1. /\ Len(v2) \in Nat /\ DOMAIN v2 = 1 .. Len(v2)
        /\ Len(v2') \in Nat /\ DOMAIN v2' = 1 .. Len(v2')
    OBVIOUS
  <2>2. CASE Len(v2) = 0
    BY <2>1, <2>2
  <2>3. CASE Len(v2) # 0
    <3>1. Len(v2) \in DOMAIN v2'
      BY <2>1, <2>3
    <3> QED
      BY <2>1, <3>1
  <2> QED
    BY <2>2, <2>3
<1>2. Profiler!Slots \subseteq Nat
  BY ProfilerNames
<1>3. ASSUME NEW i \in Profiler!Slots
      PROVE  IF v3[i].tag = "nullptr" THEN v3[i].ticks = 0
             ELSE /\ i <= Len(v2') /\ \E j \in DOMAIN v2' : v2'[j].tag = v3[i].tag
                  /\ \A j \in 1 .. i : v3[j].tag # "nullptr"
  <2>1. IF v3[i].tag = "nullptr" THEN v3[i].ticks = 0
        ELSE /\ i <= Len(v2) /\ \E j \in DOMAIN v2 : v2[j].tag = v3[i].tag
             /\ \A j \in 1 .. i : v3[j].tag # "nullptr"
    BY DEF RowsRight
  <2>2. i \in Nat /\ Len(v2) \in Nat /\ Len(v2') \in Nat
    BY <1>2
  <2> QED
    BY <1>1, <2>1, <2>2
<1> QED
  BY <1>3 DEF RowsRight

LEMMA TickKeeps ==
  ASSUME ProfilerIInv, Profiler!Tick
  PROVE  ProfilerIInv'
<1>1. /\ \A i \in v7 : v6[i] < ProfiledEvents.tick_space - 1
      /\ v1' = Profiler!Wrapped(v1 + 1)
      /\ v6' = [i \in DOMAIN v6 |-> IF i \in v7 THEN v6[i] + 1 ELSE v6[i]]
      /\ UNCHANGED <<v2, v3, v7, v8, v9>>
  BY DEF Profiler!Tick
<1>2. /\ v1 \in Profiler!Ticks /\ v2 \in Seq(Event)
      /\ v6 \in Seq(Profiler!Ticks) /\ Len(v6) = Len(v2) /\ v7 \subseteq DOMAIN v2
      /\ DOMAIN v6 = DOMAIN v2
  BY DEF ProfilerIInv, ProfilerTypes
<1>3. v1 \in Int /\ v1 + 1 \in Int /\ v1' \in Profiler!Ticks
  <2>1. v1 \in Int
    BY <1>2, TicksAreNumbers
  <2>2. v1 + 1 \in Int
    BY <2>1
  <2>3. Profiler!Wrapped(v1 + 1) \in Profiler!Ticks
    BY <2>2, ProfilerWraps
  <2> QED
    BY <1>1, <2>1, <2>2, <2>3
<1>4. ASSUME NEW i \in v7
      PROVE  v6[i] + 1 \in Profiler!Ticks
  <2>1. i \in DOMAIN v6 /\ v6[i] \in Profiler!Ticks
    BY <1>2
  <2>2. v6[i] \in Nat /\ v6[i] < ProfiledEvents.tick_space - 1
    BY <1>1, <2>1, TicksAreNumbers
  <2> QED
    BY <2>2, ProfilerAssumption DEF Profiler!Ticks
<1>5. v6' \in Seq(Profiler!Ticks) /\ Len(v6') = Len(v2) /\ DOMAIN v6' = DOMAIN v2
  <2>1. ASSUME NEW i \in DOMAIN v6 PROVE v6'[i] \in Profiler!Ticks
    BY <1>1, <1>2, <1>4
  <2>2. DOMAIN v6' = 1 .. Len(v2) /\ Len(v2) \in Nat
    BY <1>1, <1>2
  <2>3. v6' \in [1 .. Len(v2) -> Profiler!Ticks]
    BY <1>1, <1>2, <2>1, <2>2
  <2> QED
    BY <1>2, <2>2, <2>3
<1>6. ProfilerTypes'
  BY <1>1, <1>2, <1>3, <1>5 DEF ProfilerIInv, ProfilerTypes
<1>7. TimesRight'
  <2>1. ASSUME NEW i \in DOMAIN v2
        PROVE  v6'[i] = Profiler!Wrapped((IF i \in v7 THEN v1' ELSE v2[i].end) - v2[i].start)
    <3>1. /\ v6[i] = Profiler!Wrapped((IF i \in v7 THEN v1 ELSE v2[i].end) - v2[i].start)
          /\ v6[i] \in Int /\ v2[i].start \in Int
      BY EventFacts DEF ProfilerIInv, TimesRight
    <3>2. CASE i \notin v7
      BY <1>1, <1>2, <3>1, <3>2
    <3>3. CASE i \in v7
      <4>1. v6'[i] = v6[i] + 1 /\ v6[i] + 1 \in Profiler!Ticks
        BY <1>1, <1>2, <1>4, <3>3
      <4>2. Profiler!Wrapped(Profiler!Wrapped(v1 - v2[i].start) + 1)
              = Profiler!Wrapped((v1 - v2[i].start) + 1)
        <5>1. v1 - v2[i].start \in Int
          BY <1>3, <3>1
        <5> QED
          BY <5>1, ProfilerWraps
      <4>3. Profiler!Wrapped(v6[i] + 1) = Profiler!Wrapped((v1 - v2[i].start) + 1)
        BY <3>1, <3>3, <4>2
      <4>4. Profiler!Wrapped(v6[i] + 1) = v6[i] + 1
        <5>1. v6[i] + 1 \in Int
          BY <3>1
        <5> QED
          BY <4>1, <5>1, ProfilerWraps
      <4>5. Profiler!Wrapped(v1' - v2[i].start) = Profiler!Wrapped((v1 + 1) - v2[i].start)
        <5>1. Profiler!Wrapped(Profiler!Wrapped(v1 + 1) + (0 - v2[i].start))
                = Profiler!Wrapped((v1 + 1) + (0 - v2[i].start))
          <6>1. 0 - v2[i].start \in Int
            BY <3>1
          <6> QED
            BY <1>3, <6>1, ProfilerWraps
        <5>2. v1' \in Int
          BY <1>3, TicksAreNumbers
        <5>3. v1' + (0 - v2[i].start) = v1' - v2[i].start
          BY <3>1, <5>2
        <5>4. (v1 + 1) + (0 - v2[i].start) = (v1 + 1) - v2[i].start
          BY <1>3, <3>1
        <5> QED
          BY <1>1, <5>1, <5>3, <5>4
      <4>6. (v1 - v2[i].start) + 1 = (v1 + 1) - v2[i].start
        BY <1>3, <3>1
      <4> QED
        BY <3>3, <4>1, <4>3, <4>4, <4>5, <4>6
    <3> QED
      BY <3>2, <3>3
  <2> QED
    BY <1>1, <2>1 DEF TimesRight
<1>8. RowsRight(v3)'
  BY <1>1 DEF ProfilerIInv, RowsRight
<1> QED
  BY <1>1, <1>6, <1>7, <1>8 DEF ProfilerIInv, Profiler!NoTotals

LEMMA BeginEventKeeps ==
  ASSUME ProfilerIInv, NEW tag \in ProfiledEvents.tags, Profiler!BeginEvent(tag)
  PROVE  ProfilerIInv'
<1> DEFINE e == [tag |-> tag, start |-> v1, end |-> Profiler!Wrapped(v1 - 1)]
           n == Len(v2)
<1>1. /\ n < ProfiledEvents.max_events /\ v2' = Append(v2, e) /\ v6' = Append(v6, 0)
      /\ v7' = v7 \cup {n + 1} /\ UNCHANGED <<v1, v3, v8, v9>>
  BY ProfilerNames DEF Profiler!BeginEvent
<1>2. /\ v1 \in Profiler!Ticks /\ v2 \in Seq(Event) /\ n \in Nat
      /\ v6 \in Seq(Profiler!Ticks) /\ Len(v6) = n /\ v7 \subseteq DOMAIN v2
      /\ DOMAIN v2 = 1 .. n /\ DOMAIN v6 = 1 .. n /\ v8 \in Nat
  BY DEF ProfilerIInv, ProfilerTypes
<1>3. e \in Event /\ e.tag = tag /\ e.start = v1
  <2>1. v1 - 1 \in Int
    BY <1>2, TicksAreNumbers
  <2>2. Profiler!Wrapped(v1 - 1) \in Profiler!Ticks
    BY <2>1, ProfilerWraps
  <2> QED
    BY <1>2, <2>2 DEF Event
<1> HIDE DEF e
<1>4. /\ v2' \in Seq(Event) /\ Len(v2') = n + 1 /\ DOMAIN v2' = 1 .. n + 1
      /\ v2'[n + 1] = e /\ \A i \in 1 .. n : v2'[i] = v2[i]
  BY <1>1, <1>2, <1>3
<1>5. /\ v6' \in Seq(Profiler!Ticks) /\ Len(v6') = n + 1
      /\ v6'[n + 1] = 0 /\ \A i \in 1 .. n : v6'[i] = v6[i]
  BY <1>1, <1>2, TicksAreNumbers
<1>6. ProfilerTypes'
  <2>1. n + 1 <= ProfiledEvents.max_events
    BY <1>1, <1>2, ProfilerAssumption
  <2>2. v7' \subseteq DOMAIN v2'
    BY <1>1, <1>2, <1>4
  <2> QED
    BY <1>1, <1>2, <1>4, <1>5, <2>1, <2>2 DEF ProfilerTypes
<1>7. TimesRight'
  <2>1. ASSUME NEW i \in DOMAIN v2'
        PROVE  v6'[i] = Profiler!Wrapped((IF i \in v7' THEN v1 ELSE v2'[i].end) - v2'[i].start)
    <3>1. CASE i = n + 1
      <4>1. v1 - v1 = 0
        BY <1>2, TicksAreNumbers
      <4>2. Profiler!Wrapped(0) = 0
        BY TicksAreNumbers, ProfilerWraps
      <4> QED
        BY <1>1, <1>3, <1>4, <1>5, <3>1, <4>1, <4>2
    <3>2. CASE i # n + 1
      <4>1. i \in 1 .. n
        BY <1>2, <1>4, <3>2
      <4>2. v6[i] = Profiler!Wrapped((IF i \in v7 THEN v1 ELSE v2[i].end) - v2[i].start)
        BY <1>2, <4>1 DEF ProfilerIInv, TimesRight
      <4>3. i \in v7' <=> i \in v7
        BY <1>1, <3>2
      <4> QED
        BY <1>4, <1>5, <4>1, <4>2, <4>3
    <3> QED
      BY <3>1, <3>2
  <2> QED
    BY <1>1, <2>1 DEF TimesRight
<1>8. RowsRight(v3)'
  <2>1. \A j \in DOMAIN v2 : j \in DOMAIN v2' /\ v2'[j].tag = v2[j].tag
    BY <1>2, <1>4
  <2> QED
    BY <1>1, <1>2, <1>4, <2>1, RowsKept DEF ProfilerIInv
<1> QED
  BY <1>1, <1>6, <1>7, <1>8 DEF ProfilerIInv, Profiler!NoTotals

LEMMA EndEventKeeps ==
  ASSUME ProfilerIInv, NEW i \in v7, Profiler!EndEvent(i)
  PROVE  ProfilerIInv'
<1>1. /\ v2' = [v2 EXCEPT ![i].end = v1] /\ v7' = v7 \ {i}
      /\ UNCHANGED <<v1, v3, v6, v8, v9>>
  BY DEF Profiler!EndEvent
<1>2. /\ v1 \in Profiler!Ticks /\ v2 \in Seq(Event) /\ v7 \subseteq DOMAIN v2
      /\ Len(v2) \in Nat /\ DOMAIN v2 = 1 .. Len(v2)
      /\ v6 \in Seq(Profiler!Ticks) /\ Len(v6) = Len(v2) /\ v8 \in Nat
      /\ Len(v2) <= ProfiledEvents.max_events
  BY DEF ProfilerIInv, ProfilerTypes
<1> DEFINE e == [v2[i] EXCEPT !.end = v1]
<1>3. i \in DOMAIN v2 /\ v2[i] \in Event
  BY <1>2
<1>4. e \in Event /\ e.tag = v2[i].tag /\ e.start = v2[i].start /\ e.end = v1
  BY <1>2, <1>3 DEF Event
<1>5. v2' = [v2 EXCEPT ![i] = e]
  BY <1>1, <1>3
<1> HIDE DEF e
<1>6. /\ v2' \in Seq(Event) /\ Len(v2') = Len(v2) /\ DOMAIN v2' = DOMAIN v2
      /\ v2'[i] = e /\ \A j \in DOMAIN v2 : j # i => v2'[j] = v2[j]
  BY <1>2, <1>3, <1>4, <1>5
<1>7. ProfilerTypes'
  BY <1>1, <1>2, <1>6 DEF ProfilerTypes
<1>8. TimesRight'
  <2>1. ASSUME NEW j \in DOMAIN v2
        PROVE  v6[j] = Profiler!Wrapped((IF j \in v7' THEN v1 ELSE v2'[j].end) - v2'[j].start)
    <3>1. v6[j] = Profiler!Wrapped((IF j \in v7 THEN v1 ELSE v2[j].end) - v2[j].start)
      BY DEF ProfilerIInv, TimesRight
    <3>2. CASE j = i
      BY <1>1, <1>4, <1>6, <3>1, <3>2
    <3>3. CASE j # i
      BY <1>1, <1>6, <3>1, <3>3
    <3> QED
      BY <3>2, <3>3
  <2> QED
    BY <1>1, <1>6, <2>1 DEF TimesRight
<1>9. RowsRight(v3)'
  <2>1. \A j \in DOMAIN v2 : j \in DOMAIN v2' /\ v2'[j].tag = v2[j].tag
    BY <1>4, <1>6
  <2> QED
    BY <1>1, <1>2, <1>6, <2>1, RowsKept DEF ProfilerIInv
<1> QED
  BY <1>1, <1>7, <1>8, <1>9 DEF ProfilerIInv, Profiler!NoTotals

LEMMA LogTicksKeeps ==
  ASSUME ProfilerIInv, Profiler!LogTicksPerTagCsv
  PROVE  ProfilerIInv'
<1>1. /\ v7 = {} /\ v3' = Profiler!Added(v3, Len(v2)) /\ v8' = v8 + 1
      /\ v9' = (Profiler!Printed(v3') = Profiler!Wanted)
      /\ UNCHANGED <<v1, v2, v6, v7>>
  BY ProfilerNames DEF Profiler!LogTicksPerTagCsv
<1>2. v3' = AfterEvents(v3)[Len(v2)]
  BY <1>1 DEF Profiler!Added, AfterEvents
<1>3. ProfilerTypes /\ TimesRight /\ RowsRight(v3) /\ Len(v2) \in 0 .. Len(v2) /\ v8 \in Nat
  BY DEF ProfilerIInv, ProfilerTypes
<1> DEFINE after == AfterEvents(v3)[Len(v2)]
<1>4. RowsRight(after)
  BY <1>3, RowsStayRight
<1>5. ASSUME v8 = 0 PROVE Profiler!Printed(after) = Profiler!Wanted
  <2>1. CountedBy(v3, 0)
    BY <1>3, <1>5, NothingCounted DEF ProfilerIInv
  <2>2. CountedBy(after, Len(v2))
    BY <1>1, <1>3, <2>1, RowsStayRight
  <2> QED
    BY <1>3, <1>4, <2>2, CountedPrints
<1>6. v3' = after
  BY <1>2
<1> HIDE DEF after
<1>7. ProfilerTypes' /\ TimesRight'
  BY <1>1, <1>3 DEF ProfilerTypes, TimesRight
<1>8. RowsRight(v3)'
  BY <1>1, <1>4, <1>6 DEF RowsRight
<1>9. v8' = 1 => v9'
  <2>1. v8' = 1 => v8 = 0
    BY <1>1, <1>3
  <2> QED
    BY <1>1, <1>5, <1>6, <2>1
<1>10. v8' # 0
  BY <1>1, <1>3
<1> QED
  BY <1>7, <1>8, <1>9, <1>10 DEF ProfilerIInv

LEMMA ClearEventsKeeps ==
  ASSUME ProfilerIInv, Profiler!ClearEvents
  PROVE  ProfilerIInv'
<1>1. /\ v7 = {} /\ v2' = <<>> /\ v6' = <<>> /\ v8' = 0 /\ UNCHANGED <<v1, v7>>
      /\ v3' = [i \in Profiler!Slots |-> IF i <= Len(v2) THEN Profiler!NoTotals[i] ELSE v3[i]]
  BY ProfilerNames DEF Profiler!ClearEvents
<1>2. ProfilerTypes'
  BY <1>1, ProfilerNames DEF ProfilerIInv, ProfilerTypes
<1>3. TimesRight'
  BY <1>1 DEF TimesRight
<1>4. v3' = Profiler!NoTotals
  <2>1. ASSUME NEW i \in Profiler!Slots, ~(i <= Len(v2)) PROVE v3[i] = Profiler!NoTotals[i]
    <3>1. v3[i].tag = "nullptr" /\ v3[i].ticks = 0
      BY <2>1 DEF ProfilerIInv, RowsRight
    <3>2. v3[i] \in Row
      BY RowFacts DEF ProfilerIInv
    <3>3. v3[i] = [tag |-> "nullptr", ticks |-> 0]
      BY <3>1, <3>2 DEF Row
    <3> QED
      BY <3>3, ProfilerNames DEF Profiler!NoTotals
  <2>2. \A i \in Profiler!Slots : v3'[i] = Profiler!NoTotals[i]
    BY <1>1, <2>1
  <2>3. v3' = [i \in Profiler!Slots |-> Profiler!NoTotals[i]]
    BY <1>1, <2>2
  <2>4. Profiler!NoTotals = [i \in Profiler!Slots |-> Profiler!NoTotals[i]]
    BY DEF Profiler!NoTotals
  <2> QED
    BY <2>3, <2>4
<1>5. RowsRight(v3)'
  <2>1. \A i \in Profiler!Slots : v3'[i].tag = "nullptr" /\ v3'[i].ticks = 0
    BY <1>4, ProfilerNames DEF Profiler!NoTotals
  <2>2. v3' \in [Profiler!Slots -> Row]
    BY <1>4, NoTotalsRight DEF RowsRight
  <2> QED
    BY <2>1, <2>2 DEF RowsRight
<1> QED
  BY <1>1, <1>2, <1>3, <1>4, <1>5 DEF ProfilerIInv, Profiler!NoTotals

LEMMA ProfilerKeeps ==
  ASSUME ProfilerIInv, Profiler!Next
  PROVE  ProfilerIInv'
<1>1. CASE Profiler!TooManyEvents
  BY <1>1 DEF Profiler!TooManyEvents, ProfilerIInv, ProfilerTypes, TimesRight, RowsRight
<1> QED
  BY <1>1, TickKeeps, BeginEventKeeps, EndEventKeeps, LogTicksKeeps, ClearEventsKeeps
  DEF Profiler!Next

LEMMA ProfilerRight ==
  ASSUME ProfilerIInv
  PROVE  Profiler!DurationsRight /\ Profiler!OneRowPerTag /\ Profiler!FirstReportRight
<1>1. Profiler!DurationsRight
  BY DEF ProfilerIInv, TimesRight, Profiler!DurationsRight, Profiler!Duration
<1>2. Profiler!OneRowPerTag
  BY ProfilerNames DEF ProfilerIInv, RowsRight, Profiler!OneRowPerTag
<1> QED
  BY <1>1, <1>2 DEF ProfilerIInv, Profiler!FirstReportRight

-----------------------------------------------------------------------------

LEMMA TablesStutter ==
  ASSUME UNCHANGED <<part, pool>>
  PROVE  TablesIInv' = TablesIInv
<1>1. UNCHANGED <<part, v1, v2, v3, v4, v5, v6, v7, v8, v9, v10, v11, v12, v13, v14>>
  BY DEF pool, from6, from7, from10, from11, from12, from14
<1>2. ASSUME NEW b PROVE ResolverIInv(b)' = ResolverIInv(b)
  BY <1>1 DEF ResolverIInv, Registration
<1>3. VariablesIInv' = VariablesIInv
  BY <1>1 DEF VariablesIInv, VariablesTypes, PairsOwned, BuffersAllocated, OutOfRoom, PreparedSoFar,
     AssignedBy, HoldStored, Places, Variables!NullsFollowed
<1>4. ProfilerIInv' = ProfilerIInv
  BY <1>1 DEF ProfilerIInv, ProfilerTypes, TimesRight, RowsRight
<1> QED
  BY <1>1, <1>2, <1>3, <1>4 DEF TablesIInv

\* A step of a part that keeps tables is one of that part.
LEMMA TablesSteps ==
  ASSUME ServicesNext
  PROVE  /\ part' = part
         /\ part = "resolver" => Resolving(EthosuBuild)!Next
         /\ part = "resolver without Ethos-U" => Resolving(PlainBuild)!Next
         /\ part = "variables" => Variables!Next
         /\ part = "profiler" => Profiler!Next
BY DEF ServicesNext, OtherNext, LutNext, PersonNext, FlashNext

LEMMA TablesInvariant == ServicesSpec => []TablesIInv
<1>1. ASSUME ServicesInit PROVE TablesIInv
  <2>1. /\ part = "resolver" => Resolving(EthosuBuild)!Init
        /\ part = "resolver without Ethos-U" => Resolving(PlainBuild)!Init
        /\ part = "variables" => Variables!Init
        /\ part = "profiler" => Profiler!Init
    BY <1>1 DEF ServicesInit
  <2> QED
    BY <2>1, ResolverInit, VariablesInit, ProfilerInit, ResolversAssumption DEF TablesIInv
<1>2. ASSUME TablesIInv, [ServicesNext]_<<part, pool>> PROVE TablesIInv'
  <2>1. CASE UNCHANGED <<part, pool>>
    BY <1>2, <2>1, TablesStutter
  <2>2. CASE ServicesNext
    <3>1. /\ part' = part
          /\ part = "resolver" => Resolving(EthosuBuild)!Next
          /\ part = "resolver without Ethos-U" => Resolving(PlainBuild)!Next
          /\ part = "variables" => Variables!Next
          /\ part = "profiler" => Profiler!Next
      BY <2>2, TablesSteps
    <3>2. part = "resolver" => ResolverIInv(EthosuBuild)'
      BY <1>2, <3>1, ResolverKeeps, ResolversAssumption DEF TablesIInv
    <3>3. part = "resolver without Ethos-U" => ResolverIInv(PlainBuild)'
      BY <1>2, <3>1, ResolverKeeps, ResolversAssumption DEF TablesIInv
    <3> QED
      BY <1>2, <3>1, <3>2, <3>3, VariablesKeeps, ProfilerKeeps DEF TablesIInv
  <2> QED
    BY <1>2, <2>1, <2>2
<1> QED
  BY <1>1, <1>2, PTL DEF ServicesSpec

\* Whatever is registered, assigned or profiled, the tables kept beside each other
\* agree: each operator has its own parser and is found, also in a build without the
\* Ethos-U kernel; a variable reads as what was last assigned to its name and
\* container, and a null pointer is followed only after an allocation that ran out of
\* room or by a model that reads what it assigns nowhere; and the first report after a
\* clearing prints for each tag the ticks for which its events were open, in tables of
\* any size and on a counter of any width.
THEOREM TablesStayRight == ServicesSpec => []TablesRight
<1>1. TablesIInv => TablesRight
  BY ResolverRight, VariablesRight, ProfilerRight, ResolversAssumption
  DEF TablesIInv, TablesRight
<1> QED
  BY <1>1, TablesInvariant, PTL

\* No step takes back what was handed out: allocators over two arenas implement the
\* buffer allocator's contract and planners the promise of a plan, a pointer to a
\* registration stays right and an operator is only refused when it is registered or
\* the table is full, and room is taken once for each variable.
THEOREM NothingIsTakenBack == ServicesSpec => NothingTakenBack
<1>1. ASSUME MemoryIInv, TablesIInv, ServicesNext
      PROVE  /\ part = "split arenas" => Split!KeepsContract
             /\ part = "planners" => Planners!KeepsPlan
             /\ part = "resolver" => Resolving(EthosuBuild)!PointersStay
                                     /\ Resolving(EthosuBuild)!RefusesRightly
             /\ part = "variables" => Variables!AllocatedOnce /\ Variables!ResetRestores
  <2>1. part = "split arenas" => Split!KeepsContract
    BY <1>1, MemorySteps, SplitRefines DEF MemoryIInv
  <2>2. part = "planners" => Planners!KeepsPlan
    BY <1>1, MemorySteps, PlannersRefine DEF MemoryIInv
  <2>3. part = "resolver" => Resolving(EthosuBuild)!PointersStay
                             /\ Resolving(EthosuBuild)!RefusesRightly
    BY <1>1, TablesSteps, ResolverKeeps, ResolverRefuses, ResolversAssumption DEF TablesIInv
  <2>4. part = "variables" => Variables!AllocatedOnce /\ Variables!ResetRestores
    BY <1>1, TablesSteps, VariablesKept DEF TablesIInv
  <2> QED
    BY <2>1, <2>2, <2>3, <2>4
<1> QED
  BY <1>1, MemoryInvariant, TablesInvariant, PTL DEF ServicesSpec, NothingTakenBack

-----------------------------------------------------------------------------
(* Decompression memory. *)

\* Rounding up.
LEMMA AlignedUp ==
  ASSUME NEW a \in Nat, NEW d \in Nat \ {0}
  PROVE  /\ ((a + d - 1) \div d) * d \in Nat /\ a <= ((a + d - 1) \div d) * d
         /\ ((((a + d - 1) \div d) * d) % d) = 0
<1>1. PICK x \in Nat : x = a + d - 1
  OBVIOUS
<1>2. PICK q \in Nat, m \in 0..(d - 1) : q = x \div d /\ x = d * q + m
  <2>1. x \div d \in Nat /\ (x % d) \in 0..(d - 1) /\ x = d * (x \div d) + (x % d)
    OBVIOUS
  <2> QED
    BY <2>1
<1>3. q * d \in Nat /\ a <= q * d
  <2>1. d * q = q * d /\ q * d \in Nat
    OBVIOUS
  <2> QED
    BY <1>1, <1>2, <2>1
<1>4. ((q * d) % d) = 0
  OBVIOUS
<1> QED
  BY <1>1, <1>2, <1>3, <1>4

LEMMA GraphRight ==
  ASSUME NEW b, DecompressesIn(b), NEW g \in b.graphs
  PROVE  /\ g \in Seq([decode : BOOLEAN, sizes : Seq(Nat), reads : SUBSET (Nat \X Nat)])
         /\ g # <<>> /\ Len(g) \in Nat \ {0} /\ DOMAIN g = 1..Len(g)
         /\ \A k \in DOMAIN g :
              IF b.compression THEN ~g[k].decode /\ g[k].reads = {}
              ELSE /\ g[k].decode \/ g[k].sizes = <<>>
                   /\ \A t \in g[k].reads :
                        t[1] \in 1..(k - 1) /\ g[t[1]].decode /\ t[2] \in DOMAIN g[t[1]].sizes
<1>1. Memory(b)!WellFormed(g)
  BY DEF DecompressesIn
<1>2. /\ g \in Seq([decode : BOOLEAN, sizes : Seq(Nat), reads : SUBSET (Nat \X Nat)])
      /\ g # <<>>
  BY <1>1 DEF Memory!WellFormed
<1>3. Len(g) \in Nat \ {0} /\ DOMAIN g = 1..Len(g)
  BY <1>2, EmptySeq
<1> QED
  BY <1>1, <1>2, <1>3 DEF Memory!WellFormed

LEMMA RegionFacts ==
  ASSUME NEW s \in Seq([base : Nat, bytes : Nat]), NEW r \in DOMAIN s
  PROVE  s[r].base \in Nat /\ s[r].bytes \in Nat
<1>1. r \in 1..Len(s)
  OBVIOUS
<1>2. s[r] \in [base : Nat, bytes : Nat]
  BY <1>1, ElementOfSeq
<1> QED
  BY <1>2

\* The tensors of a model, and their sizes.
LEMMA TensorFacts ==
  ASSUME NEW b, DecompressesIn(b), v2 \in b.graphs
  PROVE  /\ \A t \in Memory(b)!Tensors :
              /\ t = <<t[1], t[2]>> /\ t[1] \in DOMAIN v2 /\ t[2] \in DOMAIN v2[t[1]].sizes
              /\ t[1] \in Nat /\ t[2] \in Nat /\ Memory(b)!Size(t) \in Nat
         /\ \A k \in DOMAIN v2 : \A j \in DOMAIN v2[k].sizes :
              /\ <<k, j>> \in Memory(b)!Tensors
              /\ Memory(b)!Size(<<k, j>>) = v2[k].sizes[j]
         /\ \A t : Memory(b)!Size(t) = v2[t[1]].sizes[t[2]]
<1>1. /\ v2 \in Seq([decode : BOOLEAN, sizes : Seq(Nat), reads : SUBSET (Nat \X Nat)])
      /\ DOMAIN v2 = 1..Len(v2) /\ Len(v2) \in Nat
  BY GraphRight
<1>2. \A t : t \in Memory(b)!Tensors <=>
               \E k \in DOMAIN v2 : t \in {k} \X DOMAIN v2[k].sizes
  BY DEF Memory!Tensors
<1>3. \A k \in DOMAIN v2 :
        /\ k \in Nat /\ v2[k].sizes \in Seq(Nat)
        /\ \A j \in DOMAIN v2[k].sizes : j \in Nat /\ v2[k].sizes[j] \in Nat
  <2>1. ASSUME NEW k \in DOMAIN v2 PROVE k \in Nat /\ v2[k].sizes \in Seq(Nat)
    <3>1. k \in 1..Len(v2)
      BY <1>1
    <3>2. v2[k] \in [decode : BOOLEAN, sizes : Seq(Nat), reads : SUBSET (Nat \X Nat)]
      BY <1>1, <3>1, ElementOfSeq
    <3> QED
      BY <3>1, <3>2
  <2>2. ASSUME NEW s \in Seq(Nat), NEW j \in DOMAIN s PROVE j \in Nat /\ s[j] \in Nat
    BY ElementOfSeq
  <2> QED
    BY <2>1, <2>2
<1> QED
  BY <1>2, <1>3 DEF Memory!Size

\* The place that is found for some bytes.
LEMMA SpotRight ==
  ASSUME NEW b, DecompressesIn(b), PlacedTypes(b), DOMAIN v4 = DOMAIN v3,
         NEW bytes \in Nat, Memory(b)!HasRoom(bytes)
  PROVE  \E r \in DOMAIN v3, offset \in Nat :
           /\ Memory(b)!FirstThatHolds(bytes) = r
           /\ Memory(b)!Spot(bytes) = [region |-> r, offset |-> offset]
           /\ v4[r] <= offset /\ offset + bytes <= v3[r].bytes
           /\ v4[r] + bytes + Memory(b)!Padding(r) = offset + bytes
           /\ ((v3[r].base + offset) % b.alignment) = 0
<1> DEFINE room == {r \in DOMAIN v3 : Memory(b)!Holds(r, bytes)}
<1>1. DOMAIN v3 \subseteq Nat /\ DOMAIN v3 = 1..Len(v3) /\ Len(v3) \in Nat
  BY DEF PlacedTypes
<1>2. room # {} /\ room \subseteq Nat
  BY <1>1 DEF Memory!HasRoom
<1>3. PICK l \in room : \A q \in room : l <= q
  BY <1>2, LeastOf
<1>4. l \in DOMAIN v3 /\ Memory(b)!Holds(l, bytes)
      /\ \A q \in 1..(l - 1) : ~Memory(b)!Holds(q, bytes)
  <2>1. ASSUME NEW q \in 1..(l - 1) PROVE q \in DOMAIN v3 /\ ~(l <= q)
    BY <1>1, <1>3
  <2> QED
    BY <1>3, <2>1
<1>5. PICK r \in DOMAIN v3 :
        r = Memory(b)!FirstThatHolds(bytes) /\ Memory(b)!Holds(r, bytes)
  BY <1>4 DEF Memory!FirstThatHolds
<1>6. PICK base \in Nat, most \in Nat, taken \in Nat, d \in Nat \ {0} :
        base = v3[r].base /\ most = v3[r].bytes /\ taken = v4[r] /\ d = b.alignment
  <2>1. v3[r].base \in Nat /\ v3[r].bytes \in Nat
    BY <1>5, RegionFacts DEF PlacedTypes
  <2>2. v4[r] \in Nat /\ b.alignment \in Nat \ {0}
    BY <1>5 DEF PlacedTypes, DecompressesIn
  <2> QED
    BY <2>1, <2>2
<1>7. PICK up \in Nat : /\ up = Memory(b)!Aligned(v3[r].base + v4[r])
                        /\ base + taken <= up /\ (up % d) = 0
  <2>1. Memory(b)!Aligned(v3[r].base + v4[r]) = ((base + taken + d - 1) \div d) * d
    BY <1>6 DEF Memory!Aligned
  <2>2. base + taken \in Nat
    BY <1>6
  <2> QED
    BY <1>6, <2>1, <2>2, AlignedUp
<1>8. PICK padding \in Nat : padding = up - (base + taken)
  BY <1>6, <1>7
<1>9. padding = Memory(b)!Padding(r)
  BY <1>6, <1>7, <1>8 DEF Memory!Padding
<1>10. bytes + padding + taken <= most
  BY <1>5, <1>6, <1>9 DEF Memory!Holds
<1>11. PICK offset \in Nat : offset = taken + padding
  BY <1>6, <1>8
<1>12. Memory(b)!Spot(bytes) = [region |-> r, offset |-> offset]
  BY <1>5, <1>6, <1>9, <1>11 DEF Memory!Spot
<1>13. taken <= offset /\ offset + bytes <= most /\ taken + bytes + padding = offset + bytes
       /\ base + offset = up
  BY <1>6, <1>7, <1>8, <1>10, <1>11
<1> QED
  BY <1>5, <1>6, <1>7, <1>9, <1>11, <1>12, <1>13

LEMMA DecompressionStarts ==
  ASSUME NEW b, DecompressesIn(b), Memory(b)!Init
  PROVE  PlacedIInv(b)
<1>1. /\ v1 = "init" /\ v2 \in b.graphs /\ v3 = <<>> /\ v4 = <<>> /\ v5 = <<>> /\ v6 = <<>>
      /\ v7 = 1 /\ v9 = 0
  BY DEF Memory!Init
<1>2. Len(v2) \in Nat \ {0}
  BY <1>1, GraphRight
<1>3. PlacedTypes(b)
  <2>1. v7 \in 0..Len(v2) /\ v9 \in 0..b.max_invokes
    BY <1>1, <1>2 DEF DecompressesIn
  <2> QED
    BY <1>1, <2>1 DEF PlacedTypes
<1> QED
  BY <1>1, <1>3 DEF PlacedIInv, Prepared, KernelPlaces, Below, CurrentHeld

LEMMA DecompressionRight ==
  ASSUME NEW b, DecompressesIn(b), PlacedIInv(b)
  PROVE  /\ Memory(b)!TypeOK /\ Memory(b)!PlacesInside
         /\ Memory(b)!PlacesApart /\ Memory(b)!InputsIntact
<1>1. Memory(b)!TypeOK
  <2>1. \A r \in DOMAIN v4 : v4[r] \in 0..v3[r].bytes
    BY DEF PlacedIInv, PlacedTypes
  <2> QED
    BY <2>1 DEF PlacedIInv, PlacedTypes, Memory!TypeOK
<1>2. DOMAIN v3 = 1..Len(v3) /\ Len(v3) \in Nat
  BY DEF PlacedIInv, PlacedTypes
<1>3. ASSUME NEW t \in DOMAIN v5
      PROVE  Memory(b)!InRegion(v5[t]) => v5[t].region \in DOMAIN v3
  BY <1>2, <1>3 DEF PlacedIInv, PlacedRight, Memory!InRegion
<1>4. Memory(b)!PlacesInside
  <2>1. ASSUME NEW t \in DOMAIN v5, v5[t].region \in DOMAIN v3
        PROVE  /\ v5[t].offset + Memory(b)!Size(t) <= v3[v5[t].region].bytes
               /\ ((v3[v5[t].region].base + v5[t].offset) % b.alignment) = 0
    BY <1>2, <2>1 DEF PlacedIInv, PlacedRight
  <2> QED
    BY <1>3, <2>1 DEF Memory!PlacesInside
<1>5. Memory(b)!PlacesApart
  BY <1>3 DEF PlacedIInv, Apart, Memory!PlacesApart
<1>6. Memory(b)!InputsIntact
  <2> SUFFICES ASSUME v1 = "running", v8 = {},
                      NEW t \in v2[v7].reads \cup ({v7} \X DOMAIN v2[v7].sizes),
                      \A i \in (t[1] + 1)..v7 : ~v2[i].decode
               PROVE  Memory(b)!Intact(t)
    BY DEF Memory!InputsIntact, Memory!Computing, Memory!StillPlaced
  <2>1. v2 \in b.graphs /\ v7 \in DOMAIN v2 /\ v7 \in Nat /\ DOMAIN v5 = Memory(b)!Tensors
    BY DEF PlacedIInv, PlacedTypes, Prepared
  <2>2. t \in Memory(b)!Tensors /\ Current(t)
    <3>1. CASE t \in v2[v7].reads
      <4>1. /\ t \in Nat \X Nat /\ t[1] \in 1..(v7 - 1) /\ v2[t[1]].decode
            /\ t[2] \in DOMAIN v2[t[1]].sizes
        <5>1. /\ v2[v7].reads \in SUBSET (Nat \X Nat)
              /\ IF b.compression THEN v2[v7].reads = {}
                 ELSE \A u \in v2[v7].reads :
                        /\ u[1] \in 1..(v7 - 1) /\ v2[u[1]].decode
                        /\ u[2] \in DOMAIN v2[u[1]].sizes
          <6>1. v2[v7] \in [decode : BOOLEAN, sizes : Seq(Nat), reads : SUBSET (Nat \X Nat)]
            <7>1. v7 \in 1..Len(v2)
              BY <2>1, GraphRight
            <7>2. v2 \in Seq([decode : BOOLEAN, sizes : Seq(Nat), reads : SUBSET (Nat \X Nat)])
              BY <2>1, GraphRight
            <7> QED
              BY <7>1, <7>2, ElementOfSeq
          <6>2. v2[v7].reads \in SUBSET (Nat \X Nat)
            BY <6>1
          <6> QED
            BY <2>1, <6>2, GraphRight
        <5> QED
          BY <3>1, <5>1
      <4>2. t[1] \in DOMAIN v2 /\ t[1] < v7 /\ t = <<t[1], t[2]>>
        BY <2>1, <4>1, GraphRight
      <4> QED
        BY <2>1, <4>1, <4>2, TensorFacts DEF Current
    <3>2. CASE t \in {v7} \X DOMAIN v2[v7].sizes
      <4>1. t = <<v7, t[2]>> /\ t[1] = v7 /\ t[2] \in DOMAIN v2[v7].sizes
        BY <3>2
      <4>2. (t[1] + 1)..v7 = {} /\ t[1] <= v7
        BY <2>1, <4>1
      <4> QED
        BY <2>1, <4>1, <4>2, TensorFacts DEF Current
    <3> QED
      BY <3>1, <3>2
  <2>3. Holds(b, t)
    BY <2>2 DEF PlacedIInv, CurrentHeld
  <2> QED
    BY <1>3, <2>1, <2>2, <2>3 DEF Memory!Intact, Holds
<1> QED
  BY <1>1, <1>4, <1>5, <1>6

-----------------------------------------------------------------------------
\* What only depends on variables that a step leaves alone.
LEMMA SameTensors ==
  ASSUME NEW b, UNCHANGED v2
  PROVE  /\ Memory(b)!Tensors' = Memory(b)!Tensors
         /\ \A t : Memory(b)!Size(t)' = Memory(b)!Size(t)
BY DEF Memory!Tensors, Memory!Size

LEMMA SamePlaces ==
  ASSUME NEW b, PlacedIInv(b), UNCHANGED <<v2, v3, v5>>,
         DOMAIN v4 = DOMAIN v3 => DOMAIN v4' = DOMAIN v3
  PROVE  /\ (DOMAIN v5 \subseteq Memory(b)!Tensors)'
         /\ (\A t \in DOMAIN v5 : PlacedRight(b, t))'
         /\ (\A t, u \in DOMAIN v5 :
               t[1] = u[1] /\ t # u /\ v5[t].region \in DOMAIN v3
                 /\ v5[u].region = v5[t].region => Apart(b, t, u))'
<1>1. /\ Memory(b)!Tensors' = Memory(b)!Tensors
      /\ \A t : Memory(b)!Size(t)' = Memory(b)!Size(t)
  BY SameTensors
<1>2. DOMAIN v5 \subseteq Memory(b)!Tensors /\ \A t \in DOMAIN v5 : PlacedRight(b, t)
  BY DEF PlacedIInv
<1>3. \A t, u \in DOMAIN v5 :
        t[1] = u[1] /\ t # u /\ v5[t].region \in DOMAIN v3
          /\ v5[u].region = v5[t].region => Apart(b, t, u)
  BY DEF PlacedIInv
<1>4. (\A t \in DOMAIN v5 : PlacedRight(b, t))'
  BY <1>1, <1>2 DEF PlacedRight
<1>5. \A t, u : Apart(b, t, u)' = Apart(b, t, u)
  BY <1>1 DEF Apart
<1> QED
  BY <1>1, <1>2, <1>3, <1>4, <1>5

LEMMA DecompressionStays ==
  ASSUME NEW b
  PROVE  UNCHANGED pool /\ PlacedIInv(b) => PlacedIInv(b)'
<1> SUFFICES ASSUME UNCHANGED pool, PlacedIInv(b) PROVE PlacedIInv(b)'
  OBVIOUS
<1>1. UNCHANGED <<v1, v2, v3, v4, v5, v6, v7, v8, v9>>
  BY DEF pool, from6, from7
<1>2. /\ Memory(b)!Tensors' = Memory(b)!Tensors
      /\ \A t : Memory(b)!Size(t)' = Memory(b)!Size(t)
  BY <1>1, SameTensors
<1>3. (Prepared(b) => Prepared(b)') /\ (KernelPlaces => KernelPlaces')
  BY <1>1, <1>2 DEF Prepared, KernelPlaces
<1>4. (Below(b) => Below(b)') /\ (CurrentHeld(b) => CurrentHeld(b)')
  BY <1>1, <1>2 DEF Below, CurrentHeld, Current, Holds
<1>5. PlacedTypes(b)'
  BY <1>1 DEF PlacedIInv, PlacedTypes
<1> QED
  BY <1>1, <1>3, <1>4, <1>5, SamePlaces DEF PlacedIInv

LEMMA CrashKeeps ==
  ASSUME NEW b, PlacedIInv(b), Memory(b)!Crash
  PROVE  PlacedIInv(b)'
<1>1. v1' = "crashed" /\ UNCHANGED <<v2, v3, v4, v5, v6, v7, v8, v9>>
  BY DEF Memory!Crash, Memory!context
<1>2. PlacedTypes(b)'
  BY <1>1 DEF PlacedIInv, PlacedTypes
<1> QED
  BY <1>1, <1>2, SamePlaces DEF PlacedIInv

LEMMA SetDecompressionMemoryKeeps ==
  ASSUME NEW b, DecompressesIn(b), PlacedIInv(b),
         Memory(b)!SetDecompressionMemory
  PROVE  PlacedIInv(b)'
<1>1. /\ v1 = "init" /\ v3 = <<>> /\ v4 = <<>> /\ v1' = "init"
      /\ UNCHANGED <<v2, v5, v7, v8, v9>>
      /\ v3' \in b.layouts
      /\ v6' = [r \in DOMAIN v3' |-> [a \in 0..(v3'[r].bytes - 1) |-> <<0, 0>>]]
      /\ v4' = [r \in DOMAIN v3' |-> 0] \/ v4' = <<>>
  BY DEF Memory!SetDecompressionMemory, Memory!NoData, Memory!Nothing,
     PlacedIInv, Prepared
<1>2. DOMAIN v5 = {}
  BY <1>1 DEF PlacedIInv, Prepared
<1>3. v3' \in Seq([base : Nat, bytes : Nat])
  BY <1>1 DEF DecompressesIn
<1>4. \A r \in DOMAIN v4' : v4'[r] \in Nat /\ v4'[r] <= v3'[r].bytes
  <2>1. CASE v4' = <<>>
    BY <2>1
  <2>2. CASE v4' = [r \in DOMAIN v3' |-> 0]
    <3>1. ASSUME NEW r \in DOMAIN v3' PROVE v3'[r].bytes \in Nat
      BY <1>3, RegionFacts
    <3> QED
      BY <2>2, <3>1
  <2> QED
    BY <1>1, <2>1, <2>2
<1>5. PlacedTypes(b)'
  BY <1>1, <1>3, <1>4 DEF PlacedIInv, PlacedTypes
<1>6. (v3' = <<>> => v4' = <<>>)
  BY <1>1, <1>3
<1> QED
  BY <1>1, <1>2, <1>5, <1>6
  DEF PlacedIInv, Prepared, KernelPlaces, Below, CurrentHeld

LEMMA AllocateTensorsKeeps ==
  ASSUME NEW b, DecompressesIn(b), PlacedIInv(b), Memory(b)!AllocateTensors
  PROVE  PlacedIInv(b)'
<1>1. /\ v1 = "init" /\ v1' = "preparing" /\ v7' = 0 /\ v8' = {}
      /\ UNCHANGED <<v2, v3, v4, v5, v6, v9>>
  BY DEF Memory!AllocateTensors, Memory!context
<1>2. DOMAIN v5 = {} /\ v2 \in b.graphs
  BY <1>1 DEF PlacedIInv, PlacedTypes, Prepared
<1>3. Len(v2) \in Nat \ {0} /\ DOMAIN v2 = 1..Len(v2)
  BY <1>2, GraphRight
<1>4. PlacedTypes(b)'
  <2>1. v7' \in 0..Len(v2)
    BY <1>1, <1>3
  <2> QED
    BY <1>1, <2>1 DEF PlacedIInv, PlacedTypes
<1>5. \A t \in Memory(b)!Tensors : t[1] \in Nat \ {0}
  BY <1>2, <1>3, TensorFacts
<1>6. Prepared(b)'
  <2>1. {t \in Memory(b)!Tensors : t[1] < 0 \/ (t[1] = 0 /\ t[2] \notin {})} = {}
    BY <1>5
  <2> QED
    BY <1>1, <1>2, <2>1, SameTensors DEF Prepared
<1> QED
  BY <1>1, <1>2, <1>4, <1>6, SamePlaces
  DEF PlacedIInv, KernelPlaces, Below, CurrentHeld

LEMMA NextPrepareKeeps ==
  ASSUME NEW b, DecompressesIn(b), PlacedIInv(b), Memory(b)!NextPrepare
  PROVE  PlacedIInv(b)'
<1>1. /\ v1 = "preparing" /\ v8 = {} /\ v2 \in b.graphs /\ v7 \in 0..Len(v2)
      /\ v2' = v2
  BY DEF Memory!NextPrepare, Memory!context, Memory!Crash,
     PlacedIInv, PlacedTypes
<1>2. Len(v2) \in Nat \ {0} /\ DOMAIN v2 = 1..Len(v2)
  BY <1>1, GraphRight
<1>3. /\ Memory(b)!Tensors' = Memory(b)!Tensors
      /\ \A t : Memory(b)!Size(t)' = Memory(b)!Size(t)
  BY <1>1, SameTensors
<1>4. DOMAIN v5 = {t \in Memory(b)!Tensors : t[1] < v7 \/ (t[1] = v7 /\ t[2] \notin {})}
  BY <1>1 DEF PlacedIInv, Prepared
<1>5. /\ \A t \in Memory(b)!Tensors :
           t[1] \in 1..Len(v2) /\ t[2] \in DOMAIN v2[t[1]].sizes
      /\ \A t \in DOMAIN v5 : ~v2[t[1]].decode => v5[t].region \notin DOMAIN v3
  BY <1>1, <1>2, TensorFacts DEF PlacedIInv, KernelPlaces
<1>6. CASE v7 = Len(v2)
  <2>1. v1' = "ready" /\ UNCHANGED <<v2, v3, v4, v5, v6, v7, v8, v9>>
    BY <1>6 DEF Memory!NextPrepare, Memory!context
  <2>2. PlacedTypes(b)'
    BY <2>1 DEF PlacedIInv, PlacedTypes
  <2>3. DOMAIN v5 = Memory(b)!Tensors
    BY <1>2, <1>4, <1>5, <1>6
  <2> QED
    BY <1>3, <1>5, <2>1, <2>2, <2>3, SamePlaces
    DEF PlacedIInv, Prepared, KernelPlaces, Below, CurrentHeld
<1>7. CASE v7 # Len(v2) /\ ~Memory(b)!Crash
  <2>1. /\ v7' = v7 + 1 /\ UNCHANGED <<v1, v2, v3, v5, v6, v9>>
        /\ v8' = IF v7 + 1 \in DOMAIN v2 THEN DOMAIN v2[v7 + 1].sizes ELSE {}
        /\ v4' = [r \in DOMAIN v3 |-> 0] \/ v4' = v4
    BY <1>7 DEF Memory!NextPrepare, Memory!Enter, Memory!Operators,
       Memory!Cleared
  <2>2. v7 + 1 \in DOMAIN v2 /\ v7 + 1 \in 0..Len(v2)
    <3>1. PICK k, n : k = v7 /\ n = Len(v2)
      OBVIOUS
    <3>2. n \in Nat /\ k \in 0..n /\ k # n
      BY <1>1, <1>2, <1>7, <3>1
    <3>3. k + 1 \in 1..n /\ k + 1 \in 0..n
      BY <3>2
    <3> QED
      BY <1>2, <3>1, <3>3
  <2>3. /\ v4' = <<>> \/ DOMAIN v4' = DOMAIN v3
        /\ \A r \in DOMAIN v4' : v4'[r] \in Nat /\ v4'[r] <= v3[r].bytes
        /\ DOMAIN v4 = DOMAIN v3 => DOMAIN v4' = DOMAIN v3
    <3>1. CASE v4' = v4
      BY <3>1 DEF PlacedIInv, PlacedTypes
    <3>2. CASE v4' = [r \in DOMAIN v3 |-> 0]
      <4>1. ASSUME NEW r \in DOMAIN v3 PROVE v3[r].bytes \in Nat
        BY RegionFacts DEF PlacedIInv, PlacedTypes
      <4> QED
        BY <3>2, <4>1
    <3> QED
      BY <2>1, <3>1, <3>2
  <2>4. PlacedTypes(b)'
    BY <2>1, <2>2, <2>3 DEF PlacedIInv, PlacedTypes
  <2>5. \A t \in DOMAIN v5 : t[1] # v7'
    BY <1>1, <1>2, <1>4, <1>5, <2>1
  <2>6. \A t \in Memory(b)!Tensors :
          t[1] < v7 \/ (t[1] = v7 /\ t[2] \notin {})
            <=> t[1] < v7' \/ (t[1] = v7' /\ t[2] \notin v8')
    <3>1. \A t \in Memory(b)!Tensors :
            t[1] < v7 \/ (t[1] = v7 /\ t[2] \notin {}) <=> t[1] < v7'
      BY <1>1, <1>2, <1>5, <2>1
    <3>2. \A t \in Memory(b)!Tensors : t[1] = v7' => t[2] \in v8'
      BY <1>5, <2>1, <2>2
    <3> QED
      BY <3>1, <3>2
  <2>7. Prepared(b)'
    BY <1>1, <1>3, <1>4, <2>1, <2>2, <2>6 DEF Prepared
  <2>8. KernelPlaces' /\ Below(b)' /\ CurrentHeld(b)'
    BY <1>1, <1>5, <2>1, <2>5 DEF KernelPlaces, Below, CurrentHeld
  <2> QED
    BY <2>1, <2>3, <2>4, <2>7, <2>8, SamePlaces DEF PlacedIInv
<1> QED
  BY <1>6, <1>7, CrashKeeps

\* What AllocateDecompressionMemory takes is behind all that was allocated.
LEMMA RoomTaken ==
  ASSUME NEW b, DecompressesIn(b), PlacedTypes(b), DOMAIN v4 = DOMAIN v3,
         NEW bytes \in Nat, Memory(b)!HasRoom(bytes), Memory(b)!Take(bytes)
  PROVE  \E r \in DOMAIN v3, offset \in Nat :
           /\ Memory(b)!Spot(bytes) = [region |-> r, offset |-> offset]
           /\ v4[r] <= offset /\ offset + bytes <= v3[r].bytes
           /\ ((v3[r].base + offset) % b.alignment) = 0
           /\ DOMAIN v4' = DOMAIN v3 /\ v4'[r] = offset + bytes
           /\ \A q \in DOMAIN v3 : v4'[q] \in Nat /\ v4'[q] <= v3[q].bytes /\ v4[q] <= v4'[q]
<1>1. PICK r \in DOMAIN v3, offset \in Nat :
        /\ Memory(b)!FirstThatHolds(bytes) = r
        /\ Memory(b)!Spot(bytes) = [region |-> r, offset |-> offset]
        /\ v4[r] <= offset /\ offset + bytes <= v3[r].bytes
        /\ v4[r] + bytes + Memory(b)!Padding(r) = offset + bytes
        /\ ((v3[r].base + offset) % b.alignment) = 0
  BY SpotRight
<1>2. v4' = [v4 EXCEPT ![r] = v4[r] + bytes + Memory(b)!Padding(r)]
  BY <1>1 DEF Memory!Take
<1>3. v4' = [v4 EXCEPT ![r] = offset + bytes]
  BY <1>1, <1>2
<1>4. ASSUME NEW q \in DOMAIN v3
      PROVE  v4'[q] \in Nat /\ v4'[q] <= v3[q].bytes /\ v4[q] <= v4'[q]
  <2>1. v4[q] \in Nat /\ v4[q] <= v3[q].bytes /\ v3[q].bytes \in Nat
    BY RegionFacts DEF PlacedTypes
  <2>2. CASE q = r
    <3>1. v4'[q] = offset + bytes
      BY <1>1, <1>3, <2>2
    <3> QED
      BY <1>1, <2>1, <2>2, <3>1
  <2>3. CASE q # r
    BY <1>1, <1>3, <2>1, <2>3
  <2> QED
    BY <2>2, <2>3
<1> QED
  BY <1>1, <1>3, <1>4

\* A tensor that gets a place behind those of its operator.
LEMMA PlaceGiven ==
  ASSUME NEW b, DecompressesIn(b), PlacedIInv(b), UNCHANGED <<v2, v3>>,
         DOMAIN v4 = DOMAIN v3 => DOMAIN v4' = DOMAIN v3,
         NEW t \in Memory(b)!Tensors, DOMAIN v5' = DOMAIN v5 \cup {t},
         \A u \in DOMAIN v5 : u # t => v5'[u] = v5[u],
         PlacedRight(b, t)',
         v5'[t].region \in DOMAIN v3 =>
           \A u \in DOMAIN v5 : u # t /\ u[1] = t[1] /\ v5[u].region = v5'[t].region =>
             v5[u].offset + Memory(b)!Size(u) <= v5'[t].offset
  PROVE  /\ (DOMAIN v5 \subseteq Memory(b)!Tensors)'
         /\ (\A u \in DOMAIN v5 : PlacedRight(b, u))'
         /\ (\A u, v \in DOMAIN v5 :
               u[1] = v[1] /\ u # v /\ v5[u].region \in DOMAIN v3
                 /\ v5[v].region = v5[u].region => Apart(b, u, v))'
<1>1. /\ Memory(b)!Tensors' = Memory(b)!Tensors
      /\ \A u : Memory(b)!Size(u)' = Memory(b)!Size(u)
  BY SameTensors
<1>2. ASSUME NEW u \in DOMAIN v5, u # t PROVE PlacedRight(b, u)'
  <2>1. PlacedRight(b, u) /\ v5'[u] = v5[u]
    BY <1>2 DEF PlacedIInv
  <2> QED
    BY <1>1, <2>1 DEF PlacedRight
<1>3. ASSUME NEW u \in DOMAIN v5, NEW v \in DOMAIN v5, u[1] = v[1], u # v,
             (v5[u].region \in DOMAIN v3)', (v5[v].region = v5[u].region)', u # t, v # t
      PROVE  Apart(b, u, v)'
  <2>1. Apart(b, u, v) /\ v5'[u] = v5[u] /\ v5'[v] = v5[v]
    BY <1>3 DEF PlacedIInv
  <2> QED
    BY <1>1, <2>1 DEF Apart
<1>4. ASSUME NEW u \in DOMAIN v5, u[1] = t[1], u # t,
             (v5[u].region \in DOMAIN v3)', (v5[t].region = v5[u].region)'
      PROVE  Apart(b, u, t)' /\ Apart(b, t, u)'
  <2>1. v5'[u] = v5[u] /\ v5'[t].region \in DOMAIN v3 /\ v5[u].region = v5'[t].region
    BY <1>4
  <2>2. v5[u].offset + Memory(b)!Size(u) <= v5'[t].offset
    BY <1>4, <2>1
  <2> QED
    BY <1>1, <2>1, <2>2 DEF Apart
<1>5. DOMAIN v5 \subseteq Memory(b)!Tensors
  BY DEF PlacedIInv
<1>6. (\A u \in DOMAIN v5 : PlacedRight(b, u))'
  BY <1>2
<1>7. \A u, v \in DOMAIN v5' :
        u[1] = v[1] /\ u # v /\ (v5[u].region \in DOMAIN v3)'
          /\ (v5[v].region = v5[u].region)' => Apart(b, u, v)'
  BY <1>3, <1>4
<1> QED
  BY <1>1, <1>5, <1>6, <1>7

\* The operator whose turn it is and the tensors it still has.
LEMMA ToDo ==
  ASSUME NEW b, DecompressesIn(b), PlacedIInv(b),
         v1 \in {"preparing", "running"}, v8 # {}
  PROVE  /\ v2 \in b.graphs /\ v7 \in DOMAIN v2 /\ v7 \in Nat
         /\ v8 \subseteq DOMAIN v2[v7].sizes
         /\ Memory(b)!First(v8) \in v8
         /\ \A j \in v8 : <<v7, j>> \in Memory(b)!Tensors
<1>1. v2 \in b.graphs /\ v7 \in DOMAIN v2 /\ v8 \subseteq DOMAIN v2[v7].sizes
  BY DEF PlacedIInv, PlacedTypes, Prepared
<1>2. \A j \in v8 : <<v7, j>> \in Memory(b)!Tensors /\ j \in Nat /\ v7 \in Nat
  <2>1. ASSUME NEW j \in v8 PROVE <<v7, j>> \in Memory(b)!Tensors
    BY <1>1, TensorFacts
  <2>2. ASSUME NEW j \in v8 PROVE <<v7, j>>[1] \in Nat /\ <<v7, j>>[2] \in Nat
    BY <1>1, <2>1, TensorFacts
  <2> QED
    BY <2>1, <2>2
<1>3. Memory(b)!First(v8) \in v8
  <2>1. \E j \in v8 : \A i \in v8 : j <= i
    BY <1>2, LeastOf
  <2> QED
    BY <2>1 DEF Memory!First
<1> QED
  BY <1>1, <1>2, <1>3

LEMMA PrepareTensorKeeps ==
  ASSUME NEW b, DecompressesIn(b), PlacedIInv(b), Memory(b)!PrepareTensor
  PROVE  PlacedIInv(b)'
<1>0. PICK j, t : j = Memory(b)!First(v8) /\ t = <<v7, j>>
  OBVIOUS
<1> DEFINE Placed(p) == v5' = [u \in DOMAIN v5 \cup {t} |-> IF u = t THEN p ELSE v5[u]]
<1> SUFFICES ASSUME ~Memory(b)!NullAllocations PROVE PlacedIInv(b)'
  BY CrashKeeps DEF Memory!PrepareTensor
<1>1. /\ v1 = "preparing" /\ v8 # {} /\ v8' = v8 \ {j}
      /\ UNCHANGED <<v1, v2, v3, v6, v7, v9>>
      /\ IF Memory(b)!HasRoom(Memory(b)!Size(t))
         THEN /\ Memory(b)!Take(Memory(b)!Size(t))
              /\ Placed(IF v2[v7].decode THEN Memory(b)!Spot(Memory(b)!Size(t))
                        ELSE [region |-> -1, offset |-> 0])
         ELSE Placed([region |-> 0, offset |-> 0]) /\ v4' = v4
  BY <1>0 DEF Memory!PrepareTensor, Memory!PlacedInEval, Memory!InArena
<1>2. /\ v2 \in b.graphs /\ v7 \in DOMAIN v2 /\ v7 \in Nat /\ v8 \subseteq DOMAIN v2[v7].sizes
      /\ j \in v8 /\ t \in Memory(b)!Tensors
  BY <1>0, <1>1, ToDo
<1>3. Memory(b)!Size(t) \in Nat
  BY <1>2, TensorFacts
<1>4. PlacedTypes(b) /\ Prepared(b) /\ KernelPlaces /\ Below(b)
  BY <1>1 DEF PlacedIInv
<1>5. /\ Memory(b)!Tensors' = Memory(b)!Tensors
      /\ \A u : Memory(b)!Size(u)' = Memory(b)!Size(u)
  BY <1>1, SameTensors
<1>6. /\ DOMAIN v3 \subseteq Nat \ {0} /\ 0 \notin DOMAIN v3 /\ -1 \notin DOMAIN v3
      /\ t[1] = v7 /\ t[2] = j
  BY <1>0, <1>4 DEF PlacedTypes
<1>7. ASSUME Memory(b)!HasRoom(Memory(b)!Size(t)) PROVE DOMAIN v4 = DOMAIN v3
  <2>1. v4 = <<>> => v3 = <<>>
    BY DEF Memory!NullAllocations
  <2> QED
    BY <1>4, <2>1 DEF PlacedTypes
<1>8. DOMAIN v5' = DOMAIN v5 \cup {t} /\ \A u \in DOMAIN v5 : u # t => v5'[u] = v5[u]
  BY <1>1
\* What the allocation leaves.
<1>9. /\ v4' = <<>> \/ DOMAIN v4' = DOMAIN v3
      /\ DOMAIN v4 = DOMAIN v3 => DOMAIN v4' = DOMAIN v3
      /\ \A q \in DOMAIN v4' : v4'[q] \in Nat /\ v4'[q] <= v3[q].bytes
      /\ \A q \in DOMAIN v3 : DOMAIN v4 = DOMAIN v3 =>
           v4[q] \in Nat /\ v4'[q] \in Nat /\ v4[q] <= v4'[q]
      /\ PlacedRight(b, t)'
      /\ ~v2[v7].decode => v5'[t].region \notin DOMAIN v3
      /\ v5'[t].region \in DOMAIN v3 =>
           /\ DOMAIN v4 = DOMAIN v3 /\ v4[v5'[t].region] <= v5'[t].offset
           /\ v5'[t].offset \in Nat
           /\ v5'[t].offset + Memory(b)!Size(t) <= v4'[v5'[t].region]
  <2>1. CASE ~Memory(b)!HasRoom(Memory(b)!Size(t))
    <3>1. v5'[t] = [region |-> 0, offset |-> 0] /\ v4' = v4
      BY <1>1, <2>1
    <3>2. \A q \in DOMAIN v3 : DOMAIN v4 = DOMAIN v3 => v4[q] \in Nat /\ v4[q] <= v4[q]
      BY <1>4 DEF PlacedTypes
    <3> QED
      BY <1>4, <1>6, <3>1, <3>2 DEF PlacedRight, PlacedTypes
  <2>2. CASE Memory(b)!HasRoom(Memory(b)!Size(t))
    <3>1. PICK r \in DOMAIN v3, offset \in Nat :
            /\ Memory(b)!Spot(Memory(b)!Size(t)) = [region |-> r, offset |-> offset]
            /\ v4[r] <= offset /\ offset + Memory(b)!Size(t) <= v3[r].bytes
            /\ ((v3[r].base + offset) % b.alignment) = 0
            /\ DOMAIN v4' = DOMAIN v3 /\ v4'[r] = offset + Memory(b)!Size(t)
            /\ \A q \in DOMAIN v3 : v4'[q] \in Nat /\ v4'[q] <= v3[q].bytes /\ v4[q] <= v4'[q]
      BY <1>1, <1>3, <1>4, <1>7, <2>2, RoomTaken
    <3>2. /\ DOMAIN v4 = DOMAIN v3 /\ \A q \in DOMAIN v3 : v4[q] \in Nat
      BY <1>4, <1>7, <2>2 DEF PlacedTypes
    <3>3. CASE v2[v7].decode
      <4>1. v5'[t] = [region |-> r, offset |-> offset]
        BY <1>1, <2>2, <3>1, <3>3
      <4>2. v5'[t].region = r /\ v5'[t].offset = offset
        BY <4>1
      <4>3. PlacedRight(b, t)'
        BY <1>1, <1>5, <3>1, <4>2 DEF PlacedRight
      <4>4. offset + Memory(b)!Size(t) <= v4'[r]
        BY <1>3, <3>1
      <4> QED
        BY <3>1, <3>2, <3>3, <4>2, <4>3, <4>4
    <3>4. CASE ~v2[v7].decode
      <4>1. v5'[t] = [region |-> -1, offset |-> 0]
        BY <1>1, <2>2, <3>4
      <4>2. PlacedRight(b, t)'
        BY <1>1, <1>6, <3>1, <3>4, <4>1 DEF PlacedRight
      <4> QED
        BY <1>6, <3>1, <3>2, <4>1, <4>2
    <3> QED
      BY <3>3, <3>4
  <2> QED
    BY <2>1, <2>2
<1>10. ASSUME NEW u \in DOMAIN v5, u # t, u[1] = v7, v5[u].region \in DOMAIN v3
       PROVE  /\ DOMAIN v4 = DOMAIN v3
              /\ v5[u].offset \in Nat /\ Memory(b)!Size(u) \in Nat
              /\ v5[u].offset + Memory(b)!Size(u) <= v4[v5[u].region]
  <2>1. PlacedRight(b, u) /\ Memory(b)!Size(u) \in Nat
    BY <1>2, TensorFacts DEF PlacedIInv
  <2>2. DOMAIN v4 = DOMAIN v3 /\ v5[u].offset \in Nat
    BY <1>6, <1>10, <2>1 DEF PlacedRight
  <2> QED
    BY <1>1, <1>4, <1>10, <2>1, <2>2 DEF Below
<1>11. ASSUME NEW u \in DOMAIN v5, u # t, u[1] = v7, v5[u].region = v5'[t].region,
              v5'[t].region \in DOMAIN v3
       PROVE  v5[u].offset + Memory(b)!Size(u) <= v5'[t].offset
  <2>1. PICK r \in DOMAIN v3 : r = v5'[t].region /\ r = v5[u].region
    BY <1>11
  <2>2. PICK end \in Nat, taken \in Nat, offset \in Nat :
          /\ end = v5[u].offset + Memory(b)!Size(u) /\ taken = v4[r]
          /\ offset = v5'[t].offset /\ end <= taken /\ taken <= offset
    <3>1. /\ v5[u].offset \in Nat /\ Memory(b)!Size(u) \in Nat
          /\ v5[u].offset + Memory(b)!Size(u) <= v4[r]
      BY <1>10, <1>11, <2>1
    <3>2. v4[r] \in Nat /\ v5'[t].offset \in Nat /\ v4[r] <= v5'[t].offset
      BY <1>9, <2>1
    <3> QED
      BY <3>1, <3>2
  <2> QED
    BY <2>2
<1>12. PlacedTypes(b)'
  BY <1>1, <1>4, <1>9 DEF PlacedTypes
<1>13. Prepared(b)'
  <2>1. ASSUME NEW u \in Memory(b)!Tensors
        PROVE  u[1] < v7 \/ (u[1] = v7 /\ u[2] \notin v8 \ {j})
                 <=> u[1] < v7 \/ (u[1] = v7 /\ u[2] \notin v8) \/ u = t
    <3>1. u = <<u[1], u[2]>>
      BY <1>2, TensorFacts
    <3> QED
      BY <1>0, <1>2, <3>1
  <2>2. DOMAIN v5 = {u \in Memory(b)!Tensors : u[1] < v7 \/ (u[1] = v7 /\ u[2] \notin v8)}
    BY <1>1, <1>4 DEF Prepared
  <2>3. DOMAIN v5' = {u \in Memory(b)!Tensors :
                        u[1] < v7 \/ (u[1] = v7 /\ u[2] \notin v8 \ {j})}
    BY <1>2, <1>8, <2>1, <2>2
  <2> QED
    BY <1>1, <1>2, <1>5, <2>3 DEF Prepared
<1>14. KernelPlaces'
  BY <1>1, <1>4, <1>6, <1>8, <1>9 DEF KernelPlaces
<1>15. Below(b)'
  <2>1. ASSUME NEW u \in DOMAIN v5', u[1] = v7, v5'[u].region \in DOMAIN v3
        PROVE  v5'[u].offset + Memory(b)!Size(u) <= v4'[v5'[u].region]
    <3>1. CASE u = t
      BY <1>9, <2>1, <3>1
    <3>2. CASE u # t
      <4>1. u \in DOMAIN v5 /\ v5'[u] = v5[u]
        BY <1>8, <3>2
      <4>2. PICK r \in DOMAIN v3 : r = v5[u].region
        BY <2>1, <4>1
      <4>3. /\ DOMAIN v4 = DOMAIN v3 /\ v5[u].offset \in Nat
            /\ Memory(b)!Size(u) \in Nat
            /\ v5[u].offset + Memory(b)!Size(u) <= v4[r]
        BY <1>10, <2>1, <3>2, <4>1, <4>2
      <4>4. v4[r] \in Nat /\ v4'[r] \in Nat /\ v4[r] <= v4'[r]
        BY <1>9, <4>2, <4>3
      <4>5. v5[u].offset + Memory(b)!Size(u) <= v4'[r]
        BY <4>3, <4>4
      <4> QED
        BY <4>1, <4>2, <4>5
    <3> QED
      BY <3>1, <3>2
  <2> QED
    BY <1>1, <1>5, <2>1 DEF Below
<1>16. /\ (DOMAIN v5 \subseteq Memory(b)!Tensors)'
       /\ (\A u \in DOMAIN v5 : PlacedRight(b, u))'
       /\ (\A u, v \in DOMAIN v5 :
             u[1] = v[1] /\ u # v /\ v5[u].region \in DOMAIN v3
               /\ v5[v].region = v5[u].region => Apart(b, u, v))'
  BY <1>1, <1>2, <1>6, <1>8, <1>9, <1>11, PlaceGiven
<1>17. CurrentHeld(b)'
  BY <1>1 DEF CurrentHeld
<1> QED
  BY <1>12, <1>13, <1>14, <1>15, <1>16, <1>17 DEF PlacedIInv

LEMMA DecoderInvokeKeeps ==
  ASSUME NEW b, DecompressesIn(b), PlacedIInv(b), Memory(b)!Invoke
  PROVE  PlacedIInv(b)'
<1>1. /\ v1 = "ready" /\ v1' = "running" /\ v9 < b.max_invokes /\ v9' = v9 + 1 /\ v7' = 1
      /\ v8' = IF 1 \in DOMAIN v2 THEN DOMAIN v2[1].sizes ELSE {}
      /\ UNCHANGED <<v2, v3, v4, v5, v6>>
  BY DEF Memory!Invoke, Memory!Enter, Memory!Operators,
     Memory!context
<1>2. v2 \in b.graphs /\ PlacedTypes(b)
  BY DEF PlacedIInv, PlacedTypes
<1>3. 1 \in DOMAIN v2 /\ 1 \in 0..Len(v2) /\ DOMAIN v2 = 1..Len(v2)
  BY <1>2, GraphRight
<1>4. v9 + 1 \in 0..b.max_invokes
  <2>1. v9 \in 0..b.max_invokes /\ b.max_invokes \in Nat
    BY <1>2 DEF PlacedTypes, DecompressesIn
  <2> QED
    BY <1>1, <2>1
<1>5. PlacedTypes(b)'
  BY <1>1, <1>2, <1>3, <1>4 DEF PlacedTypes
<1>6. /\ Memory(b)!Tensors' = Memory(b)!Tensors
      /\ \A t : Memory(b)!Size(t)' = Memory(b)!Size(t)
  BY <1>1, SameTensors
<1>7. DOMAIN v5 = Memory(b)!Tensors /\ KernelPlaces
  BY <1>1 DEF PlacedIInv, Prepared
<1>8. Prepared(b)'
  BY <1>1, <1>3, <1>6, <1>7 DEF Prepared
<1>9. \A t \in DOMAIN v5 : ~v2[t[1]].decode => v5[t].region \notin DOMAIN v3
  BY <1>1, <1>7 DEF KernelPlaces
<1>10. KernelPlaces' /\ Below(b)'
  BY <1>1, <1>9 DEF KernelPlaces, Below
<1>11. \A t \in Memory(b)!Tensors : ~Current(t)'
  <2> SUFFICES ASSUME NEW t \in Memory(b)!Tensors, Current(t)' PROVE FALSE
    OBVIOUS
  <2>1. t[1] \in 1..Len(v2) /\ t[2] \in DOMAIN v2[t[1]].sizes
    BY <1>2, <1>3, TensorFacts
  <2>2. t[1] <= 1 /\ (t[1] = 1 => t[2] \notin DOMAIN v2[1].sizes)
    BY <1>1, <1>3 DEF Current
  <2>3. t[1] = 1
    BY <2>1, <2>2
  <2> QED
    BY <2>1, <2>2, <2>3
<1> QED
  BY <1>1, <1>5, <1>6, <1>8, <1>10, <1>11, SamePlaces DEF PlacedIInv, CurrentHeld

\* Where a tensor that has one has its bytes.
LEMMA PlaceFacts ==
  ASSUME NEW b, DecompressesIn(b), PlacedIInv(b), NEW t \in DOMAIN v5,
         v5[t].region \in DOMAIN v3
  PROVE  /\ DOMAIN v4 = DOMAIN v3 /\ v5[t].offset \in Nat
         /\ Memory(b)!Size(t) \in Nat
         /\ v5[t].offset + Memory(b)!Size(t) <= v3[v5[t].region].bytes
         /\ v3[v5[t].region].bytes \in Nat
<1>1. PlacedRight(b, t) /\ t \in Memory(b)!Tensors /\ PlacedTypes(b)
  BY DEF PlacedIInv
<1>2. Memory(b)!Size(t) \in Nat /\ v3[v5[t].region].bytes \in Nat
  BY <1>1, TensorFacts, RegionFacts DEF PlacedTypes
<1>3. 0 \notin DOMAIN v3 /\ -1 \notin DOMAIN v3
  BY <1>1 DEF PlacedTypes
<1> QED
  BY <1>1, <1>2, <1>3 DEF PlacedRight

\* Bytes that are written for one tensor are not those of another.
LEMMA BytesApart ==
  ASSUME NEW s \in Nat, NEW m \in Nat, NEW p \in Nat, NEW n \in Nat,
         s + m <= p \/ p + n <= s, NEW a \in s..(s + m - 1)
  PROVE  a \notin p..(p + n - 1)
OBVIOUS

\* A tensor that is written to its place, in memory apart from other current ones.
LEMMA TensorWritten ==
  ASSUME NEW b, DecompressesIn(b), PlacedTypes(b), NEW t,
         NEW r \in DOMAIN v3, NEW offset \in Nat, Memory(b)!Size(t) \in Nat,
         offset + Memory(b)!Size(t) <= v3[r].bytes,
         v6' = Memory(b)!Written(t, [region |-> r, offset |-> offset])
  PROVE  /\ DOMAIN v6' = DOMAIN v6 /\ \A q \in DOMAIN v6 : DOMAIN v6'[q] = DOMAIN v6[q]
         /\ \A a \in offset..(offset + Memory(b)!Size(t) - 1) : v6'[r][a] = t
         /\ \A q \in DOMAIN v3 : \A a \in 0..(v3[q].bytes - 1) :
              q # r \/ a \notin offset..(offset + Memory(b)!Size(t) - 1) =>
                v6'[q][a] = v6[q][a]
<1> DEFINE p == [region |-> r, offset |-> offset]
           bytes == offset..(offset + Memory(b)!Size(t) - 1)
<1>1. DOMAIN v3 = 1..Len(v3) /\ 0 \notin DOMAIN v3 /\ DOMAIN v6 = DOMAIN v3
      /\ \A q \in DOMAIN v3 : DOMAIN v6[q] = 0..(v3[q].bytes - 1)
  BY DEF PlacedTypes
<1>2. p # [region |-> 0, offset |-> 0]
  <2>1. p.region = r /\ [region |-> 0, offset |-> 0].region = 0
    OBVIOUS
  <2> QED
    BY <1>1, <2>1
<1>3. v6' = [v6 EXCEPT ![r] = [a \in DOMAIN v6[r] |-> IF a \in bytes THEN t ELSE v6[r][a]]]
  BY <1>2 DEF Memory!Written, Memory!InArena
<1>4. /\ v6'[r] = [a \in DOMAIN v6[r] |-> IF a \in bytes THEN t ELSE v6[r][a]]
      /\ \A q \in DOMAIN v6 : q # r => v6'[q] = v6[q]
      /\ DOMAIN v6' = DOMAIN v6
  BY <1>1, <1>3
<1>5. bytes \subseteq DOMAIN v6[r]
  <2>1. v3[r].bytes \in Nat
    BY RegionFacts DEF PlacedTypes
  <2> QED
    BY <1>1, <2>1
<1> QED
  BY <1>1, <1>4, <1>5

LEMMA DecodeTensorKeeps ==
  ASSUME NEW b, DecompressesIn(b), PlacedIInv(b), Memory(b)!DecodeTensor
  PROVE  PlacedIInv(b)'
<1>0. PICK j, t : j = Memory(b)!First(v8) /\ t = <<v7, j>>
  OBVIOUS
<1>1. /\ v1 = "running" /\ v8 # {} /\ v2[v7].decode /\ v8' = v8 \ {j}
      /\ v6' = Memory(b)!Written(t, v5[t])
      /\ UNCHANGED <<v1, v2, v3, v4, v5, v7, v9>>
  BY <1>0 DEF Memory!DecodeTensor, Memory!context
<1>2. /\ v2 \in b.graphs /\ v7 \in DOMAIN v2 /\ v7 \in Nat /\ v8 \subseteq DOMAIN v2[v7].sizes
      /\ j \in v8 /\ t \in Memory(b)!Tensors /\ t[1] = v7 /\ t[2] = j
  BY <1>0, <1>1, ToDo
<1>3. PlacedTypes(b) /\ Prepared(b) /\ KernelPlaces /\ CurrentHeld(b)
  BY <1>1 DEF PlacedIInv
<1>4. t \in DOMAIN v5 /\ DOMAIN v5 = Memory(b)!Tensors
  BY <1>1, <1>2, <1>3 DEF Prepared
<1>5. /\ Memory(b)!Tensors' = Memory(b)!Tensors
      /\ \A u : Memory(b)!Size(u)' = Memory(b)!Size(u)
  BY <1>1, SameTensors
<1>6. CASE v5[t].region \notin DOMAIN v3
  <2>1. v5[t] = [region |-> 0, offset |-> 0]
    <3>1. PlacedRight(b, t)
      BY <1>4 DEF PlacedIInv
    <3> QED
      BY <1>1, <1>2, <1>6, <3>1 DEF PlacedRight
  <2>2. v6' = v6
    BY <1>1, <2>1 DEF Memory!Written, Memory!InArena
  <2>3. ASSUME NEW u \in Memory(b)!Tensors, Current(u)' PROVE Current(u) \/ u = t
    <3>1. u = <<u[1], u[2]>>
      BY <1>2, TensorFacts
    <3> QED
      BY <1>0, <1>1, <2>3, <3>1 DEF Current
  <2>4. CurrentHeld(b)'
    <3>1. ASSUME NEW u \in Memory(b)!Tensors, Current(u)' PROVE Holds(b, u)'
      <4>1. Holds(b, u)
        BY <1>1, <1>3, <1>6, <2>3, <3>1 DEF CurrentHeld, Holds
      <4> QED
        BY <1>1, <1>5, <2>2, <4>1 DEF Holds
    <3> QED
      BY <1>5, <3>1 DEF CurrentHeld
  <2>5. PlacedTypes(b)'
    BY <1>1, <1>3, <2>2 DEF PlacedTypes
  <2>6. Prepared(b)' /\ KernelPlaces' /\ Below(b)'
    BY <1>1, <1>2, <1>3, <1>5 DEF Prepared, KernelPlaces, Below
  <2> QED
    BY <1>1, <2>4, <2>5, <2>6, SamePlaces DEF PlacedIInv
<1>7. CASE v5[t].region \in DOMAIN v3
  <2>1. PICK r \in DOMAIN v3, offset \in Nat : r = v5[t].region /\ offset = v5[t].offset
    BY <1>4, <1>7, PlaceFacts
  <2>2. /\ Memory(b)!Size(t) \in Nat
        /\ offset + Memory(b)!Size(t) <= v3[r].bytes
    BY <1>4, <1>7, <2>1, PlaceFacts
  <2>3. v6' = Memory(b)!Written(t, [region |-> r, offset |-> offset])
    <3>1. v5[t] # [region |-> 0, offset |-> 0]
      BY <1>3, <1>7 DEF PlacedTypes
    <3>2. [region |-> r, offset |-> offset] # [region |-> 0, offset |-> 0]
      <4>1. [region |-> r, offset |-> offset].region = r
        OBVIOUS
      <4>2. [region |-> 0, offset |-> 0].region = 0 /\ 0 \notin DOMAIN v3
        BY <1>3 DEF PlacedTypes
      <4> QED
        BY <4>1, <4>2
    <3> QED
      BY <1>1, <2>1, <3>1, <3>2 DEF Memory!Written, Memory!InArena
  <2>4. /\ DOMAIN v6' = DOMAIN v6 /\ \A q \in DOMAIN v6 : DOMAIN v6'[q] = DOMAIN v6[q]
        /\ \A a \in offset..(offset + Memory(b)!Size(t) - 1) : v6'[r][a] = t
        /\ \A q \in DOMAIN v3 : \A a \in 0..(v3[q].bytes - 1) :
             q # r \/ a \notin offset..(offset + Memory(b)!Size(t) - 1) =>
               v6'[q][a] = v6[q][a]
    BY <1>3, <2>2, <2>3, TensorWritten
  <2>5. ASSUME NEW u \in Memory(b)!Tensors, Current(u)', u # t
        PROVE  Current(u) /\ u[1] = v7
    <3>1. u = <<u[1], u[2]>> /\ u[1] \in Nat
      BY <1>2, TensorFacts
    <3>2. u[1] <= v7 /\ \A i \in (u[1] + 1)..v7 : ~v2[i].decode
      BY <1>1, <2>5 DEF Current
    <3>3. u[1] = v7
      <4>1. u[1] < v7 => v7 \in (u[1] + 1)..v7
        BY <1>2, <3>1
      <4> QED
        BY <1>1, <1>2, <3>1, <3>2, <4>1
    <3> QED
      BY <1>0, <1>1, <2>5, <3>1, <3>3 DEF Current
  <2>6. ASSUME NEW u \in Memory(b)!Tensors, Current(u)' PROVE Holds(b, u)'
    <3>1. CASE u = t
      BY <1>1, <1>5, <2>1, <2>4, <3>1 DEF Holds
    <3>2. CASE u # t
      <4> SUFFICES ASSUME v5[u].region \in DOMAIN v3,
                          NEW a \in v5[u].offset..(v5[u].offset + Memory(b)!Size(u) - 1)
                   PROVE  v6'[v5[u].region][a] = u
        BY <1>1, <1>5 DEF Holds
      <4>1. Holds(b, u) /\ u[1] = v7
        BY <1>1, <1>3, <2>5, <2>6, <3>2 DEF CurrentHeld
      <4>2. v6[v5[u].region][a] = u
        BY <4>1 DEF Holds
      <4>3. PICK start \in Nat, size \in Nat, most \in Nat :
              /\ start = v5[u].offset /\ size = Memory(b)!Size(u)
              /\ most = v3[v5[u].region].bytes /\ start + size <= most
        BY <1>4, PlaceFacts
      <4>4. a \in start..(start + size - 1) /\ a \in 0..(most - 1)
        <5>1. a \in start..(start + size - 1)
          BY <4>3
        <5> QED
          BY <4>3, <5>1
      <4>5. v5[u].region = r => a \notin offset..(offset + Memory(b)!Size(t) - 1)
        <5> SUFFICES ASSUME v5[u].region = r
                     PROVE  a \notin offset..(offset + Memory(b)!Size(t) - 1)
          OBVIOUS
        <5>1. Apart(b, u, t)
          BY <1>2, <1>4, <2>1, <3>2, <4>1 DEF PlacedIInv
        <5>2. start + size <= offset \/ offset + Memory(b)!Size(t) <= start
          BY <2>1, <4>3, <5>1 DEF Apart
        <5> QED
          BY <2>2, <4>3, <4>4, <5>2, BytesApart
      <4> QED
        BY <2>4, <4>2, <4>3, <4>4, <4>5
    <3> QED
      BY <3>1, <3>2
  <2>7. CurrentHeld(b)'
    BY <1>5, <2>6 DEF CurrentHeld
  <2>8. PlacedTypes(b)'
    BY <1>1, <1>3, <2>4 DEF PlacedTypes
  <2>9. Prepared(b)' /\ KernelPlaces' /\ Below(b)'
    BY <1>1, <1>2, <1>3, <1>5 DEF Prepared, KernelPlaces, Below
  <2> QED
    BY <1>1, <2>7, <2>8, <2>9, SamePlaces DEF PlacedIInv
<1> QED
  BY <1>6, <1>7

\* A kernel whose weights are compressed runs in a build that has no DECODE operators.
LEMMA NoDecodeBeside ==
  ASSUME NEW b, DecompressesIn(b), v2 \in b.graphs, v7 \in DOMAIN v2, ~v2[v7].decode,
         NEW j \in DOMAIN v2[v7].sizes
  PROVE  \A k \in DOMAIN v2 : ~v2[k].decode
<1>1. b.compression
  <2>1. CASE ~b.compression
    <3>1. v2[v7].sizes = <<>>
      BY <2>1, GraphRight
    <3>2. DOMAIN v2[v7].sizes = {}
      BY <3>1
    <3> QED
      BY <3>2
  <2> QED
    BY <2>1
<1> QED
  BY <1>1, GraphRight

LEMMA DecompressTensorKeeps ==
  ASSUME NEW b, DecompressesIn(b), PlacedIInv(b), Memory(b)!DecompressTensor
  PROVE  PlacedIInv(b)'
<1>a. PICK j \in v8 :
        /\ v1 = "running" /\ v8 # {} /\ ~v2[v7].decode
        /\ IF v5[<<v7, j>>] = [region |-> 0, offset |-> 0]
           THEN v8' = v8 \ {j} /\ UNCHANGED <<v1, v2, v3, v4, v5, v6, v7, v9>>
           ELSE IF ~Memory(b)!HasRoom(Memory(b)!Size(<<v7, j>>)) THEN Memory(b)!Crash
           ELSE /\ Memory(b)!Take(Memory(b)!Size(<<v7, j>>))
                /\ v5' = [v5 EXCEPT ![<<v7, j>>] = Memory(b)!Spot(Memory(b)!Size(<<v7, j>>))]
                /\ v6' = Memory(b)!Written(<<v7, j>>, Memory(b)!Spot(Memory(b)!Size(<<v7, j>>)))
                /\ v8' = v8 \ {j} /\ UNCHANGED <<v1, v2, v3, v7, v9>>
  BY DEF Memory!DecompressTensor, Memory!context, Memory!InArena
<1>b. PICK t : t = <<v7, j>>
  OBVIOUS
<1>0. /\ t = <<v7, j>> /\ v1 = "running" /\ v8 # {} /\ ~v2[v7].decode
      /\ IF v5[t] = [region |-> 0, offset |-> 0]
         THEN v8' = v8 \ {j} /\ UNCHANGED <<v1, v2, v3, v4, v5, v6, v7, v9>>
         ELSE IF ~Memory(b)!HasRoom(Memory(b)!Size(t)) THEN Memory(b)!Crash
         ELSE /\ Memory(b)!Take(Memory(b)!Size(t))
              /\ v5' = [v5 EXCEPT ![t] = Memory(b)!Spot(Memory(b)!Size(t))]
              /\ v6' = Memory(b)!Written(t, Memory(b)!Spot(Memory(b)!Size(t)))
              /\ v8' = v8 \ {j} /\ UNCHANGED <<v1, v2, v3, v7, v9>>
  BY <1>a, <1>b
<1> SUFFICES ASSUME ~Memory(b)!Crash PROVE PlacedIInv(b)'
  BY CrashKeeps
<1>1. /\ v1 = "running" /\ ~v2[v7].decode /\ v8' = v8 \ {j}
      /\ UNCHANGED <<v1, v2, v3, v7, v9>>
  BY <1>0
<1>2. /\ v2 \in b.graphs /\ v7 \in DOMAIN v2 /\ v7 \in Nat /\ v8 \subseteq DOMAIN v2[v7].sizes
      /\ t \in Memory(b)!Tensors /\ t[1] = v7 /\ t[2] = j
  BY <1>0, ToDo
<1>3. PlacedTypes(b) /\ Prepared(b) /\ KernelPlaces /\ Below(b) /\ CurrentHeld(b)
  BY <1>1 DEF PlacedIInv
<1>4. t \in DOMAIN v5 /\ DOMAIN v5 = Memory(b)!Tensors
  BY <1>1, <1>2, <1>3 DEF Prepared
<1>5. /\ Memory(b)!Tensors' = Memory(b)!Tensors
      /\ \A u : Memory(b)!Size(u)' = Memory(b)!Size(u)
      /\ Memory(b)!Size(t) \in Nat
  BY <1>1, <1>2, SameTensors, TensorFacts
<1>6. /\ 0 \notin DOMAIN v3 /\ -1 \notin DOMAIN v3
  BY <1>3 DEF PlacedTypes
<1>7. \A u \in Memory(b)!Tensors : u = <<u[1], u[2]>> /\ u[1] \in DOMAIN v2
  BY <1>2, TensorFacts
<1>8. \A k \in DOMAIN v2 : ~v2[k].decode
  BY <1>0, <1>1, <1>2, NoDecodeBeside
<1>9. ASSUME NEW u \in Memory(b)!Tensors, Current(u)', u # t
      PROVE  Current(u) /\ u[1] = v7
  BY <1>0, <1>1, <1>7, <1>8, <1>9 DEF Current
<1>10. \A u \in DOMAIN v5 : u[1] = v7 /\ v5[u].region \in DOMAIN v3 =>
         /\ DOMAIN v4 = DOMAIN v3 /\ v5[u].offset \in Nat
         /\ Memory(b)!Size(u) \in Nat
         /\ v5[u].offset + Memory(b)!Size(u) <= v4[v5[u].region]
         /\ v5[u].offset + Memory(b)!Size(u) <= v3[v5[u].region].bytes
         /\ v3[v5[u].region].bytes \in Nat
  BY <1>1, <1>3, PlaceFacts DEF Below
<1>11. ASSUME DOMAIN v5' = DOMAIN v5 PROVE Prepared(b)'
  BY <1>1, <1>2, <1>3, <1>4, <1>5, <1>11 DEF Prepared
<1>12. CASE v5[t] = [region |-> 0, offset |-> 0]
  <2>1. UNCHANGED <<v4, v5, v6>>
    BY <1>0, <1>12
  <2>2. v5[t].region \notin DOMAIN v3
    BY <1>6, <1>12
  <2>3. PlacedTypes(b)'
    BY <1>1, <1>3, <2>1 DEF PlacedTypes
  <2>4. KernelPlaces'
    <3>1. ASSUME NEW u \in DOMAIN v5, u[2] \notin v8 PROVE u[2] \notin v8 \ {j}
      BY <3>1
    <3> QED
      BY <1>1, <1>3, <2>1, <3>1 DEF KernelPlaces
  <2>5. Below(b)'
    BY <1>1, <1>3, <1>5, <2>1 DEF Below
  <2>6. CurrentHeld(b)'
    <3>1. ASSUME NEW u \in Memory(b)!Tensors, Current(u)' PROVE Holds(b, u)
      BY <1>1, <1>3, <1>9, <2>2, <3>1 DEF CurrentHeld, Holds
    <3> QED
      BY <1>1, <1>5, <2>1, <3>1 DEF CurrentHeld, Holds
  <2> QED
    BY <1>1, <1>11, <2>1, <2>3, <2>4, <2>5, <2>6, SamePlaces DEF PlacedIInv
<1>13. CASE v5[t] # [region |-> 0, offset |-> 0]
  <2>1. /\ Memory(b)!HasRoom(Memory(b)!Size(t))
        /\ Memory(b)!Take(Memory(b)!Size(t))
        /\ v5' = [v5 EXCEPT ![t] = Memory(b)!Spot(Memory(b)!Size(t))]
        /\ v6' = Memory(b)!Written(t, Memory(b)!Spot(Memory(b)!Size(t)))
    BY <1>0, <1>13
  <2>2. DOMAIN v4 = DOMAIN v3 /\ \A q \in DOMAIN v3 : v4[q] \in Nat
    <3>1. PlacedRight(b, t)
      BY <1>4 DEF PlacedIInv
    <3> QED
      BY <1>3, <1>13, <3>1 DEF PlacedRight, PlacedTypes
  <2>3. PICK r \in DOMAIN v3, offset \in Nat :
          /\ Memory(b)!Spot(Memory(b)!Size(t)) = [region |-> r, offset |-> offset]
          /\ v4[r] <= offset /\ offset + Memory(b)!Size(t) <= v3[r].bytes
          /\ ((v3[r].base + offset) % b.alignment) = 0
          /\ DOMAIN v4' = DOMAIN v3 /\ v4'[r] = offset + Memory(b)!Size(t)
          /\ \A q \in DOMAIN v3 : v4'[q] \in Nat /\ v4'[q] <= v3[q].bytes /\ v4[q] <= v4'[q]
    BY <1>3, <1>5, <2>1, <2>2, RoomTaken
  <2>4. /\ DOMAIN v5' = DOMAIN v5 /\ \A u \in DOMAIN v5 : u # t => v5'[u] = v5[u]
        /\ v5'[t].region = r /\ v5'[t].offset = offset
    <3>1. v5' = [v5 EXCEPT ![t] = [region |-> r, offset |-> offset]]
      BY <2>1, <2>3
    <3>2. v5'[t] = [region |-> r, offset |-> offset]
      BY <1>4, <3>1
    <3> QED
      BY <3>1, <3>2
  <2>5. /\ DOMAIN v6' = DOMAIN v6 /\ \A q \in DOMAIN v6 : DOMAIN v6'[q] = DOMAIN v6[q]
        /\ \A a \in offset..(offset + Memory(b)!Size(t) - 1) : v6'[r][a] = t
        /\ \A q \in DOMAIN v3 : \A a \in 0..(v3[q].bytes - 1) :
             q # r \/ a \notin offset..(offset + Memory(b)!Size(t) - 1) =>
               v6'[q][a] = v6[q][a]
    <3>1. v6' = Memory(b)!Written(t, [region |-> r, offset |-> offset])
      BY <2>1, <2>3
    <3> QED
      BY <1>3, <1>5, <2>3, <3>1, TensorWritten
  <2>6. PlacedTypes(b)'
    BY <1>1, <1>3, <2>3, <2>5 DEF PlacedTypes
  <2>7. PlacedRight(b, t)'
    BY <1>1, <1>5, <2>3, <2>4 DEF PlacedRight
  <2>8. ASSUME NEW u \in DOMAIN v5, u # t, u[1] = v7, v5[u].region = r
        PROVE  v5[u].offset + Memory(b)!Size(u) <= offset
    <3>1. PICK end \in Nat, taken \in Nat :
            /\ end = v5[u].offset + Memory(b)!Size(u) /\ taken = v4[r] /\ end <= taken
      <4>1. /\ v5[u].offset \in Nat /\ Memory(b)!Size(u) \in Nat
            /\ v5[u].offset + Memory(b)!Size(u) <= v4[r]
        BY <1>10, <2>8
      <4> QED
        BY <2>2, <4>1
    <3> QED
      BY <2>3, <3>1
  <2>9. /\ (DOMAIN v5 \subseteq Memory(b)!Tensors)'
        /\ (\A u \in DOMAIN v5 : PlacedRight(b, u))'
        /\ (\A u, v \in DOMAIN v5 :
              u[1] = v[1] /\ u # v /\ v5[u].region \in DOMAIN v3
                /\ v5[v].region = v5[u].region => Apart(b, u, v))'
    <3>1. DOMAIN v5' = DOMAIN v5 \cup {t}
      BY <1>4, <2>4
    <3>2. v5'[t].region \in DOMAIN v3 =>
            \A u \in DOMAIN v5 : u # t /\ u[1] = t[1] /\ v5[u].region = v5'[t].region =>
              v5[u].offset + Memory(b)!Size(u) <= v5'[t].offset
      BY <1>2, <2>4, <2>8
    <3> QED
      BY <1>1, <1>2, <2>3, <2>4, <2>7, <3>1, <3>2, PlaceGiven
  <2>10. KernelPlaces'
    BY <1>0, <1>1, <1>2, <1>3, <2>4 DEF KernelPlaces
  <2>11. Below(b)'
    <3>1. ASSUME NEW u \in DOMAIN v5, u[1] = v7, v5'[u].region \in DOMAIN v3
          PROVE  v5'[u].offset + Memory(b)!Size(u) <= v4'[v5'[u].region]
      <4>1. CASE u = t
        <5>1. offset + Memory(b)!Size(t) <= v4'[r]
          BY <1>5, <2>3
        <5> QED
          BY <2>4, <4>1, <5>1
      <4>2. CASE u # t
        <5>1. v5'[u] = v5[u]
          BY <2>4, <4>2
        <5>2. PICK q \in DOMAIN v3 : q = v5[u].region
          BY <3>1, <5>1
        <5>3. /\ v5[u].offset \in Nat /\ Memory(b)!Size(u) \in Nat
              /\ v5[u].offset + Memory(b)!Size(u) <= v4[q]
          BY <1>10, <3>1, <5>1, <5>2
        <5>4. v4[q] \in Nat /\ v4'[q] \in Nat /\ v4[q] <= v4'[q]
          BY <2>2, <2>3
        <5>5. v5[u].offset + Memory(b)!Size(u) <= v4'[q]
          BY <5>3, <5>4
        <5> QED
          BY <5>1, <5>2, <5>5
      <4> QED
        BY <4>1, <4>2
    <3> QED
      BY <1>1, <1>5, <2>4, <3>1 DEF Below
  <2>12. ASSUME NEW u \in Memory(b)!Tensors, Current(u)' PROVE Holds(b, u)'
    <3>1. CASE u = t
      BY <1>1, <1>5, <2>4, <2>5, <3>1 DEF Holds
    <3>2. CASE u # t
      <4>0. v5'[u] = v5[u] /\ Current(u) /\ u[1] = v7
        BY <1>4, <1>9, <2>4, <2>12, <3>2
      <4> SUFFICES ASSUME v5[u].region \in DOMAIN v3,
                          NEW a \in v5[u].offset..(v5[u].offset + Memory(b)!Size(u) - 1)
                   PROVE  v6'[v5[u].region][a] = u
        BY <1>1, <1>5, <4>0 DEF Holds
      <4>1. Holds(b, u)
        BY <1>1, <1>3, <4>0 DEF CurrentHeld
      <4>2. v6[v5[u].region][a] = u
        BY <4>1 DEF Holds
      <4>3. PICK start \in Nat, size \in Nat, most \in Nat :
              /\ start = v5[u].offset /\ size = Memory(b)!Size(u)
              /\ most = v3[v5[u].region].bytes /\ start + size <= most
        BY <1>4, PlaceFacts
      <4>4. a \in start..(start + size - 1) /\ a \in 0..(most - 1)
        <5>1. a \in start..(start + size - 1)
          BY <4>3
        <5> QED
          BY <4>3, <5>1
      <4>5. v5[u].region = r => a \notin offset..(offset + Memory(b)!Size(t) - 1)
        <5> SUFFICES ASSUME v5[u].region = r
                     PROVE  a \notin offset..(offset + Memory(b)!Size(t) - 1)
          OBVIOUS
        <5>1. start + size <= offset
          BY <1>4, <2>8, <3>2, <4>0, <4>3
        <5> QED
          BY <1>5, <4>3, <4>4, <5>1, BytesApart
      <4> QED
        BY <2>5, <4>2, <4>3, <4>4, <4>5
    <3> QED
      BY <3>1, <3>2
  <2>13. CurrentHeld(b)'
    BY <1>5, <2>12 DEF CurrentHeld
  <2> QED
    BY <1>1, <1>11, <2>4, <2>6, <2>9, <2>10, <2>11, <2>13 DEF PlacedIInv
<1> QED
  BY <1>12, <1>13

LEMMA FinishOperatorKeeps ==
  ASSUME NEW b, DecompressesIn(b), PlacedIInv(b), Memory(b)!FinishOperator
  PROVE  PlacedIInv(b)'
<1> SUFFICES ASSUME ~Memory(b)!Crash PROVE PlacedIInv(b)'
  BY CrashKeeps
<1>1. /\ v1 = "running" /\ v8 = {} /\ UNCHANGED <<v2, v3, v6, v9>>
      /\ v4' = IF b.compression THEN [r \in DOMAIN v3 |-> 0] ELSE v4
      /\ v5' = [t \in DOMAIN v5 |->
                  IF t[1] = v7 /\ ~v2[t[1]].decode /\ v5[t] # [region |-> 0, offset |-> 0]
                  THEN [region |-> -1, offset |-> 0] ELSE v5[t]]
      /\ IF v7 < Len(v2)
         THEN /\ v1' = v1 /\ v7' = v7 + 1
              /\ v8' = IF v7 + 1 \in DOMAIN v2 THEN DOMAIN v2[v7 + 1].sizes ELSE {}
         ELSE v1' = "ready" /\ UNCHANGED <<v7, v8>>
  <2>1. [t \in DOMAIN v5 |->
           IF t[1] = v7 /\ ~v2[v7].decode /\ v5[t] # [region |-> 0, offset |-> 0]
           THEN [region |-> -1, offset |-> 0] ELSE v5[t]]
        = [t \in DOMAIN v5 |->
             IF t[1] = v7 /\ ~v2[t[1]].decode /\ v5[t] # [region |-> 0, offset |-> 0]
             THEN [region |-> -1, offset |-> 0] ELSE v5[t]]
    OBVIOUS
  <2> QED
    BY <2>1 DEF Memory!FinishOperator, Memory!Enter, Memory!Operators,
       Memory!AfterOperator, Memory!Cleared, Memory!InArena,
       Memory!PlacedInEval
<1>2. PlacedTypes(b) /\ Prepared(b) /\ KernelPlaces /\ CurrentHeld(b)
  BY <1>1 DEF PlacedIInv
<1>3. /\ v2 \in b.graphs /\ DOMAIN v2 = 1..Len(v2) /\ Len(v2) \in Nat /\ v7 \in DOMAIN v2
      /\ DOMAIN v5 = Memory(b)!Tensors
  BY <1>1, <1>2, GraphRight DEF PlacedTypes, Prepared
<1>4. /\ Memory(b)!Tensors' = Memory(b)!Tensors
      /\ \A u : Memory(b)!Size(u)' = Memory(b)!Size(u)
  BY <1>1, SameTensors
<1>5. 0 \notin DOMAIN v3 /\ -1 \notin DOMAIN v3
  BY <1>2 DEF PlacedTypes
<1>6. /\ v4' = <<>> \/ DOMAIN v4' = DOMAIN v3
      /\ DOMAIN v4 = DOMAIN v3 => DOMAIN v4' = DOMAIN v3
      /\ \A r \in DOMAIN v4' : v4'[r] \in Nat /\ v4'[r] <= v3[r].bytes
  <2>1. CASE b.compression
    <3>1. v4' = [r \in DOMAIN v3 |-> 0]
      BY <1>1, <2>1
    <3>2. \A r \in DOMAIN v3 : v3[r].bytes \in Nat
      BY <1>2, RegionFacts DEF PlacedTypes
    <3> QED
      BY <3>1, <3>2
  <2>2. CASE ~b.compression
    BY <1>1, <1>2, <2>2 DEF PlacedTypes
  <2> QED
    BY <2>1, <2>2
<1>7. PICK k \in Nat, n \in Nat : k = v7 /\ n = Len(v2) /\ k \in 1..n
  <2>1. v7 \in 1..Len(v2) /\ Len(v2) \in Nat
    BY <1>3
  <2>2. v7 \in Nat
    BY <2>1
  <2> QED
    BY <2>1, <2>2
<1>8. v7' \in 0..Len(v2) /\ (v1' = "running" => v7' \in DOMAIN v2 /\ v7' = v7 + 1)
  <2>1. CASE v7 < Len(v2)
    <3>1. k + 1 \in 0..n /\ k + 1 \in 1..n
      BY <1>7, <2>1
    <3> QED
      BY <1>1, <1>3, <1>7, <2>1, <3>1
  <2>2. CASE ~(v7 < Len(v2))
    BY <1>1, <1>2, <2>2 DEF PlacedTypes
  <2> QED
    BY <2>1, <2>2
<1>9. PlacedTypes(b)'
  <2>1. v1' \in {"init", "preparing", "ready", "running", "crashed"}
    BY <1>1
  <2> QED
    BY <1>1, <1>2, <1>6, <1>8, <2>1 DEF PlacedTypes
<1>10. DOMAIN v5' = DOMAIN v5
  BY <1>1
\* The operator's own tensors have no places in regions any more.
<1>11. ASSUME NEW t \in DOMAIN v5, v5'[t].region \in DOMAIN v3
       PROVE  v5'[t] = v5[t] /\ v2[t[1]].decode
  <2>1. v5'[t] = v5[t]
    BY <1>1, <1>5, <1>11
  <2>2. CASE ~v2[t[1]].decode
    <3>1. t[1] = v7
      BY <1>2, <1>11, <2>1, <2>2 DEF KernelPlaces
    <3>2. v5[t] # [region |-> 0, offset |-> 0]
      BY <1>5, <1>11, <2>1
    <3>3. v5'[t] = [region |-> -1, offset |-> 0]
      BY <1>1, <2>2, <3>1, <3>2
    <3> QED
      BY <1>5, <1>11, <3>3
  <2> QED
    BY <2>1, <2>2
<1>12. Prepared(b)'
  <2>1. v1' \in {"ready", "running"}
    BY <1>1
  <2>2. v1' = "running" => v8' = DOMAIN v2[v7'].sizes
    BY <1>1, <1>8
  <2> QED
    BY <1>1, <1>3, <1>4, <1>8, <1>10, <2>1, <2>2 DEF Prepared
<1>13. KernelPlaces'
  BY <1>1, <1>10, <1>11 DEF KernelPlaces
<1>14. Below(b)'
  <2>1. v1' # "preparing"
    BY <1>1
  <2> QED
    BY <1>1, <1>10, <1>11, <2>1 DEF Below
<1>15. (DOMAIN v5 \subseteq Memory(b)!Tensors)'
  BY <1>3, <1>4, <1>10
<1>16. (\A t \in DOMAIN v5 : PlacedRight(b, t))'
  <2>1. ASSUME NEW t \in DOMAIN v5 PROVE PlacedRight(b, t)'
    <3>1. PlacedRight(b, t)
      BY DEF PlacedIInv
    <3>2. CASE v5'[t] = v5[t]
      BY <1>1, <1>4, <1>6, <3>1, <3>2 DEF PlacedRight
    <3>3. CASE v5'[t] # v5[t]
      <4>1. /\ v5'[t] = [region |-> -1, offset |-> 0] /\ ~v2[t[1]].decode
            /\ v5[t] # [region |-> 0, offset |-> 0]
        BY <1>1, <3>3
      <4>2. DOMAIN v4 = DOMAIN v3
        BY <3>1, <4>1 DEF PlacedRight
      <4> QED
        BY <1>1, <1>6, <4>1, <4>2 DEF PlacedRight
    <3> QED
      BY <3>2, <3>3
  <2> QED
    BY <1>10, <2>1
<1>17. (\A t, u \in DOMAIN v5 :
          t[1] = u[1] /\ t # u /\ v5[t].region \in DOMAIN v3 /\ v5[u].region = v5[t].region =>
            Apart(b, t, u))'
  <2>1. ASSUME NEW t \in DOMAIN v5, NEW u \in DOMAIN v5, t[1] = u[1], t # u,
               v5'[t].region \in DOMAIN v3, v5'[u].region = v5'[t].region
        PROVE  Apart(b, t, u)'
    <3>1. v5'[t] = v5[t] /\ v5'[u] = v5[u]
      BY <1>11, <2>1
    <3>2. Apart(b, t, u)
      BY <2>1, <3>1 DEF PlacedIInv
    <3> QED
      BY <1>4, <3>1, <3>2 DEF Apart
  <2> QED
    BY <1>1, <1>10, <2>1
<1>18. CurrentHeld(b)'
  <2> SUFFICES ASSUME v1' = "running", NEW t \in Memory(b)!Tensors, Current(t)'
               PROVE  Holds(b, t)'
    BY <1>4 DEF CurrentHeld
  <2>0. v7' = k + 1 /\ k + 1 \in DOMAIN v2 /\ v8' = DOMAIN v2[k + 1].sizes
    BY <1>1, <1>7, <1>8
  <2>1. t[1] \in Nat /\ t[1] \in DOMAIN v2 /\ t[2] \in DOMAIN v2[t[1]].sizes
    BY <1>3, TensorFacts
  <2>2. /\ t[1] <= k + 1 /\ (t[1] = k + 1 => t[2] \notin DOMAIN v2[k + 1].sizes)
        /\ (v2[t[1]].decode \/ t[1] = k + 1)
        /\ \A i \in (t[1] + 1)..(k + 1) : ~v2[i].decode
    BY <1>1, <2>0 DEF Current
  <2>3. t[1] # k + 1 /\ v2[t[1]].decode
    BY <2>1, <2>2
  <2>4. t[1] <= k /\ \A i \in (t[1] + 1)..k : i \in (t[1] + 1)..(k + 1)
    BY <1>7, <2>1, <2>2, <2>3
  <2>5. Current(t)
    BY <1>1, <1>7, <2>2, <2>3, <2>4 DEF Current
  <2>6. Holds(b, t)
    BY <1>1, <1>2, <2>5 DEF CurrentHeld
  <2>7. v5'[t].region \in DOMAIN v3 => v5'[t] = v5[t]
    BY <1>3, <1>11
  <2> QED
    BY <1>1, <1>4, <2>6, <2>7 DEF Holds
<1> QED
  BY <1>9, <1>12, <1>13, <1>14, <1>15, <1>16, <1>17, <1>18 DEF PlacedIInv

LEMMA DecompressionKeeps ==
  ASSUME NEW b, DecompressesIn(b), PlacedIInv(b), Memory(b)!Next
  PROVE  PlacedIInv(b)'
BY SetDecompressionMemoryKeeps, AllocateTensorsKeeps, NextPrepareKeeps, PrepareTensorKeeps,
   DecoderInvokeKeeps, DecodeTensorKeeps, DecompressTensorKeeps, FinishOperatorKeeps
DEF Memory!Next

-----------------------------------------------------------------------------
(* The lookup-table decoder. *)

\* Bits one behind the other, from the first on.
Consecutive(first, n) == [i \in 1..n |-> first + i - 1]

\* The parts of a number are the w bits of its bytes from the one at s on.
Runs(p, s, w) ==
  /\ p.low \in Nat /\ p.n \in Nat /\ p.low2 \in Nat /\ p.n2 \in Nat
  /\ (p.low % 8) + p.n <= 8 /\ (p.low2 % 8) + p.n2 <= 8
  /\ s = 8 * (p.low \div 8) + 8 - (p.low % 8) - p.n
  /\ p.n2 = 0 \/ s + p.n = 8 * (p.low2 \div 8) + 8 - (p.low2 % 8) - p.n2
  /\ w = p.n + p.n2

LEMMA PartRuns ==
  ASSUME NEW byte \in Nat, NEW low \in Nat, NEW n \in Nat, (low % 8) + n <= 8
  PROVE  Lut!Part(byte, low, n)
           = Consecutive(8 * byte + (8 * (low \div 8) + 8 - (low % 8) - n), n)
<1>1. PICK q \in Nat, m \in 0..7 : q = low \div 8 /\ m = (low % 8) /\ low = 8 * q + m
  OBVIOUS
<1>2. ASSUME NEW k \in 1..n
      PROVE  LET bit == low + n - k
             IN  8 * (byte + bit \div 8) + 7 - (bit % 8)
                   = 8 * byte + (8 * q + 8 - m - n) + k - 1
  <2>1. PICK r \in 0..7 : r = m + n - k
    BY <1>1
  <2>2. low + n - k = 8 * q + r
    BY <1>1, <2>1
  <2>3. (low + n - k) \div 8 = q /\ ((low + n - k) % 8) = r
    BY <1>1, <2>1, <2>2
  <2> QED
    BY <1>1, <2>1, <2>3
<1> QED
  BY <1>1, <1>2 DEF Lut!Part, Consecutive

LEMMA PartsRun ==
  ASSUME NEW byte \in Nat, NEW p, NEW s \in Nat, NEW w \in Nat, Runs(p, s, w)
  PROVE  Lut!Parts(byte, p) = Consecutive(8 * byte + s, w)
<1>1. PICK low \in Nat, n \in Nat, low2 \in Nat, n2 \in Nat :
        /\ low = p.low /\ n = p.n /\ low2 = p.low2 /\ n2 = p.n2
        /\ (low % 8) + n <= 8 /\ (low2 % 8) + n2 <= 8 /\ w = n + n2
        /\ s = 8 * (low \div 8) + 8 - (low % 8) - n
        /\ n2 = 0 \/ s + n = 8 * (low2 \div 8) + 8 - (low2 % 8) - n2
  BY DEF Runs
<1>2. PICK second \in Int : second = 8 * (low2 \div 8) + 8 - (low2 % 8) - n2
  OBVIOUS
<1>3. /\ Lut!Part(byte, low, n) = Consecutive(8 * byte + s, n)
      /\ Lut!Part(byte, low2, n2) = Consecutive(8 * byte + second, n2)
  <2>1. /\ Lut!Part(byte, low, n)
              = Consecutive(8 * byte + (8 * (low \div 8) + 8 - (low % 8) - n), n)
        /\ Lut!Part(byte, low2, n2)
              = Consecutive(8 * byte + (8 * (low2 \div 8) + 8 - (low2 % 8) - n2), n2)
    <3>1. (low % 8) + n <= 8 /\ (low2 % 8) + n2 <= 8
      BY <1>1
    <3>2. Lut!Part(byte, low, n)
            = Consecutive(8 * byte + (8 * (low \div 8) + 8 - (low % 8) - n), n)
      BY ONLY byte \in Nat, low \in Nat, n \in Nat, <3>1, PartRuns
    <3>3. Lut!Part(byte, low2, n2)
            = Consecutive(8 * byte + (8 * (low2 \div 8) + 8 - (low2 % 8) - n2), n2)
      BY ONLY byte \in Nat, low2 \in Nat, n2 \in Nat, <3>1, PartRuns, ZenonT(60)
    <3> QED
      BY <3>2, <3>3
  <2> QED
    BY <1>1, <1>2, <2>1
<1>4. PICK f, g : f = Consecutive(8 * byte + s, n) /\ g = Consecutive(8 * byte + second, n2)
  OBVIOUS
<1>5. f \in Seq(Int) /\ Len(f) = n /\ g \in Seq(Int) /\ Len(g) = n2
  BY <1>4 DEF Consecutive
<1>6. /\ f \o g \in Seq(Int) /\ Len(f \o g) = n + n2
      /\ \A i \in 1..(n + n2) : (f \o g)[i] = IF i <= n THEN f[i] ELSE g[i - n]
  BY <1>5, ConcatProperties
<1>7. ASSUME NEW i \in 1..w PROVE (f \o g)[i] = 8 * byte + s + i - 1
  <2>1. CASE i <= n
    <3>1. i \in 1..n
      BY <2>1
    <3>2. f[i] = 8 * byte + s + i - 1
      BY <1>4, <3>1 DEF Consecutive
    <3> QED
      BY <1>1, <1>6, <2>1, <3>2
  <2>2. CASE ~(i <= n)
    <3>1. i - n \in 1..n2 /\ n2 # 0
      BY <1>1, <2>2
    <3>2. g[i - n] = 8 * byte + second + (i - n) - 1
      BY <1>4, <3>1 DEF Consecutive
    <3>3. second = s + n
      BY <1>1, <1>2, <3>1
    <3>4. g[i - n] = 8 * byte + s + i - 1
      BY <3>2, <3>3
    <3> QED
      BY <1>1, <1>6, <2>2, <3>4
  <2> QED
    BY <2>1, <2>2
<1>8. f \o g = [i \in 1..w |-> 8 * byte + s + i - 1]
  <2>1. f \o g = [i \in 1..w |-> (f \o g)[i]]
    <3>1. ASSUME NEW h \in Seq(Int) PROVE h = [i \in 1..Len(h) |-> h[i]]
      OBVIOUS
    <3> QED
      BY <1>1, <1>6, <3>1
  <2> QED
    BY <1>7, <2>1
<1> QED
  BY <1>1, <1>3, <1>4, <1>8 DEF Lut!Parts, Consecutive

\* The tables: each number follows the one before.
LEMMA Width3Runs ==
  Len(Lut!Width3) = 8 /\ \A m \in 0..7 : Runs(Lut!Width3[m + 1], 3 * m, 3)
<1>0. Len(Lut!Width3) = 8
  BY DEF Lut!Width3
<1>1. /\ Runs(Lut!Width3[1], 0, 3)
      /\ Runs(Lut!Width3[2], 3, 3)
      /\ Runs(Lut!Width3[3], 6, 3)
      /\ Runs(Lut!Width3[4], 9, 3)
      /\ Runs(Lut!Width3[5], 12, 3)
      /\ Runs(Lut!Width3[6], 15, 3)
      /\ Runs(Lut!Width3[7], 18, 3)
      /\ Runs(Lut!Width3[8], 21, 3)
  BY DEF Lut!Width3, Lut!One, Lut!Two, Runs
<1>a. ASSUME NEW m \in 0..7 PROVE Runs(Lut!Width3[m + 1], 3 * m, 3)
  <2>1. CASE m \in 0..7
    BY <1>1, <2>1
  <2> QED
    BY <2>1
<1> QED
  BY <1>0, <1>a

LEMMA Width5Runs ==
  Len(Lut!Width5) = 8 /\ \A m \in 0..7 : Runs(Lut!Width5[m + 1], 5 * m, 5)
<1>0. Len(Lut!Width5) = 8
  BY DEF Lut!Width5
<1>1. /\ Runs(Lut!Width5[1], 0, 5)
      /\ Runs(Lut!Width5[2], 5, 5)
      /\ Runs(Lut!Width5[3], 10, 5)
      /\ Runs(Lut!Width5[4], 15, 5)
      /\ Runs(Lut!Width5[5], 20, 5)
      /\ Runs(Lut!Width5[6], 25, 5)
      /\ Runs(Lut!Width5[7], 30, 5)
      /\ Runs(Lut!Width5[8], 35, 5)
  BY DEF Lut!Width5, Lut!One, Lut!Two, Runs
<1>a. ASSUME NEW m \in 0..7 PROVE Runs(Lut!Width5[m + 1], 5 * m, 5)
  <2>1. CASE m \in 0..7
    BY <1>1, <2>1
  <2> QED
    BY <2>1
<1> QED
  BY <1>0, <1>a

LEMMA Width6Runs ==
  Len(Lut!Width6) = 4 /\ \A m \in 0..3 : Runs(Lut!Width6[m + 1], 6 * m, 6)
<1>0. Len(Lut!Width6) = 4
  BY DEF Lut!Width6
<1>1. /\ Runs(Lut!Width6[1], 0, 6)
      /\ Runs(Lut!Width6[2], 6, 6)
      /\ Runs(Lut!Width6[3], 12, 6)
      /\ Runs(Lut!Width6[4], 18, 6)
  BY DEF Lut!Width6, Lut!One, Lut!Two, Runs
<1>a. ASSUME NEW m \in 0..3 PROVE Runs(Lut!Width6[m + 1], 6 * m, 6)
  <2>1. CASE m \in 0..3
    BY <1>1, <2>1
  <2> QED
    BY <2>1
<1> QED
  BY <1>0, <1>a

LEMMA Width7Runs ==
  Len(Lut!Width7) = 8 /\ \A m \in 0..7 : Runs(Lut!Width7[m + 1], 7 * m, 7)
<1>0. Len(Lut!Width7) = 8
  BY DEF Lut!Width7
<1>1. /\ Runs(Lut!Width7[1], 0, 7)
      /\ Runs(Lut!Width7[2], 7, 7)
      /\ Runs(Lut!Width7[3], 14, 7)
      /\ Runs(Lut!Width7[4], 21, 7)
      /\ Runs(Lut!Width7[5], 28, 7)
      /\ Runs(Lut!Width7[6], 35, 7)
      /\ Runs(Lut!Width7[7], 42, 7)
      /\ Runs(Lut!Width7[8], 49, 7)
  BY DEF Lut!Width7, Lut!One, Lut!Two, Runs
<1>a. ASSUME NEW m \in 0..7 PROVE Runs(Lut!Width7[m + 1], 7 * m, 7)
  <2>1. CASE m \in 0..7
    BY <1>1, <2>1
  <2> QED
    BY <2>1
<1> QED
  BY <1>0, <1>a

LEMMA Group2Runs ==
  Len(Lut!Group2) = 16 /\ \A m \in 0..15 : Runs(Lut!Group2[m + 1], 2 * m, 2)
<1>0. Len(Lut!Group2) = 16
  BY DEF Lut!Group2, Lut!Whole
<1>1. /\ Runs(Lut!Group2[1], 0, 2)
      /\ Runs(Lut!Group2[2], 2, 2)
      /\ Runs(Lut!Group2[3], 4, 2)
      /\ Runs(Lut!Group2[4], 6, 2)
      /\ Runs(Lut!Group2[5], 8, 2)
      /\ Runs(Lut!Group2[6], 10, 2)
      /\ Runs(Lut!Group2[7], 12, 2)
      /\ Runs(Lut!Group2[8], 14, 2)
  BY DEF Lut!Group2, Lut!One, Lut!Two, Lut!Whole, Runs
<1>2. /\ Runs(Lut!Group2[9], 16, 2)
      /\ Runs(Lut!Group2[10], 18, 2)
      /\ Runs(Lut!Group2[11], 20, 2)
      /\ Runs(Lut!Group2[12], 22, 2)
      /\ Runs(Lut!Group2[13], 24, 2)
      /\ Runs(Lut!Group2[14], 26, 2)
      /\ Runs(Lut!Group2[15], 28, 2)
      /\ Runs(Lut!Group2[16], 30, 2)
  BY DEF Lut!Group2, Lut!One, Lut!Two, Lut!Whole, Runs
<1>a. ASSUME NEW m \in 0..15 PROVE Runs(Lut!Group2[m + 1], 2 * m, 2)
  <2>1. CASE m \in 0..7
    BY <1>1, <2>1
  <2>2. CASE m \in 8..15
    BY <1>2, <2>2
  <2> QED
    BY <2>1, <2>2
<1> QED
  BY <1>0, <1>a

LEMMA Group3Runs ==
  Len(Lut!Group3) = 32 /\ \A m \in 0..31 : Runs(Lut!Group3[m + 1], 3 * m, 3)
<1>0. Len(Lut!Group3) = 32
  BY DEF Lut!Group3
<1>1. /\ Lut!Group3[1] = Lut!One(5, 3)
      /\ Lut!Group3[2] = Lut!One(2, 3)
      /\ Lut!Group3[3] = Lut!Two(0, 2, 15, 1)
      /\ Lut!Group3[4] = Lut!One(12, 3)
      /\ Lut!Group3[5] = Lut!One(9, 3)
      /\ Lut!Group3[6] = Lut!Two(8, 1, 22, 2)
      /\ Lut!Group3[7] = Lut!One(19, 3)
      /\ Lut!Group3[8] = Lut!One(16, 3)
  BY DEF Lut!Group3
<1>2. /\ Lut!Group3[9] = Lut!One(29, 3)
      /\ Lut!Group3[10] = Lut!One(26, 3)
      /\ Lut!Group3[11] = Lut!Two(24, 2, 39, 1)
      /\ Lut!Group3[12] = Lut!One(36, 3)
      /\ Lut!Group3[13] = Lut!One(33, 3)
      /\ Lut!Group3[14] = Lut!Two(32, 1, 46, 2)
      /\ Lut!Group3[15] = Lut!One(43, 3)
      /\ Lut!Group3[16] = Lut!One(40, 3)
  BY DEF Lut!Group3
<1>3. /\ Lut!Group3[17] = Lut!One(53, 3)
      /\ Lut!Group3[18] = Lut!One(50, 3)
      /\ Lut!Group3[19] = Lut!Two(48, 2, 63, 1)
      /\ Lut!Group3[20] = Lut!One(60, 3)
      /\ Lut!Group3[21] = Lut!One(57, 3)
      /\ Lut!Group3[22] = Lut!Two(56, 1, 70, 2)
      /\ Lut!Group3[23] = Lut!One(67, 3)
      /\ Lut!Group3[24] = Lut!One(64, 3)
  BY DEF Lut!Group3
<1>4. /\ Lut!Group3[25] = Lut!One(77, 3)
      /\ Lut!Group3[26] = Lut!One(74, 3)
      /\ Lut!Group3[27] = Lut!Two(72, 2, 87, 1)
      /\ Lut!Group3[28] = Lut!One(84, 3)
      /\ Lut!Group3[29] = Lut!One(81, 3)
      /\ Lut!Group3[30] = Lut!Two(80, 1, 94, 2)
      /\ Lut!Group3[31] = Lut!One(91, 3)
      /\ Lut!Group3[32] = Lut!One(88, 3)
  BY DEF Lut!Group3
<1>5. /\ Runs(Lut!One(5, 3), 0, 3)
      /\ Runs(Lut!One(2, 3), 3, 3)
      /\ Runs(Lut!Two(0, 2, 15, 1), 6, 3)
      /\ Runs(Lut!One(12, 3), 9, 3)
      /\ Runs(Lut!One(9, 3), 12, 3)
      /\ Runs(Lut!Two(8, 1, 22, 2), 15, 3)
      /\ Runs(Lut!One(19, 3), 18, 3)
      /\ Runs(Lut!One(16, 3), 21, 3)
  BY DEF Lut!One, Lut!Two, Runs
<1>6. /\ Runs(Lut!One(29, 3), 24, 3)
      /\ Runs(Lut!One(26, 3), 27, 3)
      /\ Runs(Lut!Two(24, 2, 39, 1), 30, 3)
      /\ Runs(Lut!One(36, 3), 33, 3)
      /\ Runs(Lut!One(33, 3), 36, 3)
      /\ Runs(Lut!Two(32, 1, 46, 2), 39, 3)
      /\ Runs(Lut!One(43, 3), 42, 3)
      /\ Runs(Lut!One(40, 3), 45, 3)
  BY DEF Lut!One, Lut!Two, Runs
<1>7. /\ Runs(Lut!One(53, 3), 48, 3)
      /\ Runs(Lut!One(50, 3), 51, 3)
      /\ Runs(Lut!Two(48, 2, 63, 1), 54, 3)
      /\ Runs(Lut!One(60, 3), 57, 3)
      /\ Runs(Lut!One(57, 3), 60, 3)
      /\ Runs(Lut!Two(56, 1, 70, 2), 63, 3)
      /\ Runs(Lut!One(67, 3), 66, 3)
      /\ Runs(Lut!One(64, 3), 69, 3)
  BY DEF Lut!One, Lut!Two, Runs
<1>8. /\ Runs(Lut!One(77, 3), 72, 3)
      /\ Runs(Lut!One(74, 3), 75, 3)
      /\ Runs(Lut!Two(72, 2, 87, 1), 78, 3)
      /\ Runs(Lut!One(84, 3), 81, 3)
      /\ Runs(Lut!One(81, 3), 84, 3)
      /\ Runs(Lut!Two(80, 1, 94, 2), 87, 3)
      /\ Runs(Lut!One(91, 3), 90, 3)
      /\ Runs(Lut!One(88, 3), 93, 3)
  BY DEF Lut!One, Lut!Two, Runs
<1>a. ASSUME NEW m \in 0..31 PROVE Runs(Lut!Group3[m + 1], 3 * m, 3)
  <2>1. CASE m \in 0..7
    BY <1>1, <1>5, <2>1
  <2>2. CASE m \in 8..15
    BY <1>2, <1>6, <2>2
  <2>3. CASE m \in 16..23
    BY <1>3, <1>7, <2>3
  <2>4. CASE m \in 24..31
    BY <1>4, <1>8, <2>4
  <2> QED
    BY <2>1, <2>2, <2>3, <2>4
<1> QED
  BY <1>0, <1>a

LEMMA Group4Runs ==
  Len(Lut!Group4) = 16 /\ \A m \in 0..15 : Runs(Lut!Group4[m + 1], 4 * m, 4)
<1>0. Len(Lut!Group4) = 16
  BY DEF Lut!Group4, Lut!Whole
<1>1. /\ Runs(Lut!Group4[1], 0, 4)
      /\ Runs(Lut!Group4[2], 4, 4)
      /\ Runs(Lut!Group4[3], 8, 4)
      /\ Runs(Lut!Group4[4], 12, 4)
      /\ Runs(Lut!Group4[5], 16, 4)
      /\ Runs(Lut!Group4[6], 20, 4)
      /\ Runs(Lut!Group4[7], 24, 4)
      /\ Runs(Lut!Group4[8], 28, 4)
  BY DEF Lut!Group4, Lut!One, Lut!Two, Lut!Whole, Runs
<1>2. /\ Runs(Lut!Group4[9], 32, 4)
      /\ Runs(Lut!Group4[10], 36, 4)
      /\ Runs(Lut!Group4[11], 40, 4)
      /\ Runs(Lut!Group4[12], 44, 4)
      /\ Runs(Lut!Group4[13], 48, 4)
      /\ Runs(Lut!Group4[14], 52, 4)
      /\ Runs(Lut!Group4[15], 56, 4)
      /\ Runs(Lut!Group4[16], 60, 4)
  BY DEF Lut!Group4, Lut!One, Lut!Two, Lut!Whole, Runs
<1>a. ASSUME NEW m \in 0..15 PROVE Runs(Lut!Group4[m + 1], 4 * m, 4)
  <2>1. CASE m \in 0..7
    BY <1>1, <2>1
  <2>2. CASE m \in 8..15
    BY <1>2, <2>2
  <2> QED
    BY <2>1, <2>2
<1> QED
  BY <1>0, <1>a

\* A number inside one byte, behind s bits of it.
LEMMA InsideByte ==
  ASSUME NEW q \in Nat, NEW s \in Nat, NEW w \in Nat \ {0}, NEW low \in Nat, low + s + w = 8
  PROVE  Lut!Part(q, low, w) = Consecutive(8 * q + s, w)
<1>1. (low % 8) = low /\ low \div 8 = 0 /\ (low % 8) + w <= 8
  OBVIOUS
<1>2. Lut!Part(q, low, w) = Consecutive(8 * q + (8 * (low \div 8) + 8 - (low % 8) - w), w)
  BY ONLY q \in Nat, low \in Nat, w \in Nat \ {0}, <1>1, PartRuns
<1>3. 8 * q + (8 * (low \div 8) + 8 - (low % 8) - w) = 8 * q + s
  BY <1>1
<1> QED
  BY <1>2, <1>3

LEMMA NumberRight ==
  ASSUME NEW o \in Nat, v1 \in 1..7
  PROVE  Lut!GetNextTableIndex(o) = Consecutive(o * v1, v1)
<1>1. CASE v1 = 1
  <2>1. PICK q \in Nat, r \in 0..7 : q = o \div 8 /\ r = (o % 8) /\ o = 8 * q + r
    OBVIOUS
  <2>2. PICK low \in Nat, s \in Nat : low = 7 - r /\ s = 1 * r /\ low + s + 1 = 8
    <3>1. 7 - r \in Nat /\ 1 * r \in Nat /\ (7 - r) + 1 * r + 1 = 8
      BY <2>1
    <3> QED
      BY <3>1
  <2>3. o \div 8 = q /\ 7 - (o % 8) = low
    BY <2>1, <2>2
  <2>4. Lut!GetNextTableIndex(o) = Lut!Part(q, low, 1)
    BY <1>1, <2>3 DEF Lut!GetNextTableIndex
  <2>5. Lut!Part(q, low, 1) = Consecutive(8 * q + s, 1)
    <3>1. PICK w \in Nat \ {0} : w = 1 /\ low + s + w = 8
      BY <2>2
    <3>2. w \in Nat \ {0} /\ low + s + w = 8
      BY <3>1
    <3>3. Lut!Part(q, low, w) = Consecutive(8 * q + s, w)
      BY ONLY q \in Nat, s \in Nat, low \in Nat, <3>2, InsideByte
    <3> QED
      BY <3>1, <3>3
  <2>6. 8 * q + s = o * 1
    BY <2>1, <2>2
  <2> QED
    BY <1>1, <2>4, <2>5, <2>6
<1>2. CASE v1 = 2
  <2>1. PICK q \in Nat, r \in 0..3 : q = o \div 4 /\ r = (o % 4) /\ o = 4 * q + r
    OBVIOUS
  <2>2. PICK low \in Nat, s \in Nat : low = 6 - 2 * r /\ s = 2 * r /\ low + s + 2 = 8
    <3>1. 6 - 2 * r \in Nat /\ 2 * r \in Nat /\ (6 - 2 * r) + 2 * r + 2 = 8
      BY <2>1
    <3> QED
      BY <3>1
  <2>3. o \div 4 = q /\ 6 - 2 * (o % 4) = low
    BY <2>1, <2>2
  <2>4. Lut!GetNextTableIndex(o) = Lut!Part(q, low, 2)
    BY <1>2, <2>3 DEF Lut!GetNextTableIndex
  <2>5. Lut!Part(q, low, 2) = Consecutive(8 * q + s, 2)
    <3>1. PICK w \in Nat \ {0} : w = 2 /\ low + s + w = 8
      BY <2>2
    <3>2. Lut!Part(q, low, w) = Consecutive(8 * q + s, w)
      BY <3>1, InsideByte
    <3> QED
      BY <3>1, <3>2
  <2>6. 8 * q + s = o * 2
    BY <2>1, <2>2
  <2> QED
    BY <1>2, <2>4, <2>5, <2>6
<1>3. CASE v1 = 3
  <2>1. PICK q \in Nat, r \in 0..7 : q = o \div 8 /\ r = (o % 8) /\ o = 8 * q + r
    OBVIOUS
  <2>2. Lut!GetNextTableIndex(o) = Lut!Parts(q * 3, Lut!Width3[r + 1])
    BY <1>3, <2>1, Width3Runs DEF Lut!GetNextTableIndex
  <2>3. Lut!Parts(q * 3, Lut!Width3[r + 1]) = Consecutive(8 * (q * 3) + 3 * r, 3)
    BY Width3Runs, PartsRun
  <2>4. 8 * (q * 3) + 3 * r = o * 3
    BY <2>1
  <2> QED
    BY <1>3, <2>2, <2>3, <2>4
<1>4. CASE v1 = 4
  <2>1. PICK q \in Nat, r \in 0..1 : q = o \div 2 /\ r = (o % 2) /\ o = 2 * q + r
    OBVIOUS
  <2>2. PICK low \in Nat, s \in Nat : low = 4 - 4 * r /\ s = 4 * r /\ low + s + 4 = 8
    <3>1. 4 - 4 * r \in Nat /\ 4 * r \in Nat /\ (4 - 4 * r) + 4 * r + 4 = 8
      BY <2>1
    <3> QED
      BY <3>1
  <2>3. o \div 2 = q /\ 4 - 4 * (o % 2) = low
    BY <2>1, <2>2
  <2>4. Lut!GetNextTableIndex(o) = Lut!Part(q, low, 4)
    BY <1>4, <2>3 DEF Lut!GetNextTableIndex
  <2>5. Lut!Part(q, low, 4) = Consecutive(8 * q + s, 4)
    <3>1. PICK w \in Nat \ {0} : w = 4 /\ low + s + w = 8
      BY <2>2
    <3>2. Lut!Part(q, low, w) = Consecutive(8 * q + s, w)
      BY <3>1, InsideByte
    <3> QED
      BY <3>1, <3>2
  <2>6. 8 * q + s = o * 4
    BY <2>1, <2>2
  <2> QED
    BY <1>4, <2>4, <2>5, <2>6
<1>5. CASE v1 = 5
  <2>1. PICK q \in Nat, r \in 0..7 : q = o \div 8 /\ r = (o % 8) /\ o = 8 * q + r
    OBVIOUS
  <2>2. Lut!GetNextTableIndex(o) = Lut!Parts(q * 5, Lut!Width5[r + 1])
    BY <1>5, <2>1, Width5Runs DEF Lut!GetNextTableIndex
  <2>3. Lut!Parts(q * 5, Lut!Width5[r + 1]) = Consecutive(8 * (q * 5) + 5 * r, 5)
    BY Width5Runs, PartsRun
  <2>4. 8 * (q * 5) + 5 * r = o * 5
    BY <2>1
  <2> QED
    BY <1>5, <2>2, <2>3, <2>4
<1>6. CASE v1 = 6
  <2>1. PICK q \in Nat, r \in 0..3 : q = o \div 4 /\ r = (o % 4) /\ o = 4 * q + r
    OBVIOUS
  <2>2. Lut!GetNextTableIndex(o) = Lut!Parts(q * 3, Lut!Width6[r + 1])
    BY <1>6, <2>1, Width6Runs DEF Lut!GetNextTableIndex
  <2>3. Lut!Parts(q * 3, Lut!Width6[r + 1]) = Consecutive(8 * (q * 3) + 6 * r, 6)
    BY Width6Runs, PartsRun
  <2>4. 8 * (q * 3) + 6 * r = o * 6
    BY <2>1
  <2> QED
    BY <1>6, <2>2, <2>3, <2>4
<1>7. CASE v1 = 7
  <2>1. PICK q \in Nat, r \in 0..7 : q = o \div 8 /\ r = (o % 8) /\ o = 8 * q + r
    OBVIOUS
  <2>2. Lut!GetNextTableIndex(o) = Lut!Parts(q * 7, Lut!Width7[r + 1])
    BY <1>7, <2>1, Width7Runs DEF Lut!GetNextTableIndex
  <2>3. Lut!Parts(q * 7, Lut!Width7[r + 1]) = Consecutive(8 * (q * 7) + 7 * r, 7)
    BY Width7Runs, PartsRun
  <2>4. 8 * (q * 7) + 7 * r = o * 7
    BY <2>1
  <2> QED
    BY <1>7, <2>2, <2>3, <2>4
<1> QED
  BY <1>1, <1>2, <1>3, <1>4, <1>5, <1>6, <1>7

\* The numbers of a group.
LEMMA GroupRight ==
  ASSUME v8 \in Nat, Lut!Grouped, (v8 % Lut!GroupSize) = 0,
         NEW k \in 1..Lut!GroupSize
  PROVE  Lut!Parts(Lut!GroupStart, Lut!Group[k]) = Consecutive((v8 + k - 1) * v1, v1)
<1>1. v1 \in {2, 3, 4} /\ Lut!GroupSize = (IF v1 = 3 THEN 32 ELSE 16)
  BY DEF Lut!Grouped, Lut!GroupSize
<1>2. CASE v1 = 2
  <2>1. PICK q \in Nat, m \in 0..15 : v8 = 16 * q /\ m = k - 1
    <3>1. (v8 % 16) = 0 /\ k \in 1..16
      BY <1>1, <1>2
    <3>2. v8 = 16 * (v8 \div 16) /\ v8 \div 16 \in Nat
      BY <3>1
    <3> QED
      BY <3>1, <3>2
  <2>2. v8 \div 4 = 4 * q
    BY <2>1
  <2>3. Lut!Parts(Lut!GroupStart, Lut!Group[k]) = Lut!Parts(4 * q, Lut!Group2[m + 1])
    <3>1. m + 1 = k
      BY <1>1, <1>2, <2>1
    <3> QED
      BY <1>2, <2>2, <3>1 DEF Lut!GroupStart, Lut!Group
  <2>4. Lut!Parts(4 * q, Lut!Group2[m + 1]) = Consecutive(8 * (4 * q) + 2 * m, 2)
    BY Group2Runs, PartsRun
  <2>5. 8 * (4 * q) + 2 * m = (v8 + k - 1) * 2
    BY <1>1, <1>2, <2>1
  <2> QED
    BY <1>2, <2>3, <2>4, <2>5
<1>3. CASE v1 = 3
  <2>1. PICK q \in Nat, m \in 0..31 : v8 = 32 * q /\ m = k - 1
    <3>1. (v8 % 32) = 0 /\ k \in 1..32
      BY <1>1, <1>3
    <3>2. v8 = 32 * (v8 \div 32) /\ v8 \div 32 \in Nat
      BY <3>1
    <3> QED
      BY <3>1, <3>2
  <2>2. (v8 \div 32) * 12 = 12 * q
    BY <2>1
  <2>3. Lut!Parts(Lut!GroupStart, Lut!Group[k]) = Lut!Parts(12 * q, Lut!Group3[m + 1])
    <3>1. m + 1 = k
      BY <1>1, <1>3, <2>1
    <3> QED
      BY <1>3, <2>2, <3>1 DEF Lut!GroupStart, Lut!Group
  <2>4. Lut!Parts(12 * q, Lut!Group3[m + 1]) = Consecutive(8 * (12 * q) + 3 * m, 3)
    BY Group3Runs, PartsRun
  <2>5. 8 * (12 * q) + 3 * m = (v8 + k - 1) * 3
    BY <1>1, <1>3, <2>1
  <2> QED
    BY <1>3, <2>3, <2>4, <2>5
<1>4. CASE v1 = 4
  <2>1. PICK q \in Nat, m \in 0..15 : v8 = 16 * q /\ m = k - 1
    <3>1. (v8 % 16) = 0 /\ k \in 1..16
      BY <1>1, <1>4
    <3>2. v8 = 16 * (v8 \div 16) /\ v8 \div 16 \in Nat
      BY <3>1
    <3> QED
      BY <3>1, <3>2
  <2>2. v8 \div 2 = 8 * q
    BY <2>1
  <2>3. Lut!Parts(Lut!GroupStart, Lut!Group[k]) = Lut!Parts(8 * q, Lut!Group4[m + 1])
    <3>1. m + 1 = k
      BY <1>1, <1>4, <2>1
    <3> QED
      BY <1>4, <2>2, <3>1 DEF Lut!GroupStart, Lut!Group
  <2>4. Lut!Parts(8 * q, Lut!Group4[m + 1]) = Consecutive(8 * (8 * q) + 4 * m, 4)
    BY Group4Runs, PartsRun
  <2>5. 8 * (8 * q) + 4 * m = (v8 + k - 1) * 4
    BY <1>1, <1>4, <2>1
  <2> QED
    BY <1>4, <2>3, <2>4, <2>5
<1> QED
  BY <1>1, <1>2, <1>3, <1>4

-----------------------------------------------------------------------------

\* Numbers only: where the loops over channels stand.
LEMMA LutLoops ==
  ASSUME NEW n \in Nat \ {0}, NEW m \in Nat, NEW c \in 0..(n - 1), NEW count \in 0..m,
         NEW o \in Int, o = m * c + (m - count)
  PROVE  /\ o \in 0..(n * m) /\ count \in 0..(n * m)
         /\ \A j \in 0..(count - 1) : (o + j) \div m = c
         /\ count = 0 => o = m * (c + 1) + (m - m)
<1>1. m * (c + 1) = m * c + m /\ m * c \in Nat /\ m * c >= 0
  OBVIOUS
<1>2. m * (c + 1) <= n * m
  <2>1. PICK e \in Nat : n = c + 1 + e
    <3>1. n - (c + 1) \in Nat /\ n = c + 1 + (n - (c + 1))
      OBVIOUS
    <3> QED
      BY <3>1
  <2>2. (c + 1 + e) * m = m * (c + 1) + e * m /\ e * m \in Nat
    OBVIOUS
  <2>3. n * m = m * (c + 1) + e * m /\ m * (c + 1) \in Nat
    BY <2>1, <2>2
  <2> QED
    BY <2>2, <2>3
<1>3. n * m \in Nat
  OBVIOUS
<1>4. ASSUME NEW j \in 0..(count - 1) PROVE (o + j) \div m = c
  <2>1. PICK r \in 0..(m - 1) : r = (m - count) + j
    OBVIOUS
  <2>2. o + j = m * c + r /\ m > 0
    BY <2>1
  <2>3. (m * c + r) \div m = c
    BY <2>1, <2>2
  <2> QED
    BY <2>2, <2>3
<1> QED
  BY <1>1, <1>2, <1>3, <1>4

LEMMA LutAcross ==
  ASSUME NEW n \in Nat \ {0}, NEW m \in Nat, NEW q \in 0..m
  PROVE  /\ n * q \in 0..(n * m) /\ n * (m - q) \in 0..(n * m)
         /\ n * q > 0 => /\ q - 1 \in 0..m /\ n * q - n = n * (q - 1)
                         /\ n * (m - q) + n = n * (m - (q - 1))
         /\ \A c \in 0..(n - 1) : ((n * (m - q) + c) % n) = c
<1>1. PICK p \in Nat : p = m - q /\ p + q = m
  OBVIOUS
<1>2. n * (p + q) = n * p + n * q /\ n * p \in Nat /\ n * q \in Nat
  OBVIOUS
<1>3. n * m = n * p + n * q
  BY <1>1, <1>2
<1>4. ASSUME n * q > 0
      PROVE  /\ q - 1 \in 0..m /\ n * q - n = n * (q - 1)
             /\ n * (m - q) + n = n * (m - (q - 1))
  <2>1. q # 0
    BY <1>4
  <2>2. n * (q - 1) = n * q - n /\ n * (p + 1) = n * p + n /\ p + 1 = m - (q - 1)
    BY <1>1
  <2> QED
    BY <1>1, <2>1, <2>2
<1>5. ASSUME NEW c \in 0..(n - 1) PROVE ((n * p + c) % n) = c
  OBVIOUS
<1> QED
  BY <1>1, <1>2, <1>3, <1>4, <1>5

LEMMA LutStarts == Lut!Init => LutIInv
<1> SUFFICES ASSUME Lut!Init PROVE LutIInv
  OBVIOUS
<1>1. /\ v1 \in 1..7 /\ v2 \in Nat \ {0} /\ v3 \in Nat /\ v4 \in BOOLEAN
      /\ v6 = 0 /\ v8 = 0 /\ v9 = 0 /\ v10 = <<>> /\ v11 = "setup"
      /\ v7 = IF v4 THEN v2 * v3 ELSE v3
  BY LutAssumption DEF Lut!Init
<1>2. LutTypes
  BY <1>1 DEF LutTypes
<1>3. LutPlace(v2, v3)
  <2>1. CASE v4
    <3>1. v2 * (v3 - v3) = 0
      BY <1>1
    <3>2. v3 \in 0..v3 /\ v7 = v2 * v3 /\ v8 = v2 * (v3 - v3)
      BY <1>1, <2>1, <3>1
    <3> QED
      BY <1>1, <2>1, <3>2 DEF LutPlace
  <2>2. CASE ~v4
    <3>1. v3 * v6 = 0
      BY <1>1
    <3>2. v7 \in 0..v3 /\ v8 = v3 * v6 + (v3 - v7)
      BY <1>1, <2>2, <3>1
    <3> QED
      BY <1>1, <2>2, <3>2 DEF LutPlace
  <2> QED
    BY <1>1, <2>1, <2>2
<1>4. Lut!ElementsRight
  BY <1>1 DEF Lut!ElementsRight
<1> QED
  BY <1>1, <1>2, <1>3, <1>4 DEF LutIInv

LEMMA LutRight == LutIInv => Lut!TypeOK /\ Lut!ElementsRight
<1> SUFFICES ASSUME LutIInv PROVE Lut!TypeOK
  BY DEF LutIInv
<1>1. PICK n \in Nat \ {0}, m \in Nat : n = v2 /\ m = v3
  BY DEF LutIInv
<1>2. LutPlace(n, m) /\ LutTypes
  BY <1>1 DEF LutIInv
<1>3. v7 \in 0..(n * m) /\ v8 \in 0..(n * m)
  <2>1. CASE ~v4
    <3>1. /\ v6 \in 0..(n - 1) /\ v7 \in 0..m /\ v8 = m * v6 + (m - v7) /\ v8 \in Int
      BY <1>2, <2>1 DEF LutPlace, LutTypes
    <3> QED
      BY <3>1, LutLoops
  <2>2. CASE v4
    <3>1. PICK q \in 0..m : v7 = n * q /\ v8 = n * (m - q)
      BY <1>2, <2>2 DEF LutPlace
    <3> QED
      BY <3>1, LutAcross
  <2> QED
    BY <2>1, <2>2
<1> QED
  BY <1>1, <1>2, <1>3 DEF LutIInv, Lut!TypeOK, Lut!Total, LutPlace, LutTypes

\* What an element should be, its bits one behind the other.
LEMMA ReferenceIs ==
  ASSUME NEW k
  PROVE  Lut!Reference(k)
           = << LutTensors.stride * (IF v4 THEN k % v2 ELSE k \div v3),
                Consecutive(k * v1, v1) >>
BY DEF Lut!Reference, Consecutive

\* A step that writes what it should.
LEMMA LutWrites ==
  ASSUME LutTypes, NEW values \in Seq(Nat \X Seq(Nat)), Lut!Write(values),
         UNCHANGED <<v1, v2, v3, v4, v5>>,
         \A k \in 1..Len(values) : values[k] = Lut!Reference(v8 + k - 1)
  PROVE  LutTypes' /\ Lut!ElementsRight' /\ v8' = v8 + Len(values) /\ v7' = v7 - Len(values)
<1>1. PICK o \in Nat, n \in Nat : o = v8 /\ n = Len(values)
  <2>1. v8 \in Nat
    BY DEF LutTypes
  <2>2. Len(values) \in Nat
    OBVIOUS
  <2> QED
    BY <2>1, <2>2
<1>2. v10' = values /\ v9' = o /\ v8' = o + n /\ v7' = v7 - n
  BY <1>1 DEF Lut!Write, LutTypes
<1>3. \A k : Lut!Reference(k)' = Lut!Reference(k)
  BY DEF Lut!Reference
<1>4. DOMAIN values = 1..n
  BY <1>1
<1>5. Lut!ElementsRight'
  <2>1. ASSUME NEW k \in 1..n PROVE values[k] = Lut!Reference(o + k - 1)'
    <3>1. values[k] = Lut!Reference(o + k - 1)
      BY <1>1
    <3> QED
      BY <1>3, <3>1
  <2> QED
    BY <1>2, <1>4, <2>1 DEF Lut!ElementsRight
<1>6. LutTypes'
  <2>1. o + n \in Nat /\ o \in Nat
    OBVIOUS
  <2> QED
    BY <1>1, <1>2, <2>1 DEF LutTypes
<1> QED
  BY <1>1, <1>2, <1>5, <1>6

\* A decoded number is a sequence of bits.
LEMMA BitsTyped ==
  ASSUME NEW first \in Nat, NEW n \in Nat
  PROVE  Consecutive(first, n) \in Seq(Nat)
<1>1. \A i \in 1..n : first + i - 1 \in Nat
  OBVIOUS
<1> QED
  BY <1>1 DEF Consecutive

LEMMA ListTyped ==
  ASSUME NEW T, NEW n \in Nat, NEW s, s = [k \in 1..n |-> s[k]], \A k \in 1..n : s[k] \in T
  PROVE  s \in Seq(T) /\ Len(s) = n
<1>1. [k \in 1..n |-> s[k]] \in Seq(T) /\ Len([k \in 1..n |-> s[k]]) = n
  OBVIOUS
<1> QED
  BY <1>1

LEMMA DecodeElementKeeps == LutIInv /\ Lut!DecodeElement => LutIInv'
<1> SUFFICES ASSUME LutIInv, Lut!DecodeElement PROVE LutIInv'
  OBVIOUS
<1>1. PICK n \in Nat \ {0}, m \in Nat : n = v2 /\ m = v3
  BY DEF LutIInv
<1>2. LutPlace(n, m) /\ LutTypes /\ ~v4
  BY <1>1 DEF LutIInv, Lut!DecodeElement
<1>3. PICK c \in 0..(n - 1), count \in 0..m, o \in Nat :
        c = v6 /\ count = v7 /\ o = v8 /\ o = m * c + (m - count) /\ count > 0
  BY <1>2 DEF LutPlace, LutTypes, Lut!DecodeElement
<1>4. PICK w \in 1..7, stride \in Nat : w = v1 /\ stride = LutTensors.stride
  BY <1>2, LutAssumption DEF LutTypes
<1>5. PICK value : value = << c * stride, Consecutive(o * w, w) >>
  OBVIOUS
<1>6. /\ Lut!Write(<<value>>) /\ UNCHANGED <<v1, v2, v3, v4, v5, v6, v11>>
  <2>1. Lut!GetNextTableIndex(v8) = Consecutive(o * w, w)
    BY <1>3, <1>4, NumberRight
  <2>2. Lut!Value(Lut!GetNextTableIndex(v8)) = value
    BY <1>3, <1>4, <1>5, <2>1 DEF Lut!Value
  <2> QED
    BY <2>2 DEF Lut!DecodeElement, Lut!tensor
<1>7. <<value>> \in Seq(Nat \X Seq(Nat)) /\ Len(<<value>>) = 1
  <2>1. c * stride \in Nat /\ o * w \in Nat
    OBVIOUS
  <2>2. Consecutive(o * w, w) \in Seq(Nat)
    BY <2>1, BitsTyped
  <2> QED
    BY <1>5, <2>1, <2>2
<1>8. value = Lut!Reference(o)
  <2>1. o \div m = c
    <3>1. \A j \in 0..(count - 1) : (o + j) \div m = c
      BY <1>3, LutLoops
    <3>2. (o + 0) \div m = c
      BY <1>3, <3>1
    <3> QED
      BY <3>2
  <2>2. c * stride = stride * c
    OBVIOUS
  <2>3. Lut!Reference(o) = << stride * (o \div m), Consecutive(o * w, w) >>
    BY <1>1, <1>2, <1>4, ReferenceIs
  <2> QED
    BY <1>5, <2>1, <2>2, <2>3
<1>9. \A k \in 1..Len(<<value>>) : <<value>>[k] = Lut!Reference(v8 + k - 1)
  <2>1. v8 + 1 - 1 = o
    BY <1>3
  <2> QED
    BY <1>7, <1>8, <2>1
<1>10. LutTypes' /\ Lut!ElementsRight' /\ v8' = v8 + 1 /\ v7' = v7 - 1
  BY <1>2, <1>6, <1>7, <1>9, LutWrites
<1>11. LutPlace(n, m)'
  <2>1. count - 1 \in 0..m /\ o + 1 = m * c + (m - (count - 1))
    BY <1>3
  <2>2. v7' \in 0..m /\ v8' = m * v6 + (m - v7') /\ v6 \in 0..(n - 1)
    BY <1>3, <1>10, <2>1
  <2> QED
    BY <1>2, <1>6, <2>2 DEF LutPlace
<1> QED
  BY <1>1, <1>6, <1>10, <1>11 DEF LutIInv

LEMMA DecodeGroupKeeps == LutIInv /\ Lut!DecodeGroup => LutIInv'
<1> SUFFICES ASSUME LutIInv, Lut!DecodeGroup PROVE LutIInv'
  OBVIOUS
<1>1. PICK n \in Nat \ {0}, m \in Nat : n = v2 /\ m = v3
  BY DEF LutIInv
<1>2. LutPlace(n, m) /\ LutTypes /\ ~v4 /\ Lut!Grouped
  BY <1>1 DEF LutIInv, Lut!DecodeGroup, Lut!Grouped
<1>3. PICK g \in {16, 32} : g = Lut!GroupSize
  BY DEF Lut!GroupSize
<1>4. PICK c \in 0..(n - 1), count \in 0..m, o \in Nat :
        c = v6 /\ count = v7 /\ o = v8 /\ o = m * c + (m - count) /\ count >= g
  <2>1. v7 >= g
    BY <1>3 DEF Lut!DecodeGroup, Lut!AtGroup
  <2> QED
    BY <1>2, <2>1 DEF LutPlace, LutTypes
<1>5. PICK w \in 1..7, stride \in Nat : w = v1 /\ stride = LutTensors.stride
  BY <1>2, LutAssumption DEF LutTypes
<1>6. PICK values : values = [k \in 1..g |-> << c * stride, Consecutive((o + k - 1) * w, w) >>]
  OBVIOUS
<1>7. /\ Lut!Write(values) /\ UNCHANGED <<v1, v2, v3, v4, v5, v6, v11>>
  <2>1. (v8 % Lut!GroupSize) = 0
    BY DEF Lut!DecodeGroup, Lut!AtGroup
  <2>2. ASSUME NEW k \in 1..g
        PROVE  Lut!Value(Lut!Parts(Lut!GroupStart, Lut!Group[k]))
                 = << c * stride, Consecutive((o + k - 1) * w, w) >>
    <3>1. Lut!Parts(Lut!GroupStart, Lut!Group[k]) = Consecutive((v8 + k - 1) * v1, v1)
      BY <1>2, <1>3, <1>4, <2>1, GroupRight
    <3> QED
      BY <1>4, <1>5, <3>1 DEF Lut!Value
  <2>3. [k \in 1..Lut!GroupSize |-> Lut!Value(Lut!Parts(Lut!GroupStart, Lut!Group[k]))] = values
    BY <1>3, <1>6, <2>2
  <2> QED
    BY <2>3 DEF Lut!DecodeGroup, Lut!tensor
<1>8. values \in Seq(Nat \X Seq(Nat)) /\ Len(values) = g
  <2>1. ASSUME NEW k \in 1..g
        PROVE  << c * stride, Consecutive((o + k - 1) * w, w) >> \in Nat \X Seq(Nat)
    <3>1. c * stride \in Nat /\ (o + k - 1) * w \in Nat
      OBVIOUS
    <3>2. Consecutive((o + k - 1) * w, w) \in Seq(Nat)
      <4>1. PICK first \in Nat : first = (o + k - 1) * w
        BY <3>1
      <4>2. Consecutive(first, w) \in Seq(Nat)
        <5>1. w \in Nat
          OBVIOUS
        <5> QED
          BY <5>1, BitsTyped
      <4> QED
        BY <4>1, <4>2
    <3> QED
      BY <3>1, <3>2
  <2>2. g \in Nat
    OBVIOUS
  <2>3. values = [k \in 1..g |-> values[k]] /\ \A k \in 1..g : values[k] \in Nat \X Seq(Nat)
    BY <1>6, <2>1
  <2> QED
    BY <2>2, <2>3, ListTyped
<1>9. \A k \in 1..Len(values) : values[k] = Lut!Reference(v8 + k - 1)
  <2>1. ASSUME NEW k \in 1..g PROVE values[k] = Lut!Reference(o + k - 1)
    <3>1. (o + k - 1) \div m = c
      <4>1. \A j \in 0..(count - 1) : (o + j) \div m = c
        BY <1>4, LutLoops
      <4>2. PICK j \in 0..(count - 1) : j = k - 1
        BY <1>4
      <4>3. o + j = o + k - 1
        BY <4>2
      <4> QED
        BY <4>1, <4>3
    <3>2. c * stride = stride * c
      OBVIOUS
    <3>3. Lut!Reference(o + k - 1)
            = << stride * ((o + k - 1) \div m), Consecutive((o + k - 1) * w, w) >>
      BY <1>1, <1>2, <1>5, ReferenceIs
    <3> QED
      BY <1>6, <3>1, <3>2, <3>3
  <2> QED
    BY <1>4, <1>8, <2>1
<1>10. LutTypes' /\ Lut!ElementsRight' /\ v8' = v8 + g /\ v7' = v7 - g
  BY <1>2, <1>7, <1>8, <1>9, LutWrites
<1>11. LutPlace(n, m)'
  <2>1. count - g \in 0..m /\ o + g = m * c + (m - (count - g))
    BY <1>4
  <2>2. v7' \in 0..m /\ v8' = m * v6 + (m - v7') /\ v6 \in 0..(n - 1)
    BY <1>4, <1>10, <2>1
  <2> QED
    BY <1>2, <1>7, <2>2 DEF LutPlace
<1> QED
  BY <1>1, <1>7, <1>10, <1>11 DEF LutIInv

LEMMA LutNextChannelKeeps == LutIInv /\ Lut!NextChannel => LutIInv'
<1> SUFFICES ASSUME LutIInv, Lut!NextChannel PROVE LutIInv'
  OBVIOUS
<1>1. PICK n \in Nat \ {0}, m \in Nat : n = v2 /\ m = v3
  BY DEF LutIInv
<1>2. LutPlace(n, m) /\ LutTypes /\ ~v4
  BY <1>1 DEF LutIInv, Lut!NextChannel
<1>3. PICK c \in 0..(n - 1), o \in Nat :
        c = v6 /\ v7 = 0 /\ o = v8 /\ o = m * c + (m - 0) /\ c + 1 < n
  BY <1>1, <1>2 DEF LutPlace, LutTypes, Lut!NextChannel
<1>4. /\ v6' = c + 1 /\ v7' = m /\ v10' = <<>> /\ v9' = v9 + Len(v10)
      /\ UNCHANGED <<v1, v2, v3, v4, v5, v8, v11>>
  BY <1>1, <1>3 DEF Lut!NextChannel, Lut!tensor
<1>5. LutTypes' /\ Lut!ElementsRight'
  BY <1>2, <1>4 DEF LutTypes, Lut!ElementsRight
<1>6. LutPlace(n, m)'
  <2>1. o = m * (c + 1) + (m - m)
    BY <1>3, LutLoops
  <2>2. c + 1 \in 0..(n - 1) /\ m \in 0..m
    BY <1>3
  <2>3. v6' \in 0..(n - 1) /\ v7' \in 0..m /\ v8' = m * v6' + (m - v7')
    BY <1>3, <1>4, <2>1, <2>2
  <2> QED
    BY <1>2, <1>4, <2>3 DEF LutPlace
<1> QED
  BY <1>1, <1>4, <1>5, <1>6 DEF LutIInv

LEMMA DecodeAcrossKeeps == LutIInv /\ Lut!DecodeAcross => LutIInv'
<1> SUFFICES ASSUME LutIInv, Lut!DecodeAcross PROVE LutIInv'
  OBVIOUS
<1>1. PICK n \in Nat \ {0}, m \in Nat : n = v2 /\ m = v3
  BY DEF LutIInv
<1>2. LutPlace(n, m) /\ LutTypes /\ v4
  BY <1>1 DEF LutIInv, Lut!DecodeAcross
<1>3. PICK q \in 0..m, o \in Nat : v7 = n * q /\ o = v8 /\ o = n * (m - q) /\ n * q > 0
  BY <1>2 DEF LutPlace, LutTypes, Lut!DecodeAcross
<1>4. PICK w \in 1..7, stride \in Nat : w = v1 /\ stride = LutTensors.stride
  BY <1>2, LutAssumption DEF LutTypes
<1>5. PICK values :
        values = [k \in 1..n |-> << (k - 1) * stride, Consecutive((o + k - 1) * w, w) >>]
  OBVIOUS
<1>6. /\ Lut!Write(values) /\ UNCHANGED <<v1, v2, v3, v4, v5, v6, v11>>
  <2>1. ASSUME NEW k \in 1..n
        PROVE  Lut!GetNextTableIndex(v8 + k - 1) = Consecutive((o + k - 1) * w, w)
    <3>1. o + k - 1 \in Nat
      OBVIOUS
    <3>2. Lut!GetNextTableIndex(o + k - 1) = Consecutive((o + k - 1) * v1, v1)
      BY <1>4, <3>1, NumberRight
    <3> QED
      BY <1>3, <1>4, <3>2
  <2>2. [k \in 1..v2 |-> << (k - 1) * LutTensors.stride, Lut!GetNextTableIndex(v8 + k - 1) >>]
          = values
    BY <1>1, <1>4, <1>5, <2>1
  <2> QED
    BY <2>2 DEF Lut!DecodeAcross, Lut!tensor
<1>7. values \in Seq(Nat \X Seq(Nat)) /\ Len(values) = n
  <2>1. ASSUME NEW k \in 1..n
        PROVE  << (k - 1) * stride, Consecutive((o + k - 1) * w, w) >> \in Nat \X Seq(Nat)
    <3>1. (k - 1) * stride \in Nat /\ (o + k - 1) * w \in Nat
      OBVIOUS
    <3>2. Consecutive((o + k - 1) * w, w) \in Seq(Nat)
      <4>1. PICK first \in Nat : first = (o + k - 1) * w
        BY <3>1
      <4>2. Consecutive(first, w) \in Seq(Nat)
        <5>1. w \in Nat
          OBVIOUS
        <5> QED
          BY <5>1, BitsTyped
      <4> QED
        BY <4>1, <4>2
    <3> QED
      BY <3>1, <3>2
  <2>2. values = [k \in 1..n |-> values[k]] /\ \A k \in 1..n : values[k] \in Nat \X Seq(Nat)
    BY <1>5, <2>1
  <2> QED
    BY <2>2, ListTyped
<1>8. \A k \in 1..Len(values) : values[k] = Lut!Reference(v8 + k - 1)
  <2>1. ASSUME NEW k \in 1..n PROVE values[k] = Lut!Reference(o + k - 1)
    <3>1. ((o + k - 1) % n) = k - 1
      <4>1. PICK c \in 0..(n - 1) : c = k - 1
        OBVIOUS
      <4>2. ((n * (m - q) + c) % n) = c
        BY LutAcross
      <4>3. n * (m - q) + c = o + k - 1
        BY <1>3, <4>1
      <4> QED
        BY <4>1, <4>2, <4>3
    <3>2. (k - 1) * stride = stride * (k - 1)
      OBVIOUS
    <3>3. Lut!Reference(o + k - 1)
            = << stride * ((o + k - 1) % n), Consecutive((o + k - 1) * w, w) >>
      BY <1>1, <1>2, <1>4, ReferenceIs
    <3> QED
      BY <1>5, <3>1, <3>2, <3>3
  <2> QED
    BY <1>3, <1>7, <2>1
<1>9. LutTypes' /\ Lut!ElementsRight' /\ v8' = v8 + n /\ v7' = v7 - n
  BY <1>2, <1>6, <1>7, <1>8, LutWrites
<1>10. LutPlace(n, m)'
  <2>1. PICK left \in 0..m : /\ left = q - 1 /\ n * q - n = n * left
                             /\ n * (m - q) + n = n * (m - left)
    <3>1. q - 1 \in 0..m /\ n * q - n = n * (q - 1) /\ n * (m - q) + n = n * (m - (q - 1))
      BY <1>3, LutAcross
    <3> QED
      BY <3>1
  <2>2. v7' = n * left /\ v8' = n * (m - left)
    BY <1>3, <1>9, <2>1
  <2> QED
    BY <1>2, <1>6, <2>2 DEF LutPlace
<1> QED
  BY <1>1, <1>6, <1>9, <1>10 DEF LutIInv

LEMMA LutSetUpKeeps == LutIInv /\ (Lut!Setup \/ Lut!RefuseSetup) => LutIInv'
<1> SUFFICES ASSUME LutIInv, Lut!Setup \/ Lut!RefuseSetup PROVE LutIInv'
  OBVIOUS
<1>1. UNCHANGED <<v1, v2, v3, v4, v5, v6, v7, v8, v9, v10>> /\ v11' \in {"decoding", "refused"}
  BY DEF Lut!Setup, Lut!RefuseSetup, Lut!tensor
<1>2. Lut!ElementsRight'
  BY <1>1 DEF LutIInv, Lut!ElementsRight, Lut!Reference
<1> QED
  BY <1>1, <1>2 DEF LutIInv, LutTypes, LutPlace

LEMMA LutKeeps == LutIInv /\ Lut!Next => LutIInv'
BY LutSetUpKeeps, DecodeElementKeeps, DecodeGroupKeeps, LutNextChannelKeeps, DecodeAcrossKeeps
   DEF Lut!Next

LEMMA LutStays == UNCHANGED pool /\ LutIInv => LutIInv'
<1> SUFFICES ASSUME UNCHANGED pool, LutIInv PROVE LutIInv'
  OBVIOUS
<1>1. UNCHANGED <<v1, v2, v3, v4, v5, v6, v7, v8, v9, v10, v11>>
  BY DEF pool, from6, from7, from10, from11
<1>2. Lut!ElementsRight'
  BY <1>1 DEF LutIInv, Lut!ElementsRight, Lut!Reference
<1> QED
  BY <1>1, <1>2 DEF LutIInv, LutTypes, LutPlace

-----------------------------------------------------------------------------
(* The pruning decoder. *)

LEMMA PrunedFacts ==
  ASSUME NEW n \in Nat \ {0}, NEW m \in Nat, IsPruned(n, m)
  PROVE  /\ Prune!Channels = n /\ Prune!count_indices = n * m
         /\ \A S : Prune!Cardinality(S) = Cardinality(S)
         /\ IsFiniteSet(v6) /\ v6 \subseteq Int
<1>1. \A S : Prune!Cardinality(S) = Cardinality(S)
  BY DEF Prune!Cardinality, Cardinality, Prune!IsFiniteSet, IsFiniteSet
<1>2. Cardinality(0..(n - 1)) = n
  <2>1. 0 \in Int /\ n - 1 \in Int /\ 0 <= n - 1
    OBVIOUS
  <2>2. Cardinality(0..(n - 1)) = n - 1 - 0 + 1
    BY <2>1, FS_Interval
  <2> QED
    BY <2>2
<1>3. Prune!Channels = n
  BY <1>1, <1>2 DEF Prune!Channels, IsPruned
<1>4. Prune!count_indices = n * m
  BY <1>3 DEF Prune!count_indices, IsPruned
<1>5. IsFiniteSet(v6) /\ v6 \subseteq Int
  <2>1. PICK l \in Int : l = n * m - 1
    OBVIOUS
  <2>2. IsFiniteSet(0..l) /\ 0..l \subseteq Int
    BY FS_Interval
  <2>3. v6 \subseteq 0..l
    BY <2>1 DEF IsPruned
  <2> QED
    BY <2>2, <2>3, FS_Subset
<1> QED
  BY <1>1, <1>3, <1>4, <1>5

\* One element more.
LEMMA ValuesGrow ==
  ASSUME NEW n \in Nat \ {0}, NEW m \in Nat, IsPruned(n, m), NEW k \in Nat
  PROVE  /\ Cardinality(ValuesBefore(k)) \in 0..Cardinality(v6) /\ Cardinality(v6) \in Nat
         /\ Cardinality(ValuesBefore(k + 1))
              = IF k \in v6 THEN Cardinality(ValuesBefore(k)) + 1
                ELSE Cardinality(ValuesBefore(k))
<1>1. IsFiniteSet(v6) /\ v6 \subseteq Int
  BY PrunedFacts
<1>2. ValuesBefore(k) \subseteq v6
  BY DEF ValuesBefore
<1>3. IsFiniteSet(ValuesBefore(k))
  BY <1>1, <1>2, FS_Subset
<1>4. /\ Cardinality(v6) \in Nat /\ Cardinality(ValuesBefore(k)) \in Nat
      /\ Cardinality(ValuesBefore(k)) <= Cardinality(v6)
  BY <1>1, <1>2, <1>3, FS_Subset, FS_CardinalityType
<1>0. \A j \in v6 : j < k + 1 <=> j < k \/ j = k
  <2>1. \A j \in Int : j < k + 1 <=> j < k \/ j = k
    OBVIOUS
  <2> QED
    BY <1>1, <2>1
<1>5. ASSUME k \in v6
      PROVE  Cardinality(ValuesBefore(k + 1)) = Cardinality(ValuesBefore(k)) + 1
  <2>1. ValuesBefore(k + 1) = ValuesBefore(k) \cup {k}
    BY <1>0, <1>5 DEF ValuesBefore
  <2>2. k \notin ValuesBefore(k)
    BY DEF ValuesBefore
  <2> QED
    BY <1>3, <2>1, <2>2, FS_AddElement
<1>6. ASSUME k \notin v6
      PROVE  ValuesBefore(k + 1) = ValuesBefore(k)
  BY <1>0, <1>6 DEF ValuesBefore
<1> QED
  BY <1>4, <1>5, <1>6

LEMMA PruneStarts == Prune!Init => PruneIInv
<1> SUFFICES ASSUME Prune!Init PROVE PruneIInv
  OBVIOUS
<1>1. PICK n \in (IF v2 THEN 1..PrunedTensors.max_channels ELSE {1}) :
        /\ v5 \in [0..n - 1 -> IF v2 THEN PrunedTensors.zero_points ELSE {0}]
        /\ v3 \in 0..PrunedTensors.max_elements \div n
        /\ v4 \in (IF n > 1 THEN BOOLEAN ELSE {FALSE})
        /\ v6 \in SUBSET (0..n * v3 - 1)
  BY DEF Prune!Init
<1>2. n \in Nat \ {0}
  BY <1>1, PrunedAssumption
<1>3. PICK most \in Nat : most = PrunedTensors.max_elements
  BY PrunedAssumption
<1>4. most \div n \in Nat /\ most \div n <= most
  BY <1>2
<1>5. PICK m \in Nat : m = v3 /\ m <= most
  BY <1>1, <1>3, <1>4
<1>6. IsPruned(n, m)
  BY <1>1, <1>3, <1>5 DEF IsPruned
<1>7. /\ v7 = "setup" /\ v8 = 1 /\ v9 = << >> /\ v11 = 0 /\ v12 = 0 /\ v13 = 0 /\ v14 = 0
  BY DEF Prune!Init
<1>8. v14 = Cardinality(ValuesBefore(v13))
  <2>1. v6 \subseteq 0..(n * m - 1)
    BY <1>6 DEF IsPruned
  <2>2. \A j \in v6 : ~(j < 0)
    <3>1. PICK l \in Int : l = n * m - 1
      BY <1>2
    <3>2. \A j \in 0..l : ~(j < 0)
      OBVIOUS
    <3> QED
      BY <2>1, <3>1, <3>2
  <2>3. ValuesBefore(0) = {}
    BY <2>2 DEF ValuesBefore
  <2> QED
    BY <1>7, <2>3, FS_EmptySet
<1>9. 0 \in 0..(n * m)
  BY <1>2
<1>10. PruneTypes(n, m) /\ PruneChosen(n) /\ PrunePlace(n, m, v11, v12)
  BY <1>7, <1>8, <1>9 DEF PruneTypes, PruneChosen, PrunePlace
<1>11. Prune!ElementsRight
  BY <1>7 DEF Prune!ElementsRight
<1> QED
  BY <1>2, <1>6, <1>10, <1>11 DEF PruneIInv

LEMMA PruneSetsUp == PruneIInv /\ Prune!Setup => PruneIInv'
<1> SUFFICES ASSUME PruneIInv, Prune!Setup PROVE PruneIInv'
  OBVIOUS
<1>1. PICK n \in Nat \ {0}, m \in Nat :
        /\ IsPruned(n, m) /\ PruneTypes(n, m)
        /\ PruneChosen(n) /\ PrunePlace(n, m, v11, v12)
  BY DEF PruneIInv
<1>2. PICK copies, fails : /\ copies = (Prune!Channels > 1 /\ Prune!HasNonZero)
                           /\ fails \in BOOLEAN
                           /\ ~fails /\ Prune!HasNonZero => v1
                           /\ v7' = IF fails THEN "refused" ELSE "decoding"
                           /\ v9' = IF copies /\ ~fails THEN v5 ELSE << >>
                           /\ v10' = IF fails \/ copies THEN 0 ELSE v5[0]
  BY DEF Prune!Setup
<1>3. /\ v7 = "setup" /\ v8' = Prune!Channels
      /\ UNCHANGED <<v1, v2, v3, v4, v5, v6, v11, v12, v13, v14, v15>>
  BY DEF Prune!Setup, Prune!tensor
<1>4. Prune!Channels = n /\ v13 = 0 /\ v9 = << >>
  BY <1>1, <1>3, PrunedFacts DEF PruneChosen, PruneTypes
<1>5. DOMAIN v5 = 0..(n - 1) /\ 0 \in 0..(n - 1)
  BY <1>1 DEF IsPruned
<1>6. v5 # << >>
  BY <1>5
<1>7. v11 = 0 /\ v12 = 0
  BY <1>1, <1>4 DEF PrunePlace
<1>8. PruneChosen(n)'
  <2>1. CASE fails
    BY <1>2, <1>3, <1>4, <2>1 DEF PruneChosen
  <2>2. CASE ~fails /\ copies
    BY <1>2, <1>3, <1>4, <1>6, <2>2 DEF PruneChosen
  <2>3. CASE ~fails /\ ~copies
    <3>1. v7' = "decoding" /\ v9' = << >> /\ v10' = v5[0]
      BY <1>2, <2>3
    <3>2. ASSUME NEW c \in 0..(n - 1) PROVE v5[c] = v5[0]
      <4>1. CASE n > 1
        <5>1. v5[c] = 0 /\ v5[0] = 0
          BY <1>2, <1>4, <1>5, <2>3, <4>1 DEF Prune!HasNonZero
        <5> QED
          BY <5>1
      <4>2. CASE ~(n > 1)
        <5>1. c = 0
          BY <4>2
        <5> QED
          BY <5>1
      <4> QED
        BY <4>1, <4>2
    <3> QED
      BY <1>3, <1>4, <3>1, <3>2 DEF PruneChosen
  <2> QED
    BY <1>2, <2>1, <2>2, <2>3
<1>9. PrunePlace(n, m, v11, v12)'
  <2>1. n > 0 /\ n * 0 = 0 /\ m * 0 = 0 /\ (0 < m \/ m = 0) /\ 0 <= n /\ 0 <= m
    OBVIOUS
  <2> QED
    BY <1>3, <1>4, <1>7, <2>1 DEF PrunePlace
<1>10. PruneTypes(n, m)'
  BY <1>1, <1>2, <1>3 DEF PruneTypes, ValuesBefore
<1>11. IsPruned(n, m)'
  BY <1>1, <1>3 DEF IsPruned
<1>12. Prune!ElementsRight'
  BY <1>3, <1>4 DEF Prune!ElementsRight
<1> QED
  BY <1>8, <1>9, <1>10, <1>11, <1>12 DEF PruneIInv

LEMMA PruneRefuses == PruneIInv /\ (Prune!RefuseVersion \/ Prune!RefuseAxis) => PruneIInv'
<1> SUFFICES ASSUME PruneIInv, Prune!RefuseVersion \/ Prune!RefuseAxis PROVE PruneIInv'
  OBVIOUS
<1>1. PICK n \in Nat \ {0}, m \in Nat :
        /\ IsPruned(n, m) /\ PruneTypes(n, m)
        /\ PruneChosen(n) /\ PrunePlace(n, m, v11, v12)
  BY DEF PruneIInv
<1>2. /\ v7 = "setup" /\ v7' = "refused" /\ (v8' = v8 \/ v8' = Prune!Channels)
      /\ UNCHANGED <<v1, v2, v3, v4, v5, v6, v9, v11, v12, v13, v14, v15>>
  BY DEF Prune!RefuseVersion, Prune!RefuseAxis, Prune!tensor, Prune!setup
<1>3. v8' \in Nat /\ v13 = 0
  BY <1>1, <1>2, PrunedFacts DEF PruneChosen
<1>4. (IsPruned(n, m) /\ PruneTypes(n, m) /\ PruneChosen(n) /\ PrunePlace(n, m, v11, v12))'
  BY <1>1, <1>2, <1>3 DEF IsPruned, PruneTypes, PruneChosen, PrunePlace, ValuesBefore
<1>5. Prune!ElementsRight'
  BY <1>2, <1>3 DEF Prune!ElementsRight
<1> QED
  BY <1>4, <1>5 DEF PruneIInv

\* A product less than another has a smaller factor.
LEMMA FactorLess ==
  ASSUME NEW d \in Nat \ {0}, NEW a \in Nat, NEW b \in Nat, d * a < d * b
  PROVE  a < b
<1> SUFFICES ASSUME ~(a < b) PROVE FALSE
  OBVIOUS
<1>1. PICK e \in Nat : a = b + e
  <2>1. a - b \in Nat /\ a = b + (a - b)
    OBVIOUS
  <2> QED
    BY <2>1
<1>2. d * (b + e) = d * b + d * e /\ d * e \in Nat /\ d * b \in Nat
  OBVIOUS
<1> QED
  BY <1>1, <1>2

\* A step of the loops stays at the channel of the element: numbers only.
LEMMA PruneLoops ==
  ASSUME NEW n \in Nat \ {0}, NEW m \in Nat, NEW channel \in Nat, NEW count \in Nat,
         NEW k \in Nat, k < n * m
  PROVE  /\ channel < n /\ k = n * count + channel =>
              /\ (k % n) = channel /\ count < m
              /\ channel + 1 = n => k + 1 = n * (count + 1) + 0
              /\ channel + 1 # n => k + 1 = n * count + (channel + 1)
         /\ channel <= n /\ (count < m \/ (m = 0 /\ count = 0)) /\ k = m * channel + count =>
              /\ (k \div m) = channel /\ channel < n
              /\ count + 1 = m => k + 1 = m * (channel + 1) + 0
              /\ count + 1 # m => k + 1 = m * channel + (count + 1) /\ count + 1 < m
         /\ (k % n) \in 0..(n - 1) /\ (k \div m) \in 0..(n - 1)
<1>0. m \in Nat \ {0}
  <2>1. n * 0 = 0
    OBVIOUS
  <2> QED
    BY <2>1
<1>1. ASSUME channel < n, k = n * count + channel
      PROVE  /\ (k % n) = channel /\ count < m
             /\ channel + 1 = n => k + 1 = n * (count + 1) + 0
             /\ channel + 1 # n => k + 1 = n * count + (channel + 1)
  <2>1. n * count < n * m /\ n * count \in Nat
    BY <1>1
  <2>2. n * (count + 1) = n * count + n
    OBVIOUS
  <2> QED
    BY <1>1, <2>1, <2>2, FactorLess
<1>2. ASSUME channel <= n, count < m \/ (m = 0 /\ count = 0), k = m * channel + count
      PROVE  /\ (k \div m) = channel /\ channel < n
             /\ count + 1 = m => k + 1 = m * (channel + 1) + 0
             /\ count + 1 # m => k + 1 = m * channel + (count + 1) /\ count + 1 < m
  <2>1. m * channel < m * n /\ m * channel \in Nat /\ count < m
    <3>1. n * m = m * n /\ m * channel \in Nat
      OBVIOUS
    <3> QED
      BY <1>0, <1>2, <3>1
  <2>2. m * (channel + 1) = m * channel + m
    OBVIOUS
  <2>3. channel < n
    BY <1>0, <2>1, FactorLess
  <2>4. (k \div m) = channel
    BY <1>0, <1>2, <2>1
  <2> QED
    BY <1>0, <1>2, <2>1, <2>2, <2>3, <2>4
<1>3. (k % n) \in 0..(n - 1)
  OBVIOUS
<1>4. (k \div m) \in 0..(n - 1)
  <2>1. PICK q \in Nat, c \in 0..(m - 1) : q = k \div m /\ k = m * q + c
    <3>1. k \div m \in Nat /\ (k % m) \in 0..(m - 1) /\ k = m * (k \div m) + (k % m)
      BY <1>0
    <3> QED
      BY <3>1
  <2>2. m * q < m * n
    <3>1. n * m = m * n /\ m * q \in Nat /\ m * n \in Nat
      OBVIOUS
    <3>2. c >= 0
      BY <1>0
    <3> QED
      BY <2>1, <3>1, <3>2
  <2>3. q < n
    BY <1>0, <2>2, FactorLess
  <2> QED
    BY <2>1, <2>3
<1> QED
  BY <1>1, <1>2, <1>3, <1>4

LEMMA PruneDecodes == PruneIInv /\ Prune!DecodeElement => PruneIInv'
<1> SUFFICES ASSUME PruneIInv, Prune!DecodeElement PROVE PruneIInv'
  OBVIOUS
<1>1. PICK n \in Nat \ {0}, m \in Nat :
        /\ IsPruned(n, m) /\ PruneTypes(n, m)
        /\ PruneChosen(n) /\ PrunePlace(n, m, v11, v12)
  BY DEF PruneIInv
<1>2. /\ v7 = "decoding" /\ v13 < n * m
      /\ Prune!Take(v13 \in v6) /\ Prune!NextChannel /\ v13' = v13 + 1
      /\ UNCHANGED <<v1, v2, v3, v4, v5, v6, v7, v8, v9, v10>>
  BY <1>1, PrunedFacts DEF Prune!DecodeElement, Prune!tensor, Prune!setup
<1>3. PICK k \in Nat, channel \in Nat, count \in Nat : k = v13 /\ channel = v11 /\ count = v12
  <2>1. v13 \in Nat /\ v11 \in Nat /\ v12 \in Nat
    BY <1>1 DEF PruneTypes
  <2> QED
    BY <2>1
<1>4. /\ v8 = n /\ v3 = m /\ DOMAIN v5 = 0..(n - 1)
      /\ v9 # << >> => v9 = v5 /\ v1 /\ n > 1
      /\ v9 = << >> => \A c \in 0..(n - 1) : v5[c] = v10
  BY <1>1, <1>2 DEF PruneChosen, IsPruned
<1>5. Prune!PerChannel <=> v9 # << >>
  BY <1>4 DEF Prune!PerChannel
<1>6. k < n * m /\ k \in Nat /\ v13' = k + 1
  BY <1>2, <1>3
<1>7. PrunePlace(n, m, v11, v12)'
  <2>1. CASE v9 = << >>
    BY <1>1, <1>2, <1>5, <2>1 DEF PrunePlace, Prune!NextChannel
  <2>2. CASE v9 # << >> /\ v4
    <3>1. channel < n /\ count <= m /\ k = n * count + channel
      BY <1>1, <1>3, <2>2 DEF PrunePlace
    <3>2. /\ count < m
          /\ channel + 1 = n => k + 1 = n * (count + 1) + 0
          /\ channel + 1 # n => k + 1 = n * count + (channel + 1)
      BY <1>6, <3>1, PruneLoops
    <3>3. CASE channel + 1 = n
      <4>1. v11' = 0 /\ v12' = count + 1
        BY <1>2, <1>3, <1>4, <1>5, <2>2, <3>3 DEF Prune!NextChannel
      <4>2. 0 < n /\ count + 1 <= m
        BY <3>2
      <4> QED
        BY <1>2, <1>6, <2>2, <3>2, <3>3, <4>1, <4>2 DEF PrunePlace
    <3>4. CASE channel + 1 # n
      <4>1. v11' = channel + 1 /\ v12' = count
        BY <1>2, <1>3, <1>4, <1>5, <2>2, <3>4 DEF Prune!NextChannel
      <4>2. channel + 1 < n /\ count <= m
        BY <3>1, <3>4
      <4> QED
        BY <1>2, <1>6, <2>2, <3>2, <3>4, <4>1, <4>2 DEF PrunePlace
    <3> QED
      BY <3>3, <3>4
  <2>3. CASE v9 # << >> /\ ~v4
    <3>1. channel <= n /\ (count < m \/ (m = 0 /\ count = 0)) /\ k = m * channel + count
      BY <1>1, <1>3, <2>3 DEF PrunePlace
    <3>2. /\ channel < n
          /\ count + 1 = m => k + 1 = m * (channel + 1) + 0
          /\ count + 1 # m => k + 1 = m * channel + (count + 1) /\ count + 1 < m
      BY <1>6, <3>1, PruneLoops
    <3>3. CASE count + 1 = m
      <4>1. v11' = channel + 1 /\ v12' = 0
        BY <1>2, <1>3, <1>4, <1>5, <2>3, <3>3 DEF Prune!NextChannel
      <4>2. channel + 1 <= n /\ 0 < m
        BY <3>2, <3>3
      <4> QED
        BY <1>2, <1>6, <2>3, <3>2, <3>3, <4>1, <4>2 DEF PrunePlace
    <3>4. CASE count + 1 # m
      <4>1. v11' = channel /\ v12' = count + 1
        BY <1>2, <1>3, <1>4, <1>5, <2>3, <3>4 DEF Prune!NextChannel
      <4>2. channel <= n /\ count + 1 < m /\ k + 1 = m * channel + (count + 1)
        BY <3>1, <3>2, <3>4
      <4> QED
        <5>1. v11' <= n /\ v12' < m /\ v13' = m * v11' + v12'
          BY <1>6, <4>1, <4>2
        <5> QED
          BY <1>2, <2>3, <5>1 DEF PrunePlace
    <3> QED
      BY <3>3, <3>4
  <2> QED
    BY <2>1, <2>2, <2>3
<1>8. PICK before : before = Cardinality(ValuesBefore(k))
  OBVIOUS
<1>9. /\ v14 = before
      /\ Cardinality(ValuesBefore(k + 1)) = IF k \in v6 THEN before + 1 ELSE before
  BY <1>1, <1>3, <1>8, ValuesGrow DEF PruneTypes
<1>10. v14' = Cardinality(ValuesBefore(k + 1))
  BY <1>2, <1>3, <1>9 DEF Prune!Take
<1>11. PruneTypes(n, m)'
  <2>1. v13' \in 0..(n * m)
    <3>1. n * m \in Nat
      OBVIOUS
    <3> QED
      BY <1>6, <3>1
  <2>2. v11' \in Nat /\ v12' \in Nat
    BY <1>2, <1>3 DEF Prune!NextChannel
  <2>3. ValuesBefore(v13)' = ValuesBefore(k + 1)
    BY <1>2, <1>6 DEF ValuesBefore
  <2> QED
    BY <1>1, <1>2, <1>10, <2>1, <2>2, <2>3 DEF PruneTypes
<1>12. IsPruned(n, m)' /\ PruneChosen(n)'
  BY <1>1, <1>2 DEF IsPruned, PruneChosen
<1>13. Prune!ElementsRight'
  <2>1. v15' = IF k \in v6 THEN Prune!Stored(Cardinality(ValuesBefore(k + 1)))
               ELSE Prune!Zero(v5[Prune!ChannelOf(k)])
    <3>1. CASE k \in v6
      BY <1>2, <1>3, <1>9, <3>1 DEF Prune!Take
    <3>2. CASE k \notin v6
      <4>1. v15' = Prune!Zero(Prune!ZeroPoint)
        BY <1>2, <1>3, <3>2 DEF Prune!Take
      <4>2. Prune!ChannelOf(k) = IF v4 THEN k % n ELSE k \div m
        BY <1>1, <1>4, PrunedFacts DEF Prune!ChannelOf
      <4>3. Prune!ZeroPoint = v5[Prune!ChannelOf(k)]
        <5>1. CASE v9 = << >>
          <6>1. Prune!ChannelOf(k) \in 0..(n - 1)
            <7>1. (k % n) \in 0..(n - 1) /\ (k \div m) \in 0..(n - 1)
              BY <1>6, PruneLoops
            <7> QED
              BY <4>2, <7>1
          <6> QED
            BY <1>4, <1>5, <5>1, <6>1 DEF Prune!ZeroPoint
        <5>2. CASE v9 # << >>
          <6>1. Prune!ChannelOf(k) = channel
            <7>1. CASE v4
              <8>1. channel < n /\ k = n * count + channel
                BY <1>1, <1>3, <5>2, <7>1 DEF PrunePlace
              <8> QED
                <9>1. (k % n) = channel
                  BY <1>6, <8>1, PruneLoops
                <9> QED
                  BY <4>2, <7>1, <9>1
            <7>2. CASE ~v4
              <8>1. channel <= n /\ (count < m \/ (m = 0 /\ count = 0)) /\ k = m * channel + count
                BY <1>1, <1>3, <5>2, <7>2 DEF PrunePlace
              <8> QED
                BY <1>6, <4>2, <7>2, <8>1, PruneLoops
            <7> QED
              BY <7>1, <7>2
          <6> QED
            BY <1>3, <1>4, <1>5, <5>2, <6>1 DEF Prune!ZeroPoint
        <5> QED
          BY <5>1, <5>2
      <4> QED
        BY <3>2, <4>1, <4>3
    <3> QED
      BY <3>1, <3>2
  <2>2. {j \in v6 : j <= k} = ValuesBefore(k + 1)
    <3>1. v6 \subseteq Int
      BY <1>1, PrunedFacts
    <3>2. \A j \in Int : j <= k <=> j < k + 1
      OBVIOUS
    <3> QED
      BY <3>1, <3>2 DEF ValuesBefore
  <2>3. Prune!ChannelOf(k)' = Prune!ChannelOf(k)
    BY <1>2 DEF Prune!ChannelOf, Prune!Channels
  <2>4. v13' - 1 = k
    BY <1>6
  <2>5. \A S : Prune!Cardinality(S) = Cardinality(S)
    BY <1>1, PrunedFacts
  <2> QED
    BY <1>2, <2>1, <2>2, <2>3, <2>4, <2>5 DEF Prune!ElementsRight
<1> QED
  BY <1>7, <1>11, <1>12, <1>13 DEF PruneIInv

LEMMA PruneStays == UNCHANGED pool /\ PruneIInv => PruneIInv'
<1> SUFFICES ASSUME UNCHANGED pool, PruneIInv PROVE PruneIInv'
  OBVIOUS
<1>1. UNCHANGED <<v1, v2, v3, v4, v5, v6, v7, v8, v9, v10, v11, v12, v13, v14, v15>>
  BY DEF pool, from6, from7, from10, from11, from12, from14, from15
<1>2. \A k : Prune!ChannelOf(k)' = Prune!ChannelOf(k)
  BY <1>1 DEF Prune!ChannelOf, Prune!Channels
<1>3. Prune!ElementsRight'
  BY <1>1, <1>2 DEF PruneIInv, Prune!ElementsRight
<1> QED
  BY <1>1, <1>3 DEF PruneIInv, IsPruned, PruneTypes, PruneChosen, PrunePlace, ValuesBefore

LEMMA PruneRight == PruneIInv => Prune!TypeOK /\ Prune!ElementsRight
<1> SUFFICES ASSUME PruneIInv PROVE Prune!TypeOK
  BY DEF PruneIInv
<1>1. PICK n \in Nat \ {0}, m \in Nat :
        /\ IsPruned(n, m) /\ PruneTypes(n, m)
        /\ PruneChosen(n) /\ PrunePlace(n, m, v11, v12)
  BY DEF PruneIInv
<1>2. v13 \in 0..Prune!count_indices
  BY <1>1, PrunedFacts DEF PruneTypes
<1>3. v14 \in 0..Prune!Cardinality(v6)
  <2>1. v13 \in Nat /\ v14 = Cardinality(ValuesBefore(v13))
    BY <1>1 DEF PruneTypes
  <2> QED
    BY <1>1, <2>1, ValuesGrow, PrunedFacts
<1>4. v11 \in 0..v8
  <2>1. PICK channel \in Nat : channel = v11
    BY <1>1 DEF PruneTypes
  <2>2. CASE v9 = << >>
    BY <1>1, <2>2 DEF PrunePlace, PruneChosen
  <2>3. CASE v9 # << >>
    <3>1. v8 = n /\ channel <= n
      BY <1>1, <2>1, <2>3 DEF PrunePlace, PruneChosen, PruneTypes
    <3> QED
      BY <2>1, <3>1
  <2> QED
    BY <2>2, <2>3
<1>5. v12 \in 0..PrunedTensors.max_elements
  <2>1. PICK count \in Nat, most \in Nat :
          count = v12 /\ most = PrunedTensors.max_elements /\ m <= most
    BY <1>1, PrunedAssumption DEF PruneTypes, IsPruned
  <2>2. CASE v9 = << >>
    BY <1>1, <2>1, <2>2 DEF PrunePlace
  <2>3. CASE v9 # << >>
    <3>1. count <= m
      BY <1>1, <2>1, <2>3 DEF PrunePlace
    <3> QED
      BY <2>1, <3>1
  <2> QED
    BY <2>2, <2>3
<1> QED
  BY <1>1, <1>2, <1>3, <1>4, <1>5 DEF Prune!TypeOK, PruneTypes

-----------------------------------------------------------------------------
(* The Huffman decoder: what is encoded. *)

\* What the first symbols are encoded as, up to n of them.
Encodes(f, c, s, n) == f = [j \in 0..n |-> IF j = 0 THEN <<>> ELSE f[j - 1] \o c.code[s[j]]]

LEMMA EncodingExists ==
  ASSUME NEW c, NEW s, NEW n \in Nat
  PROVE  \E f : Encodes(f, c, s, n)
<1> DEFINE Eq(f, m) == f = [j \in 0..m |-> IF j = 0 THEN <<>> ELSE f[j - 1] \o c.code[s[j]]]
           T == {m \in Nat : \E f : Eq(f, m)}
<1>1. 0 \in T
  <2>1. Eq([j \in 0..0 |-> <<>>], 0)
    OBVIOUS
  <2> QED
    BY <2>1
<1>2. ASSUME NEW m \in Nat, m \in T PROVE m + 1 \in T
  <2>1. PICK f : Eq(f, m)
    BY <1>2
  <2>5. PICK y : y = f[m] \o c.code[s[m + 1]]
    OBVIOUS
  <2> DEFINE g == [j \in 0..(m + 1) |-> IF j = m + 1 THEN y ELSE f[j]]
             h == [j \in 0..(m + 1) |-> IF j = 0 THEN <<>> ELSE g[j - 1] \o c.code[s[j]]]
  <2>2. ASSUME NEW j \in 0..(m + 1) PROVE g[j] = h[j]
    <3>1. CASE j = m + 1
      <4>1. j - 1 = m /\ j # 0 /\ m \in 0..(m + 1) /\ m # m + 1
        BY <3>1
      <4>2. g[m] = f[m] /\ g[m + 1] = y
        BY ONLY <4>1, m \in Nat, SMTT(60)
      <4>3. h[m + 1] = y
        BY <2>5, <3>1, <4>1, <4>2
      <4> QED
        BY <3>1, <4>2, <4>3
    <3>2. CASE j # m + 1 /\ j # 0
      <4>1. j \in 0..m /\ j - 1 \in 0..(m + 1) /\ j - 1 # m + 1
        BY <3>2
      <4>2. f[j] = f[j - 1] \o c.code[s[j]]
        BY <4>1, <2>1, <3>2
      <4>3. g[j] = f[j] /\ g[j - 1] = f[j - 1]
        BY <4>1, <3>2
      <4> QED
        BY <3>2, <4>2, <4>3
    <3>3. CASE j = 0
      <4>1. f[0] = <<>>
        BY <2>1
      <4> QED
        BY <3>3, <4>1
    <3> QED
      BY <3>1, <3>2, <3>3
  <2>3. g = h
    BY <2>2
  <2>4. Eq(g, m + 1)
    BY <2>3
  <2> HIDE DEF g, Eq
  <2> QED
    BY <2>4
<1> HIDE DEF Eq
<1>3. Nat \subseteq T
  BY <1>1, <1>2, Counting
<1>4. \E f : Eq(f, n)
  BY <1>3
<1> QED
  BY <1>4 DEF Eq, Encodes

\* Symbols that the code has, each with its bits.
Spelled(c, s) ==
  s \in Seq(DOMAIN c.code) /\ \A x \in DOMAIN c.code : c.code[x] \in Seq({0, 1})

LEMMA EncodingIs ==
  ASSUME NEW c, NEW s, Spelled(c, s)
  PROVE  /\ Huffman!Encoding(c, s)[0] = <<>>
         /\ \A j \in 1..Len(s) :
              Huffman!Encoding(c, s)[j] = Huffman!Encoding(c, s)[j - 1] \o c.code[s[j]]
<1>1. PICK n \in Nat : n = Len(s)
  BY DEF Spelled
<1>2. PICK f : Encodes(f, c, s, n)
  BY EncodingExists
<1>3. PICK z : z = Huffman!Encoding(c, s)
  BY SMTT(60)
<1>4. z = [j \in 0..n |-> IF j = 0 THEN <<>> ELSE z[j - 1] \o c.code[s[j]]]
  BY <1>1, <1>2, <1>3 DEF Huffman!Encoding, Encodes
<1>5. z[0] = <<>>
  BY <1>4, SMTT(60)
<1>6. \A j \in 1..n : z[j] = z[j - 1] \o c.code[s[j]]
  <2>1. \A j \in 1..n : j \in 0..n /\ j # 0
    OBVIOUS
  <2> QED
    BY <1>4, <2>1
<1> QED
  BY <1>1, <1>3, <1>5, <1>6

BeginsWith(x, y) == Len(y) <= Len(x) /\ \A k \in 1..Len(y) : x[k] = y[k]

\* It consists of bits, and begins with what fewer symbols are encoded as.
LEMMA EncodingBegins ==
  ASSUME NEW c, NEW s, Spelled(c, s)
  PROVE  /\ \A j \in 0..Len(s) : Huffman!Encoding(c, s)[j] \in Seq({0, 1})
         /\ \A m \in 0..Len(s) : \A n \in 0..m :
              BeginsWith(Huffman!Encoding(c, s)[m], Huffman!Encoding(c, s)[n])
<1>1. PICK l \in Nat : l = Len(s)
  BY DEF Spelled
<1>2. PICK z : z = Huffman!Encoding(c, s)
  OBVIOUS
<1>3. z[0] = <<>> /\ \A j \in 1..l : z[j] = z[j - 1] \o c.code[s[j]]
  BY <1>1, <1>2, EncodingIs
<1>4. \A j \in 1..l : c.code[s[j]] \in Seq({0, 1})
  BY <1>1 DEF Spelled
<1>5. \A j \in 0..l : z[j] \in Seq({0, 1})
  <2> DEFINE P == {j \in Nat : j <= l => z[j] \in Seq({0, 1})}
  <2>1. 0 \in P
    <3>1. <<>> \in Seq({0, 1})
      OBVIOUS
    <3> QED
      BY <1>3, <3>1
  <2>2. ASSUME NEW m \in Nat, m \in P PROVE m + 1 \in P
    <3>1. SUFFICES ASSUME m + 1 <= l PROVE z[m + 1] \in Seq({0, 1})
      OBVIOUS
    <3>2. m <= l /\ m + 1 \in 1..l /\ (m + 1) - 1 = m
      BY <3>1
    <3>3. z[m] \in Seq({0, 1}) /\ z[m + 1] = z[m] \o c.code[s[m + 1]]
      BY <1>3, <2>2, <3>2
    <3> QED
      BY <1>4, <3>2, <3>3
  <2> HIDE DEF P
  <2>3. Nat \subseteq P
    BY <2>1, <2>2, Counting
  <2> QED
    BY <2>3 DEF P
<1>6. ASSUME NEW n \in 0..l PROVE \A m \in n..l : BeginsWith(z[m], z[n])
  <2> DEFINE P == {i \in Nat : n + i <= l => BeginsWith(z[n + i], z[n])}
  <2>1. 0 \in P
    <3>1. n + 0 = n /\ Len(z[n]) \in Nat
      BY <1>5
    <3> QED
      BY <3>1 DEF BeginsWith
  <2>2. ASSUME NEW i \in Nat, i \in P PROVE i + 1 \in P
    <3>1. SUFFICES ASSUME n + (i + 1) <= l PROVE BeginsWith(z[n + (i + 1)], z[n])
      BY DEF P
    <3>2. PICK m \in Nat : m = n + i
      OBVIOUS
    <3>3. n + i <= l
      BY <3>1
    <3>4. n + (i + 1) = m + 1 /\ m \in 0..l /\ m + 1 \in 1..l /\ (m + 1) - 1 = m
      BY <3>1, <3>2
    <3>5. PICK u, x, y, w : u = z[n] /\ x = z[m] /\ y = c.code[s[m + 1]] /\ w = z[m + 1]
      OBVIOUS
    <3>6. BeginsWith(z[m], z[n])
      BY <2>2, <3>2, <3>3
    <3>7. Len(u) <= Len(x) /\ \A k \in 1..Len(u) : x[k] = u[k]
      BY <3>5, <3>6 DEF BeginsWith
    <3>8. /\ u \in Seq({0, 1}) /\ x \in Seq({0, 1}) /\ y \in Seq({0, 1}) /\ w = x \o y
      BY <1>3, <1>4, <1>5, <3>4, <3>5
    <3>9. /\ Len(w) = Len(x) + Len(y)
          /\ \A k \in 1..Len(x) : w[k] = x[k]
      BY <3>8
    <3>10. Len(u) <= Len(w) /\ \A k \in 1..Len(u) : w[k] = u[k]
      <4>1. Len(u) \in Nat /\ Len(x) \in Nat /\ Len(y) \in Nat
        BY <3>8
      <4> QED
        BY <3>7, <3>9, <4>1
    <3> QED
      BY <3>4, <3>5, <3>10 DEF BeginsWith
  <2> HIDE DEF P
  <2>3. Nat \subseteq P
    BY <2>1, <2>2, Counting
  <2>4. ASSUME NEW m \in n..l PROVE BeginsWith(z[m], z[n])
    <3>1. m - n \in Nat /\ n + (m - n) = m /\ n + (m - n) <= l
      OBVIOUS
    <3>2. m - n \in P
      BY <2>3, <3>1
    <3>3. BeginsWith(z[n + (m - n)], z[n])
      BY <3>1, <3>2 DEF P
    <3> QED
      BY <3>1, <3>3
  <2> QED
    BY <2>4
<1>7. \A m \in 0..l : \A n \in 0..m : BeginsWith(z[m], z[n])
  <2>1. \A m \in 0..l : \A n \in 0..m : n \in 0..l /\ m \in n..l
    OBVIOUS
  <2> QED
    BY <1>6, <2>1
<1> QED
  BY <1>1, <1>2, <1>5, <1>7

-----------------------------------------------------------------------------
(* Its bits in memory.  code is v1, message v2, junk v3, remaining v4, buffer  *)
(* v5, head_next v6, head_hold v7, head_offset v8, last_used_bits v9 and       *)
(* table_offset v10.                                                          *)

LEMMA LengthTypes ==
  ASSUME NEW c, NEW s, Spelled(c, s), NEW n \in 0..Len(s)
  PROVE  /\ Length(c, s, n) \in Nat /\ Length(c, s, Len(s)) \in Nat
         /\ Length(c, s, n) <= Length(c, s, Len(s))
         /\ Length(c, s, 0) = 0
<1>1. Len(s) \in Nat /\ Len(s) \in 0..Len(s) /\ n \in 0..Len(s) /\ 0 \in 0..Len(s)
  BY DEF Spelled
<1>2. Huffman!Encoding(c, s)[n] \in Seq({0, 1}) /\ Huffman!Encoding(c, s)[Len(s)] \in Seq({0, 1})
  BY <1>1, EncodingBegins
<1>3. Huffman!Encoding(c, s)[0] = <<>>
  BY EncodingIs
<1>4. n \in 0..Len(s) /\ Len(s) \in 0..Len(s)
  BY <1>1
<1>5. BeginsWith(Huffman!Encoding(c, s)[Len(s)], Huffman!Encoding(c, s)[n])
  BY <1>4, EncodingBegins
<1> QED
  BY <1>2, <1>3, <1>5 DEF Length, BeginsWith

LEMMA BitTypes ==
  ASSUME NEW c, NEW s, Spelled(c, s), NEW junk \in {0, 1}, NEW first \in Nat, NEW n \in Nat
  PROVE  /\ BitsBehind(c, s, junk, first, n) \in [1..n -> {0, 1}]
         /\ BitsBehind(c, s, junk, first, n) \in Seq({0, 1})
         /\ Len(BitsBehind(c, s, junk, first, n)) = n
<1>1. PICK z : z = Huffman!Encoding(c, s)[Len(s)]
  OBVIOUS
<1>2. z \in Seq({0, 1}) /\ Length(c, s, Len(s)) = Len(z)
  BY <1>1, EncodingBegins DEF Spelled, Length
<1>3. ASSUME NEW k \in 1..n PROVE BitAt(c, s, junk, first + k) \in {0, 1}
  <2>1. first + k \in Nat /\ first + k >= 1
    OBVIOUS
  <2>2. first + k <= Len(z) => z[first + k] \in {0, 1}
    BY <1>2, <2>1
  <2> QED
    BY <1>1, <1>2, <2>2 DEF BitAt
<1>4. BitsBehind(c, s, junk, first, n) \in [1..n -> {0, 1}]
  BY <1>3 DEF BitsBehind
<1> QED
  BY <1>4

\* Behind the bits of the first symbols are those of the next one.
LEMMA SymbolBits ==
  ASSUME NEW c, NEW s, Spelled(c, s), NEW junk, NEW n \in 0..(Len(s) - 1)
  PROVE  /\ Length(c, s, n + 1) = Length(c, s, n) + Len(c.code[s[n + 1]])
         /\ \A k \in 1..Len(c.code[s[n + 1]]) :
              BitAt(c, s, junk, Length(c, s, n) + k) = c.code[s[n + 1]][k]
<1>1. Len(s) \in Nat /\ n \in Nat /\ n + 1 \in 1..Len(s) /\ n + 1 \in 0..Len(s)
      /\ n \in 0..Len(s) /\ (n + 1) - 1 = n /\ Len(s) \in 0..Len(s)
  BY DEF Spelled
<1>2. PICK x, y, w, z : /\ x = Huffman!Encoding(c, s)[n] /\ y = c.code[s[n + 1]]
                        /\ w = Huffman!Encoding(c, s)[n + 1]
                        /\ z = Huffman!Encoding(c, s)[Len(s)]
  OBVIOUS
<1>3. w = x \o y
  <2>1. \A j \in 1..Len(s) :
          Huffman!Encoding(c, s)[j] = Huffman!Encoding(c, s)[j - 1] \o c.code[s[j]]
    BY Spelled(c, s), EncodingIs, ZenonT(60)
  <2>2. Huffman!Encoding(c, s)[n + 1]
          = Huffman!Encoding(c, s)[(n + 1) - 1] \o c.code[s[n + 1]]
    BY <1>1, <2>1
  <2> QED
    BY <1>1, <1>2, <2>2
<1>4. x \in Seq({0, 1}) /\ y \in Seq({0, 1}) /\ z \in Seq({0, 1})
  <2>1. s[n + 1] \in DOMAIN c.code
    BY <1>1 DEF Spelled
  <2> QED
    BY <1>1, <1>2, <2>1, EncodingBegins DEF Spelled
<1>5. Len(w) <= Len(z) /\ \A k \in 1..Len(w) : z[k] = w[k]
  <2>1. n + 1 \in 0..Len(s) /\ Len(s) \in 0..Len(s)
    BY <1>1
  <2>2. BeginsWith(Huffman!Encoding(c, s)[Len(s)], Huffman!Encoding(c, s)[n + 1])
    BY <2>1, EncodingBegins
  <2> QED
    BY <1>2, <2>2 DEF BeginsWith
<1>6. /\ Len(w) = Len(x) + Len(y) /\ Len(x) \in Nat /\ Len(y) \in Nat /\ Len(z) \in Nat
      /\ \A k \in 1..Len(y) : w[Len(x) + k] = y[k]
  BY <1>3, <1>4
<1>7. Length(c, s, n) = Len(x) /\ Length(c, s, n + 1) = Len(w) /\ Length(c, s, Len(s)) = Len(z)
  BY <1>2 DEF Length
<1>8. ASSUME NEW k \in 1..Len(y) PROVE BitAt(c, s, junk, Len(x) + k) = y[k]
  <2>1. Len(x) + k \in 1..Len(w) /\ Len(x) + k <= Len(z)
    BY <1>5, <1>6
  <2>2. z[Len(x) + k] = y[k]
    BY <1>5, <1>6, <2>1
  <2> QED
    BY <1>2, <1>7, <2>1, <2>2 DEF BitAt
<1> QED
  BY <1>2, <1>6, <1>7, <1>8

\* Bits are read as a number.
Reads(f, x, n) == f = [j \in 0..n |-> IF j = 0 THEN 0 ELSE 2 * f[j - 1] + x[j]]

LEMMA ValueExists ==
  ASSUME NEW x, NEW n \in Nat
  PROVE  \E f : Reads(f, x, n)
<1> DEFINE Eq(f, m) == f = [j \in 0..m |-> IF j = 0 THEN 0 ELSE 2 * f[j - 1] + x[j]]
           T == {m \in Nat : \E f : Eq(f, m)}
<1>1. 0 \in T
  <2>1. Eq([j \in 0..0 |-> 0], 0)
    OBVIOUS
  <2> QED
    BY <2>1
<1>2. ASSUME NEW m \in Nat, m \in T PROVE m + 1 \in T
  <2>1. PICK f : Eq(f, m)
    BY <1>2
  <2>5. PICK y : y = 2 * f[m] + x[m + 1]
    OBVIOUS
  <2> DEFINE g == [j \in 0..(m + 1) |-> IF j = m + 1 THEN y ELSE f[j]]
             h == [j \in 0..(m + 1) |-> IF j = 0 THEN 0 ELSE 2 * g[j - 1] + x[j]]
  <2>2. ASSUME NEW j \in 0..(m + 1) PROVE g[j] = h[j]
    <3>1. CASE j = m + 1
      <4>1. j - 1 = m /\ j # 0 /\ m \in 0..(m + 1) /\ m # m + 1
        BY <3>1
      <4>2. g[m] = f[m] /\ g[m + 1] = y
        BY ONLY <4>1, m \in Nat
      <4>3. h[m + 1] = y
        BY <2>5, <3>1, <4>1, <4>2
      <4> QED
        BY <3>1, <4>2, <4>3
    <3>2. CASE j # m + 1 /\ j # 0
      <4>1. j \in 0..m /\ j - 1 \in 0..(m + 1) /\ j - 1 # m + 1
        BY <3>2
      <4>2. f[j] = 2 * f[j - 1] + x[j]
        BY <4>1, <2>1, <3>2
      <4>3. g[j] = f[j] /\ g[j - 1] = f[j - 1]
        BY <4>1, <3>2
      <4> QED
        BY <3>2, <4>2, <4>3
    <3>3. CASE j = 0
      <4>1. f[0] = 0
        BY <2>1
      <4> QED
        BY <3>3, <4>1
    <3> QED
      BY <3>1, <3>2, <3>3
  <2>3. g = h
    BY <2>2
  <2>4. Eq(g, m + 1)
    BY <2>3
  <2> HIDE DEF g, Eq
  <2> QED
    BY <2>4
<1> HIDE DEF Eq
<1>3. Nat \subseteq T
  BY <1>1, <1>2, Counting
<1>4. \E f : Eq(f, n)
  BY <1>3
<1> QED
  BY <1>4 DEF Eq, Reads

LEMMA ValueType ==
  ASSUME NEW x \in Seq({0, 1})
  PROVE  Huffman!Value(x) \in Nat
<1>1. PICK n \in Nat : n = Len(x)
  OBVIOUS
<1>2. PICK f : Reads(f, x, n)
  BY ValueExists
<1> DEFINE z == CHOOSE g : g = [j \in 0..n |-> IF j = 0 THEN 0 ELSE 2 * g[j - 1] + x[j]]
<1>3. z = [j \in 0..n |-> IF j = 0 THEN 0 ELSE 2 * z[j - 1] + x[j]]
  BY <1>2 DEF Reads
<1>4. Huffman!Value(x) = z[n]
  BY <1>1 DEF Huffman!Value
<1> HIDE DEF z
<1> DEFINE P == {j \in Nat : j <= n => z[j] \in Nat}
<1>5. 0 \in P
  BY <1>3
<1>6. ASSUME NEW m \in Nat, m \in P PROVE m + 1 \in P
  <2>1. SUFFICES ASSUME m + 1 <= n PROVE z[m + 1] \in Nat
    OBVIOUS
  <2>2. m <= n /\ m + 1 \in 0..n /\ m + 1 # 0 /\ (m + 1) - 1 = m /\ m + 1 \in 1..Len(x)
    BY <1>1, <2>1
  <2>3. z[m + 1] = 2 * z[m] + x[m + 1]
    BY <1>3, <2>2
  <2>4. z[m] \in Nat /\ x[m + 1] \in {0, 1}
    BY <1>6, <2>2
  <2> QED
    BY <2>3, <2>4
<1> HIDE DEF P
<1>7. Nat \subseteq P
  BY <1>5, <1>6, Counting
<1>8. z[n] \in Nat
  BY <1>7 DEF P
<1> QED
  BY <1>4, <1>8

-----------------------------------------------------------------------------
(* The word that is held. *)

\* What is taken are the bits behind those that were, from one word or from two.
LEMMA NextBitsRight ==
  ASSUME WordTypes, Passed(HuffmanCodes.word_bits, v6, v8) \in Nat,
         NEW count \in 1..HuffmanCodes.word_bits
  PROVE  Huffman!NextBits(count)
           = Huffman!Value(BitsBehind(v1, v2, v3, Passed(HuffmanCodes.word_bits, v6, v8), count))
<1>1. PICK b \in Nat \ {0} : b = HuffmanCodes.word_bits
  BY HuffmanAssumption
<1>2. PICK h \in Nat, o \in 0..b : h = v6 /\ o = v8 /\ v7 = h
  BY <1>1 DEF WordTypes
<1>3. PICK n \in 1..b : n = count
  BY <1>1
<1>4. PICK p \in Int : p = b * h
  OBVIOUS
<1>5. (h - 1) * b = p - b /\ ((h + 1) - 1) * b = p /\ p - o \in Int
  <2>1. (h - 1) * b = b * h - b
    BY <1>1, <1>2
  <2>2. ((h + 1) - 1) * b = b * h
    BY <1>1, <1>2
  <2> QED
    BY <1>4, <2>1, <2>2
<1>q. PICK q \in Int : q = (h - 1) * b /\ q = p - b
  BY <1>5
<1>6. \A k : Huffman!Bit(k) = BitAt(v1, v2, v3, k)
  BY DEF Huffman!Bit, Huffman!Encoded, BitAt, Length
<1>7. Passed(HuffmanCodes.word_bits, v6, v8) = p - o
  BY <1>1, <1>2, <1>4 DEF Passed
<1> DEFINE Bits(first, m) == [k \in 1..m |-> BitAt(v1, v2, v3, first + k)]
<1>8. \A m \in Nat : Huffman!Bits(v7, b - o, m) = Bits(p - o, m)
  <2>1. ASSUME NEW m \in Nat, NEW k \in 1..m
        PROVE  q + (b - o) + k = (p - o) + k
    BY <1>q
  <2>2. ASSUME NEW m \in Nat
        PROVE  Huffman!Bits(v7, b - o, m) = [k \in 1..m |-> BitAt(v1, v2, v3, q + (b - o) + k)]
    BY <1>1, <1>2, <1>6, <1>q DEF Huffman!Bits
  <2>3. ASSUME NEW m \in Nat
        PROVE  [k \in 1..m |-> BitAt(v1, v2, v3, q + (b - o) + k)] = Bits(p - o, m)
    BY <2>1
  <2> QED
    BY <2>2, <2>3
<1>9. \A m \in Nat : Huffman!Bits(v6 + 1, 0, m) = Bits(p, m)
  <2>1. ASSUME NEW m \in Nat, NEW k \in 1..m
        PROVE  ((h + 1) - 1) * b + 0 + k = p + k
    BY <1>5
  <2>2. ASSUME NEW m \in Nat
        PROVE  Huffman!Bits(v6 + 1, 0, m)
                 = [k \in 1..m |-> BitAt(v1, v2, v3, ((h + 1) - 1) * b + 0 + k)]
    BY <1>1, <1>2, <1>6 DEF Huffman!Bits
  <2>3. ASSUME NEW m \in Nat
        PROVE  [k \in 1..m |-> BitAt(v1, v2, v3, ((h + 1) - 1) * b + 0 + k)] = Bits(p, m)
    BY <2>1
  <2> QED
    BY <2>2, <2>3
<1>10. CASE n > o
  <2>1. n - o \in Nat /\ o \in Nat
    BY <1>10
  <2>2. Bits(p - o, o) \o Bits(p, n - o) = Bits(p - o, n)
    <3>1. ASSUME NEW k \in 1..n
          PROVE  (Bits(p - o, o) \o Bits(p, n - o))[k] = Bits(p - o, n)[k]
      <4>1. CASE k <= o
        <5>1. k \in 1..o
          BY <4>1
        <5> QED
          BY <2>1, <5>1
      <4>2. CASE k > o
        <5>1. k - o \in 1..(n - o) /\ p + (k - o) = (p - o) + k
          BY <4>2
        <5> QED
          BY <2>1, <4>2, <5>1
      <4> QED
        BY <4>1, <4>2
    <3> QED
      BY <2>1, <3>1
  <2>3. Huffman!NextBits(n) = Huffman!Value(Huffman!Bits(v7, b - o, o) \o Huffman!Bits(v6 + 1, 0, n - o))
    BY <1>1, <1>2, <1>10 DEF Huffman!NextBits
  <2>4. Huffman!NextBits(n) = Huffman!Value(Bits(p - o, n))
    BY <1>8, <1>9, <2>1, <2>2, <2>3
  <2> QED
    BY <1>3, <1>7, <2>4 DEF BitsBehind
<1>11. CASE ~(n > o)
  <2>1. Huffman!NextBits(n) = Huffman!Value(Huffman!Bits(v7, b - o, n))
    BY <1>1, <1>2, <1>11 DEF Huffman!NextBits
  <2>2. Huffman!NextBits(n) = Huffman!Value(Bits(p - o, n))
    BY <1>8, <2>1
  <2> QED
    BY <1>3, <1>7, <2>2 DEF BitsBehind
<1> QED
  BY <1>10, <1>11

\* Words are fetched no further than one behind the last that is needed.
LEMMA GetNextBitsKeeps ==
  ASSUME WordTypes, NEW count \in 1..HuffmanCodes.word_bits, Huffman!GetNextBits(count),
         NEW l \in Nat, HuffmanCodes.word_bits * v6 < l + 2 * HuffmanCodes.word_bits,
         Passed(HuffmanCodes.word_bits, v6, v8) < l
  PROVE  /\ WordTypes'
         /\ Passed(HuffmanCodes.word_bits, v6', v8')
              = Passed(HuffmanCodes.word_bits, v6, v8) + count
         /\ HuffmanCodes.word_bits * v6' < l + 2 * HuffmanCodes.word_bits
<1>1. PICK b \in Nat \ {0} : b = HuffmanCodes.word_bits
  BY HuffmanAssumption
<1>2. PICK h \in Nat, o \in 0..b : h = v6 /\ o = v8 /\ v7 = h
  BY <1>1 DEF WordTypes
<1>3. PICK n \in 1..b : n = count
  BY <1>1
<1>4. PICK p \in Int : p = b * h
  OBVIOUS
<1>5. p < l + 2 * b /\ p - o < l
  BY <1>1, <1>2, <1>4 DEF Passed
<1>6. CASE n > o
  <2>1. v6' = h + 1 /\ v7' = h + 1 /\ v8' = b - (n - o)
    BY <1>1, <1>2, <1>3, <1>6 DEF Huffman!GetNextBits
  <2>2. b - (n - o) \in 0..b /\ h + 1 \in Nat
    BY <1>6
  <2>3. b * (h + 1) = p + b
    BY <1>4
  <2>4. (p + b) - (b - (n - o)) = (p - o) + n /\ p + b < l + 2 * b
    BY <1>5, <1>6
  <2>5. Passed(b, v6', v8') = Passed(b, v6, v8) + n /\ b * v6' < l + 2 * b
    BY <1>2, <1>4, <2>1, <2>3, <2>4 DEF Passed
  <2> QED
    BY <1>1, <1>3, <2>1, <2>2, <2>5 DEF WordTypes
<1>7. CASE ~(n > o)
  <2>1. v6' = h /\ v7' = h /\ v8' = o - n
    BY <1>1, <1>2, <1>3, <1>7 DEF Huffman!GetNextBits
  <2>2. o - n \in 0..b
    BY <1>7
  <2>3. p - (o - n) = (p - o) + n
    OBVIOUS
  <2>4. Passed(b, v6', v8') = Passed(b, v6, v8) + n /\ b * v6' < l + 2 * b
    BY <1>2, <1>4, <1>5, <2>1, <2>3 DEF Passed
  <2> QED
    BY <1>1, <1>3, <2>1, <2>2, <2>4 DEF WordTypes
<1> QED
  BY <1>6, <1>7

\* Bits that were taken can be put back, also those of the word before.
LEMMA PutBackBitsKeeps ==
  ASSUME WordTypes, NEW count \in 1..HuffmanCodes.word_bits, Huffman!PutBackBits(count),
         NEW l \in Nat, HuffmanCodes.word_bits * v6 < l + 2 * HuffmanCodes.word_bits,
         Passed(HuffmanCodes.word_bits, v6, v8) >= count
  PROVE  /\ WordTypes'
         /\ Passed(HuffmanCodes.word_bits, v6', v8')
              = Passed(HuffmanCodes.word_bits, v6, v8) - count
         /\ HuffmanCodes.word_bits * v6' < l + 2 * HuffmanCodes.word_bits
<1>1. PICK b \in Nat \ {0} : b = HuffmanCodes.word_bits
  BY HuffmanAssumption
<1>2. PICK h \in Nat, o \in 0..b : h = v6 /\ o = v8 /\ v7 = h
  BY <1>1 DEF WordTypes
<1>3. PICK n \in 1..b : n = count
  BY <1>1
<1>4. PICK p \in Int : p = b * h
  OBVIOUS
<1>5. p < l + 2 * b /\ p - o >= n
  BY <1>1, <1>2, <1>3, <1>4 DEF Passed
<1>6. CASE o + n > b
  <2>1. v6' = h - 1 /\ v7' = h - 1 /\ v8' = o + n - b
    BY <1>1, <1>2, <1>3, <1>6 DEF Huffman!PutBackBits
  <2>2. h # 0
    <3>1. h = 0 => p = 0
      BY <1>4
    <3> QED
      BY <1>5, <3>1
  <2>3. o + n - b \in 0..b /\ h - 1 \in Nat
    BY <1>6, <2>2
  <2>4. b * (h - 1) = p - b
    BY <1>4
  <2>5. (p - b) - (o + n - b) = (p - o) - n /\ p - b < l + 2 * b
    BY <1>5
  <2>6. Passed(b, v6', v8') = Passed(b, v6, v8) - n /\ b * v6' < l + 2 * b
    BY <1>2, <1>4, <2>1, <2>4, <2>5 DEF Passed
  <2> QED
    BY <1>1, <1>3, <2>1, <2>3, <2>6 DEF WordTypes
<1>7. CASE ~(o + n > b)
  <2>1. v6' = h /\ v7' = h /\ v8' = o + n
    BY <1>1, <1>2, <1>3, <1>7 DEF Huffman!PutBackBits
  <2>2. o + n \in 0..b
    BY <1>7
  <2>3. p - (o + n) = (p - o) - n
    OBVIOUS
  <2>4. Passed(b, v6', v8') = Passed(b, v6, v8) - n /\ b * v6' < l + 2 * b
    BY <1>2, <1>4, <1>5, <2>1, <2>3 DEF Passed
  <2> QED
    BY <1>1, <1>3, <2>1, <2>2, <2>4 DEF WordTypes
<1> QED
  BY <1>6, <1>7

-----------------------------------------------------------------------------
(* The walk through the tables. *)

\* What WellFormed says of a code.
LEMMA CodeFacts ==
  ASSUME NEW c \in HuffmanCodes.codes
  PROVE  /\ DOMAIN c.table \subseteq Nat /\ DOMAIN c.tables \subseteq Nat
         /\ \A t \in DOMAIN c.tables :
              /\ c.tables[t].prefix \in Seq({0, 1})
              /\ c.tables[t].bits \in 1..HuffmanCodes.word_bits
         /\ 0 \in DOMAIN c.tables /\ c.tables[0] = [prefix |-> <<>>, bits |-> c.initial]
         /\ \A s \in DOMAIN c.code : c.code[s] \in Seq({0, 1}) /\ c.code[s] # <<>>
BY HuffmanAssumption DEF Huffman!WellFormed

LEMMA EntryFacts ==
  ASSUME NEW c \in HuffmanCodes.codes, NEW s \in DOMAIN c.code, NEW t \in DOMAIN c.tables,
         NEW x \in [1..c.tables[t].bits -> {0, 1}],
         Len(c.tables[t].prefix) < Len(c.code[s]),
         Huffman!Agree(c.tables[t].prefix \o x, c.code[s])
  PROVE  LET k == t + Huffman!Value(x)
             e == c.table[k]
         IN  /\ k \in DOMAIN c.table
             /\ IF e.found
                THEN /\ e.symbol = s /\ e.bits \in 1..Len(x)
                     /\ Len(c.code[s]) = Len(c.tables[t].prefix) + e.bits
                ELSE /\ Len(c.tables[t].prefix) + Len(x) < Len(c.code[s])
                     /\ k + e.next \in DOMAIN c.tables
                     /\ c.tables[k + e.next] = [prefix |-> c.tables[t].prefix \o x, bits |-> e.bits]
<1>1. Huffman!WellFormed(c)
  BY HuffmanAssumption
<1> QED
  BY <1>1 DEF Huffman!WellFormed

LEMMA HuffmanFacts ==
  ASSUME HuffmanTypes
  PROVE  /\ Spelled(v1, v2) /\ Len(v2) \in Nat /\ Len(v5) \in 0..Len(v2)
         /\ Length(v1, v2, Len(v5)) \in Nat /\ Length(v1, v2, Len(v2)) \in Nat
         /\ Length(v1, v2, Len(v5)) <= Length(v1, v2, Len(v2))
         /\ v4 > 0 => /\ Len(v5) \in 0..(Len(v2) - 1) /\ v2[Len(v5) + 1] \in DOMAIN v1.code
                      /\ Length(v1, v2, Len(v5) + 1) <= Length(v1, v2, Len(v2))
<1>1. Spelled(v1, v2)
  BY CodeFacts DEF HuffmanTypes, Spelled
<1>2. Len(v2) \in Nat /\ Len(v5) \in Nat /\ v4 \in Nat /\ Len(v5) + v4 = Len(v2)
  BY DEF HuffmanTypes
<1>3. Len(v5) \in 0..Len(v2)
  BY <1>2
<1>4. ASSUME v4 > 0
      PROVE  /\ Len(v5) \in 0..(Len(v2) - 1) /\ v2[Len(v5) + 1] \in DOMAIN v1.code
             /\ Len(v5) + 1 \in 0..Len(v2)
  <2>1. Len(v5) + 1 \in 1..Len(v2) /\ Len(v5) \in 0..(Len(v2) - 1) /\ Len(v5) + 1 \in 0..Len(v2)
    BY <1>2, <1>4
  <2>2. v2 \in Seq(DOMAIN v1.code)
    BY DEF HuffmanTypes
  <2> QED
    BY <2>1, <2>2
<1> QED
  BY <1>1, <1>2, <1>3, <1>4, LengthTypes

LEMMA HuffmanStarts == Huffman!Init => HuffmanIInv
<1> SUFFICES ASSUME Huffman!Init PROVE HuffmanIInv
  OBVIOUS
<1>1. /\ v1 \in HuffmanCodes.codes /\ v3 \in {0, 1} /\ v2 \in Huffman!BoundedSeq(DOMAIN v1.code, HuffmanCodes.max_symbols)
      /\ v4 = Len(v2) /\ v5 = <<>> /\ v9 = 0 /\ v10 = -1
      /\ LET first == IF v2 = <<>> THEN 0 ELSE 1
         IN v6 = first /\ v7 = first /\ v8 = first * HuffmanCodes.word_bits
  BY DEF Huffman!Init
<1>2. v2 \in Seq(DOMAIN v1.code)
  BY <1>1 DEF Huffman!BoundedSeq, Huffman!SeqOf
<1>3. PICK b \in Nat \ {0} : b = HuffmanCodes.word_bits
  BY HuffmanAssumption
<1>4. /\ v6 \in 0..1 /\ v7 = v6 /\ v8 = v6 * b /\ (v6 = 0 <=> v2 = <<>>)
  BY <1>1, <1>3
<1>5. v8 \in 0..b /\ v6 \in Nat /\ b * v6 - v8 = 0 /\ b * v6 < 2 * b
  <2>1. CASE v6 = 0
    BY <1>4, <2>1
  <2>2. CASE v6 = 1
    BY <1>4, <2>2
  <2> QED
    BY <1>4, <2>1, <2>2
<1>6. HuffmanTypes
  <2>1. v5 \in Seq(DOMAIN v1.code) /\ Len(v5) = 0 /\ Len(v2) \in Nat
    BY <1>1, <1>2
  <2> QED
    BY <1>1, <1>2, <1>3, <1>4, <1>5, <2>1 DEF HuffmanTypes, WordTypes
<1>7. PICK l \in Nat : l = Length(v1, v2, Len(v2))
  BY <1>6, HuffmanFacts
<1>8. Length(v1, v2, Len(v5)) = 0
  <2>1. Len(v5) = 0 /\ Spelled(v1, v2) /\ 0 \in 0..Len(v2)
    BY <1>1, <1>6, HuffmanFacts
  <2> QED
    BY <2>1, LengthTypes
<1>9. b * v6 < l + 2 * b
  BY <1>4, <1>5
<1> QED
  BY <1>1, <1>3, <1>5, <1>6, <1>7, <1>8, <1>9 DEF HuffmanIInv, Passed

\* The code y that is being read begins with the bits that lead to the present table
\* and goes on with those of x that the present entry is for.
Walking(lead, x, y, l) ==
  /\ y = v1.code[v2[Len(v5) + 1]] /\ l = Length(v1, v2, Len(v5))
  /\ Len(lead) < Len(y) /\ Huffman!Agree(lead \o x, y)
  /\ Len(x) = v9 /\ v9 \in 1..HuffmanCodes.word_bits
  /\ Length(v1, v2, Len(v5) + 1) = l + Len(y)
  /\ Passed(HuffmanCodes.word_bits, v6, v8) = l + Len(lead) + Len(x)
  /\ v10 \in DOMAIN v1.table
  /\ IF Huffman!Entry.found
     THEN /\ Huffman!Entry.symbol = v2[Len(v5) + 1] /\ Huffman!Entry.bits \in 1..Len(x)
          /\ Len(y) = Len(lead) + Huffman!Entry.bits
     ELSE /\ Len(lead) + Len(x) < Len(y)
          /\ v10 + Huffman!Entry.next \in DOMAIN v1.tables
          /\ v1.tables[v10 + Huffman!Entry.next]
               = [prefix |-> lead \o x, bits |-> Huffman!Entry.bits]

LEMMA WalkFacts ==
  ASSUME HuffmanTypes, v4 > 0, NEW t \in Nat, InTable(t)
  PROVE  \E lead, x, y \in Seq({0, 1}), l \in Nat : Walking(lead, x, y, l)
<1>1. PICK n, s : n = Len(v5) /\ s = v2[n + 1]
  OBVIOUS
<1>2. /\ v1 \in HuffmanCodes.codes /\ v3 \in {0, 1} /\ Spelled(v1, v2)
      /\ n \in 0..(Len(v2) - 1) /\ s \in DOMAIN v1.code /\ Length(v1, v2, n) \in Nat
  BY <1>1, HuffmanFacts DEF HuffmanTypes
<1>3. PICK lead, y, l, w : /\ lead = v1.tables[t].prefix /\ y = v1.code[s]
                           /\ l = Length(v1, v2, n) /\ w = v9
  OBVIOUS
<1>4. PICK x : x = BitsBehind(v1, v2, v3, l + Len(lead), w)
  OBVIOUS
<1>5. /\ t \in DOMAIN v1.tables /\ Leads(lead, y) /\ w = v1.tables[t].bits
      /\ Passed(HuffmanCodes.word_bits, v6, v8) = (l + Len(lead)) + w
      /\ v10 = t + Huffman!Value(x)
  BY <1>1, <1>3, <1>4 DEF InTable
<1>6. /\ lead \in Seq({0, 1}) /\ y \in Seq({0, 1}) /\ l \in Nat
      /\ w \in 1..HuffmanCodes.word_bits /\ w \in Nat /\ Len(lead) \in Nat
  <2>1. HuffmanCodes.word_bits \in Nat
    BY HuffmanAssumption
  <2>2. w \in 1..HuffmanCodes.word_bits /\ lead \in Seq({0, 1}) /\ y \in Seq({0, 1})
    BY <1>2, <1>3, <1>5, CodeFacts
  <2> QED
    BY <1>2, <1>3, <2>1, <2>2
<1>7. l + Len(lead) \in Nat
  BY <1>6
<1>8. x \in [1..w -> {0, 1}] /\ x \in Seq({0, 1}) /\ Len(x) = w
  <2>1. PICK f \in Nat : f = l + Len(lead)
    BY <1>7
  <2>2. x = BitsBehind(v1, v2, v3, f, w)
    BY <1>4, <2>1
  <2>4. Spelled(v1, v2) /\ v3 \in {0, 1} /\ w \in Nat
    BY <1>2, <1>6
  <2>3. /\ BitsBehind(v1, v2, v3, f, w) \in [1..w -> {0, 1}]
        /\ BitsBehind(v1, v2, v3, f, w) \in Seq({0, 1})
        /\ Len(BitsBehind(v1, v2, v3, f, w)) = w
    BY ONLY <2>4, f \in Nat, BitTypes
  <2> QED
    BY <2>2, <2>3
<1>9. /\ Length(v1, v2, n + 1) = l + Len(y)
      /\ \A k \in 1..Len(y) : BitAt(v1, v2, v3, l + k) = y[k]
  BY <1>1, <1>2, <1>3, SymbolBits
<1>10. \A k \in 1..w : x[k] = BitAt(v1, v2, v3, (l + Len(lead)) + k)
  BY <1>4 DEF BitsBehind
<1>11. Len(lead) < Len(y) /\ \A k \in DOMAIN lead : lead[k] = y[k]
  BY <1>5 DEF Leads
<1>12. ASSUME NEW k \in DOMAIN (lead \o x) \cap DOMAIN y PROVE (lead \o x)[k] = y[k]
  <2>1. PICK a \in Nat : a = Len(lead)
    BY <1>6
  <2>2. k \in 1..(a + w) /\ k \in 1..Len(y) /\ DOMAIN lead = 1..a /\ Len(y) \in Nat
    BY <1>6, <1>8, <2>1
  <2>3. CASE k <= a
    <3>1. k \in 1..a
      BY <2>2, <2>3
    <3> QED
      BY <1>6, <1>8, <1>11, <2>1, <2>2, <3>1
  <2>4. CASE k > a
    <3>1. k - a \in 1..w /\ (l + a) + (k - a) = l + k
      BY <1>6, <2>2, <2>4
    <3>2. (lead \o x)[k] = x[k - a]
      BY <1>6, <1>8, <2>1, <2>2, <2>4
    <3>3. x[k - a] = BitAt(v1, v2, v3, l + k)
      BY <1>10, <2>1, <3>1
    <3> QED
      BY <1>9, <2>2, <3>2, <3>3
  <2> QED
    BY <2>2, <2>3, <2>4
<1>13. Huffman!Agree(lead \o x, y)
  BY <1>12 DEF Huffman!Agree
<1>14. PICK e : e = Huffman!Entry
  OBVIOUS
<1>15. e = v1.table[v10]
  BY <1>14 DEF Huffman!Entry
<1>16. /\ v10 \in DOMAIN v1.table
       /\ IF e.found
          THEN /\ e.symbol = s /\ e.bits \in 1..Len(x)
               /\ Len(y) = Len(lead) + e.bits
          ELSE /\ Len(lead) + Len(x) < Len(y)
               /\ v10 + e.next \in DOMAIN v1.tables
               /\ v1.tables[v10 + e.next] = [prefix |-> lead \o x, bits |-> e.bits]
  <2>1. x \in [1..v1.tables[t].bits -> {0, 1}]
    BY <1>5, <1>8
  <2>2. Len(v1.tables[t].prefix) < Len(v1.code[s]) /\ Huffman!Agree(v1.tables[t].prefix \o x, v1.code[s])
    BY <1>3, <1>11, <1>13
  <2> QED
    BY <1>2, <1>3, <1>5, <1>15, <2>1, <2>2, EntryFacts
<1>17. Passed(HuffmanCodes.word_bits, v6, v8) = l + Len(lead) + Len(x)
  BY <1>5, <1>8
<1>18. Walking(lead, x, y, l)
  BY <1>1, <1>3, <1>6, <1>8, <1>9, <1>11, <1>13, <1>14, <1>16, <1>17 DEF Walking
<1> QED
  BY <1>6, <1>8, <1>18

LEMMA HuffmanRight ==
  ASSUME HuffmanIInv
  PROVE  /\ Huffman!TypeOK /\ Huffman!DecodesMessage
         /\ Huffman!HoldsLastWord /\ Huffman!OneWordBeyond
<1>1. HuffmanTypes
  BY DEF HuffmanIInv
<1>2. PICK b \in Nat \ {0} : b = HuffmanCodes.word_bits
  BY HuffmanAssumption
<1>3. v10 = -1 \/ v10 \in DOMAIN v1.table
  <2>1. SUFFICES ASSUME v10 # -1 PROVE v10 \in DOMAIN v1.table
    OBVIOUS
  <2>2. PICK t \in Nat : InTable(t)
    BY <2>1 DEF HuffmanIInv
  <2>3. v4 > 0
    BY <2>1 DEF HuffmanIInv
  <2> QED
    BY <1>1, <2>2, <2>3, WalkFacts DEF Walking
<1>4. Huffman!TypeOK
  BY <1>1, <1>2, <1>3 DEF HuffmanTypes, WordTypes, Huffman!TypeOK
<1>5. Huffman!HoldsLastWord
  BY <1>1 DEF HuffmanTypes, WordTypes, Huffman!HoldsLastWord
<1>6. Huffman!IsPrefix(v5, v2)
  <2>1. PICK n \in Nat, m \in Nat : n = Len(v5) /\ m = Len(v2)
    BY <1>1 DEF HuffmanTypes
  <2>2. n <= m
    BY <1>1, <2>1, HuffmanFacts
  <2>3. \A k \in 1..n : v5[k] = v2[k]
    BY <1>1, <2>1 DEF HuffmanTypes
  <2>4. v5 \in Seq(DOMAIN v1.code) /\ v2 \in Seq(DOMAIN v1.code)
    BY <1>1 DEF HuffmanTypes
  <2>5. SubSeq(v5, 1, n) = SubSeq(v2, 1, n)
    <3>1. SubSeq(v5, 1, n) = [k \in 1..n |-> v5[k]] /\ SubSeq(v2, 1, n) = [k \in 1..n |-> v2[k]]
      BY <2>1, <2>2, <2>4
    <3> QED
      BY <2>3, <3>1
  <2> QED
    BY <2>1, <2>2, <2>5 DEF Huffman!IsPrefix
<1>7. Huffman!DecodesMessage
  <2>1. v10 = -1 /\ v2 # <<>> =>
          HuffmanCodes.word_bits * v6 - v8 = Len(Huffman!Encoded(Len(v5)))
    BY DEF HuffmanIInv, Passed, Length, Huffman!Encoded
  <2> QED
    BY <1>6, <2>1 DEF Huffman!DecodesMessage
<1>8. Huffman!OneWordBeyond
  <2>1. PICK l \in Nat, h \in Nat : l = Length(v1, v2, Len(v2)) /\ h = v6
    BY <1>1, HuffmanFacts DEF HuffmanTypes, WordTypes
  <2>2. b * h < l + 2 * b
    BY <1>2, <2>1 DEF HuffmanIInv
  <2>3. PICK q \in Int, r \in 0..(b - 1) : q = (l + b - 1) \div b /\ l + b - 1 = b * q + r
    OBVIOUS
  <2>4. h <= q + 1
    <3>1. SUFFICES ASSUME h >= q + 2 PROVE FALSE
      OBVIOUS
    <3>2. PICK d \in Nat : d = h - q - 2
      BY <3>1
    <3>3. b * h = b * q + 2 * b + b * d
      BY <3>2
    <3>4. b * d >= 0 /\ b * d \in Int /\ b * q \in Int /\ b * h \in Int
      OBVIOUS
    <3> QED
      BY <2>2, <2>3, <3>3, <3>4
  <2> QED
    BY <1>2, <2>1, <2>3, <2>4 DEF Huffman!OneWordBeyond, Huffman!Words, Huffman!Encoded, Length
<1> QED
  BY <1>4, <1>5, <1>7, <1>8

LEMMA StartSymbolKeeps ==
  ASSUME HuffmanIInv, Huffman!StartSymbol
  PROVE  HuffmanIInv'
<1>1. /\ v4 > 0 /\ v10 = -1 /\ v9' = v1.initial /\ v10' = Huffman!NextBits(v1.initial)
      /\ Huffman!GetNextBits(v1.initial) /\ UNCHANGED <<v1, v2, v3, v4, v5>>
  BY DEF Huffman!StartSymbol
<1>2. HuffmanTypes
  BY DEF HuffmanIInv
<1>3. PICK n, l, y, w : /\ n = Len(v5) /\ l = Length(v1, v2, n) /\ y = v1.code[v2[n + 1]]
                        /\ w = v1.initial
  OBVIOUS
<1>4. /\ Spelled(v1, v2) /\ n \in 0..(Len(v2) - 1) /\ v2[n + 1] \in DOMAIN v1.code
      /\ l \in Nat /\ Length(v1, v2, Len(v2)) \in Nat
      /\ Length(v1, v2, n + 1) <= Length(v1, v2, Len(v2)) /\ Len(v2) \in Nat
  BY <1>1, <1>2, <1>3, HuffmanFacts
<1>5. /\ y \in Seq({0, 1}) /\ y # <<>> /\ 0 \in DOMAIN v1.tables
      /\ v1.tables[0] = [prefix |-> <<>>, bits |-> w] /\ w \in 1..HuffmanCodes.word_bits
  <2>1. v1 \in HuffmanCodes.codes
    BY <1>2 DEF HuffmanTypes
  <2>2. /\ y \in Seq({0, 1}) /\ y # <<>> /\ 0 \in DOMAIN v1.tables
        /\ v1.tables[0] = [prefix |-> <<>>, bits |-> w]
        /\ v1.tables[0].bits \in 1..HuffmanCodes.word_bits
    BY <1>3, <1>4, <2>1, CodeFacts
  <2> QED
    BY <2>2
<1>6. Len(y) \in Nat /\ Len(y) > 0
  BY <1>5
<1>7. Length(v1, v2, n + 1) = l + Len(y)
  <2>1. Spelled(v1, v2) /\ n \in 0..(Len(v2) - 1)
    BY <1>4
  <2>2. Length(v1, v2, n + 1) = Length(v1, v2, n) + Len(v1.code[v2[n + 1]])
    BY ONLY <2>1, SymbolBits
  <2> QED
    BY <1>3, <2>2
<1>8. Passed(HuffmanCodes.word_bits, v6, v8) = l
  <2>1. v2 # <<>>
    BY <1>4
  <2> QED
    BY <1>1, <1>3, <2>1 DEF HuffmanIInv
<1>9. l < Length(v1, v2, Len(v2))
  BY <1>4, <1>6, <1>7
<1>10. WordTypes
  BY <1>2 DEF HuffmanTypes
<1>11. /\ WordTypes' /\ Passed(HuffmanCodes.word_bits, v6', v8') = l + w
       /\ HuffmanCodes.word_bits * v6' < Length(v1, v2, Len(v2)) + 2 * HuffmanCodes.word_bits
  <2>1. PICK m \in Nat : m = Length(v1, v2, Len(v2))
    BY <1>4
  <2>2. HuffmanCodes.word_bits * v6 < m + 2 * HuffmanCodes.word_bits
    BY <2>1 DEF HuffmanIInv
  <2>3. Passed(HuffmanCodes.word_bits, v6, v8) < m
    BY <1>8, <1>9, <2>1
  <2>4. Huffman!GetNextBits(w)
    BY <1>1, <1>3
  <2> QED
    BY <1>5, <1>8, <1>10, <2>1, <2>2, <2>3, <2>4, GetNextBitsKeeps
<1>12. v10' = Huffman!Value(BitsBehind(v1, v2, v3, l, w))
  BY <1>1, <1>3, <1>4, <1>5, <1>8, <1>10, NextBitsRight
<1>13. Huffman!Value(BitsBehind(v1, v2, v3, l, w)) \in Nat
  <2>1. w \in Nat /\ v3 \in {0, 1}
    BY <1>2, <1>5, HuffmanAssumption DEF HuffmanTypes
  <2> QED
    BY <1>4, <2>1, BitTypes, ValueType
<1>14. v10' = 0 + Huffman!Value(BitsBehind(v1, v2, v3, l + Len(<<>>), w)) /\ v10' # -1
  <2>1. l + Len(<<>>) = l
    BY <1>4
  <2> QED
    BY <1>12, <1>13, <2>1
<1>15. Leads(<<>>, y)
  BY <1>6 DEF Leads
<1>16. InTable(0)'
  <2>1. v1.tables[0].prefix = <<>> /\ v1.tables[0].bits = w
    BY <1>5
  <2>2. Passed(HuffmanCodes.word_bits, v6', v8') = (l + Len(<<>>)) + w
    BY <1>4, <1>11
  <2> QED
    BY <1>1, <1>3, <1>5, <1>14, <1>15, <2>1, <2>2 DEF InTable
<1>17. HuffmanTypes'
  BY <1>1, <1>2, <1>11 DEF HuffmanTypes
<1> QED
  BY <1>1, <1>11, <1>14, <1>16, <1>17 DEF HuffmanIInv

LEMMA FollowTableKeeps ==
  ASSUME HuffmanIInv, Huffman!FollowTable
  PROVE  HuffmanIInv'
<1>1. PICK e : e = Huffman!Entry
  OBVIOUS
<1>2. /\ v10 # -1 /\ ~e.found /\ v9' = e.bits /\ v10' = v10 + e.next + Huffman!NextBits(e.bits)
      /\ Huffman!GetNextBits(e.bits) /\ UNCHANGED <<v1, v2, v3, v4, v5>>
  BY <1>1 DEF Huffman!FollowTable
<1>3. HuffmanTypes /\ v4 > 0
  BY <1>2 DEF HuffmanIInv
<1>4. PICK t \in Nat : InTable(t)
  BY <1>2 DEF HuffmanIInv
<1>5. PICK lead \in Seq({0, 1}), x \in Seq({0, 1}), y \in Seq({0, 1}), l \in Nat :
        Walking(lead, x, y, l)
  BY <1>3, <1>4, WalkFacts
<1>6. /\ y = v1.code[v2[Len(v5) + 1]] /\ l = Length(v1, v2, Len(v5))
       /\ Huffman!Agree(lead \o x, y)
       /\ Length(v1, v2, Len(v5) + 1) = l + Len(y)
       /\ Passed(HuffmanCodes.word_bits, v6, v8) = l + Len(lead) + Len(x)
       /\ Len(lead) + Len(x) < Len(y) /\ v10 + e.next \in DOMAIN v1.tables
       /\ v1.tables[v10 + e.next] = [prefix |-> lead \o x, bits |-> e.bits]
  BY <1>1, <1>2, <1>5 DEF Walking
<1>7. PICK u, w, z : u = v10 + e.next /\ w = e.bits /\ z = lead \o x
  OBVIOUS
<1>8. /\ u \in DOMAIN v1.tables /\ u \in Nat /\ w \in 1..HuffmanCodes.word_bits
      /\ v1.tables[u].prefix = z /\ v1.tables[u].bits = w
  <2>1. v1 \in HuffmanCodes.codes
    BY <1>3 DEF HuffmanTypes
  <2>2. u \in DOMAIN v1.tables /\ v1.tables[u] = [prefix |-> z, bits |-> w]
    BY <1>6, <1>7
  <2>3. u \in Nat /\ v1.tables[u].bits \in 1..HuffmanCodes.word_bits
    BY <2>1, <2>2, CodeFacts
  <2> QED
    BY <2>2, <2>3
<1>9. z \in Seq({0, 1}) /\ Len(z) = Len(lead) + Len(x) /\ DOMAIN z = 1..Len(z)
      /\ Len(z) \in Nat /\ Len(y) \in Nat /\ DOMAIN y = 1..Len(y)
  BY <1>7
<1>10. Leads(z, y)
  <2>1. Len(z) < Len(y)
    BY <1>6, <1>9
  <2>2. \A k \in DOMAIN z : k \in DOMAIN z \cap DOMAIN y
    BY <1>9, <2>1
  <2>3. \A k \in DOMAIN z \cap DOMAIN y : z[k] = y[k]
    BY <1>6, <1>7 DEF Huffman!Agree
  <2> QED
    BY <2>1, <2>2, <2>3 DEF Leads
<1>11. Passed(HuffmanCodes.word_bits, v6, v8) = l + Len(z)
  <2>1. l + Len(lead) + Len(x) = l + Len(z)
    BY <1>9
  <2> QED
    BY <1>6, <2>1
<1>12. WordTypes /\ l + Len(z) \in Nat
  BY <1>3, <1>9 DEF HuffmanTypes
<1>13. PICK m \in Nat : m = Length(v1, v2, Len(v2)) /\ l + Len(z) < m
  <2>1. /\ Length(v1, v2, Len(v2)) \in Nat
        /\ Length(v1, v2, Len(v5) + 1) <= Length(v1, v2, Len(v2))
    BY <1>3, HuffmanFacts
  <2>2. l + Len(y) <= Length(v1, v2, Len(v2))
    BY <1>6, <2>1
  <2>3. Len(z) < Len(y)
    BY <1>10 DEF Leads
  <2> QED
    BY <1>9, <2>1, <2>2, <2>3
<1>14. /\ WordTypes' /\ Passed(HuffmanCodes.word_bits, v6', v8') = (l + Len(z)) + w
       /\ HuffmanCodes.word_bits * v6' < m + 2 * HuffmanCodes.word_bits
  <2>1. HuffmanCodes.word_bits * v6 < m + 2 * HuffmanCodes.word_bits
    BY <1>13 DEF HuffmanIInv
  <2>2. Passed(HuffmanCodes.word_bits, v6, v8) < m
    BY <1>11, <1>13
  <2>3. Huffman!GetNextBits(w)
    BY <1>2, <1>7
  <2> QED
    BY <1>8, <1>11, <1>12, <2>1, <2>2, <2>3, GetNextBitsKeeps
<1>15. v10' = u + Huffman!Value(BitsBehind(v1, v2, v3, l + Len(z), w))
  <2>1. Huffman!NextBits(w) = Huffman!Value(BitsBehind(v1, v2, v3, l + Len(z), w))
    BY <1>8, <1>11, <1>12, NextBitsRight
  <2> QED
    BY <1>2, <1>7, <2>1
<1>16. v10' # -1
  <2>1. w \in Nat /\ v3 \in {0, 1} /\ Spelled(v1, v2)
    BY <1>3, <1>8, HuffmanFacts, HuffmanAssumption DEF HuffmanTypes
  <2>2. Huffman!Value(BitsBehind(v1, v2, v3, l + Len(z), w)) \in Nat
    BY <1>12, <2>1, BitTypes, ValueType
  <2> QED
    BY <1>8, <1>15, <2>2
<1>17. InTable(u)'
  BY <1>2, <1>6, <1>7, <1>8, <1>10, <1>14, <1>15 DEF InTable
<1>18. HuffmanTypes'
  BY <1>2, <1>3, <1>14 DEF HuffmanTypes
<1> QED
  BY <1>2, <1>3, <1>8, <1>13, <1>14, <1>16, <1>17, <1>18 DEF HuffmanIInv

LEMMA FinishSymbolKeeps ==
  ASSUME HuffmanIInv, Huffman!FinishSymbol
  PROVE  HuffmanIInv'
<1>1. PICK e : e = Huffman!Entry
  OBVIOUS
<1>2. /\ v10 # -1 /\ e.found /\ v5' = Append(v5, e.symbol) /\ v4' = v4 - 1 /\ v10' = -1
      /\ IF v9 > e.bits THEN Huffman!PutBackBits(v9 - e.bits) ELSE UNCHANGED <<v6, v7, v8>>
      /\ UNCHANGED <<v1, v2, v3, v9>>
  BY <1>1 DEF Huffman!FinishSymbol, Huffman!stream
<1>3. HuffmanTypes /\ v4 > 0
  BY <1>2 DEF HuffmanIInv
<1>4. PICK t \in Nat : InTable(t)
  BY <1>2 DEF HuffmanIInv
<1>5. PICK lead \in Seq({0, 1}), x \in Seq({0, 1}), y \in Seq({0, 1}), l \in Nat :
        /\ l = Length(v1, v2, Len(v5))
        /\ Len(x) = v9 /\ v9 \in 1..HuffmanCodes.word_bits
        /\ Length(v1, v2, Len(v5) + 1) = l + Len(y)
        /\ Passed(HuffmanCodes.word_bits, v6, v8) = l + Len(lead) + Len(x)
        /\ e.symbol = v2[Len(v5) + 1] /\ e.bits \in 1..Len(x)
        /\ Len(y) = Len(lead) + e.bits
  <2>1. PICK lead \in Seq({0, 1}), x \in Seq({0, 1}), y \in Seq({0, 1}), l \in Nat :
          Walking(lead, x, y, l)
    BY <1>3, <1>4, WalkFacts
  <2> QED
    BY <1>1, <1>2, <2>1 DEF Walking
<1>6. PICK n, m, b, a, s : /\ n = Len(v5) /\ m = Length(v1, v2, Len(v2))
                           /\ b = HuffmanCodes.word_bits /\ a = e.bits /\ s = e.symbol
  OBVIOUS
<1>7. /\ n \in 0..(Len(v2) - 1) /\ n \in Nat /\ m \in Nat /\ b \in Nat \ {0}
      /\ s = v2[n + 1] /\ s \in DOMAIN v1.code
  BY <1>3, <1>5, <1>6, HuffmanFacts, HuffmanAssumption
<1>8. /\ v5' = Append(v5, s) /\ v5 \in Seq(DOMAIN v1.code)
  BY <1>2, <1>3, <1>6 DEF HuffmanTypes
<1>9. /\ v5' \in Seq(DOMAIN v1.code) /\ Len(v5') = n + 1 /\ v5'[n + 1] = s
      /\ \A k \in 1..n : v5'[k] = v5[k]
  <2>1. PICK z, S : z = Append(v5, s) /\ S = DOMAIN v1.code
    OBVIOUS
  <2>2. v5 \in Seq(S) /\ s \in S
    BY <1>7, <1>8, <2>1
  <2>3. /\ z \in Seq(S) /\ Len(z) = Len(v5) + 1 /\ z[Len(v5) + 1] = s
        /\ \A k \in 1..Len(v5) : z[k] = v5[k]
    BY <2>1, <2>2
  <2> QED
    BY <1>6, <1>8, <2>1, <2>3
<1>10. WordTypes
  BY <1>3 DEF HuffmanTypes
<1>11. /\ WordTypes' /\ Passed(b, v6', v8') = l + Len(y)
       /\ b * v6' < m + 2 * b
  <2>1. b * v6 < m + 2 * b
    BY <1>6 DEF HuffmanIInv
  <2>2. PICK p \in Nat, w \in Nat : p = Len(lead) /\ w = Len(x)
    OBVIOUS
  <2>3. a \in 1..w /\ w \in 1..b /\ v9 = w /\ Len(y) = p + a
    BY <1>5, <1>6, <2>2
  <2>4. Passed(b, v6, v8) = l + p + w
    BY <1>5, <1>6, <2>2
  <2>5. a \in 1..w /\ w \in 1..b
    BY <2>3
  <2>6. CASE w > a
    <3>1. w - a \in 1..b /\ l + p + w >= w - a /\ (l + p + w) - (w - a) = l + (p + a)
      BY <1>7, <2>6, <2>5
    <3>2. PICK c \in 1..b : c = w - a
      BY <3>1
    <3>3. Huffman!PutBackBits(c)
      BY <1>2, <1>6, <2>3, <2>6, <3>2
    <3>4. Passed(b, v6, v8) >= c
      BY <2>4, <3>1, <3>2
    <3>5. /\ WordTypes' /\ Passed(b, v6', v8') = Passed(b, v6, v8) - c
          /\ b * v6' < m + 2 * b
      BY <1>6, <1>7, <1>10, <2>1, <3>2, <3>3, <3>4, PutBackBitsKeeps
    <3> QED
      BY <2>3, <2>4, <3>1, <3>2, <3>5
  <2>7. CASE ~(w > a)
    <3>1. w = a /\ l + p + w = l + (p + a)
      BY <1>7, <2>7, <2>5
    <3>2. UNCHANGED <<v6, v7, v8>>
      BY <1>2, <1>6, <2>3, <2>7
    <3> QED
      BY <1>10, <2>1, <2>3, <2>4, <3>1, <3>2 DEF WordTypes
  <2> QED
    BY <2>6, <2>7
<1>12. HuffmanTypes'
  <2>1. v4' \in 0..Len(v2) /\ (n + 1) + v4' = Len(v2)
    <3>1. PICK r \in Nat, z \in Nat : r = v4 /\ z = Len(v2)
      <4>1. PICK z \in Nat : z = Len(v2)
        BY <1>3, HuffmanFacts
      <4>2. PICK r \in 0..z : r = v4
        BY <1>3, <4>1 DEF HuffmanTypes
      <4>3. r \in Nat
        BY <4>2
      <4> QED
        BY <4>1, <4>2, <4>3
    <3>2. n + r = z /\ r > 0 /\ v4' = r - 1
      BY <1>2, <1>3, <1>6, <3>1 DEF HuffmanTypes
    <3>3. r - 1 \in 0..z /\ (n + 1) + (r - 1) = z
      BY <1>7, <3>2
    <3> QED
      BY <3>1, <3>2, <3>3
  <2>2. \A k \in 1..(n + 1) : v5'[k] = v2[k]
    <3>1. \A k \in 1..n : v5[k] = v2[k]
      BY <1>3, <1>6 DEF HuffmanTypes
    <3>2. \A k \in 1..(n + 1) : k \in 1..n \/ k = n + 1
      BY <1>7
    <3> QED
      BY <1>7, <1>9, <3>1, <3>2
  <2> QED
    BY <1>2, <1>3, <1>9, <1>11, <2>1, <2>2 DEF HuffmanTypes
<1>13. Passed(b, v6', v8') = Length(v1, v2, n + 1)
  BY <1>5, <1>6, <1>11
<1> QED
  BY <1>2, <1>6, <1>9, <1>11, <1>12, <1>13 DEF HuffmanIInv

LEMMA HuffmanKeeps == HuffmanIInv /\ Huffman!Next => HuffmanIInv'
BY StartSymbolKeeps, FollowTableKeeps, FinishSymbolKeeps DEF Huffman!Next

LEMMA HuffmanStays == UNCHANGED pool /\ HuffmanIInv => HuffmanIInv'
<1> SUFFICES ASSUME UNCHANGED pool, HuffmanIInv PROVE HuffmanIInv'
  OBVIOUS
<1>1. UNCHANGED <<v1, v2, v3, v4, v5, v6, v7, v8, v9, v10>>
  BY DEF pool, from6, from7, from10
<1> QED
  BY <1>1 DEF HuffmanIInv, HuffmanTypes, WordTypes, InTable

-----------------------------------------------------------------------------

LEMMA DecodersStutter ==
  ASSUME DecodersIInv, UNCHANGED <<part, pool>>
  PROVE  DecodersIInv'
<1>1. part' = part /\ UNCHANGED pool
  OBVIOUS
<1>2. part = "decompression" => PlacedIInv(DecodeBuild)'
  BY <1>1, DecompressionStays DEF DecodersIInv
<1>3. part = "decompression in kernels" => PlacedIInv(CompressionBuild)'
  BY <1>1, DecompressionStays DEF DecodersIInv
<1> QED
  BY <1>1, <1>2, <1>3, HuffmanStays, LutStays, PruneStays DEF DecodersIInv

\* A step of a part that decodes is one of that part.
LEMMA DecodersSteps ==
  ASSUME ServicesNext
  PROVE  /\ part' = part
         /\ part = "decompression" => Memory(DecodeBuild)!Next
         /\ part = "decompression in kernels" => Memory(CompressionBuild)!Next
         /\ part = "huffman" => Huffman!Next
         /\ part = "lut" => Lut!Next
         /\ part = "prune" => Prune!Next
BY DEF ServicesNext, OtherNext, LutNext, PersonNext, FlashNext

LEMMA DecodersInvariant == ServicesSpec => []DecodersIInv
<1>1. ASSUME ServicesInit PROVE DecodersIInv
  <2>1. /\ part = "decompression" => Memory(DecodeBuild)!Init
        /\ part = "decompression in kernels" => Memory(CompressionBuild)!Init
        /\ part = "huffman" => Huffman!Init
        /\ part = "lut" => Lut!Init
        /\ part = "prune" => Prune!Init
    BY <1>1 DEF ServicesInit
  <2> QED
    BY <2>1, DecompressionStarts, HuffmanStarts, LutStarts, PruneStarts, DecompressionAssumption
    DEF DecodersIInv
<1>2. ASSUME DecodersIInv, [ServicesNext]_<<part, pool>> PROVE DecodersIInv'
  <2>1. CASE UNCHANGED <<part, pool>>
    BY <1>2, <2>1, DecodersStutter
  <2>2. CASE ServicesNext
    <3>1. /\ part' = part
          /\ part = "decompression" => Memory(DecodeBuild)!Next
          /\ part = "decompression in kernels" => Memory(CompressionBuild)!Next
          /\ part = "huffman" => Huffman!Next
          /\ part = "lut" => Lut!Next
          /\ part = "prune" => Prune!Next
      BY <2>2, DecodersSteps
    <3>2. part = "decompression" => PlacedIInv(DecodeBuild)'
      BY <1>2, <3>1, DecompressionKeeps, DecompressionAssumption DEF DecodersIInv
    <3>3. part = "decompression in kernels" => PlacedIInv(CompressionBuild)'
      BY <1>2, <3>1, DecompressionKeeps, DecompressionAssumption DEF DecodersIInv
    <3> QED
      BY <1>2, <3>1, <3>2, <3>3, HuffmanKeeps, LutKeeps, PruneSetsUp, PruneRefuses,
         PruneDecodes
      DEF DecodersIInv, Prune!Next
  <2> QED
    BY <1>2, <2>1, <2>2
<1> QED
  BY <1>1, <1>2, PTL DEF ServicesSpec

\* In regions of any layout and for any model that fits the build, two tensors of an
\* operator never share decompression memory, and none is written over before it is
\* read, as long as no second DECODE operator stands between (decode.cc:71); the
\* Huffman decoder, in words of any size and with the tables of any code, yields the
\* message, stands behind its bits after each symbol and takes no more than one word
\* behind them; and the lookup-table and pruning decoders give every
\* element of tensors of any shape its value.
THEOREM DecodedStaysRight == ServicesSpec => []DecodedRight
<1>1. DecodersIInv => DecodedRight
  BY DecompressionRight, HuffmanRight, LutRight, PruneRight, DecompressionAssumption
  DEF DecodersIInv, DecodedRight
<1> QED
  BY <1>1, DecodersInvariant, PTL

==============================================================================
