---------------------------- MODULE SimplePlanners ----------------------------
(***************************************************************************)
(* The planners that decide nothing, as MicroAllocator uses them for one    *)
(* model after another: LinearMemoryPlanner, which puts every buffer behind *)
(* the one before, and NonPersistentMemoryPlannerShim, which is given a     *)
(* plan.                                                                    *)
(***************************************************************************)
EXTENDS Integers, Sequences

CONSTANTS
  Requirements,      \* buffers, as in MemoryPlan
  kMaxBufferCount,   \* of the linear planner
  GivenPlans,        \* the buffer plans that a shim may be made with
  PlannedFor(_),     \* the requests that a given plan was made for
  Kinds,             \* of planner: "linear" and "shim"
  MaxModels, MaxBuffers

kOnlinePlannedBuffer == -1
NoPlan == <<kOnlinePlannedBuffer>>

VARIABLES
  kind,
  buffer_offsets_,        \* linear: current_buffer_count_ of them
  next_free_offset_,
  buffer_plan_,           \* shim
  buffer_request_count_,
  pc,                     \* "idle", "adding", "refused" or "done"
  models,                 \* begun
  buffers,                \* requests of the current model
  plan,                   \* and the offsets committed for them
  head_usage              \* the size of the plan, as the allocator reads it

linearVars == <<buffer_offsets_, next_free_offset_>>
shimVars == <<buffer_plan_, buffer_request_count_>>
vars == <<kind, linearVars, shimVars, pc, models, buffers, plan, head_usage>>

-----------------------------------------------------------------------------

LinearAdd(b) ==
  /\ buffer_offsets_' = Append(buffer_offsets_, next_free_offset_)
  /\ next_free_offset_' = next_free_offset_ + b.size

LinearFull == Len(buffer_offsets_) >= kMaxBufferCount

ShimFull == buffer_request_count_ + 1 > Len(buffer_plan_)

\* GetOffsetForBuffer, for an index from 1; 0 - 1 stands for an error.
GetOffsetForBuffer(i) ==
  LET offsets == IF kind = "linear" THEN buffer_offsets_ ELSE buffer_plan_
  IN IF i \in DOMAIN offsets THEN offsets[i] ELSE kOnlinePlannedBuffer

\* GetMaximumMemorySize: the client of the shim vouches for its plan.
GetMaximumMemorySize == IF kind = "linear" THEN next_free_offset_ ELSE 0

-----------------------------------------------------------------------------

Init ==
  /\ kind \in Kinds
  /\ buffer_offsets_ = <<>> /\ next_free_offset_ = 0
  /\ buffer_plan_ \in IF kind = "shim" THEN GivenPlans ELSE {<<>>}
  /\ buffer_request_count_ = 0
  /\ pc = "idle" /\ models = 0
  /\ buffers = <<>> /\ plan = NoPlan /\ head_usage = 0

\* CommitStaticMemoryPlan initialises the planner, which does nothing.
StartModel ==
  /\ pc \in {"idle", "done"} /\ models < MaxModels
  /\ pc' = "adding" /\ models' = models + 1
  /\ buffers' = <<>> /\ plan' = NoPlan
  /\ UNCHANGED <<kind, linearVars, shimVars, head_usage>>

\* The requests of a model whose plan is given are those it was made for.
MayAdd(b) ==
  kind = "shim" =>
    LET planned == PlannedFor(buffer_plan_)
    IN Len(buffers) < Len(planned) => b = planned[Len(buffers) + 1]

\* CreatePlan adds a buffer.
AddBuffer ==
  /\ pc = "adding" /\ Len(buffers) < MaxBuffers
  /\ \E b \in Requirements :
       /\ MayAdd(b)
       /\ b.offline_offset = kOnlinePlannedBuffer
       /\ IF kind = "linear"
          THEN /\ UNCHANGED shimVars
               /\ IF LinearFull THEN pc' = "refused" /\ UNCHANGED <<linearVars, buffers>>
                  ELSE LinearAdd(b) /\ buffers' = Append(buffers, b) /\ UNCHANGED pc
          ELSE /\ buffer_request_count_' = buffer_request_count_ + 1
               /\ UNCHANGED <<linearVars, buffer_plan_>>
               /\ IF ShimFull THEN pc' = "refused" /\ UNCHANGED buffers
                  ELSE buffers' = Append(buffers, b) /\ UNCHANGED pc
  /\ UNCHANGED <<kind, models, plan, head_usage>>

\* Neither planner takes a buffer with an offline offset.
AddOfflineBuffer ==
  /\ pc = "adding"
  /\ \E b \in Requirements : b.offline_offset # kOnlinePlannedBuffer
  /\ pc' = "refused"
  /\ UNCHANGED <<kind, linearVars, shimVars, models, buffers, plan, head_usage>>

\* CommitPlan asks for the offsets of buffer 0 and up.
Committed == [i \in DOMAIN buffers |-> GetOffsetForBuffer(i)]

\* What GetMaximumMemorySizeDirect of a GreedyMemoryPlanner may return when it is
\* called on another planner.  The buffer count that it reads is the second offset
\* of a linear planner, which is still 0 in a cleared arena when there is none;
\* with any other count, and on a shim, it walks a list that is none: when the walk
\* ends, what it found may be too little, right or too much.
MaximumRead ==
  IF kind = "linear" /\ (IF Len(buffer_offsets_) < 2 THEN 0 ELSE buffer_offsets_[2]) = 0
  THEN {0}
  ELSE {0, GetMaximumMemorySize, GetMaximumMemorySize + 1}

CommitPlan ==
  /\ pc = "adding"
  /\ IF \E i \in DOMAIN buffers : Committed[i] = kOnlinePlannedBuffer
     THEN pc' = "refused" /\ UNCHANGED <<plan, head_usage>>
     ELSE /\ pc' = "done"
          /\ plan' = Committed
          /\ head_usage' \in MaximumRead
  /\ UNCHANGED <<kind, linearVars, shimVars, models, buffers>>

Next == StartModel \/ AddBuffer \/ AddOfflineBuffer \/ CommitPlan

Spec == Init /\ [][Next]_vars

(***************************************************************************)
(* Properties.                                                              *)
(***************************************************************************)

TypeOK ==
  /\ pc \in {"idle", "adding", "refused", "done"}
  /\ Len(buffer_offsets_) <= kMaxBufferCount
  /\ next_free_offset_ \in Nat /\ head_usage \in Nat /\ buffer_request_count_ \in Nat
  /\ buffers \in Seq(Requirements)

Promise == INSTANCE MemoryPlan

\* Both planners keep the promise of the planner interface to each model: an action
\* property.
KeepsPlan == Promise!Next \/ UNCHANGED <<buffers, plan>>

Ends == {plan[i] + buffers[i].size : i \in DOMAIN buffers}

\* "LinearMemoryPlanner preserves all tensors after invocation"
\* (linear_memory_planner.h): no byte of the plan belongs to two buffers, whenever
\* they are used, and what it takes for all of them is the size that it reports.
TensorsPreserved ==
  kind = "linear" /\ pc = "done" =>
    /\ \A i, j \in DOMAIN buffers :
         i # j => plan[i] + buffers[i].size <= plan[j] \/ plan[j] + buffers[j].size <= plan[i]
    /\ \A e \in Ends : e <= GetMaximumMemorySize

=============================================================================
