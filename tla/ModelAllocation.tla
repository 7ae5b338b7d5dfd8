-------------------------- MODULE ModelAllocation --------------------------
(***************************************************************************)
(* MicroAllocator and its client, MicroInterpreter::AllocateTensors: one or *)
(* more interpreters put their models into one arena, one after the other.  *)
(* Each step is one request to the arena (or one operation of a kernel), so *)
(* that a failure may come between any two of them; the memory planner is   *)
(* represented by the size of the plan it finds.                            *)
(***************************************************************************)
EXTENDS Arena, Sequences, FiniteSets

CONSTANTS
  Models,            \* the models, as records of the sizes allocated for them
  OverheadSize,      \* SingleArenaBufferAllocator, planner and MicroAllocator
  DataAllocatorSize, \* sizeof(MicroBuiltinDataAllocator)
  RequestSize,       \* sizeof(ScratchBufferRequest)
  HandleSize,        \* sizeof(ScratchBufferHandle)
  OffsetSize,        \* sizeof(size_t)
  InfoSize,          \* sizeof(AllocationInfo)
  PlannedSize,       \* bytes of scratch memory the planner needs per buffer
  StructAlignment,   \* alignof of these structures
  BufferAlignment,   \* MicroArenaBufferAlignment()
  kMaxScratchBuffersPerOp,
  KernelSizes,       \* what a kernel may allocate
  MaxRequests, MaxKernelTemps, MaxTenants   \* bounds

\* Persistent buffers to allocate: tail_ - size is computed before it is compared
\* with head_, so a request is no larger than the addresses below the arena.
BufferRequests == [size : 0 .. BufferHead, alignment : Nat \ {0}]

Graphs ==
  [subgraphs : Nat \ {0}, structs : Seq(BufferRequests),
   operators : Seq([subgraph : Nat, node : Nat]), tensors : Nat, buffers : Nat,
   variables : Seq(BufferRequests), usages : SUBSET Nat, io : Seq(BufferRequests)]

ASSUME ModelAssumption == Models \subseteq Graphs

ASSUME SizeAssumption ==
  /\ {OverheadSize, DataAllocatorSize} \subseteq 0 .. BufferHead
  /\ {RequestSize, HandleSize, OffsetSize, InfoSize, PlannedSize} \subseteq Nat
  /\ {StructAlignment, BufferAlignment} \subseteq Nat \ {0}
  /\ kMaxScratchBuffersPerOp \in Nat
  /\ KernelSizes \subseteq 1 .. BufferHead
  /\ MaxRequests \in Nat /\ \A n \in 0 .. MaxRequests : HandleSize * n <= BufferHead

\* Create returned an allocator.
ASSUME OverheadAssumption ==
  CanAllocatePersistentBuffer(NewArena, OverheadSize, StructAlignment)

\* The address space goes on above the arena, by the largest temp buffers: temp
\* buffers may end above the tail (see SingleArena), but the chain does not wrap.
ASSUME TempAssumption ==
  /\ BufferTail + StructAlignment + BufferHead <= AddressSpace
  /\ \A m \in Models :
       BufferTail + 2 * StructAlignment + OffsetSize * m.subgraphs
         + InfoSize * (m.tensors + MaxRequests) <= AddressSpace

\* "Please use alignas(16)": StartModelAllocation relies on it.
AlignedArena ==
  \A alignment \in {StructAlignment, BufferAlignment} :
    AlignPointerUp(BufferHead, alignment) = BufferHead

VARIABLES
  arena,                  \* the arena's fields
  persistent,             \* the persistent buffers handed out
  model_is_allocating_,
  requests,               \* the ScratchBufferRequests at scratch_buffer_head_
  scratch_buffer_head_,
  max_head_buffer_usage_,
  pc,                     \* the phase of AllocateTensors, "idle" outside of it
  model,                  \* its model
  todo,                   \* persistent buffers left to allocate in this phase
  op,                     \* the operator being prepared
  kernelTemps,            \* temp buffers kernels have not given back
  planning,               \* temp buffers of CommitStaticMemoryPlan
  head_usage,             \* the size of the plan
  ignored,                \* has a failure of FinishPrepareNodeAllocations been ignored?
  tenants,                \* the models allocated so far
  \* Not in the code, but what it did before this allocation or operator:
  owned,                  \* the persistent buffers before this allocation began
  left                    \* temp buffers that earlier operators have kept

memory == <<arena, persistent>>
allocator == <<model_is_allocating_, scratch_buffer_head_, max_head_buffer_usage_>>
temps == <<kernelTemps, planning, left>>
vars == <<memory, allocator, requests, pc, model, todo, op, temps, head_usage,
          ignored, tenants, owned>>

Block(at, size) == [at |-> at, size |-> size]
Buffer(size, alignment) == [size |-> size, alignment |-> alignment]

kUnassigned == -1
NoModel == [subgraphs |-> 0]   \* no graph is empty

-----------------------------------------------------------------------------
(* Creating the allocator *)

Init ==
  /\ arena = AllocatePersistentBuffer(NewArena, OverheadSize, StructAlignment)
  /\ persistent = {Block(arena.tail, OverheadSize)}
  /\ model_is_allocating_ = FALSE
  /\ requests = <<>> /\ scratch_buffer_head_ = nullptr
  /\ max_head_buffer_usage_ = 0
  /\ pc = "idle" /\ model = NoModel /\ todo = <<>> /\ op = 0
  /\ kernelTemps = {} /\ planning = <<>> /\ head_usage = 0
  /\ ignored = FALSE /\ tenants = {} /\ owned = {} /\ left = {}

-----------------------------------------------------------------------------
(* StartModelAllocationDirect.  A failure returns at once and leaves the    *)
(* allocator as it is, with model_is_allocating_ set.                       *)

GrantPersistent(size, alignment) ==
  /\ CanAllocatePersistentBuffer(arena, size, alignment)
  /\ arena' = AllocatePersistentBuffer(arena, size, alignment)
  /\ persistent' = persistent \cup {Block(arena'.tail, size)}

Return == pc' = "idle" /\ todo' = <<>>

BugStartAgain == TRUE

CanStart == ~model_is_allocating_

StartModelAllocation(m) ==
  /\ pc = "idle" /\ CanStart
  /\ Cardinality(tenants) < MaxTenants
  /\ model_is_allocating_' = TRUE
  /\ model' = m /\ op' = 0 /\ ignored' = FALSE /\ owned' = persistent
  /\ IF CanAllocatePersistentBuffer(arena, DataAllocatorSize, StructAlignment)
     THEN GrantPersistent(DataAllocatorSize, StructAlignment) /\ pc' = "scratch"
     ELSE UNCHANGED memory /\ pc' = "idle"
  /\ UNCHANGED <<scratch_buffer_head_, max_head_buffer_usage_, requests, todo, temps,
                 head_usage, tenants>>

InitScratchBufferData ==
  /\ pc = "scratch"
  /\ requests' = <<>>
  /\ IF CanSetHeadSection(arena, RequestSize * kMaxScratchBuffersPerOp, StructAlignment)
     THEN /\ arena' = ResizeBuffer(arena, RequestSize * kMaxScratchBuffersPerOp,
                                   StructAlignment)
          /\ scratch_buffer_head_' = AlignPointerUp(BufferHead, StructAlignment)
          /\ pc' = "structs" /\ todo' = model.structs
     ELSE /\ scratch_buffer_head_' = nullptr
          /\ Return
          /\ UNCHANGED arena
  /\ UNCHANGED <<persistent, model_is_allocating_, max_head_buffer_usage_, model, op,
                 temps, head_usage, ignored, tenants, owned>>

\* The loops that allocate persistent buffers: eval tensors and nodes, scratch
\* buffer handles, variables, and the interpreter's input and output tensors.
AllocateNext ==
  /\ pc \in {"structs", "handles", "variables", "tensors"} /\ todo # <<>>
  /\ IF CanAllocatePersistentBuffer(arena, Head(todo).size, Head(todo).alignment)
     THEN /\ GrantPersistent(Head(todo).size, Head(todo).alignment)
          /\ todo' = Tail(todo)
          /\ UNCHANGED pc
     ELSE Return /\ UNCHANGED memory
  /\ UNCHANGED <<allocator, requests, model, op, temps, head_usage, ignored, tenants, owned>>

StructsAllocated ==
  /\ pc = "structs" /\ todo = <<>>
  /\ pc' = "init"
  /\ UNCHANGED <<memory, allocator, requests, model, todo, op, temps, head_usage,
                 ignored, tenants, owned>>

-----------------------------------------------------------------------------
(* The kernels' Init and Prepare, operator by operator *)

InitSubgraphsDone ==
  /\ pc = "init"
  /\ pc' = "prepare" /\ op' = 1
  /\ UNCHANGED <<memory, allocator, requests, model, todo, temps, head_usage, ignored,
                 tenants, owned>>

Preparing == pc = "prepare" /\ op <= Len(model.operators)

KernelPersistentBuffer(size) ==
  /\ pc = "init" \/ Preparing
  /\ GrantPersistent(size, BufferAlignment)
  /\ UNCHANGED <<allocator, requests, pc, model, todo, op, temps, head_usage, ignored,
                 tenants, owned>>

\* Once the temp chain has run past the tail nothing bounds it any more; the
\* model follows it no further (see SingleArena).
TempChainBound == arena.temp <= arena.tail

KernelAllocatesTemp(size) ==
  /\ Preparing
  /\ Cardinality(kernelTemps) < MaxKernelTemps /\ TempChainBound
  /\ CanAllocateTemp(arena, size, StructAlignment)
  /\ arena' = AllocateTemp(arena, size, StructAlignment)
  /\ kernelTemps' = kernelTemps \cup {Block(TempResult(arena, StructAlignment), size)}
  /\ UNCHANGED <<persistent, allocator, requests, pc, model, todo, op, planning, left,
                 head_usage, ignored, tenants, owned>>

\* A kernel gives back what it took itself.
KernelReturnsTemp(t) ==
  /\ Preparing /\ t \notin left
  /\ arena' = DeallocateTemp(arena, t.at)
  /\ kernelTemps' = kernelTemps \ {t}
  /\ UNCHANGED <<persistent, allocator, requests, pc, model, todo, op, planning, left,
                 head_usage, ignored, tenants, owned>>

Unassigned == {k \in DOMAIN requests : requests[k].node_idx = kUnassigned}

BugLimitCheckedLate == Cardinality(Unassigned) <= kMaxScratchBuffersPerOp

UnderLimit == Cardinality(Unassigned) < kMaxScratchBuffersPerOp

\* owner is not in the code: the operator that asks, to be compared with the
\* node the request is assigned to.
RequestScratchBufferInArena ==
  /\ Preparing
  /\ Len(requests) < MaxRequests
  /\ UnderLimit
  /\ requests' = Append(requests, [subgraph_idx |-> model.operators[op].subgraph,
                                   node_idx |-> kUnassigned, owner |-> op])
  /\ UNCHANGED <<memory, allocator, pc, model, todo, op, temps, head_usage, ignored,
                 tenants, owned>>

\* A kernel's Init or Prepare reports an error, for example that one of the
\* calls above has failed.
KernelFails ==
  /\ pc = "init" \/ Preparing
  /\ Return
  /\ UNCHANGED <<memory, allocator, requests, model, op, temps, head_usage, ignored,
                 tenants, owned>>

BugNewestAssigned(node_id) ==
  IF requests = <<>> THEN requests
  ELSE [requests EXCEPT ![Len(requests)].node_idx = node_id]

Assigned(node_id) ==
  [k \in DOMAIN requests |->
     IF k \in Unassigned THEN [requests[k] EXCEPT !.node_idx = node_id] ELSE requests[k]]

RoomForNext == RequestSize * (Len(requests) + kMaxScratchBuffersPerOp)

BugRetriesWhenRefused == op' = IF ignored' THEN op ELSE op + 1

NextOperator == op' = op + 1

\* PrepareSubgraphs does not look at the status: the next operator is prepared
\* whether or not the temp buffers were reset and the head section resized.
FinishPrepareNodeAllocations ==
  /\ Preparing
  /\ IF CanResetTempAllocations(arena)
     THEN LET rewound == ResetTempAllocations(arena)
              resizable == CanResizeBuffer(rewound, scratch_buffer_head_, RoomForNext,
                                           StructAlignment)
          IN  /\ requests' = Assigned(model.operators[op].node)
              /\ arena' = IF resizable
                          THEN ResizeBuffer(rewound, RoomForNext, StructAlignment)
                          ELSE rewound
              /\ ignored' = (ignored \/ ~resizable)
     ELSE ignored' = TRUE /\ UNCHANGED <<arena, requests>>
  /\ left' = kernelTemps
  /\ NextOperator
  /\ UNCHANGED <<persistent, allocator, pc, model, todo, kernelTemps, planning,
                 head_usage, tenants, owned>>

-----------------------------------------------------------------------------
(* FinishModelAllocation and CommitStaticMemoryPlan *)

AllocateScratchBufferHandles ==
  /\ pc = "prepare" /\ op > Len(model.operators)
  /\ pc' = "handles"
  /\ todo' = IF requests = <<>> THEN <<>>
             ELSE <<Buffer(HandleSize * Len(requests), StructAlignment)>>
  /\ UNCHANGED <<memory, allocator, requests, model, op, temps, head_usage, ignored,
                 tenants, owned>>

\* A temp buffer of CommitStaticMemoryPlan, after which the phase is next.
PlanningTemp(size, alignment, next) ==
  /\ IF CanAllocateTemp(arena, size, alignment)
     THEN /\ arena' = AllocateTemp(arena, size, alignment)
          /\ planning' = Append(planning, Block(TempResult(arena, alignment), size))
          /\ pc' = next
     ELSE pc' = "idle" /\ UNCHANGED <<arena, planning>>
  /\ UNCHANGED <<persistent, allocator, requests, model, op, kernelTemps, left, head_usage,
                 ignored, tenants, owned>>

CreateSubgraphOffsets ==
  /\ pc = "handles" /\ todo = <<>>
  /\ PlanningTemp(OffsetSize * model.subgraphs, StructAlignment, "info")
  /\ UNCHANGED todo

CreateAllocationInfo ==
  /\ pc = "info"
  /\ PlanningTemp(InfoSize * (model.tensors + Len(requests)), StructAlignment, "variables")
  /\ todo' = IF pc' = "idle" THEN <<>> ELSE model.variables

\* The resolver does not know an operator, or the builtin data, the tensors or the
\* offline offsets are not what they should be.
ModelRejected ==
  /\ pc \in {"structs", "variables"}
  /\ Return
  /\ UNCHANGED <<memory, allocator, requests, model, op, temps, head_usage, ignored,
                 tenants, owned>>

\* The planner works in all that is left between the temp chain and the tail.
AllocatePlannerArena ==
  /\ pc = "variables" /\ todo = <<>>
  /\ PlanningTemp(GetAvailableMemory(arena, BufferAlignment), BufferAlignment, "plan")
  /\ UNCHANGED todo

\* Every tensor to be planned and every scratch buffer is added to the planner,
\* which has room for as many buffers as fit into its arena.
CreateAndCommitPlan ==
  /\ pc = "plan"
  /\ IF PlannedSize * (model.buffers + Len(requests)) <= planning[3].size
     THEN head_usage' \in model.usages /\ pc' = "free" /\ UNCHANGED todo
     ELSE Return /\ UNCHANGED head_usage
  /\ UNCHANGED <<memory, allocator, requests, model, op, temps, ignored, tenants, owned>>

\* FreeAllocationInfo and the planner's arena.
PlanningFreed ==
  LET noInfo == DeallocateTemp(arena, planning[2].at)
      noOffsets == DeallocateTemp(noInfo, planning[1].at)
  IN  DeallocateTemp(noOffsets, planning[3].at)

FreePlanningMemory ==
  /\ pc = "free"
  /\ arena' = PlanningFreed
  /\ planning' = <<>>
  /\ pc' = "release"
  /\ UNCHANGED <<persistent, allocator, requests, model, todo, op, kernelTemps, left,
                 head_usage, ignored, tenants, owned>>

\* The temp chain is reset, and the requests are dropped from the head section.
ReleaseHead ==
  /\ pc = "release"
  /\ IF CanResetTempAllocations(arena)
     THEN LET rewound == ResetTempAllocations(arena)
          IN  IF CanDeallocateResizableBuffer(rewound, scratch_buffer_head_)
              THEN arena' = DeallocateResizableBuffer(rewound) /\ pc' = "reserve"
              ELSE arena' = rewound /\ pc' = "idle"
     ELSE pc' = "idle" /\ UNCHANGED arena
  /\ UNCHANGED <<persistent, allocator, requests, model, todo, op, temps, head_usage,
                 ignored, tenants, owned>>

BugLatestUsage == head_usage

LargestUsage ==
  IF max_head_buffer_usage_ < head_usage THEN head_usage ELSE max_head_buffer_usage_

\* The overlay is reserved for the largest plan so far; max_head_buffer_usage_
\* is raised even when that fails.
ReserveOverlay ==
  /\ pc = "reserve"
  /\ max_head_buffer_usage_' = LargestUsage
  /\ IF CanSetHeadSection(arena, LargestUsage, BufferAlignment)
     THEN /\ arena' = ResizeBuffer(arena, LargestUsage, BufferAlignment)
          /\ model_is_allocating_' = FALSE
          /\ tenants' = tenants \cup {[model |-> model, size |-> head_usage]}
          /\ pc' = "tensors" /\ todo' = model.io
     ELSE Return /\ UNCHANGED <<arena, model_is_allocating_, tenants>>
  /\ UNCHANGED <<persistent, scratch_buffer_head_, requests, model, op, temps,
                 head_usage, ignored, owned>>

AllocateTensorsDone ==
  /\ pc = "tensors" /\ todo = <<>>
  /\ Return
  /\ UNCHANGED <<memory, allocator, requests, model, op, temps, head_usage, ignored,
                 tenants, owned>>

-----------------------------------------------------------------------------
Kernel ==
  \/ \E size \in KernelSizes : KernelPersistentBuffer(size) \/ KernelAllocatesTemp(size)
  \/ \E t \in kernelTemps : KernelReturnsTemp(t)
  \/ RequestScratchBufferInArena
  \/ KernelFails

Framework ==
  \/ InitScratchBufferData \/ AllocateNext \/ StructsAllocated \/ InitSubgraphsDone
  \/ FinishPrepareNodeAllocations \/ AllocateScratchBufferHandles
  \/ CreateSubgraphOffsets \/ CreateAllocationInfo \/ ModelRejected \/ AllocatePlannerArena
  \/ CreateAndCommitPlan \/ FreePlanningMemory \/ ReleaseHead \/ ReserveOverlay
  \/ AllocateTensorsDone

Next == (\E m \in Models : StartModelAllocation(m)) \/ Kernel \/ Framework

\* A kernel's Init and Prepare return, and the framework's loops go on.
Spec == Init /\ [][Next]_vars /\ WF_vars(Framework)
-----------------------------------------------------------------------------
Phases == {"idle", "scratch", "structs", "init", "prepare", "handles", "info",
           "variables", "plan", "free", "release", "reserve", "tensors"}

Blocks == [at : Nat, size : Nat]

Requests == [subgraph_idx : Nat, node_idx : Nat \cup {kUnassigned}, owner : Nat]

TypeOK ==
  /\ arena \in ArenaRecords /\ persistent \in SUBSET Blocks
  /\ model_is_allocating_ \in BOOLEAN /\ ignored \in BOOLEAN
  /\ requests \in Seq(Requests)
  /\ scratch_buffer_head_ \in Addresses /\ max_head_buffer_usage_ \in Nat
  /\ pc \in Phases /\ model \in Models \cup {NoModel}
  /\ todo \in Seq([size : Nat, alignment : Nat]) /\ op \in Nat
  /\ kernelTemps \in SUBSET Blocks /\ planning \in Seq(Blocks)
  /\ head_usage \in Nat
  /\ tenants \in SUBSET [model : Models, size : Nat]
  /\ owned \in SUBSET Blocks /\ left \in SUBSET Blocks

Apart(b, c) == b.at + b.size <= c.at \/ c.at + c.size <= b.at

\* Where CommitPlanDirect puts the tensors of a tenant.
PlanOf(t) == Block(BufferHead, t.size)

\* Models share the arena.  Whenever no allocation is under way, every model
\* allocated so far has its whole memory plan inside the head section, and no
\* persistent buffer of any model lies in it, however many models were allocated
\* after it.  While a further model is being allocated, and for ever when that has
\* failed, the head section and what lies behind it are that model's; but then the
\* plans of the others still keep clear of all that was handed out before, so that
\* these models can go on to be invoked.
TenantsIntact ==
  /\ ~model_is_allocating_ =>
       \A t \in tenants :
         /\ BufferHead + t.size <= arena.head
         /\ \A b \in persistent : Apart(PlanOf(t), b)
  /\ \A t \in tenants, b \in owned : Apart(PlanOf(t), b)

HasRequests ==
  pc \in Phases \ {"idle", "scratch", "reserve", "tensors"}

RequestArray == Block(scratch_buffer_head_, RequestSize * Len(requests))

\* The array that RequestScratchBufferInArena writes stays in the head section,
\* and no buffer is placed over it, until the requests have been planned:
\* provided that no failure of FinishPrepareNodeAllocations has been ignored.
RequestsUnharmed ==
  HasRequests /\ ~ignored =>
    /\ RequestArray.at + RequestArray.size <= arena.head
    /\ \A b \in persistent \cup kernelTemps \cup {planning[k] : k \in DOMAIN planning} :
         Apart(RequestArray, b)

\* Each request is assigned to the node that made it, of which its lifetime in the
\* memory plan depends, whatever status of FinishPrepareNodeAllocations is ignored:
\* one that the next operator finds unassigned is never assigned late, to a node
\* after its own, for then a temp buffer has been kept and no later audit passes; and
\* so none is left once the head section has been released.  (What the marks say;
\* whether the array lasts that holds them is RequestsUnharmed.)
RequestsOwned ==
  pc \notin {"idle", "scratch"} =>
    \A k \in DOMAIN requests :
      LET r == requests[k]
      IN  IF r.node_idx = kUnassigned
          THEN \/ Preparing /\ r.owner = op
               \/ left # {} /\ pc \notin {"reserve", "tensors"}
          ELSE r.node_idx = model.operators[r.owner].node

\* Once the temp chain has been reset nothing keeps the head section from
\* being released: a model that has been planned fails only for want of room.
HeadReleasable ==
  pc = "release" /\ CanResetTempAllocations(arena) =>
    CanDeallocateResizableBuffer(ResetTempAllocations(arena), scratch_buffer_head_)

\* AllocateTensors always returns.
Returns == pc # "idle" ~> pc = "idle"

-----------------------------------------------------------------------------
\* micro_allocator.h:54-56: "During the prepare stage, the head section will at
\* least hold kMaxScratchBuffersPerOp number of requests plus any requests from
\* previous kernel requests."  PrepareSubgraphs goes on to the next operator when
\* FinishPrepareNodeAllocations could not make that room: a kernel has kept a temp
\* buffer, or persistent buffers have filled the arena.
EarlierRequests == {k \in DOMAIN requests : requests[k].owner # op}

HeadHoldsNextRequests ==
  Preparing =>
    RequestSize * (Cardinality(EarlierRequests) + kMaxScratchBuffersPerOp)
      <= arena.head - scratch_buffer_head_

-----------------------------------------------------------------------------
(* What TenantsIntact rests on *)

\* The head section ends below the persistent buffers.
ArenaOrdered ==
  /\ arena.head \in Addresses /\ arena.tail \in Addresses
  /\ BufferHead <= arena.head /\ arena.head <= arena.tail
  /\ \A b \in persistent : b.at \in Nat /\ b.size \in Nat /\ arena.tail <= b.at

\* model_is_allocating_ covers every phase but the last.
CallState ==
  /\ model_is_allocating_ \in BOOLEAN
  /\ pc \in Phases /\ (pc \notin {"idle", "tensors"} => model_is_allocating_)
  /\ model \in Models \cup {NoModel} /\ (model_is_allocating_ => model \in Models)
  /\ todo \in Seq(BufferRequests)
  /\ op \in Nat /\ (pc = "prepare" => op > 0)
  /\ requests \in Seq(Requests) /\ Len(requests) <= MaxRequests

\* No tenant needs more than the largest plan, for which the head section is
\* set whenever no allocation is under way.
OverlayReserved ==
  /\ max_head_buffer_usage_ \in Nat /\ head_usage \in Nat
  /\ \A t \in tenants : t.size \in Nat /\ t.size <= max_head_buffer_usage_
  /\ ~model_is_allocating_ => arena.head = BufferHead + max_head_buffer_usage_

IInv == ArenaOrdered /\ CallState /\ OverlayReserved

-----------------------------------------------------------------------------
\* The interpreters get what Tenancy promises them.
Contract ==
  INSTANCE Tenancy WITH
    current <- IF model_is_allocating_ THEN model ELSE NoModel,
    overlay <- arena.head - BufferHead

KeepsTenancy == Contract!Spec
=============================================================================
