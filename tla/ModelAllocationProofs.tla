----------------------- MODULE ModelAllocationProofs -----------------------
(***************************************************************************)
(* Proofs about ModelAllocation, for all models, sizes and bounds, in an    *)
(* aligned arena: the plans of the tenants stay reserved, and the           *)
(* interpreters get what Tenancy promises.  The inductive invariant says    *)
(* where the head section ends and which phases model_is_allocating_        *)
(* covers; nothing in it depends on the temp chain.                         *)
(***************************************************************************)
EXTENDS ModelAllocation, SequenceTheorems, FiniteSetTheorems, TLAPS

USE DEF nullptr

-----------------------------------------------------------------------------
(* The operators of Arena *)

LEMMA ArenaFacts ==
  /\ AddressSpace \in Nat /\ BufferHead \in Nat /\ BufferTail \in Nat
  /\ 0 < BufferHead /\ BufferHead <= BufferTail /\ BufferTail < AddressSpace
BY ArenaAssumption

\* Where a persistent buffer goes: below the old tail, by its size at least.
LEMMA PersistentResultBound ==
  ASSUME NEW a, a.tail \in Addresses, NEW size \in Nat, NEW alignment \in Nat \ {0},
         BufferHead <= a.tail, size <= BufferHead
  PROVE  /\ PersistentResult(a, size, alignment) \in Nat
         /\ PersistentResult(a, size, alignment) + size <= a.tail
<1> a.tail \in 0 .. AddressSpace - 1
  BY DEF Addresses
<1> Wrapped(a.tail - size) = a.tail - size /\ a.tail - size \in Nat
  BY ArenaFacts DEF Wrapped
<1> QED
  BY DEF AlignPointerDown, PersistentResult

\* The head section after a resize the allocator accepts.
LEMMA ResizeBound ==
  ASSUME NEW a, a.tail \in Addresses, NEW size \in Nat, NEW alignment \in Nat \ {0},
         NEW buf, CanResizeBuffer(a, buf, size, alignment),
         AlignPointerUp(BufferHead, alignment) = BufferHead,
         BufferHead <= a.tail
  PROVE  /\ buf = BufferHead /\ a.head = a.temp
         /\ BufferHead + size <= a.tail
         /\ ResizeBuffer(a, size, alignment)
              = Fields(BufferHead + size, a.tail, BufferHead + size, a.count, a.checkSum)
<1> a.tail \in 0 .. AddressSpace - 1
  BY DEF Addresses
<1>1. buf = BufferHead /\ a.head = a.temp /\ Wrapped(a.tail - BufferHead) >= size
  BY DEF CanResizeBuffer
<1>2. Wrapped(a.tail - BufferHead) = a.tail - BufferHead
  BY ArenaFacts DEF Wrapped
<1>3. Wrapped(BufferHead + size) = BufferHead + size
  BY <1>1, <1>2, ArenaFacts DEF Wrapped
<1> QED
  BY <1>1, <1>2, <1>3, ArenaFacts DEF ResizeBuffer

-----------------------------------------------------------------------------

LEMMA SizeFacts ==
  /\ OverheadSize \in 0 .. BufferHead /\ DataAllocatorSize \in 0 .. BufferHead
  /\ RequestSize \in Nat /\ HandleSize \in Nat /\ kMaxScratchBuffersPerOp \in Nat
  /\ StructAlignment \in Nat \ {0} /\ BufferAlignment \in Nat \ {0}
  /\ \A size \in KernelSizes : size \in 0 .. BufferHead
  /\ MaxRequests \in Nat
  /\ \A n \in 0 .. MaxRequests : HandleSize * n \in 0 .. BufferHead
<1>1. \A n \in Nat : HandleSize * n \in Nat
  BY SizeAssumption
<1> QED
  BY <1>1, SizeAssumption, ArenaFacts

LEMMA ModelFacts ==
  ASSUME NEW m \in Models
  PROVE  /\ m.structs \in Seq(BufferRequests) /\ m.variables \in Seq(BufferRequests)
         /\ m.io \in Seq(BufferRequests) /\ m.usages \subseteq Nat
         /\ m.operators \in Seq([subgraph : Nat, node : Nat])
         /\ m # NoModel
BY ModelAssumption DEF Graphs, NoModel

-----------------------------------------------------------------------------
(* What the three kinds of arena steps do to the head section *)

LEMMA GrantKeepsOrder ==
  ASSUME ArenaOrdered, NEW size \in 0 .. BufferHead, NEW alignment \in Nat \ {0},
         GrantPersistent(size, alignment)
  PROVE  ArenaOrdered' /\ arena'.head = arena.head
<1> DEFINE at == PersistentResult(arena, size, alignment)
<1>1. at \in Nat /\ at + size <= arena.tail
  BY PersistentResultBound, ArenaFacts DEF ArenaOrdered, Addresses
<1>2. arena' = Fields(arena.head, at, arena.temp, arena.count, arena.checkSum)
  BY DEF GrantPersistent, AllocatePersistentBuffer
<1>3. arena'.head = arena.head /\ arena'.tail = at
  BY <1>2 DEF Fields
<1>4. persistent' = persistent \cup {Block(at, size)} /\ arena.head <= at
  BY <1>3 DEF GrantPersistent, CanAllocatePersistentBuffer
<1>5. at \in Addresses
  BY <1>1, ArenaFacts DEF ArenaOrdered, Addresses
<1> HIDE DEF at
<1>6. ASSUME NEW b \in persistent'
      PROVE  b.at \in Nat /\ b.size \in Nat /\ at <= b.at
  BY <1>1, <1>4, ArenaFacts DEF ArenaOrdered, Addresses, Block
<1> QED
  BY <1>1, <1>3, <1>4, <1>5, <1>6 DEF ArenaOrdered

LEMMA TempKeepsOrder ==
  ASSUME ArenaOrdered, arena'.head = arena.head, arena'.tail = arena.tail,
         persistent' = persistent
  PROVE  ArenaOrdered'
BY DEF ArenaOrdered

LEMMA ResizeKeepsOrder ==
  ASSUME AlignedArena, ArenaOrdered, NEW a, a.tail = arena.tail, NEW size \in Nat,
         NEW alignment \in {StructAlignment, BufferAlignment, 1}, NEW buf,
         CanResizeBuffer(a, buf, size, alignment),
         arena' = ResizeBuffer(a, size, alignment), persistent' = persistent
  PROVE  ArenaOrdered' /\ arena'.head = BufferHead + size
<1>1. alignment \in Nat \ {0}
  BY SizeFacts
<1>2. AlignPointerUp(BufferHead, alignment) = BufferHead
  <2>1. AlignPointerUp(BufferHead, 1) = BufferHead
    BY ArenaFacts DEF AlignPointerUp
  <2> QED
    BY <2>1 DEF AlignedArena
<1>3. a.tail \in Addresses /\ BufferHead <= a.tail
  BY ArenaFacts DEF ArenaOrdered, Addresses
<1>4. /\ BufferHead + size <= a.tail
      /\ arena' = Fields(BufferHead + size, a.tail, BufferHead + size, a.count, a.checkSum)
  BY <1>1, <1>2, <1>3, ResizeBound
<1>5. arena'.head = BufferHead + size /\ arena'.tail = arena.tail
  BY <1>4 DEF Fields
<1>6. BufferHead + size \in Addresses /\ BufferHead <= BufferHead + size
  BY <1>3, <1>4, ArenaFacts DEF Addresses
<1> QED
  BY <1>4, <1>5, <1>6 DEF ArenaOrdered

\* In either case of a conditional grant.
LEMMA PersistentKeepsOrder ==
  ASSUME ArenaOrdered, NEW size \in 0 .. BufferHead, NEW alignment \in Nat \ {0},
         GrantPersistent(size, alignment) \/ UNCHANGED memory
  PROVE  ArenaOrdered' /\ arena'.head = arena.head
<1>1. CASE GrantPersistent(size, alignment)
  BY <1>1, GrantKeepsOrder
<1>2. CASE UNCHANGED memory
  BY <1>2 DEF memory, ArenaOrdered
<1> QED
  BY <1>1, <1>2

-----------------------------------------------------------------------------
(* The invariant holds at first *)

LEMMA Initially ==
  Init => IInv
<1> SUFFICES ASSUME Init PROVE IInv
  OBVIOUS
<1> DEFINE at == PersistentResult(NewArena, OverheadSize, StructAlignment)
<1>1. NewArena.tail = BufferTail /\ NewArena.head = BufferHead
  BY DEF NewArena, Fields
<1>2. BufferTail \in Addresses /\ BufferHead \in Addresses
  BY ArenaFacts DEF Addresses
<1>3. at \in Nat /\ at + OverheadSize <= BufferTail /\ BufferHead <= at
  <2>1. OverheadSize \in Nat /\ OverheadSize <= BufferHead
    BY SizeFacts, ArenaFacts
  <2> QED
    BY <1>1, <1>2, <2>1, ArenaFacts, SizeFacts, PersistentResultBound, OverheadAssumption
       DEF CanAllocatePersistentBuffer
<1>4. arena.head = BufferHead /\ arena.tail = at
  BY <1>1 DEF Init, AllocatePersistentBuffer, Fields
<1>5. persistent = {Block(at, OverheadSize)}
  BY <1>4 DEF Init
<1> HIDE DEF at
<1>6. ArenaOrdered
  <2>1. at \in Addresses /\ OverheadSize \in Nat
    BY <1>3, ArenaFacts, SizeFacts DEF Addresses
  <2> QED
    BY <1>2, <1>3, <1>4, <1>5, <2>1, ArenaFacts DEF ArenaOrdered, Block
<1>7. CallState
  <2>1. <<>> \in Seq(BufferRequests) /\ <<>> \in Seq(Requests) /\ Len(<<>>) = 0
    OBVIOUS
  <2>2. todo \in Seq(BufferRequests) /\ requests \in Seq(Requests) /\ Len(requests) = 0
    BY <2>1 DEF Init
  <2>3. op = 0 /\ pc = "idle" /\ model = NoModel /\ model_is_allocating_ = FALSE
    BY DEF Init
  <2>4. Len(requests) <= MaxRequests
    BY <2>2, SizeFacts
  <2>5. model_is_allocating_ \in BOOLEAN /\ model \in Models \cup {NoModel}
    BY <2>3
  <2> QED
    BY <2>2, <2>3, <2>4, <2>5 DEF CallState, Phases
<1>8. OverlayReserved
  BY <1>4, ArenaFacts DEF Init, OverlayReserved
<1> QED
  BY <1>6, <1>7, <1>8 DEF IInv

-----------------------------------------------------------------------------
(* The steps of an allocation, but for the one that reserves the overlay *)

\* What Tenancy sees of such a step: nothing, or a change of the overlay while
\* a model is being allocated.
Quiet ==
  /\ UNCHANGED <<model_is_allocating_, model, tenants>>
  /\ ~model_is_allocating_ => arena'.head = arena.head

LEMMA QuietKeepsOverlay ==
  ASSUME OverlayReserved, Quiet, UNCHANGED max_head_buffer_usage_, head_usage' \in Nat
  PROVE  OverlayReserved'
BY DEF OverlayReserved, Quiet

\* The operator that is being prepared is one of the model's.
LEMMA OperatorFacts ==
  ASSUME CallState, Preparing
  PROVE  /\ model.operators[op].subgraph \in Nat
         /\ model.operators[op].node \in Nat
<1>1. model \in Models
  BY DEF CallState, Preparing
<1>2. model.operators \in Seq([subgraph : Nat, node : Nat])
  BY <1>1, ModelFacts
<1>3. op \in 1 .. Len(model.operators)
  BY <1>2 DEF CallState, Preparing
<1>4. model.operators[op] \in [subgraph : Nat, node : Nat]
  BY <1>2, <1>3, ElementOfSeq
<1> QED
  BY <1>4

LEMMA KernelStep ==
  ASSUME AlignedArena, IInv, Kernel
  PROVE  IInv' /\ Quiet
<1> USE DEF IInv
<1>1. ASSUME NEW size \in KernelSizes, KernelPersistentBuffer(size)
      PROVE  IInv' /\ Quiet
  <2>1. ArenaOrdered' /\ arena'.head = arena.head
    BY <1>1, GrantKeepsOrder, SizeFacts DEF KernelPersistentBuffer
  <2>2. CallState'
    BY <1>1 DEF KernelPersistentBuffer, CallState, allocator
  <2>3. Quiet /\ OverlayReserved'
    BY <1>1, <2>1 DEF KernelPersistentBuffer, Quiet, OverlayReserved, allocator
  <2> QED
    BY <2>1, <2>2, <2>3
<1>2. ASSUME NEW size \in KernelSizes, KernelAllocatesTemp(size)
      PROVE  IInv' /\ Quiet
  <2>1. arena'.head = arena.head /\ arena'.tail = arena.tail /\ persistent' = persistent
    BY <1>2 DEF KernelAllocatesTemp, AllocateTemp, Fields
  <2>2. CallState'
    BY <1>2 DEF KernelAllocatesTemp, CallState, allocator
  <2>3. Quiet /\ OverlayReserved'
    BY <1>2, <2>1 DEF KernelAllocatesTemp, Quiet, OverlayReserved, allocator
  <2> QED
    BY <2>1, <2>2, <2>3, TempKeepsOrder
<1>3. ASSUME NEW t \in kernelTemps, KernelReturnsTemp(t)
      PROVE  IInv' /\ Quiet
  <2>1. arena'.head = arena.head /\ arena'.tail = arena.tail /\ persistent' = persistent
    BY <1>3 DEF KernelReturnsTemp, DeallocateTemp, Fields
  <2>2. CallState'
    BY <1>3 DEF KernelReturnsTemp, CallState, allocator
  <2>3. Quiet /\ OverlayReserved'
    BY <1>3, <2>1 DEF KernelReturnsTemp, Quiet, OverlayReserved, allocator
  <2> QED
    BY <2>1, <2>2, <2>3, TempKeepsOrder
<1>4. CASE RequestScratchBufferInArena
  <2>1. ArenaOrdered'
    BY <1>4 DEF RequestScratchBufferInArena, memory, ArenaOrdered
  <2>2. requests' \in Seq(Requests) /\ Len(requests') <= MaxRequests
    <3>1. model.operators[op].subgraph \in Nat
      BY <1>4, OperatorFacts DEF RequestScratchBufferInArena
    <3> DEFINE r == [subgraph_idx |-> model.operators[op].subgraph,
                     node_idx |-> kUnassigned, owner |-> op]
    <3>2. r \in Requests
      BY <3>1 DEF Requests, CallState
    <3>3. requests' = Append(requests, r) /\ Len(requests) < MaxRequests
      BY <1>4 DEF RequestScratchBufferInArena
    <3> HIDE DEF r
    <3> QED
      BY <3>2, <3>3, SizeFacts DEF CallState
  <2>3. CallState'
    BY <1>4, <2>2 DEF RequestScratchBufferInArena, CallState, allocator
  <2>4. Quiet /\ OverlayReserved'
    BY <1>4 DEF RequestScratchBufferInArena, Quiet, OverlayReserved, allocator, memory
  <2> QED
    BY <2>1, <2>3, <2>4
<1>5. CASE KernelFails
  <2>1. ArenaOrdered'
    BY <1>5 DEF KernelFails, memory, ArenaOrdered
  <2>2. CallState'
    BY <1>5 DEF KernelFails, Return, CallState, allocator, Phases
  <2>3. Quiet /\ OverlayReserved'
    BY <1>5 DEF KernelFails, Quiet, OverlayReserved, allocator, memory
  <2> QED
    BY <2>1, <2>2, <2>3
<1> QED
  BY <1>1, <1>2, <1>3, <1>4, <1>5 DEF Kernel

\* The phases in which persistent buffers are allocated one after the other.
LEMMA AllocateNextStep ==
  ASSUME AlignedArena, IInv, AllocateNext
  PROVE  IInv' /\ Quiet
<1> USE DEF IInv
<1>1. Head(todo).size \in 0 .. BufferHead /\ Head(todo).alignment \in Nat \ {0}
  <2>1. todo \in Seq(BufferRequests) /\ todo # <<>>
    BY DEF AllocateNext, CallState
  <2>2. Head(todo) \in BufferRequests
    BY <2>1
  <2> QED
    BY <2>2 DEF BufferRequests
<1>2. ArenaOrdered' /\ arena'.head = arena.head
  BY <1>1, PersistentKeepsOrder DEF AllocateNext
<1>3. todo' \in Seq(BufferRequests)
  <2>1. todo \in Seq(BufferRequests) /\ todo # <<>> /\ todo' \in {<<>>, Tail(todo)}
    BY DEF AllocateNext, CallState, Return
  <2>2. Tail(todo) \in Seq(BufferRequests)
    BY <2>1
  <2>3. <<>> \in Seq(BufferRequests)
    OBVIOUS
  <2> QED
    BY <2>1, <2>2, <2>3
<1>4. CallState'
  BY <1>3 DEF AllocateNext, CallState, Return, allocator, Phases
<1>5. Quiet /\ OverlayReserved'
  BY <1>2 DEF AllocateNext, Quiet, OverlayReserved, allocator
<1> QED
  BY <1>2, <1>4, <1>5

LEMMA InitScratchBufferDataStep ==
  ASSUME AlignedArena, IInv, InitScratchBufferData
  PROVE  IInv' /\ Quiet
<1> USE DEF IInv
<1>1. model_is_allocating_ /\ model \in Models /\ model.structs \in Seq(BufferRequests)
  BY ModelFacts DEF InitScratchBufferData, CallState
<1>2. ArenaOrdered'
  <2> DEFINE size == RequestSize * kMaxScratchBuffersPerOp
  <2>1. size \in Nat
    BY SizeFacts
  <2>2. CASE UNCHANGED arena
    BY <2>2 DEF InitScratchBufferData, ArenaOrdered
  <2>3. CASE CanSetHeadSection(arena, size, StructAlignment)
    BY <2>1, <2>3, ResizeKeepsOrder DEF InitScratchBufferData, CanSetHeadSection
  <2> QED
    BY <2>2, <2>3 DEF InitScratchBufferData
<1>3. requests' \in Seq(Requests) /\ Len(requests') <= MaxRequests
  <2>1. requests' = <<>>
    BY DEF InitScratchBufferData
  <2>2. <<>> \in Seq(Requests) /\ Len(<<>>) = 0
    OBVIOUS
  <2> QED
    BY <2>1, <2>2, SizeFacts
<1>4. CallState'
  <2>1. \/ todo' = model.structs /\ pc' = "structs"
        \/ todo' = <<>> /\ pc' = "idle"
    BY DEF InitScratchBufferData, Return
  <2>2. todo' \in Seq(BufferRequests)
    <3>1. <<>> \in Seq(BufferRequests)
      OBVIOUS
    <3> QED
      BY <1>1, <2>1, <3>1
  <2>3. UNCHANGED <<model_is_allocating_, model, op>>
    BY DEF InitScratchBufferData
  <2> QED
    BY <1>1, <1>3, <2>1, <2>2, <2>3 DEF CallState, Phases
<1>5. Quiet /\ OverlayReserved'
  BY <1>1 DEF InitScratchBufferData, Quiet, OverlayReserved
<1> QED
  BY <1>2, <1>4, <1>5

\* Steps that leave the memory alone and go on to another phase.
LEMMA PhaseStep ==
  ASSUME AlignedArena, IInv,
         \/ StructsAllocated \/ InitSubgraphsDone \/ AllocateScratchBufferHandles
         \/ ModelRejected \/ CreateAndCommitPlan \/ AllocateTensorsDone
  PROVE  IInv' /\ Quiet
<1> USE DEF IInv
<1> DEFINE handles == <<Buffer(HandleSize * Len(requests), StructAlignment)>>
<1>1. UNCHANGED <<memory, allocator, requests, model, tenants>>
  BY DEF StructsAllocated, InitSubgraphsDone, AllocateScratchBufferHandles,
         ModelRejected, CreateAndCommitPlan, AllocateTensorsDone
<1>2. handles \in Seq(BufferRequests)
  <2>1. Len(requests) \in 0 .. MaxRequests
    BY SizeFacts DEF CallState
  <2>2. HandleSize * Len(requests) \in 0 .. BufferHead
    BY <2>1, SizeFacts
  <2>3. Buffer(HandleSize * Len(requests), StructAlignment) \in BufferRequests
    BY <2>2, SizeFacts DEF Buffer, BufferRequests
  <2> QED
    BY <2>3
<1>3. head_usage' \in Nat
  <2>1. CASE CreateAndCommitPlan
    <3>1. model \in Models
      BY <2>1 DEF CreateAndCommitPlan, CallState
    <3> QED
      BY <2>1, <3>1, ModelFacts DEF CreateAndCommitPlan, OverlayReserved
  <2>2. CASE ~CreateAndCommitPlan
    BY <2>2 DEF StructsAllocated, InitSubgraphsDone, AllocateScratchBufferHandles,
                ModelRejected, AllocateTensorsDone, OverlayReserved
  <2> QED
    BY <2>1, <2>2
<1>4. ArenaOrdered' /\ Quiet /\ OverlayReserved'
  BY <1>1, <1>3 DEF memory, allocator, ArenaOrdered, Quiet, OverlayReserved
<1> HIDE DEF handles
<1>5. todo' \in {todo, <<>>, handles}
  BY DEF StructsAllocated, InitSubgraphsDone, AllocateScratchBufferHandles,
         ModelRejected, CreateAndCommitPlan, AllocateTensorsDone, Return, handles
<1>6. todo' \in Seq(BufferRequests)
  <2>1. <<>> \in Seq(BufferRequests) /\ todo \in Seq(BufferRequests)
    BY DEF CallState
  <2> QED
    BY <1>2, <1>5, <2>1
<1>7. op' \in Nat /\ (pc' = "prepare" => op' > 0) /\ pc' \in Phases
  BY DEF StructsAllocated, InitSubgraphsDone, AllocateScratchBufferHandles,
         ModelRejected, CreateAndCommitPlan, AllocateTensorsDone, Return, CallState, Phases
<1>8. pc' \notin {"idle", "tensors"} => model_is_allocating_
  BY DEF StructsAllocated, InitSubgraphsDone, AllocateScratchBufferHandles,
         ModelRejected, CreateAndCommitPlan, AllocateTensorsDone, Return, CallState
<1>9. CallState'
  BY <1>1, <1>6, <1>7, <1>8 DEF allocator, CallState
<1> QED
  BY <1>4, <1>9

LEMMA SeqOfDomain ==
  ASSUME NEW S, NEW n \in Nat, NEW s \in [1 .. n -> S]
  PROVE  s \in Seq(S) /\ Len(s) = n
OBVIOUS

\* A step of FinishPrepareNodeAllocations may set the head section anew, but it
\* never moves the requests.
LEMMA FinishPrepareNodeStep ==
  ASSUME AlignedArena, IInv, FinishPrepareNodeAllocations
  PROVE  IInv' /\ Quiet
<1> USE DEF IInv
<1>1. model_is_allocating_ /\ UNCHANGED <<persistent, allocator, pc, model, todo, tenants>>
  BY DEF FinishPrepareNodeAllocations, Preparing, CallState
<1>2. ArenaOrdered'
  <2> DEFINE rewound == ResetTempAllocations(arena)
             resizable == CanResizeBuffer(rewound, scratch_buffer_head_, RoomForNext,
                                          StructAlignment)
  <2>1. rewound.head = arena.head /\ rewound.tail = arena.tail
    BY DEF ResetTempAllocations, Fields
  <2>2. RoomForNext \in Nat
    BY SizeFacts DEF RoomForNext, CallState
  <2>3. CASE UNCHANGED arena
    BY <1>1, <2>3, TempKeepsOrder
  <2>4. CASE arena' = rewound
    BY <1>1, <2>1, <2>4, TempKeepsOrder
  <2>5. CASE resizable /\ arena' = ResizeBuffer(rewound, RoomForNext, StructAlignment)
    BY <1>1, <2>1, <2>2, <2>5, ResizeKeepsOrder
  <2>6. \/ UNCHANGED arena
        \/ arena' = rewound
        \/ resizable /\ arena' = ResizeBuffer(rewound, RoomForNext, StructAlignment)
    BY DEF FinishPrepareNodeAllocations
  <2> QED
    BY <2>3, <2>4, <2>5, <2>6
<1>3. requests' \in Seq(Requests) /\ Len(requests') <= MaxRequests
  <2> DEFINE node == model.operators[op].node
  <2>1. node \in Nat
    BY OperatorFacts DEF FinishPrepareNodeAllocations
  <2> HIDE DEF node
  <2>2. requests' = requests \/ requests' = Assigned(node)
    BY DEF FinishPrepareNodeAllocations, node
  <2>3. requests \in Seq(Requests) /\ Len(requests) <= MaxRequests
    BY DEF CallState
  <2>4. \A k \in DOMAIN requests : requests[k] \in Requests
    BY <2>3, ElementOfSeq
  <2>5. \A k \in DOMAIN requests : [requests[k] EXCEPT !.node_idx = node] \in Requests
    BY <2>1, <2>4 DEF Requests
  <2>6. \A k \in DOMAIN requests : Assigned(node)[k] \in Requests
    BY <2>4, <2>5 DEF Assigned
  <2>7. DOMAIN requests = 1 .. Len(requests) /\ Len(requests) \in Nat
    BY <2>3
  <2>8. Assigned(node) \in [1 .. Len(requests) -> Requests]
    BY <2>6, <2>7 DEF Assigned
  <2>9. Assigned(node) \in Seq(Requests) /\ Len(Assigned(node)) = Len(requests)
    BY <2>7, <2>8, SeqOfDomain
  <2> QED
    BY <2>2, <2>3, <2>9
<1>4. op' \in Nat /\ op' > 0
  BY DEF FinishPrepareNodeAllocations, NextOperator, CallState
<1>5. CallState'
  BY <1>1, <1>3, <1>4 DEF CallState, allocator
<1>6. Quiet /\ OverlayReserved'
  BY <1>1 DEF FinishPrepareNodeAllocations, Quiet, OverlayReserved, allocator
<1> QED
  BY <1>2, <1>5, <1>6

\* Temp buffers for the plan, and their release.
LEMMA PlanningTempStep ==
  ASSUME AlignedArena, IInv, NEW size, NEW alignment, NEW next \in Phases,
         PlanningTemp(size, alignment, next), model_is_allocating_,
         todo' \in Seq(BufferRequests), next # "prepare"
  PROVE  IInv' /\ Quiet
<1> USE DEF IInv
<1>1. arena'.head = arena.head /\ arena'.tail = arena.tail /\ persistent' = persistent
  BY DEF PlanningTemp, AllocateTemp, Fields
<1>2. CallState'
  BY DEF PlanningTemp, CallState, allocator, Phases
<1>3. Quiet /\ OverlayReserved'
  BY <1>1 DEF PlanningTemp, Quiet, OverlayReserved, allocator
<1> QED
  BY <1>1, <1>2, <1>3, TempKeepsOrder

LEMMA PlanningStep ==
  ASSUME AlignedArena, IInv,
         CreateSubgraphOffsets \/ CreateAllocationInfo \/ AllocatePlannerArena
  PROVE  IInv' /\ Quiet
<1> USE DEF IInv
<1>1. model_is_allocating_ /\ model \in Models
  BY DEF CreateSubgraphOffsets, CreateAllocationInfo, AllocatePlannerArena, CallState
<1>2. todo' \in Seq(BufferRequests)
  <2>1. todo \in Seq(BufferRequests) /\ model.variables \in Seq(BufferRequests)
    BY <1>1, ModelFacts DEF CallState
  <2>2. todo' \in {todo, <<>>, model.variables}
    BY DEF CreateSubgraphOffsets, CreateAllocationInfo, AllocatePlannerArena
  <2>3. <<>> \in Seq(BufferRequests)
    OBVIOUS
  <2> QED
    BY <2>1, <2>2, <2>3
<1>3. {"info", "variables", "plan"} \subseteq Phases
  BY DEF Phases
<1>4. CASE CreateSubgraphOffsets
  BY <1>1, <1>2, <1>3, <1>4, PlanningTempStep DEF CreateSubgraphOffsets
<1>5. CASE CreateAllocationInfo
  BY <1>1, <1>2, <1>3, <1>5, PlanningTempStep DEF CreateAllocationInfo
<1>6. CASE AllocatePlannerArena
  BY <1>1, <1>2, <1>3, <1>6, PlanningTempStep DEF AllocatePlannerArena
<1> QED
  BY <1>4, <1>5, <1>6

LEMMA FreePlanningMemoryStep ==
  ASSUME AlignedArena, IInv, FreePlanningMemory
  PROVE  IInv' /\ Quiet
<1> USE DEF IInv
<1>1. arena'.head = arena.head /\ arena'.tail = arena.tail /\ persistent' = persistent
  BY DEF FreePlanningMemory, PlanningFreed, DeallocateTemp, Fields
<1>2. CallState'
  BY DEF FreePlanningMemory, CallState, allocator, Phases
<1>3. Quiet /\ OverlayReserved'
  BY <1>1 DEF FreePlanningMemory, Quiet, OverlayReserved, allocator
<1> QED
  BY <1>1, <1>2, <1>3, TempKeepsOrder

LEMMA ReleaseHeadStep ==
  ASSUME AlignedArena, IInv, ReleaseHead
  PROVE  IInv' /\ Quiet
<1> USE DEF IInv
<1> DEFINE rewound == ResetTempAllocations(arena)
<1>1. model_is_allocating_
  BY DEF ReleaseHead, CallState
<1>2. rewound.head = arena.head /\ rewound.tail = arena.tail
  BY DEF ResetTempAllocations, Fields
<1>3. ArenaOrdered'
  <2>1. CASE arena' \in {arena, rewound}
    BY <1>2, <2>1, TempKeepsOrder DEF ReleaseHead
  <2>2. CASE /\ CanDeallocateResizableBuffer(rewound, scratch_buffer_head_)
             /\ arena' = DeallocateResizableBuffer(rewound)
    BY <1>2, <2>2, ResizeKeepsOrder
       DEF ReleaseHead, CanDeallocateResizableBuffer, DeallocateResizableBuffer
  <2> QED
    BY <2>1, <2>2 DEF ReleaseHead
<1>4. CallState'
  BY <1>1 DEF ReleaseHead, CallState, allocator, Phases
<1>5. Quiet /\ OverlayReserved'
  BY <1>1 DEF ReleaseHead, Quiet, OverlayReserved, allocator
<1> QED
  BY <1>3, <1>4, <1>5

-----------------------------------------------------------------------------
(* The beginning and the end of an allocation *)

LEMMA StartStep ==
  ASSUME AlignedArena, IInv, NEW m \in Models, StartModelAllocation(m)
  PROVE  /\ IInv'
         /\ ~model_is_allocating_ /\ model_is_allocating_' /\ model' = m
         /\ UNCHANGED tenants
<1> USE DEF IInv
<1>1. ArenaOrdered' /\ arena'.head = arena.head
  BY SizeFacts, PersistentKeepsOrder DEF StartModelAllocation
<1>2. /\ ~model_is_allocating_ /\ model_is_allocating_' = TRUE /\ model' = m
      /\ UNCHANGED <<max_head_buffer_usage_, requests, todo, head_usage, tenants>>
  BY DEF StartModelAllocation, CanStart
<1>3. op' = 0 /\ pc' \in {"scratch", "idle"}
  BY DEF StartModelAllocation
<1>4. CallState'
  <2>1. model' \in Models \cup {NoModel} /\ model_is_allocating_' \in BOOLEAN
    BY <1>2
  <2>2. todo' \in Seq(BufferRequests)
    BY <1>2 DEF CallState
  <2>3. requests' \in Seq(Requests) /\ Len(requests') <= MaxRequests
    BY <1>2 DEF CallState
  <2> QED
    BY <1>2, <1>3, <2>1, <2>2, <2>3 DEF CallState, Phases
<1>5. OverlayReserved'
  BY <1>2 DEF OverlayReserved
<1> QED
  BY <1>1, <1>2, <1>4, <1>5

\* The model becomes a tenant, with a head section as large as the largest plan.
Finishes ==
  /\ model_is_allocating_ /\ ~model_is_allocating_' /\ model' = model
  /\ tenants' = tenants \cup {[model |-> model, size |-> head_usage]}

LEMMA ReserveOverlayStep ==
  ASSUME AlignedArena, IInv, ReserveOverlay
  PROVE  IInv' /\ (Quiet \/ Finishes)
<1> USE DEF IInv
<1>1. model_is_allocating_ /\ model \in Models /\ model.io \in Seq(BufferRequests)
  BY ModelFacts DEF ReserveOverlay, CallState
<1>2. /\ LargestUsage \in Nat /\ head_usage <= LargestUsage
      /\ max_head_buffer_usage_ <= LargestUsage
  BY DEF LargestUsage, OverlayReserved
<1>3. /\ max_head_buffer_usage_' = LargestUsage
      /\ UNCHANGED <<persistent, requests, model, op, head_usage>>
  BY DEF ReserveOverlay
<1>4. requests' \in Seq(Requests) /\ Len(requests') <= MaxRequests
  BY <1>3 DEF CallState
<1>5. CASE Return /\ UNCHANGED <<arena, model_is_allocating_, tenants>>
  <2>1. ArenaOrdered' /\ Quiet
    BY <1>1, <1>3, <1>5 DEF ArenaOrdered, Quiet
  <2>2. CallState'
    <3>1. todo' \in Seq(BufferRequests) /\ pc' = "idle"
      BY <1>5 DEF Return
    <3> QED
      BY <1>1, <1>3, <1>4, <1>5, <3>1 DEF CallState, Phases
  <2>3. OverlayReserved'
    BY <1>1, <1>2, <1>3, <1>5 DEF OverlayReserved
  <2> QED
    BY <2>1, <2>2, <2>3
<1>6. CASE /\ CanSetHeadSection(arena, LargestUsage, BufferAlignment)
           /\ arena' = ResizeBuffer(arena, LargestUsage, BufferAlignment)
           /\ model_is_allocating_' = FALSE
           /\ tenants' = tenants \cup {[model |-> model, size |-> head_usage]}
           /\ pc' = "tensors" /\ todo' = model.io
  <2>1. ArenaOrdered' /\ arena'.head = BufferHead + LargestUsage
    BY <1>2, <1>3, <1>6, ResizeKeepsOrder DEF CanSetHeadSection
  <2>2. Finishes
    BY <1>1, <1>3, <1>6 DEF Finishes
  <2>3. CallState'
    <3>1. todo' \in Seq(BufferRequests)
      BY <1>1, <1>6
    <3>2. model' \in Models \cup {NoModel} /\ model_is_allocating_' \in BOOLEAN
      BY <1>1, <1>3, <1>6
    <3> QED
      BY <1>3, <1>4, <1>6, <3>1, <3>2 DEF CallState, Phases
  <2>4. OverlayReserved'
    <3>1. ASSUME NEW t \in tenants' PROVE t.size \in Nat /\ t.size <= LargestUsage
      BY <1>2, <1>6 DEF OverlayReserved
    <3> QED
      BY <1>2, <1>3, <2>1, <3>1 DEF OverlayReserved
  <2> QED
    BY <2>1, <2>2, <2>3, <2>4
<1> QED
  BY <1>5, <1>6 DEF ReserveOverlay

-----------------------------------------------------------------------------
(* Together *)

LEMMA FrameworkStep ==
  ASSUME AlignedArena, IInv, Framework
  PROVE  IInv' /\ (Quiet \/ Finishes)
<1>1. CASE ReserveOverlay
  BY <1>1, ReserveOverlayStep
<1>2. CASE \/ StructsAllocated \/ InitSubgraphsDone \/ AllocateScratchBufferHandles
           \/ ModelRejected \/ CreateAndCommitPlan \/ AllocateTensorsDone
  BY <1>2, PhaseStep
<1>3. CASE CreateSubgraphOffsets \/ CreateAllocationInfo \/ AllocatePlannerArena
  BY <1>3, PlanningStep
<1>4. CASE AllocateNext \/ InitScratchBufferData \/ FinishPrepareNodeAllocations
  BY <1>4, AllocateNextStep, InitScratchBufferDataStep, FinishPrepareNodeStep
<1>5. CASE FreePlanningMemory \/ ReleaseHead
  BY <1>5, FreePlanningMemoryStep, ReleaseHeadStep
<1> QED
  BY <1>1, <1>2, <1>3, <1>4, <1>5 DEF Framework

LEMMA StutterStep ==
  ASSUME IInv, UNCHANGED vars
  PROVE  IInv' /\ Quiet
BY DEF IInv, ArenaOrdered, CallState, OverlayReserved, Quiet, vars, memory, allocator

LEMMA Inductive ==
  ASSUME AlignedArena, IInv, [Next]_vars
  PROVE  IInv'
BY StartStep, KernelStep, FrameworkStep, StutterStep DEF Next

\* IInv holds throughout, in an arena that starts at an aligned address: the
\* head section ends where the largest plan does, whenever none is made.
THEOREM InvariantHolds ==
  ASSUME AlignedArena
  PROVE  Spec => []IInv
<1>1. Init => IInv
  BY Initially
<1>2. IInv /\ [Next]_vars => IInv'
  BY Inductive
<1> QED
  BY <1>1, <1>2, PTL DEF Spec

\* No tenant's plan reaches the buffers from before the allocation under way, or
\* from before the one that has failed for good.
PlansBelowOwned ==
  /\ owned \subseteq persistent
  /\ \A t \in tenants, b \in owned : BufferHead + t.size <= b.at

\* Between two allocations the plans lie below all persistent buffers.
LEMMA PlansBelowPersistent ==
  ASSUME IInv, ~model_is_allocating_, NEW t \in tenants
  PROVE  /\ t.size \in Nat /\ BufferHead + t.size <= arena.head
         /\ \A b \in persistent : BufferHead + t.size <= b.at
<1>1. t.size \in Nat /\ BufferHead + t.size <= arena.head
  BY ArenaFacts DEF IInv, OverlayReserved
<1>2. \A b \in persistent : BufferHead + t.size <= b.at
  BY <1>1, ArenaFacts DEF IInv, ArenaOrdered, Addresses
<1> QED
  BY <1>1, <1>2

\* Persistent buffers are never taken back.
LEMMA PersistentGrows ==
  ASSUME [Next]_vars
  PROVE  persistent \subseteq persistent'
<1>1. CASE Kernel
  BY <1>1 DEF Kernel, KernelPersistentBuffer, GrantPersistent, KernelAllocatesTemp,
              KernelReturnsTemp, RequestScratchBufferInArena, KernelFails, memory
<1>2. CASE Framework
  BY <1>2 DEF Framework, InitScratchBufferData, AllocateNext, GrantPersistent,
              StructsAllocated, InitSubgraphsDone, FinishPrepareNodeAllocations,
              AllocateScratchBufferHandles, CreateSubgraphOffsets, CreateAllocationInfo,
              AllocatePlannerArena, PlanningTemp, ModelRejected, CreateAndCommitPlan,
              FreePlanningMemory, ReleaseHead, ReserveOverlay, AllocateTensorsDone, memory
<1>3. ASSUME NEW m \in Models, StartModelAllocation(m)
      PROVE  persistent \subseteq persistent'
  BY <1>3 DEF StartModelAllocation, GrantPersistent, memory
<1>4. CASE UNCHANGED vars
  BY <1>4 DEF vars, memory
<1> QED
  BY <1>1, <1>2, <1>3, <1>4 DEF Next

LEMMA OwnedStays ==
  ASSUME Kernel \/ Framework \/ UNCHANGED vars
  PROVE  UNCHANGED owned
<1>1. CASE Kernel
  BY <1>1 DEF Kernel, KernelPersistentBuffer, KernelAllocatesTemp,
              KernelReturnsTemp, RequestScratchBufferInArena, KernelFails
<1>2. CASE Framework
  BY <1>2 DEF Framework, InitScratchBufferData, AllocateNext,
              StructsAllocated, InitSubgraphsDone, FinishPrepareNodeAllocations,
              AllocateScratchBufferHandles, CreateSubgraphOffsets, CreateAllocationInfo,
              AllocatePlannerArena, PlanningTemp, ModelRejected, CreateAndCommitPlan,
              FreePlanningMemory, ReleaseHead, ReserveOverlay, AllocateTensorsDone
<1> QED
  BY <1>1, <1>2 DEF vars

LEMMA PlansBelowOwnedStep ==
  ASSUME AlignedArena, IInv, PlansBelowOwned, [Next]_vars
  PROVE  PlansBelowOwned'
<1>1. IInv' /\ persistent \subseteq persistent'
  BY Inductive, PersistentGrows
<1>2. ASSUME NEW m \in Models, StartModelAllocation(m) PROVE PlansBelowOwned'
  <2>1. owned' = persistent /\ UNCHANGED tenants /\ ~model_is_allocating_
    BY <1>2 DEF StartModelAllocation, CanStart
  <2> QED
    BY <1>1, <2>1, PlansBelowPersistent DEF PlansBelowOwned
<1>3. CASE Kernel \/ Framework \/ UNCHANGED vars
  <2>1. UNCHANGED owned /\ (Quiet \/ Finishes)
    BY <1>3, OwnedStays, KernelStep, FrameworkStep, StutterStep
  <2>2. CASE Quiet
    BY <1>1, <2>1, <2>2 DEF Quiet, PlansBelowOwned
  <2>3. CASE Finishes
    <3>1. ASSUME NEW t \in tenants', NEW b \in persistent'
          PROVE  BufferHead + t.size <= b.at
      <4>1. t.size \in Nat /\ t.size <= max_head_buffer_usage_'
        BY <1>1, <3>1 DEF IInv, OverlayReserved
      <4>2. /\ arena'.head = BufferHead + max_head_buffer_usage_'
            /\ max_head_buffer_usage_' \in Nat
        BY <1>1, <2>3 DEF IInv, OverlayReserved, Finishes
      <4>3. /\ b.at \in Nat /\ arena'.tail <= b.at /\ arena'.head <= arena'.tail
            /\ arena'.tail \in Int
        BY <1>1, <3>1, ArenaFacts DEF IInv, ArenaOrdered, Addresses
      <4> QED
        BY <4>1, <4>2, <4>3, ArenaFacts
    <3> QED
      BY <1>1, <2>1, <3>1 DEF PlansBelowOwned
  <2> QED
    BY <2>1, <2>2, <2>3
<1> QED
  BY <1>2, <1>3 DEF Next

\* Between two allocations the plan of every tenant is in the head section, away
\* from the persistent buffers of all models; and while another model is being
\* allocated, or after its allocation has failed and left the allocator busy for
\* good, the plans are still away from all that was persistent before.
THEOREM PlansStayReserved ==
  ASSUME AlignedArena
  PROVE  Spec => []TenantsIntact
<1>1. Init => PlansBelowOwned
  BY DEF Init, PlansBelowOwned
<1>2. IInv /\ PlansBelowOwned => TenantsIntact
  <2> SUFFICES ASSUME IInv, PlansBelowOwned, NEW t \in tenants
               PROVE  /\ ~model_is_allocating_ =>
                           /\ BufferHead + t.size <= arena.head
                           /\ \A b \in persistent : Apart(PlanOf(t), b)
                      /\ \A b \in owned : Apart(PlanOf(t), b)
    BY DEF TenantsIntact
  <2>1. \A b : BufferHead + t.size <= b.at => Apart(PlanOf(t), b)
    BY DEF Apart, PlanOf, Block
  <2> QED
    BY <2>1, PlansBelowPersistent DEF PlansBelowOwned
<1> QED
  BY <1>1, <1>2, PlansBelowOwnedStep, InvariantHolds, PTL DEF Spec

\* Every step of an allocation is one that Tenancy allows: an allocation begins
\* only when no other is under way, only a finished one makes a tenant, and
\* then the overlay holds the plan of every tenant.
THEOREM Implements ==
  ASSUME AlignedArena
  PROVE  Spec => KeepsTenancy
<1>1. Init => Contract!Init
  <2> SUFFICES ASSUME Init PROVE Contract!Init
    OBVIOUS
  <2>1. arena.head - BufferHead = 0
    BY ArenaFacts DEF Init, AllocatePersistentBuffer, NewArena, Fields
  <2>2. tenants = {} /\ ~model_is_allocating_
    BY DEF Init
  <2> QED
    BY <2>1, <2>2 DEF Contract!Init
<1>2. IInv /\ [Next]_vars => [Contract!Next]_(Contract!tenancyVars)
  <2> SUFFICES ASSUME IInv, [Next]_vars
               PROVE  Contract!Next \/ UNCHANGED Contract!tenancyVars
    OBVIOUS
  <2>1. IInv'
    BY Inductive
  <2>2. arena.head - BufferHead \in Nat /\ (arena.head - BufferHead)' \in Nat
    BY <2>1, ArenaFacts DEF IInv, ArenaOrdered, Addresses
  <2>3. model_is_allocating_ => model \in Models /\ model # NoModel
    BY ModelFacts DEF IInv, CallState
  <2>4. ASSUME NEW m \in Models, StartModelAllocation(m) PROVE Contract!Begin
    <3>1. m # NoModel
      BY ModelFacts
    <3> QED
      BY <2>2, <2>4, StartStep DEF Contract!Begin
  <2>5. CASE Quiet
    <3>1. CASE model_is_allocating_
      BY <2>2, <2>3, <2>5, <3>1 DEF Quiet, Contract!Next, Contract!Work
    <3>2. CASE ~model_is_allocating_
      BY <2>5, <3>2 DEF Quiet, Contract!tenancyVars
    <3> QED
      BY <3>1, <3>2
  <2>6. CASE Finishes
    <3>1. \A t \in tenants' : t.size <= (arena.head - BufferHead)'
      BY <2>1, <2>6, ArenaFacts DEF IInv, OverlayReserved, Finishes
    <3> QED
      BY <2>2, <2>3, <2>6, <3>1 DEF Finishes, Contract!Next, Contract!Finish
  <2> QED
    BY <2>4, <2>5, <2>6, KernelStep, FrameworkStep, StutterStep DEF Next, Contract!Next
<1> QED
  BY <1>1, <1>2, InvariantHolds, PTL DEF Spec, KeepsTenancy, Contract!Spec
-----------------------------------------------------------------------------
(* The temp buffers: what keeps them, and the head section, off one another *)

\* Every temp buffer that has not been given back is counted.
TempsCounted ==
  /\ arena.tail <= BufferTail /\ arena.temp \in Addresses
  /\ planning \in Seq(Blocks) /\ IsFiniteSet(kernelTemps)
  /\ arena.count = Cardinality(kernelTemps) + Len(planning)

\* No temp buffer is in use, and the chain of temp buffers is empty.
NoTemps == kernelTemps = {} /\ planning = <<>> /\ arena.temp = arena.head

\* Between two users of temp buffers, as long as no failure has been ignored.
Resting ==
  \/ ~model_is_allocating_
  \/ pc \in {"scratch", "structs", "init", "reserve", "tensors"}
  \/ pc = "prepare" /\ ~Preparing /\ ~ignored
  \/ pc = "handles" /\ ~ignored

NoTempsBetween == Resting => NoTemps

\* What kernels have not given back lies between the head section and the end of
\* the chain, which does not wrap.
KernelChain ==
  pc = "prepare" =>
    /\ planning = <<>>
    /\ arena.head <= arena.temp
    /\ \A t \in kernelTemps :
         /\ t.at \in Nat /\ t.size \in Nat \ {0}
         /\ arena.head <= t.at /\ t.at + t.size <= arena.temp

PlanningTemps == [handles |-> 0, info |-> 1, variables |-> 2, plan |-> 3, free |-> 3,
                  release |-> 0]

\* The temp buffers of the plan lie above the head section.
PlanningChain ==
  pc \in DOMAIN PlanningTemps =>
    /\ Len(planning) = PlanningTemps[pc]
    /\ ~ignored =>
         /\ kernelTemps = {}
         /\ \A k \in DOMAIN planning : arena.head <= planning[k].at
         /\ pc \in {"info", "variables"} => arena.head <= arena.temp
         /\ pc = "info" =>
              arena.temp < BufferTail + StructAlignment + OffsetSize * model.subgraphs

TempsInv == TempsCounted /\ NoTempsBetween /\ KernelChain /\ PlanningChain

\* Rounding up never moves down.
LEMMA AlignUpBound ==
  ASSUME NEW p \in Nat \ {0}, NEW alignment \in Nat \ {0}
  PROVE  /\ AlignPointerUp(p, alignment) \in Nat
         /\ p <= AlignPointerUp(p, alignment)
         /\ AlignPointerUp(p, alignment) < p + alignment
<1> DEFINE n == p + alignment - 1
<1>1. n \in Nat /\ p # nullptr /\ alignment # 0
  OBVIOUS
<1>2. AlignPointerUp(p, alignment) = (n \div alignment) * alignment
  BY <1>1 DEF AlignPointerUp
<1>3. \A i \in Nat : /\ (i \div alignment) * alignment \in Nat
                     /\ (i \div alignment) * alignment <= i
                     /\ i < (i \div alignment) * alignment + alignment
  OBVIOUS
<1>4. /\ (n \div alignment) * alignment \in Nat
      /\ (n \div alignment) * alignment <= n
      /\ n < (n \div alignment) * alignment + alignment
  BY <1>1, <1>3
<1> HIDE DEF n
<1>5. n = p + alignment - 1
  BY DEF n
<1> DEFINE m == (n \div alignment) * alignment
<1>6. m \in Nat /\ m <= n /\ n < m + alignment /\ AlignPointerUp(p, alignment) = m
  BY <1>2, <1>4
<1> HIDE DEF m
<1> QED
  BY <1>5, <1>6

\* A temp buffer lies at the end of the chain or a little above it.
LEMMA TempBound ==
  ASSUME NEW temp \in Nat, BufferHead <= temp, NEW alignment \in Nat \ {0},
         NEW size \in Nat, temp + alignment + size <= AddressSpace
  PROVE  /\ AlignPointerUp(temp, alignment) \in Nat
         /\ temp <= AlignPointerUp(temp, alignment)
         /\ Wrapped(AlignPointerUp(temp, alignment) + size)
              = AlignPointerUp(temp, alignment) + size
         /\ AlignPointerUp(temp, alignment) + size < temp + alignment + size
<1> DEFINE at == AlignPointerUp(temp, alignment)
<1>1. temp \in Nat \ {0}
  BY ArenaFacts
<1>2. at \in Nat /\ temp <= at /\ at < temp + alignment
  BY <1>1, AlignUpBound
<1> HIDE DEF at
<1>3. at + size \in 0 .. AddressSpace - 1
  BY <1>2, ArenaFacts
<1>4. Wrapped(at + size) = at + size
  BY <1>3, ArenaFacts DEF Wrapped
<1> QED
  BY <1>2, <1>4 DEF at

\* A step that leaves the temp buffers alone.
LEMMA TempsUntouched ==
  ASSUME TempsInv, UNCHANGED <<kernelTemps, planning, arena.head, arena.temp, arena.count>>,
         arena'.tail \in Int, arena'.tail <= arena.tail, arena.tail \in Int,
         Resting' => Resting,
         pc' = "prepare" => pc = "prepare" \/ Resting,
         pc' \in DOMAIN PlanningTemps =>
           \/ UNCHANGED <<pc, ignored, model>>
           \/ pc = "plan" /\ pc' = "free" /\ UNCHANGED ignored
           \/ pc = "prepare" /\ ~Preparing /\ pc' = "handles" /\ UNCHANGED ignored
  PROVE  TempsInv'
<1>1. TempsCounted'
  BY ArenaFacts DEF TempsInv, TempsCounted
<1>2. NoTempsBetween'
  BY DEF TempsInv, NoTempsBetween, NoTemps
<1>3. KernelChain'
  <2> SUFFICES ASSUME pc' = "prepare" PROVE KernelChain'
    BY DEF KernelChain
  <2>1. CASE pc = "prepare"
    BY <2>1 DEF TempsInv, KernelChain
  <2>2. CASE Resting
    BY <2>2 DEF TempsInv, TempsCounted, KernelChain, NoTempsBetween, NoTemps, Addresses
  <2> QED
    BY <2>1, <2>2
<1>4. PlanningChain'
  <2> SUFFICES ASSUME pc' \in DOMAIN PlanningTemps PROVE PlanningChain'
    BY DEF PlanningChain
  <2>1. CASE UNCHANGED <<pc, ignored, model>>
    BY <2>1 DEF TempsInv, PlanningChain
  <2>2. CASE pc = "plan" /\ pc' = "free" /\ UNCHANGED ignored
    BY <2>2 DEF TempsInv, PlanningChain, PlanningTemps
  <2>3. CASE pc = "prepare" /\ ~Preparing /\ pc' = "handles" /\ UNCHANGED ignored
    <3>1. planning = <<>> /\ (~ignored => kernelTemps = {})
      BY <2>3 DEF TempsInv, KernelChain, NoTempsBetween, NoTemps, Resting
    <3>2. DOMAIN planning = {} /\ Len(planning) = 0
      BY <3>1
    <3> QED
      BY <2>3, <3>1, <3>2 DEF PlanningChain, PlanningTemps
  <2> QED
    BY <2>1, <2>2, <2>3
<1> QED
  BY <1>1, <1>2, <1>3, <1>4 DEF TempsInv

\* A persistent buffer is taken from below the tail, or nothing is.
LEMMA GrantKeepsTemps ==
  ASSUME ArenaOrdered, NEW size \in 0 .. BufferHead, NEW alignment \in Nat \ {0},
         GrantPersistent(size, alignment) \/ UNCHANGED memory
  PROVE  /\ UNCHANGED <<arena.head, arena.temp, arena.count>>
         /\ arena.tail \in Int /\ arena'.tail \in Int /\ arena'.tail <= arena.tail
<1> DEFINE at == PersistentResult(arena, size, alignment)
<1>1. at \in Nat /\ at + size <= arena.tail /\ arena.tail \in Int
  BY PersistentResultBound, ArenaFacts DEF ArenaOrdered, Addresses
<1> HIDE DEF at
<1>2. CASE GrantPersistent(size, alignment)
  <2>1. arena' = Fields(arena.head, at, arena.temp, arena.count, arena.checkSum)
    BY <1>2 DEF GrantPersistent, AllocatePersistentBuffer, at
  <2> QED
    BY <1>1, <2>1, ArenaFacts DEF Fields
<1>3. CASE UNCHANGED memory
  BY <1>1, <1>3 DEF memory
<1> QED
  BY <1>2, <1>3

\* Kernels take temp buffers from the end of the chain, give them back in any
\* order, and take persistent buffers meanwhile.
LEMMA KernelKeepsTemps ==
  ASSUME IInv, TempsInv, Kernel
  PROVE  TempsInv'
<1> USE DEF IInv
<1>1. ASSUME NEW size \in KernelSizes, KernelPersistentBuffer(size)
      PROVE  TempsInv'
  <2>1. size \in 0 .. BufferHead /\ BufferAlignment \in Nat \ {0}
    BY SizeFacts
  <2>2. UNCHANGED <<allocator, pc, model, op, kernelTemps, planning, ignored>>
    BY <1>1 DEF KernelPersistentBuffer, temps
  <2>3. /\ UNCHANGED <<arena.head, arena.temp, arena.count>>
        /\ arena.tail \in Int /\ arena'.tail \in Int /\ arena'.tail <= arena.tail
    BY <1>1, <2>1, GrantKeepsTemps DEF KernelPersistentBuffer
  <2>4. Resting' => Resting
    BY <2>2 DEF Resting, Preparing, allocator
  <2> QED
    BY <2>2, <2>3, <2>4, TempsUntouched
<1>2. ASSUME NEW size \in KernelSizes, KernelAllocatesTemp(size)
      PROVE  TempsInv'
  <2> DEFINE at == TempResult(arena, StructAlignment)
             b  == Block(at, size)
  <2>1. /\ Preparing /\ arena.temp <= arena.tail
        /\ arena' = AllocateTemp(arena, size, StructAlignment)
        /\ kernelTemps' = kernelTemps \cup {b}
        /\ UNCHANGED <<allocator, pc, model, op, planning, ignored>>
    BY <1>2 DEF KernelAllocatesTemp, TempChainBound
  <2>2. /\ pc = "prepare" /\ planning = <<>> /\ arena.head <= arena.temp
        /\ arena.temp \in Nat /\ arena.tail <= BufferTail
        /\ \A t \in kernelTemps : /\ t.at \in Nat /\ t.size \in Nat \ {0}
                                  /\ arena.head <= t.at /\ t.at + t.size <= arena.temp
    BY <2>1, ArenaFacts DEF TempsInv, TempsCounted, KernelChain, Preparing, Addresses
  <2>3. /\ size \in Nat \ {0} /\ size <= BufferHead /\ StructAlignment \in Nat \ {0}
        /\ arena.head \in Nat /\ arena.tail \in Nat /\ BufferHead <= arena.head
    BY SizeFacts, SizeAssumption, ArenaFacts DEF ArenaOrdered, Addresses
  <2>4. arena.temp + StructAlignment + size <= AddressSpace /\ BufferHead <= arena.temp
    BY <2>1, <2>2, <2>3, ArenaFacts, TempAssumption
  <2>5. /\ at \in Nat /\ arena.temp <= at /\ Wrapped(at + size) = at + size
        /\ at + size < AddressSpace
    <3>1. at = AlignPointerUp(arena.temp, StructAlignment)
      BY DEF TempResult
    <3> HIDE DEF at
    <3>2. /\ at \in Nat /\ arena.temp <= at /\ Wrapped(at + size) = at + size
          /\ at + size < arena.temp + StructAlignment + size
      BY <2>2, <2>3, <2>4, <3>1, TempBound
    <3> QED
      BY <2>2, <2>3, <2>4, <3>2, ArenaFacts
  <2>6. b.at = at /\ b.size = size /\ b \in Blocks
    BY <2>3, <2>5 DEF Block, Blocks
  <2> HIDE DEF at, b
  <2>7. /\ arena'.head = arena.head /\ arena'.tail = arena.tail
        /\ arena'.temp = at + size /\ arena'.count = arena.count + 1
    BY <2>1, <2>5 DEF AllocateTemp, Fields, at
  <2>8. b \notin kernelTemps
    BY <2>2, <2>3, <2>5, <2>6
  <2>9. /\ IsFiniteSet(kernelTemps')
        /\ Cardinality(kernelTemps') = Cardinality(kernelTemps) + 1
    BY <2>1, <2>8, FS_AddElement DEF TempsInv, TempsCounted
  <2>10. TempsCounted'
    <3>1. Cardinality(kernelTemps) \in Nat /\ Len(planning) \in Nat
      BY FS_CardinalityType DEF TempsInv, TempsCounted
    <3>2. arena'.temp \in Addresses
      BY <2>3, <2>5, <2>7, ArenaFacts DEF Addresses
    <3> QED
      BY <2>1, <2>7, <2>9, <3>1, <3>2 DEF TempsInv, TempsCounted
  <2>11. ~Resting' /\ pc' \notin DOMAIN PlanningTemps
    BY <2>1, <2>2 DEF Resting, Preparing, PlanningTemps, allocator, CallState
  <2>12. KernelChain'
    BY <2>1, <2>2, <2>3, <2>5, <2>6, <2>7 DEF KernelChain
  <2> QED
    BY <2>10, <2>11, <2>12 DEF TempsInv, NoTempsBetween, PlanningChain
<1>3. ASSUME NEW t \in kernelTemps, KernelReturnsTemp(t)
      PROVE  TempsInv'
  <2>1. /\ Preparing /\ arena' = DeallocateTemp(arena, t.at)
        /\ kernelTemps' = kernelTemps \ {t}
        /\ UNCHANGED <<allocator, pc, model, op, planning, ignored>>
    BY <1>3 DEF KernelReturnsTemp
  <2>2. UNCHANGED <<arena.head, arena.tail, arena.temp>> /\ arena'.count = arena.count - 1
    BY <2>1 DEF DeallocateTemp, Fields
  <2>3. /\ IsFiniteSet(kernelTemps')
        /\ Cardinality(kernelTemps') = Cardinality(kernelTemps) - 1
    BY <2>1, FS_RemoveElement DEF TempsInv, TempsCounted
  <2>4. TempsCounted'
    <3>1. Cardinality(kernelTemps) \in Nat /\ Len(planning) \in Nat
      BY FS_CardinalityType DEF TempsInv, TempsCounted
    <3> QED
      BY <2>1, <2>2, <2>3, <3>1 DEF TempsInv, TempsCounted
  <2>5. ~Resting' /\ pc' \notin DOMAIN PlanningTemps
    BY <2>1 DEF Resting, Preparing, PlanningTemps, allocator, CallState
  <2>6. KernelChain'
    BY <2>1, <2>2 DEF TempsInv, KernelChain, Preparing
  <2> QED
    BY <2>4, <2>5, <2>6 DEF TempsInv, NoTempsBetween, PlanningChain
<1>4. CASE RequestScratchBufferInArena \/ KernelFails
  <2>1. UNCHANGED <<memory, allocator, model, op, kernelTemps, planning, ignored>>
    BY <1>4 DEF RequestScratchBufferInArena, KernelFails, temps
  <2>2. pc' = pc \/ pc' = "idle"
    BY <1>4 DEF RequestScratchBufferInArena, KernelFails, Return
  <2>3. arena.tail \in Int
    BY ArenaFacts DEF ArenaOrdered, Addresses
  <2>4. Resting' => Resting
    BY <2>1, <2>2 DEF Resting, Preparing, allocator
  <2>5. pc' \notin DOMAIN PlanningTemps
    BY <1>4, <2>2 DEF RequestScratchBufferInArena, KernelFails, Return, Preparing,
                      PlanningTemps
  <2>6. pc' = "prepare" => pc = "prepare"
    BY <2>2
  <2> QED
    BY <2>1, <2>3, <2>4, <2>5, <2>6, TempsUntouched DEF memory
<1> QED
  BY <1>1, <1>2, <1>3, <1>4 DEF Kernel

\* The phases that take persistent buffers or leave the memory alone.
LEMMA QuietPhasesKeepTemps ==
  ASSUME IInv, TempsInv,
         \/ AllocateNext \/ StructsAllocated \/ InitSubgraphsDone
         \/ AllocateScratchBufferHandles \/ ModelRejected \/ CreateAndCommitPlan
         \/ AllocateTensorsDone
  PROVE  TempsInv'
<1> USE DEF IInv
<1>1. UNCHANGED <<allocator, model, kernelTemps, planning, ignored>>
  BY DEF AllocateNext, StructsAllocated, InitSubgraphsDone, AllocateScratchBufferHandles,
         ModelRejected, CreateAndCommitPlan, AllocateTensorsDone, temps
<1>2. /\ UNCHANGED <<arena.head, arena.temp, arena.count>>
      /\ arena.tail \in Int /\ arena'.tail \in Int /\ arena'.tail <= arena.tail
  <2>1. CASE AllocateNext
    <3>1. todo \in Seq(BufferRequests) /\ todo # <<>>
      BY <2>1 DEF AllocateNext, CallState
    <3>2. Head(todo) \in BufferRequests
      BY <3>1
    <3> QED
      BY <2>1, <3>2, GrantKeepsTemps DEF AllocateNext, BufferRequests
  <2>2. CASE ~AllocateNext
    <3>1. UNCHANGED memory
      BY <2>2 DEF StructsAllocated, InitSubgraphsDone, AllocateScratchBufferHandles,
                  ModelRejected, CreateAndCommitPlan, AllocateTensorsDone
    <3> QED
      BY <3>1, SizeFacts, ArenaFacts DEF memory, ArenaOrdered, Addresses
  <2> QED
    BY <2>1, <2>2
<1>3. Resting' => Resting
  BY <1>1 DEF AllocateNext, StructsAllocated, InitSubgraphsDone,
              AllocateScratchBufferHandles, ModelRejected, CreateAndCommitPlan,
              AllocateTensorsDone, Return, Resting, Preparing, allocator, CallState
<1>4. pc' = "prepare" => Resting
  BY DEF AllocateNext, StructsAllocated, InitSubgraphsDone, AllocateScratchBufferHandles,
         ModelRejected, CreateAndCommitPlan, AllocateTensorsDone, Return, Resting
<1>5. pc' \in DOMAIN PlanningTemps =>
        \/ pc' = pc
        \/ pc = "plan" /\ pc' = "free"
        \/ pc = "prepare" /\ ~Preparing /\ pc' = "handles"
  BY DEF AllocateNext, StructsAllocated, InitSubgraphsDone, AllocateScratchBufferHandles,
         ModelRejected, CreateAndCommitPlan, AllocateTensorsDone, Return, PlanningTemps,
         Preparing, CallState
<1> QED
  BY <1>1, <1>2, <1>3, <1>4, <1>5, TempsUntouched

\* A resize needs an empty chain and leaves an empty one.
LEMMA ResizeKeepsTemps ==
  ASSUME AlignedArena, ArenaOrdered, TempsCounted, NEW a,
         a.tail = arena.tail, a.count = arena.count, NEW size \in Nat,
         NEW alignment \in {StructAlignment, BufferAlignment, 1}, NEW buf,
         CanResizeBuffer(a, buf, size, alignment),
         arena' = ResizeBuffer(a, size, alignment), UNCHANGED <<kernelTemps, planning>>
  PROVE  TempsCounted' /\ arena'.temp = arena'.head
<1>1. alignment \in Nat \ {0} /\ AlignPointerUp(BufferHead, alignment) = BufferHead
  <2>1. AlignPointerUp(BufferHead, 1) = BufferHead
    BY ArenaFacts DEF AlignPointerUp
  <2> QED
    BY <2>1, SizeFacts DEF AlignedArena
<1>2. a.tail \in Addresses /\ BufferHead <= a.tail
  BY ArenaFacts DEF ArenaOrdered, Addresses
<1>3. /\ BufferHead + size <= a.tail
      /\ arena' = Fields(BufferHead + size, a.tail, BufferHead + size, a.count, a.checkSum)
  BY <1>1, <1>2, ResizeBound
<1>4. /\ arena'.temp = BufferHead + size /\ arena'.head = BufferHead + size
      /\ arena'.tail = arena.tail /\ arena'.count = arena.count
  BY <1>3 DEF Fields
<1>5. BufferHead + size \in Addresses
  BY <1>2, <1>3, ArenaFacts DEF Addresses
<1> QED
  BY <1>4, <1>5 DEF TempsCounted

\* A step into a phase between two users of temp buffers.
LEMMA RestingStep ==
  ASSUME TempsCounted', NoTemps', arena'.temp \in Nat,
         pc' \in DOMAIN PlanningTemps => pc' \in {"handles", "release"}
  PROVE  TempsInv'
<1>1. DOMAIN planning' = {} /\ Len(planning') = 0
  BY DEF NoTemps
<1>2. KernelChain'
  BY DEF KernelChain, NoTemps
<1>3. PlanningChain'
  BY <1>1 DEF PlanningChain, PlanningTemps, NoTemps
<1> QED
  BY <1>2, <1>3 DEF TempsInv, NoTempsBetween

\* An allocation that gives up stays as it is.
LEMMA GivingUpKeepsTemps ==
  ASSUME TempsCounted', pc' = "idle", model_is_allocating_'
  PROVE  TempsInv'
BY DEF TempsInv, NoTempsBetween, Resting, KernelChain, PlanningChain, PlanningTemps, Preparing

LEMMA InitScratchBufferDataKeepsTemps ==
  ASSUME AlignedArena, IInv, TempsInv, InitScratchBufferData
  PROVE  TempsInv'
<1> DEFINE size == RequestSize * kMaxScratchBuffersPerOp
<1>1. size \in Nat /\ model_is_allocating_
  BY SizeFacts DEF InitScratchBufferData, IInv, CallState
<1>2. NoTemps /\ UNCHANGED <<kernelTemps, planning, model_is_allocating_>>
  BY DEF InitScratchBufferData, TempsInv, NoTempsBetween, Resting, temps
<1>3. CASE CanSetHeadSection(arena, size, StructAlignment)
  <2>1. arena' = ResizeBuffer(arena, size, StructAlignment) /\ pc' = "structs"
    BY <1>3 DEF InitScratchBufferData
  <2>2. TempsCounted' /\ arena'.temp = arena'.head
    BY <1>1, <1>2, <1>3, <2>1, ResizeKeepsTemps DEF IInv, TempsInv, CanSetHeadSection
  <2>3. arena'.temp \in Nat
    BY <2>2, ArenaFacts DEF TempsCounted, Addresses
  <2> QED
    BY <1>2, <2>1, <2>2, <2>3, RestingStep DEF NoTemps, PlanningTemps
<1>4. CASE ~CanSetHeadSection(arena, size, StructAlignment)
  <2>1. UNCHANGED arena /\ pc' = "idle"
    BY <1>4 DEF InitScratchBufferData, Return
  <2> QED
    BY <1>1, <1>2, <2>1, GivingUpKeepsTemps DEF TempsInv, TempsCounted
<1> QED
  BY <1>3, <1>4

\* With no temp buffer counted none is left.
LEMMA NoneCounted ==
  ASSUME TempsCounted, CanResetTempAllocations(arena)
  PROVE  kernelTemps = {} /\ planning = <<>>
<1>1. Cardinality(kernelTemps) + Len(planning) = 0
  BY DEF TempsCounted, CanResetTempAllocations, IsAllTempDeallocated
<1>2. Cardinality(kernelTemps) = 0 /\ Len(planning) = 0
  BY <1>1, FS_CardinalityType DEF TempsCounted
<1> QED
  BY <1>2, FS_EmptySet DEF TempsCounted

LEMMA FinishPrepareKeepsTemps ==
  ASSUME AlignedArena, IInv, TempsInv, FinishPrepareNodeAllocations
  PROVE  TempsInv'
<1> USE DEF IInv
<1> DEFINE rewound == ResetTempAllocations(arena)
           resizable == CanResizeBuffer(rewound, scratch_buffer_head_, RoomForNext,
                                        StructAlignment)
<1>1. /\ pc = "prepare" /\ pc' = "prepare" /\ model_is_allocating_'
      /\ UNCHANGED <<kernelTemps, planning, model>>
  BY DEF FinishPrepareNodeAllocations, Preparing, CallState, allocator, temps
<1>2. CASE CanResetTempAllocations(arena)
  <2>1. kernelTemps = {} /\ planning = <<>>
    BY <1>2, NoneCounted DEF TempsInv
  <2>2. /\ rewound.head = arena.head /\ rewound.temp = arena.head
        /\ rewound.tail = arena.tail /\ rewound.count = arena.count
    BY DEF ResetTempAllocations, Fields
  <2>3. arena' = rewound \/ (resizable /\ arena' = ResizeBuffer(rewound, RoomForNext,
                                                                StructAlignment))
    BY <1>2 DEF FinishPrepareNodeAllocations
  <2>4. TempsCounted' /\ arena'.temp = arena'.head
    <3>1. CASE arena' = rewound
      BY <1>1, <2>2, <3>1 DEF TempsInv, TempsCounted, ArenaOrdered
    <3>2. CASE resizable /\ arena' = ResizeBuffer(rewound, RoomForNext, StructAlignment)
      <4>1. RoomForNext \in Nat
        BY SizeFacts DEF RoomForNext, CallState
      <4> QED
        BY <1>1, <2>2, <3>2, <4>1, ResizeKeepsTemps DEF TempsInv
    <3> QED
      BY <2>3, <3>1, <3>2
  <2>5. arena'.temp \in Nat
    BY <2>4, ArenaFacts DEF TempsCounted, Addresses
  <2> QED
    BY <1>1, <2>1, <2>4, <2>5, RestingStep DEF NoTemps, PlanningTemps
<1>3. CASE ~CanResetTempAllocations(arena)
  <2>1. UNCHANGED arena /\ ignored'
    BY <1>3 DEF FinishPrepareNodeAllocations
  <2>2. ~Resting'
    BY <1>1, <2>1 DEF Resting
  <2> QED
    BY <1>1, <2>1, <2>2 DEF TempsInv, TempsCounted, NoTempsBetween, KernelChain,
                            PlanningChain, PlanningTemps
<1> QED
  BY <1>2, <1>3

\* A temp buffer for the plan: counted, and above the head section as long as the
\* chain before it is.
LEMMA PlanningTempCounted ==
  ASSUME IInv, TempsInv, NEW size \in Nat, NEW alignment \in Nat \ {0}, NEW next,
         PlanningTemp(size, alignment, next), pc' # "idle"
  PROVE  /\ TempsCounted' /\ pc' = next
         /\ UNCHANGED <<arena.head, kernelTemps, ignored, model, model_is_allocating_>>
         /\ Len(planning') = Len(planning) + 1
         /\ (\A k \in DOMAIN planning : arena.head <= planning[k].at)
              /\ arena.head <= arena.temp
              => \A k \in DOMAIN planning' : arena'.head <= planning'[k].at
         /\ arena.temp + alignment + size <= AddressSpace /\ arena.head <= arena.temp
              => /\ arena.head <= arena'.temp
                 /\ arena'.temp < arena.temp + alignment + size
<1> DEFINE at == TempResult(arena, alignment)
           b  == Block(at, size)
<1>1. /\ arena' = AllocateTemp(arena, size, alignment) /\ planning' = Append(planning, b)
      /\ pc' = next /\ UNCHANGED <<kernelTemps, ignored, model, model_is_allocating_>>
  BY DEF PlanningTemp, allocator
<1>2. /\ arena.head \in Nat /\ arena.tail \in Nat /\ BufferHead <= arena.head
      /\ arena.temp \in Nat /\ planning \in Seq(Blocks)
  BY ArenaFacts DEF IInv, ArenaOrdered, TempsInv, TempsCounted, Addresses
<1>3. at \in Nat /\ at = AlignPointerUp(arena.temp, alignment)
  <2>1. CASE arena.temp = 0
    BY <2>1 DEF TempResult, AlignPointerUp
  <2>2. CASE arena.temp # 0
    BY <1>2, <2>2, AlignUpBound DEF TempResult
  <2> QED
    BY <2>1, <2>2
<1>4. b \in Blocks /\ b.at = at
  BY <1>3 DEF Block, Blocks
<1> HIDE DEF at, b
<1>5. /\ arena'.head = arena.head /\ arena'.tail = arena.tail
      /\ arena'.temp = Wrapped(at + size) /\ arena'.count = arena.count + 1
  BY <1>1 DEF AllocateTemp, Fields, at
<1>6. arena'.temp \in Addresses
  BY <1>3, <1>5, ArenaFacts DEF Wrapped, Addresses
<1>7. planning' \in Seq(Blocks) /\ Len(planning') = Len(planning) + 1
  BY <1>1, <1>2, <1>4
<1>8. TempsCounted'
  <2>1. Cardinality(kernelTemps) \in Nat /\ Len(planning) \in Nat
    BY FS_CardinalityType DEF TempsInv, TempsCounted
  <2> QED
    BY <1>1, <1>5, <1>6, <1>7, <2>1 DEF TempsInv, TempsCounted
<1>9. ASSUME \A k \in DOMAIN planning : arena.head <= planning[k].at,
             arena.head <= arena.temp, NEW k \in DOMAIN planning'
      PROVE  arena'.head <= planning'[k].at
  <2>1. arena.temp > 0
    BY <1>2, <1>9, ArenaFacts
  <2>2. arena.temp <= at
    <3>1. arena.temp \in Nat \ {0}
      BY <1>2, <2>1
    <3>2. arena.temp <= AlignPointerUp(arena.temp, alignment)
      BY <3>1, AlignUpBound
    <3> QED
      BY <1>3, <3>2
  <2>3. (k \in DOMAIN planning /\ planning'[k] = planning[k]) \/ planning'[k] = b
    BY <1>1, <1>2, <1>9
  <2> QED
    BY <1>2, <1>3, <1>4, <1>5, <1>9, <2>2, <2>3
<1>10. ASSUME arena.temp + alignment + size <= AddressSpace, arena.head <= arena.temp
       PROVE  arena.head <= arena'.temp /\ arena'.temp < arena.temp + alignment + size
  <2>1. BufferHead <= arena.temp
    BY <1>2, <1>10, ArenaFacts
  <2>2. /\ arena.temp <= at /\ Wrapped(at + size) = at + size
        /\ at + size < arena.temp + alignment + size
    BY <1>2, <1>3, <1>10, <2>1, TempBound
  <2> QED
    BY <1>2, <1>3, <1>5, <1>10, <2>2
<1> QED
  BY <1>1, <1>5, <1>7, <1>8, <1>9, <1>10

\* What a model needs of the address space.
LEMMA PlanningSizes ==
  ASSUME NEW m \in Models, NEW n \in 0 .. MaxRequests
  PROVE  /\ OffsetSize * m.subgraphs \in Nat /\ InfoSize * (m.tensors + n) \in Nat
         /\ BufferTail + StructAlignment + OffsetSize * m.subgraphs <= AddressSpace
         /\ BufferTail + 2 * StructAlignment + OffsetSize * m.subgraphs
              + InfoSize * (m.tensors + n) <= AddressSpace
<1>1. m.subgraphs \in Nat /\ m.tensors \in Nat
  BY ModelAssumption DEF Graphs
<1>2. /\ OffsetSize \in Nat /\ InfoSize \in Nat /\ StructAlignment \in Nat
      /\ MaxRequests \in Nat
  BY SizeAssumption
<1>3. m.tensors + n \in Nat /\ m.tensors + n <= m.tensors + MaxRequests
  BY <1>1, <1>2
<1>4. \A i, j, k \in Nat : j <= k => i * j \in Nat /\ i * j <= i * k
  OBVIOUS
<1>5. /\ InfoSize * (m.tensors + n) \in Nat
      /\ InfoSize * (m.tensors + n) <= InfoSize * (m.tensors + MaxRequests)
  BY <1>1, <1>2, <1>3, <1>4
<1>6. OffsetSize * m.subgraphs \in Nat
  BY <1>1, <1>2, <1>4
<1> DEFINE offsets == OffsetSize * m.subgraphs
           info    == InfoSize * (m.tensors + n)
           most    == InfoSize * (m.tensors + MaxRequests)
<1>7. /\ most \in Int /\ info <= most
      /\ BufferTail + 2 * StructAlignment + offsets + most <= AddressSpace
  BY <1>1, <1>2, <1>4, <1>5, TempAssumption
<1>8. offsets \in Nat /\ info \in Nat
  BY <1>5, <1>6
<1> HIDE DEF offsets, info, most
<1>9. /\ BufferTail + StructAlignment + offsets <= AddressSpace
      /\ BufferTail + 2 * StructAlignment + offsets + info <= AddressSpace
  BY <1>2, <1>7, <1>8, ArenaFacts
<1> QED
  BY <1>8, <1>9 DEF offsets, info

\* The temp buffers of the plan follow one another up from the head section.
LEMMA PlanningKeepsTemps ==
  ASSUME AlignedArena, IInv, TempsInv,
         CreateSubgraphOffsets \/ CreateAllocationInfo \/ AllocatePlannerArena
  PROVE  TempsInv'
<1>1. model_is_allocating_ /\ model \in Models /\ Len(requests) \in 0 .. MaxRequests
  BY SizeFacts
     DEF CreateSubgraphOffsets, CreateAllocationInfo, AllocatePlannerArena, IInv, CallState
<1>2. StructAlignment \in Nat \ {0} /\ BufferAlignment \in Nat \ {0}
  BY SizeFacts
<1>3. /\ arena.head \in Nat /\ arena.tail \in Nat /\ arena.temp \in Nat
      /\ arena.head <= arena.tail /\ arena.tail <= BufferTail
  BY ArenaFacts DEF IInv, ArenaOrdered, TempsInv, TempsCounted, Addresses
<1> DEFINE offsets == OffsetSize * model.subgraphs
           info    == InfoSize * (model.tensors + Len(requests))
<1>4. /\ offsets \in Nat /\ info \in Nat
      /\ BufferTail + StructAlignment + offsets <= AddressSpace
      /\ BufferTail + 2 * StructAlignment + offsets + info <= AddressSpace
  BY <1>1, PlanningSizes
<1> HIDE DEF offsets, info
<1>5. CASE pc' = "idle"
  <2>1. UNCHANGED <<arena, kernelTemps, planning, model_is_allocating_>>
    BY <1>5 DEF CreateSubgraphOffsets, CreateAllocationInfo, AllocatePlannerArena,
                PlanningTemp, allocator
  <2> QED
    BY <1>1, <1>5, <2>1, GivingUpKeepsTemps DEF TempsInv, TempsCounted
<1>6. CASE pc' # "idle" /\ CreateSubgraphOffsets
  <2>1. pc = "handles" /\ PlanningTemp(offsets, StructAlignment, "info")
    BY <1>6 DEF CreateSubgraphOffsets, offsets
  <2>2. Len(planning) = 0 /\ DOMAIN planning = {}
    BY <2>1 DEF TempsInv, TempsCounted, PlanningChain, PlanningTemps
  <2>3. ~ignored => kernelTemps = {} /\ arena.temp = arena.head
    BY <2>1 DEF TempsInv, NoTempsBetween, NoTemps, Resting
  <2>4. /\ TempsCounted' /\ pc' = "info"
        /\ UNCHANGED <<arena.head, kernelTemps, ignored, model, model_is_allocating_>>
        /\ Len(planning') = Len(planning) + 1
        /\ (\A k \in DOMAIN planning : arena.head <= planning[k].at)
             /\ arena.head <= arena.temp
             => \A k \in DOMAIN planning' : arena'.head <= planning'[k].at
        /\ arena.temp + StructAlignment + offsets <= AddressSpace
             /\ arena.head <= arena.temp
             => /\ arena.head <= arena'.temp
                /\ arena'.temp < arena.temp + StructAlignment + offsets
    BY <1>2, <1>4, <1>6, <2>1, PlanningTempCounted
  <2>5. ~ignored => /\ arena.head <= arena'.temp
                    /\ arena'.temp < BufferTail + StructAlignment + offsets
    <3>1. arena'.temp \in Int
      BY <2>4, ArenaFacts DEF TempsCounted, Addresses
    <3> SUFFICES ASSUME ~ignored
                 PROVE  /\ arena.head <= arena'.temp
                        /\ arena'.temp < BufferTail + StructAlignment + offsets
      OBVIOUS
    <3>2. arena.temp = arena.head /\ arena.temp <= BufferTail
      BY <1>3, <2>3, ArenaFacts
    <3>3. arena.temp + StructAlignment + offsets <= AddressSpace
      BY <1>2, <1>3, <1>4, <3>2, ArenaFacts
    <3>4. arena.head <= arena.temp
      BY <1>3, <3>2
    <3>5. /\ arena.head <= arena'.temp
          /\ arena'.temp < arena.temp + StructAlignment + offsets
      BY <2>4, <3>3, <3>4
    <3> QED
      BY <1>2, <1>3, <1>4, <3>1, <3>2, <3>5, ArenaFacts
  <2>6. PlanningChain'
    BY <1>3, <2>2, <2>3, <2>4, <2>5 DEF PlanningChain, PlanningTemps, offsets
  <2> QED
    BY <1>1, <2>4, <2>6 DEF TempsInv, NoTempsBetween, Resting, KernelChain
<1>7. CASE pc' # "idle" /\ CreateAllocationInfo
  <2>1. pc = "info" /\ PlanningTemp(info, StructAlignment, "variables")
    BY <1>7 DEF CreateAllocationInfo, info
  <2>2. /\ Len(planning) = 1
        /\ ~ignored => /\ kernelTemps = {} /\ arena.head <= arena.temp
                       /\ \A k \in DOMAIN planning : arena.head <= planning[k].at
                       /\ arena.temp < BufferTail + StructAlignment + offsets
    BY <2>1 DEF TempsInv, PlanningChain, PlanningTemps, offsets
  <2>3. ~ignored => arena.temp + StructAlignment + info <= AddressSpace
    BY <1>2, <1>3, <1>4, <2>2, ArenaFacts
  <2>4. /\ TempsCounted' /\ pc' = "variables"
        /\ UNCHANGED <<arena.head, kernelTemps, ignored, model, model_is_allocating_>>
        /\ Len(planning') = Len(planning) + 1
        /\ (\A k \in DOMAIN planning : arena.head <= planning[k].at)
             /\ arena.head <= arena.temp
             => \A k \in DOMAIN planning' : arena'.head <= planning'[k].at
        /\ arena.temp + StructAlignment + info <= AddressSpace
             /\ arena.head <= arena.temp
             => arena.head <= arena'.temp
    BY <1>2, <1>4, <1>7, <2>1, PlanningTempCounted
  <2>5. PlanningChain'
    BY <2>2, <2>3, <2>4 DEF PlanningChain, PlanningTemps
  <2> QED
    BY <1>1, <2>4, <2>5 DEF TempsInv, NoTempsBetween, Resting, KernelChain
<1>8. CASE pc' # "idle" /\ AllocatePlannerArena
  <2> DEFINE size == GetAvailableMemory(arena, BufferAlignment)
  <2>1. pc = "variables" /\ PlanningTemp(size, BufferAlignment, "plan")
    BY <1>8 DEF AllocatePlannerArena
  <2>2. size \in Nat
    <3>1. /\ AlignPointerDown(arena.tail, BufferAlignment) \in Int
          /\ AlignPointerUp(arena.temp, BufferAlignment) \in Int
      BY <1>2, <1>3 DEF AlignPointerDown, AlignPointerUp
    <3> QED
      BY <3>1, ArenaFacts DEF GetAvailableMemory, Wrapped
  <2> HIDE DEF size
  <2>3. /\ Len(planning) = 2
        /\ ~ignored => /\ kernelTemps = {} /\ arena.head <= arena.temp
                       /\ \A k \in DOMAIN planning : arena.head <= planning[k].at
    BY <2>1 DEF TempsInv, PlanningChain, PlanningTemps
  <2>4. /\ TempsCounted' /\ pc' = "plan"
        /\ UNCHANGED <<arena.head, kernelTemps, ignored, model, model_is_allocating_>>
        /\ Len(planning') = Len(planning) + 1
        /\ (\A k \in DOMAIN planning : arena.head <= planning[k].at)
             /\ arena.head <= arena.temp
             => \A k \in DOMAIN planning' : arena'.head <= planning'[k].at
    BY <1>2, <1>8, <2>1, <2>2, PlanningTempCounted
  <2>5. PlanningChain'
    BY <2>3, <2>4 DEF PlanningChain, PlanningTemps
  <2> QED
    BY <1>1, <2>4, <2>5 DEF TempsInv, NoTempsBetween, Resting, KernelChain
<1> QED
  BY <1>5, <1>6, <1>7, <1>8

\* FreeAllocationInfo gives back all three.
LEMMA FreePlanningKeepsTemps ==
  ASSUME IInv, TempsInv, FreePlanningMemory
  PROVE  TempsInv'
<1>1. /\ pc = "free" /\ pc' = "release" /\ planning' = <<>>
      /\ UNCHANGED <<kernelTemps, ignored, model_is_allocating_>> /\ model_is_allocating_
  BY DEF FreePlanningMemory, IInv, CallState, allocator
<1>2. Len(planning) = 3 /\ (~ignored => kernelTemps = {})
  BY <1>1 DEF TempsInv, PlanningChain, PlanningTemps
<1>3. /\ UNCHANGED <<arena.head, arena.tail, arena.temp>>
      /\ arena'.count = arena.count - 1 - 1 - 1
  BY DEF FreePlanningMemory, PlanningFreed, DeallocateTemp, Fields
<1>4. planning' \in Seq(Blocks) /\ Len(planning') = 0 /\ DOMAIN planning' = {}
  <2>1. <<>> \in Seq(Blocks) /\ Len(<<>>) = 0 /\ DOMAIN <<>> = {}
    OBVIOUS
  <2> QED
    BY <1>1, <2>1
<1>5. TempsCounted'
  <2>1. Cardinality(kernelTemps) \in Nat
    BY FS_CardinalityType DEF TempsInv, TempsCounted
  <2>2. arena'.count = Cardinality(kernelTemps)
    <3>1. arena.count = Cardinality(kernelTemps) + 3
      BY <1>2 DEF TempsInv, TempsCounted
    <3> QED
      BY <1>3, <2>1, <3>1
  <2>3. kernelTemps' = kernelTemps
    BY <1>1
  <2> QED
    BY <1>3, <1>4, <2>1, <2>2, <2>3 DEF TempsInv, TempsCounted
<1>6. PlanningChain'
  BY <1>1, <1>2, <1>4 DEF PlanningChain, PlanningTemps
<1> QED
  BY <1>1, <1>5, <1>6 DEF TempsInv, NoTempsBetween, Resting, KernelChain

\* The head section is released, or given to the overlay, with an empty chain.
LEMMA ReleaseKeepsTemps ==
  ASSUME AlignedArena, IInv, TempsInv, ReleaseHead
  PROVE  TempsInv'
<1> DEFINE rewound == ResetTempAllocations(arena)
<1>1. model_is_allocating_' /\ UNCHANGED <<kernelTemps, planning>>
  BY DEF ReleaseHead, IInv, CallState, allocator, temps
<1>2. /\ rewound.head = arena.head /\ rewound.temp = arena.head
      /\ rewound.tail = arena.tail /\ rewound.count = arena.count
  BY DEF ResetTempAllocations, Fields
<1>3. CASE pc' = "idle"
  <2>1. arena' = arena \/ arena' = rewound
    BY <1>3 DEF ReleaseHead
  <2>2. TempsCounted'
    BY <1>1, <1>2, <2>1 DEF TempsInv, TempsCounted, IInv, ArenaOrdered
  <2> QED
    BY <1>1, <1>3, <2>2, GivingUpKeepsTemps
<1>4. CASE pc' # "idle"
  <2>1. /\ CanResetTempAllocations(arena) /\ pc' = "reserve"
        /\ CanResizeBuffer(rewound, scratch_buffer_head_, 0, 1)
        /\ arena' = ResizeBuffer(rewound, 0, 1)
    BY <1>4 DEF ReleaseHead, CanDeallocateResizableBuffer, DeallocateResizableBuffer
  <2>2. kernelTemps = {} /\ planning = <<>>
    BY <2>1, NoneCounted DEF TempsInv
  <2>3. TempsCounted' /\ arena'.temp = arena'.head
    BY <1>1, <1>2, <2>1, ResizeKeepsTemps DEF IInv, TempsInv
  <2>4. arena'.temp \in Nat
    BY <2>3, ArenaFacts DEF TempsCounted, Addresses
  <2> QED
    BY <1>1, <2>1, <2>2, <2>3, <2>4, RestingStep DEF NoTemps, PlanningTemps
<1> QED
  BY <1>3, <1>4

LEMMA ReserveOverlayKeepsTemps ==
  ASSUME AlignedArena, IInv, TempsInv, ReserveOverlay
  PROVE  TempsInv'
<1>1. LargestUsage \in Nat /\ model_is_allocating_
  BY DEF ReserveOverlay, LargestUsage, IInv, CallState, OverlayReserved
<1>2. NoTemps /\ UNCHANGED <<kernelTemps, planning>>
  BY DEF ReserveOverlay, TempsInv, NoTempsBetween, Resting, temps
<1>3. CASE CanSetHeadSection(arena, LargestUsage, BufferAlignment)
  <2>1. arena' = ResizeBuffer(arena, LargestUsage, BufferAlignment) /\ pc' = "tensors"
    BY <1>3 DEF ReserveOverlay
  <2>2. TempsCounted' /\ arena'.temp = arena'.head
    BY <1>1, <1>2, <1>3, <2>1, ResizeKeepsTemps DEF IInv, TempsInv, CanSetHeadSection
  <2>3. arena'.temp \in Nat
    BY <2>2, ArenaFacts DEF TempsCounted, Addresses
  <2> QED
    BY <1>2, <2>1, <2>2, <2>3, RestingStep DEF NoTemps, PlanningTemps
<1>4. CASE ~CanSetHeadSection(arena, LargestUsage, BufferAlignment)
  <2>1. UNCHANGED <<arena, model_is_allocating_>> /\ pc' = "idle"
    BY <1>4 DEF ReserveOverlay, Return
  <2> QED
    BY <1>1, <1>2, <2>1, GivingUpKeepsTemps DEF TempsInv, TempsCounted
<1> QED
  BY <1>3, <1>4

LEMMA StartKeepsTemps ==
  ASSUME IInv, TempsInv, NEW m \in Models, StartModelAllocation(m)
  PROVE  TempsInv'
<1>1. NoTemps /\ UNCHANGED <<kernelTemps, planning>>
  BY DEF StartModelAllocation, CanStart, TempsInv, NoTempsBetween, Resting, temps
<1>2. pc' \in {"scratch", "idle"}
  BY DEF StartModelAllocation
<1>3. /\ UNCHANGED <<arena.head, arena.temp, arena.count>>
      /\ arena.tail \in Int /\ arena'.tail \in Int /\ arena'.tail <= arena.tail
  BY SizeFacts, GrantKeepsTemps DEF StartModelAllocation, IInv
<1>4. NoTemps'
  BY <1>1, <1>3 DEF NoTemps
<1>5. kernelTemps' = kernelTemps /\ planning' = planning
  BY <1>1
<1>6. TempsCounted' /\ arena'.temp \in Nat
  BY <1>3, <1>5, ArenaFacts DEF TempsInv, TempsCounted, Addresses
<1> QED
  BY <1>2, <1>4, <1>6, RestingStep DEF PlanningTemps

LEMMA TempsInitially ==
  Init => TempsInv
<1> SUFFICES ASSUME Init PROVE TempsInv
  OBVIOUS
<1> DEFINE at == PersistentResult(NewArena, OverheadSize, StructAlignment)
<1>1. NewArena.tail = BufferTail /\ BufferTail \in Addresses
  BY ArenaFacts DEF NewArena, Fields, Addresses
<1>2. at \in Nat /\ at <= BufferTail
  <2>1. OverheadSize \in Nat /\ OverheadSize <= BufferHead
    BY SizeFacts, ArenaFacts
  <2>2. at \in Nat /\ at + OverheadSize <= BufferTail
    BY <1>1, <2>1, ArenaFacts, SizeFacts, PersistentResultBound
  <2> QED
    BY <2>1, <2>2, ArenaFacts
<1>3. /\ arena.head = BufferHead /\ arena.temp = BufferHead /\ arena.tail = at
      /\ arena.count = 0
  BY DEF Init, AllocatePersistentBuffer, NewArena, Fields
<1> HIDE DEF at
<1>4. kernelTemps = {} /\ planning = <<>> /\ pc = "idle"
  BY DEF Init
<1>5. planning \in Seq(Blocks) /\ Len(planning) = 0
  <2>1. <<>> \in Seq(Blocks) /\ Len(<<>>) = 0
    OBVIOUS
  <2> QED
    BY <1>4, <2>1
<1>6. TempsCounted
  BY <1>2, <1>3, <1>4, <1>5, ArenaFacts, FS_EmptySet DEF TempsCounted, Addresses
<1>7. NoTemps
  BY <1>3, <1>4 DEF NoTemps
<1> QED
  BY <1>4, <1>6, <1>7
     DEF TempsInv, NoTempsBetween, KernelChain, PlanningChain, PlanningTemps

LEMMA TempsInductive ==
  ASSUME AlignedArena, IInv, TempsInv, [Next]_vars
  PROVE  TempsInv'
<1>1. CASE Framework
  BY <1>1, QuietPhasesKeepTemps, InitScratchBufferDataKeepsTemps,
     FinishPrepareKeepsTemps, PlanningKeepsTemps, FreePlanningKeepsTemps,
     ReleaseKeepsTemps, ReserveOverlayKeepsTemps DEF Framework
<1>2. CASE UNCHANGED vars
  <2>1. arena.tail \in Int
    BY ArenaFacts DEF IInv, ArenaOrdered, Addresses
  <2> QED
    BY <1>2, <2>1, TempsUntouched DEF vars, memory, allocator, temps, Resting, Preparing
<1> QED
  BY <1>1, <1>2, KernelKeepsTemps, StartKeepsTemps DEF Next

LEMMA TempsInvHolds ==
  ASSUME AlignedArena
  PROVE  Spec => []TempsInv
<1>1. Init => TempsInv
  BY TempsInitially
<1>2. IInv /\ TempsInv /\ [Next]_vars => TempsInv'
  BY TempsInductive
<1> QED
  BY <1>1, <1>2, InvariantHolds, PTL DEF Spec

-----------------------------------------------------------------------------
(* The audit of the temp buffers, and the requests that wait for it *)

WithBit(i) == {t \in kernelTemps : i \in PointerBits(t.at)}

\* While operators are prepared, the check sum is the XOR of what kernels have not
\* given back, and it is zero between two allocations; and what operators have left
\* is still there.
AuditMatches ==
  /\ left \subseteq kernelTemps /\ arena.checkSum \subseteq BitPositions
  /\ ~model_is_allocating_ \/ pc \in {"scratch", "structs", "init", "reserve", "tensors"}
       => arena.checkSum = {}
  /\ pc = "prepare" =>
       \A i \in BitPositions : i \in arena.checkSum <=> Cardinality(WithBit(i)) % 2 = 1

LEMMA AuditUntouched ==
  ASSUME AuditMatches, UNCHANGED <<kernelTemps, left, arena.checkSum>>,
         pc' = "prepare" => pc = "prepare",
         ~model_is_allocating_' \/ pc' \in {"scratch", "structs", "init", "reserve", "tensors"}
           => ~model_is_allocating_ \/ pc \in {"scratch", "structs", "init", "reserve", "tensors"}
  PROVE  AuditMatches'
BY DEF AuditMatches, WithBit

\* One more pointer, or one less, changes each of its bits in the XOR.
LEMMA XorCounts ==
  ASSUME IsFiniteSet(kernelTemps), NEW i \in BitPositions, NEW t,
         i \in arena.checkSum <=> Cardinality(WithBit(i)) % 2 = 1,
         arena'.checkSum = Xor(arena.checkSum, PointerBits(t.at)),
         \/ t \notin kernelTemps /\ kernelTemps' = kernelTemps \cup {t}
         \/ t \in kernelTemps /\ kernelTemps' = kernelTemps \ {t}
  PROVE  i \in arena'.checkSum <=> Cardinality(WithBit(i)') % 2 = 1
<1>1. IsFiniteSet(WithBit(i)) /\ Cardinality(WithBit(i)) \in Nat
  <2>1. IsFiniteSet(WithBit(i))
    BY FS_Subset DEF WithBit
  <2> QED
    BY <2>1, FS_CardinalityType
<1>2. CASE i \in PointerBits(t.at)
  <2>1. i \in arena'.checkSum <=> i \notin arena.checkSum
    BY <1>2 DEF Xor
  <2>2. CASE t \notin kernelTemps /\ kernelTemps' = kernelTemps \cup {t}
    <3>1. WithBit(i)' = WithBit(i) \cup {t} /\ t \notin WithBit(i)
      BY <1>2, <2>2 DEF WithBit
    <3>2. Cardinality(WithBit(i)') = Cardinality(WithBit(i)) + 1
      BY <1>1, <3>1, FS_AddElement
    <3> QED
      BY <1>1, <2>1, <3>2
  <2>3. CASE t \in kernelTemps /\ kernelTemps' = kernelTemps \ {t}
    <3>1. WithBit(i)' = WithBit(i) \ {t} /\ t \in WithBit(i)
      BY <1>2, <2>3 DEF WithBit
    <3>2. Cardinality(WithBit(i)') = Cardinality(WithBit(i)) - 1
      BY <1>1, <3>1, FS_RemoveElement
    <3> QED
      BY <1>1, <2>1, <3>2
  <2> QED
    BY <2>2, <2>3
<1>3. CASE i \notin PointerBits(t.at)
  <2>1. WithBit(i)' = WithBit(i)
    BY <1>3 DEF WithBit
  <2>2. i \in arena'.checkSum <=> i \in arena.checkSum
    BY <1>3 DEF Xor
  <2> QED
    BY <2>1, <2>2
<1> QED
  BY <1>2, <1>3

LEMMA KernelKeepsAudit ==
  ASSUME IInv, TempsInv, AuditMatches, Kernel
  PROVE  AuditMatches'
<1>1. ASSUME NEW size \in KernelSizes, KernelPersistentBuffer(size) PROVE AuditMatches'
  BY <1>1, AuditUntouched
     DEF KernelPersistentBuffer, GrantPersistent, AllocatePersistentBuffer, Fields,
         temps, allocator
<1>2. CASE RequestScratchBufferInArena \/ KernelFails
  BY <1>2, AuditUntouched
     DEF RequestScratchBufferInArena, KernelFails, Return, memory, temps, allocator,
         IInv, CallState, Preparing
<1>3. ASSUME NEW size \in KernelSizes, KernelAllocatesTemp(size) PROVE AuditMatches'
  <2> DEFINE at == TempResult(arena, StructAlignment)
             b  == Block(at, size)
  <2>1. /\ pc = "prepare" /\ pc' = "prepare" /\ left' = left /\ model_is_allocating_'
        /\ kernelTemps' = kernelTemps \cup {b} /\ b.at = at
        /\ arena'.checkSum = Xor(arena.checkSum, PointerBits(at))
    BY <1>3 DEF KernelAllocatesTemp, AllocateTemp, Fields, Preparing, allocator, Block,
                IInv, CallState
  <2>2. b \notin kernelTemps
    <3>1. /\ arena.temp \in Nat /\ BufferHead <= arena.temp
          /\ \A t \in kernelTemps : /\ t.at \in Nat /\ t.size \in Nat \ {0}
                                    /\ t.at + t.size <= arena.temp
      BY <2>1, ArenaFacts
         DEF TempsInv, TempsCounted, KernelChain, Addresses, IInv, ArenaOrdered
    <3>2. arena.temp \in Nat \ {0} /\ StructAlignment \in Nat \ {0}
      BY <3>1, ArenaFacts, SizeFacts
    <3>3. at \in Nat /\ arena.temp <= at
      BY <3>2, AlignUpBound DEF TempResult
    <3> HIDE DEF at
    <3> QED
      BY <2>1, <3>1, <3>3
  <2> HIDE DEF at, b
  <2>3. /\ left' \subseteq kernelTemps'
        /\ arena'.checkSum \subseteq BitPositions
    BY <2>1 DEF AuditMatches, Xor, PointerBits
  <2>4. ASSUME NEW i \in BitPositions
        PROVE  i \in arena'.checkSum <=> Cardinality(WithBit(i)') % 2 = 1
    BY <2>1, <2>2, XorCounts DEF AuditMatches, TempsInv, TempsCounted
  <2> QED
    BY <2>1, <2>3, <2>4 DEF AuditMatches
<1>4. ASSUME NEW t \in kernelTemps, KernelReturnsTemp(t) PROVE AuditMatches'
  <2>1. /\ pc = "prepare" /\ pc' = "prepare" /\ left' = left /\ model_is_allocating_'
        /\ kernelTemps' = kernelTemps \ {t} /\ t \notin left
        /\ arena'.checkSum = Xor(arena.checkSum, PointerBits(t.at))
    BY <1>4 DEF KernelReturnsTemp, DeallocateTemp, Fields, Preparing, allocator,
                IInv, CallState
  <2>2. /\ left' \subseteq kernelTemps'
        /\ arena'.checkSum \subseteq BitPositions
    BY <2>1 DEF AuditMatches, Xor, PointerBits
  <2>3. ASSUME NEW i \in BitPositions
        PROVE  i \in arena'.checkSum <=> Cardinality(WithBit(i)') % 2 = 1
    BY <2>1, XorCounts DEF AuditMatches, TempsInv, TempsCounted
  <2> QED
    BY <2>1, <2>2, <2>3 DEF AuditMatches
<1> QED
  BY <1>1, <1>2, <1>3, <1>4 DEF Kernel

LEMMA FrameworkKeepsAudit ==
  ASSUME IInv, TempsInv, AuditMatches, Framework
  PROVE  AuditMatches'
<1>1. CASE InitSubgraphsDone
  <2>1. /\ pc = "init" /\ pc' = "prepare" /\ model_is_allocating_'
        /\ UNCHANGED <<kernelTemps, left, arena>>
    BY <1>1 DEF InitSubgraphsDone, temps, memory, allocator, IInv, CallState
  <2>2. kernelTemps = {} /\ arena.checkSum = {}
    BY <2>1 DEF TempsInv, NoTempsBetween, NoTemps, Resting, AuditMatches
  <2>3. \A i \in BitPositions : Cardinality(WithBit(i)') = 0
    BY <2>1, <2>2, FS_EmptySet DEF WithBit
  <2> QED
    BY <2>1, <2>2, <2>3 DEF AuditMatches
<1>2. CASE FinishPrepareNodeAllocations
  <2>1. /\ pc = "prepare" /\ pc' = "prepare" /\ model_is_allocating_'
        /\ left' = kernelTemps /\ kernelTemps' = kernelTemps
    BY <1>2 DEF FinishPrepareNodeAllocations, Preparing, allocator, IInv, CallState
  <2>2. arena'.checkSum = arena.checkSum
    BY <1>2 DEF FinishPrepareNodeAllocations, ResetTempAllocations, ResizeBuffer, Fields
  <2> QED
    BY <2>1, <2>2 DEF AuditMatches, WithBit
<1>3. CASE InitScratchBufferData \/ AllocateNext
  BY <1>3, AuditUntouched
     DEF InitScratchBufferData, AllocateNext, GrantPersistent, AllocatePersistentBuffer,
         ResizeBuffer, Fields, Return, memory, temps, allocator, IInv, CallState
<1>4. CASE StructsAllocated \/ AllocateScratchBufferHandles \/ ModelRejected
           \/ CreateAndCommitPlan \/ AllocateTensorsDone
  BY <1>4, AuditUntouched
     DEF StructsAllocated, AllocateScratchBufferHandles, ModelRejected,
         CreateAndCommitPlan, AllocateTensorsDone, Return, memory, temps, allocator,
         IInv, CallState
<1>5. CASE CreateSubgraphOffsets \/ CreateAllocationInfo \/ AllocatePlannerArena
           \/ FreePlanningMemory
  <2>1. /\ pc' \in {"info", "variables", "plan", "release", "idle"}
        /\ model_is_allocating_' /\ UNCHANGED <<kernelTemps, left>>
    BY <1>5 DEF CreateSubgraphOffsets, CreateAllocationInfo, AllocatePlannerArena,
                PlanningTemp, FreePlanningMemory, allocator, IInv, CallState
  <2>2. arena'.checkSum \subseteq BitPositions
    BY <1>5 DEF CreateSubgraphOffsets, CreateAllocationInfo, AllocatePlannerArena,
                PlanningTemp, AllocateTemp, FreePlanningMemory, PlanningFreed,
                DeallocateTemp, Fields, Xor, PointerBits, AuditMatches
  <2> QED
    BY <2>1, <2>2 DEF AuditMatches
<1>6. CASE ReleaseHead
  <2>1. /\ model_is_allocating_' /\ UNCHANGED <<kernelTemps, left>>
        /\ arena'.checkSum = arena.checkSum
        /\ \/ pc' = "idle"
           \/ pc' = "reserve" /\ CanResetTempAllocations(arena)
    BY <1>6 DEF ReleaseHead, temps, allocator, IInv, CallState, ResetTempAllocations,
                DeallocateResizableBuffer, ResizeBuffer, Fields
  <2> QED
    BY <2>1 DEF AuditMatches, CanResetTempAllocations, IsAllTempDeallocated
<1>7. CASE ReserveOverlay
  <2>1. /\ UNCHANGED <<kernelTemps, left>> /\ arena'.checkSum = arena.checkSum
        /\ pc = "reserve" /\ pc' \in {"tensors", "idle"}
    BY <1>7 DEF ReserveOverlay, temps, Return, ResizeBuffer, Fields
  <2> QED
    BY <2>1, AuditUntouched
<1> QED
  BY <1>1, <1>2, <1>3, <1>4, <1>5, <1>6, <1>7 DEF Framework

LEMMA AuditHolds ==
  ASSUME AlignedArena
  PROVE  Spec => []AuditMatches
<1>1. Init => AuditMatches
  BY DEF Init, AuditMatches, NewArena, AllocatePersistentBuffer, Fields
<1>2. IInv /\ TempsInv /\ AuditMatches /\ [Next]_vars => AuditMatches'
  <2> SUFFICES ASSUME IInv, TempsInv, AuditMatches, [Next]_vars PROVE AuditMatches'
    OBVIOUS
  <2>1. ASSUME NEW m \in Models, StartModelAllocation(m) PROVE AuditMatches'
    BY <2>1, AuditUntouched
       DEF StartModelAllocation, CanStart, GrantPersistent, AllocatePersistentBuffer,
           Fields, memory, temps
  <2>2. CASE UNCHANGED vars
    BY <2>2, AuditUntouched DEF vars, memory, allocator, temps
  <2> QED
    BY <2>1, <2>2, KernelKeepsAudit, FrameworkKeepsAudit DEF Next
<1> QED
  BY <1>1, <1>2, InvariantHolds, TempsInvHolds, PTL DEF Spec

\* The reset of the temp chain is refused exactly when a kernel has kept a buffer.
LEMMA RefusedForAKeptBuffer ==
  ASSUME TempsInv, AuditMatches, Preparing
  PROVE  CanResetTempAllocations(arena) <=> kernelTemps = {}
<1>1. ASSUME kernelTemps = {} PROVE CanResetTempAllocations(arena)
  <2>1. planning = <<>> /\ pc = "prepare"
    BY DEF TempsInv, KernelChain, Preparing
  <2>2. arena.count = 0
    BY <1>1, <2>1, FS_EmptySet DEF TempsInv, TempsCounted
  <2>3. \A i \in BitPositions : WithBit(i) = {}
    BY <1>1 DEF WithBit
  <2>4. ASSUME NEW i \in BitPositions PROVE i \notin arena.checkSum
    <3>1. Cardinality(WithBit(i)) = 0
      BY <2>3, FS_EmptySet
    <3> QED
      BY <2>1, <3>1 DEF AuditMatches
  <2>5. arena.checkSum = {}
    BY <2>4 DEF AuditMatches
  <2> QED
    BY <2>2, <2>5 DEF CanResetTempAllocations, IsAllTempDeallocated
<1> QED
  BY <1>1, NoneCounted DEF TempsInv

-----------------------------------------------------------------------------
(* The requests and the head section that holds them *)

\* From InitScratchBufferData on, the requests are where the head section begins.
RequestsAtHead ==
  HasRequests => scratch_buffer_head_ = AlignPointerUp(BufferHead, StructAlignment)

RequestsInv == RequestsOwned /\ RequestsAtHead

\* A step that leaves the requests alone, and the operator while it is prepared.
LEMMA RequestsUntouched ==
  ASSUME RequestsInv, UNCHANGED <<requests, model, scratch_buffer_head_, left>>,
         pc' \notin {"idle", "scratch"} =>
           /\ pc \notin {"idle", "scratch"}
           /\ HasRequests' => HasRequests
           /\ pc' \in {"reserve", "tensors"} => pc \in {"reserve", "tensors"}
           /\ Preparing => Preparing' /\ UNCHANGED op
  PROVE  RequestsInv'
<1>1. RequestsAtHead'
  BY DEF RequestsInv, RequestsAtHead, HasRequests
<1>2. RequestsOwned'
  BY DEF RequestsInv, RequestsOwned
<1> QED
  BY <1>1, <1>2 DEF RequestsInv

LEMMA KernelKeepsRequests ==
  ASSUME CallState, RequestsInv, Kernel
  PROVE  RequestsInv'
<1>1. ASSUME NEW size \in KernelSizes,
             KernelPersistentBuffer(size) \/ KernelAllocatesTemp(size)
      PROVE  RequestsInv'
  BY <1>1, RequestsUntouched
     DEF KernelPersistentBuffer, KernelAllocatesTemp, allocator, temps, HasRequests,
         Preparing
<1>2. ASSUME NEW t \in kernelTemps, KernelReturnsTemp(t)
      PROVE  RequestsInv'
  BY <1>2, RequestsUntouched DEF KernelReturnsTemp, allocator, HasRequests, Preparing
<1>3. CASE RequestScratchBufferInArena
  <2> DEFINE r == [subgraph_idx |-> model.operators[op].subgraph,
                   node_idx |-> kUnassigned, owner |-> op]
  <2>1. /\ requests' = Append(requests, r) /\ Preparing
        /\ UNCHANGED <<allocator, pc, model, op, left>>
    BY <1>3 DEF RequestScratchBufferInArena, temps
  <2>2. Preparing' /\ RequestsAtHead' /\ pc \notin {"idle", "scratch"}
    BY <2>1 DEF Preparing, RequestsInv, RequestsAtHead, HasRequests, allocator
  <2>3. r.node_idx = kUnassigned /\ r.owner = op
    OBVIOUS
  <2> HIDE DEF r
  <2>4. requests \in Seq(Requests)
    BY DEF CallState
  <2>5. ASSUME NEW k \in DOMAIN requests'
        PROVE  IF requests'[k].node_idx = kUnassigned
               THEN \/ Preparing' /\ requests'[k].owner = op'
                    \/ left' # {} /\ pc' \notin {"reserve", "tensors"}
               ELSE requests'[k].node_idx = model'.operators[requests'[k].owner].node
    <3>1. (k \in DOMAIN requests /\ requests'[k] = requests[k]) \/ requests'[k] = r
      BY <2>1, <2>4, <2>5
    <3>2. CASE requests'[k] = r
      BY <2>1, <2>2, <2>3, <3>2
    <3>3. CASE k \in DOMAIN requests /\ requests'[k] = requests[k]
      BY <2>1, <2>2, <3>3 DEF RequestsInv, RequestsOwned
    <3> QED
      BY <3>1, <3>2, <3>3
  <2> QED
    BY <2>2, <2>5 DEF RequestsInv, RequestsOwned
<1>4. CASE KernelFails
  BY <1>4, RequestsUntouched DEF KernelFails, Return, allocator, temps, HasRequests
<1> QED
  BY <1>1, <1>2, <1>3, <1>4 DEF Kernel

\* If no kernel has kept a temp buffer, every request without a node is one of the
\* operator just prepared and gets its node; otherwise nothing changes.
LEMMA FinishPrepareKeepsRequests ==
  ASSUME CallState, TempsInv, AuditMatches, RequestsInv, FinishPrepareNodeAllocations
  PROVE  RequestsInv'
<1> DEFINE node == model.operators[op].node
<1>1. /\ UNCHANGED <<allocator, pc, model>> /\ Preparing /\ op \in Nat
      /\ pc' = "prepare" /\ left' = kernelTemps
  BY DEF FinishPrepareNodeAllocations, CallState, Preparing
<1>2. RequestsAtHead'
  BY <1>1 DEF RequestsInv, RequestsAtHead, HasRequests, allocator
<1>3. node \in Nat
  BY <1>1, OperatorFacts
<1>4. requests \in Seq(Requests)
  BY DEF CallState
<1> HIDE DEF node
<1>5. ASSUME NEW k \in DOMAIN requests
      PROVE  IF requests[k].node_idx = kUnassigned
             THEN requests[k].owner = op \/ left # {}
             ELSE requests[k].node_idx = model.operators[requests[k].owner].node
  BY <1>1, <1>5 DEF RequestsInv, RequestsOwned
<1>6. CASE CanResetTempAllocations(arena)
  <2>1. requests' = Assigned(node) /\ left = {}
    BY <1>1, <1>6, RefusedForAKeptBuffer DEF FinishPrepareNodeAllocations, AuditMatches, node
  <2>2. ASSUME NEW k \in DOMAIN requests'
        PROVE  /\ requests'[k].node_idx # kUnassigned
               /\ requests'[k].node_idx = model'.operators[requests'[k].owner].node
    <3>1. k \in DOMAIN requests
      BY <2>1, <2>2 DEF Assigned
    <3>2. requests[k] \in Requests
      BY <1>4, <3>1, ElementOfSeq
    <3>3. CASE k \in Unassigned
      <4>1. requests'[k] = [requests[k] EXCEPT !.node_idx = node]
        BY <2>1, <3>1, <3>3 DEF Assigned
      <4>2. requests'[k].node_idx = node /\ requests'[k].owner = requests[k].owner
        BY <3>2, <4>1 DEF Requests
      <4>3. requests[k].owner = op
        BY <1>5, <2>1, <3>1, <3>3 DEF Unassigned
      <4> QED
        BY <1>1, <1>3, <4>2, <4>3 DEF kUnassigned, node
    <3>4. CASE k \notin Unassigned
      <4>1. requests'[k] = requests[k] /\ requests[k].node_idx # kUnassigned
        BY <2>1, <3>1, <3>4 DEF Assigned, Unassigned
      <4> QED
        BY <1>1, <1>5, <3>1, <4>1
    <3> QED
      BY <3>3, <3>4
  <2> QED
    BY <1>2, <2>2 DEF RequestsInv, RequestsOwned
<1>7. CASE ~CanResetTempAllocations(arena)
  <2>1. requests' = requests /\ left' # {}
    BY <1>1, <1>7, RefusedForAKeptBuffer DEF FinishPrepareNodeAllocations
  <2> QED
    BY <1>1, <1>2, <1>5, <2>1 DEF RequestsInv, RequestsOwned
<1> QED
  BY <1>6, <1>7

\* The head section is released only after an audit that has found nothing left.
LEMMA ReleaseKeepsRequests ==
  ASSUME CallState, TempsInv, AuditMatches, RequestsInv, ReleaseHead
  PROVE  RequestsInv'
<1>1. /\ pc = "release" /\ UNCHANGED <<allocator, requests, model, left>>
      /\ \/ pc' = "idle"
         \/ pc' = "reserve" /\ CanResetTempAllocations(arena)
  BY DEF ReleaseHead, temps
<1>2. RequestsAtHead'
  BY <1>1 DEF RequestsAtHead, HasRequests
<1>3. pc' = "reserve" => left = {}
  BY <1>1, NoneCounted DEF TempsInv, AuditMatches
<1> QED
  BY <1>1, <1>2, <1>3 DEF RequestsInv, RequestsOwned, Preparing

LEMMA FrameworkKeepsRequests ==
  ASSUME CallState, TempsInv, AuditMatches, RequestsInv, Framework
  PROVE  RequestsInv'
<1>1. CASE InitScratchBufferData
  <2>1. /\ requests' = <<>>
        /\ \/ pc' = "idle"
           \/ scratch_buffer_head_' = AlignPointerUp(BufferHead, StructAlignment)
    BY <1>1 DEF InitScratchBufferData, Return
  <2>2. DOMAIN requests' = {}
    BY <2>1
  <2> QED
    BY <2>1, <2>2 DEF RequestsInv, RequestsOwned, RequestsAtHead, HasRequests
<1>2. CASE AllocateNext \/ StructsAllocated \/ ModelRejected \/ AllocateTensorsDone
  BY <1>2, RequestsUntouched
     DEF AllocateNext, StructsAllocated, ModelRejected, AllocateTensorsDone, Return,
         allocator, temps, HasRequests, Preparing, Phases
<1>3. CASE InitSubgraphsDone \/ AllocateScratchBufferHandles
  <2>1. /\ HasRequests /\ ~Preparing /\ UNCHANGED <<allocator, requests, model, left>>
        /\ pc' \notin {"reserve", "tensors"} /\ pc \notin {"idle", "scratch"}
    BY <1>3 DEF InitSubgraphsDone, AllocateScratchBufferHandles, HasRequests,
                Preparing, Phases, CallState, temps
  <2> QED
    BY <2>1, RequestsUntouched DEF allocator
<1>4. CASE FinishPrepareNodeAllocations \/ ReleaseHead
  BY <1>4, FinishPrepareKeepsRequests, ReleaseKeepsRequests
<1>5. CASE CreateSubgraphOffsets \/ CreateAllocationInfo \/ AllocatePlannerArena
  BY <1>5, RequestsUntouched
     DEF CreateSubgraphOffsets, CreateAllocationInfo, AllocatePlannerArena,
         PlanningTemp, allocator, HasRequests, Preparing, Phases
<1>6. CASE CreateAndCommitPlan \/ FreePlanningMemory
  BY <1>6, RequestsUntouched
     DEF CreateAndCommitPlan, FreePlanningMemory, Return, allocator, temps, HasRequests,
         Preparing, Phases
<1>7. CASE ReserveOverlay
  BY <1>7, RequestsUntouched
     DEF ReserveOverlay, Return, temps, HasRequests, Preparing, Phases
<1> QED
  BY <1>1, <1>2, <1>3, <1>4, <1>5, <1>6, <1>7 DEF Framework

LEMMA RequestsInvHolds ==
  ASSUME AlignedArena
  PROVE  Spec => []RequestsInv
<1>1. Init => RequestsInv
  BY DEF Init, RequestsInv, RequestsOwned, RequestsAtHead, HasRequests
<1>2. IInv /\ TempsInv /\ AuditMatches /\ RequestsInv /\ [Next]_vars => RequestsInv'
  <2> SUFFICES ASSUME CallState, TempsInv, AuditMatches, RequestsInv, [Next]_vars
               PROVE  RequestsInv'
    BY DEF IInv
  <2>1. ASSUME NEW m \in Models, StartModelAllocation(m) PROVE RequestsInv'
    <3>1. pc' \in {"scratch", "idle"}
      BY <2>1 DEF StartModelAllocation
    <3> QED
      BY <3>1 DEF RequestsInv, RequestsOwned, RequestsAtHead, HasRequests
  <2>2. CASE UNCHANGED vars
    BY <2>2, RequestsUntouched DEF vars, allocator, temps, HasRequests, Preparing
  <2> QED
    BY <2>1, <2>2, KernelKeepsRequests, FrameworkKeepsRequests DEF Next
<1> QED
  BY <1>1, <1>2, InvariantHolds, TempsInvHolds, AuditHolds, PTL DEF Spec

\* Each scratch buffer request that gets a node gets that of the operator that made
\* it, for all models and kernels and whatever status of FinishPrepareNodeAllocations
\* is ignored; one that has not got its node in time never gets one, and none is
\* left when the head section has been released.
THEOREM RequestsKeepTheirOwners ==
  ASSUME AlignedArena
  PROVE  Spec => []RequestsOwned
<1>1. RequestsInv => RequestsOwned
  BY DEF RequestsInv
<1> QED
  BY <1>1, RequestsInvHolds, PTL

\* After the plan the head section can be released whenever the temp chain can
\* be reset: the pointer that is compared is the one the requests began at.
THEOREM HeadCanBeReleased ==
  ASSUME AlignedArena
  PROVE  Spec => []HeadReleasable
<1>1. IInv /\ RequestsInv => HeadReleasable
  <2> SUFFICES ASSUME IInv, RequestsInv, pc = "release"
               PROVE  CanDeallocateResizableBuffer(ResetTempAllocations(arena),
                                                   scratch_buffer_head_)
    BY DEF HeadReleasable
  <2>1. scratch_buffer_head_ = BufferHead
    BY DEF RequestsInv, RequestsAtHead, HasRequests, Phases, AlignedArena
  <2>2. AlignPointerUp(BufferHead, 1) = BufferHead
    BY ArenaFacts DEF AlignPointerUp
  <2>3. /\ ResetTempAllocations(arena).head = ResetTempAllocations(arena).temp
        /\ ResetTempAllocations(arena).tail = arena.tail
    BY DEF ResetTempAllocations, Fields
  <2>4. arena.tail \in Int
    BY ArenaFacts DEF IInv, ArenaOrdered, Addresses
  <2>5. Wrapped(arena.tail - BufferHead) >= 0
    BY <2>4, ArenaFacts DEF Wrapped
  <2> QED
    BY <2>1, <2>2, <2>3, <2>5 DEF CanDeallocateResizableBuffer, CanResizeBuffer
<1> QED
  BY <1>1, InvariantHolds, RequestsInvHolds, PTL
-----------------------------------------------------------------------------
(* The array of requests fits into the head section *)

\* The head section has room for the requests that have got their node, and for
\* as many as one operator may make.
RoomFor(n) == BufferHead + RequestSize * n

RequestsFit ==
  HasRequests /\ ~ignored =>
    /\ Cardinality(Unassigned) <= kMaxScratchBuffersPerOp
    /\ RoomFor(Len(requests) - Cardinality(Unassigned) + kMaxScratchBuffersPerOp)
         <= arena.head

LEMMA UnassignedFinite ==
  ASSUME CallState
  PROVE  /\ Len(requests) \in Nat /\ DOMAIN requests = 1 .. Len(requests)
         /\ IsFiniteSet(Unassigned) /\ Cardinality(Unassigned) \in Nat
<1>1. Len(requests) \in Nat /\ DOMAIN requests = 1 .. Len(requests)
  BY DEF CallState
<1>2. Unassigned \subseteq 1 .. Len(requests)
  BY <1>1 DEF Unassigned
<1>3. IsFiniteSet(1 .. Len(requests))
  BY <1>1, FS_Interval
<1>4. IsFiniteSet(Unassigned)
  BY <1>2, <1>3, FS_Subset
<1> QED
  BY <1>1, <1>4, FS_CardinalityType

LEMMA FitUntouched ==
  ASSUME RequestsFit, UNCHANGED <<requests, arena.head>>,
         HasRequests' /\ ~ignored' => HasRequests /\ ~ignored
  PROVE  RequestsFit'
BY DEF RequestsFit, Unassigned, RoomFor

\* Steps of all other kinds; an aborted allocation has no requests.
LEMMA OthersKeepFit ==
  ASSUME IInv, RequestsFit,
         \/ \E size \in KernelSizes : KernelPersistentBuffer(size) \/ KernelAllocatesTemp(size)
         \/ \E t \in kernelTemps : KernelReturnsTemp(t)
         \/ KernelFails \/ AllocateNext \/ StructsAllocated \/ InitSubgraphsDone
         \/ AllocateScratchBufferHandles \/ CreateSubgraphOffsets \/ CreateAllocationInfo
         \/ ModelRejected \/ AllocatePlannerArena \/ CreateAndCommitPlan
         \/ FreePlanningMemory \/ ReleaseHead \/ ReserveOverlay \/ AllocateTensorsDone
         \/ UNCHANGED vars
  PROVE  RequestsFit'
<1>1. CASE HasRequests' /\ ~ignored'
  <2>1. ASSUME NEW size, NEW alignment,
               GrantPersistent(size, alignment) \/ UNCHANGED memory
        PROVE  arena'.head = arena.head
    BY <2>1 DEF GrantPersistent, AllocatePersistentBuffer, Fields, memory
  <2>2. ASSUME NEW size, NEW alignment, NEW next, PlanningTemp(size, alignment, next)
        PROVE  arena'.head = arena.head
    BY <2>2 DEF PlanningTemp, AllocateTemp, Fields
  <2>3. CASE \/ \E size \in KernelSizes : \/ KernelPersistentBuffer(size)
                                          \/ KernelAllocatesTemp(size)
             \/ \E t \in kernelTemps : KernelReturnsTemp(t)
             \/ KernelFails
    <3>1. UNCHANGED <<requests, arena.head, ignored>> /\ (pc' = pc \/ pc' = "idle")
      BY <2>1, <2>3 DEF KernelPersistentBuffer, KernelAllocatesTemp, KernelReturnsTemp,
                        KernelFails, AllocateTemp, DeallocateTemp, Fields, memory, Return
    <3> QED
      BY <1>1, <3>1, FitUntouched DEF HasRequests
  <2>4. CASE AllocateNext \/ StructsAllocated \/ InitSubgraphsDone
             \/ AllocateScratchBufferHandles \/ ModelRejected \/ AllocateTensorsDone
             \/ CreateAndCommitPlan
    <3>1. UNCHANGED <<requests, arena.head, ignored>>
      BY <2>1, <2>4 DEF AllocateNext, StructsAllocated, InitSubgraphsDone,
                        AllocateScratchBufferHandles, ModelRejected,
                        AllocateTensorsDone, CreateAndCommitPlan, memory
    <3>2. HasRequests' => HasRequests
      BY <2>4 DEF AllocateNext, StructsAllocated, InitSubgraphsDone,
                  AllocateScratchBufferHandles, ModelRejected, AllocateTensorsDone,
                  CreateAndCommitPlan, Return, HasRequests, Phases
    <3> QED
      BY <3>1, <3>2, FitUntouched
  <2>5. CASE CreateSubgraphOffsets \/ CreateAllocationInfo \/ AllocatePlannerArena
    <3>1. arena'.head = arena.head
      BY <2>2, <2>5 DEF CreateSubgraphOffsets, CreateAllocationInfo, AllocatePlannerArena
    <3>2. UNCHANGED <<requests, ignored>> /\ HasRequests
      BY <2>5 DEF CreateSubgraphOffsets, CreateAllocationInfo, AllocatePlannerArena,
                  PlanningTemp, HasRequests, Phases
    <3> QED
      BY <3>1, <3>2, FitUntouched
  <2>6. CASE FreePlanningMemory
    <3>1. UNCHANGED <<requests, ignored, arena.head>> /\ HasRequests
      BY <2>6 DEF FreePlanningMemory, PlanningFreed, DeallocateTemp, Fields, HasRequests,
                  Phases
    <3> QED
      BY <3>1, FitUntouched
  <2>7. CASE ReleaseHead \/ ReserveOverlay
    BY <1>1, <2>7 DEF ReleaseHead, ReserveOverlay, Return, HasRequests
  <2>8. CASE UNCHANGED vars
    BY <2>8, FitUntouched DEF vars, memory, HasRequests
  <2> QED
    BY <2>3, <2>4, <2>5, <2>6, <2>7, <2>8
<1>2. CASE ~(HasRequests' /\ ~ignored')
  BY <1>2 DEF RequestsFit
<1> QED
  BY <1>1, <1>2

\* One more request without a node takes one more place, as long as there is one.
LEMMA RequestKeepsFit ==
  ASSUME IInv, RequestsFit, RequestScratchBufferInArena
  PROVE  RequestsFit'
<1> DEFINE r == [subgraph_idx |-> model.operators[op].subgraph,
                 node_idx |-> kUnassigned, owner |-> op]
<1>1. /\ requests' = Append(requests, r) /\ Cardinality(Unassigned) < kMaxScratchBuffersPerOp
      /\ UNCHANGED <<pc, ignored, arena.head>>
  BY DEF RequestScratchBufferInArena, UnderLimit, memory
<1>2. r.node_idx = kUnassigned
  OBVIOUS
<1> HIDE DEF r
<1>3. /\ Len(requests) \in Nat /\ DOMAIN requests = 1 .. Len(requests)
      /\ IsFiniteSet(Unassigned) /\ Cardinality(Unassigned) \in Nat
      /\ requests \in Seq(Requests)
  BY UnassignedFinite DEF IInv, CallState
<1> DEFINE n == Len(requests)
<1>4. Unassigned' = Unassigned \cup {n + 1} /\ Len(requests') = n + 1
  <2>1. /\ Len(requests') = n + 1 /\ DOMAIN requests' = 1 .. n + 1
        /\ \A k \in 1 .. n : requests'[k] = requests[k]
        /\ requests'[n + 1] = r
    BY <1>1, <1>3
  <2> QED
    BY <1>2, <1>3, <2>1 DEF Unassigned
<1>5. n + 1 \notin Unassigned
  BY <1>3 DEF Unassigned
<1>6. Cardinality(Unassigned') = Cardinality(Unassigned) + 1
  BY <1>3, <1>4, <1>5, FS_AddElement
<1>7. Len(requests') - Cardinality(Unassigned') = n - Cardinality(Unassigned)
  BY <1>3, <1>4, <1>6
<1> HIDE DEF n
<1>8. Cardinality(Unassigned') <= kMaxScratchBuffersPerOp
  BY <1>1, <1>3, <1>6, SizeFacts
<1> QED
  BY <1>1, <1>7, <1>8 DEF RequestsFit, RoomFor, HasRequests, n

\* A head section just resized has room for another operator's requests.
LEMMA FinishPrepareKeepsFit ==
  ASSUME AlignedArena, IInv, FinishPrepareNodeAllocations
  PROVE  RequestsFit'
<1> DEFINE rewound == ResetTempAllocations(arena)
           node == model.operators[op].node
<1>1. SUFFICES ASSUME ~ignored' PROVE RequestsFit'
  BY DEF RequestsFit
<1>2. /\ requests' = Assigned(node)
      /\ CanResizeBuffer(rewound, scratch_buffer_head_, RoomForNext, StructAlignment)
      /\ arena' = ResizeBuffer(rewound, RoomForNext, StructAlignment)
      /\ persistent' = persistent
  BY <1>1 DEF FinishPrepareNodeAllocations
<1>3. node \in Nat
  BY OperatorFacts DEF FinishPrepareNodeAllocations, IInv
<1> HIDE DEF node
<1>4. Len(requests) \in Nat /\ DOMAIN requests = 1 .. Len(requests)
  BY UnassignedFinite DEF IInv
<1>5. requests \in Seq(Requests)
  BY DEF IInv, CallState
<1>6. requests' \in [1 .. Len(requests) -> {requests'[k] : k \in 1 .. Len(requests)}]
  BY <1>2, <1>4 DEF Assigned
<1>7. Len(requests') = Len(requests) /\ DOMAIN requests' = 1 .. Len(requests)
  BY <1>4, <1>6, SeqOfDomain
<1>8. Unassigned' = {}
  <2> SUFFICES ASSUME NEW k \in DOMAIN requests, requests'[k].node_idx = kUnassigned
               PROVE  FALSE
    BY <1>4, <1>7 DEF Unassigned
  <2>1. requests[k] \in Requests
    BY <1>5, ElementOfSeq
  <2>2. CASE k \in Unassigned
    BY <1>2, <1>3, <2>1, <2>2 DEF Assigned, Requests, kUnassigned
  <2>3. CASE k \notin Unassigned
    BY <1>2, <2>3 DEF Assigned, Unassigned
  <2> QED
    BY <2>2, <2>3
<1>9. Cardinality(Unassigned') = 0
  BY <1>8, FS_EmptySet
<1>10. arena'.head = BufferHead + RoomForNext
  <2>1. rewound.tail = arena.tail
    BY DEF ResetTempAllocations, Fields
  <2>2. RoomForNext \in Nat
    BY <1>4, SizeFacts DEF RoomForNext
  <2> QED
    BY <1>2, <2>1, <2>2, ResizeKeepsOrder DEF IInv
<1>11. RoomFor(Len(requests') - Cardinality(Unassigned') + kMaxScratchBuffersPerOp)
         = arena'.head
  <2>1. Len(requests') - Cardinality(Unassigned') + kMaxScratchBuffersPerOp
          = Len(requests) + kMaxScratchBuffersPerOp
    BY <1>4, <1>7, <1>9, SizeFacts
  <2> QED
    BY <1>10, <2>1 DEF RoomFor, RoomForNext
<1>12. arena'.head \in Int
  BY FinishPrepareNodeStep, ArenaFacts DEF IInv, ArenaOrdered, Addresses
<1> QED
  BY <1>9, <1>11, <1>12, SizeFacts DEF RequestsFit

LEMMA InitScratchBufferDataKeepsFit ==
  ASSUME AlignedArena, IInv, InitScratchBufferData
  PROVE  RequestsFit'
<1>1. SUFFICES ASSUME HasRequests' PROVE RequestsFit'
  BY DEF RequestsFit
<1> DEFINE size == RequestSize * kMaxScratchBuffersPerOp
<1>2. /\ CanSetHeadSection(arena, size, StructAlignment) /\ requests' = <<>>
      /\ arena' = ResizeBuffer(arena, size, StructAlignment) /\ UNCHANGED persistent
  BY <1>1 DEF InitScratchBufferData, Return, HasRequests
<1>3. size \in Nat
  BY SizeFacts
<1>4. ArenaOrdered' /\ arena'.head = BufferHead + size
  BY <1>2, <1>3, ResizeKeepsOrder DEF IInv, CanSetHeadSection
<1>5. Unassigned' = {} /\ Len(requests') = 0
  BY <1>2 DEF Unassigned
<1>6. Cardinality(Unassigned') = 0
  BY <1>5, FS_EmptySet
<1>7. Len(requests') - Cardinality(Unassigned') + kMaxScratchBuffersPerOp
        = kMaxScratchBuffersPerOp
  BY <1>5, <1>6, SizeFacts
<1>8. arena'.head \in Int
  BY <1>4, ArenaFacts DEF ArenaOrdered, Addresses
<1> QED
  BY <1>4, <1>6, <1>7, <1>8, SizeFacts DEF RequestsFit, RoomFor

LEMMA FitInductive ==
  ASSUME AlignedArena, IInv, RequestsFit, [Next]_vars
  PROVE  RequestsFit'
<1>1. ASSUME NEW m \in Models, StartModelAllocation(m) PROVE RequestsFit'
  BY <1>1 DEF StartModelAllocation, RequestsFit, HasRequests
<1> QED
  BY <1>1, OthersKeepFit, RequestKeepsFit, FinishPrepareKeepsFit,
     InitScratchBufferDataKeepsFit DEF Next, Kernel, Framework

\* The array of scratch buffer requests stays inside the head section, and no
\* persistent buffer, no temp buffer of a kernel and none of the planner's lies
\* over it, for all models and kernels, as long as no failure of
\* FinishPrepareNodeAllocations has been ignored.
THEOREM RequestsStayUnharmed ==
  ASSUME AlignedArena
  PROVE  Spec => []RequestsUnharmed
<1>1. Init => RequestsFit
  BY DEF Init, RequestsFit, HasRequests
<1>2. IInv /\ RequestsFit /\ [Next]_vars => RequestsFit'
  BY FitInductive
<1>3. IInv /\ TempsInv /\ RequestsInv /\ RequestsFit => RequestsUnharmed
  <2> SUFFICES ASSUME IInv, TempsInv, RequestsInv, RequestsFit, HasRequests, ~ignored
               PROVE  /\ RequestArray.at + RequestArray.size <= arena.head
                      /\ \A b \in persistent \cup kernelTemps
                                    \cup {planning[k] : k \in DOMAIN planning} :
                           Apart(RequestArray, b)
    BY DEF RequestsUnharmed
  <2>1. RequestArray.at = BufferHead /\ RequestArray.size = RequestSize * Len(requests)
    BY DEF RequestsInv, RequestsAtHead, AlignedArena, RequestArray, Block
  <2>2. RequestArray.at + RequestArray.size <= arena.head
    <3> DEFINE n == Len(requests) - Cardinality(Unassigned) + kMaxScratchBuffersPerOp
    <3>1. n \in Nat /\ Len(requests) \in Nat /\ Len(requests) <= n
      BY UnassignedFinite, SizeFacts DEF IInv, RequestsFit
    <3>2. BufferHead + RequestSize * n <= arena.head /\ arena.head \in Int
      BY ArenaFacts DEF RequestsFit, RoomFor, IInv, ArenaOrdered, Addresses
    <3> HIDE DEF n
    <3>3. \A i, j, k \in Nat : j <= k => i * j \in Nat /\ i * k \in Nat /\ i * j <= i * k
      OBVIOUS
    <3>4. /\ RequestSize * Len(requests) \in Nat /\ RequestSize * n \in Nat
          /\ RequestSize * Len(requests) <= RequestSize * n
      BY <3>1, <3>3, SizeFacts
    <3> DEFINE used == RequestSize * Len(requests)
               room == RequestSize * n
    <3>5. /\ used \in Nat /\ room \in Nat /\ used <= room
          /\ BufferHead + room <= arena.head /\ RequestArray.size = used
      BY <2>1, <3>2, <3>4
    <3> HIDE DEF used, room
    <3> QED
      BY <2>1, <3>2, <3>5, ArenaFacts
  <2>3. ASSUME NEW b \in persistent PROVE b.at \in Int /\ arena.head <= b.at
    BY ArenaFacts DEF IInv, ArenaOrdered, Addresses
  <2>4. ASSUME NEW b \in kernelTemps PROVE b.at \in Int /\ arena.head <= b.at
    <3>1. pc \in {"structs", "init"} => kernelTemps = {}
      BY DEF TempsInv, NoTempsBetween, NoTemps, Resting
    <3>2. pc \in DOMAIN PlanningTemps => kernelTemps = {}
      BY DEF TempsInv, PlanningChain
    <3>3. pc \in {"structs", "init", "prepare"} \cup DOMAIN PlanningTemps
      BY DEF HasRequests, Phases, PlanningTemps
    <3> QED
      BY <2>4, <3>1, <3>2, <3>3 DEF TempsInv, KernelChain
  <2>5. ASSUME NEW k \in DOMAIN planning
        PROVE  planning[k].at \in Int /\ arena.head <= planning[k].at
    <3>1. pc \in {"structs", "init", "prepare"} => planning = <<>>
      BY DEF TempsInv, NoTempsBetween, NoTemps, Resting, KernelChain
    <3>2. pc \in {"structs", "init", "prepare"} \cup DOMAIN PlanningTemps
      BY DEF HasRequests, Phases, PlanningTemps
    <3>3. DOMAIN <<>> = {}
      OBVIOUS
    <3>4. planning[k] \in Blocks
      BY ElementOfSeq DEF TempsInv, TempsCounted
    <3> QED
      BY <2>5, <3>1, <3>2, <3>3, <3>4 DEF TempsInv, PlanningChain, Blocks
  <2>6. ASSUME NEW b, b.at \in Int, arena.head <= b.at PROVE Apart(RequestArray, b)
    <3>1. arena.head \in Int /\ RequestArray.at + RequestArray.size \in Int
      <4>1. RequestSize * Len(requests) \in Int
        BY UnassignedFinite, SizeFacts DEF IInv
      <4> QED
        BY <2>1, <4>1, ArenaFacts DEF IInv, ArenaOrdered, Addresses
    <3> QED
      BY <2>2, <2>6, <3>1 DEF Apart
  <2> QED
    BY <2>2, <2>3, <2>4, <2>5, <2>6
<1> QED
  BY <1>1, <1>2, <1>3, InvariantHolds, TempsInvHolds, RequestsInvHolds, PTL DEF Spec
=============================================================================
