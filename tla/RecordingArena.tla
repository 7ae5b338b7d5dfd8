--------------------------- MODULE RecordingArena ---------------------------
(***************************************************************************)
(* RecordingSingleArenaBufferAllocator, which counts what the allocator it *)
(* extends hands out, and RecordingMicroAllocator, which sorts these       *)
(* counts into buckets: it takes a snapshot, lets MicroAllocator allocate, *)
(* and adds the difference to the bucket.  The counters are kept by two    *)
(* virtual functions.  The ...Direct functions of the allocator are not    *)
(* virtual, so calls that go through them are not counted; which calls do  *)
(* is a parameter.                                                         *)
(***************************************************************************)
EXTENDS Arena

CONSTANTS
  AllocatorSize, AllocatorAlignment,  \* of the allocator itself
  Sizes, Alignments,                  \* of persistent buffers
  HeadSizes,                          \* of the resizable buffer and the overlay
  Buckets,                            \* RecordedAllocationType
  Direct                              \* buckets, and "head", that use ...Direct

NoBucket == "none"

VARIABLES
  arena,          \* the fields of SingleArenaBufferAllocator
  counters,       \* requested_head_bytes_, requested_tail_bytes_, used_bytes_, alloc_count_
  recorded,       \* the recorded_..._data_ of each bucket
  bucket,         \* the bucket being filled, or NoBucket
  snapshot,       \* SnapshotAllocationUsage() when it was started
  truth           \* what was really allocated for each bucket

vars == <<arena, counters, recorded, bucket, snapshot, truth>>

Usage(requested, used, count) == [requested |-> requested, used |-> used, count |-> count]
NoUsage == Usage(0, 0, 0)

Plus(u, v) ==
  Usage(Wrapped(u.requested + v.requested), Wrapped(u.used + v.used), Wrapped(u.count + v.count))
Minus(u, v) ==
  Usage(Wrapped(u.requested - v.requested), Wrapped(u.used - v.used), Wrapped(u.count - v.count))

SnapshotAllocationUsage ==
  Usage(Wrapped(counters.head + counters.tail), counters.used, counters.count)

-----------------------------------------------------------------------------
Counted(size, before, after) ==
  [counters EXCEPT !.tail = Wrapped(@ + size),
                   !.used = Wrapped(@ + before.tail - after.tail),
                   !.count = Wrapped(@ + 1)]

\* Create: the allocator on the stack counts the block of the real one, which
\* starts as a copy of it.
Init ==
  LET created == AllocatePersistentBuffer(NewArena, AllocatorSize, AllocatorAlignment)
  IN  /\ arena = created
      /\ counters = [head |-> 0, tail |-> AllocatorSize,
                     used |-> BufferTail - created.tail, count |-> 1]
      /\ recorded = [b \in Buckets |-> NoUsage] /\ truth = recorded
      /\ bucket = NoBucket /\ snapshot = NoUsage

\* A function of RecordingMicroAllocator starts: AllocateTfLiteEvalTensors,
\* AllocatePersistentTfLiteTensorInternal, AllocatePersistentBuffer ...
StartBucket(b) ==
  /\ bucket = NoBucket
  /\ bucket' = b
  /\ snapshot' = SnapshotAllocationUsage
  /\ UNCHANGED <<arena, counters, recorded, truth>>

\* MicroAllocator allocates on behalf of the function, as often as there are
\* subgraphs or variables, and until an allocation fails.
Allocate(size, alignment) ==
  /\ bucket # NoBucket
  /\ CanAllocatePersistentBuffer(arena, size, alignment)
  /\ arena' = AllocatePersistentBuffer(arena, size, alignment)
  /\ counters' = IF bucket \in Direct THEN counters ELSE Counted(size, arena, arena')
  /\ truth' = [truth EXCEPT ![bucket] = Plus(@, Usage(size, arena.tail - arena'.tail, 1))]
  /\ UNCHANGED <<recorded, bucket, snapshot>>

\* RecordAllocationUsage, whether or not the allocations succeeded.
RecordAllocationUsage ==
  /\ bucket # NoBucket
  /\ recorded' = [recorded EXCEPT ![bucket] = Plus(@, Minus(SnapshotAllocationUsage, snapshot))]
  /\ bucket' = NoBucket
  /\ UNCHANGED <<arena, counters, snapshot, truth>>

\* The head section, by the function that counts; MicroAllocator sets it in
\* StartModelAllocation.
ResizeRecorded(size, alignment) ==
  /\ bucket = NoBucket
  /\ CanSetHeadSection(arena, size, alignment)
  /\ arena' = ResizeBuffer(arena, size, alignment)
  /\ counters' = [counters EXCEPT !.used = Wrapped(@ + arena'.head - arena.head),
                                  !.head = size]
  /\ UNCHANGED <<recorded, bucket, snapshot, truth>>

\* ResizeBufferDirect: FinishPrepareNodeAllocations and CommitStaticMemoryPlan
\* grow, release and reserve the head section with it.
ResizeDirect(size, alignment) ==
  /\ bucket = NoBucket /\ "head" \in Direct
  /\ CanSetHeadSection(arena, size, alignment)
  /\ arena' = ResizeBuffer(arena, size, alignment)
  /\ UNCHANGED <<counters, recorded, bucket, snapshot, truth>>

Next ==
  \/ \E b \in Buckets : StartBucket(b)
  \/ \E size \in Sizes, alignment \in Alignments : Allocate(size, alignment)
  \/ RecordAllocationUsage
  \/ \E size \in HeadSizes, alignment \in Alignments :
        ResizeRecorded(size, alignment) \/ ResizeDirect(size, alignment)

Spec == Init /\ [][Next]_vars

-----------------------------------------------------------------------------
TypeOK ==
  /\ arena \in ArenaRecords
  /\ counters \in [head: Addresses, tail: Addresses, used: Addresses, count: Addresses]
  /\ recorded \in [Buckets -> [requested: Addresses, used: Addresses, count: Addresses]]
  /\ bucket \in Buckets \cup {NoBucket}

\* The bytes counted as used are those that the arena has given out, after any
\* number of resizes of the head in both directions and of failed allocations.
UsedIsOccupied ==
  counters.used = (arena.head - BufferHead) + (BufferTail - arena.tail)

\* recording_single_arena_buffer_allocator.h:43: no fewer bytes are used than were
\* requested.
RequestedAtMostUsed == counters.head + counters.tail <= counters.used

\* Each bucket holds what was allocated for it, and nothing of the others, also
\* when an allocation failed half-way.
BucketsRight == bucket = NoBucket => recorded = truth

\* Calls that bypass the counters, for the head or for another bucket, disturb no
\* bucket that is counted, and those that bypass them claim nothing of others.
CountedBucketsRight ==
  bucket = NoBucket =>
    \A b \in Buckets : recorded[b] = IF b \in Direct THEN NoUsage ELSE truth[b]
=============================================================================
