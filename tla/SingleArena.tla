---------------------------- MODULE SingleArena ----------------------------
(***************************************************************************)
(* SingleArenaBufferAllocator driven by a client that keeps the interface's *)
(* rules: it gives back only temp buffers it holds, and resizes only the    *)
(* buffer it was given.  Beside the allocator's fields the state records    *)
(* the blocks the client holds, which is what the interface is about.  A    *)
(* call that fails changes nothing, so it is a stuttering step here.        *)
(***************************************************************************)
EXTENDS Arena, FiniteSets

CONSTANTS
  AllocatorSize, AllocatorAlignment, \* sizeof and alignof of the allocator itself
  Sizes, Alignments,                 \* what clients ask for
  MaxPersistent, MaxTemps            \* bounds on the blocks a client holds

ASSUME ClientAssumption ==
  /\ Sizes \subseteq Nat \ {0} /\ Alignments \subseteq Nat \ {0}
  /\ AllocatorSize \in Nat /\ AllocatorAlignment \in Nat \ {0}
  /\ MaxPersistent \in Nat /\ MaxTemps \in Nat

\* The arena starts at an address that every alignment divides, as
\* micro_allocator.h:133 asks of applications (ModelAllocation shows what happens
\* when it does not), and no request is larger than the addresses below the
\* arena: tail_ - size is computed before it is compared with head_.
ASSUME AlignedArenaAssumption ==
  \A alignment \in Alignments : AlignPointerUp(BufferHead, alignment) = BufferHead

ASSUME RequestAssumption ==
  AllocatorSize <= BufferHead /\ \A size \in Sizes : size <= BufferHead

\* Create returned an allocator: there was room to carve it out of the tail.
ASSUME CreateAssumption ==
  CanAllocatePersistentBuffer(NewArena, AllocatorSize, AllocatorAlignment)

VARIABLES
  arena,        \* the fields of the allocator
  persistent,   \* the persistent buffers handed out, the allocator's own first
  reserved,     \* the head section the client holds
  temps         \* the temp buffers the client holds

vars == <<arena, persistent, reserved, temps>>

Block(at, size) == [at |-> at, size |-> size]

-----------------------------------------------------------------------------
\* Create: a temporary allocator on the stack gives out the block in which
\* the real one is then constructed as a copy.
Init ==
  /\ arena = AllocatePersistentBuffer(NewArena, AllocatorSize, AllocatorAlignment)
  /\ persistent = {Block(arena.tail, AllocatorSize)}
  /\ reserved = Block(BufferHead, 0)
  /\ temps = {}

AllocatePersistent(size, alignment) ==
  /\ Cardinality(persistent) < MaxPersistent
  /\ CanAllocatePersistentBuffer(arena, size, alignment)
  /\ arena' = AllocatePersistentBuffer(arena, size, alignment)
  /\ persistent' = persistent \cup {Block(arena'.tail, size)}
  /\ UNCHANGED <<reserved, temps>>

AllocateResizable(size, alignment) ==
  /\ CanSetHeadSection(arena, size, alignment)
  /\ arena' = ResizeBuffer(arena, size, alignment)
  /\ reserved' = Block(AlignPointerUp(BufferHead, alignment), size)
  /\ UNCHANGED <<persistent, temps>>

Resize(size, alignment) ==
  /\ CanResizeBuffer(arena, reserved.at, size, alignment)
  /\ arena' = ResizeBuffer(arena, size, alignment)
  /\ reserved' = [reserved EXCEPT !.size = size]
  /\ UNCHANGED <<persistent, temps>>

DeallocateResizable ==
  /\ CanDeallocateResizableBuffer(arena, reserved.at)
  /\ arena' = DeallocateResizableBuffer(arena)
  /\ reserved' = Block(BufferHead, 0)
  /\ UNCHANGED <<persistent, temps>>

ReserveOverlay(size, alignment) ==
  /\ CanSetHeadSection(arena, size, alignment)
  /\ arena' = ResizeBuffer(arena, size, alignment)
  /\ reserved' = Block(AlignPointerUp(BufferHead, alignment), size)
  /\ UNCHANGED <<persistent, temps>>

\* The bound keeps a chain of temp buffers short of the end of the address
\* space: 2^32 bytes of live temp buffers on the target.
TempChainFits(size, alignment) ==
  arena.temp + alignment + size <= AddressSpace

AllocateTempBuffer(size, alignment) ==
  /\ Cardinality(temps) < MaxTemps
  /\ TempChainFits(size, alignment)
  /\ CanAllocateTemp(arena, size, alignment)
  /\ arena' = AllocateTemp(arena, size, alignment)
  /\ temps' = temps \cup {Block(TempResult(arena, alignment), size)}
  /\ UNCHANGED <<persistent, reserved>>

DeallocateTempBuffer(t) ==
  /\ arena' = DeallocateTemp(arena, t.at)
  /\ temps' = temps \ {t}
  /\ UNCHANGED <<persistent, reserved>>

ResetTemp ==
  /\ CanResetTempAllocations(arena)
  /\ arena' = ResetTempAllocations(arena)
  /\ UNCHANGED <<persistent, reserved, temps>>

Next ==
  \/ \E size \in Sizes, alignment \in Alignments :
        \/ AllocatePersistent(size, alignment)
        \/ AllocateResizable(size, alignment)
        \/ Resize(size, alignment)
        \/ ReserveOverlay(size, alignment)
        \/ AllocateTempBuffer(size, alignment)
  \/ DeallocateResizable
  \/ \E t \in temps : DeallocateTempBuffer(t)
  \/ ResetTemp

Spec == Init /\ [][Next]_vars

-----------------------------------------------------------------------------
Apart(b, c) == b.at + b.size <= c.at \/ c.at + c.size <= b.at

AllApart(blocks) == \A b, c \in blocks : b # c => Apart(b, c)

Blocks == [at: Addresses, size: Nat]

TypeOK ==
  /\ arena \in ArenaRecords
  /\ persistent \in SUBSET Blocks
  /\ reserved \in Blocks
  /\ temps \in SUBSET Blocks

PersistentApart ==
  /\ AllApart(persistent)
  /\ \A b \in persistent : arena.tail <= b.at /\ b.at + b.size <= BufferTail
  /\ reserved.at + reserved.size = arena.head
  /\ arena.head <= arena.tail /\ arena.tail <= BufferTail

\* Persistent buffers keep clear of one another and of the head section,
\* whatever is allocated, resized or reset after them, and the head section
\* ends where head_ says.  From temp buffers in use they keep clear only as long
\* as the temp chain ends below tail_: nothing in AllocatePersistentBuffer sees
\* to that (TempsGuaranteed).
PersistentIntact ==
  /\ PersistentApart
  /\ arena.temp <= arena.tail => \A t \in temps, b \in persistent : Apart(t, b)

\* single_arena_buffer_allocator.h:79-80: "The returned buffer is guaranteed until
\* either ResetTempAllocations() is called or another call to AllocateFromHead()."
\* But a persistent buffer may be placed over a temp buffer in use, and the other
\* way round the next temp buffer may then lie over persistent ones.
TempsGuaranteed == \A t \in temps, b \in persistent : Apart(t, b)

\* Temp buffers in use keep clear of one another and of the head section:
\* ResetTempAllocations never rewinds over a buffer that is still held.
TempsIntact ==
  /\ AllApart(temps)
  /\ \A t \in temps : Apart(t, reserved) /\ t.at + t.size <= arena.temp

\* The count and the XOR check sum agree with the buffers really held: the
\* reset is refused exactly while a buffer is outstanding.
TempAuditExact == IsAllTempDeallocated(arena) <=> temps = {}

\* What the invariants rest on: the temp chain starts at head_, and the count
\* is the number of temp buffers held.
TempChain ==
  /\ BufferHead <= arena.head /\ arena.head <= arena.temp
  /\ reserved.at = BufferHead
  /\ \A t \in temps : arena.head <= t.at /\ t.size > 0
  /\ IsFiniteSet(temps) /\ arena.count = Cardinality(temps)

\* The check sum is the XOR of the pointers held: a bit is set when it is set
\* in an odd number of them.
HeldWithBit(i) == {t \in temps : i \in PointerBits(t.at)}

CheckSumIsXor ==
  \A i \in BitPositions : i \in arena.checkSum <=> Cardinality(HeldWithBit(i)) % 2 = 1

IInv == TypeOK /\ PersistentApart /\ TempsIntact /\ TempChain

\* The head section does not move under a temp buffer in use: a resize or a
\* reservation in the middle of a temp chain is refused.
HeadFixedUnderTemps == [][arena'.head # arena.head => temps = {}]_vars

-----------------------------------------------------------------------------
Contract == INSTANCE BufferAllocator

\* Every step of the allocator is a step of the interface's contract.
KeepsContract == Contract!Spec
=============================================================================
