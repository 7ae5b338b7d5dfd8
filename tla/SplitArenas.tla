---------------------------- MODULE SplitArenas ----------------------------
(***************************************************************************)
(* The pair of allocators behind MicroAllocator::Create with two arenas:   *)
(* PersistentArenaBufferAllocator hands out one arena from its end, and    *)
(* NonPersistentArenaBufferAllocator keeps a head section and a chain of   *)
(* temp buffers in the other.  The client keeps the interface's rules, as  *)
(* in SingleArena; a call that fails changes nothing and is a stuttering   *)
(* step.  BufferHead and BufferTail of Arena bound the second arena.       *)
(***************************************************************************)
EXTENDS Arena, FiniteSets

CONSTANTS
  ArenaAlignment,       \* MicroArenaBufferAlignment()
  PersistentHead,       \* the persistent arena: its first byte
  PersistentEnd,        \* and one past its last byte
  PersistentObject,     \* sizeof(PersistentArenaBufferAllocator)
  NonPersistentObject,  \* sizeof(NonPersistentArenaBufferAllocator)
  Sizes, Alignments,    \* what clients ask for
  MaxPersistent, MaxTemps, MaxResizable \* bounds on the blocks a client holds

VARIABLES
  tailTemp,                   \* tail_temp_, where persistent buffers start
  headTemp,                   \* head_temp_, one past the head section
  nextTemp,                   \* next_temp_, one past the chain of temp buffers
  tempCount, tempCheckSum,    \* the audit of temp buffers
  resizableBufferAllocated,
  persistent,                 \* the persistent buffers handed out
  reserved,                   \* the head section the client holds
  temps,                      \* the temp buffers the client holds
  holders                     \* resizable buffers handed out and not given back

persistentArena == <<tailTemp, persistent>>
chain == <<nextTemp, tempCount, tempCheckSum, temps>>
head == <<headTemp, reserved, holders, resizableBufferAllocated>>
vars == <<persistentArena, chain, head>>

Block(at, size) == [at |-> at, size |-> size]

-----------------------------------------------------------------------------
\* The allocator objects are aligned to ArenaAlignment at most.
PersistentTail == AlignPointerDown(PersistentEnd, ArenaAlignment)
PersistentSelf == AlignPointerDown(PersistentTail - PersistentObject, ArenaAlignment)
NonPersistentSelf == AlignPointerDown(PersistentSelf - NonPersistentObject, ArenaAlignment)

NonPersistentHead == AlignPointerUp(BufferHead, ArenaAlignment)

\* Create: both allocators live in the persistent arena.
Init ==
  /\ tailTemp = NonPersistentSelf
  /\ persistent = {Block(PersistentSelf, PersistentObject),
                   Block(NonPersistentSelf, NonPersistentObject)}
  /\ headTemp = NonPersistentHead /\ nextTemp = NonPersistentHead
  /\ tempCount = 0 /\ tempCheckSum = {} /\ temps = {}
  /\ resizableBufferAllocated = FALSE
  /\ reserved = Block(NonPersistentHead, 0)
  /\ holders = 0

\* There is room above the first byte of the persistent arena.
Fits(at) == at >= PersistentHead

AllocatePersistent(size, alignment) ==
  LET alignedResult == AlignPointerDown(Wrapped(tailTemp - size), alignment)
  IN  /\ Cardinality(persistent) < MaxPersistent
      /\ Fits(alignedResult)
      /\ tailTemp' = alignedResult
      /\ persistent' = persistent \cup {Block(alignedResult, size)}
      /\ UNCHANGED <<chain, head>>

-----------------------------------------------------------------------------
(* The head section.                                                       *)

\* ResizeBuffer where it returns kTfLiteOk.
ResizesBuffer(buffer, size, alignment) ==
  /\ buffer = AlignPointerUp(NonPersistentHead, alignment)
  /\ headTemp = nextTemp
  /\ Wrapped(BufferTail - buffer) >= size
  /\ headTemp' = Wrapped(buffer + size)
  /\ nextTemp' = headTemp'
  /\ reserved' = Block(buffer, size)
  /\ UNCHANGED <<tempCount, tempCheckSum, temps>>

AllocateResizableBuffer(size, alignment) ==
  /\ holders < MaxResizable
  /\ ~resizableBufferAllocated
  /\ ResizesBuffer(AlignPointerUp(NonPersistentHead, alignment), size, alignment)
  /\ resizableBufferAllocated' = TRUE
  /\ holders' = holders + 1
  /\ UNCHANGED persistentArena

\* With size 0 and alignment 1 the client has no use for the buffer any more.
ResizeResizableBuffer(size, alignment) ==
  /\ holders > 0
  /\ ResizesBuffer(reserved.at, size, alignment)
  /\ UNCHANGED <<persistentArena, holders, resizableBufferAllocated>>

DeallocateResizable ==
  /\ holders > 0
  /\ ResizesBuffer(reserved.at, 0, 1)
  /\ resizableBufferAllocated' = FALSE
  /\ holders' = holders - 1
  /\ UNCHANGED persistentArena

ReserveNonPersistentOverlayMemory(size, alignment) ==
  /\ ResizesBuffer(AlignPointerUp(NonPersistentHead, alignment), size, alignment)
  /\ UNCHANGED <<persistentArena, holders, resizableBufferAllocated>>

-----------------------------------------------------------------------------
(* The chain of temp buffers.                                              *)

BugAuditsChainEnd(size, alignment) ==
  LET alignedResult == AlignPointerUp(nextTemp, alignment)
  IN  /\ Cardinality(temps) < MaxTemps
      /\ Wrapped(BufferTail - alignedResult) >= size
      /\ nextTemp' = Wrapped(alignedResult + size)
      /\ tempCheckSum' = Xor(tempCheckSum, PointerBits(nextTemp))
      /\ tempCount' = tempCount + 1
      /\ temps' = temps \cup {Block(alignedResult, size)}
      /\ UNCHANGED <<persistentArena, head>>

AllocateTempBuffer(size, alignment) ==
  LET alignedResult == AlignPointerUp(nextTemp, alignment)
  IN  /\ Cardinality(temps) < MaxTemps
      /\ Wrapped(BufferTail - alignedResult) >= size
      /\ nextTemp' = Wrapped(alignedResult + size)
      /\ tempCheckSum' = Xor(tempCheckSum, PointerBits(alignedResult))
      /\ tempCount' = tempCount + 1
      /\ temps' = temps \cup {Block(alignedResult, size)}
      /\ UNCHANGED <<persistentArena, head>>

DeallocateTempBuffer(t) ==
  /\ tempCheckSum' = Xor(tempCheckSum, PointerBits(t.at))
  /\ tempCount' = tempCount - 1
  /\ temps' = temps \ {t}
  /\ UNCHANGED <<persistentArena, head, nextTemp>>

AllTempDeallocated == tempCount = 0 /\ tempCheckSum = {}

ResetTemp ==
  /\ AllTempDeallocated
  /\ nextTemp' = headTemp
  /\ UNCHANGED <<persistentArena, head, tempCount, tempCheckSum, temps>>

Next ==
  \/ \E size \in Sizes, alignment \in Alignments :
        \/ AllocatePersistent(size, alignment)
        \/ AllocateResizableBuffer(size, alignment)
        \/ ResizeResizableBuffer(size, alignment)
        \/ ReserveNonPersistentOverlayMemory(size, alignment)
        \/ AllocateTempBuffer(size, alignment)
  \/ ResizeResizableBuffer(0, 1)
  \/ DeallocateResizable
  \/ \E t \in temps : DeallocateTempBuffer(t)
  \/ ResetTemp

Spec == Init /\ [][Next]_vars

-----------------------------------------------------------------------------
Apart(b, c) == b.at + b.size <= c.at \/ c.at + c.size <= b.at

AllApart(blocks) == \A b, c \in blocks : b # c => Apart(b, c)

Blocks == [at: Addresses, size: Nat]

TypeOK ==
  /\ {tailTemp, headTemp, nextTemp} \subseteq Addresses
  /\ tempCount \in Nat /\ tempCheckSum \in SUBSET BitPositions
  /\ resizableBufferAllocated \in BOOLEAN /\ holders \in Nat
  /\ persistent \in SUBSET Blocks /\ reserved \in Blocks /\ temps \in SUBSET Blocks

\* What is handed out for good is inside its arena and is never handed out again
\* (AllocatePersistentBuffer has no other bound than the arena's first byte).
PersistentIntact ==
  /\ AllApart(persistent)
  /\ \A b \in persistent : PersistentHead <= b.at /\ b.at + b.size <= PersistentTail

\* The temp buffers a client holds keep clear of one another and of the head
\* section, whatever is resized, reserved or reset between their allocations.
TempsIntact ==
  /\ AllApart(temps)
  /\ \A t \in temps : Apart(t, reserved)

\* non_persistent_arena_buffer_allocator.h:93 says that temp buffers end below
\* buffer_tail_.  The room left is a size_t: when aligning the end of the chain
\* passes the tail, it is huge.  Create aligns the start of the arena only, so
\* nothing keeps the tail aligned.
TempsInside == \A t \in temps : t.at >= headTemp /\ t.at + t.size <= BufferTail

\* The count and the XOR check sum agree with the temp buffers really held, in
\* whatever order they are given back.
TempAuditExact == AllTempDeallocated <=> temps = {}

\* There is one resizable buffer: nobody is given the one that another client
\* still holds, however it was resized since.
OneResizable == holders <= 1

-----------------------------------------------------------------------------
Contract == INSTANCE BufferAllocator

\* The pair of allocators keeps the contract of the interfaces over two arenas,
\* as SingleArenaBufferAllocator does over one: an action property.
KeepsContract == Contract!Next \/ UNCHANGED <<persistent, reserved, temps>>
=============================================================================
