------------------------------- MODULE Arena -------------------------------
(***************************************************************************)
(* The pointer arithmetic of SingleArenaBufferAllocator as operators on a  *)
(* record of its fields.  Every call has two operators: a predicate, true  *)
(* when the call returns kTfLiteOk (or a non-null pointer), and a function *)
(* that gives the allocator after such a call.  A call whose predicate is  *)
(* false leaves every field alone and reports the failure to its caller.   *)
(*                                                                         *)
(* Addresses are naturals below AddressSpace, 2^32 on the target, and      *)
(* size_t arithmetic is arithmetic modulo AddressSpace.                    *)
(***************************************************************************)
EXTENDS Integers

CONSTANTS
  AddressBits,    \* width of uintptr_t and size_t
  AddressSpace,   \* number of addresses, where their arithmetic wraps
  BufferHead,     \* buffer_head_, the first byte of the arena
  BufferTail      \* buffer_tail_, one past its last byte

ASSUME ArenaAssumption ==
  /\ AddressBits \in Nat /\ AddressSpace = 2^AddressBits
  /\ AddressSpace \in Nat /\ BufferHead \in Nat /\ BufferTail \in Nat
  /\ 0 < BufferHead /\ BufferHead <= BufferTail /\ BufferTail < AddressSpace

nullptr == 0
Addresses == 0 .. AddressSpace - 1

\* A result of size_t or pointer arithmetic.
Wrapped(n) == n % AddressSpace

AlignPointerUp(data, alignment) ==
  IF data = nullptr \/ alignment = 0 THEN nullptr
  ELSE ((data + alignment - 1) \div alignment) * alignment

AlignPointerDown(data, alignment) ==
  IF data = nullptr \/ alignment = 0 THEN nullptr
  ELSE (data \div alignment) * alignment

-----------------------------------------------------------------------------
(* The fields.  temp_buffer_ptr_check_sum_ is the XOR of the pointers to   *)
(* the outstanding temp buffers: as a set of bit positions, XOR is the     *)
(* symmetric difference and a zero check sum is the empty set.             *)

BitPositions == 0 .. AddressBits - 1
PointerBits(p) == {i \in BitPositions : (p \div 2^i) % 2 = 1}
Xor(s, t) == (s \ t) \cup (t \ s)

ArenaRecords ==
  [head: Addresses, tail: Addresses, temp: Addresses,
   count: Nat, checkSum: SUBSET BitPositions]

Fields(head, tail, temp, count, checkSum) ==
  [head |-> head, tail |-> tail, temp |-> temp, count |-> count, checkSum |-> checkSum]

\* The constructor: the whole arena is free.
NewArena == Fields(BufferHead, BufferTail, BufferHead, 0, {})

-----------------------------------------------------------------------------
(* Persistent buffers grow down from the tail.  Only head_ bounds them: a  *)
(* live temp buffer above head_ does not.                                  *)

PersistentResult(a, size, alignment) ==
  AlignPointerDown(Wrapped(a.tail - size), alignment)

BugPersistentBoundIsArenaStart(a, size, alignment) ==
  PersistentResult(a, size, alignment) >= BufferHead

CanAllocatePersistentBuffer(a, size, alignment) ==
  PersistentResult(a, size, alignment) >= a.head

AllocatePersistentBuffer(a, size, alignment) ==
  Fields(a.head, PersistentResult(a, size, alignment), a.temp, a.count, a.checkSum)

-----------------------------------------------------------------------------
(* The head section, from the aligned start of the arena up to head_: one  *)
(* resizable buffer while a model is prepared, the overlay afterwards.     *)

BugResizeUnderTemps(a, resizableBuf, size, alignment) ==
  LET alignedResult == AlignPointerUp(BufferHead, alignment)
  IN  /\ resizableBuf = alignedResult
      /\ Wrapped(a.tail - alignedResult) >= size

CanResizeBuffer(a, resizableBuf, size, alignment) ==
  LET alignedResult == AlignPointerUp(BufferHead, alignment)
  IN  /\ a.head = a.temp
      /\ resizableBuf = alignedResult
      /\ Wrapped(a.tail - alignedResult) >= size

ResizeBuffer(a, size, alignment) ==
  LET newHead == Wrapped(AlignPointerUp(BufferHead, alignment) + size)
  IN  Fields(newHead, a.tail, newHead, a.count, a.checkSum)

\* AllocateResizableBuffer and ReserveNonPersistentOverlayMemory: a resize
\* of the buffer at the place where the resizable buffer is expected.
CanSetHeadSection(a, size, alignment) ==
  CanResizeBuffer(a, AlignPointerUp(BufferHead, alignment), size, alignment)

CanDeallocateResizableBuffer(a, resizableBuf) ==
  CanResizeBuffer(a, resizableBuf, 0, 1)

DeallocateResizableBuffer(a) == ResizeBuffer(a, 0, 1)

-----------------------------------------------------------------------------
(* Temp buffers: a chain that grows up from head_ towards the tail.        *)

TempResult(a, alignment) == AlignPointerUp(a.temp, alignment)

CanAllocateTemp(a, size, alignment) ==
  Wrapped(a.tail - TempResult(a, alignment)) >= size

BugTempFromHead(a, size, alignment) ==
  [a EXCEPT !.temp = Wrapped(AlignPointerUp(a.head, alignment) + size),
            !.checkSum = Xor(@, PointerBits(TempResult(a, alignment))),
            !.count = @ + 1]

AllocateTemp(a, size, alignment) ==
  Fields(a.head, a.tail, Wrapped(TempResult(a, alignment) + size), a.count + 1,
         Xor(a.checkSum, PointerBits(TempResult(a, alignment))))

BugDeallocateKeepsCount(a, tempBuf) ==
  Fields(a.head, a.tail, a.temp, a.count, Xor(a.checkSum, PointerBits(tempBuf)))

DeallocateTemp(a, tempBuf) ==
  Fields(a.head, a.tail, a.temp, a.count - 1, Xor(a.checkSum, PointerBits(tempBuf)))

IsAllTempDeallocated(a) == a.count = 0 /\ a.checkSum = {}

BugResetUnaudited(a) == TRUE

CanResetTempAllocations(a) == IsAllTempDeallocated(a)

BugChainNotRewound(a) == a

ResetTempAllocations(a) ==
  Fields(a.head, a.tail, a.head, a.count, a.checkSum)

-----------------------------------------------------------------------------
\* The bytes left between the temp chain and the tail, a size_t.
GetAvailableMemory(a, alignment) ==
  Wrapped(AlignPointerDown(a.tail, alignment) - AlignPointerUp(a.temp, alignment))
=============================================================================
