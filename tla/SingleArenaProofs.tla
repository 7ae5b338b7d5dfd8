------------------------- MODULE SingleArenaProofs -------------------------
(***************************************************************************)
(* Proofs about SingleArena for every arena, request and alignment.  The    *)
(* inductive invariant adds to the checked invariants where the temp chain  *)
(* lies and that the outstanding count is the number of temp buffers held.  *)
(***************************************************************************)
EXTENDS SingleArena, FiniteSetTheorems, TLAPS

USE DEF nullptr

-----------------------------------------------------------------------------
(* The operators of Arena, for a request that does not wrap around *)

LEMMA ArenaFacts ==
  /\ AddressSpace \in Nat /\ BufferHead \in Nat /\ BufferTail \in Nat
  /\ 0 < BufferHead /\ BufferHead <= BufferTail /\ BufferTail < AddressSpace
BY ArenaAssumption

\* Rounding down never moves up, rounding up never moves down.
LEMMA AlignDownBound ==
  ASSUME NEW p \in Nat, NEW alignment \in Nat \ {0}
  PROVE  /\ AlignPointerDown(p, alignment) \in Nat
         /\ AlignPointerDown(p, alignment) <= p
BY DEF AlignPointerDown

LEMMA AlignUpBound ==
  ASSUME NEW p \in Nat \ {0}, NEW alignment \in Nat \ {0}
  PROVE  /\ AlignPointerUp(p, alignment) \in Nat
         /\ p <= AlignPointerUp(p, alignment)
         /\ AlignPointerUp(p, alignment) < p + alignment
BY DEF AlignPointerUp

\* Where a persistent buffer goes: below the old tail, by its size at least.
LEMMA PersistentResultBound ==
  ASSUME NEW a, a.tail \in Addresses, NEW size \in Nat, NEW alignment \in Nat \ {0},
         BufferHead <= a.tail, size <= BufferHead
  PROVE  /\ PersistentResult(a, size, alignment) \in Nat
         /\ PersistentResult(a, size, alignment) + size <= a.tail
<1> a.tail \in 0 .. AddressSpace - 1
  BY DEF Addresses
<1> Wrapped(a.tail - size) = a.tail - size /\ a.tail - size \in Nat
  BY ArenaFacts DEF Wrapped
<1> QED
  BY AlignDownBound DEF PersistentResult

\* The head section after a resize the allocator accepts.
LEMMA ResizeBound ==
  ASSUME NEW a, a.tail \in Addresses, NEW size \in Nat, NEW alignment \in Nat \ {0},
         NEW buf, CanResizeBuffer(a, buf, size, alignment),
         AlignPointerUp(BufferHead, alignment) = BufferHead,
         BufferHead <= a.tail
  PROVE  /\ buf = BufferHead /\ a.head = a.temp
         /\ BufferHead + size <= a.tail
         /\ ResizeBuffer(a, size, alignment)
              = Fields(BufferHead + size, a.tail, BufferHead + size, a.count, a.checkSum)
<1> a.tail \in 0 .. AddressSpace - 1
  BY DEF Addresses
<1>1. buf = BufferHead /\ a.head = a.temp /\ Wrapped(a.tail - BufferHead) >= size
  BY DEF CanResizeBuffer
<1>2. Wrapped(a.tail - BufferHead) = a.tail - BufferHead
  BY ArenaFacts DEF Wrapped
<1>3. Wrapped(BufferHead + size) = BufferHead + size
  BY <1>1, <1>2, ArenaFacts DEF Wrapped
<1> QED
  BY <1>1, <1>2, <1>3, ArenaFacts DEF ResizeBuffer

-----------------------------------------------------------------------------

\* What the assumptions say of one request.
LEMMA RequestFacts ==
  ASSUME NEW size \in Sizes, NEW alignment \in Alignments
  PROVE  /\ size \in Nat /\ size > 0 /\ size <= BufferHead
         /\ alignment \in Nat \ {0}
         /\ AlignPointerUp(BufferHead, alignment) = BufferHead
BY ClientAssumption, AlignedArenaAssumption, RequestAssumption

LEMMA ConstantFacts ==
  /\ AddressSpace \in Nat /\ BufferHead \in Nat /\ BufferTail \in Nat
  /\ 0 < BufferHead /\ BufferHead <= BufferTail /\ BufferTail < AddressSpace
  /\ AllocatorSize \in Nat /\ AllocatorAlignment \in Nat \ {0}
  /\ AllocatorSize <= BufferHead
BY ArenaAssumption, ClientAssumption, RequestAssumption

-----------------------------------------------------------------------------
LEMMA InitIInv == Init => IInv
<1> SUFFICES ASSUME Init PROVE IInv
  OBVIOUS
<1> DEFINE at == PersistentResult(NewArena, AllocatorSize, AllocatorAlignment)
<1>1. NewArena \in ArenaRecords /\ NewArena.tail \in Addresses
  BY ConstantFacts DEF NewArena, Fields, ArenaRecords, Addresses
<1>2. at \in Nat /\ at + AllocatorSize <= BufferTail
  BY <1>1, ConstantFacts, PersistentResultBound DEF NewArena, Fields
<1>3. BufferHead <= at
  BY CreateAssumption, <1>2, ConstantFacts DEF CanAllocatePersistentBuffer, NewArena, Fields
<1>4. arena = Fields(BufferHead, at, BufferHead, 0, {})
  BY DEF Init, AllocatePersistentBuffer, NewArena, Fields
<1>5. /\ arena.tail = at /\ arena.head = BufferHead /\ arena.temp = BufferHead
      /\ arena.count = 0 /\ arena.checkSum = {}
  BY <1>4 DEF Fields
<1>6. TypeOK
  <2>1. at \in Addresses
    BY <1>2, ConstantFacts DEF Addresses
  <2>2. arena \in ArenaRecords
    BY <1>4, <2>1, ConstantFacts DEF ArenaRecords, Fields, Addresses
  <2>3. persistent \in SUBSET Blocks
    BY <1>5, <2>1, ConstantFacts DEF Init, Blocks, Block
  <2>4. reserved \in Blocks
    BY ConstantFacts DEF Init, Blocks, Block, Addresses
  <2> QED
    BY <2>2, <2>3, <2>4 DEF Init, TypeOK
<1>7. PersistentApart
  BY <1>2, <1>3, <1>5, ConstantFacts DEF Init, PersistentApart, AllApart, Apart, Block
<1>8. TempsIntact
  BY DEF Init, TempsIntact, AllApart
<1>9. TempChain
  BY <1>5, ConstantFacts, FS_EmptySet DEF Init, TempChain, Block
<1> QED
  BY <1>6, <1>7, <1>8, <1>9 DEF IInv

-----------------------------------------------------------------------------
\* A step that sets the head section, by whichever call.
LEMMA SetHeadStep ==
  ASSUME IInv, NEW size \in Nat, NEW alignment \in Nat \ {0}, NEW buf,
         AlignPointerUp(BufferHead, alignment) = BufferHead,
         CanResizeBuffer(arena, buf, size, alignment),
         arena' = ResizeBuffer(arena, size, alignment),
         reserved' = Block(BufferHead, size),
         UNCHANGED <<persistent, temps>>
  PROVE  IInv' /\ temps = {}
<1> USE DEF IInv
<1>1. arena \in ArenaRecords /\ arena.tail \in Addresses /\ BufferHead <= arena.tail
  BY ConstantFacts DEF TypeOK, PersistentApart, TempChain, ArenaRecords, Addresses
<1>2. /\ arena.head = arena.temp /\ BufferHead + size <= arena.tail
      /\ arena' = Fields(BufferHead + size, arena.tail, BufferHead + size,
                         arena.count, arena.checkSum)
  BY <1>1, ResizeBound
<1>3. temps = {}
  BY <1>1, <1>2 DEF TempsIntact, TempChain, TypeOK, Blocks, Addresses, ArenaRecords
<1>4. /\ arena'.head = BufferHead + size /\ arena'.temp = BufferHead + size
      /\ arena'.tail = arena.tail /\ arena'.count = arena.count
      /\ arena' \in ArenaRecords
  BY <1>1, <1>2, ConstantFacts DEF ArenaRecords, Addresses, Fields
<1>5. reserved'.at = BufferHead /\ reserved'.size = size /\ reserved' \in Blocks
  BY ConstantFacts DEF Block, Blocks, Addresses
<1>6. TypeOK'
  BY <1>4, <1>5 DEF TypeOK
<1>7. PersistentApart'
  BY <1>2, <1>4, <1>5 DEF PersistentApart
<1>8. TempsIntact'
  BY <1>3 DEF TempsIntact, AllApart
<1>9. TempChain'
  BY <1>3, <1>4, <1>5, ConstantFacts DEF TempChain
<1> QED
  BY <1>3, <1>6, <1>7, <1>8, <1>9

LEMMA PersistentStep ==
  ASSUME IInv, NEW size \in Sizes, NEW alignment \in Alignments,
         AllocatePersistent(size, alignment)
  PROVE  IInv'
<1> USE DEF IInv
<1> DEFINE at == PersistentResult(arena, size, alignment)
           b == Block(at, size)
<1>1. /\ arena \in ArenaRecords /\ arena.tail \in Addresses
      /\ BufferHead <= arena.tail /\ BufferHead <= arena.head
  BY ConstantFacts DEF TypeOK, PersistentApart, TempChain, ArenaRecords, Addresses
<1>2. at \in Nat /\ at + size <= arena.tail
  BY <1>1, RequestFacts, PersistentResultBound
<1>3. arena.head <= at
  BY DEF AllocatePersistent, CanAllocatePersistentBuffer
<1>4. arena' = Fields(arena.head, at, arena.temp, arena.count, arena.checkSum)
  BY DEF AllocatePersistent, AllocatePersistentBuffer
<1>5. /\ arena'.tail = at /\ arena'.head = arena.head /\ arena'.temp = arena.temp
      /\ arena'.count = arena.count
  BY <1>4 DEF Fields
<1>6. /\ persistent' = persistent \cup {b} /\ reserved' = reserved /\ temps' = temps
      /\ b.at = at /\ b.size = size
  BY <1>5 DEF AllocatePersistent, Block
<1>7. at \in Addresses /\ size \in Nat
  BY <1>1, <1>2, RequestFacts, ConstantFacts DEF Addresses, ArenaRecords
<1>8. TypeOK'
  <2>1. arena' \in ArenaRecords
    BY <1>1, <1>4, <1>7 DEF ArenaRecords, Fields
  <2>2. b \in Blocks
    BY <1>7 DEF Blocks, Block
  <2> QED
    BY <1>6, <2>1, <2>2 DEF TypeOK
<1>9. PersistentApart'
  <2>1. \A c \in persistent : c.at \in Nat /\ c.size \in Nat
    BY ConstantFacts DEF TypeOK, Blocks, Addresses
  <2>2. \A c \in persistent : Apart(b, c) /\ Apart(c, b)
    BY <1>1, <1>2, <1>6, <1>7, <2>1 DEF PersistentApart, Apart, ArenaRecords, Addresses
  <2>3. AllApart(persistent')
    BY <1>6, <2>2 DEF PersistentApart, AllApart
  <2>4. arena.tail \in Nat /\ arena.tail <= BufferTail
    BY <1>1, ConstantFacts DEF PersistentApart, ArenaRecords, Addresses
  <2>5. \A c \in persistent' : arena'.tail <= c.at /\ c.at + c.size <= BufferTail
    BY <1>2, <1>5, <1>6, <1>7, <2>1, <2>4, ConstantFacts DEF PersistentApart
  <2>6. arena'.head <= arena'.tail /\ arena'.tail <= BufferTail
    <3> HIDE DEF at
    <3> QED
      BY <1>2, <1>3, <1>5, <1>7, <2>4, ConstantFacts
  <2>7. reserved'.at + reserved'.size = arena'.head
    BY <1>5, <1>6 DEF PersistentApart
  <2> QED
    BY <2>3, <2>5, <2>6, <2>7 DEF PersistentApart
<1>10. TempsIntact' /\ TempChain'
  BY <1>5, <1>6 DEF TempsIntact, TempChain
<1> QED
  BY <1>8, <1>9, <1>10

LEMMA AllocateTempStep ==
  ASSUME IInv, NEW size \in Sizes, NEW alignment \in Alignments,
         AllocateTempBuffer(size, alignment)
  PROVE  IInv'
<1> USE DEF IInv
<1> DEFINE at == TempResult(arena, alignment)
           b == Block(at, size)
           sum == Xor(arena.checkSum, PointerBits(at))
<1>1. /\ arena \in ArenaRecords /\ BufferHead <= arena.head /\ arena.head <= arena.temp
      /\ arena.head \in Nat /\ arena.tail \in Nat /\ arena.temp \in Nat \ {0}
      /\ arena.count \in Nat /\ arena.checkSum \in SUBSET BitPositions
  BY ConstantFacts DEF TypeOK, TempChain, ArenaRecords, Addresses
<1>2. at \in Nat /\ arena.temp <= at /\ at < arena.temp + alignment
  BY <1>1, RequestFacts, AlignUpBound DEF TempResult
<1>3. arena.temp + alignment + size <= AddressSpace
  BY DEF AllocateTempBuffer, TempChainFits
<1>4. at + size < AddressSpace /\ Wrapped(at + size) = at + size
  <2> HIDE DEF at
  <2> QED
    BY <1>1, <1>2, <1>3, RequestFacts, ConstantFacts DEF Wrapped
<1>5. arena' = Fields(arena.head, arena.tail, at + size, arena.count + 1, sum)
  BY <1>4 DEF AllocateTempBuffer, AllocateTemp
<1>6. /\ arena'.head = arena.head /\ arena'.tail = arena.tail
      /\ arena'.temp = at + size /\ arena'.count = arena.count + 1
  BY <1>5 DEF Fields
<1>7. /\ persistent' = persistent /\ reserved' = reserved
      /\ temps' = temps \cup {b} /\ b.at = at /\ b.size = size
  BY DEF AllocateTempBuffer, Block
<1>8. \A t \in temps : t.at \in Nat /\ t.size \in Nat /\ t.size > 0
  BY ConstantFacts DEF TypeOK, TempChain, Blocks, Addresses
<1>9. TypeOK'
  <2>1. sum \in SUBSET BitPositions
    BY <1>1 DEF Xor, PointerBits
  <2>2. arena' \in ArenaRecords
    <3> HIDE DEF at, sum
    <3> QED
      <4>1. at + size \in Addresses
        BY <1>2, <1>4, RequestFacts, ConstantFacts DEF Addresses
      <4> QED
        BY <1>1, <1>5, <2>1, <4>1 DEF ArenaRecords, Fields
  <2>3. b \in Blocks
    <3> HIDE DEF at
    <3> QED
      BY <1>2, <1>4, RequestFacts, ConstantFacts DEF Blocks, Block, Addresses
  <2> QED
    BY <1>7, <2>2, <2>3 DEF TypeOK
<1>10. PersistentApart'
  BY <1>6, <1>7 DEF PersistentApart
<1>11. TempsIntact'
  <2> HIDE DEF at
  <2>1. \A t \in temps : t.at + t.size <= at
    BY <1>1, <1>2, <1>8 DEF TempsIntact
  <2>2. \A t \in temps : Apart(b, t) /\ Apart(t, b)
    BY <1>2, <1>7, <1>8, <2>1, RequestFacts DEF Apart
  <2>3. AllApart(temps')
    BY <1>7, <2>2 DEF TempsIntact, AllApart
  <2>4. Apart(b, reserved)
    BY <1>1, <1>2, <1>7 DEF Apart, PersistentApart
  <2>5. \A t \in temps' : Apart(t, reserved) /\ t.at + t.size <= at + size
    BY <1>2, <1>7, <1>8, <2>1, <2>4, RequestFacts DEF TempsIntact
  <2> QED
    BY <1>6, <1>7, <2>3, <2>5 DEF TempsIntact
<1>12. TempChain'
  <2> HIDE DEF at
  <2>1. b \notin temps
    BY <1>1, <1>2, <1>7, <1>8 DEF TempsIntact
  <2>2. IsFiniteSet(temps') /\ Cardinality(temps') = Cardinality(temps) + 1
    BY <1>7, <2>1, FS_AddElement DEF TempChain
  <2>3. \A t \in temps' : arena.head <= t.at /\ t.size > 0
    BY <1>1, <1>2, <1>7, RequestFacts DEF TempChain
  <2> QED
    BY <1>1, <1>2, <1>6, <1>7, <2>2, <2>3, RequestFacts DEF TempChain
<1> QED
  BY <1>9, <1>10, <1>11, <1>12

LEMMA DeallocateTempStep ==
  ASSUME IInv, NEW t \in temps, DeallocateTempBuffer(t)
  PROVE  IInv'
<1> USE DEF IInv
<1> DEFINE sum == Xor(arena.checkSum, PointerBits(t.at))
<1>1. /\ arena' = Fields(arena.head, arena.tail, arena.temp, arena.count - 1, sum)
      /\ temps' = temps \ {t} /\ persistent' = persistent /\ reserved' = reserved
  BY DEF DeallocateTempBuffer, DeallocateTemp
<1>2. /\ arena'.head = arena.head /\ arena'.tail = arena.tail
      /\ arena'.temp = arena.temp /\ arena'.count = arena.count - 1
  BY <1>1 DEF Fields
<1>3. TypeOK'
  <2>1. sum \in SUBSET BitPositions
    BY DEF TypeOK, ArenaRecords, Xor, PointerBits
  <2>2. arena.count - 1 \in Nat
    <3>1. Cardinality(temps) # 0
      BY FS_EmptySet DEF TempChain
    <3> QED
      BY <3>1 DEF TypeOK, TempChain, ArenaRecords
  <2>3. arena' \in ArenaRecords
    BY <1>1, <2>1, <2>2 DEF TypeOK, ArenaRecords, Fields
  <2> QED
    BY <1>1, <2>3 DEF TypeOK
<1>4. PersistentApart' /\ TempsIntact'
  BY <1>1, <1>2 DEF PersistentApart, TempsIntact, AllApart
<1>5. TempChain'
  <2>1. IsFiniteSet(temps') /\ Cardinality(temps') = Cardinality(temps) - 1
    BY <1>1, FS_RemoveElement DEF TempChain
  <2> QED
    BY <1>1, <1>2, <2>1 DEF TempChain
<1> QED
  BY <1>3, <1>4, <1>5

\* A reset the allocator accepts finds no temp buffer held.
LEMMA ResetTempStep ==
  ASSUME IInv, ResetTemp
  PROVE  IInv' /\ temps = {}
<1> USE DEF IInv
<1>1. arena.count = 0
  BY DEF ResetTemp, CanResetTempAllocations, IsAllTempDeallocated
<1>2. temps = {}
  BY <1>1, FS_EmptySet DEF TempChain
<1>3. /\ arena' = Fields(arena.head, arena.tail, arena.head, arena.count, arena.checkSum)
      /\ UNCHANGED <<persistent, reserved, temps>>
  BY DEF ResetTemp, ResetTempAllocations
<1>4. /\ arena'.head = arena.head /\ arena'.tail = arena.tail
      /\ arena'.temp = arena.head /\ arena'.count = arena.count
  BY <1>3 DEF Fields
<1>5. TypeOK'
  BY <1>3 DEF TypeOK, ArenaRecords, Fields
<1>6. PersistentApart' /\ TempsIntact'
  BY <1>2, <1>3, <1>4 DEF PersistentApart, TempsIntact, AllApart
<1>7. TempChain'
  BY <1>2, <1>3, <1>4 DEF TempChain, TypeOK, ArenaRecords, Addresses
<1> QED
  BY <1>2, <1>5, <1>6, <1>7

-----------------------------------------------------------------------------
\* With an aligned arena every call that sets the head section is a resize of
\* the buffer at its start.
LEMMA HeadStep ==
  ASSUME IInv,
         \/ DeallocateResizable
         \/ \E size \in Sizes, alignment \in Alignments :
              \/ AllocateResizable(size, alignment)
              \/ Resize(size, alignment)
              \/ ReserveOverlay(size, alignment)
  PROVE  IInv' /\ temps = {}
<1>1. reserved.at = BufferHead /\ reserved \in Blocks
  BY DEF IInv, TypeOK, TempChain
<1>2. CASE DeallocateResizable
  <2>1. AlignPointerUp(BufferHead, 1) = BufferHead
    BY ConstantFacts DEF AlignPointerUp
  <2> QED
    BY <1>1, <1>2, <2>1, SetHeadStep
       DEF DeallocateResizable, CanDeallocateResizableBuffer, DeallocateResizableBuffer
<1>3. ASSUME NEW size \in Sizes, NEW alignment \in Alignments,
             AllocateResizable(size, alignment) \/ ReserveOverlay(size, alignment)
      PROVE  IInv' /\ temps = {}
  BY <1>3, RequestFacts, SetHeadStep DEF AllocateResizable, ReserveOverlay, CanSetHeadSection
<1>4. ASSUME NEW size \in Sizes, NEW alignment \in Alignments, Resize(size, alignment)
      PROVE  IInv' /\ temps = {}
  <2>1. reserved' = Block(BufferHead, size)
    BY <1>1, <1>4 DEF Resize, Blocks, Block
  <2> QED
    BY <1>4, <2>1, RequestFacts, SetHeadStep DEF Resize
<1> QED
  BY <1>2, <1>3, <1>4

LEMMA StepIInv == IInv /\ [Next]_vars => IInv'
<1> SUFFICES ASSUME IInv, [Next]_vars PROVE IInv'
  OBVIOUS
<1>1. ASSUME NEW size \in Sizes, NEW alignment \in Alignments,
             AllocatePersistent(size, alignment)
      PROVE  IInv'
  BY <1>1, PersistentStep
<1>2. ASSUME \E size \in Sizes, alignment \in Alignments :
               \/ AllocateResizable(size, alignment)
               \/ Resize(size, alignment)
               \/ ReserveOverlay(size, alignment)
      PROVE  IInv'
  BY <1>2, HeadStep
<1>3. CASE DeallocateResizable
  BY <1>3, HeadStep
<1>4. ASSUME NEW size \in Sizes, NEW alignment \in Alignments,
             AllocateTempBuffer(size, alignment)
      PROVE  IInv'
  BY <1>4, AllocateTempStep
<1>5. ASSUME NEW t \in temps, DeallocateTempBuffer(t)
      PROVE  IInv'
  BY <1>5, DeallocateTempStep
<1>6. CASE ResetTemp
  BY <1>6, ResetTempStep
<1>7. CASE UNCHANGED vars
  BY <1>7 DEF vars, IInv, TypeOK, PersistentApart, TempsIntact, TempChain
<1> QED
  BY <1>1, <1>2, <1>3, <1>4, <1>5, <1>6, <1>7 DEF Next

LEMMA Invariance == Spec => []IInv
<1> QED
  BY InitIInv, StepIInv, PTL DEF Spec

\* The allocator's fields and the blocks held keep their types.
THEOREM TypeCorrect == Spec => []TypeOK
<1>1. IInv => TypeOK
  BY DEF IInv
<1> QED
  BY <1>1, Invariance, PTL

\* In any arena and for any sequence of requests persistent buffers keep apart from
\* one another and from the head section, and from temp buffers as long as the
\* temp chain ends below the tail.
THEOREM PersistentBuffersKept == Spec => []PersistentIntact
<1>1. IInv => PersistentIntact
  <2> SUFFICES ASSUME IInv, arena.temp <= arena.tail, NEW t \in temps, NEW b \in persistent
               PROVE  Apart(t, b)
    BY DEF IInv, PersistentIntact
  <2>1. /\ t.at \in Int /\ t.size \in Int /\ b.at \in Int
        /\ arena.temp \in Int /\ arena.tail \in Int
    BY ConstantFacts DEF IInv, TypeOK, Blocks, ArenaRecords, Addresses
  <2>2. t.at + t.size <= arena.temp /\ arena.tail <= b.at
    BY DEF IInv, TempsIntact, PersistentApart
  <2> QED
    BY <2>1, <2>2 DEF Apart
<1> QED
  BY <1>1, Invariance, PTL

\* Temp buffers in use are apart from one another and from the head section,
\* whatever the sequence of allocations, returns and resets.
THEOREM TempBuffersKept == Spec => []TempsIntact
<1>1. IInv => TempsIntact
  BY DEF IInv
<1> QED
  BY <1>1, Invariance, PTL

-----------------------------------------------------------------------------
\* The head section never moves under a temp buffer in use.
THEOREM HeadStaysUnderTemps == Spec => HeadFixedUnderTemps
<1>1. IInv /\ [Next]_vars => [arena'.head # arena.head => temps = {}]_vars
  <2> SUFFICES ASSUME IInv, Next, arena'.head # arena.head
               PROVE  temps = {}
    OBVIOUS
  <2>1. ASSUME NEW size \in Sizes, NEW alignment \in Alignments,
               \/ AllocatePersistent(size, alignment)
               \/ AllocateTempBuffer(size, alignment)
        PROVE  FALSE
    BY <2>1 DEF AllocatePersistent, AllocatePersistentBuffer, AllocateTempBuffer,
                AllocateTemp, Fields
  <2>2. ASSUME NEW t \in temps, DeallocateTempBuffer(t)
        PROVE  FALSE
    BY <2>2 DEF DeallocateTempBuffer, DeallocateTemp, Fields
  <2>3. CASE ResetTemp
    BY <2>3, ResetTempStep
  <2> QED
    BY <2>1, <2>2, <2>3, HeadStep DEF Next
<1> QED
  BY <1>1, Invariance, PTL DEF Spec, HeadFixedUnderTemps

-----------------------------------------------------------------------------
(* The audit of temp buffers: XOR counts each bit of the pointers modulo 2. *)

LEMMA AuditInit == Init => CheckSumIsXor
<1> SUFFICES ASSUME Init, NEW i \in BitPositions
             PROVE  i \notin arena.checkSum /\ ~(Cardinality(HeldWithBit(i)) % 2 = 1)
  BY DEF CheckSumIsXor
<1>1. HeldWithBit(i) = {}
  BY DEF Init, HeldWithBit
<1>2. Cardinality(HeldWithBit(i)) = 0
  BY <1>1, FS_EmptySet
<1>3. i \notin arena.checkSum
  BY DEF Init, AllocatePersistentBuffer, NewArena, Fields
<1> QED
  BY <1>2, <1>3

LEMMA AuditAllocate ==
  ASSUME IInv, CheckSumIsXor, NEW size \in Sizes, NEW alignment \in Alignments,
         AllocateTempBuffer(size, alignment)
  PROVE  CheckSumIsXor'
<1> SUFFICES ASSUME NEW i \in BitPositions
             PROVE  i \in arena'.checkSum <=> Cardinality(HeldWithBit(i)') % 2 = 1
  BY DEF CheckSumIsXor
<1> DEFINE at == TempResult(arena, alignment)
           b == Block(at, size)
<1>1. temps' = temps \cup {b} /\ b.at = at /\ b.size = size
  BY DEF AllocateTempBuffer, Block
<1>2. arena'.checkSum = Xor(arena.checkSum, PointerBits(at))
  BY DEF AllocateTempBuffer, AllocateTemp, Fields
<1>3. b \notin temps
  <2> SUFFICES ASSUME b \in temps PROVE FALSE
    OBVIOUS
  <2>1. arena.temp \in Nat \ {0} /\ alignment \in Nat \ {0}
    BY RequestFacts, ConstantFacts DEF IInv, TypeOK, TempChain, ArenaRecords, Addresses
  <2>2. at \in Nat /\ arena.temp <= at
    BY <2>1, AlignUpBound DEF TempResult
  <2>3. at + size <= arena.temp /\ size \in Nat /\ size > 0
    BY <1>1, RequestFacts DEF IInv, TempsIntact
  <2> HIDE DEF at
  <2> QED
    BY <2>1, <2>2, <2>3
<1>4. IsFiniteSet(HeldWithBit(i))
  BY FS_Subset DEF IInv, TempChain, HeldWithBit
<1>5. Cardinality(HeldWithBit(i)) \in Nat
  BY <1>4, FS_CardinalityType
<1>6. i \in arena.checkSum <=> Cardinality(HeldWithBit(i)) % 2 = 1
  BY DEF CheckSumIsXor
<1>7. CASE i \in PointerBits(at)
  <2>1. HeldWithBit(i)' = HeldWithBit(i) \cup {b} /\ b \notin HeldWithBit(i)
    BY <1>1, <1>3, <1>7 DEF HeldWithBit
  <2>2. Cardinality(HeldWithBit(i)') = Cardinality(HeldWithBit(i)) + 1
    BY <1>4, <2>1, FS_AddElement
  <2>3. i \in arena'.checkSum <=> i \notin arena.checkSum
    BY <1>2, <1>7 DEF Xor
  <2> QED
    BY <1>5, <1>6, <2>2, <2>3
<1>8. CASE i \notin PointerBits(at)
  <2>1. HeldWithBit(i)' = HeldWithBit(i)
    BY <1>1, <1>8 DEF HeldWithBit
  <2>2. i \in arena'.checkSum <=> i \in arena.checkSum
    BY <1>2, <1>8 DEF Xor
  <2> QED
    BY <1>6, <2>1, <2>2
<1> QED
  BY <1>7, <1>8

LEMMA AuditDeallocate ==
  ASSUME IInv, CheckSumIsXor, NEW t \in temps, DeallocateTempBuffer(t)
  PROVE  CheckSumIsXor'
<1> SUFFICES ASSUME NEW i \in BitPositions
             PROVE  i \in arena'.checkSum <=> Cardinality(HeldWithBit(i)') % 2 = 1
  BY DEF CheckSumIsXor
<1>1. temps' = temps \ {t}
  BY DEF DeallocateTempBuffer
<1>2. arena'.checkSum = Xor(arena.checkSum, PointerBits(t.at))
  BY DEF DeallocateTempBuffer, DeallocateTemp, Fields
<1>3. IsFiniteSet(HeldWithBit(i))
  BY FS_Subset DEF IInv, TempChain, HeldWithBit
<1>4. Cardinality(HeldWithBit(i)) \in Nat
  BY <1>3, FS_CardinalityType
<1>5. i \in arena.checkSum <=> Cardinality(HeldWithBit(i)) % 2 = 1
  BY DEF CheckSumIsXor
<1>6. CASE i \in PointerBits(t.at)
  <2>1. HeldWithBit(i)' = HeldWithBit(i) \ {t} /\ t \in HeldWithBit(i)
    BY <1>1, <1>6 DEF HeldWithBit
  <2>2. Cardinality(HeldWithBit(i)') = Cardinality(HeldWithBit(i)) - 1
    BY <1>3, <2>1, FS_RemoveElement
  <2>3. i \in arena'.checkSum <=> i \notin arena.checkSum
    BY <1>2, <1>6 DEF Xor
  <2> QED
    BY <1>4, <1>5, <2>2, <2>3
<1>7. CASE i \notin PointerBits(t.at)
  <2>1. HeldWithBit(i)' = HeldWithBit(i)
    BY <1>1, <1>7 DEF HeldWithBit
  <2>2. i \in arena'.checkSum <=> i \in arena.checkSum
    BY <1>2, <1>7 DEF Xor
  <2> QED
    BY <1>5, <2>1, <2>2
<1> QED
  BY <1>6, <1>7

LEMMA AuditStep == IInv /\ CheckSumIsXor /\ [Next]_vars => CheckSumIsXor'
<1> SUFFICES ASSUME IInv, CheckSumIsXor, [Next]_vars PROVE CheckSumIsXor'
  OBVIOUS
<1>1. ASSUME arena'.checkSum = arena.checkSum, temps' = temps
      PROVE  CheckSumIsXor'
  BY <1>1 DEF CheckSumIsXor, HeldWithBit
<1>2. ASSUME NEW size \in Sizes, NEW alignment \in Alignments,
             \/ AllocatePersistent(size, alignment)
             \/ AllocateResizable(size, alignment)
             \/ Resize(size, alignment)
             \/ ReserveOverlay(size, alignment)
      PROVE  arena'.checkSum = arena.checkSum /\ temps' = temps
  BY <1>2 DEF AllocatePersistent, AllocatePersistentBuffer, AllocateResizable, Resize,
              ReserveOverlay, ResizeBuffer, Fields
<1>3. CASE DeallocateResizable \/ ResetTemp \/ UNCHANGED vars
  BY <1>1, <1>3 DEF DeallocateResizable, DeallocateResizableBuffer, ResizeBuffer,
                    ResetTemp, ResetTempAllocations, Fields, vars
<1> QED
  BY <1>1, <1>2, <1>3, AuditAllocate, AuditDeallocate DEF Next

\* The reset is refused exactly while a temp buffer is outstanding: the count
\* and the check sum never disagree with the buffers held.
THEOREM AuditIsExact == Spec => []TempAuditExact
<1>1. IInv /\ CheckSumIsXor => TempAuditExact
  <2> SUFFICES ASSUME IInv, CheckSumIsXor
               PROVE  arena.count = 0 /\ arena.checkSum = {} <=> temps = {}
    BY DEF TempAuditExact, IsAllTempDeallocated
  <2>1. arena.count = 0 <=> temps = {}
    BY FS_EmptySet DEF IInv, TempChain
  <2>2. ASSUME temps = {} PROVE arena.checkSum = {}
    <3>1. \A i \in BitPositions : HeldWithBit(i) = {}
      BY <2>2 DEF HeldWithBit
    <3>2. \A i \in BitPositions : i \notin arena.checkSum
      BY <3>1, FS_EmptySet DEF CheckSumIsXor
    <3> QED
      BY <3>2 DEF IInv, TypeOK, ArenaRecords
  <2> QED
    BY <2>1, <2>2
<1> QED
  BY <1>1, AuditInit, AuditStep, Invariance, PTL DEF Spec

-----------------------------------------------------------------------------
(* The refinement: every step is a step of the contract, or changes nothing *)
(* the contract mentions.                                                   *)

LEMMA InitContract == Init => Contract!Init
<1> SUFFICES ASSUME Init PROVE Contract!Init
  OBVIOUS
<1>1. IInv
  BY InitIInv
<1>2. \A b \in persistent : Apart(reserved, b)
  BY <1>1, ConstantFacts DEF Init, Block, IInv, PersistentApart, Apart, TypeOK, Blocks,
     ArenaRecords, Addresses
<1> QED
  BY <1>2 DEF Init, Block, Contract!Init, Contract!ClearOf, Contract!Apart, Apart

LEMMA GrantPersistentRefines ==
  ASSUME IInv, NEW size \in Sizes, NEW alignment \in Alignments,
         AllocatePersistent(size, alignment)
  PROVE  Contract!GrantPersistent
<1> DEFINE b == Block(arena'.tail, size)
<1>1. IInv'
  BY PersistentStep
<1>2. /\ persistent' = persistent \cup {b} /\ b \in persistent'
      /\ UNCHANGED <<reserved, temps>>
  BY DEF AllocatePersistent
<1>3. /\ BufferHead <= arena.tail /\ arena.tail \in Addresses
      /\ size \in Nat /\ size > 0 /\ size <= BufferHead /\ alignment \in Nat \ {0}
  BY RequestFacts, ConstantFacts
     DEF IInv, TypeOK, PersistentApart, TempChain, ArenaRecords, Addresses
<1>4. b.at \in Nat /\ b.at + size <= arena.tail /\ b.size = size
  <2>1. arena'.tail = PersistentResult(arena, size, alignment)
    BY DEF AllocatePersistent, AllocatePersistentBuffer, Fields
  <2> QED
    BY <1>3, <2>1, PersistentResultBound DEF Block
<1>5. b \notin persistent
  BY <1>3, <1>4 DEF IInv, PersistentApart, ArenaRecords, Addresses
<1>6. \A c \in persistent : Apart(b, c)
  BY <1>1, <1>2, <1>5 DEF IInv, PersistentApart, AllApart
<1>7. Apart(b, reserved)
  BY <1>1, <1>2 DEF IInv, PersistentApart, Apart, Block
<1> QED
  BY <1>2, <1>6, <1>7 DEF Contract!GrantPersistent, Contract!ClearOf, Contract!Apart, Apart

LEMMA GrantTempRefines ==
  ASSUME IInv, NEW size \in Sizes, NEW alignment \in Alignments,
         AllocateTempBuffer(size, alignment)
  PROVE  Contract!GrantTemp
<1> DEFINE b == Block(TempResult(arena, alignment), size)
<1>1. IInv'
  BY AllocateTempStep
<1>2. /\ temps' = temps \cup {b} /\ b \in temps'
      /\ UNCHANGED <<persistent, reserved>>
  BY DEF AllocateTempBuffer
<1>3. /\ arena.temp \in Nat \ {0} /\ size > 0 /\ alignment \in Nat \ {0}
      /\ \A t \in temps : t.at \in Nat /\ t.size \in Nat
  BY RequestFacts, ConstantFacts
     DEF IInv, TypeOK, TempChain, ArenaRecords, Addresses, Blocks
<1>4. b.at \in Nat /\ arena.temp <= b.at
  BY <1>3, AlignUpBound DEF Block, TempResult
<1>5. b \notin temps
  <2> SUFFICES ASSUME b \in temps PROVE FALSE
    OBVIOUS
  <2>1. b.at + b.size <= arena.temp /\ b.size > 0
    BY DEF IInv, TempsIntact, TempChain
  <2> QED
    BY <1>3, <1>4, <2>1
<1>6. \A c \in temps : Apart(b, c)
  BY <1>1, <1>2, <1>5 DEF IInv, TempsIntact, AllApart
<1>7. Apart(b, reserved)
  BY <1>1, <1>2 DEF IInv, TempsIntact
<1> QED
  BY <1>2, <1>6, <1>7 DEF Contract!GrantTemp, Contract!ClearOf, Contract!Apart, Apart

LEMMA SetReservedRefines ==
  ASSUME IInv,
         \/ DeallocateResizable
         \/ \E size \in Sizes, alignment \in Alignments :
              \/ AllocateResizable(size, alignment)
              \/ Resize(size, alignment)
              \/ ReserveOverlay(size, alignment)
  PROVE  Contract!SetReserved
<1>1. IInv' /\ temps = {}
  BY HeadStep
<1>2. UNCHANGED <<persistent, temps>>
  BY DEF DeallocateResizable, AllocateResizable, Resize, ReserveOverlay
<1>3. \A b \in persistent : Apart(reserved', b)
  BY <1>1, <1>2 DEF IInv, PersistentApart, Apart, TypeOK, Blocks, ArenaRecords, Addresses
<1> QED
  BY <1>1, <1>2, <1>3 DEF Contract!SetReserved, Contract!ClearOf, Contract!Apart, Apart

\* SingleArenaBufferAllocator implements the interface's contract.
THEOREM Implements == Spec => KeepsContract
<1>1. IInv /\ [Next]_vars => [Contract!Next]_(Contract!interface)
  <2> SUFFICES ASSUME IInv, [Next]_vars
               PROVE  Contract!Next \/ UNCHANGED Contract!interface
    OBVIOUS
  <2>1. ASSUME NEW size \in Sizes, NEW alignment \in Alignments,
               AllocatePersistent(size, alignment)
        PROVE  Contract!Next
    BY <2>1, GrantPersistentRefines DEF Contract!Next
  <2>2. ASSUME \/ DeallocateResizable
               \/ \E size \in Sizes, alignment \in Alignments :
                    \/ AllocateResizable(size, alignment)
                    \/ Resize(size, alignment)
                    \/ ReserveOverlay(size, alignment)
        PROVE  Contract!Next
    BY <2>2, SetReservedRefines DEF Contract!Next
  <2>3. ASSUME NEW size \in Sizes, NEW alignment \in Alignments,
               AllocateTempBuffer(size, alignment)
        PROVE  Contract!Next
    BY <2>3, GrantTempRefines DEF Contract!Next
  <2>4. ASSUME NEW t \in temps, DeallocateTempBuffer(t)
        PROVE  Contract!Next
    BY <2>4 DEF DeallocateTempBuffer, Contract!Next, Contract!ReturnTemp
  <2>5. CASE ResetTemp \/ UNCHANGED vars
    BY <2>5 DEF ResetTemp, vars, Contract!interface
  <2> QED
    BY <2>1, <2>2, <2>3, <2>4, <2>5 DEF Next
<1> QED
  BY <1>1, InitContract, Invariance, PTL DEF Spec, KeepsContract, Contract!Spec
=============================================================================
