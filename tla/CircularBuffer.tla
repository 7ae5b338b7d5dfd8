----------------------------- MODULE CircularBuffer -----------------------------
(***************************************************************************)
(* The circular buffer of the signal kernels, signal/src/circular_buffer.cc, *)
(* as operators on its structure:                                           *)
(*   capacity, read, write, empty   the fields                              *)
(*   buffer                         2 * capacity slots, the upper half of    *)
(*                                  which repeats the lower one              *)
(* An operator X that the code guards with ASSERT comes with XAllowed, the    *)
(* condition asserted; without it X says what the code does next.            *)
(***************************************************************************)
EXTENDS Integers, Sequences

\* CircularBufferReset.
Reset(cb) ==
  [cb EXCEPT !.read = 0, !.write = 0, !.empty = TRUE,
             !.buffer = [i \in 0..(2 * cb.capacity - 1) |-> 0]]

\* CircularBufferInit, but for the assertion about the size of the state.
New(capacity) ==
  [capacity |-> capacity, read |-> 0, write |-> 0, empty |-> TRUE,
   buffer |-> [i \in 0..(2 * capacity - 1) |-> 0]]

\* CircularBufferAvailable: values that can be read.
Available(cb) ==
  CASE cb.write > cb.read -> cb.write - cb.read
    [] cb.write < cb.read -> cb.capacity + cb.write - cb.read
    [] OTHER -> IF cb.empty THEN 0 ELSE cb.capacity

CanWrite(cb) == cb.capacity - Available(cb)
Full(cb) == cb.read = cb.write /\ ~cb.empty

\* memcpy of n of the values vs, after the first `from`, to the slots at `at`.
CopyIn(buffer, at, vs, from, n) ==
  [i \in DOMAIN buffer |->
     IF i \in at..(at + n - 1) THEN vs[from + i - at + 1] ELSE buffer[i]]

\* The n values in the slots from `at` on.
Slice(cb, at, n) == [i \in 1..n |-> cb.buffer[at + i - 1]]

\* A position moved over the end of the buffer.
Wrap(cb, position) ==
  IF position >= cb.capacity THEN position - cb.capacity ELSE position

\* CircularBufferAdd.
AddAllowed(cb) == ~Full(cb)
Add(cb, v) ==
  [cb EXCEPT !.buffer[cb.write] = v, !.buffer[cb.write + cb.capacity] = v,
             !.write = IF cb.write + 1 = cb.capacity THEN 0 ELSE cb.write + 1,
             !.empty = FALSE]

\* A buffer after values have been stored in its slots.
Stored(cb, buffer, write) ==
  [cb EXCEPT !.buffer = buffer, !.write = write, !.empty = FALSE]

\* CircularBufferWrite: the values go to the slots from `write` on, which may
\* reach into the upper half, and once more half a buffer further round.
WriteAllowed(cb, n) == n > 0 => CanWrite(cb) >= n
Write(cb, vs) ==
  LET n == Len(vs)
      low == CopyIn(cb.buffer, cb.write, vs, 0, n)
      n1 == cb.capacity - cb.write
      n2 == cb.write + n - cb.capacity
  IN IF n = 0 THEN cb
     ELSE IF cb.write + n < cb.capacity
     THEN Stored(cb, CopyIn(low, cb.capacity + cb.write, vs, 0, n), cb.write + n)
     ELSE Stored(cb, CopyIn(CopyIn(low, cb.capacity + cb.write, vs, 0, n1), 0, vs, n1, n2),
                 n2)

\* CircularBufferWriteZeros, the same with zeros.
WriteZeros(cb, n) == Write(cb, [i \in 1..n |-> 0])

\* CircularBufferReserveForWrite, and the caller's use of the n slots it gets.
ReserveAllowed(cb, n) == cb.write + n <= cb.capacity
ReserveForWrite(cb, vs) ==
  [cb EXCEPT !.buffer = CopyIn(cb.buffer, cb.write, vs, 0, Len(vs)),
             !.write = IF cb.write + Len(vs) = cb.capacity THEN 0
                       ELSE cb.write + Len(vs),
             !.empty = cb.empty /\ vs = << >>]

\* CircularBufferExtend: where its source starts, and one turn of its loop.
ExtendAllowed(cb, count, n) ==
  n > 0 /\ count > 0 => CanWrite(cb) >= count * n /\ Available(cb) >= count
ExtendStart(cb, count) ==
  IF count > cb.write THEN cb.write + cb.capacity - count ELSE cb.write - count
ExtendOnce(cb, start, count) ==
  IF start + count <= cb.capacity
  THEN Write(cb, Slice(cb, start, count))
  ELSE LET n1 == cb.capacity - start
           half == Write(cb, Slice(cb, start, n1))
       IN Write(half, Slice(half, 0, count - n1))
Extend(cb, count, n) ==
  LET start == ExtendStart(cb, count)
      after[i \in 0..n] == IF i = 0 THEN cb ELSE ExtendOnce(after[i - 1], start, count)
  IN IF n > 0 /\ count > 0 THEN after[n] ELSE cb

\* CircularBufferRemove: the value it returns, and the buffer it leaves.
RemoveAllowed(cb) == ~cb.empty
Removed(cb) == cb.buffer[cb.read]
Remove(cb) ==
  LET read == IF cb.read + 1 = cb.capacity THEN 0 ELSE cb.read + 1
  IN [cb EXCEPT !.read = read, !.empty = IF read = cb.write THEN TRUE ELSE cb.empty]

\* CircularBufferPeek and CircularBufferPeekDirect: the slot at an index.
PeekAllowed(cb, index) == Available(cb) > index
Target(cb, index) == Wrap(cb, cb.read + index)

\* CircularBufferPeekMax: how many values it says can be read at `read`.
PeekMax(cb) ==
  IF Available(cb) = 0 THEN 0
  ELSE IF cb.write <= cb.read THEN cb.capacity - cb.read ELSE cb.write - cb.read

\* CircularBufferGet.
GetAllowed(cb, n) == Available(cb) >= n
Get(cb, n) ==
  IF cb.read + n <= cb.capacity THEN Slice(cb, cb.read, n)
  ELSE Slice(cb, cb.read, cb.capacity - cb.read)
         \o Slice(cb, 0, cb.read + n - cb.capacity)

\* A bug: reading everything does not set the flag.
BugDiscard(cb, n) == [cb EXCEPT !.read = Wrap(cb, cb.read + n)]

\* CircularBufferDiscard.
DiscardAllowed(cb, n) == n > 0 /\ Available(cb) >= n
Discard(cb, n) ==
  LET read == Wrap(cb, cb.read + n)
  IN [cb EXCEPT !.read = read, !.empty = IF read = cb.write THEN TRUE ELSE cb.empty]

\* CircularBufferRewind.
RewindAllowed(cb, n) == n <= CanWrite(cb)
Rewind(cb, n) ==
  [cb EXCEPT !.read = IF n > cb.read THEN cb.read + cb.capacity - n ELSE cb.read - n,
             !.empty = IF n > 0 THEN FALSE ELSE cb.empty]

\* CircularBufferShift, by n >= 0 or n < 0.
ShiftAllowed(cb, n) == n \in -cb.capacity..cb.capacity
Shift(cb, n) ==
  [cb EXCEPT !.read = IF n < 0 THEN (IF cb.read < -n THEN cb.read + cb.capacity
                                     ELSE cb.read) + n
                      ELSE Wrap(cb, cb.read + n)]
=============================================================================
