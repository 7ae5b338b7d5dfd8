--------------------------- MODULE CircularBufferCalls ---------------------------
(***************************************************************************)
(* Users of a circular buffer: any sequence of the calls that its assertions  *)
(* allow, one action per function.  CircularBufferExtend is its loop, one      *)
(* turn at a time.                                                          *)
(*                                                                         *)
(* Misuses are calls that the assertions let through although the header      *)
(* says they fail, or says nothing: they are made only when a configuration   *)
(* names them.                                                              *)
(***************************************************************************)
EXTENDS CircularBuffer

CONSTANTS
  Capacity,          \* of the buffer
  Samples,           \* values written, with 0
  Reserving,         \* whether the user writes through reserved pointers
  Misuses            \* a subset of {"reserve_unread", "shift_empty", "small_state"}

ASSUME CapacityAssumption == Capacity \in Nat \ {0}
ASSUME SamplesAssumption == 0 \in Samples
ASSUME UseAssumption ==
  /\ Reserving \in BOOLEAN
  /\ Misuses \subseteq {"reserve_unread", "shift_empty", "small_state"}

VARIABLES
  cb,                \* the buffer
  slots,             \* slots of the buffer that lie in the state given to Init
  call,              \* the last call, its argument and what it returned
  extending          \* what CircularBufferExtend still has to do

vars == <<cb, slots, call, extending>>

Values(n) == [1..n -> Samples]
Called(op, n, out) == call' = [op |-> op, n |-> n, out |-> out]
Idle == extending.left = 0
NotExtending == [left |-> 0, start |-> 0, count |-> 0]

TypeOK ==
  /\ cb \in [capacity : {Capacity}, read : 0..(Capacity - 1), write : 0..(Capacity - 1),
             empty : BOOLEAN, buffer : [0..(2 * Capacity - 1) -> Samples]]
  /\ slots \in Nat
  /\ call.n \in -Capacity..Capacity
  /\ extending \in [left : 0..Capacity, start : 0..Capacity, count : 0..Capacity]

\* CircularBufferGetNeededMemory, less the structure, in slots.
NeededSlots(capacity) == 2 * capacity

\* CircularBufferInit, with a state of the size that the kernels compute, or a
\* smaller one.
Init ==
  /\ cb = New(Capacity)
  /\ \E size \in 0..NeededSlots(Capacity) :
       /\ NeededSlots(Capacity) >= size
       /\ "small_state" \notin Misuses => size = NeededSlots(Capacity)
       /\ slots = size
  /\ call = [op |-> "reset", n |-> 0, out |-> << >>]
  /\ extending = NotExtending

CallReset ==
  /\ Idle
  /\ cb' = Reset(cb)
  /\ Called("reset", 0, << >>)
  /\ UNCHANGED <<slots, extending>>

CallAdd(v) ==
  /\ Idle /\ AddAllowed(cb)
  /\ cb' = Add(cb, v)
  /\ Called("write", 1, << >>)
  /\ UNCHANGED <<slots, extending>>

CallWrite(vs) ==
  /\ Idle /\ WriteAllowed(cb, Len(vs))
  /\ cb' = Write(cb, vs)
  /\ Called("write", Len(vs), << >>)
  /\ UNCHANGED <<slots, extending>>

CallWriteZeros(n) ==
  /\ Idle /\ WriteAllowed(cb, n)
  /\ cb' = WriteZeros(cb, n)
  /\ Called("write", n, << >>)
  /\ UNCHANGED <<slots, extending>>

CallReserve(vs) ==
  /\ Idle /\ Reserving /\ ReserveAllowed(cb, Len(vs))
  /\ "reserve_unread" \notin Misuses => Len(vs) <= CanWrite(cb)
  /\ cb' = ReserveForWrite(cb, vs)
  /\ Called("write", Len(vs), << >>)
  /\ UNCHANGED <<slots, extending>>

\* CircularBufferExtend up to its loop, and a turn of it.
CallExtend(count, n) ==
  /\ Idle /\ ExtendAllowed(cb, count, n)
  /\ n > 0 /\ count > 0
  /\ extending' = [left |-> n, start |-> ExtendStart(cb, count), count |-> count]
  /\ UNCHANGED <<cb, slots, call>>

ExtendTurn ==
  /\ ~Idle
  /\ cb' = ExtendOnce(cb, extending.start, extending.count)
  /\ extending' = [extending EXCEPT !.left = @ - 1]
  /\ Called("extend", extending.count, << >>)
  /\ UNCHANGED slots

CallRemove ==
  /\ Idle /\ RemoveAllowed(cb)
  /\ cb' = Remove(cb)
  /\ Called("remove", 1, [i \in 1..1 |-> Removed(cb)])
  /\ UNCHANGED <<slots, extending>>

CallPeek(index) ==
  /\ Idle /\ PeekAllowed(cb, index)
  /\ Called("look", index, [i \in 1..1 |-> cb.buffer[Target(cb, index)]])
  /\ UNCHANGED <<cb, slots, extending>>

\* CircularBufferPeekDirect, and a caller that reads n values through the
\* pointer: "Caller is responsible for not reading past the end", of what can
\* be read, and of the lower half if that is all it writes.
CallPeekDirect(index, n) ==
  /\ Idle /\ PeekAllowed(cb, index)
  /\ index + n <= Available(cb)
  /\ Reserving => Target(cb, index) + n <= Capacity
  /\ Called("look", index, Slice(cb, Target(cb, index), n))
  /\ UNCHANGED <<cb, slots, extending>>

\* CircularBufferPeekMax, and a caller that reads all it is offered.
CallPeekMax ==
  /\ Idle
  /\ Called("look", 0, Slice(cb, cb.read, PeekMax(cb)))
  /\ UNCHANGED <<cb, slots, extending>>

CallGet(n) ==
  /\ Idle /\ GetAllowed(cb, n)
  /\ Called("look", 0, Get(cb, n))
  /\ UNCHANGED <<cb, slots, extending>>

CallDiscard(n) ==
  /\ Idle /\ DiscardAllowed(cb, n)
  /\ cb' = Discard(cb, n)
  /\ Called("discard", n, << >>)
  /\ UNCHANGED <<slots, extending>>

CallRewind(n) ==
  /\ Idle /\ RewindAllowed(cb, n)
  /\ cb' = Rewind(cb, n)
  /\ Called("rewind", n, << >>)
  /\ UNCHANGED <<slots, extending>>

CallShift(n) ==
  /\ Idle /\ ShiftAllowed(cb, n)
  /\ "shift_empty" \notin Misuses => Available(cb) > 0
  /\ cb' = Shift(cb, n)
  /\ Called("shift", n, << >>)
  /\ UNCHANGED <<slots, extending>>

Next ==
  \/ CallReset \/ CallRemove \/ CallPeekMax \/ ExtendTurn
  \/ \E v \in Samples : CallAdd(v)
  \/ \E n \in 0..Capacity : \E vs \in Values(n) : CallWrite(vs) \/ CallReserve(vs)
  \/ \E n \in 0..Capacity :
       CallWriteZeros(n) \/ CallGet(n) \/ CallDiscard(n) \/ CallRewind(n)
  \/ \E count, n \in 1..Capacity : CallExtend(count, n)
  \/ \E index, n \in 0..Capacity : CallPeek(index) \/ CallPeekDirect(index, n)
  \/ \E n \in -Capacity..Capacity : CallShift(n)

Spec == Init /\ [][Next]_vars

(***************************************************************************)
(* Properties.                                                              *)
(***************************************************************************)

\* The values of the last Capacity writes, in order: the slot before `write` is
\* the youngest.
Newest == [k \in 1..Capacity |-> cb.buffer[Wrap(cb, cb.write + k - 1)]]

Window == INSTANCE SlidingWindow WITH window <- Newest, avail <- Available(cb)

\* The buffer implements a sliding window: every call does to the last values
\* written, and returns of them, what circular_buffer.h says, wherever the
\* positions are, whichever of the calls wrap over the end, and in any order.
ImplementsWindow == Window!Spec

\* The flag tells an empty buffer from a full one: it is set exactly when there
\* is nothing to read (circular_buffer.h, "Flag to indicate emptiness").
FlagRight == cb.empty <=> Available(cb) = 0

\* Reading through a pointer may run into the upper half because that repeats
\* the lower one, unless somebody writes through reserved pointers.
HalvesAgree ==
  ~Reserving => \A i \in 0..(Capacity - 1) : cb.buffer[i] = cb.buffer[i + Capacity]

\* CircularBufferExtend repeats the last values as they were when it was called:
\* before each turn its source still is what was last written.
ExtendSource ==
  ~Idle => \A i \in 1..extending.count :
             Newest[Capacity - extending.count + i]
               = cb.buffer[Wrap(cb, extending.start + i - 1)]
=============================================================================
