------------------------------ MODULE SlidingWindow ------------------------------
(***************************************************************************)
(* What a circular buffer of `Capacity` values promises its users, in the     *)
(* terms of circular_buffer.h: it holds the last Capacity values written,     *)
(* the last `avail` of which are still to be read.  `call` is the interface:  *)
(* the last call, its argument and what it returned.                         *)
(***************************************************************************)
EXTENDS Integers

CONSTANTS Capacity, Samples

VARIABLES window, avail, call

Values(n) == [1..n -> Samples]
Called(op, n, out) == call' = [op |-> op, n |-> n, out |-> out]

\* The value at an index of those to be read, from 0.
Unread(index) == window[Capacity - avail + index + 1]

\* "initial empty state"
Clear == /\ window' = [k \in 1..Capacity |-> 0]
         /\ avail' = 0
         /\ Called("reset", 0, << >>)

\* "Writes `n` `values` into the buffer": nothing still to be read is lost.
Push(vs, n) ==
  /\ avail + n <= Capacity
  /\ window' = [k \in 1..Capacity |->
                  IF k + n <= Capacity THEN window[k + n] ELSE vs[k + n - Capacity]]
  /\ avail' = avail + n

Put(vs, n) == Push(vs, n) /\ Called("write", n, << >>)

\* "Copies the final region (`count` elements) of the buffer", once.
Repeat(count) ==
  /\ count <= avail
  /\ Push([i \in 1..count |-> window[Capacity - count + i]], count)
  /\ Called("extend", count, << >>)

\* "Reads ... does not modify the read pointer."
Look(index, n) == /\ index + n <= avail
                  /\ UNCHANGED <<window, avail>>
                  /\ Called("look", index, [i \in 1..n |-> Unread(index + i - 1)])

\* "Reads a single value from the buffer and advances the read pointer"
Take == /\ avail > 0
        /\ avail' = avail - 1
        /\ UNCHANGED window
        /\ Called("remove", 1, [i \in 1..1 |-> Unread(0)])

\* "Discards the next `n` values"
Drop(n) == /\ n \in 1..avail
           /\ avail' = avail - n
           /\ UNCHANGED window
           /\ Called("discard", n, << >>)

\* "Rewinds to restore the previous `n` values read"
Restore(n) == /\ n \in 0..(Capacity - avail)
              /\ avail' = avail + n
              /\ UNCHANGED window
              /\ Called("rewind", n, << >>)

\* "Shifts the buffer with `n` values (`n` can be negative)", round and round.
ShiftBy(n) == /\ \E turn \in {-Capacity, 0, Capacity} : avail' = avail - n + turn
              /\ avail' \in 1..Capacity
              /\ UNCHANGED window
              /\ Called("shift", n, << >>)

Init == /\ window = [k \in 1..Capacity |-> 0]
        /\ avail = 0
        /\ call = [op |-> "reset", n |-> 0, out |-> << >>]

Next == \/ Clear
        \/ \E n \in 0..Capacity : \E vs \in Values(n) : Put(vs, n)
        \/ \E n \in 0..Capacity : Repeat(n) \/ Drop(n) \/ Restore(n)
        \/ \E index, n \in 0..Capacity : Look(index, n)
        \/ Take
        \/ \E n \in -Capacity..Capacity : ShiftBy(n)

Spec == Init /\ [][Next]_<<window, avail, call>>
=============================================================================
