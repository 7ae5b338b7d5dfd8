-------------------------- MODULE CircularBufferProofs --------------------------
(***************************************************************************)
(* Proofs about the circular buffer, for every capacity: used as the header    *)
(* says (Misuses is empty), it implements SlidingWindow; about chains of the   *)
(* CIRCULAR_BUFFER operator, for all models; and about the framer, the stacker  *)
(* and the overlap-add kernel, for all sizes.                                 *)
(*                                                                         *)
(* The first part is about single buffers: what a write and a move of the read *)
(* position do to the slots, and how the slots before and after a position      *)
(* correspond to the window.  The second part is the invariant of any sequence  *)
(* of calls, among them the turns of CircularBufferExtend, whose source must    *)
(* stay among the values to be read.  The third maps each call to the window.   *)
(* The fourth is about strides, as numbers, and the fifth about the chains.      *)
(*                                                                         *)
(* The rest is about the kernels.  They keep buffers of other capacities, and     *)
(* so there are lemmas about buffers again, which say what a call does to the    *)
(* sequence of values that can be read.  For the framer and the stacker that     *)
(* sequence is a piece of a signal, from what the next output needs first to     *)
(* what was given last; for the overlap-add kernel the state is, place by place, *)
(* the sum of what the next frame adds to.                                    *)
(***************************************************************************)
EXTENDS MCSignal, SequenceTheorems, FiniteSetTheorems, WellFoundedInduction, TLAPS

Buffers == [capacity : {Capacity}, read : 0..(Capacity - 1), write : 0..(Capacity - 1),
            empty : BOOLEAN, buffer : [0..(2 * Capacity - 1) -> Samples]]

\* The flag is set only when the positions are equal.
Good(b) == b \in Buffers /\ (b.empty => b.read = b.write)

\* The upper half repeats the lower one.
Repeats(b) == \A i \in 0..(Capacity - 1) : b.buffer[i] = b.buffer[i + Capacity]

NewestOf(b) == [k \in 1..Capacity |-> b.buffer[Wrap(b, b.write + k - 1)]]

LEMMA ConstantFacts == Capacity \in Nat /\ Capacity >= 1 /\ 0 \in Samples
  BY CapacityAssumption, SamplesAssumption

(* Single buffers. *)

LEMMA GoodFacts ==
  ASSUME NEW b, Good(b)
  PROVE  /\ b.capacity = Capacity
         /\ b.read \in 0..(Capacity - 1) /\ b.write \in 0..(Capacity - 1)
         /\ b.empty \in BOOLEAN
         /\ b.buffer \in [0..(2 * Capacity - 1) -> Samples]
         /\ DOMAIN b.buffer = 0..(2 * Capacity - 1)
         /\ b.empty => b.read = b.write
  BY DEF Good, Buffers

LEMMA AvailableFacts ==
  ASSUME NEW b, Good(b)
  PROVE  /\ Available(b) \in 0..Capacity
         /\ CanWrite(b) = Capacity - Available(b)
         /\ b.write > b.read => Available(b) = b.write - b.read
         /\ b.write < b.read => Available(b) = Capacity + b.write - b.read
         /\ b.write = b.read => Available(b) = IF b.empty THEN 0 ELSE Capacity
         /\ b.empty <=> Available(b) = 0
  BY ConstantFacts, GoodFacts DEF Available, CanWrite

\* What is written, counted from `write`, is where the window says.
LEMMA WrapFacts ==
  ASSUME NEW b, Good(b), NEW p \in 0..(2 * Capacity - 1)
  PROVE  /\ Wrap(b, p) = IF p >= Capacity THEN p - Capacity ELSE p
         /\ Wrap(b, p) \in 0..(Capacity - 1)
  BY ConstantFacts, GoodFacts DEF Wrap

LEMMA NewestFacts ==
  ASSUME NEW b, Good(b)
  PROVE  /\ NewestOf(b) \in [1..Capacity -> Samples]
         /\ \A k \in 1..Capacity :
              NewestOf(b)[k] = b.buffer[IF b.write + k - 1 >= Capacity
                                        THEN b.write + k - 1 - Capacity
                                        ELSE b.write + k - 1]
  <1>1. ASSUME NEW k \in 1..Capacity
        PROVE  /\ b.write + k - 1 \in 0..(2 * Capacity - 1)
               /\ Wrap(b, b.write + k - 1) = IF b.write + k - 1 >= Capacity
                                             THEN b.write + k - 1 - Capacity
                                             ELSE b.write + k - 1
               /\ Wrap(b, b.write + k - 1) \in 0..(2 * Capacity - 1)
    BY ConstantFacts, GoodFacts, WrapFacts, SMTT(60)
  <1> QED
    BY <1>1, ConstantFacts, GoodFacts DEF NewestOf

LEMMA UnreadArithmetic ==
  ASSUME NEW r \in 0..(Capacity - 1), NEW w \in 0..(Capacity - 1), NEW a \in Nat,
         NEW i \in 0..(a - 1), NEW k \in Int, k = Capacity - a + i + 1,
         w > r => a = w - r, w < r => a = Capacity + w - r,
         w = r => a = 0 \/ a = Capacity
  PROVE  (IF w + k - 1 >= Capacity THEN w + k - 1 - Capacity ELSE w + k - 1)
           = (IF r + i >= Capacity THEN r + i - Capacity ELSE r + i)
  BY ConstantFacts

\* A value to be read is as far from `read` as from the end of the window.
LEMMA UnreadSlot ==
  ASSUME NEW b, Good(b), NEW i \in 0..(Available(b) - 1)
  PROVE  /\ Capacity - Available(b) + i + 1 \in 1..Capacity
         /\ NewestOf(b)[Capacity - Available(b) + i + 1]
              = b.buffer[IF b.read + i >= Capacity THEN b.read + i - Capacity
                         ELSE b.read + i]
  <1> DEFINE k == Capacity - Available(b) + i + 1
  <1>1. k \in 1..Capacity
    BY ConstantFacts, AvailableFacts
  <1>2. (IF b.write + k - 1 >= Capacity THEN b.write + k - 1 - Capacity
         ELSE b.write + k - 1)
          = (IF b.read + i >= Capacity THEN b.read + i - Capacity ELSE b.read + i)
    <2>1. /\ b.read \in 0..(Capacity - 1) /\ b.write \in 0..(Capacity - 1)
          /\ Available(b) \in Nat /\ k \in Int
          /\ b.write > b.read => Available(b) = b.write - b.read
          /\ b.write < b.read => Available(b) = Capacity + b.write - b.read
          /\ b.write = b.read => Available(b) = 0 \/ Available(b) = Capacity
      BY ConstantFacts, AvailableFacts, GoodFacts
    <2> QED
      BY <2>1, UnreadArithmetic
  <1> HIDE DEF k
  <1>3. NewestOf(b)[k] = b.buffer[IF b.write + k - 1 >= Capacity
                                  THEN b.write + k - 1 - Capacity
                                  ELSE b.write + k - 1]
    BY <1>1, NewestFacts
  <1> QED
    BY <1>1, <1>2, <1>3 DEF k

LEMMA CopyInType ==
  ASSUME NEW buffer \in [0..(2 * Capacity - 1) -> Samples], NEW at \in Nat,
         NEW from \in Nat, NEW n \in Int, NEW vs \in Seq(Samples),
         from + n <= Len(vs)
  PROVE  CopyIn(buffer, at, vs, from, n) \in [0..(2 * Capacity - 1) -> Samples]
  <1>1. ASSUME NEW i \in 0..(2 * Capacity - 1), i \in at..(at + n - 1)
        PROVE  vs[from + i - at + 1] \in Samples
    <2>1. from + i - at + 1 \in 1..Len(vs) /\ Len(vs) \in Nat
      BY <1>1, ConstantFacts, LenProperties
    <2> QED
      BY <2>1, ElementOfSeq
  <1>2. DOMAIN buffer = 0..(2 * Capacity - 1)
    OBVIOUS
  <1> QED
    BY <1>1, <1>2 DEF CopyIn

LEMMA ValuesAreSequences ==
  ASSUME NEW n \in Nat, NEW vs \in [1..n -> Samples]
  PROVE  vs \in Seq(Samples) /\ Len(vs) = n
  <1>1. vs \in Seq(Samples)
    BY SeqDef
  <1>2. Len(vs) = n
    BY <1>1, LenProperties
  <1> QED
    BY <1>1, <1>2

\* The slots after the copies of a write at w.
Overwritten(buffer, w, vs, i) ==
  IF i \in w..(w + Len(vs) - 1) THEN vs[i - w + 1]
  ELSE IF i <= w + Len(vs) - Capacity - 1 THEN vs[i + Capacity - w + 1]
  ELSE buffer[i]

LEMMA CopyOnce ==
  ASSUME NEW buffer \in [0..(2 * Capacity - 1) -> Samples], NEW w \in 0..(Capacity - 1),
         NEW vs \in Seq(Samples), Len(vs) >= 1, w + Len(vs) < Capacity
  PROVE  LET low == CopyIn(buffer, w, vs, 0, Len(vs))
             once == CopyIn(low, Capacity + w, vs, 0, Len(vs))
         IN /\ once \in [0..(2 * Capacity - 1) -> Samples]
            /\ \A i \in 0..(Capacity - 1) :
                 /\ once[i] = Overwritten(buffer, w, vs, i)
                 /\ buffer[i] = buffer[i + Capacity] => once[i] = once[i + Capacity]
  <1> DEFINE n == Len(vs)
             zero == 0
             up == Capacity + w
             low == CopyIn(buffer, w, vs, zero, n)
             once == CopyIn(low, up, vs, zero, n)
  <1>0. /\ n \in Nat /\ n = Len(vs) /\ w \in Nat /\ up \in Nat /\ up = Capacity + w
        /\ zero \in Nat /\ zero = 0 /\ zero + n <= Len(vs)
    BY LenProperties, ConstantFacts
  <1> HIDE DEF n, zero, up
  <1>1. /\ low \in [0..(2 * Capacity - 1) -> Samples]
        /\ \A i \in 0..(2 * Capacity - 1) :
             low[i] = IF i \in w..(w + n - 1) THEN vs[zero + i - w + 1] ELSE buffer[i]
    <2>1. low \in [0..(2 * Capacity - 1) -> Samples]
      BY <1>0, CopyInType
    <2> QED
      BY <1>0, <2>1, ConstantFacts DEF CopyIn
  <1> HIDE DEF low
  <1>2. /\ once \in [0..(2 * Capacity - 1) -> Samples]
        /\ \A i \in 0..(2 * Capacity - 1) :
             once[i] = IF i \in up..(up + n - 1) THEN vs[zero + i - up + 1] ELSE low[i]
    <2>0. low \in [0..(2 * Capacity - 1) -> Samples]
      BY <1>1
    <2>1. once \in [0..(2 * Capacity - 1) -> Samples]
      BY <1>0, <2>0, CopyInType, SMTT(30)
    <2> QED
      BY <1>0, <1>1, <2>1, ConstantFacts DEF CopyIn
  <1> HIDE DEF once
  <1>3. ASSUME NEW i \in 0..(Capacity - 1)
        PROVE  /\ once[i] = Overwritten(buffer, w, vs, i)
               /\ buffer[i] = buffer[i + Capacity] => once[i] = once[i + Capacity]
    <2>1. i \in 0..(2 * Capacity - 1) /\ i + Capacity \in 0..(2 * Capacity - 1)
      BY ConstantFacts
    <2>2. zero + i - w + 1 = i - w + 1 /\ zero + (i + Capacity) - up + 1 = i - w + 1
      BY <1>0, ConstantFacts
    <2>3. /\ i \notin up..(up + n - 1)
          /\ i + Capacity \in up..(up + n - 1)
               <=> i \in w..(w + n - 1)
          /\ i + Capacity \notin w..(w + n - 1)
          /\ ~(i <= w + Len(vs) - Capacity - 1)
          /\ i \in w..(w + n - 1) <=> i \in w..(w + Len(vs) - 1)
      BY <1>0, ConstantFacts
    <2> QED
      BY <2>1, <2>2, <2>3, <1>1, <1>2 DEF Overwritten
  <1> QED
    BY <1>2, <1>3 DEF once, low, up, n, zero

LEMMA CopyTwice ==
  ASSUME NEW buffer \in [0..(2 * Capacity - 1) -> Samples], NEW w \in 0..(Capacity - 1),
         NEW vs \in Seq(Samples), w + Len(vs) >= Capacity, Len(vs) <= Capacity
  PROVE  LET low == CopyIn(buffer, w, vs, 0, Len(vs))
             half == CopyIn(low, Capacity + w, vs, 0, Capacity - w)
             twice == CopyIn(half, 0, vs, Capacity - w, w + Len(vs) - Capacity)
         IN /\ twice \in [0..(2 * Capacity - 1) -> Samples]
            /\ \A i \in 0..(Capacity - 1) :
                 /\ twice[i] = Overwritten(buffer, w, vs, i)
                 /\ buffer[i] = buffer[i + Capacity] => twice[i] = twice[i + Capacity]
  <1> DEFINE low == CopyIn(buffer, w, vs, 0, Len(vs))
             n1 == Capacity - w
             n2 == w + Len(vs) - Capacity
             up == Capacity + w
             half == CopyIn(low, up, vs, 0, n1)
             twice == CopyIn(half, 0, vs, n1, n2)
  <1>0. /\ Len(vs) \in Nat /\ w \in Nat /\ up \in Nat /\ up = Capacity + w
        /\ n1 \in Nat /\ n2 \in Nat /\ n1 + n2 = Len(vs) /\ n2 <= w /\ n1 + w = Capacity
        /\ 0 + n1 <= Len(vs) /\ n1 + n2 <= Len(vs) /\ 0 + Len(vs) <= Len(vs)
        /\ n1 \in Int /\ n2 \in Int
    BY LenProperties, ConstantFacts
  <1>1. /\ low \in [0..(2 * Capacity - 1) -> Samples]
        /\ \A i \in 0..(2 * Capacity - 1) :
             low[i] = IF i \in w..(w + Len(vs) - 1) THEN vs[0 + i - w + 1] ELSE buffer[i]
    <2>1. low \in [0..(2 * Capacity - 1) -> Samples]
      <3>1. w \in Nat /\ 0 \in Nat /\ Len(vs) \in Int /\ 0 + Len(vs) <= Len(vs)
        BY <1>0
      <3> QED
        BY <3>1, CopyInType
    <2> QED
      BY <1>0, <2>1, ConstantFacts DEF CopyIn
  <1> HIDE DEF low, up, n1, n2
  <1>2. /\ half \in [0..(2 * Capacity - 1) -> Samples]
        /\ \A i \in 0..(2 * Capacity - 1) :
             half[i] = IF i \in up..(up + n1 - 1)
                       THEN vs[0 + i - up + 1] ELSE low[i]
    <2>1. half \in [0..(2 * Capacity - 1) -> Samples]
      BY <1>0, <1>1, CopyInType
    <2> QED
      BY <1>0, <1>1, <2>1, ConstantFacts DEF CopyIn
  <1> HIDE DEF half
  <1>3. /\ twice \in [0..(2 * Capacity - 1) -> Samples]
        /\ \A i \in 0..(2 * Capacity - 1) :
             twice[i] = IF i \in 0..(0 + n2 - 1) THEN vs[n1 + i - 0 + 1] ELSE half[i]
    <2>1. twice \in [0..(2 * Capacity - 1) -> Samples]
      BY <1>0, <1>2, CopyInType
    <2> QED
      BY <1>0, <1>2, <2>1, ConstantFacts DEF CopyIn
  <1> HIDE DEF twice
  <1>4. ASSUME NEW i \in 0..(Capacity - 1)
        PROVE  /\ twice[i] = Overwritten(buffer, w, vs, i)
               /\ buffer[i] = buffer[i + Capacity] => twice[i] = twice[i + Capacity]
    <2>1. i \in 0..(2 * Capacity - 1) /\ i + Capacity \in 0..(2 * Capacity - 1)
      BY ConstantFacts
    <2>2. CASE i \in w..(w + Len(vs) - 1)
      <3>1. /\ i \notin 0..(0 + n2 - 1) /\ i + Capacity \notin 0..(0 + n2 - 1)
            /\ i \notin up..(up + n1 - 1)
            /\ i + Capacity \in up..(up + n1 - 1)
            /\ 0 + i - w + 1 = i - w + 1
            /\ 0 + (i + Capacity) - up + 1 = i - w + 1
        BY <2>2, <1>0, ConstantFacts
      <3> QED
        BY <2>1, <2>2, <3>1, <1>1, <1>2, <1>3 DEF Overwritten
    <2>3. CASE i <= w + Len(vs) - Capacity - 1
      <3>1. /\ i \in 0..(0 + n2 - 1) /\ i + Capacity \notin 0..(0 + n2 - 1)
            /\ i \notin w..(w + Len(vs) - 1)
            /\ i + Capacity \notin up..(up + n1 - 1)
            /\ i + Capacity \in w..(w + Len(vs) - 1)
            /\ n1 + i - 0 + 1 = i + Capacity - w + 1
            /\ 0 + (i + Capacity) - w + 1 = i + Capacity - w + 1
        BY <2>3, <1>0, ConstantFacts
      <3> QED
        BY <2>1, <2>3, <3>1, <1>1, <1>2, <1>3 DEF Overwritten
    <2>4. CASE i \notin w..(w + Len(vs) - 1) /\ ~(i <= w + Len(vs) - Capacity - 1)
      <3>1. /\ i \notin 0..(0 + n2 - 1) /\ i + Capacity \notin 0..(0 + n2 - 1)
            /\ i \notin up..(up + n1 - 1)
            /\ i + Capacity \notin up..(up + n1 - 1)
            /\ i + Capacity \notin w..(w + Len(vs) - 1)
        BY <2>4, <1>0, ConstantFacts
      <3> QED
        BY <2>1, <2>4, <3>1, <1>1, <1>2, <1>3 DEF Overwritten
    <2> QED
      BY <2>2, <2>3, <2>4
  <1> QED
    BY <1>3, <1>4 DEF twice, half, low, up, n1, n2

LEMMA StoredFacts ==
  ASSUME NEW b, Good(b), NEW buffer \in [0..(2 * Capacity - 1) -> Samples],
         NEW w \in 0..(Capacity - 1)
  PROVE  /\ Good(Stored(b, buffer, w)) /\ Stored(b, buffer, w).buffer = buffer
         /\ Stored(b, buffer, w).write = w /\ Stored(b, buffer, w).read = b.read
         /\ ~Stored(b, buffer, w).empty
  BY DEF Good, Buffers, Stored

\* The slots after CircularBufferWrite: the lower half has the new values from
\* `write` on, and around its end; the upper half the same if it did before.
LEMMA WriteSlots ==
  ASSUME NEW b, Good(b), NEW vs \in Seq(Samples), Len(vs) >= 1, Len(vs) <= CanWrite(b)
  PROVE  LET w == Write(b, vs)
         IN /\ Good(w) /\ w.read = b.read /\ ~w.empty
            /\ w.write = IF b.write + Len(vs) >= Capacity
                         THEN b.write + Len(vs) - Capacity ELSE b.write + Len(vs)
            /\ \A i \in 0..(Capacity - 1) :
                 w.buffer[i] = Overwritten(b.buffer, b.write, vs, i)
            /\ Repeats(b) => Repeats(w)
  <1> DEFINE w == Write(b, vs)
             low == CopyIn(b.buffer, b.write, vs, 0, Len(vs))
             once == CopyIn(low, Capacity + b.write, vs, 0, Len(vs))
             twice == CopyIn(CopyIn(low, Capacity + b.write, vs, 0, Capacity - b.write),
                             0, vs, Capacity - b.write, b.write + Len(vs) - Capacity)
  <1>0. /\ Len(vs) \in Nat /\ Len(vs) <= Capacity /\ b.capacity = Capacity
        /\ b.write \in 0..(Capacity - 1)
        /\ b.buffer \in [0..(2 * Capacity - 1) -> Samples]
    BY LenProperties, ConstantFacts, AvailableFacts, GoodFacts
  <1>1. CASE b.write + Len(vs) < Capacity
    <2> DEFINE e == b.write + Len(vs)
    <2>1. w = Stored(b, once, e)
      BY <1>0, <1>1 DEF Write
    <2>2. /\ once \in [0..(2 * Capacity - 1) -> Samples]
          /\ \A i \in 0..(Capacity - 1) :
               /\ once[i] = Overwritten(b.buffer, b.write, vs, i)
               /\ b.buffer[i] = b.buffer[i + Capacity] => once[i] = once[i + Capacity]
      BY <1>0, <1>1, CopyOnce, SMTT(60)
    <2>3. e \in 0..(Capacity - 1) /\ e = b.write + Len(vs) /\ ~(b.write + Len(vs) >= Capacity)
      BY <1>0, <1>1, ConstantFacts
    <2> HIDE DEF w, once, e
    <2>4. /\ Good(w) /\ w.buffer = once /\ w.write = e
          /\ w.read = b.read /\ ~w.empty
      BY <2>1, <2>2, <2>3, StoredFacts
    <2> QED
      BY <2>2, <2>3, <2>4 DEF Repeats, w
  <1>2. CASE b.write + Len(vs) >= Capacity
    <2> DEFINE e == b.write + Len(vs) - Capacity
    <2>1. w = Stored(b, twice, e)
      BY <1>0, <1>2, ConstantFacts DEF Write
    <2>2. /\ twice \in [0..(2 * Capacity - 1) -> Samples]
          /\ \A i \in 0..(Capacity - 1) :
               /\ twice[i] = Overwritten(b.buffer, b.write, vs, i)
               /\ b.buffer[i] = b.buffer[i + Capacity] => twice[i] = twice[i + Capacity]
      BY <1>0, <1>2, CopyTwice
    <2>3. e \in 0..(Capacity - 1) /\ e = b.write + Len(vs) - Capacity
      BY <1>0, <1>2, ConstantFacts
    <2> HIDE DEF w, twice, e
    <2>4. /\ Good(w) /\ w.buffer = twice /\ w.write = e
          /\ w.read = b.read /\ ~w.empty
      BY <2>1, <2>2, <2>3, StoredFacts
    <2> QED
      BY <2>2, <2>3, <2>4, <1>2 DEF Repeats, w
  <1> QED
    BY <1>0, <1>1, <1>2, ConstantFacts
\* A window after n values: what SlidingWindow's Push makes of it.
Pushed(window, vs, n) ==
  [k \in 1..Capacity |->
     IF k + n <= Capacity THEN window[k + n] ELSE vs[k + n - Capacity]]

\* `to` is n places behind `from`, round the buffer.
Advanced(from, n, to) ==
  /\ from \in 0..(Capacity - 1) /\ n \in 0..Capacity
  /\ to = IF from + n >= Capacity THEN from + n - Capacity ELSE from + n

\* There are a values from r up to w.
Distance(r, w, a) ==
  /\ r \in 0..(Capacity - 1) /\ w \in 0..(Capacity - 1) /\ a \in 0..Capacity
  /\ w > r => a = w - r
  /\ w < r => a = Capacity + w - r
  /\ w = r => a = 0 \/ a = Capacity

LEMMA AvailableDistance ==
  ASSUME NEW b, Good(b)
  PROVE  Distance(b.read, b.write, Available(b))
  BY GoodFacts, AvailableFacts DEF Distance

\* The k-th value of the window after n values at w.
LEMMA SlotArithmetic ==
  ASSUME NEW w, NEW n, NEW to, NEW k, NEW slot, Advanced(w, n, to), n >= 1,
         k \in 1..Capacity, Advanced(to, k - 1, slot)
  PROVE  /\ slot \in 0..(Capacity - 1)
         /\ k + n <= Capacity =>
              /\ Advanced(w, (k + n) - 1, slot)
              /\ slot \notin w..(w + n - 1)
              /\ ~(slot <= w + n - Capacity - 1)
         /\ k + n > Capacity =>
              \/ /\ slot \in w..(w + n - 1)
                 /\ slot - w + 1 = k + n - Capacity
              \/ /\ slot \notin w..(w + n - 1)
                 /\ slot <= w + n - Capacity - 1
                 /\ slot + Capacity - w + 1 = k + n - Capacity
  BY ConstantFacts DEF Advanced

LEMMA AvailableArithmetic ==
  ASSUME NEW r, NEW w, NEW a, NEW n, NEW to, NEW c, Distance(r, w, a),
         Advanced(w, n, to), a + n <= Capacity, Distance(r, to, c), c > 0, n >= 1
  PROVE  c = a + n
  BY ConstantFacts DEF Advanced, Distance

\* The k-th value of the window is k - 1 places behind `write`.
LEMMA NewestAt ==
  ASSUME NEW b, Good(b), NEW k, k \in 1..Capacity, NEW slot,
         Advanced(b.write, k - 1, slot)
  PROVE  NewestOf(b)[k] = b.buffer[slot]
  <1>1. slot = IF b.write + k - 1 >= Capacity THEN b.write + k - 1 - Capacity
               ELSE b.write + k - 1
    BY GoodFacts, ConstantFacts DEF Advanced
  <1> QED
    BY <1>1, NewestFacts

\* Whoever stores values behind `write`, in the lower half and around its end,
\* and moves `write` on, pushes them into the window.
LEMMA PushEffect ==
  ASSUME NEW b, Good(b), NEW w, Good(w), NEW vs, NEW n \in Nat, n = Len(vs),
         n >= 1, n <= CanWrite(b), w.read = b.read, ~w.empty,
         Advanced(b.write, n, w.write),
         \A i \in 0..(Capacity - 1) : w.buffer[i] = Overwritten(b.buffer, b.write, vs, i)
  PROVE  /\ Available(w) = Available(b) + n
         /\ NewestOf(w) = Pushed(NewestOf(b), vs, n)
  <1>1. Available(w) = Available(b) + n
    <2>1. Available(b) + n <= Capacity /\ Available(w) > 0
      BY AvailableFacts, ConstantFacts
    <2>2. Distance(b.read, b.write, Available(b)) /\ Distance(b.read, w.write, Available(w))
      BY AvailableDistance
    <2> QED
      BY <2>1, <2>2, AvailableArithmetic
  <1>2. ASSUME NEW k \in 1..Capacity
        PROVE  NewestOf(w)[k] = Pushed(NewestOf(b), vs, n)[k]
    <2>1. PICK slot : Advanced(w.write, k - 1, slot)
      BY GoodFacts, ConstantFacts DEF Advanced
    <2>2. slot \in 0..(Capacity - 1)
      BY <2>1, SlotArithmetic
    <2>3. NewestOf(w)[k] = Overwritten(b.buffer, b.write, vs, slot)
      BY <2>1, <2>2, NewestAt
    <2>4. CASE k + n <= Capacity
      <3>1. NewestOf(b)[k + n] = b.buffer[slot]
        <4>1. k + n \in 1..Capacity
          BY <2>4
        <4>2. Advanced(b.write, (k + n) - 1, slot)
          BY <2>1, <2>4, SlotArithmetic
        <4> QED
          BY <4>1, <4>2, NewestAt
      <3>2. slot \notin b.write..(b.write + n - 1) /\ ~(slot <= b.write + n - Capacity - 1)
        BY <2>1, <2>4, SlotArithmetic
      <3> QED
        BY <2>3, <2>4, <3>1, <3>2 DEF Overwritten, Pushed
    <2>5. CASE k + n > Capacity
      <3>1. \/ /\ slot \in b.write..(b.write + n - 1)
               /\ slot - b.write + 1 = k + n - Capacity
            \/ /\ slot \notin b.write..(b.write + n - 1)
               /\ slot <= b.write + n - Capacity - 1
               /\ slot + Capacity - b.write + 1 = k + n - Capacity
        BY <2>1, <2>5, SlotArithmetic
      <3>2. ~(k + n <= Capacity)
        BY <2>5, ConstantFacts
      <3> QED
        BY <2>3, <3>1, <3>2 DEF Overwritten, Pushed
    <2> QED
      BY <2>4, <2>5, ConstantFacts
  <1>3. /\ NewestOf(w) = [k \in 1..Capacity |-> NewestOf(w)[k]]
        /\ Pushed(NewestOf(b), vs, n)
             = [k \in 1..Capacity |-> Pushed(NewestOf(b), vs, n)[k]]
    BY DEF NewestOf, Pushed
  <1>4. NewestOf(w) = Pushed(NewestOf(b), vs, n)
    BY <1>2, <1>3
  <1> QED
    BY <1>1, <1>4

LEMMA WriteEffect ==
  ASSUME NEW b, Good(b), NEW vs \in Seq(Samples), NEW n \in Nat, n = Len(vs), n >= 1,
         n <= CanWrite(b)
  PROVE  /\ Good(Write(b, vs)) /\ Write(b, vs).read = b.read
         /\ ~Write(b, vs).empty
         /\ Available(Write(b, vs)) = Available(b) + n
         /\ NewestOf(Write(b, vs)) = Pushed(NewestOf(b), vs, n)
         /\ Repeats(b) => Repeats(Write(b, vs))
  <1> DEFINE w == Write(b, vs)
  <1>1. /\ Good(w) /\ w.read = b.read /\ ~w.empty
        /\ w.write = IF b.write + n >= Capacity THEN b.write + n - Capacity
                     ELSE b.write + n
        /\ \A i \in 0..(Capacity - 1) :
             w.buffer[i] = Overwritten(b.buffer, b.write, vs, i)
        /\ Repeats(b) => Repeats(w)
    BY WriteSlots
  <1> HIDE DEF w
  <1>2. Advanced(b.write, n, w.write)
    <2>1. b.write \in 0..(Capacity - 1) /\ n \in 0..Capacity
      BY GoodFacts, AvailableFacts, ConstantFacts
    <2> QED
      BY <1>1, <2>1 DEF Advanced
  <1>3. Available(w) = Available(b) + n /\ NewestOf(w) = Pushed(NewestOf(b), vs, n)
    BY <1>1, <1>2, PushEffect
  <1> QED
    BY <1>1, <1>3 DEF w
LEMMA AddEffect ==
  ASSUME NEW b, Good(b), NEW v \in Samples, AddAllowed(b)
  PROVE  /\ Good(Add(b, v))
         /\ Available(b) + 1 <= Capacity /\ Available(Add(b, v)) = Available(b) + 1
         /\ NewestOf(Add(b, v)) = Pushed(NewestOf(b), [i \in 1..1 |-> v], 1)
         /\ Repeats(b) => Repeats(Add(b, v))
  <1> DEFINE w == Add(b, v)
             vs == [i \in 1..1 |-> v]
             to == IF b.write + 1 = b.capacity THEN 0 ELSE b.write + 1
  <1>0. /\ vs \in Seq(Samples) /\ Len(vs) = 1 /\ vs[1] = v
    BY ValuesAreSequences
  <1>1. /\ b.write \in 0..(Capacity - 1) /\ b.read \in 0..(Capacity - 1)
        /\ b.capacity = Capacity /\ b.empty \in BOOLEAN
        /\ b.buffer \in [0..(2 * Capacity - 1) -> Samples]
    BY GoodFacts
  <1>2. Advanced(b.write, 1, to)
    BY <1>1, ConstantFacts DEF Advanced
  <1>3. to \in 0..(Capacity - 1)
    BY <1>1, ConstantFacts
  <1>4. 1 <= CanWrite(b) /\ Available(b) + 1 <= Capacity
    <2>1. ~(b.read = b.write /\ ~b.empty)
      BY DEF AddAllowed, Full
    <2> QED
      BY <1>1, <2>1, AvailableFacts, ConstantFacts
  <1> DEFINE buffer == [b.buffer EXCEPT ![b.write] = v, ![b.write + b.capacity] = v]
  <1>5. /\ buffer \in [0..(2 * Capacity - 1) -> Samples]
        /\ \A i \in 0..(Capacity - 1) :
             /\ buffer[i] = IF i = b.write THEN v ELSE b.buffer[i]
             /\ buffer[i + Capacity] = IF i = b.write THEN v ELSE b.buffer[i + Capacity]
    <2>1. PICK at \in 0..(Capacity - 1), up \in 0..(2 * Capacity - 1) :
            at = b.write /\ up = at + Capacity
      BY <1>1, ConstantFacts
    <2>2. buffer = [b.buffer EXCEPT ![at] = v, ![up] = v]
      BY <1>1, <2>1
    <2>3. \A i \in 0..(Capacity - 1) :
            /\ i \in 0..(2 * Capacity - 1) /\ i + Capacity \in 0..(2 * Capacity - 1)
            /\ i # up /\ i + Capacity # at /\ (i + Capacity = up <=> i = at)
      BY <2>1, ConstantFacts
    <2>4. buffer \in [0..(2 * Capacity - 1) -> Samples]
      BY <1>1, <2>2
    <2> QED
      BY <1>1, <2>1, <2>2, <2>3, <2>4
  <1>6. w = Stored(b, buffer, to)
    BY <1>1 DEF Add, Stored, Good, Buffers
  <1> HIDE DEF buffer, to, w, vs
  <1>7. Good(w) /\ w.read = b.read /\ ~w.empty /\ w.write = to /\ w.buffer = buffer
    BY <1>3, <1>5, <1>6, StoredFacts
  <1>8. \A i \in 0..(Capacity - 1) : w.buffer[i] = Overwritten(b.buffer, b.write, vs, i)
    <2> SUFFICES ASSUME NEW i \in 0..(Capacity - 1)
                 PROVE  w.buffer[i] = Overwritten(b.buffer, b.write, vs, i)
      OBVIOUS
    <2>1. /\ i \in b.write..(b.write + Len(vs) - 1) <=> i = b.write
          /\ ~(i <= b.write + Len(vs) - Capacity - 1)
          /\ i = b.write => i - b.write + 1 = 1
      BY <1>0, <1>1, ConstantFacts
    <2> QED
      BY <1>0, <1>5, <1>7, <2>1 DEF Overwritten
  <1>9. Available(w) = Available(b) + 1 /\ NewestOf(w) = Pushed(NewestOf(b), vs, 1)
    <2> DEFINE one == 1
    <2>1. /\ one \in Nat /\ one = Len(vs) /\ one >= 1 /\ one <= CanWrite(b)
          /\ Advanced(b.write, one, w.write)
      BY <1>0, <1>2, <1>4, <1>7
    <2>2. one = 1
      OBVIOUS
    <2> HIDE DEF one
    <2>3. Available(w) = Available(b) + one /\ NewestOf(w) = Pushed(NewestOf(b), vs, one)
      BY <1>7, <1>8, <2>1, PushEffect
    <2> QED
      BY <2>2, <2>3
  <1>10. Repeats(b) => Repeats(w)
    BY <1>5, <1>7 DEF Repeats
  <1> QED
    BY <1>4, <1>7, <1>9, <1>10 DEF w, vs

LEMMA ReserveEffect ==
  ASSUME NEW b, Good(b), NEW vs \in Seq(Samples), NEW n \in Nat, n = Len(vs), n >= 1,
         n <= CanWrite(b), b.write + n <= Capacity
  PROVE  /\ Good(ReserveForWrite(b, vs))
         /\ Available(ReserveForWrite(b, vs)) = Available(b) + n
         /\ NewestOf(ReserveForWrite(b, vs)) = Pushed(NewestOf(b), vs, n)
  <1> DEFINE w == ReserveForWrite(b, vs)
             to == IF b.write + n = b.capacity THEN 0 ELSE b.write + n
             zero == 0
             buffer == CopyIn(b.buffer, b.write, vs, zero, n)
  <1>1. /\ b.write \in 0..(Capacity - 1) /\ b.capacity = Capacity
        /\ b.buffer \in [0..(2 * Capacity - 1) -> Samples]
        /\ n \in 0..Capacity
    BY GoodFacts, AvailableFacts, ConstantFacts
  <1>2. to \in 0..(Capacity - 1) /\ Advanced(b.write, n, to)
    BY <1>1, ConstantFacts, SMTT(60) DEF Advanced
  <1>3. vs # << >>
    OBVIOUS
  <1>4. w = Stored(b, buffer, to)
    BY <1>3 DEF ReserveForWrite, Stored, Good, Buffers
  <1>5. zero \in Nat /\ zero = 0 /\ b.write \in Nat /\ zero + n <= Len(vs) /\ n \in Int
    BY <1>1
  <1> HIDE DEF zero, to, w
  <1>6. buffer \in [0..(2 * Capacity - 1) -> Samples]
    BY <1>1, <1>5, CopyInType
  <1>7. \A i \in 0..(Capacity - 1) :
          buffer[i] = Overwritten(b.buffer, b.write, vs, i)
    <2> SUFFICES ASSUME NEW i \in 0..(Capacity - 1)
                 PROVE  buffer[i] = Overwritten(b.buffer, b.write, vs, i)
      OBVIOUS
    <2>1. buffer[i] = IF i \in b.write..(b.write + n - 1) THEN vs[zero + i - b.write + 1]
                      ELSE b.buffer[i]
      BY <1>1, ConstantFacts DEF CopyIn
    <2>2. zero + i - b.write + 1 = i - b.write + 1 /\ ~(i <= b.write + n - Capacity - 1)
      BY <1>1, <1>5, ConstantFacts
    <2> HIDE DEF buffer
    <2> QED
      BY <2>1, <2>2 DEF Overwritten
  <1> HIDE DEF buffer
  <1>8. Good(w) /\ w.read = b.read /\ ~w.empty /\ w.write = to /\ w.buffer = buffer
    BY <1>2, <1>4, <1>6, StoredFacts
  <1>9. Available(w) = Available(b) + n /\ NewestOf(w) = Pushed(NewestOf(b), vs, n)
    BY <1>2, <1>7, <1>8, PushEffect
  <1> QED
    BY <1>8, <1>9 DEF w

\* A move of the read position leaves the window.
LEMMA MoveRead ==
  ASSUME NEW b, Good(b), NEW m, Good(m), m.buffer = b.buffer, m.write = b.write
  PROVE  NewestOf(m) = NewestOf(b) /\ (Repeats(b) => Repeats(m))
  BY GoodFacts DEF NewestOf, Wrap, Repeats

LEMMA UnreadAt ==
  ASSUME NEW b, Good(b), NEW i \in 0..(Available(b) - 1), NEW slot,
         Advanced(b.read, i, slot)
  PROVE  b.buffer[slot] = NewestOf(b)[Capacity - Available(b) + i + 1]
  <1>1. slot = IF b.read + i >= Capacity THEN b.read + i - Capacity ELSE b.read + i
    BY DEF Advanced
  <1> QED
    BY <1>1, UnreadSlot

\* Pushing leaves the slots that are to be read.
LEMMA UnreadKept ==
  ASSUME NEW b, Good(b), NEW w, Good(w), NEW n \in Nat, NEW vs, w.read = b.read,
         Available(w) = Available(b) + n, NewestOf(w) = Pushed(NewestOf(b), vs, n),
         NEW i \in 0..(Available(b) - 1), NEW slot, Advanced(b.read, i, slot)
  PROVE  w.buffer[slot] = b.buffer[slot]
  <1> DEFINE k == Capacity - Available(b) + i + 1
             l == Capacity - Available(w) + i + 1
  <1>1. /\ Available(b) \in 0..Capacity /\ Available(w) \in 0..Capacity
        /\ i \in 0..(Available(w) - 1) /\ l \in 1..Capacity /\ l + n = k /\ l + n <= Capacity
    BY AvailableFacts, ConstantFacts
  <1>2. b.buffer[slot] = NewestOf(b)[k]
    BY UnreadAt
  <1>3. w.buffer[slot] = NewestOf(w)[l]
    BY <1>1, UnreadAt
  <1> HIDE DEF k, l
  <1> QED
    BY <1>1, <1>2, <1>3 DEF Pushed

LEMMA SliceFacts ==
  ASSUME NEW b, Good(b), NEW at \in Nat, NEW n \in Nat, at + n <= 2 * Capacity
  PROVE  /\ Slice(b, at, n) \in Seq(Samples) /\ Len(Slice(b, at, n)) = n
         /\ \A i \in 1..n : Slice(b, at, n)[i] = b.buffer[at + i - 1]
  <1>1. \A i \in 1..n : at + i - 1 \in 0..(2 * Capacity - 1)
    BY ConstantFacts
  <1>2. Slice(b, at, n) \in [1..n -> Samples]
    BY <1>1, GoodFacts DEF Slice
  <1> QED
    BY <1>2, ValuesAreSequences DEF Slice
\* The values in count slots from `start` on, round the buffer.
Source(b, start, count) ==
  [i \in 1..count |-> b.buffer[IF start + i - 1 >= Capacity THEN start + i - 1 - Capacity
                               ELSE start + i - 1]]

LEMMA ExtendOnceEffect ==
  ASSUME NEW b, Good(b), NEW start \in 0..(Capacity - 1), NEW count \in 1..Capacity,
         count <= CanWrite(b), NEW o \in 0..(Available(b) - count),
         Advanced(b.read, o, start)
  PROVE  /\ Good(ExtendOnce(b, start, count))
         /\ ExtendOnce(b, start, count).read = b.read
         /\ Available(ExtendOnce(b, start, count)) = Available(b) + count
         /\ NewestOf(ExtendOnce(b, start, count))
              = Pushed(NewestOf(b), Source(b, start, count), count)
         /\ Repeats(b) => Repeats(ExtendOnce(b, start, count))
  <1>0. b.capacity = Capacity /\ Available(b) \in 0..Capacity
        /\ CanWrite(b) = Capacity - Available(b) /\ start \in Nat /\ count \in Nat
    BY GoodFacts, AvailableFacts, ConstantFacts
  <1>1. CASE start + count <= Capacity
    <2> DEFINE vs == Slice(b, start, count)
    <2>1. /\ vs \in Seq(Samples) /\ Len(vs) = count
          /\ \A i \in 1..count : vs[i] = b.buffer[start + i - 1]
      <3>1. start + count <= 2 * Capacity
        BY <1>1, ConstantFacts
      <3> QED
        BY <1>0, <3>1, SliceFacts
    <2>2. vs = Source(b, start, count)
      <3>1. \A i \in 1..count : ~(start + i - 1 >= Capacity)
        BY <1>1, ConstantFacts
      <3> QED
        BY <3>1 DEF Slice, Source
    <2>3. ExtendOnce(b, start, count) = Write(b, vs)
      BY <1>0, <1>1 DEF ExtendOnce
    <2> HIDE DEF vs
    <2> QED
      BY <1>0, <2>1, <2>2, <2>3, WriteEffect
  <1>2. CASE ~(start + count <= Capacity)
    <2> DEFINE n1 == Capacity - start
               n2 == count - n1
               s1 == Slice(b, start, n1)
               half == Write(b, s1)
               s2 == Slice(half, 0, n2)
               e == Write(half, s2)
    <2>1. ExtendOnce(b, start, count) = e
      BY <1>0, <1>2 DEF ExtendOnce
    <2>2. /\ n1 \in Nat /\ n2 \in Nat /\ n1 >= 1 /\ n2 >= 1 /\ n1 + n2 = count
          /\ n1 = Capacity - start /\ start + n1 <= 2 * Capacity
          /\ n1 <= CanWrite(b) /\ n2 <= Capacity
      BY <1>0, <1>2, ConstantFacts
    <2> HIDE DEF n1, n2
    <2>3. /\ s1 \in Seq(Samples) /\ Len(s1) = n1
          /\ \A i \in 1..n1 : s1[i] = b.buffer[start + i - 1]
      BY <1>0, <2>2, SliceFacts
    <2> HIDE DEF s1
    <2>4. /\ Good(half) /\ half.read = b.read
          /\ Available(half) = Available(b) + n1
          /\ NewestOf(half) = Pushed(NewestOf(b), s1, n1)
          /\ Repeats(b) => Repeats(half)
      BY <2>2, <2>3, WriteEffect
    <2> HIDE DEF half
    <2>5. /\ s2 \in Seq(Samples) /\ Len(s2) = n2
          /\ \A i \in 1..n2 : s2[i] = half.buffer[i - 1]
      <3> DEFINE zero == 0
      <3>1. zero \in Nat /\ zero = 0 /\ zero + n2 <= 2 * Capacity
        BY <2>2, ConstantFacts
      <3> HIDE DEF zero
      <3>2. /\ Slice(half, zero, n2) \in Seq(Samples) /\ Len(Slice(half, zero, n2)) = n2
            /\ \A i \in 1..n2 : Slice(half, zero, n2)[i] = half.buffer[zero + i - 1]
        BY <2>2, <2>4, <3>1, SliceFacts
      <3> QED
        BY <3>1, <3>2
    <2>6. \A i \in 1..n2 : s2[i] = b.buffer[i - 1]
      <3> SUFFICES ASSUME NEW i \in 1..n2
                   PROVE  half.buffer[i - 1] = b.buffer[i - 1]
        BY <2>5
      <3>1. PICK j \in Int : j = o + (Capacity - start) + i - 1
        BY <1>0, ConstantFacts
      <3>2. i \in 1..Capacity /\ j < Capacity /\ j < Available(b)
        BY <1>0, <2>2, <3>1, ConstantFacts
      <3>3. Advanced(b.read, j, i - 1) /\ j \in Nat
        BY <3>1, <3>2, ConstantFacts DEF Advanced
      <3>4. j \in 0..(Available(b) - 1)
        BY <1>0, <3>2, <3>3
      <3> QED
        BY <2>2, <2>4, <3>3, <3>4, UnreadKept
    <2> HIDE DEF s2
    <2>7. n2 <= CanWrite(half)
      <3>1. CanWrite(half) = Capacity - Available(half)
        BY <2>4, AvailableFacts
      <3>2. Available(half) = Available(b) + n1
        BY <2>4
      <3> QED
        BY <1>0, <2>2, <3>1, <3>2, ConstantFacts
    <2>8. /\ Good(e) /\ e.read = b.read
          /\ Available(e) = Available(b) + n1 + n2
          /\ NewestOf(e) = Pushed(NewestOf(half), s2, n2)
          /\ Repeats(b) => Repeats(e)
      BY <1>0, <2>2, <2>4, <2>5, <2>7, WriteEffect
    <2>9. Pushed(NewestOf(half), s2, n2)
            = Pushed(NewestOf(b), Source(b, start, count), count)
      <3>1. ASSUME NEW k \in 1..Capacity
            PROVE  Pushed(NewestOf(half), s2, n2)[k]
                     = Pushed(NewestOf(b), Source(b, start, count), count)[k]
        <4>1. CASE k + count <= Capacity
          <5>1. k + n2 \in 1..Capacity /\ (k + n2) + n1 = k + count
                /\ k + n2 <= Capacity /\ (k + n2) + n1 <= Capacity
            BY <2>2, <4>1, ConstantFacts
          <5>2. Pushed(NewestOf(half), s2, n2)[k] = NewestOf(half)[k + n2]
            BY <5>1 DEF Pushed
          <5>3. NewestOf(half)[k + n2] = NewestOf(b)[k + count]
            BY <2>4, <5>1 DEF Pushed
          <5> QED
            BY <4>1, <5>2, <5>3 DEF Pushed
        <4>2. CASE k + count > Capacity /\ k + n2 <= Capacity
          <5>1. k + n2 \in 1..Capacity /\ ~((k + n2) + n1 <= Capacity)
                /\ (k + n2) + n1 - Capacity = k + count - Capacity
                /\ k + count - Capacity \in 1..n1 /\ k + count - Capacity \in 1..count
                /\ ~(start + (k + count - Capacity) - 1 >= Capacity)
                /\ ~(k + count <= Capacity)
            BY <2>2, <4>2, ConstantFacts
          <5>2. Pushed(NewestOf(half), s2, n2)[k] = NewestOf(half)[k + n2]
            BY <4>2 DEF Pushed
          <5>3. NewestOf(half)[k + n2] = s1[k + count - Capacity]
            BY <2>4, <5>1 DEF Pushed
          <5>4. s1[k + count - Capacity] = b.buffer[start + (k + count - Capacity) - 1]
            BY <2>3, <5>1
          <5>5. Source(b, start, count)[k + count - Capacity]
                  = b.buffer[start + (k + count - Capacity) - 1]
            BY <5>1 DEF Source
          <5> QED
            BY <5>1, <5>2, <5>3, <5>4, <5>5 DEF Pushed
        <4>3. CASE k + n2 > Capacity
          <5>1. ~(k + n2 <= Capacity) /\ ~(k + count <= Capacity)
                /\ k + n2 - Capacity \in 1..n2 /\ k + count - Capacity \in 1..count
                /\ start + (k + count - Capacity) - 1 >= Capacity
                /\ start + (k + count - Capacity) - 1 - Capacity = (k + n2 - Capacity) - 1
            BY <2>2, <4>3, ConstantFacts
          <5>2. Pushed(NewestOf(half), s2, n2)[k] = s2[k + n2 - Capacity]
            BY <5>1 DEF Pushed
          <5>3. s2[k + n2 - Capacity] = b.buffer[(k + n2 - Capacity) - 1]
            BY <2>6, <5>1
          <5>4. Source(b, start, count)[k + count - Capacity]
                  = b.buffer[(k + n2 - Capacity) - 1]
            BY <5>1 DEF Source
          <5> QED
            BY <5>1, <5>2, <5>3, <5>4 DEF Pushed
        <4> QED
          BY <2>2, <4>1, <4>2, <4>3, ConstantFacts
      <3> QED
        BY <3>1 DEF Pushed
    <2> HIDE DEF e
    <2> QED
      BY <1>0, <2>1, <2>2, <2>8, <2>9
  <1> QED
    BY <1>1, <1>2
\* n values to be read, from an index on.
Out(b, index, n) ==
  [i \in 1..n |-> NewestOf(b)[Capacity - Available(b) + (index + i - 1) + 1]]

\* Slots from that of an index on hold what is to be read, if they are in the
\* lower half or the upper half repeats it.
LEMMA SliceIsOut ==
  ASSUME NEW b, Good(b), NEW index \in Nat, NEW n \in Nat, index + n <= Available(b),
         NEW at \in 0..(Capacity - 1), index \in 0..Capacity,
         at = IF b.read + index >= Capacity THEN b.read + index - Capacity
              ELSE b.read + index,
         Repeats(b) \/ at + n <= Capacity
  PROVE  Slice(b, at, n) = Out(b, index, n)
  <1>0. b.read \in 0..(Capacity - 1) /\ Available(b) \in 0..Capacity
    BY GoodFacts, AvailableFacts
  <1>1. ASSUME NEW i \in 1..n
        PROVE  b.buffer[at + i - 1]
                 = NewestOf(b)[Capacity - Available(b) + (index + i - 1) + 1]
    <2> DEFINE j == index + i - 1
    <2>1. j \in 0..(Available(b) - 1) /\ j \in 0..Capacity
      BY <1>0, ConstantFacts
    <2>2. CASE at + i - 1 < Capacity
      <3>1. Advanced(b.read, j, at + i - 1)
        BY <1>0, <2>1, <2>2, ConstantFacts DEF Advanced
      <3> HIDE DEF j
      <3>2. b.buffer[at + i - 1] = NewestOf(b)[Capacity - Available(b) + j + 1]
        BY <2>1, <3>1, UnreadAt
      <3> QED
        BY <3>2 DEF j
    <2>3. CASE at + i - 1 >= Capacity
      <3> DEFINE slot == at + i - 1 - Capacity
      <3>1. Advanced(b.read, j, slot)
        BY <1>0, <2>1, <2>3, ConstantFacts DEF Advanced
      <3>2. Repeats(b) /\ slot \in 0..(Capacity - 1) /\ slot + Capacity = at + i - 1
        BY <1>0, <2>1, <2>3, ConstantFacts
      <3> HIDE DEF j, slot
      <3>3. b.buffer[slot] = NewestOf(b)[Capacity - Available(b) + j + 1]
        BY <2>1, <3>1, UnreadAt
      <3>4. b.buffer[at + i - 1] = b.buffer[slot]
        BY <3>2 DEF Repeats
      <3> QED
        BY <3>3, <3>4 DEF j
    <2> QED
      BY <2>2, <2>3, <1>0, ConstantFacts
  <1> QED
    BY <1>1 DEF Slice, Out

LEMMA GetIsOut ==
  ASSUME NEW b, Good(b), NEW n \in Nat, n <= Available(b)
  PROVE  Get(b, n) = Out(b, 0, n)
  <1>0. /\ b.read \in 0..(Capacity - 1) /\ Available(b) \in 0..Capacity
        /\ b.capacity = Capacity /\ b.read \in Nat
    BY GoodFacts, AvailableFacts
  <1>1. CASE b.read + n <= Capacity
    <2> DEFINE zero == 0
    <2>1. /\ zero \in Nat /\ zero = 0 /\ zero + n <= Available(b) /\ zero \in 0..Capacity
          /\ b.read = IF b.read + zero >= Capacity THEN b.read + zero - Capacity
                      ELSE b.read + zero
      BY <1>0, ConstantFacts
    <2> HIDE DEF zero
    <2>2. Slice(b, b.read, n) = Out(b, zero, n)
      BY <1>0, <1>1, <2>1, SliceIsOut
    <2> QED
      BY <1>0, <1>1, <2>1, <2>2 DEF Get
  <1>2. CASE ~(b.read + n <= Capacity)
    <2> DEFINE n1 == Capacity - b.read
               n2 == b.read + n - Capacity
               zero == 0
               s1 == Slice(b, b.read, n1)
               s2 == Slice(b, zero, n2)
    <2>1. /\ n1 \in Nat /\ n2 \in Nat /\ n1 + n2 = n /\ zero \in Nat /\ zero = 0
          /\ b.read + n1 <= 2 * Capacity /\ zero + n2 <= 2 * Capacity
          /\ n1 = Capacity - b.read
      BY <1>0, <1>2, ConstantFacts
    <2>2. Get(b, n) = s1 \o s2
      BY <1>0, <1>2, <2>1 DEF Get
    <2> HIDE DEF n1, n2, zero
    <2>3. /\ s1 \in Seq(Samples) /\ Len(s1) = n1
          /\ \A i \in 1..n1 : s1[i] = b.buffer[b.read + i - 1]
      <3>1. PICK r \in Nat : r = b.read
        BY <1>0
      <3>2. n1 \in Nat /\ r + n1 <= 2 * Capacity
        BY <2>1, <3>1
      <3>3. /\ Slice(b, r, n1) \in Seq(Samples) /\ Len(Slice(b, r, n1)) = n1
            /\ \A i \in 1..n1 : Slice(b, r, n1)[i] = b.buffer[r + i - 1]
        BY <3>2, SliceFacts
      <3> QED
        BY <3>1, <3>3
    <2>4. /\ s2 \in Seq(Samples) /\ Len(s2) = n2
          /\ \A i \in 1..n2 : s2[i] = b.buffer[zero + i - 1]
      BY <1>0, <2>1, SliceFacts
    <2> HIDE DEF s1, s2
    <2>5. /\ s1 \o s2 \in Seq(Samples)
          /\ Len(s1 \o s2) = n
          /\ \A i \in 1..n : (s1 \o s2)[i] = IF i <= n1 THEN s1[i] ELSE s2[i - n1]
      BY <2>1, <2>3, <2>4, ConcatProperties
    <2>6. ASSUME NEW i \in 1..n
          PROVE  (IF i <= n1 THEN s1[i] ELSE s2[i - n1])
                   = NewestOf(b)[Capacity - Available(b) + (0 + i - 1) + 1]
      <3>0. PICK j \in 0..(Available(b) - 1) : j = 0 + i - 1
        BY <1>0
      <3>1. CASE i <= n1
        <4>1. Advanced(b.read, j, b.read + i - 1)
          BY <1>0, <2>1, <3>0, <3>1, ConstantFacts DEF Advanced
        <4>2. b.buffer[b.read + i - 1] = NewestOf(b)[Capacity - Available(b) + j + 1]
          BY <4>1, UnreadAt
        <4>3. i \in 1..n1
          BY <3>1, <2>1
        <4> QED
          BY <2>3, <3>0, <3>1, <4>2, <4>3
      <3>2. CASE ~(i <= n1)
        <4>1. Advanced(b.read, j, zero + (i - n1) - 1)
          BY <1>0, <2>1, <3>0, <3>2, ConstantFacts DEF Advanced
        <4>2. b.buffer[zero + (i - n1) - 1] = NewestOf(b)[Capacity - Available(b) + j + 1]
          BY <4>1, UnreadAt
        <4>3. i - n1 \in 1..n2
          BY <3>2, <2>1
        <4>4. s2[i - n1] = b.buffer[zero + (i - n1) - 1]
          BY <2>4, <4>3
        <4> QED
          BY <3>0, <3>2, <4>2, <4>4
      <3> QED
        BY <3>1, <3>2
    <2>7. s1 \o s2 = [i \in 1..n |-> IF i <= n1 THEN s1[i] ELSE s2[i - n1]]
      BY <2>5, LenProperties
    <2> QED
      BY <2>2, <2>6, <2>7 DEF Out
  <1> QED
    BY <1>1, <1>2
(* The invariant of a sequence of calls. *)

\* The source of an extension is among the values to be read, and is what was
\* written last.
SourceHeld(b, e) ==
  \E o \in 0..(Available(b) - e.count) : Advanced(b.read, o, e.start)
SourceNewest(b, e) ==
  \A i \in 1..e.count :
    Source(b, e.start, e.count)[i] = NewestOf(b)[Capacity - e.count + i]

\* What is left of an extension has room, and its source stays.
ExtendInv(b, e) ==
  e.left # 0 =>
    /\ e.count \in 1..Capacity /\ e.start \in 0..(Capacity - 1)
    /\ e.count * e.left <= CanWrite(b)
    /\ SourceHeld(b, e)
    /\ SourceNewest(b, e)

IInv ==
  /\ TypeOK
  /\ Good(cb)
  /\ ~Reserving => Repeats(cb)
  /\ ExtendInv(cb, extending)

\* A buffer that has just been initialised or reset.
Cleared(b) ==
  /\ b \in Buffers /\ b.read = 0 /\ b.write = 0 /\ b.empty
  /\ b.buffer = [i \in 0..(2 * Capacity - 1) |-> 0]

LEMMA NewCleared == Cleared(New(Capacity))
  BY ConstantFacts DEF New, Buffers, Cleared

LEMMA ResetCleared ==
  ASSUME NEW b, Good(b)
  PROVE  Cleared(Reset(b))
  <1> DEFINE zeros == [i \in 0..(2 * Capacity - 1) |-> 0]
             half == [b EXCEPT !.read = 0, !.write = 0]
             r == [half EXCEPT !.empty = TRUE, !.buffer = zeros]
  <1>1. b \in Buffers /\ b.capacity = Capacity
    BY GoodFacts DEF Good
  <1>2. zeros \in [0..(2 * Capacity - 1) -> Samples]
    BY ConstantFacts
  <1>3. Reset(b) = r
    BY <1>1 DEF Reset
  <1> HIDE DEF zeros
  <1>4. half \in Buffers /\ half.read = 0 /\ half.write = 0
    <2>1. 0 \in 0..(Capacity - 1)
      BY ConstantFacts
    <2>2. half \in Buffers
      BY <1>1, <2>1 DEF Buffers
    <2> QED
      BY <1>1, <2>2 DEF Buffers
  <1> HIDE DEF half
  <1>5. r \in Buffers
    BY <1>2, <1>4 DEF Buffers
  <1>6. r.read = 0 /\ r.write = 0 /\ r.empty /\ r.buffer = zeros
    BY <1>4 DEF Buffers
  <1> HIDE DEF r
  <1> QED
    BY <1>3, <1>5, <1>6 DEF Cleared, zeros

LEMMA ClearedFacts ==
  ASSUME NEW b, Cleared(b)
  PROVE  /\ Good(b) /\ Repeats(b) /\ Available(b) = 0
         /\ NewestOf(b) = [k \in 1..Capacity |-> 0]
  <1>1. /\ b \in Buffers /\ b.read = 0 /\ b.write = 0 /\ b.empty
        /\ b.buffer = [i \in 0..(2 * Capacity - 1) |-> 0]
    BY DEF Cleared
  <1>2. Good(b)
    BY <1>1 DEF Good
  <1>3. Available(b) = 0
    BY <1>1, <1>2, AvailableFacts
  <1>4. Repeats(b)
    BY <1>1, ConstantFacts DEF Repeats
  <1>5. ASSUME NEW k \in 1..Capacity
        PROVE  NewestOf(b)[k] = 0
    <2>1. PICK slot : Advanced(b.write, k - 1, slot)
      BY <1>1, ConstantFacts DEF Advanced
    <2>2. slot \in 0..(2 * Capacity - 1)
      BY <1>1, <2>1, ConstantFacts DEF Advanced
    <2>3. NewestOf(b)[k] = b.buffer[slot]
      BY <1>2, <2>1, NewestAt
    <2> QED
      BY <1>1, <2>2, <2>3
  <1>6. NewestOf(b) = [k \in 1..Capacity |-> NewestOf(b)[k]]
    BY DEF NewestOf
  <1> QED
    BY <1>2, <1>3, <1>4, <1>5, <1>6

LEMMA InitInv == Init => IInv
  <1> SUFFICES ASSUME Init PROVE IInv
    OBVIOUS
  <1>1. Good(cb) /\ Repeats(cb)
    BY NewCleared, ClearedFacts DEF Init
  <1>2. TypeOK
    <2>1. cb \in Buffers
      BY <1>1 DEF Good
    <2>2. slots \in Nat
      BY ConstantFacts DEF Init, NeededSlots
    <2> QED
      BY <2>1, <2>2, ConstantFacts DEF Init, TypeOK, Buffers, NotExtending
  <1>3. ExtendInv(cb, extending)
    BY DEF Init, ExtendInv, NotExtending
  <1> QED
    BY <1>1, <1>2, <1>3 DEF IInv

\* Calls other than CircularBufferExtend.
LEMMA IdleStep ==
  ASSUME IInv, Idle, Good(cb'), ~Reserving /\ Repeats(cb) => Repeats(cb'),
         slots' = slots, extending' = extending, call'.n \in -Capacity..Capacity
  PROVE  IInv'
  <1>1. cb' \in Buffers
    BY DEF Good
  <1>2. TypeOK'
    BY <1>1 DEF IInv, TypeOK, Buffers
  <1>3. ExtendInv(cb', extending')
    BY DEF ExtendInv, Idle
  <1> QED
    BY <1>2, <1>3 DEF IInv

LEMMA WindowFacts ==
  /\ Newest = NewestOf(cb) /\ Newest' = NewestOf(cb')
  /\ Available(cb)' = Available(cb')
  BY DEF Newest, NewestOf, Wrap, Available
(* Each call keeps the invariant and is a step of the window. *)

LEMMA ResetStep ==
  ASSUME IInv, CallReset
  PROVE  IInv' /\ Window!Next
  <1>1. Good(cb) /\ Idle
    BY DEF IInv, CallReset
  <1>2. Cleared(cb')
    BY <1>1, ResetCleared DEF CallReset
  <1>3. /\ Good(cb') /\ Repeats(cb') /\ Available(cb') = 0
        /\ NewestOf(cb') = [k \in 1..Capacity |-> 0]
    BY <1>2, ClearedFacts
  <1>4. /\ call' = [op |-> "reset", n |-> 0, out |-> << >>] /\ call'.n = 0
        /\ slots' = slots /\ extending' = extending
    BY DEF CallReset, Called
  <1>5. IInv'
    BY <1>1, <1>3, <1>4, IdleStep, ConstantFacts
  <1>6. Window!Clear
    BY <1>3, <1>4, WindowFacts DEF Window!Clear, Window!Called
  <1> QED
    BY <1>5, <1>6 DEF Window!Next

LEMMA PutStep ==
  ASSUME IInv, Idle, NEW n \in 0..Capacity, NEW vs \in [1..n -> Samples], Good(cb'),
         Available(cb) + n <= Capacity, Available(cb') = Available(cb) + n,
         NewestOf(cb') = Pushed(NewestOf(cb), vs, n),
         ~Reserving /\ Repeats(cb) => Repeats(cb'),
         slots' = slots, extending' = extending, Called("write", n, << >>)
  PROVE  IInv' /\ Window!Next
  <1>1. call' = [op |-> "write", n |-> n, out |-> << >>] /\ call'.n \in -Capacity..Capacity
    BY ConstantFacts DEF Called
  <1>2. IInv'
    BY <1>1, IdleStep
  <1>3. Window!Push(vs, n)
    BY WindowFacts DEF Window!Push, Pushed
  <1>4. Window!Put(vs, n)
    BY <1>1, <1>3 DEF Window!Put, Window!Called
  <1>5. Window!Next
    BY <1>4 DEF Window!Next, Window!Values
  <1> QED
    BY <1>2, <1>5

LEMMA AddStep ==
  ASSUME IInv, NEW v \in Samples, CallAdd(v)
  PROVE  IInv' /\ Window!Next
  <1> DEFINE vs == [i \in 1..1 |-> v]
             one == 1
  <1>1. Good(cb) /\ Idle /\ AddAllowed(cb) /\ cb' = Add(cb, v) /\ slots' = slots
        /\ extending' = extending /\ Called("write", 1, << >>)
    BY DEF IInv, CallAdd
  <1>2. /\ Good(cb') /\ Available(cb) + 1 <= Capacity /\ Available(cb') = Available(cb) + 1
        /\ NewestOf(cb') = Pushed(NewestOf(cb), vs, 1)
        /\ Repeats(cb) => Repeats(cb')
    BY <1>1, AddEffect
  <1>3. one = 1 /\ one \in 0..Capacity /\ vs \in [1..one -> Samples]
    BY ConstantFacts
  <1> HIDE DEF vs, one
  <1> QED
    BY <1>1, <1>2, <1>3, PutStep

LEMMA PushNothing ==
  ASSUME NEW b, Good(b), NEW vs
  PROVE  Pushed(NewestOf(b), vs, 0) = NewestOf(b)
  BY NewestFacts, ConstantFacts DEF Pushed

\* CircularBufferWrite, and CircularBufferWriteZeros.
LEMMA WriteStep ==
  ASSUME IInv, Idle, NEW n \in 0..Capacity, NEW vs \in [1..n -> Samples],
         WriteAllowed(cb, n), cb' = Write(cb, vs),
         slots' = slots, extending' = extending, Called("write", n, << >>)
  PROVE  IInv' /\ Window!Next
  <1>1. Good(cb) /\ Available(cb) \in 0..Capacity /\ CanWrite(cb) = Capacity - Available(cb)
    BY AvailableFacts DEF IInv
  <1>2. vs \in Seq(Samples) /\ n = Len(vs) /\ n \in Nat
    BY ValuesAreSequences
  <1>3. CASE n = 0
    <2>1. cb' = cb
      BY <1>2, <1>3 DEF Write
    <2>2. NewestOf(cb') = Pushed(NewestOf(cb), vs, n)
      BY <1>1, <1>3, <2>1, PushNothing
    <2>3. Available(cb) + n <= Capacity /\ Available(cb') = Available(cb) + n
      BY <1>1, <1>3, <2>1
    <2> QED
      BY <1>1, <2>1, <2>2, <2>3, PutStep
  <1>4. CASE n >= 1
    <2>1. n <= CanWrite(cb)
      BY <1>4 DEF WriteAllowed
    <2>2. /\ Good(cb') /\ Available(cb') = Available(cb) + n
          /\ NewestOf(cb') = Pushed(NewestOf(cb), vs, n)
          /\ Repeats(cb) => Repeats(cb')
      BY <1>1, <1>2, <1>4, <2>1, WriteEffect
    <2>3. Available(cb) + n <= Capacity
      BY <1>1, <2>1, ConstantFacts
    <2> QED
      BY <2>2, <2>3, PutStep
  <1> QED
    BY <1>3, <1>4

LEMMA SameAvailable ==
  ASSUME NEW b, Good(b), NEW m, Good(m), m.read = b.read, m.write = b.write,
         m.empty <=> b.empty
  PROVE  Available(m) = Available(b)
  <1>1. /\ b.write > b.read => Available(b) = b.write - b.read
        /\ b.write < b.read => Available(b) = Capacity + b.write - b.read
        /\ b.write = b.read => Available(b) = IF b.empty THEN 0 ELSE Capacity
    BY AvailableFacts
  <1>2. /\ m.write > m.read => Available(m) = m.write - m.read
        /\ m.write < m.read => Available(m) = Capacity + m.write - m.read
        /\ m.write = m.read => Available(m) = IF m.empty THEN 0 ELSE Capacity
    BY AvailableFacts
  <1> QED
    BY <1>1, <1>2, GoodFacts

LEMMA ReserveStep ==
  ASSUME IInv, Misuses = {}, NEW n \in 0..Capacity, NEW vs \in [1..n -> Samples],
         CallReserve(vs)
  PROVE  IInv' /\ Window!Next
  <1>1. /\ Good(cb) /\ Available(cb) \in 0..Capacity
        /\ CanWrite(cb) = Capacity - Available(cb)
        /\ cb.write \in 0..(Capacity - 1) /\ cb.capacity = Capacity
        /\ cb.buffer \in [0..(2 * Capacity - 1) -> Samples]
    BY AvailableFacts, GoodFacts DEF IInv
  <1>2. vs \in Seq(Samples) /\ n = Len(vs) /\ n \in Nat
    BY ValuesAreSequences
  <1>3. /\ Idle /\ Reserving /\ cb' = ReserveForWrite(cb, vs)
        /\ slots' = slots /\ extending' = extending /\ Called("write", n, << >>)
        /\ n <= CanWrite(cb) /\ cb.write + n <= Capacity
    BY <1>1, <1>2 DEF CallReserve, ReserveAllowed
  <1>4. Available(cb) + n <= Capacity
    BY <1>1, <1>3, ConstantFacts
  <1>5. CASE n = 0
    <2>1. vs = << >>
      BY <1>2, <1>5, EmptySeq
    <2>2. CopyIn(cb.buffer, cb.write, vs, 0, Len(vs)) = cb.buffer
      BY <1>1, <1>2, <1>5, ConstantFacts, SMTT(60) DEF CopyIn
    <2>3. (IF cb.write + Len(vs) = cb.capacity THEN 0 ELSE cb.write + Len(vs)) = cb.write
      BY <1>1, <1>2, <1>5, ConstantFacts
    <2>4. Good(cb') /\ cb'.buffer = cb.buffer /\ cb'.write = cb.write /\ cb'.read = cb.read
          /\ (cb'.empty <=> cb.empty)
      BY <1>1, <1>3, <2>1, <2>2, <2>3 DEF ReserveForWrite, Good, Buffers
    <2>5. NewestOf(cb') = NewestOf(cb) /\ Available(cb') = Available(cb)
      <3>1. NewestOf(cb') = NewestOf(cb)
        BY <1>1, <2>4, MoveRead
      <3>2. Available(cb') = Available(cb)
        BY <1>1, <2>4, SameAvailable
      <3> QED
        BY <3>1, <3>2
    <2>6. NewestOf(cb') = Pushed(NewestOf(cb), vs, n) /\ Available(cb') = Available(cb) + n
      BY <1>1, <1>5, <2>5, PushNothing
    <2> QED
      BY <1>3, <1>4, <2>4, <2>6, PutStep
  <1>6. CASE n >= 1
    <2>1. /\ Good(cb') /\ Available(cb') = Available(cb) + n
          /\ NewestOf(cb') = Pushed(NewestOf(cb), vs, n)
      BY <1>1, <1>2, <1>3, <1>6, ReserveEffect
    <2> QED
      BY <1>3, <1>4, <2>1, PutStep
  <1> QED
    BY <1>5, <1>6
LEMMA LookStep ==
  ASSUME IInv, Idle, NEW index \in 0..Capacity, NEW n \in 0..Capacity,
         index + n <= Available(cb), cb' = cb, slots' = slots, extending' = extending,
         NEW out, out = Out(cb, index, n), Called("look", index, out)
  PROVE  IInv' /\ Window!Next
  <1>1. call' = [op |-> "look", n |-> index, out |-> out]
        /\ call'.n \in -Capacity..Capacity
    BY ConstantFacts DEF Called
  <1>2. IInv'
    BY <1>1, IdleStep DEF IInv
  <1>3. out = [i \in 1..n |-> Window!Unread(index + i - 1)]
    BY WindowFacts DEF Out, Window!Unread
  <1>4. Window!Look(index, n)
    BY <1>1, <1>3, WindowFacts DEF Window!Look, Window!Called
  <1> QED
    BY <1>2, <1>4 DEF Window!Next

LEMMA TargetFacts ==
  ASSUME NEW b, Good(b), NEW index \in 0..Capacity
  PROVE  /\ Target(b, index) \in 0..(Capacity - 1)
         /\ Target(b, index) = IF b.read + index >= Capacity
                               THEN b.read + index - Capacity ELSE b.read + index
         /\ Advanced(b.read, index, Target(b, index))
  BY GoodFacts, ConstantFacts DEF Target, Wrap, Advanced

LEMMA PeekStep ==
  ASSUME IInv, NEW index \in 0..Capacity, CallPeek(index)
  PROVE  IInv' /\ Window!Next
  <1> DEFINE out == [i \in 1..1 |-> cb.buffer[Target(cb, index)]]
             one == 1
  <1>1. /\ Good(cb) /\ Idle /\ index < Available(cb) /\ Available(cb) \in 0..Capacity
        /\ cb' = cb /\ slots' = slots /\ extending' = extending
        /\ Called("look", index, out)
    BY AvailableFacts DEF IInv, CallPeek, PeekAllowed
  <1>2. cb.buffer[Target(cb, index)] = NewestOf(cb)[Capacity - Available(cb) + index + 1]
    <2>1. index \in 0..(Available(cb) - 1)
      BY <1>1
    <2> QED
      BY <1>1, <2>1, TargetFacts, UnreadAt
  <1>3. out = Out(cb, index, 1)
    <2>1. \A i \in 1..1 : index + i - 1 = index
      OBVIOUS
    <2> QED
      BY <1>2, <2>1 DEF Out
  <1>4. one = 1 /\ one \in 0..Capacity /\ index + one <= Available(cb)
    BY <1>1, ConstantFacts
  <1> HIDE DEF out, one
  <1> QED
    BY <1>1, <1>3, <1>4, LookStep

LEMMA PeekDirectStep ==
  ASSUME IInv, NEW index \in 0..Capacity, NEW n \in 0..Capacity, CallPeekDirect(index, n)
  PROVE  IInv' /\ Window!Next
  <1> DEFINE at == Target(cb, index)
             out == Slice(cb, at, n)
  <1>1. /\ Good(cb) /\ Idle /\ index + n <= Available(cb)
        /\ cb' = cb /\ slots' = slots /\ extending' = extending
        /\ Called("look", index, out)
        /\ Repeats(cb) \/ at + n <= Capacity
    BY DEF IInv, CallPeekDirect
  <1>2. /\ at \in 0..(Capacity - 1) /\ index \in Nat /\ n \in Nat
        /\ at = IF cb.read + index >= Capacity THEN cb.read + index - Capacity
                ELSE cb.read + index
    BY <1>1, TargetFacts
  <1> HIDE DEF at
  <1>3. out = Out(cb, index, n)
    BY <1>1, <1>2, SliceIsOut
  <1> HIDE DEF out
  <1> QED
    BY <1>1, <1>3, LookStep

LEMMA PeekMaxStep ==
  ASSUME IInv, CallPeekMax
  PROVE  IInv' /\ Window!Next
  <1> DEFINE zero == 0
             n == PeekMax(cb)
             at == cb.read
             out == Slice(cb, at, n)
  <1>1. /\ Good(cb) /\ Idle
        /\ cb' = cb /\ slots' = slots /\ extending' = extending
        /\ Called("look", zero, out)
    BY DEF IInv, CallPeekMax
  <1>2. /\ at \in 0..(Capacity - 1) /\ n \in 0..Available(cb) /\ Available(cb) \in 0..Capacity
        /\ at + n <= Capacity
    <2>1. /\ cb.read \in 0..(Capacity - 1) /\ cb.write \in 0..(Capacity - 1)
          /\ cb.capacity = Capacity /\ Available(cb) \in 0..Capacity
          /\ cb.write > cb.read => Available(cb) = cb.write - cb.read
          /\ cb.write < cb.read => Available(cb) = Capacity + cb.write - cb.read
          /\ cb.write = cb.read => Available(cb) = 0 \/ Available(cb) = Capacity
      BY <1>1, GoodFacts, AvailableFacts
    <2> QED
      BY <2>1, ConstantFacts DEF PeekMax
  <1>3. /\ zero \in Nat /\ zero \in 0..Capacity /\ n \in Nat /\ n \in 0..Capacity
        /\ zero + n <= Available(cb)
        /\ at = IF cb.read + zero >= Capacity THEN cb.read + zero - Capacity
                ELSE cb.read + zero
    BY <1>2, ConstantFacts
  <1> HIDE DEF zero, n, at
  <1>4. out = Out(cb, zero, n)
    BY <1>1, <1>2, <1>3, SliceIsOut
  <1> HIDE DEF out
  <1> QED
    BY <1>1, <1>3, <1>4, LookStep

LEMMA GetStep ==
  ASSUME IInv, NEW n \in 0..Capacity, CallGet(n)
  PROVE  IInv' /\ Window!Next
  <1> DEFINE zero == 0
             out == Get(cb, n)
  <1>1. /\ Good(cb) /\ Idle /\ n <= Available(cb) /\ Available(cb) \in 0..Capacity
        /\ cb' = cb /\ slots' = slots /\ extending' = extending
        /\ Called("look", zero, out)
    BY AvailableFacts DEF IInv, CallGet, GetAllowed
  <1>2. out = Out(cb, zero, n)
    BY <1>1, GetIsOut
  <1>3. zero \in 0..Capacity /\ zero + n <= Available(cb)
    BY <1>1, ConstantFacts
  <1> HIDE DEF zero, out
  <1> QED
    BY <1>1, <1>2, <1>3, LookStep
\* The values to be read after n have been read, after n have been taken back,
\* and after a shift.
LEMMA ReadArithmetic ==
  ASSUME NEW r, NEW w, NEW a, NEW n, NEW to, NEW c, Distance(r, w, a),
         Advanced(r, n, to), n >= 1, n <= a, Distance(to, w, c), to = w => c = 0
  PROVE  c = a - n
  BY ConstantFacts DEF Advanced, Distance

LEMMA RewindArithmetic ==
  ASSUME NEW r, NEW w, NEW a, NEW n, NEW to, NEW c, Distance(r, w, a),
         Advanced(to, n, r), n >= 1, a + n <= Capacity, Distance(to, w, c),
         to = w => c = Capacity
  PROVE  c = a + n
  BY ConstantFacts DEF Advanced, Distance

LEMMA ShiftArithmetic ==
  ASSUME NEW r, NEW w, NEW a, NEW n, NEW to, NEW c, Distance(r, w, a), a > 0,
         n \in -Capacity..Capacity,
         n >= 0 => Advanced(r, n, to), n < 0 => Advanced(to, -n, r),
         Distance(to, w, c), c > 0
  PROVE  \/ c = a - n \/ c = a - n + Capacity \/ c = a - n + (-Capacity)
  BY ConstantFacts DEF Advanced, Distance

\* A buffer whose read position has moved, and perhaps its flag.
Moved(b, m, read, empty) ==
  /\ m \in Buffers
  /\ m.read = read /\ m.write = b.write /\ m.buffer = b.buffer /\ (m.empty <=> empty)

LEMMA MovedFacts ==
  ASSUME IInv, NEW read \in 0..(Capacity - 1), NEW empty \in BOOLEAN,
         Moved(cb, cb', read, empty), empty => read = cb.write
  PROVE  /\ Good(cb')
         /\ Repeats(cb) => Repeats(cb')
         /\ Newest' = Newest
         /\ Available(cb') \in 0..Capacity
         /\ Distance(read, cb.write, Available(cb'))
         /\ empty <=> Available(cb') = 0
         /\ ~empty /\ read = cb.write => Available(cb') = Capacity
  <1>1. Good(cb) /\ Good(cb')
    BY DEF IInv, Moved, Good
  <1>2. cb'.read = read /\ cb'.write = cb.write /\ cb'.buffer = cb.buffer /\ (cb'.empty <=> empty)
    BY DEF Moved
  <1>3. NewestOf(cb') = NewestOf(cb) /\ (Repeats(cb) => Repeats(cb'))
    BY <1>1, <1>2, MoveRead
  <1>4. Distance(cb'.read, cb'.write, Available(cb'))
    BY <1>1, AvailableDistance
  <1>5. /\ Available(cb') \in 0..Capacity /\ (cb'.empty <=> Available(cb') = 0)
        /\ cb'.write = cb'.read => Available(cb') = IF cb'.empty THEN 0 ELSE Capacity
    BY <1>1, AvailableFacts
  <1> QED
    BY <1>1, <1>2, <1>3, <1>4, <1>5, WindowFacts

LEMMA RemoveMoves ==
  ASSUME NEW b, Good(b)
  PROVE  LET read == IF b.read + 1 = b.capacity THEN 0 ELSE b.read + 1
         IN /\ Moved(b, Remove(b), read, read = b.write \/ b.empty)
            /\ read \in 0..(Capacity - 1)
            /\ Advanced(b.read, 1, read)
  <1> DEFINE read == IF b.read + 1 = b.capacity THEN 0 ELSE b.read + 1
  <1>1. b \in Buffers /\ read \in 0..(Capacity - 1) /\ Advanced(b.read, 1, read)
    BY GoodFacts, ConstantFacts DEF Good, Advanced
  <1>2. Remove(b) = [b EXCEPT !.read = read, !.empty = IF read = b.write THEN TRUE ELSE b.empty]
    BY DEF Remove
  <1> HIDE DEF read
  <1>3. Moved(b, Remove(b), read, read = b.write \/ b.empty)
    BY <1>1, <1>2 DEF Moved, Buffers
  <1> QED
    BY <1>1, <1>3 DEF read

LEMMA DiscardMoves ==
  ASSUME NEW b, Good(b), NEW n \in 1..Capacity
  PROVE  LET read == Wrap(b, b.read + n)
         IN /\ Moved(b, Discard(b, n), read, read = b.write \/ b.empty)
            /\ read \in 0..(Capacity - 1)
            /\ Advanced(b.read, n, read)
  <1> DEFINE read == Wrap(b, b.read + n)
  <1>1. b \in Buffers /\ read \in 0..(Capacity - 1) /\ Advanced(b.read, n, read)
    BY GoodFacts, ConstantFacts DEF Good, Advanced, Wrap
  <1>2. Discard(b, n) = [b EXCEPT !.read = read, !.empty = IF read = b.write THEN TRUE ELSE b.empty]
    BY DEF Discard
  <1> HIDE DEF read
  <1>3. Moved(b, Discard(b, n), read, read = b.write \/ b.empty)
    BY <1>1, <1>2 DEF Moved, Buffers
  <1> QED
    BY <1>1, <1>3 DEF read

LEMMA RewindMoves ==
  ASSUME NEW b, Good(b), NEW n \in 0..Capacity
  PROVE  LET read == IF n > b.read THEN b.read + b.capacity - n ELSE b.read - n
         IN /\ Moved(b, Rewind(b, n), read, n = 0 /\ b.empty)
            /\ read \in 0..(Capacity - 1)
            /\ Advanced(read, n, b.read)
  <1> DEFINE read == IF n > b.read THEN b.read + b.capacity - n ELSE b.read - n
  <1>1. b \in Buffers /\ read \in 0..(Capacity - 1) /\ Advanced(read, n, b.read)
    BY GoodFacts, ConstantFacts DEF Good, Advanced
  <1> HIDE DEF read
  <1>2. CASE n > 0
    <2>1. Rewind(b, n) = [b EXCEPT !.read = read, !.empty = FALSE]
      BY <1>2 DEF Rewind, read
    <2>2. /\ Rewind(b, n) \in Buffers /\ Rewind(b, n).read = read
          /\ Rewind(b, n).write = b.write /\ Rewind(b, n).buffer = b.buffer
          /\ ~Rewind(b, n).empty
      BY <1>1, <2>1 DEF Buffers
    <2>3. Moved(b, Rewind(b, n), read, n = 0 /\ b.empty)
      BY <1>2, <2>2 DEF Moved
    <2> QED
      BY <1>1, <2>3 DEF read
  <1>3. CASE n = 0
    <2>1. Rewind(b, n) = [b EXCEPT !.read = read, !.empty = b.empty]
      <3>1. ~(n > 0)
        BY <1>3
      <3> QED
        BY <3>1 DEF Rewind, read
    <2>2. /\ Rewind(b, n) \in Buffers /\ Rewind(b, n).read = read
          /\ Rewind(b, n).write = b.write /\ Rewind(b, n).buffer = b.buffer
          /\ (Rewind(b, n).empty <=> b.empty)
      BY <1>1, <2>1 DEF Buffers
    <2>3. Moved(b, Rewind(b, n), read, n = 0 /\ b.empty)
      BY <1>3, <2>2 DEF Moved
    <2> QED
      BY <1>1, <2>3 DEF read
  <1> QED
    BY <1>2, <1>3

LEMMA ShiftMoves ==
  ASSUME NEW b, Good(b), NEW n \in -Capacity..Capacity
  PROVE  LET read == IF n < 0 THEN (IF b.read < -n THEN b.read + b.capacity ELSE b.read) + n
                     ELSE Wrap(b, b.read + n)
         IN /\ Moved(b, Shift(b, n), read, b.empty)
            /\ read \in 0..(Capacity - 1)
            /\ n >= 0 => Advanced(b.read, n, read)
            /\ n < 0 => Advanced(read, -n, b.read)
  <1> DEFINE read == IF n < 0 THEN (IF b.read < -n THEN b.read + b.capacity ELSE b.read) + n
                     ELSE Wrap(b, b.read + n)
  <1>0. b \in Buffers /\ b.read \in 0..(Capacity - 1) /\ b.capacity = Capacity
    BY GoodFacts DEF Good
  <1>1. read \in 0..(Capacity - 1)
    BY <1>0, ConstantFacts DEF Wrap
  <1>2. n >= 0 => Advanced(b.read, n, read)
    BY <1>0, ConstantFacts DEF Wrap, Advanced
  <1>3. n < 0 => Advanced(read, -n, b.read)
    BY <1>0, <1>1, ConstantFacts DEF Advanced
  <1>4. Shift(b, n) = [b EXCEPT !.read = read]
    BY DEF Shift
  <1> HIDE DEF read
  <1>5. Moved(b, Shift(b, n), read, b.empty)
    BY <1>0, <1>1, <1>4 DEF Moved, Buffers
  <1> QED
    BY <1>1, <1>2, <1>3, <1>5 DEF read
\* Calls that move the read position.
LEMMA MoveStep ==
  ASSUME IInv, Idle, NEW read \in 0..(Capacity - 1), NEW empty \in BOOLEAN,
         Moved(cb, cb', read, empty), empty => read = cb.write,
         slots' = slots, extending' = extending, call'.n \in -Capacity..Capacity
  PROVE  IInv'
  BY MovedFacts, IdleStep

LEMMA RemoveStep ==
  ASSUME IInv, CallRemove
  PROVE  IInv' /\ Window!Next
  <1>1. /\ Good(cb) /\ Idle /\ cb' = Remove(cb) /\ ~cb.empty /\ cb.empty \in BOOLEAN
        /\ slots' = slots /\ extending' = extending
        /\ call' = [op |-> "remove", n |-> 1, out |-> [i \in 1..1 |-> cb.buffer[cb.read]]]
    BY GoodFacts DEF IInv, CallRemove, RemoveAllowed, Called, Removed
  <1>2. PICK read : /\ Moved(cb, cb', read, read = cb.write \/ cb.empty)
                    /\ read \in 0..(Capacity - 1)
                    /\ Advanced(cb.read, 1, read)
    BY <1>1, RemoveMoves
  <1> DEFINE empty == read = cb.write
             one == 1
  <1>3. /\ empty \in BOOLEAN /\ Moved(cb, cb', read, empty) /\ (empty => read = cb.write)
        /\ one = 1 /\ one >= 1 /\ Advanced(cb.read, one, read)
    BY <1>1, <1>2 DEF Moved
  <1>4. call'.n \in -Capacity..Capacity
    BY <1>1, ConstantFacts
  <1>5. IInv'
    BY <1>1, <1>2, <1>3, <1>4, MoveStep
  <1>6. /\ Distance(cb.read, cb.write, Available(cb)) /\ Available(cb) > 0
        /\ Available(cb) \in 0..Capacity /\ cb.read \in 0..(Capacity - 1)
    BY <1>1, AvailableDistance, AvailableFacts, GoodFacts
  <1>7. /\ Newest' = Newest /\ Distance(read, cb.write, Available(cb'))
        /\ empty <=> Available(cb') = 0
    BY <1>2, <1>3, MovedFacts
  <1>8. Available(cb') = Available(cb) - 1
    <2>1. one <= Available(cb) /\ (read = cb.write => Available(cb') = 0)
      BY <1>3, <1>6, <1>7
    <2> HIDE DEF one
    <2>2. Available(cb') = Available(cb) - one
      BY <1>3, <1>6, <1>7, <2>1, ReadArithmetic
    <2> QED
      BY <1>3, <2>2
  <1>9. cb.buffer[cb.read] = Window!Unread(0)
    <2> DEFINE zero == 0
    <2>1. zero = 0 /\ zero \in 0..(Available(cb) - 1) /\ Advanced(cb.read, zero, cb.read)
      BY <1>6, ConstantFacts DEF Advanced
    <2> HIDE DEF zero
    <2>2. cb.buffer[cb.read] = NewestOf(cb)[Capacity - Available(cb) + zero + 1]
      BY <1>1, <2>1, UnreadAt
    <2> QED
      BY <2>1, <2>2, WindowFacts DEF Window!Unread
  <1>10. Window!Take
    BY <1>1, <1>6, <1>7, <1>8, <1>9, WindowFacts DEF Window!Take, Window!Called
  <1> QED
    BY <1>5, <1>10 DEF Window!Next

LEMMA DiscardStep ==
  ASSUME IInv, NEW n \in 0..Capacity, CallDiscard(n)
  PROVE  IInv' /\ Window!Next
  <1>1. /\ Good(cb) /\ Idle /\ cb' = Discard(cb, n)
        /\ slots' = slots /\ extending' = extending
        /\ call' = [op |-> "discard", n |-> n, out |-> << >>]
        /\ n > 0 /\ n <= Available(cb)
    BY DEF IInv, CallDiscard, DiscardAllowed, Called
  <1>2. /\ Distance(cb.read, cb.write, Available(cb))
        /\ Available(cb) \in 0..Capacity /\ n \in 1..Capacity /\ n >= 1 /\ ~cb.empty
    BY <1>1, AvailableDistance, AvailableFacts
  <1>3. PICK read : /\ Moved(cb, cb', read, read = cb.write \/ cb.empty)
                    /\ read \in 0..(Capacity - 1)
                    /\ Advanced(cb.read, n, read)
    BY <1>1, <1>2, DiscardMoves
  <1> DEFINE empty == read = cb.write
  <1>4. empty \in BOOLEAN /\ Moved(cb, cb', read, empty) /\ (empty => read = cb.write)
    BY <1>2, <1>3 DEF Moved
  <1>5. call'.n \in -Capacity..Capacity
    BY <1>1, ConstantFacts
  <1>6. IInv'
    BY <1>1, <1>3, <1>4, <1>5, MoveStep
  <1>7. /\ Newest' = Newest /\ Distance(read, cb.write, Available(cb'))
        /\ empty <=> Available(cb') = 0
    BY <1>3, <1>4, MovedFacts
  <1>8. Available(cb') = Available(cb) - n
    BY <1>1, <1>2, <1>3, <1>7, ReadArithmetic
  <1>9. n \in 1..Available(cb)
    BY <1>1, <1>2
  <1>10. Window!Drop(n)
    BY <1>1, <1>7, <1>8, <1>9, WindowFacts DEF Window!Drop, Window!Called
  <1> QED
    BY <1>6, <1>10 DEF Window!Next

LEMMA RewindStep ==
  ASSUME IInv, NEW n \in 0..Capacity, CallRewind(n)
  PROVE  IInv' /\ Window!Next
  <1>1. /\ Good(cb) /\ Idle /\ cb' = Rewind(cb, n) /\ cb.empty \in BOOLEAN
        /\ slots' = slots /\ extending' = extending
        /\ call' = [op |-> "rewind", n |-> n, out |-> << >>]
        /\ n <= CanWrite(cb)
    BY GoodFacts DEF IInv, CallRewind, RewindAllowed, Called
  <1>2. /\ Distance(cb.read, cb.write, Available(cb)) /\ (cb.empty => cb.read = cb.write)
        /\ Available(cb) \in 0..Capacity /\ CanWrite(cb) = Capacity - Available(cb)
        /\ cb.empty <=> Available(cb) = 0
    BY <1>1, AvailableDistance, AvailableFacts, GoodFacts
  <1>3. PICK read : /\ Moved(cb, cb', read, n = 0 /\ cb.empty)
                    /\ read \in 0..(Capacity - 1)
                    /\ Advanced(read, n, cb.read)
    BY <1>1, RewindMoves
  <1> DEFINE empty == n = 0 /\ cb.empty
  <1>4. empty \in BOOLEAN /\ Moved(cb, cb', read, empty) /\ (n = 0 => read = cb.read)
        /\ (empty => read = cb.write)
    <2>1. n = 0 => read = cb.read
      BY <1>3, ConstantFacts DEF Advanced
    <2> QED
      BY <1>2, <1>3, <2>1
  <1>5. call'.n \in -Capacity..Capacity
    BY <1>1, ConstantFacts
  <1>6. IInv'
    BY <1>1, <1>3, <1>4, <1>5, MoveStep
  <1>7. /\ Newest' = Newest /\ Distance(read, cb.write, Available(cb'))
        /\ empty <=> Available(cb') = 0
        /\ ~empty /\ read = cb.write => Available(cb') = Capacity
    BY <1>3, <1>4, MovedFacts
  <1>8. Available(cb') = Available(cb) + n
    <2>1. CASE n = 0
      <3>1. (cb'.empty <=> cb.empty) /\ cb'.read = cb.read /\ cb'.write = cb.write /\ Good(cb')
        BY <1>4, <1>6, <2>1 DEF Moved, IInv
      <3> QED
        BY <1>1, <1>2, <2>1, <3>1, SameAvailable
    <2>2. CASE n >= 1
      <3>1. Available(cb) + n <= Capacity /\ ~empty
        BY <1>1, <1>2, <2>2, ConstantFacts
      <3> QED
        BY <1>2, <1>3, <1>7, <2>2, <3>1, RewindArithmetic
    <2> QED
      BY <2>1, <2>2
  <1>9. n \in 0..(Capacity - Available(cb))
    BY <1>1, <1>2, ConstantFacts
  <1>10. Window!Restore(n)
    BY <1>1, <1>7, <1>8, <1>9, WindowFacts DEF Window!Restore, Window!Called
  <1> QED
    BY <1>6, <1>10 DEF Window!Next

LEMMA ShiftStep ==
  ASSUME IInv, Misuses = {}, NEW n \in -Capacity..Capacity, CallShift(n)
  PROVE  IInv' /\ Window!Next
  <1>1. /\ Good(cb) /\ Idle /\ cb' = Shift(cb, n) /\ Available(cb) > 0
        /\ slots' = slots /\ extending' = extending
        /\ call' = [op |-> "shift", n |-> n, out |-> << >>]
    BY DEF IInv, CallShift, Called
  <1>2. /\ Distance(cb.read, cb.write, Available(cb)) /\ ~cb.empty /\ cb.empty \in BOOLEAN
        /\ Available(cb) \in 0..Capacity
    BY <1>1, AvailableDistance, AvailableFacts, GoodFacts
  <1>3. PICK read : /\ Moved(cb, cb', read, cb.empty)
                    /\ read \in 0..(Capacity - 1)
                    /\ n >= 0 => Advanced(cb.read, n, read)
                    /\ n < 0 => Advanced(read, -n, cb.read)
    BY <1>1, ShiftMoves
  <1>4. call'.n \in -Capacity..Capacity
    BY <1>1, ConstantFacts
  <1>5. IInv'
    BY <1>1, <1>2, <1>3, <1>4, MoveStep
  <1>6. /\ Newest' = Newest /\ Distance(read, cb.write, Available(cb'))
        /\ Available(cb') \in 0..Capacity /\ ~(Available(cb') = 0)
    BY <1>2, <1>3, MovedFacts
  <1>7. Available(cb') > 0
    BY <1>6
  <1>8. \/ Available(cb') = Available(cb) - n
        \/ Available(cb') = Available(cb) - n + Capacity
        \/ Available(cb') = Available(cb) - n + (-Capacity)
    BY <1>1, <1>2, <1>3, <1>6, <1>7, ShiftArithmetic
  <1>9. /\ \E turn \in {-Capacity, 0, Capacity} : Available(cb') = Available(cb) - n + turn
        /\ Available(cb') \in 1..Capacity
    <2>1. Available(cb) - n = Available(cb) - n + 0
      BY <1>2, ConstantFacts
    <2> QED
      BY <1>6, <1>7, <1>8, <2>1
  <1>10. Window!ShiftBy(n)
    BY <1>1, <1>6, <1>9, WindowFacts DEF Window!ShiftBy, Window!Called
  <1> QED
    BY <1>5, <1>10 DEF Window!Next
\* CircularBufferExtend up to its loop: its source is what was written last, and
\* is still to be read.
LEMMA ExtendStartArithmetic ==
  ASSUME NEW r, NEW w, NEW a, Distance(r, w, a), NEW count \in 1..Capacity, count <= a,
         NEW start, start = IF count > w THEN w + Capacity - count ELSE w - count
  PROVE  /\ start \in 0..(Capacity - 1)
         /\ a - count \in Nat /\ Advanced(r, a - count, start)
         /\ \A i \in 1..count :
              Advanced(w, (Capacity - count + i) - 1,
                       IF start + i - 1 >= Capacity THEN start + i - 1 - Capacity
                       ELSE start + i - 1)
  BY ConstantFacts DEF Advanced, Distance

LEMMA ExtendStep ==
  ASSUME IInv, NEW count \in 1..Capacity, NEW n \in 1..Capacity, CallExtend(count, n)
  PROVE  IInv' /\ UNCHANGED <<Newest, Available(cb), call>>
  <1> DEFINE start == ExtendStart(cb, count)
  <1>1. /\ Good(cb) /\ cb' = cb /\ slots' = slots /\ call' = call
        /\ extending' = [left |-> n, start |-> start, count |-> count]
        /\ count * n <= CanWrite(cb) /\ count <= Available(cb)
    BY DEF IInv, CallExtend, ExtendAllowed
  <1>2. /\ Distance(cb.read, cb.write, Available(cb)) /\ Available(cb) \in 0..Capacity
        /\ start = IF count > cb.write THEN cb.write + Capacity - count
                   ELSE cb.write - count
    BY <1>1, AvailableDistance, AvailableFacts, GoodFacts DEF ExtendStart
  <1> HIDE DEF start
  <1>3. /\ start \in 0..(Capacity - 1)
        /\ Available(cb) - count \in Nat
        /\ Advanced(cb.read, Available(cb) - count, start)
        /\ \A i \in 1..count :
             Advanced(cb.write, (Capacity - count + i) - 1,
                      IF start + i - 1 >= Capacity THEN start + i - 1 - Capacity
                      ELSE start + i - 1)
    BY <1>1, <1>2, ExtendStartArithmetic
  <1>4. SourceHeld(cb, extending')
    <2>1. Available(cb) - count \in 0..(Available(cb) - count)
      BY <1>3
    <2> QED
      BY <1>1, <1>3, <2>1 DEF SourceHeld
  <1>5. \A i \in 1..count :
          Source(cb, start, count)[i] = NewestOf(cb)[Capacity - count + i]
    <2> SUFFICES ASSUME NEW i \in 1..count
                 PROVE  Source(cb, start, count)[i] = NewestOf(cb)[Capacity - count + i]
      OBVIOUS
    <2> DEFINE slot == IF start + i - 1 >= Capacity THEN start + i - 1 - Capacity
                       ELSE start + i - 1
               k == Capacity - count + i
    <2>1. Advanced(cb.write, k - 1, slot) /\ k \in 1..Capacity
      <3>1. Advanced(cb.write, (Capacity - count + i) - 1,
                     IF start + i - 1 >= Capacity THEN start + i - 1 - Capacity
                     ELSE start + i - 1)
        BY <1>3
      <3>2. k \in 1..Capacity
        BY ConstantFacts
      <3> QED
        BY <3>1, <3>2
    <2>2. Source(cb, start, count)[i] = cb.buffer[slot]
      BY DEF Source
    <2> HIDE DEF slot, k
    <2>3. NewestOf(cb)[k] = cb.buffer[slot]
      BY <1>1, <2>1, NewestAt
    <2> QED
      BY <2>2, <2>3 DEF k
  <1>6. SourceNewest(cb, extending')
    BY <1>1, <1>5 DEF SourceNewest
  <1>7. ExtendInv(cb', extending')
    BY <1>1, <1>3, <1>4, <1>6 DEF ExtendInv
  <1>8. TypeOK'
    BY <1>1, <1>3, ConstantFacts DEF IInv, TypeOK
  <1>9. IInv'
    BY <1>1, <1>7, <1>8 DEF IInv
  <1>10. UNCHANGED <<Newest, Available(cb), call>>
    BY <1>1, WindowFacts
  <1> QED
    BY <1>9, <1>10

LEMMA LeftArithmetic ==
  ASSUME NEW count \in Nat, NEW left \in Nat, left # 0
  PROVE  count * left >= count /\ count * (left - 1) = count * left - count
  <1>1. count * (left - 1) = count * left - count
    OBVIOUS
  <1>2. count * (left - 1) >= 0
    OBVIOUS
  <1>3. count * left \in Int /\ count * (left - 1) \in Int
    OBVIOUS
  <1> QED
    BY <1>1, <1>2, <1>3

LEMMA TurnStep ==
  ASSUME IInv, ExtendTurn
  PROVE  IInv' /\ Window!Next
  <1> DEFINE start == extending.start
             count == extending.count
             left == extending.left
  <1>1. /\ Good(cb) /\ left # 0 /\ slots' = slots
        /\ cb' = ExtendOnce(cb, start, count)
        /\ extending' = [extending EXCEPT !.left = left - 1]
        /\ call' = [op |-> "extend", n |-> count, out |-> << >>]
    BY DEF IInv, ExtendTurn, Idle, Called
  <1>2. /\ extending \in [left : 0..Capacity, start : 0..Capacity, count : 0..Capacity]
        /\ left \in 0..Capacity
        /\ count \in 1..Capacity /\ start \in 0..(Capacity - 1)
        /\ count * left <= CanWrite(cb)
        /\ \A i \in 1..count :
             Source(cb, start, count)[i] = NewestOf(cb)[Capacity - count + i]
    BY <1>1 DEF IInv, TypeOK, ExtendInv, SourceNewest
  <1>3. PICK o \in 0..(Available(cb) - count) : Advanced(cb.read, o, start)
    BY <1>1 DEF IInv, ExtendInv, SourceHeld
  <1>4. /\ extending'.left = left - 1 /\ extending'.start = start
        /\ extending'.count = count
        /\ left - 1 \in 0..Capacity
        /\ extending' \in [left : 0..Capacity, start : 0..Capacity, count : 0..Capacity]
    BY <1>1, <1>2, ConstantFacts
  <1>5. /\ count * left >= count /\ count * (left - 1) = count * left - count
        /\ count * left \in Int /\ count * (left - 1) \in Int
    <2>1. count \in Nat /\ left \in Nat
      BY <1>2, ConstantFacts
    <2> HIDE DEF count, left
    <2> QED
      BY <1>1, <2>1, LeftArithmetic
  <1> HIDE DEF start, count, left
  <1>6. /\ Available(cb) \in 0..Capacity /\ CanWrite(cb) = Capacity - Available(cb)
        /\ count <= CanWrite(cb) /\ count <= Available(cb)
        /\ Available(cb) + count <= Capacity
    <2>1. Available(cb) \in 0..Capacity /\ CanWrite(cb) = Capacity - Available(cb)
      BY <1>1, AvailableFacts
    <2> QED
      BY <1>2, <1>3, <1>5, <2>1, ConstantFacts
  <1>7. /\ Good(cb') /\ cb'.read = cb.read
        /\ Available(cb') = Available(cb) + count
        /\ NewestOf(cb') = Pushed(NewestOf(cb), Source(cb, start, count), count)
        /\ Repeats(cb) => Repeats(cb')
    BY <1>1, <1>2, <1>3, <1>6, ExtendOnceEffect
  <1>8. SourceHeld(cb', extending')
    <2>1. o \in 0..(Available(cb') - count)
      BY <1>2, <1>3, <1>6, <1>7, ConstantFacts
    <2> QED
      BY <1>3, <1>4, <1>7, <2>1 DEF SourceHeld
  <1>9. ASSUME NEW i \in 1..count
        PROVE  Source(cb', start, count)[i] = NewestOf(cb')[Capacity - count + i]
    <2> DEFINE slot == IF start + i - 1 >= Capacity THEN start + i - 1 - Capacity
                       ELSE start + i - 1
               j == o + i - 1
               k == Capacity - count + i
    <2>1. Advanced(cb.read, j, slot) /\ j \in 0..(Available(cb) - 1)
      BY <1>2, <1>3, <1>6, ConstantFacts DEF Advanced
    <2>2. /\ Source(cb', start, count)[i] = cb'.buffer[slot]
          /\ Source(cb, start, count)[i] = cb.buffer[slot]
      BY DEF Source
    <2>3. k \in 1..Capacity /\ ~(k + count <= Capacity) /\ k + count - Capacity = i
      BY <1>2, ConstantFacts
    <2> HIDE DEF slot, j
    <2>4. cb'.buffer[slot] = cb.buffer[slot]
      <3>1. count \in Nat
        BY <1>2
      <3> QED
        BY <1>1, <1>7, <2>1, <3>1, UnreadKept
    <2> HIDE DEF k
    <2>5. NewestOf(cb')[k] = Source(cb, start, count)[i]
      BY <1>7, <2>3 DEF Pushed
    <2> QED
      BY <2>2, <2>4, <2>5 DEF k
  <1>10. SourceNewest(cb', extending')
    BY <1>4, <1>9 DEF SourceNewest
  <1>11. count * (left - 1) <= CanWrite(cb')
    <2>1. CanWrite(cb') = Capacity - Available(cb')
      BY <1>7, AvailableFacts
    <2> QED
      BY <1>2, <1>5, <1>6, <1>7, <2>1, ConstantFacts
  <1>12. ExtendInv(cb', extending')
    BY <1>2, <1>4, <1>8, <1>10, <1>11 DEF ExtendInv
  <1>13. TypeOK'
    <2>1. cb' \in Buffers
      BY <1>7 DEF Good
    <2>2. call'.n \in -Capacity..Capacity
      BY <1>1, <1>2, ConstantFacts DEF count
    <2> QED
      BY <1>1, <1>4, <2>1, <2>2 DEF IInv, TypeOK, Buffers
  <1>14. IInv'
    BY <1>7, <1>12, <1>13 DEF IInv
  <1>15. Source(cb, start, count) = [i \in 1..count |-> Newest[Capacity - count + i]]
    BY <1>2, WindowFacts DEF Source
  <1>16. Window!Push(Source(cb, start, count), count)
    BY <1>6, <1>7, WindowFacts DEF Window!Push, Pushed
  <1>17. Window!Repeat(count)
    BY <1>1, <1>6, <1>15, <1>16 DEF Window!Repeat, Window!Called, count
  <1>18. count \in 0..Capacity
    BY <1>2
  <1> QED
    BY <1>14, <1>17, <1>18 DEF Window!Next
LEMMA SourceSlots ==
  ASSUME NEW b, Good(b), NEW start \in 0..(Capacity - 1), NEW count \in 1..Capacity,
         NEW i \in 1..count
  PROVE  Source(b, start, count)[i] = b.buffer[Wrap(b, start + i - 1)]
  <1>1. Wrap(b, start + i - 1) = IF start + i - 1 >= Capacity
                                 THEN start + i - 1 - Capacity ELSE start + i - 1
    <2>1. b.capacity = Capacity
      BY GoodFacts
    <2> QED
      BY <2>1, ConstantFacts DEF Wrap
  <1> QED
    BY <1>1 DEF Source

LEMMA NextStep ==
  ASSUME IInv, Misuses = {}, [Next]_vars
  PROVE  IInv' /\ [Window!Next]_<<Newest, Available(cb), call>>
  <1>1. CASE CallReset
    BY <1>1, ResetStep
  <1>2. CASE CallRemove
    BY <1>2, RemoveStep
  <1>3. CASE CallPeekMax
    BY <1>3, PeekMaxStep
  <1>4. CASE ExtendTurn
    BY <1>4, TurnStep
  <1>5. ASSUME NEW v \in Samples, CallAdd(v)
        PROVE  IInv' /\ Window!Next
    BY <1>5, AddStep
  <1>6. ASSUME NEW n \in 0..Capacity, NEW vs \in Values(n), CallWrite(vs) \/ CallReserve(vs)
        PROVE  IInv' /\ Window!Next
    <2>1. vs \in [1..n -> Samples] /\ Len(vs) = n
      BY ValuesAreSequences DEF Values
    <2>2. CASE CallWrite(vs)
      <3>1. /\ Idle /\ WriteAllowed(cb, n) /\ cb' = Write(cb, vs)
            /\ slots' = slots /\ extending' = extending /\ Called("write", n, << >>)
        BY <2>1, <2>2 DEF CallWrite
      <3> QED
        BY <2>1, <3>1, WriteStep
    <2>3. CASE CallReserve(vs)
      BY <2>1, <2>3, ReserveStep
    <2> QED
      BY <1>6, <2>2, <2>3
  <1>7. ASSUME NEW n \in 0..Capacity, CallWriteZeros(n)
        PROVE  IInv' /\ Window!Next
    <2> DEFINE zeros == [i \in 1..n |-> 0]
    <2>1. zeros \in [1..n -> Samples]
      BY ConstantFacts
    <2>2. /\ Idle /\ WriteAllowed(cb, n) /\ cb' = Write(cb, zeros)
          /\ slots' = slots /\ extending' = extending /\ Called("write", n, << >>)
      BY <1>7 DEF CallWriteZeros, WriteZeros
    <2> HIDE DEF zeros
    <2> QED
      BY <2>1, <2>2, WriteStep
  <1>8. ASSUME NEW n \in 0..Capacity, CallGet(n) \/ CallDiscard(n) \/ CallRewind(n)
        PROVE  IInv' /\ Window!Next
    BY <1>8, GetStep, DiscardStep, RewindStep
  <1>9. ASSUME NEW count \in 1..Capacity, NEW n \in 1..Capacity, CallExtend(count, n)
        PROVE  IInv' /\ UNCHANGED <<Newest, Available(cb), call>>
    BY <1>9, ExtendStep
  <1>10. ASSUME NEW index \in 0..Capacity, NEW n \in 0..Capacity,
                CallPeek(index) \/ CallPeekDirect(index, n)
         PROVE  IInv' /\ Window!Next
    BY <1>10, PeekStep, PeekDirectStep
  <1>11. ASSUME NEW n \in -Capacity..Capacity, CallShift(n)
         PROVE  IInv' /\ Window!Next
    BY <1>11, ShiftStep
  <1>12. CASE UNCHANGED vars
    <2>1. cb' = cb /\ slots' = slots /\ call' = call /\ extending' = extending
      BY <1>12 DEF vars
    <2>2. IInv'
      BY <2>1 DEF IInv, TypeOK
    <2>3. UNCHANGED <<Newest, Available(cb), call>>
      BY <2>1, WindowFacts
    <2> QED
      BY <2>2, <2>3
  <1> QED
    BY <1>1, <1>2, <1>3, <1>4, <1>5, <1>6, <1>7, <1>8, <1>9, <1>10, <1>11, <1>12 DEF Next

LEMMA InitStep == Init => Window!Init
  <1> SUFFICES ASSUME Init PROVE Window!Init
    OBVIOUS
  <1>1. NewestOf(cb) = [k \in 1..Capacity |-> 0] /\ Available(cb) = 0
    BY NewCleared, ClearedFacts DEF Init
  <1>2. call = [op |-> "reset", n |-> 0, out |-> << >>]
    BY DEF Init
  <1> QED
    BY <1>1, <1>2, WindowFacts DEF Window!Init

LEMMA Invariance ==
  ASSUME Misuses = {}
  PROVE  Spec => []IInv
  <1>1. Init => IInv
    BY InitInv
  <1>2. IInv /\ [Next]_vars => IInv'
    BY NextStep
  <1> QED
    BY <1>1, <1>2, PTL DEF Spec

\* What the invariant says of what is checked.
LEMMA RingRight == IInv => TypeOK /\ FlagRight /\ ExtendSource
<1>1. IInv => TypeOK
  BY DEF IInv
<1>2. IInv => FlagRight
  BY AvailableFacts DEF IInv, FlagRight
<1>3. ASSUME IInv, ~Idle, NEW i \in 1..extending.count
      PROVE  Newest[Capacity - extending.count + i]
               = cb.buffer[Wrap(cb, extending.start + i - 1)]
  <2> DEFINE start == extending.start
             count == extending.count
  <2>1. /\ Good(cb) /\ count \in 1..Capacity /\ start \in 0..(Capacity - 1)
        /\ Source(cb, start, count)[i] = NewestOf(cb)[Capacity - count + i]
    BY <1>3 DEF IInv, ExtendInv, SourceNewest, Idle
  <2> HIDE DEF start, count
  <2>2. Source(cb, start, count)[i] = cb.buffer[Wrap(cb, start + i - 1)]
    BY <2>1, SourceSlots DEF count
  <2> QED
    BY <2>1, <2>2, WindowFacts DEF start, count
<1>4. IInv => ExtendSource
  BY <1>3 DEF ExtendSource
<1> QED
  BY <1>1, <1>2, <1>4

\* What the kernels promise of the signal holds for kernels of any sizes and any number
\* of invocations and resets: the framer's frames are consecutive pieces of each lane's
\* signal, the stacker's stacks are those of the current frame and its neighbours, the sums
\* of the overlap-add are of the aligned samples since the reset, and no call of theirs
\* fails an assertion of the circular buffer (framer.cc, stacker.cc, overlap_add.cc).
\* The fields stay in their ranges, for all calls the header allows.
THEOREM TypeCorrect ==
  ASSUME Misuses = {}
  PROVE  Spec => []TypeOK
  BY RingRight, Invariance, PTL

\* The flag is set exactly when there is nothing to read: with equal positions,
\* the one thing that tells an empty buffer from a full one.
THEOREM FlagIsRight ==
  ASSUME Misuses = {}
  PROVE  Spec => []FlagRight
  BY RingRight, Invariance, PTL

\* The upper half repeats the lower one through every write, that of a turn of
\* CircularBufferExtend included.
THEOREM HalvesStayEqual ==
  ASSUME Misuses = {}
  PROVE  Spec => []HalvesAgree
  <1>1. IInv => HalvesAgree
    BY DEF IInv, HalvesAgree, Repeats
  <1> QED
    BY <1>1, Invariance, PTL

\* CircularBufferExtend does not overwrite what it copies from: its source
\* still is what was written last before each of its turns.
THEOREM ExtendSourceStays ==
  ASSUME Misuses = {}
  PROVE  Spec => []ExtendSource
  BY RingRight, Invariance, PTL

\* Every sequence of calls is one of the sliding window: what is returned is what
\* was written, in order, wherever the positions are and whatever wraps.
THEOREM BufferImplementsWindow ==
  ASSUME Misuses = {}
  PROVE  Spec => ImplementsWindow
  <1>1. Init => Window!Init
    BY InitStep
  <1>2. IInv /\ [Next]_vars => [Window!Next]_<<Newest, Available(cb), call>>
    BY NextStep
  <1> QED
    BY <1>1, <1>2, Invariance, PTL DEF Spec, ImplementsWindow, Window!Spec

-----------------------------------------------------------------------------
(* Strides.  A layer of a chain runs at the invocations whose number its stride *)
(* divides: at now \div stride of them, and not at the others.                  *)

Positive == Nat \ {0}

\* A set of naturals that is not empty has a least element.
LEMMA LeastNumber ==
  ASSUME NEW T, T \subseteq Nat, T # {}
  PROVE  \E x \in T : \A y \in T : x <= y
<1>1. PICK x \in T : \A y \in T : ~(<<y, x>> \in OpToRel(<, Nat))
  BY NatLessThanWellFounded, WFMin
<1>2. \A y \in T : ~(y < x)
  BY <1>1 DEF OpToRel
<1> QED
  BY <1>2

\* A set that holds 0, and n + 1 with every n, holds all naturals.
LEMMA Counting ==
  ASSUME NEW T, 0 \in T, \A n \in Nat : n \in T => n + 1 \in T
  PROVE  Nat \subseteq T
<1> DEFINE Missing == Nat \ T
<1>1. SUFFICES ASSUME Missing # {} PROVE FALSE
  OBVIOUS
<1>2. PICK x \in Missing : \A y \in Missing : x <= y
  BY <1>1, LeastNumber
<1>3. x # 0 /\ x - 1 \in Nat /\ x - 1 \notin Missing
  BY <1>2
<1> QED
  BY <1>3

\* Products(cm, n) are the strides of the first n operators.
Products(cm, n) ==
  CHOOSE f : f = [k \in 0..n |-> IF k = 0 THEN 1 ELSE f[k - 1] * cm[k]]
Strides(cm) ==
  CHOOSE f : f = [k \in Nat |-> IF k = 0 THEN 1 ELSE f[k - 1] * cm[k]]

LEMMA ProductsExist ==
  ASSUME NEW cm, NEW n \in Nat
  PROVE  \E f : f = [k \in 0..n |-> IF k = 0 THEN 1 ELSE f[k - 1] * cm[k]]
<1> DEFINE Eq(f, m) == f = [k \in 0..m |-> IF k = 0 THEN 1 ELSE f[k - 1] * cm[k]]
           T == {m \in Nat : \E f : Eq(f, m)}
<1>1. 0 \in T
  <2>1. Eq([k \in 0..0 |-> 1], 0)
    OBVIOUS
  <2> QED
    BY <2>1
<1>2. ASSUME NEW m \in Nat, m \in T PROVE m + 1 \in T
  <2>1. PICK f : Eq(f, m)
    BY <1>2
  <2> DEFINE g == [k \in 0..(m + 1) |-> IF k = m + 1 THEN f[m] * cm[m + 1] ELSE f[k]]
             h == [k \in 0..(m + 1) |-> IF k = 0 THEN 1 ELSE g[k - 1] * cm[k]]
  <2>2. ASSUME NEW k \in 0..(m + 1) PROVE g[k] = h[k]
    <3>1. CASE k = m + 1
      <4>1. k - 1 = m /\ k # 0 /\ m \in 0..(m + 1) /\ m # m + 1
        BY <3>1
      <4>2. g[m] = f[m] /\ g[m + 1] = f[m] * cm[m + 1]
        BY <4>1
      <4> QED
        BY <3>1, <4>1, <4>2
    <3>2. CASE k # m + 1 /\ k # 0
      <4>1. k \in 0..m /\ k - 1 \in 0..(m + 1) /\ k - 1 # m + 1
        BY <3>2
      <4>2. f[k] = f[k - 1] * cm[k]
        BY <4>1, <2>1, <3>2
      <4>3. g[k] = f[k] /\ g[k - 1] = f[k - 1]
        BY <4>1, <3>2
      <4> QED
        BY <3>2, <4>2, <4>3
    <3>3. CASE k = 0
      <4>1. f[0] = 1
        BY <2>1
      <4> QED
        BY <3>3, <4>1
    <3> QED
      BY <3>1, <3>2, <3>3
  <2>3. g = h
    BY <2>2
  <2>4. Eq(g, m + 1)
    BY <2>3
  <2> HIDE DEF g, Eq
  <2> QED
    BY <2>4
<1> HIDE DEF Eq
<1>3. Nat \subseteq T
  BY <1>1, <1>2, Counting
<1>4. \E f : Eq(f, n)
  BY <1>3
<1> QED
  BY <1>4 DEF Eq

LEMMA ProductsFacts ==
  ASSUME NEW cm, NEW n \in Nat
  PROVE  Products(cm, n)
           = [k \in 0..n |-> IF k = 0 THEN 1 ELSE Products(cm, n)[k - 1] * cm[k]]
  BY ProductsExist DEF Products

\* Longer products agree with shorter ones.
LEMMA ProductsAgree ==
  ASSUME NEW cm, NEW n \in Nat, NEW k \in 0..n
  PROVE  Products(cm, n)[k] = Products(cm, n + 1)[k]
<1> DEFINE T == {m \in Nat : m <= n => Products(cm, n)[m] = Products(cm, n + 1)[m]}
<1>1. 0 \in T
  <2>1. Products(cm, n)[0] = 1
    BY ProductsFacts, 0 \in 0..n
  <2>2. Products(cm, n + 1)[0] = 1
    BY ProductsFacts, 0 \in 0..(n + 1), n + 1 \in Nat
  <2> QED
    BY <2>1, <2>2
<1>2. ASSUME NEW m \in Nat, m \in T PROVE m + 1 \in T
  <2>1. CASE m + 1 <= n
    <3>1. Products(cm, n)[m] = Products(cm, n + 1)[m]
      BY <1>2, <2>1
    <3>2. m + 1 \in 0..n /\ m + 1 \in 0..(n + 1) /\ m + 1 # 0 /\ (m + 1) - 1 = m
      BY <2>1
    <3>3. Products(cm, n)[m + 1] = Products(cm, n)[m] * cm[m + 1]
      BY <3>2, ProductsFacts
    <3>4. Products(cm, n + 1)[m + 1] = Products(cm, n + 1)[m] * cm[m + 1]
      BY <3>2, ProductsFacts, n + 1 \in Nat
    <3> QED
      BY <3>1, <3>3, <3>4
  <2> QED
    BY <2>1
<1> HIDE DEF T
<1>3. Nat \subseteq T
  BY <1>1, <1>2, Counting
<1>4. k \in T
  BY <1>3
<1> QED
  BY <1>4 DEF T

LEMMA StridesExist ==
  ASSUME NEW cm
  PROVE  \E f : f = [k \in Nat |-> IF k = 0 THEN 1 ELSE f[k - 1] * cm[k]]
<1> DEFINE g == [k \in Nat |-> Products(cm, k)[k]]
           h == [k \in Nat |-> IF k = 0 THEN 1 ELSE g[k - 1] * cm[k]]
<1>1. ASSUME NEW k \in Nat PROVE g[k] = h[k]
  <2>1. CASE k = 0
    <3>1. Products(cm, 0)[0] = 1
      BY ProductsFacts, 0 \in 0..0
    <3> QED
      BY <2>1, <3>1
  <2>2. CASE k # 0
    <3>1. k - 1 \in Nat /\ k \in 0..k /\ k - 1 \in 0..(k - 1) /\ (k - 1) + 1 = k
      BY <2>2
    <3>2. Products(cm, k)[k] = Products(cm, k)[k - 1] * cm[k]
      BY <3>1, <2>2, ProductsFacts
    <3>3. Products(cm, k - 1)[k - 1] = Products(cm, (k - 1) + 1)[k - 1]
      BY <3>1, ProductsAgree
    <3>4. g[k] = Products(cm, k)[k] /\ g[k - 1] = Products(cm, k - 1)[k - 1]
      BY <3>1
    <3> QED
      BY <2>2, <3>1, <3>2, <3>3, <3>4
  <2> QED
    BY <2>1, <2>2
<1>2. g = h
  BY <1>1
<1> HIDE DEF g
<1> QED
  BY <1>2

LEMMA StridesFacts ==
  ASSUME NEW cm
  PROVE  /\ Strides(cm)[0] = 1
         /\ \A k \in Nat \ {0} : Strides(cm)[k] = Strides(cm)[k - 1] * cm[k]
<1>1. Strides(cm) = [k \in Nat |-> IF k = 0 THEN 1 ELSE Strides(cm)[k - 1] * cm[k]]
  BY StridesExist DEF Strides
<1> QED
  BY <1>1

\* Strides are positive.
LEMMA StridesPositive ==
  ASSUME NEW cm \in Seq(Positive), NEW k \in 0..Len(cm)
  PROVE  Strides(cm)[k] \in Positive
<1> DEFINE T == {m \in Nat : m <= Len(cm) => Strides(cm)[m] \in Positive}
<1>1. 0 \in T
  BY StridesFacts DEF Positive
<1>2. ASSUME NEW m \in Nat, m \in T PROVE m + 1 \in T
  <2>1. CASE m + 1 <= Len(cm)
    <3>1. m + 1 \in 1..Len(cm) /\ m + 1 \in Nat \ {0} /\ (m + 1) - 1 = m
      BY <2>1
    <3>2. cm[m + 1] \in Positive
      BY <3>1
    <3>3. Strides(cm)[m + 1] = Strides(cm)[m] * cm[m + 1]
      BY <3>1, StridesFacts
    <3>4. Strides(cm)[m] \in Positive
      BY <1>2, <2>1
    <3>5. \A a, b \in Positive : a * b \in Positive
      BY DEF Positive
    <3> QED
      BY <3>2, <3>3, <3>4, <3>5
  <2> QED
    BY <2>1
<1> HIDE DEF T
<1>3. Nat \subseteq T
  BY <1>1, <1>2, Counting
<1>4. k \in T
  BY <1>3
<1> QED
  BY <1>4 DEF T

(* Division. *)

LEMMA Division ==
  ASSUME NEW a \in Nat, NEW d \in Positive
  PROVE  /\ a \div d \in Nat /\ (a % d) \in 0..(d - 1)
         /\ a = d * (a \div d) + (a % d)
  BY DEF Positive

LEMMA DivisionUnique ==
  ASSUME NEW d \in Positive, NEW q \in Nat, NEW r \in 0..(d - 1)
  PROVE  (d * q + r) \div d = q /\ ((d * q + r) % d) = r
  BY DEF Positive

\* A product divides a number when one factor divides it and the other the quotient.
LEMMA DivisionNests ==
  ASSUME NEW t \in Nat, NEW d \in Positive, NEW c \in Positive
  PROVE  (t % (d * c)) = 0 <=> (t % d) = 0 /\ ((t \div d) % c) = 0
<1> DEFINE q == t \div d
           r == t % d
<1>0. d * c \in Positive
  BY DEF Positive
<1>1. q \in Nat /\ r \in 0..(d - 1) /\ t = d * q + r
  BY Division
<1>2. q \div c \in Nat /\ (q % c) \in 0..(c - 1) /\ q = c * (q \div c) + (q % c)
  BY <1>1, Division
<1>3. ASSUME (t % (d * c)) = 0 PROVE r = 0 /\ (q % c) = 0
  <2> DEFINE p == d * c
             e == t \div p
  <2>0. e \in Nat /\ t = p * e + (t % p) /\ (t % p) = 0 /\ p \in Nat
    <3> HIDE DEF p
    <3> QED
      BY <1>0, <1>3, Division DEF Positive, p
  <2> HIDE DEF e
  <2>1. e \in Nat /\ t = (d * c) * e
    <3>1. t = p * e
      <4> HIDE DEF p
      <4> QED
        BY <2>0
    <3> QED
      BY <2>0, <3>1
  <2>2. (d * c) * e = d * (c * e) /\ c * e \in Nat /\ 0 \in 0..(d - 1)
    BY <2>1 DEF Positive
  <2>3. t = d * (c * e) + 0
    BY <2>1, <2>2
  <2>4. t \div d = c * e /\ (t % d) = 0
    BY <2>2, <2>3, DivisionUnique
  <2>5. ((c * e + 0) % c) = 0
    <3>1. 0 \in 0..(c - 1)
      BY DEF Positive
    <3> QED
      BY <2>1, <3>1, DivisionUnique
  <2>6. c * e + 0 = c * e
    BY <2>2
  <2> QED
    BY <2>4, <2>5, <2>6
<1>4. ASSUME r = 0, (q % c) = 0 PROVE (t % (d * c)) = 0
  <2> DEFINE e == q \div c
  <2>1. t = d * (c * e) /\ e \in Nat
    <3>1. q = c * e /\ t = d * q /\ e \in Nat
      BY <1>1, <1>2, <1>4 DEF Positive
    <3> HIDE DEF q, e
    <3> QED
      BY <3>1
  <2>2. d * (c * e) = (d * c) * e + 0
    BY <2>1 DEF Positive
  <2>3. 0 \in 0..(d * c - 1)
    BY <1>0 DEF Positive
  <2> HIDE DEF e
  <2> QED
    BY <2>1, <2>2, <2>3, <1>0, DivisionUnique
<1> QED
  BY <1>3, <1>4

\* One invocation more: its number is a multiple of the stride or it is not.
LEMMA QuotientStep ==
  ASSUME NEW t \in Positive, NEW d \in Positive
  PROVE  /\ (t % d) = 0 => /\ (t - 1) \div d = (t \div d) - 1
                           /\ t \div d \in Positive
                           /\ t = (t \div d) * d
         /\ (t % d) # 0 => (t - 1) \div d = t \div d
<1> DEFINE q == t \div d
           r == t % d
<1>1. t \in Nat /\ q \in Nat /\ r \in 0..(d - 1) /\ t = d * q + r
  BY Division DEF Positive
<1>2. ASSUME r = 0 PROVE (t - 1) \div d = q - 1 /\ q \in Positive /\ t = q * d
  <2>1. t = d * q /\ t = q * d
    BY <1>1, <1>2 DEF Positive
  <2>2. q # 0
    BY <1>1, <1>2 DEF Positive
  <2>3. t - 1 = d * (q - 1) + (d - 1)
    BY <2>1, <1>1 DEF Positive
  <2>4. q - 1 \in Nat /\ d - 1 \in 0..(d - 1)
    BY <1>1, <2>2 DEF Positive
  <2> HIDE DEF q
  <2> QED
    BY <1>1, <2>1, <2>2, <2>3, <2>4, DivisionUnique DEF Positive
<1>3. ASSUME r # 0 PROVE (t - 1) \div d = q
  <2>1. t - 1 = d * q + (r - 1) /\ r - 1 \in 0..(d - 1)
    BY <1>1, <1>3 DEF Positive
  <2> HIDE DEF q, r
  <2> QED
    BY <1>1, <2>1, DivisionUnique
<1> QED
  BY <1>2, <1>3

LEMMA CountdownStep ==
  ASSUME NEW r \in Positive, NEW c \in Positive
  PROVE  /\ c - (r % c) \in 1..c
         /\ c - ((r - 1) % c) = 1 <=> (r % c) = 0
         /\ (r % c) # 0 => c - (r % c) = (c - ((r - 1) % c)) - 1
<1> DEFINE q == r \div c
           m == r % c
<1>1. r \in Nat /\ q \in Nat /\ m \in 0..(c - 1) /\ r = c * q + m
  BY Division DEF Positive
<1>2. ASSUME m = 0 PROVE ((r - 1) % c) = c - 1
  <2>1. r = c * q /\ q # 0
    BY <1>1, <1>2 DEF Positive
  <2>3. r - 1 = c * (q - 1) + (c - 1)
    BY <2>1, <1>1 DEF Positive
  <2>4. q - 1 \in Nat /\ c - 1 \in 0..(c - 1)
    BY <1>1, <2>1 DEF Positive
  <2> HIDE DEF q
  <2> QED
    BY <2>3, <2>4, DivisionUnique
<1>3. ASSUME m # 0 PROVE ((r - 1) % c) = m - 1
  <2>1. r - 1 = c * q + (m - 1) /\ m - 1 \in 0..(c - 1)
    BY <1>1, <1>3 DEF Positive
  <2> HIDE DEF q, m
  <2>2. ((c * q + (m - 1)) % c) = m - 1
    BY <1>1, <2>1, DivisionUnique
  <2> QED
    BY <2>1, <2>2
<1>4. c \in Nat /\ c >= 1
  BY DEF Positive
<1> HIDE DEF m
<1>5. (r % c) = m
  BY DEF m
<1> QED
  BY <1>1, <1>2, <1>3, <1>4, <1>5

\* A stride divides those of the operators behind.
LEMMA StridesDivide ==
  ASSUME NEW cm \in Seq(Positive), NEW j \in 0..Len(cm), NEW k \in 0..Len(cm), j <= k,
         NEW t \in Nat, (t % Strides(cm)[k]) = 0
  PROVE  (t % Strides(cm)[j]) = 0
<1> DEFINE T == {i \in j..k : (t % Strides(cm)[i]) = 0}
<1>1. T \subseteq Nat /\ k \in T
  OBVIOUS
<1>2. PICK i \in T : \A x \in T : i <= x
  BY <1>1, LeastNumber
<1>3. ASSUME i # j PROVE FALSE
  <2>1. i \in Nat \ {0} /\ i \in 1..Len(cm) /\ i - 1 \in 0..Len(cm) /\ i - 1 \in j..k
    BY <1>2, <1>3
  <2>2. Strides(cm)[i] = Strides(cm)[i - 1] * cm[i]
    BY <2>1, StridesFacts
  <2>3. Strides(cm)[i - 1] \in Positive /\ cm[i] \in Positive
    BY <2>1, StridesPositive
  <2>4. (t % Strides(cm)[i - 1]) = 0
    BY <1>2, <2>2, <2>3, DivisionNests
  <2>5. i - 1 \in T /\ ~(i <= i - 1)
    BY <2>1, <2>4
  <2> QED
    BY <1>2, <2>5
<1> QED
  BY <1>2, <1>3

-----------------------------------------------------------------------------
(* Chains of CIRCULAR_BUFFER operators, for any models in Chains.  In part      *)
(* "chain" the variables are those of StreamingBuffer in its order: v1 is pc,   *)
(* v2 model, v3 cb_prepare_count, v4 cycles_max, v5 cycles_until_run,           *)
(* v6 output, v7 op, v8 now, v9 zeroed, v10 answer and v11 models.             *)

\* What the countdown of operator k is, and what its n slots hold, when t
\* invocations of the model have reached their turn of k, of which z were before the
\* reset.
Countdown(cm, k, t) == cm[k] - ((t \div Strides(cm)[k - 1]) % cm[k])
LastInputs(cm, k, t, z, n) ==
  LET d == Strides(cm)[k - 1]
      latest == (t \div d) * d
  IN [s \in 1..n |-> IF latest > z + (n - s) * d THEN latest - (n - s) * d ELSE 0]

Zeros(n) == [s \in 1..n |-> 0]

\* The invocations that have had their turn of operator k: in the loop of
\* InvokeSubgraph those from op on wait for this one.
Turns(k) == IF v1 = "running" /\ k >= v7 THEN v8 - 1 ELSE v8

ChainTypes ==
  /\ v1 \in {"none", "preparing", "ready", "running"}
  /\ v2 \in Chains \cup {<< >>}
  /\ v3 \in Nat /\ v8 \in 0..MaxInvokes /\ v9 \in 0..v8
  /\ v7 \in 1..(Len(v2) + 1)
  /\ v10 \in {"none", "ok", "abort"}
  /\ v4 \in Seq(Positive) /\ v5 \in Seq(Nat) /\ Len(v5) = Len(v4)

\* While a model is prepared, its operators up to op have their periods.
ChainPreparing ==
  v1 = "preparing" => /\ v2 \in Chains /\ v7 \in 1..Len(v2) /\ Len(v4) = v7 - 1
                      /\ v6 = Chain!Zeroed(v2) /\ v9 = 0

\* Only a prepared model is invoked, and an operator runs at the multiples of its
\* stride.
ChainPrepared ==
  /\ v1 \in {"ready", "running"} => /\ v2 \in Chains /\ Len(v4) = Len(v2)
                                    /\ v7 \in 1..Len(v2)
                                    /\ DOMAIN v6 = 1..Len(v2)
  /\ v1 \in {"none", "preparing"} => v8 = 0
  /\ v1 = "running" => v9 < v8 /\ (v8 % Strides(v4)[v7 - 1]) = 0

\* Every countdown, and what every operator holds, say how often it has run.
ChainCounts == \A k \in 1..Len(v4) : v5[k] = Countdown(v4, k, Turns(k))
ChainHolds ==
  v1 \in {"ready", "running"} =>
    \A k \in 1..Len(v2) : v6[k] = LastInputs(v4, k, Turns(k), v9, v2[k].slots)

ChainAnswers ==
  v1 = "ready" /\ v8 > 0 =>
    v10 = IF (v8 % Strides(v4)[Len(v2)]) = 0 THEN "ok" ELSE "abort"

ChainIInv == /\ ChainTypes /\ ChainPreparing /\ ChainPrepared
             /\ ChainCounts /\ ChainHolds /\ ChainAnswers

LEMMA StrideIs == Chain!Stride = Strides(v4)
  BY DEF Chain!Stride, Strides

\* A model has operators, each with slots.
LEMMA ModelFacts ==
  ASSUME NEW m \in Chains
  PROVE  /\ m \in Seq([slots : Nat \ {0}, wide : BOOLEAN, cycles : Nat])
         /\ Len(m) \in Positive /\ DOMAIN m = 1..Len(m)
         /\ \A k \in 1..Len(m) : m[k].slots \in Positive /\ m[k].cycles \in Nat
<1> DEFINE Operators == [slots : Nat \ {0}, wide : BOOLEAN, cycles : Nat]
<1>1. m \in Seq(Operators) /\ m # << >>
  BY ChainsAssumption
<1>2. /\ Len(m) \in Nat /\ DOMAIN m = 1..Len(m) /\ Len(m) # 0
      /\ \A k \in 1..Len(m) : m[k] \in Operators
  <2> HIDE DEF Operators
  <2> QED
    BY <1>1, EmptySeq
<1>3. \A layer \in Operators : layer.slots \in Positive /\ layer.cycles \in Nat
  BY DEF Positive
<1> HIDE DEF Operators
<1>4. /\ Len(m) \in Positive
      /\ \A k \in 1..Len(m) : m[k].slots \in Positive /\ m[k].cycles \in Nat
  BY <1>2, <1>3 DEF Positive
<1> QED
  BY <1>1, <1>2, <1>4 DEF Operators

\* The countdown of operator k never reaches zero, whatever the invocation.
LEMMA CountdownRange ==
  ASSUME NEW cm \in Seq(Positive), NEW k \in 1..Len(cm), NEW t \in Nat
  PROVE  Countdown(cm, k, t) \in 1..cm[k]
<1>1. k - 1 \in 0..Len(cm) /\ cm[k] \in Positive
  OBVIOUS
<1>2. Strides(cm)[k - 1] \in Positive
  BY <1>1, StridesPositive
<1> DEFINE r == t \div Strides(cm)[k - 1]
<1>3. r \in Nat
  BY <1>2, Division
<1>4. (r % cm[k]) \in 0..(cm[k] - 1)
  BY <1>1, <1>3, Division
<1> QED
  BY <1>1, <1>4 DEF Countdown, Positive

\* Before the first invocation the countdown is full and the slots are zero.
LEMMA CountdownStarts ==
  ASSUME NEW cm \in Seq(Positive), NEW k \in 1..Len(cm)
  PROVE  Countdown(cm, k, 0) = cm[k]
<1>1. k - 1 \in 0..Len(cm) /\ cm[k] \in Positive
  OBVIOUS
<1>2. Strides(cm)[k - 1] \in Positive
  BY <1>1, StridesPositive
<1>3. \A d \in Positive : 0 \div d = 0 /\ (0 % d) = 0
  BY DEF Positive
<1> QED
  BY <1>1, <1>2, <1>3 DEF Countdown, Positive

\* A reset at t, or before the first invocation: nothing is newer.
LEMMA LastInputsZero ==
  ASSUME NEW cm \in Seq(Positive), NEW k \in 1..Len(cm), NEW t \in Nat, NEW n \in Positive
  PROVE  LastInputs(cm, k, t, t, n) = Zeros(n)
<1> DEFINE d == Strides(cm)[k - 1]
           latest == (t \div d) * d
<1>1. d \in Positive
  BY StridesPositive
<1>2. latest <= t /\ latest \in Nat
  <2> HIDE DEF d
  <2>1. t \div d \in Nat /\ (t % d) \in 0..(d - 1) /\ t = d * (t \div d) + (t % d)
    BY <1>1, Division
  <2>2. d * (t \div d) = (t \div d) * d
    BY <1>1, <2>1 DEF Positive
  <2> QED
    BY <1>1, <2>1, <2>2 DEF Positive
<1>3. ASSUME NEW s \in 1..n PROVE ~(latest > t + (n - s) * d)
  <2> HIDE DEF d, latest
  <2>1. n - s \in Nat
    BY DEF Positive
  <2>2. (n - s) * d \in Nat
    BY <2>1, <1>1 DEF Positive
  <2> QED
    BY <2>2, <1>2
<1> QED
  BY <1>3 DEF LastInputs, Zeros

\* At an invocation that does not reach operator k its state stays what it was.
LEMMA TurnMissed ==
  ASSUME NEW cm \in Seq(Positive), NEW k \in 1..Len(cm), NEW t \in Positive,
         (t % Strides(cm)[k - 1]) # 0, NEW z, NEW n
  PROVE  /\ Countdown(cm, k, t - 1) = Countdown(cm, k, t)
         /\ LastInputs(cm, k, t - 1, z, n) = LastInputs(cm, k, t, z, n)
<1>1. Strides(cm)[k - 1] \in Positive
  BY StridesPositive
<1>2. (t - 1) \div Strides(cm)[k - 1] = t \div Strides(cm)[k - 1]
  BY <1>1, QuotientStep
<1> QED
  BY <1>2 DEF Countdown, LastInputs

\* At one that does, the countdown ends or goes on.
LEMMA TurnCounted ==
  ASSUME NEW cm \in Seq(Positive), NEW k \in 1..Len(cm), NEW t \in Positive,
         (t % Strides(cm)[k - 1]) = 0
  PROVE  /\ Countdown(cm, k, t - 1) = 1 <=> (t % Strides(cm)[k]) = 0
         /\ Countdown(cm, k, t - 1) = 1 => Countdown(cm, k, t) = cm[k]
         /\ Countdown(cm, k, t - 1) # 1
              => Countdown(cm, k, t) = Countdown(cm, k, t - 1) - 1
<1> DEFINE d == Strides(cm)[k - 1]
           c == cm[k]
           r == t \div d
<1>1. d \in Positive /\ c \in Positive /\ t \in Nat
  BY StridesPositive DEF Positive
<1>2. (t - 1) \div d = r - 1 /\ r \in Positive
  BY <1>1, QuotientStep
<1>3. Strides(cm)[k] = d * c
  BY StridesFacts
<1>4. (t % (d * c)) = 0 <=> (r % c) = 0
  BY <1>1, DivisionNests
<1>5. /\ c - ((r - 1) % c) = 1 <=> (r % c) = 0
      /\ (r % c) # 0 => c - (r % c) = (c - ((r - 1) % c)) - 1
  BY <1>1, <1>2, CountdownStep
<1>6. Countdown(cm, k, t - 1) = c - ((r - 1) % c) /\ Countdown(cm, k, t) = c - (r % c)
  BY <1>2 DEF Countdown
<1> HIDE DEF d, c, r
<1>7. c - 0 = c
  BY <1>1 DEF Positive
<1> QED
  BY <1>3, <1>4, <1>5, <1>6, <1>7 DEF c

\* And the input goes to the back of the slots, behind those of its stride.
LEMMA TurnShifted ==
  ASSUME NEW cm \in Seq(Positive), NEW k \in 1..Len(cm), NEW t \in Positive,
         (t % Strides(cm)[k - 1]) = 0, NEW z \in Nat, z < t, NEW n \in Positive
  PROVE  Chain!Shifted(LastInputs(cm, k, t - 1, z, n), t) = LastInputs(cm, k, t, z, n)
<1> DEFINE d == Strides(cm)[k - 1]
           old == LastInputs(cm, k, t - 1, z, n)
           new == LastInputs(cm, k, t, z, n)
           r == t \div d
<1>1. d \in Positive /\ t \in Nat
  BY StridesPositive DEF Positive
<1>2. (t - 1) \div d = r - 1 /\ r \in Positive /\ t = r * d
  BY <1>1, QuotientStep
<1>3. (r - 1) * d = t - d
  <2> HIDE DEF d, r
  <2> QED
    BY <1>1, <1>2 DEF Positive
<1>4. old = [s \in 1..n |-> IF t - d > z + (n - s) * d THEN (t - d) - (n - s) * d ELSE 0]
  BY <1>2, <1>3 DEF LastInputs
<1>5. new = [s \in 1..n |-> IF t > z + (n - s) * d THEN t - (n - s) * d ELSE 0]
  BY <1>2 DEF LastInputs
<1> HIDE DEF d, old, new, r
<1>6. old \in Seq(Int) /\ Len(old) = n
  <2>1. \A s \in 1..n : (n - s) * d \in Int
    BY <1>1 DEF Positive
  <2>2. old \in [1..n -> Int]
    BY <1>1, <1>4, <2>1 DEF Positive
  <2> QED
    BY <2>2 DEF Positive
<1>7. /\ Tail(old) \in Seq(Int) /\ Len(Tail(old)) = n - 1
      /\ \A s \in 1..(n - 1) : Tail(old)[s] = old[s + 1]
  BY <1>6, EmptySeq, HeadTailProperties DEF Positive
<1>8. /\ Append(Tail(old), t) \in [1..n -> Int]
      /\ \A s \in 1..(n - 1) : Append(Tail(old), t)[s] = old[s + 1]
      /\ Append(Tail(old), t)[n] = t
  <2> DEFINE tail == Tail(old)
  <2> HIDE DEF tail
  <2>1. tail \in Seq(Int) /\ Len(tail) = n - 1 /\ t \in Int
        /\ \A s \in 1..(n - 1) : tail[s] = old[s + 1]
    BY <1>1, <1>7 DEF tail
  <2>2. /\ Append(tail, t) \in Seq(Int) /\ Len(Append(tail, t)) = n
        /\ Append(tail, t)[n] = t
        /\ \A s \in 1..(n - 1) : Append(tail, t)[s] = tail[s]
    <3>1. /\ Append(tail, t) \in Seq(Int) /\ Len(Append(tail, t)) = Len(tail) + 1
          /\ \A s \in 1..Len(tail) : Append(tail, t)[s] = tail[s]
          /\ Append(tail, t)[Len(tail) + 1] = t
      BY <2>1, AppendProperties
    <3>2. Len(tail) + 1 = n
      BY <2>1 DEF Positive
    <3> QED
      BY <2>1, <3>1, <3>2
  <2>3. Append(tail, t) \in [1..n -> Int]
    <3> DEFINE longer == Append(tail, t)
    <3> HIDE DEF longer
    <3>1. longer \in Seq(Int) /\ Len(longer) = n
      BY <2>2 DEF longer
    <3>2. longer \in [1..Len(longer) -> Int]
      BY <3>1, LenProperties
    <3> QED
      BY <3>1, <3>2 DEF longer
  <2> QED
    BY <2>1, <2>2, <2>3 DEF tail
<1>9. ASSUME NEW s \in 1..n PROVE Append(Tail(old), t)[s] = new[s]
  <2>1. CASE s = n
    <3>1. (n - s) * d = 0
      BY <1>1, <2>1 DEF Positive
    <3> QED
      BY <1>1, <1>5, <1>8, <2>1, <3>1 DEF Positive
  <2>2. CASE s # n
    <3>1. s \in 1..(n - 1) /\ s + 1 \in 1..n
      BY <2>2 DEF Positive
    <3>2. old[s + 1] = IF t - d > z + (n - (s + 1)) * d
                       THEN (t - d) - (n - (s + 1)) * d ELSE 0
      BY <1>4, <3>1
    <3>3. (n - (s + 1)) * d = (n - s) * d - d
      BY <1>1 DEF Positive
    <3>4. (n - s) * d \in Int
      BY <1>1 DEF Positive
    <3>5. old[s + 1] = IF t > z + (n - s) * d THEN t - (n - s) * d ELSE 0
      BY <1>1, <3>2, <3>3, <3>4 DEF Positive
    <3> QED
      BY <1>5, <1>8, <3>1, <3>5
  <2> QED
    BY <2>1, <2>2
<1>10. Append(Tail(old), t) = new
  <2>1. new = [s \in 1..n |-> new[s]]
    BY <1>5
  <2>2. Append(Tail(old), t) = [s \in 1..n |-> Append(Tail(old), t)[s]]
    BY <1>8
  <2> QED
    BY <2>1, <2>2, <1>9
<1> QED
  BY <1>10 DEF Chain!Shifted, old, new

LEMMA ChainInit == Chain!Init => ChainIInv
<1> SUFFICES ASSUME Chain!Init PROVE ChainIInv
  OBVIOUS
<1>1. /\ v1 = "none" /\ v2 = << >> /\ v3 = 0 /\ v4 = << >> /\ v5 = << >>
      /\ v7 = 1 /\ v8 = 0 /\ v9 = 0 /\ v10 = "none"
  BY DEF Chain!Init
<1>2. ChainTypes
  BY <1>1, BoundsAssumption, EmptySeq DEF ChainTypes
<1>3. ChainPreparing /\ ChainPrepared /\ ChainHolds /\ ChainAnswers
  BY <1>1 DEF ChainPreparing, ChainPrepared, ChainHolds, ChainAnswers
<1>4. ChainCounts
  BY <1>1, EmptySeq DEF ChainCounts
<1> QED
  BY <1>2, <1>3, <1>4 DEF ChainIInv

LEMMA StartModelKeeps == ChainIInv /\ Chain!StartModel => ChainIInv'
<1> SUFFICES ASSUME ChainIInv, Chain!StartModel PROVE ChainIInv'
  OBVIOUS
<1>1. /\ v1' = "preparing" /\ v2' \in Chains /\ v6' = Chain!Zeroed(v2')
      /\ v3' = v3 /\ v4' = << >> /\ v5' = << >> /\ v7' = 1 /\ v8' = 0 /\ v9' = 0
      /\ v10' = "none"
  BY DEF Chain!StartModel
<1>2. v3 \in Nat
  BY DEF ChainIInv, ChainTypes
<1>3. Len(v2') \in Nat /\ 1 \in 1..Len(v2') /\ 1 \in 1..(Len(v2') + 1)
  BY <1>1, ModelFacts DEF Positive
<1>4. ChainTypes'
  BY <1>1, <1>2, <1>3, BoundsAssumption, EmptySeq DEF ChainTypes
<1>5. ChainPreparing'
  BY <1>1, <1>3, EmptySeq DEF ChainPreparing
<1>6. ChainPrepared' /\ ChainHolds' /\ ChainAnswers'
  BY <1>1 DEF ChainPrepared, ChainHolds, ChainAnswers
<1>7. ChainCounts'
  BY <1>1, EmptySeq DEF ChainCounts
<1> QED
  BY <1>4, <1>5, <1>6, <1>7 DEF ChainIInv

LEMMA PrepareLayerKeeps == ChainIInv /\ Chain!PrepareLayer => ChainIInv'
<1> SUFFICES ASSUME ChainIInv, Chain!PrepareLayer PROVE ChainIInv'
  OBVIOUS
<1> DEFINE period == Chain!Period(v2[v7], v3 + 1)
<1>1. /\ v1 = "preparing" /\ v4' = Append(v4, period) /\ v5' = Append(v5, v4'[v7])
      /\ v3' = Chain!Counted(v2[v7], v3)
      /\ v2' = v2 /\ v6' = v6 /\ v8' = v8 /\ v9' = v9 /\ v10' = v10
      /\ v7 < Len(v2) => v7' = v7 + 1 /\ v1' = v1
      /\ ~(v7 < Len(v2)) => v7' = 1 /\ v1' = "ready"
  BY DEF Chain!PrepareLayer
<1>2. /\ v2 \in Chains /\ v7 \in 1..Len(v2) /\ Len(v4) = v7 - 1 /\ v8 = 0 /\ v9 = 0
      /\ v6 = Chain!Zeroed(v2)
      /\ v3 \in Nat /\ v4 \in Seq(Positive) /\ v5 \in Seq(Nat) /\ Len(v5) = Len(v4)
      /\ v10 \in {"none", "ok", "abort"} /\ v9 \in 0..v8 /\ v8 \in 0..MaxInvokes
  BY <1>1 DEF ChainIInv, ChainTypes, ChainPreparing, ChainPrepared
<1>3. /\ Len(v2) \in Nat /\ Len(v2) >= 1 /\ DOMAIN v2 = 1..Len(v2)
      /\ \A k \in 1..Len(v2) : v2[k].slots \in Positive /\ v2[k].cycles \in Nat
  BY <1>2, ModelFacts DEF Positive
<1>4. period \in Positive /\ v3' \in Nat
  BY <1>1, <1>2, <1>3 DEF Chain!Period, Chain!Counted, Positive
<1> HIDE DEF period
<1>5. /\ v4' \in Seq(Positive) /\ Len(v4') = v7 /\ v4'[v7] = period
      /\ \A k \in 1..(v7 - 1) : v4'[k] = v4[k]
  <2>1. /\ v4' \in Seq(Positive) /\ Len(v4') = Len(v4) + 1 /\ v4'[Len(v4) + 1] = period
        /\ \A k \in 1..Len(v4) : v4'[k] = v4[k]
    BY <1>1, <1>2, <1>4, AppendProperties
  <2>2. Len(v4) + 1 = v7
    BY <1>2
  <2> QED
    BY <1>2, <2>1, <2>2
<1>6. /\ v5' \in Seq(Nat) /\ Len(v5') = v7 /\ v5'[v7] = period
      /\ \A k \in 1..(v7 - 1) : v5'[k] = v5[k]
  <2>1. period \in Nat
    BY <1>4 DEF Positive
  <2>2. /\ v5' \in Seq(Nat) /\ Len(v5') = Len(v5) + 1 /\ v5'[Len(v5) + 1] = period
        /\ \A k \in 1..Len(v5) : v5'[k] = v5[k]
    BY <1>1, <1>2, <1>5, <2>1, AppendProperties
  <2>3. Len(v5) + 1 = v7
    BY <1>2
  <2> QED
    BY <1>2, <2>2, <2>3
<1>7. v7' \in 1..Len(v2) /\ v1' \in {"preparing", "ready"}
  BY <1>1, <1>2, <1>3 DEF Positive
<1>8. ChainTypes'
  <2>1. v7' \in 1..(Len(v2) + 1)
    BY <1>3, <1>7 DEF Positive
  <2> QED
    BY <1>1, <1>2, <1>4, <1>5, <1>6, <1>7, <2>1 DEF ChainTypes
<1>9. ChainPreparing'
  <2> SUFFICES ASSUME v1' = "preparing" PROVE Len(v4') = v7' - 1
    BY <1>1, <1>2, <1>7 DEF ChainPreparing
  <2>1. v7' = v7 + 1
    BY <1>1
  <2> QED
    BY <1>2, <1>5, <2>1
<1>10. ChainPrepared'
  <2>1. ASSUME v1' = "ready" PROVE Len(v4') = Len(v2)
    <3>1. ~(v7 < Len(v2))
      BY <1>1, <2>1
    <3>2. v7 \in 1..Len(v2) /\ Len(v2) \in Nat
      BY <1>2, <1>3
    <3>3. v7 = Len(v2)
      BY <3>1, <3>2
    <3> QED
      BY <1>5, <3>3
  <2>2. DOMAIN v6' = 1..Len(v2)
    BY <1>1, <1>2, <1>3 DEF Chain!Zeroed
  <2> QED
    BY <1>1, <1>2, <1>7, <2>1, <2>2 DEF ChainPrepared
<1>11. ChainCounts'
  <2>1. ASSUME NEW k \in 1..Len(v4) PROVE v5[k] = v4[k]
    <3>1. Turns(k) = 0
      BY <1>1, <1>2 DEF Turns
    <3> QED
      BY <1>2, <3>1, CountdownStarts DEF ChainIInv, ChainCounts
  <2>2. ASSUME NEW k \in 1..Len(v4') PROVE v5'[k] = Countdown(v4', k, Turns(k)')
    <3>1. Turns(k)' = 0
      BY <1>1, <1>2, <1>7 DEF Turns
    <3>2. Countdown(v4', k, 0) = v4'[k]
      BY <1>5, CountdownStarts
    <3>3. v5'[k] = v4'[k]
      <4>1. k \in 1..v7 /\ v7 \in Nat
        BY <1>2, <1>5
      <4>2. CASE k = v7
        BY <1>5, <1>6, <4>2
      <4>3. CASE k # v7
        <5>1. k \in 1..(v7 - 1) /\ k \in 1..Len(v4)
          BY <1>2, <4>1, <4>3
        <5> QED
          BY <1>5, <1>6, <2>1, <5>1
      <4> QED
        BY <4>2, <4>3
    <3> QED
      BY <3>1, <3>2, <3>3
  <2> QED
    BY <2>2 DEF ChainCounts
<1>12. ChainHolds'
  <2> SUFFICES ASSUME v1' = "ready", NEW k \in 1..Len(v2)
               PROVE  v6'[k] = LastInputs(v4', k, Turns(k)', v9', v2[k].slots)
    BY <1>1, <1>7 DEF ChainHolds
  <2>1. Turns(k)' = 0 /\ v9' = 0
    BY <1>1, <1>2 DEF Turns
  <2>2. k \in 1..Len(v4')
    BY <1>1, <1>2, <1>3, <1>5 DEF Positive
  <2>3. LastInputs(v4', k, 0, 0, v2[k].slots) = Zeros(v2[k].slots)
    <3>1. v2[k].slots \in Positive /\ 0 \in Nat
      BY <1>3
    <3> QED
      BY <1>5, <2>2, <3>1, LastInputsZero
  <2>4. v6'[k] = Zeros(v2[k].slots)
    BY <1>1, <1>2, <1>3 DEF Chain!Zeroed, Zeros
  <2> QED
    BY <2>1, <2>3, <2>4
<1>13. ChainAnswers'
  BY <1>1, <1>2 DEF ChainAnswers
<1> QED
  BY <1>8, <1>9, <1>10, <1>11, <1>12, <1>13 DEF ChainIInv

LEMMA PrepareFailsKeeps == ChainIInv /\ Chain!PrepareFails => ChainIInv'
<1> SUFFICES ASSUME ChainIInv, Chain!PrepareFails PROVE ChainIInv'
  OBVIOUS
<1>1. /\ v1 = "preparing" /\ v1' = "none"
      /\ UNCHANGED <<v2, v3, v4, v5, v6, v7, v8, v9, v10>>
  BY DEF Chain!PrepareFails, Chain!data
<1>2. ChainTypes'
  BY <1>1 DEF ChainIInv, ChainTypes
<1>3. ChainPreparing' /\ ChainPrepared' /\ ChainHolds' /\ ChainAnswers'
  BY <1>1 DEF ChainIInv, ChainPreparing, ChainPrepared, ChainHolds, ChainAnswers
<1>4. ChainCounts'
  <2>1. \A k : Turns(k)' = Turns(k)
    BY <1>1 DEF Turns
  <2> QED
    BY <1>1, <2>1 DEF ChainIInv, ChainCounts
<1> QED
  BY <1>2, <1>3, <1>4 DEF ChainIInv

LEMMA StartInvokeKeeps == ChainIInv /\ Chain!StartInvoke => ChainIInv'
<1> SUFFICES ASSUME ChainIInv, Chain!StartInvoke PROVE ChainIInv'
  OBVIOUS
<1>1. /\ v1 = "ready" /\ v8 < MaxInvokes /\ v1' = "running" /\ v7' = 1 /\ v8' = v8 + 1
      /\ UNCHANGED <<v2, v3, v4, v5, v6, v9, v10>>
  BY DEF Chain!StartInvoke, Chain!data
<1>2. /\ v2 \in Chains /\ Len(v4) = Len(v2) /\ DOMAIN v6 = 1..Len(v2)
      /\ v8 \in 0..MaxInvokes /\ v9 \in 0..v8 /\ v8 \in Nat
  BY <1>1, BoundsAssumption DEF ChainIInv, ChainTypes, ChainPrepared
<1>3. Len(v2) \in Nat /\ 1 \in 1..Len(v2) /\ 1 \in 1..(Len(v2) + 1)
  BY <1>2, ModelFacts DEF Positive
<1>4. ChainTypes'
  <2>1. v8' \in 0..MaxInvokes /\ v9' \in 0..v8'
    BY <1>1, <1>2, BoundsAssumption
  <2> QED
    BY <1>1, <1>3, <2>1 DEF ChainIInv, ChainTypes
<1>5. ChainPreparing' /\ ChainAnswers'
  BY <1>1 DEF ChainPreparing, ChainAnswers
<1>6. ChainPrepared'
  <2>1. Strides(v4)[1 - 1] = 1
    BY StridesFacts
  <2>2. ((v8 + 1) % 1) = 0 /\ v9 < v8 + 1
    BY <1>2
  <2> QED
    BY <1>1, <1>2, <1>3, <2>1, <2>2 DEF ChainPrepared
<1>7. ASSUME NEW k \in 1..Len(v2) PROVE Turns(k)' = Turns(k)
  BY <1>1, <1>2 DEF Turns
<1>8. ChainCounts' /\ ChainHolds'
  BY <1>1, <1>2, <1>7 DEF ChainIInv, ChainCounts, ChainHolds
<1> QED
  BY <1>4, <1>5, <1>6, <1>8 DEF ChainIInv

LEMMA ResetKeeps == ChainIInv /\ Chain!Reset => ChainIInv'
<1> SUFFICES ASSUME ChainIInv, Chain!Reset PROVE ChainIInv'
  OBVIOUS
<1>1. /\ v1 = "ready" /\ v6' = Chain!Zeroed(v2) /\ v9' = v8
      /\ UNCHANGED <<v1, v2, v3, v4, v5, v7, v8, v10>>
  BY DEF Chain!Reset, Chain!data
<1>2. /\ v2 \in Chains /\ Len(v4) = Len(v2) /\ v4 \in Seq(Positive) /\ v8 \in Nat
      /\ v8 \in 0..v8
  BY <1>1, BoundsAssumption DEF ChainIInv, ChainTypes, ChainPrepared
<1>3. DOMAIN v2 = 1..Len(v2) /\ \A k \in 1..Len(v2) : v2[k].slots \in Positive
  BY <1>2, ModelFacts
<1>4. ChainTypes'
  BY <1>1, <1>2 DEF ChainIInv, ChainTypes
<1>5. ChainPreparing' /\ ChainAnswers'
  BY <1>1 DEF ChainIInv, ChainPreparing, ChainAnswers
<1>6. ChainPrepared'
  BY <1>1, <1>3 DEF ChainIInv, ChainPrepared, Chain!Zeroed
<1>7. \A k : Turns(k)' = Turns(k) /\ Turns(k) = v8
  BY <1>1 DEF Turns
<1>8. ChainCounts'
  BY <1>1, <1>7 DEF ChainIInv, ChainCounts
<1>9. ChainHolds'
  <2> SUFFICES ASSUME NEW k \in 1..Len(v2)
               PROVE  v6'[k] = LastInputs(v4, k, v8, v8, v2[k].slots)
    BY <1>1, <1>7 DEF ChainHolds
  <2>1. LastInputs(v4, k, v8, v8, v2[k].slots) = Zeros(v2[k].slots)
    <3>1. v2[k].slots \in Positive /\ k \in 1..Len(v4)
      BY <1>2, <1>3
    <3> QED
      BY <1>2, <3>1, LastInputsZero
  <2>2. v6'[k] = Zeros(v2[k].slots)
    BY <1>1, <1>3 DEF Chain!Zeroed, Zeros
  <2> QED
    BY <2>1, <2>2
<1> QED
  BY <1>4, <1>5, <1>6, <1>8, <1>9 DEF ChainIInv

\* When the loop ends early, or goes on to the next operator, the turns of the
\* operators in front do not change, and those behind have missed theirs.
LEMMA RunLayerKeeps == ChainIInv /\ Chain!RunLayer => ChainIInv'
<1> SUFFICES ASSUME ChainIInv, Chain!RunLayer PROVE ChainIInv'
  OBVIOUS
<1>1. /\ v1 = "running"
      /\ v6' = [v6 EXCEPT ![v7] = Chain!Shifted(@, v8)]
      /\ v5[v7] # 1 => /\ v5' = [v5 EXCEPT ![v7] = @ - 1]
                       /\ v1' = "ready" /\ v10' = "abort" /\ v7' = 1
      /\ v5[v7] = 1 => /\ v5' = [v5 EXCEPT ![v7] = v4[v7]]
                       /\ v7 < Len(v2) => v7' = v7 + 1 /\ v1' = v1 /\ v10' = v10
                       /\ ~(v7 < Len(v2)) => v7' = 1 /\ v1' = "ready" /\ v10' = "ok"
      /\ UNCHANGED <<v2, v3, v4, v8, v9>>
  BY DEF Chain!RunLayer
<1>2. /\ v2 \in Chains /\ Len(v4) = Len(v2) /\ v7 \in 1..Len(v2) /\ DOMAIN v6 = 1..Len(v2)
      /\ v4 \in Seq(Positive) /\ v5 \in Seq(Nat) /\ Len(v5) = Len(v4)
      /\ v8 \in Nat /\ v9 \in Nat /\ v9 < v8 /\ (v8 % Strides(v4)[v7 - 1]) = 0
      /\ v8 \in Positive
  BY <1>1, BoundsAssumption DEF ChainIInv, ChainTypes, ChainPrepared, Positive
<1>3. /\ Len(v2) \in Nat /\ Len(v2) >= 1
      /\ \A k \in 1..Len(v2) : v2[k].slots \in Positive
  BY <1>2, ModelFacts, SMTT(60) DEF Positive
<1>4. v5[v7] = Countdown(v4, v7, v8 - 1)
  <2>1. Turns(v7) = v8 - 1
    BY <1>1, <1>2 DEF Turns
  <2> QED
    BY <1>2, <2>1 DEF ChainIInv, ChainCounts
<1>5. /\ v5[v7] = 1 <=> (v8 % Strides(v4)[v7]) = 0
      /\ v5[v7] = 1 => Countdown(v4, v7, v8) = v4[v7]
      /\ v5[v7] # 1 => Countdown(v4, v7, v8) = v5[v7] - 1
  BY <1>2, <1>4, TurnCounted
<1>6. v5'[v7] = Countdown(v4, v7, v8) /\ v5' \in Seq(Nat) /\ Len(v5') = Len(v5)
      /\ \A k \in 1..Len(v4) : k # v7 => v5'[k] = v5[k]
  <2>1. DOMAIN v5 = 1..Len(v2) /\ v5[v7] \in Nat /\ v4[v7] \in Positive
    BY <1>2
  <2>2. Countdown(v4, v7, v8) \in Nat
    BY <1>2, <2>1, CountdownRange DEF Positive
  <2>3. v5' = [v5 EXCEPT ![v7] = Countdown(v4, v7, v8)]
    BY <1>1, <1>5, <2>1
  <2>4. v7 \in 1..Len(v5)
    BY <1>2
  <2> QED
    BY <1>2, <2>1, <2>2, <2>3, <2>4, ExceptSeq
<1>7. ASSUME NEW k \in 1..Len(v2)
      PROVE  /\ k < v7 => Turns(k) = v8
             /\ k >= v7 => Turns(k) = v8 - 1
  BY <1>1, <1>2 DEF Turns
<1>8. v6'[v7] = LastInputs(v4, v7, v8, v9, v2[v7].slots)
      /\ \A k \in 1..Len(v2) : k # v7 => v6'[k] = v6[k]
  <2>1. v6[v7] = LastInputs(v4, v7, v8 - 1, v9, v2[v7].slots)
    BY <1>1, <1>2, <1>7 DEF ChainIInv, ChainHolds
  <2>2. Chain!Shifted(v6[v7], v8) = LastInputs(v4, v7, v8, v9, v2[v7].slots)
    <3>1. v7 \in 1..Len(v4) /\ v2[v7].slots \in Positive
      BY <1>2, <1>3
    <3>2. Chain!Shifted(LastInputs(v4, v7, v8 - 1, v9, v2[v7].slots), v8)
            = LastInputs(v4, v7, v8, v9, v2[v7].slots)
      BY <1>2, <3>1, TurnShifted
    <3> QED
      BY <2>1, <3>2
  <2> QED
    BY <1>1, <1>2, <2>2
<1>9. v7' \in 1..Len(v2) /\ v1' \in {"ready", "running"}
  BY <1>1, <1>2, <1>3
<1>10. DOMAIN v6' = 1..Len(v2)
  BY <1>1, <1>2
<1>11. ChainTypes'
  <2>1. v7' \in 1..(Len(v2) + 1)
    BY <1>3, <1>9
  <2>2. v10' \in {"none", "ok", "abort"}
    BY <1>1, <1>3, <1>2 DEF ChainIInv, ChainTypes
  <2> QED
    BY <1>1, <1>2, <1>6, <1>9, <2>1, <2>2 DEF ChainIInv, ChainTypes
<1>12. ChainPreparing'
  BY <1>9 DEF ChainPreparing
<1>13. ChainPrepared'
  <2>1. ASSUME v1' = "running" PROVE (v8 % Strides(v4)[v7' - 1]) = 0
    <3>1. v5[v7] = 1 /\ v7' = v7 + 1
      BY <1>1, <2>1
    <3>2. v7' - 1 = v7
      BY <1>2, <3>1
    <3> QED
      BY <1>5, <3>1, <3>2
  <2> QED
    BY <1>1, <1>2, <1>9, <1>10, <2>1 DEF ChainPrepared
\* Every operator has the state of its turns.
<1>14. ASSUME NEW k \in 1..Len(v2)
       PROVE  /\ v5'[k] = Countdown(v4, k, Turns(k)')
              /\ v6'[k] = LastInputs(v4, k, Turns(k)', v9, v2[k].slots)
  <2>1. k \in 1..Len(v4)
    BY <1>2
  <2>2. k # v7 => /\ v5'[k] = Countdown(v4, k, Turns(k))
                  /\ v6'[k] = LastInputs(v4, k, Turns(k), v9, v2[k].slots)
    BY <1>1, <1>6, <1>8, <2>1 DEF ChainIInv, ChainCounts, ChainHolds
  <2>3. CASE k = v7
    <3>1. Turns(k)' = v8
      BY <1>1, <1>2, <2>3 DEF Turns
    <3> QED
      BY <1>6, <1>8, <2>3, <3>1
  <2>4. CASE k < v7
    <3>1. Turns(k)' = v8 /\ Turns(k) = v8 /\ k # v7
      BY <1>1, <1>2, <1>7, <2>4 DEF Turns
    <3> QED
      BY <2>2, <3>1
  <2>5. CASE k > v7 /\ v1' = "running"
    <3>1. v7' = v7 + 1 /\ k >= v7'
      BY <1>1, <1>2, <2>5
    <3>2. Turns(k)' = v8 - 1 /\ Turns(k) = v8 - 1 /\ k # v7
      BY <1>1, <1>2, <1>7, <2>5, <3>1 DEF Turns
    <3> QED
      BY <2>2, <3>2
  <2>6. CASE k > v7 /\ v1' = "ready"
    <3>1. Turns(k)' = v8 /\ Turns(k) = v8 - 1 /\ k # v7
      BY <1>1, <1>2, <1>7, <2>6 DEF Turns
    <3>2. (v8 % Strides(v4)[v7]) # 0
      BY <1>1, <1>2, <1>3, <1>5, <2>6
    <3>3. (v8 % Strides(v4)[k - 1]) # 0
      <4>1. v7 \in 0..Len(v4) /\ k - 1 \in 0..Len(v4) /\ v7 <= k - 1
        BY <1>2, <2>1, <2>6
      <4> QED
        BY <1>2, <3>2, <4>1, StridesDivide
    <3> QED
      BY <1>2, <2>1, <2>2, <3>1, <3>3, TurnMissed
  <2> QED
    BY <1>2, <1>9, <2>3, <2>4, <2>5, <2>6
<1>15. ChainCounts' /\ ChainHolds'
  BY <1>1, <1>2, <1>14 DEF ChainCounts, ChainHolds
<1>16. ChainAnswers'
  <2> SUFFICES ASSUME v1' = "ready"
               PROVE  v10' = IF (v8 % Strides(v4)[Len(v2)]) = 0 THEN "ok" ELSE "abort"
    BY <1>1 DEF ChainAnswers
  <2>1. CASE v5[v7] = 1
    <3>1. v7 = Len(v2) /\ v10' = "ok"
      BY <1>1, <1>2, <1>3, <2>1
    <3> QED
      BY <1>5, <2>1, <3>1
  <2>2. CASE v5[v7] # 1
    <3>1. v10' = "abort" /\ (v8 % Strides(v4)[v7]) # 0
      BY <1>1, <1>5, <2>2
    <3>2. v7 \in 0..Len(v4) /\ Len(v2) \in 0..Len(v4) /\ v7 <= Len(v2)
      BY <1>2, <1>3
    <3>3. (v8 % Strides(v4)[Len(v2)]) # 0
      BY <1>2, <3>1, <3>2, StridesDivide
    <3> QED
      BY <3>1, <3>3
  <2> QED
    BY <2>1, <2>2
<1> QED
  BY <1>11, <1>12, <1>13, <1>15, <1>16 DEF ChainIInv

LEMMA ChainInvariant == SignalSpec => [](part = "chain" => ChainIInv)
<1> DEFINE I == part = "chain" => ChainIInv
<1>1. SignalInit => I
  BY ChainInit DEF SignalInit
<1>2. ASSUME I, [SignalNext]_<<part, vars, from1>> PROVE I'
  <2>1. CASE UNCHANGED <<part, vars, from1>>
    <3>1. UNCHANGED <<part, v1, v2, v3, v4, v5, v6, v7, v8, v9, v10>>
      BY <2>1 DEF from1, from9
    <3>2. \A k : Turns(k)' = Turns(k)
      BY <3>1 DEF Turns
    <3> QED
      BY <1>2, <3>1, <3>2 DEF ChainIInv, ChainTypes, ChainPreparing, ChainPrepared,
         ChainCounts, ChainHolds, ChainAnswers
  <2>2. CASE SignalNext
    <3> SUFFICES ASSUME part' = "chain" PROVE ChainIInv'
      OBVIOUS
    <3>1. part = "chain" /\ Chain!Next /\ ChainIInv
      BY <1>2, <2>2 DEF SignalNext
    <3> QED
      BY <3>1, StartModelKeeps, PrepareLayerKeeps, PrepareFailsKeeps, StartInvokeKeeps,
         RunLayerKeeps, ResetKeeps DEF Chain!Next
  <2> QED
    BY <1>2, <2>1, <2>2
<1> QED
  BY <1>1, <1>2, PTL DEF SignalSpec

\* Strides multiply (CircularBufferEval and the loop of InvokeSubgraph): for any chain
\* of CIRCULAR_BUFFER operators, of whatever periods and slots, the model has a result
\* exactly at the multiples of the product, each operator holds its last inputs since
\* the last reset, and no countdown reaches zero.
THEOREM ChainsStayRight == SignalSpec => []ChainsRight
<1>1. ASSUME part = "chain" => ChainIInv PROVE ChainsRight
  <2> SUFFICES ASSUME ChainIInv
               PROVE  Chain!TypeOK /\ Chain!StridesMultiply /\ Chain!SlotsAreLastInputs
    BY <1>1 DEF ChainsRight
  <2>1. ASSUME v1 \in {"ready", "running"}
        PROVE  /\ v2 \in Chains /\ Len(v4) = Len(v2) /\ DOMAIN v2 = 1..Len(v2)
               /\ \A k \in 1..Len(v2) :
                    /\ v2[k].slots \in Nat
                    /\ v6[k] = LastInputs(v4, k, Turns(k), v9, v2[k].slots)
    BY <2>1, ModelFacts DEF ChainIInv, ChainPrepared, ChainHolds, Positive
  <2>2. Chain!TypeOK
    <3>1. ASSUME NEW k \in DOMAIN v4 PROVE v5[k] \in 1..v4[k]
      <4>1. v4 \in Seq(Positive) /\ k \in 1..Len(v4) /\ v8 \in Nat
        BY BoundsAssumption DEF ChainIInv, ChainTypes
      <4>2. Turns(k) \in Nat
        BY <4>1 DEF Turns, ChainIInv, ChainPrepared, ChainTypes
      <4> QED
        BY <4>1, <4>2, CountdownRange DEF ChainIInv, ChainCounts
    <3>2. ASSUME v1 \in {"ready", "running"}, NEW k \in 1..Len(v2)
          PROVE  Len(v6[k]) = v2[k].slots
      <4>1. \A n \in Nat : \A f : f = [s \in 1..n |-> f[s]] => Len(f) = n
        OBVIOUS
      <4>2. v6[k] = [s \in 1..v2[k].slots |-> v6[k][s]]
        BY <2>1, <3>2 DEF LastInputs
      <4> QED
        BY <2>1, <3>2, <4>1, <4>2
    <3> QED
      BY <2>1, <3>1, <3>2 DEF Chain!TypeOK, Chain!Layers, ChainIInv, ChainTypes
  <2>3. Chain!StridesMultiply
    BY StrideIs DEF Chain!StridesMultiply, ChainIInv, ChainAnswers
  <2>4. Chain!SlotsAreLastInputs
    <3>1. ASSUME v1 = "ready", NEW k \in 1..Len(v2) PROVE Turns(k) = v8
      BY <3>1 DEF Turns
    <3>2. ASSUME v1 = "ready", NEW k \in 1..Len(v2), NEW s \in 1..v2[k].slots
          PROVE  LET latest == (v8 \div Strides(v4)[k - 1]) * Strides(v4)[k - 1]
                     back == (v2[k].slots - s) * Strides(v4)[k - 1]
                 IN v6[k][s] = IF latest > v9 + back THEN latest - back ELSE 0
      <4>1. v6[k] = LastInputs(v4, k, v8, v9, v2[k].slots)
        BY <2>1, <3>1, <3>2
      <4> QED
        BY <3>2, <4>1 DEF LastInputs
    <3> QED
      BY <2>1, <3>2, StrideIs DEF Chain!SlotsAreLastInputs, Chain!Layers
  <2> QED
    BY <2>2, <2>3, <2>4
<1> QED
  BY <1>1, ChainInvariant, PTL

-----------------------------------------------------------------------------
(* Buffers of any capacity, as the kernels keep them: what can be read is a sequence. *)

\* A buffer of capacity c.
Ring(b, c) ==
  /\ b \in [capacity : {c}, read : 0..(c - 1), write : 0..(c - 1), empty : BOOLEAN,
            buffer : [0..(2 * c - 1) -> Int]]
  /\ b.empty => b.read = b.write
  /\ \A i \in 0..(c - 1) : b.buffer[i] = b.buffer[i + c]

\* The k-th of the values to be read, from 1.
Unread(b, k) ==
  b.buffer[IF b.read + k - 1 >= b.capacity THEN b.read + k - 1 - b.capacity ELSE b.read + k - 1]

LEMMA RingFacts ==
  ASSUME NEW c \in Nat \ {0}, NEW b, Ring(b, c)
  PROVE  /\ b.capacity = c /\ b.read \in 0..(c - 1) /\ b.write \in 0..(c - 1)
         /\ b.empty \in BOOLEAN
         /\ b.empty => b.read = b.write
         /\ b.buffer \in [0..(2 * c - 1) -> Int] /\ DOMAIN b.buffer = 0..(2 * c - 1)
         /\ \A i \in 0..(c - 1) : b.buffer[i] = b.buffer[i + c]
  BY DEF Ring

LEMMA RingAvailable ==
  ASSUME NEW c \in Nat \ {0}, NEW b, Ring(b, c)
  PROVE  /\ Available(b) \in 0..c
         /\ CanWrite(b) = c - Available(b)
         /\ b.write > b.read => Available(b) = b.write - b.read
         /\ b.write < b.read => Available(b) = c + b.write - b.read
         /\ b.write = b.read => Available(b) = IF b.empty THEN 0 ELSE c
  BY RingFacts DEF Available, CanWrite

\* Init and Reset leave nothing to be read.
LEMMA RingNew ==
  ASSUME NEW c \in Nat \ {0}
  PROVE  Ring(New(c), c) /\ Available(New(c)) = 0 /\ New(c).write = 0 /\ New(c).read = 0
<1>1. New(c).buffer = [i \in 0..(2 * c - 1) |-> 0]
  BY DEF New
<1>2. \A i \in 0..(c - 1) : i \in 0..(2 * c - 1) /\ i + c \in 0..(2 * c - 1)
  OBVIOUS
<1>3. New(c) \in [capacity : {c}, read : 0..(c - 1), write : 0..(c - 1), empty : BOOLEAN,
                  buffer : [0..(2 * c - 1) -> Int]]
  BY DEF New
<1>4. New(c).read = 0 /\ New(c).write = 0 /\ New(c).empty
  BY DEF New
<1>5. \A i \in 0..(c - 1) : New(c).buffer[i] = New(c).buffer[i + c]
  BY <1>1, <1>2
<1>6. Available(New(c)) = 0
  BY <1>4 DEF Available
<1> QED
  BY <1>3, <1>4, <1>5, <1>6 DEF Ring

LEMMA RingReset ==
  ASSUME NEW c \in Nat \ {0}, NEW b, Ring(b, c)
  PROVE  Reset(b) = New(c)
<1>1. b \in [capacity : {c}, read : 0..(c - 1), write : 0..(c - 1), empty : BOOLEAN,
             buffer : [0..(2 * c - 1) -> Int]]
  BY DEF Ring
<1>2. PICK z : z = [i \in 0..(2 * c - 1) |-> 0]
  OBVIOUS
<1>3. b.capacity = c
  BY <1>1
<1>4. Reset(b) = [b EXCEPT !.read = 0, !.write = 0, !.empty = TRUE, !.buffer = z]
  BY <1>2, <1>3 DEF Reset
<1>5. New(c) = [capacity |-> c, read |-> 0, write |-> 0, empty |-> TRUE, buffer |-> z]
  BY <1>2 DEF New
<1> QED
  BY <1>1, <1>3, <1>4, <1>5

\* A copy keeps the slots in their range.
LEMMA CopyType ==
  ASSUME NEW d \in SUBSET Int, NEW buffer \in [d -> Int], NEW at \in Int, NEW from \in Nat, NEW n \in Int,
         NEW vs \in Seq(Int), from + n <= Len(vs)
  PROVE  CopyIn(buffer, at, vs, from, n) \in [d -> Int]
<1>1. ASSUME NEW i \in d, i \in at..(at + n - 1) PROVE vs[from + i - at + 1] \in Int
  <2>1. from + i - at + 1 \in 1..Len(vs)
    BY <1>1
  <2> QED
    BY <2>1
<1> QED
  BY <1>1 DEF CopyIn

\* The slots after a write: the values go from `write` on around the end, in both halves.
LEMMA RingSlots ==
  ASSUME NEW c \in Nat \ {0}, NEW b, Ring(b, c),
         NEW vs \in Seq(Int), NEW n \in 1..c, Len(vs) = n,
         NEW w, w = Write(b, vs)
  PROVE  /\ Ring(w, c) /\ w.read = b.read /\ ~w.empty
         /\ w.write = IF b.write + n < c THEN b.write + n ELSE b.write + n - c
         /\ \A i \in 0..(c - 1) :
              w.buffer[i] = IF i >= b.write /\ i < b.write + n THEN vs[i - b.write + 1]
                            ELSE IF i + c < b.write + n THEN vs[i + c - b.write + 1]
                            ELSE b.buffer[i]
<1>1. PICK at \in 0..(c - 1) : at = b.write
  BY RingFacts
<1>2. PICK old \in [0..(2 * c - 1) -> Int] : old = b.buffer
  BY RingFacts
<1>3. /\ b.capacity = c /\ at \in 0..(c - 1) /\ b.read \in 0..(c - 1)
      /\ old \in [0..(2 * c - 1) -> Int]
      /\ \A i \in 0..(c - 1) : old[i] = old[i + c]
  <2>1. b.capacity = c /\ b.read \in 0..(c - 1)
    BY RingFacts
  <2>2. \A i \in 0..(c - 1) : old[i] = old[i + c]
    BY <1>2, RingFacts
  <2> QED
    BY <1>1, <1>2, <2>1, <2>2
<1>4. PICK low : low = CopyIn(old, at, vs, 0, n)
  OBVIOUS
<1>5. PICK mid : mid = CopyIn(low, c + at, vs, 0, c - at)
  OBVIOUS
<1>6. PICK after : after = IF at + n < c THEN CopyIn(low, c + at, vs, 0, n)
                           ELSE CopyIn(mid, 0, vs, c - at, at + n - c)
  OBVIOUS
<1>7. PICK end : end = IF at + n < c THEN at + n ELSE at + n - c
  OBVIOUS
<1>8. w = Stored(b, after, end)
  BY <1>1, <1>2, <1>3, <1>4, <1>5, <1>6, <1>7 DEF Write
<1>9. /\ after \in [0..(2 * c - 1) -> Int]
      /\ \A i \in 0..(c - 1) :
           /\ after[i] = after[i + c]
           /\ after[i] = IF i >= at /\ i < at + n THEN vs[i - at + 1]
                         ELSE IF i + c < at + n THEN vs[i + c - at + 1] ELSE old[i]
  <2>1. CASE at + n < c
    <3>0. after = CopyIn(low, c + at, vs, 0, n)
      BY <1>6, <2>1
    <3>1. /\ after \in [0..(2 * c - 1) -> Int]
          /\ \A i \in 0..(c - 1) :
               /\ after[i] = after[i + c]
               /\ after[i] = IF i >= at /\ i < at + n THEN vs[i - at + 1] ELSE old[i]
      <4>0. PICK d : d = 0..(2 * c - 1)
        BY <1>3, <2>1
      <4>1. d \in SUBSET Int /\ 0 \in Nat /\ 0 + n <= Len(vs) /\ at \in Int /\ c + at \in Int /\ n \in Int
        BY <4>0, <1>3
      <4>2. low \in [d -> Int]
        BY <1>3, <1>4, <4>0, <4>1, CopyType
      <4>3. after \in [d -> Int]
        BY <4>0, <4>1, <4>2, <3>0, CopyType
      <4>4. ASSUME NEW i \in 0..(c - 1)
            PROVE  /\ after[i] = IF i >= at /\ i < at + n THEN vs[i - at + 1] ELSE old[i]
                   /\ after[i + c] = IF i >= at /\ i < at + n THEN vs[i - at + 1] ELSE old[i]
        <5>1. i \in d /\ i + c \in d /\ i \in Int
          BY <4>0, <1>3
        <5>2. /\ i \notin (c + at)..(c + at + n - 1)
              /\ (i \in at..(at + n - 1) <=> i >= at /\ i < at + n)
              /\ (i + c \in (c + at)..(c + at + n - 1) <=> i >= at /\ i < at + n)
              /\ i + c \notin at..(at + n - 1)
              /\ 0 + (i + c) - (c + at) + 1 = i - at + 1
              /\ 0 + i - at + 1 = i - at + 1
          BY <1>3, <2>1
        <5>3. /\ low[i] = IF i >= at /\ i < at + n THEN vs[i - at + 1] ELSE old[i]
              /\ low[i + c] = old[i + c]
          <6>1. old \in [d -> Int]
            BY <4>0, <1>3
          <6>2. \A k \in d : low[k] = IF k \in at..(at + n - 1) THEN vs[0 + k - at + 1] ELSE old[k]
            BY <1>4, <6>1 DEF CopyIn
          <6> QED
            BY <5>1, <5>2, <6>2
        <5>4. /\ after[i] = low[i]
              /\ after[i + c] = IF i >= at /\ i < at + n THEN vs[i - at + 1] ELSE low[i + c]
          <6>1. \A k \in d : after[k] = IF k \in (c + at)..(c + at + n - 1) THEN vs[0 + k - (c + at) + 1]
                                        ELSE low[k]
            BY <3>0, <4>2 DEF CopyIn
          <6> QED
            BY <5>1, <5>2, <6>1
        <5> QED
          BY <1>3, <5>3, <5>4
      <4> QED
        BY <4>0, <4>3, <4>4
    <3>2. \A i \in 0..(c - 1) : ~(i + c < at + n)
      BY <1>3, <2>1
    <3> QED
      BY <3>1, <3>2
  <2>2. CASE at + n >= c
    <3>0. after = CopyIn(mid, 0, vs, c - at, at + n - c)
      BY <1>3, <1>6, <2>2
    <3>2. /\ after \in [0..(2 * c - 1) -> Int]
          /\ \A i \in 0..(c - 1) :
               /\ after[i] = after[i + c]
               /\ after[i] = IF i >= at THEN vs[i - at + 1]
                             ELSE IF i + c < at + n THEN vs[i + c - at + 1] ELSE old[i]
      <4>0. PICK d : d = 0..(2 * c - 1)
        BY <1>3, <2>2
      <4>1. /\ d \in SUBSET Int /\ 0 \in Nat /\ 0 + n <= Len(vs) /\ at \in Int /\ c + at \in Int
            /\ n \in Int /\ c - at \in Nat /\ c - at \in Int /\ 0 + (c - at) <= Len(vs)
            /\ 0 \in Int /\ at + n - c \in Int /\ (c - at) + (at + n - c) <= Len(vs)
        BY <1>3, <4>0, <2>2
      <4>2. low \in [d -> Int]
        BY <1>3, <1>4, <4>0, <4>1, CopyType
      <4>3. mid \in [d -> Int]
        BY <1>5, <4>1, <4>2, <3>0, CopyType
      <4>4. after \in [d -> Int]
        BY <3>0, <4>1, <4>3, CopyType
      <4>5. ASSUME NEW i \in 0..(c - 1)
            PROVE  LET x == IF i >= at THEN vs[i - at + 1]
                            ELSE IF i + c < at + n THEN vs[i + c - at + 1] ELSE old[i]
                   IN  after[i] = x /\ after[i + c] = x
        <5>1. i \in d /\ i + c \in d /\ i \in Int
          BY <1>3, <4>0, <2>2
        <5>2. /\ i \notin (c + at)..(c + at + (c - at) - 1)
              /\ (i \in at..(at + n - 1) <=> i >= at)
              /\ (i \in 0..(0 + (at + n - c) - 1) <=> i + c < at + n)
              /\ (c - at) + i - 0 + 1 = i + c - at + 1
              /\ (i + c \in (c + at)..(c + at + (c - at) - 1) <=> i >= at)
              /\ 0 + (i + c) - (c + at) + 1 = i - at + 1
              /\ 0 + i - at + 1 = i - at + 1
              /\ 0 + (i + c) - at + 1 = i + c - at + 1
              /\ i + c \notin 0..(0 + (at + n - c) - 1)
              /\ (i + c \in at..(at + n - 1) <=> i + c < at + n)
              /\ (i + c < at + n => i < at)
          BY <1>3, <2>2
        <5>3. /\ low[i] = IF i >= at THEN vs[i - at + 1] ELSE old[i]
              /\ low[i + c] = IF i + c < at + n THEN vs[i + c - at + 1] ELSE old[i + c]
          <6>1. old \in [d -> Int]
            BY <1>3, <4>0, <2>2
          <6>2. \A k \in d : low[k] = IF k \in at..(at + n - 1) THEN vs[0 + k - at + 1] ELSE old[k]
            BY <1>4, <6>1 DEF CopyIn
          <6> QED
            BY <5>1, <5>2, <6>2
        <5>4. /\ mid[i] = low[i]
              /\ mid[i + c] = IF i >= at THEN vs[i - at + 1] ELSE low[i + c]
          <6>1. \A k \in d : mid[k] = IF k \in (c + at)..(c + at + (c - at) - 1)
                                      THEN vs[0 + k - (c + at) + 1] ELSE low[k]
            BY <1>5, <4>2 DEF CopyIn
          <6> QED
            BY <5>1, <5>2, <6>1
        <5>5. /\ after[i] = IF i + c < at + n THEN vs[i + c - at + 1] ELSE mid[i]
              /\ after[i + c] = mid[i + c]
          <6>1. \A k \in d : after[k] = IF k \in 0..(0 + (at + n - c) - 1)
                                        THEN vs[(c - at) + k - 0 + 1] ELSE mid[k]
            BY <3>0, <4>3 DEF CopyIn
          <6> QED
            BY <5>1, <5>2, <6>1
        <5>6. old[i] = old[i + c]
          BY <1>3, <2>2
        <5> QED
          BY <5>2, <5>3, <5>4, <5>5, <5>6
      <4> QED
        BY <4>0, <4>4, <4>5
    <3>3. \A i \in 0..(c - 1) : i < at + n
      BY <1>3, <2>2
    <3> QED
      BY <3>2, <3>3
  <2> QED
    <3>1. at + n < c \/ at + n >= c
      BY <1>3
    <3> QED
      BY <2>1, <2>2, <3>1
<1>10. end \in 0..(c - 1)
  BY <1>3, <1>7
<1>11. /\ w \in [capacity : {c}, read : 0..(c - 1), write : 0..(c - 1), empty : BOOLEAN,
                 buffer : [0..(2 * c - 1) -> Int]]
       /\ w.buffer = after /\ w.write = end /\ w.read = b.read /\ ~w.empty
  BY <1>8, <1>9, <1>10 DEF Ring, Stored
<1>12. Ring(w, c)
  BY <1>9, <1>11 DEF Ring
<1> QED
  BY <1>1, <1>2, <1>7, <1>9, <1>11, <1>12

\* The position at which the next value is written follows what can be read.
LEMMA RingEnd ==
  ASSUME NEW c \in Nat \ {0}, NEW b, Ring(b, c)
  PROVE  /\ b.write = IF b.read + Available(b) >= c THEN b.read + Available(b) - c
                      ELSE b.read + Available(b)
         /\ b.empty <=> Available(b) = 0
<1>1. PICK r \in 0..(c - 1), w \in 0..(c - 1) : r = b.read /\ w = b.write
  BY RingFacts
<1>2. PICK a \in 0..c : a = Available(b)
  BY RingAvailable
<1>3. /\ b.empty => r = w
      /\ b.empty \in BOOLEAN
      /\ w > r => a = w - r
      /\ w < r => a = c + w - r
      /\ w = r => a = IF b.empty THEN 0 ELSE c
  BY <1>1, <1>2, RingFacts, RingAvailable
<1>4. w = IF r + a >= c THEN r + a - c ELSE r + a
  BY <1>3
<1>5. b.empty <=> a = 0
  BY <1>3
<1> QED
  BY <1>1, <1>2, <1>4, <1>5

\* How much there is to read after a write.
LEMMA RingCount ==
  ASSUME NEW c \in Nat \ {0}, NEW b, Ring(b, c), NEW a \in 0..c,
         b.write = IF b.read + a >= c THEN b.read + a - c ELSE b.read + a,
         b.empty <=> a = 0
  PROVE  Available(b) = a
<1>1. /\ b.read \in 0..(c - 1) /\ b.write \in 0..(c - 1)
  BY RingFacts
<1>2. /\ b.write > b.read => Available(b) = b.write - b.read
      /\ b.write < b.read => Available(b) = c + b.write - b.read
      /\ b.write = b.read => Available(b) = IF b.empty THEN 0 ELSE c
  BY RingAvailable
<1>3. CASE b.write > b.read
  BY <1>1, <1>2, <1>3
<1>4. CASE b.write < b.read
  BY <1>1, <1>2, <1>4
<1>5. CASE b.write = b.read
  BY <1>1, <1>2, <1>5
<1> QED
  BY <1>1, <1>3, <1>4, <1>5

\* Around the end: position p, or what it becomes there.
Round(c, p) == IF p >= c THEN p - c ELSE p

\* The slot of a value to be read.
LEMMA UnreadRound ==
  ASSUME NEW c \in Nat \ {0}, NEW b, Ring(b, c), NEW k \in Int
  PROVE  Unread(b, k) = b.buffer[Round(c, b.read + k - 1)]
BY RingFacts DEF Unread, Round

LEMMA RoundType ==
  ASSUME NEW c \in Int, NEW p \in Int
  PROVE  Round(c, p) \in Int
BY DEF Round

LEMMA EndArithmetic ==
  ASSUME NEW c \in Nat \ {0}, NEW r \in 0..(c - 1), NEW a \in 0..c, NEW n \in 1..c, a + n <= c,
         NEW w \in 0..(c - 1), w = Round(c, r + a)
  PROVE  (IF w + n < c THEN w + n ELSE w + n - c) = Round(c, r + (a + n))
BY DEF Round

\* What can be read after a write: the same values, and then those written.
LEMMA WriteContent ==
  ASSUME NEW c \in Nat \ {0}, NEW b, Ring(b, c), NEW vs \in Seq(Int), NEW n \in Nat,
         Len(vs) = n, Available(b) + n <= c, NEW w, w = Write(b, vs)
  PROVE  /\ Ring(w, c) /\ Available(w) = Available(b) + n /\ w.read = b.read
         /\ \A k \in 1..Available(b) : Unread(w, k) = Unread(b, k)
         /\ \A k \in 1..n : Unread(w, Available(b) + k) = vs[k]
<1>1. CASE n = 0
  <2>1. w = b
    BY <1>1 DEF Write
  <2>2. Available(b) \in Int
    BY RingAvailable
  <2> QED
    BY <1>1, <2>1, <2>2
<1>2. CASE n # 0
  <2>0. PICK a \in 0..c, r \in 0..(c - 1), at \in 0..(c - 1) :
          a = Available(b) /\ r = b.read /\ at = b.write
    BY RingFacts, RingAvailable
  <2>1. a \in 0..c /\ r \in 0..(c - 1) /\ at \in 0..(c - 1)
    BY <2>0
  <2>2. n \in 1..c /\ a + n <= c /\ a + n \in 0..c /\ a + n # 0
    BY <1>2, <2>0
  <2>3. /\ Ring(w, c) /\ w.read = b.read /\ ~w.empty
        /\ w.write = IF b.write + n < c THEN b.write + n ELSE b.write + n - c
        /\ \A i \in 0..(c - 1) :
             w.buffer[i] = IF i >= b.write /\ i < b.write + n THEN vs[i - b.write + 1]
                           ELSE IF i + c < b.write + n THEN vs[i + c - b.write + 1]
                           ELSE b.buffer[i]
    BY <2>2, RingSlots
  <2>5. at = Round(c, r + a)
    BY <2>0, RingEnd DEF Round
  <2>6. Available(w) = a + n
    <3>1. w.write = IF w.read + (a + n) >= c THEN w.read + (a + n) - c ELSE w.read + (a + n)
      <4>1. (IF at + n < c THEN at + n ELSE at + n - c) = Round(c, r + (a + n))
        BY <2>1, <2>2, <2>5, EndArithmetic, ZenonT(60)
      <4> QED
        BY <2>0, <2>3, <4>1 DEF Round
    <3>2. w.empty <=> a + n = 0
      BY <2>2, <2>3
    <3> QED
      BY <2>2, <2>3, <3>1, <3>2, RingCount
  <2>7. ASSUME NEW k \in 1..a PROVE Unread(w, k) = Unread(b, k)
    <3>1. PICK i \in Int : i = Round(c, r + k - 1)
      BY <2>1, RoundType
    <3>2. i \in 0..(c - 1) /\ ~(i >= at /\ i < at + n) /\ ~(i + c < at + n)
      BY <2>1, <2>2, <2>5, <3>1 DEF Round
    <3>3. w.buffer[i] = b.buffer[i]
      BY <2>0, <2>3, <3>2
    <3>4. /\ Unread(w, k) = w.buffer[Round(c, w.read + k - 1)]
          /\ Unread(b, k) = b.buffer[Round(c, b.read + k - 1)]
      <4>1. k \in Int
        BY <2>1
      <4> QED
        BY <2>3, <4>1, UnreadRound
    <3> QED
      BY <2>0, <2>3, <3>1, <3>3, <3>4
  <2>8. ASSUME NEW k \in 1..n PROVE Unread(w, a + k) = vs[k]
    <3>1. PICK i \in Int : i = Round(c, r + (a + k) - 1)
      BY <2>1, RoundType
    <3>2. /\ i \in 0..(c - 1)
          /\ \/ i >= at /\ i < at + n /\ i - at + 1 = k
             \/ ~(i >= at /\ i < at + n) /\ i + c < at + n /\ i + c - at + 1 = k
      BY <2>1, <2>2, <2>5, <3>1 DEF Round
    <3>3. w.buffer[i] = vs[k]
      BY <2>0, <2>3, <3>2
    <3>4. Unread(w, a + k) = w.buffer[Round(c, w.read + (a + k) - 1)]
      <4>1. a + k \in Int
        BY <2>1
      <4> QED
        BY <2>3, <4>1, UnreadRound
    <3> QED
      BY <2>0, <2>3, <3>1, <3>3, <3>4
  <2> QED
    BY <2>0, <2>3, <2>6, <2>7, <2>8
<1> QED
  BY <1>1, <1>2

LEMMA GetArithmetic ==
  ASSUME NEW c \in Nat \ {0}, NEW r \in 0..(c - 1), NEW n \in 0..c, ~(r + n <= c), NEW k \in 1..n
  PROVE  /\ c - r \in 1..n /\ r + n - c \in 1..n
         /\ k <= c - r => k \in 1..(c - r) /\ r + k - 1 = Round(c, r + k - 1)
         /\ ~(k <= c - r) => /\ k - (c - r) \in 1..(r + n - c)
                             /\ 0 + (k - (c - r)) - 1 = Round(c, r + k - 1)
BY DEF Round

\* What is read.
LEMMA GetContent ==
  ASSUME NEW c \in Nat \ {0}, NEW b, Ring(b, c), NEW n \in 0..c
  PROVE  Get(b, n) = [k \in 1..n |-> Unread(b, k)]
<1>1. PICK r \in 0..(c - 1) : r = b.read
  BY RingFacts
<1>2. b.capacity = c
  BY RingFacts
<1>3. CASE r + n <= c
  <2>1. Get(b, n) = [k \in 1..n |-> b.buffer[r + k - 1]]
    BY <1>1, <1>2, <1>3 DEF Get, Slice
  <2>2. ASSUME NEW k \in 1..n PROVE b.buffer[r + k - 1] = Unread(b, k)
    <3>1. r + k - 1 = Round(c, r + k - 1)
      BY <1>3 DEF Round
    <3> QED
      BY <1>1, <3>1, UnreadRound
  <2> QED
    BY <2>1, <2>2
<1>4. CASE ~(r + n <= c)
  <2>1. PICK n1, n2 : n1 = c - r /\ n2 = r + n - c
    OBVIOUS
  <2>2. n1 \in Nat /\ n2 \in Nat /\ n1 + n2 = n
    BY <1>4, <2>1
  <2>3. PICK s1, s2 : s1 = Slice(b, r, n1) /\ s2 = Slice(b, 0, n2)
    OBVIOUS
  <2>4. Get(b, n) = s1 \o s2
    BY <1>1, <1>2, <1>4, <2>1, <2>3 DEF Get
  <2>5. s1 = [i \in 1..n1 |-> b.buffer[r + i - 1]] /\ s2 = [i \in 1..n2 |-> b.buffer[0 + i - 1]]
    BY <2>3 DEF Slice
  <2>6. /\ r \in 0..(2 * c - 1) /\ DOMAIN b.buffer = 0..(2 * c - 1)
        /\ \A i \in 0..(2 * c - 1) : b.buffer[i] \in Int
    BY RingFacts
  <2>7. s1 \in Seq(Int) /\ Len(s1) = n1
    <3>1. \A i \in 1..n1 : r + i - 1 \in 0..(2 * c - 1)
      BY <2>1
    <3>2. s1 \in [1..n1 -> Int]
      BY <2>5, <2>6, <3>1
    <3> QED
      BY <2>2, <3>2, SeqDef
  <2>8. s2 \in Seq(Int) /\ Len(s2) = n2
    <3>1. \A i \in 1..n2 : 0 + i - 1 \in 0..(2 * c - 1)
      BY <1>4, <2>1
    <3>2. s2 \in [1..n2 -> Int]
      BY <2>5, <2>6, <3>1
    <3> QED
      BY <2>2, <3>2, SeqDef
  <2>9. /\ s1 \o s2 \in Seq(Int) /\ Len(s1 \o s2) = n
        /\ \A i \in 1..n : (s1 \o s2)[i] = IF i <= n1 THEN s1[i] ELSE s2[i - n1]
    BY <2>2, <2>7, <2>8, ConcatProperties
  <2>10. ASSUME NEW k \in 1..n PROVE (s1 \o s2)[k] = Unread(b, k)
    <3>0. Unread(b, k) = b.buffer[Round(c, r + k - 1)]
      BY <1>1, UnreadRound
    <3>1. /\ k <= n1 => k \in 1..n1 /\ r + k - 1 = Round(c, r + k - 1)
          /\ ~(k <= n1) => k - n1 \in 1..n2 /\ 0 + (k - n1) - 1 = Round(c, r + k - 1)
      BY <1>4, <2>1, GetArithmetic
    <3>2. CASE k <= n1
      BY <2>5, <2>9, <3>0, <3>1, <3>2
    <3>3. CASE ~(k <= n1)
      BY <2>5, <2>9, <3>0, <3>1, <3>3
    <3> QED
      BY <3>2, <3>3
  <2>11. s1 \o s2 = [k \in 1..n |-> (s1 \o s2)[k]]
    BY <2>9, LenProperties
  <2> QED
    BY <2>4, <2>10, <2>11
<1> QED
  BY <1>3, <1>4

\* What is left after a discard.
LEMMA DiscardContent ==
  ASSUME NEW c \in Nat \ {0}, NEW b, Ring(b, c), NEW n \in Nat \ {0}, n <= Available(b)
  PROVE  /\ Ring(Discard(b, n), c) /\ Available(Discard(b, n)) = Available(b) - n
         /\ \A k \in 1..(Available(b) - n) : Unread(Discard(b, n), k) = Unread(b, n + k)
<1>0. PICK d : d = Discard(b, n)
  OBVIOUS
<1>1. PICK a \in 0..c, r \in 0..(c - 1), at \in 0..(c - 1) :
        a = Available(b) /\ r = b.read /\ at = b.write
  BY RingFacts, RingAvailable
<1>2. a \in 0..c /\ r \in 0..(c - 1) /\ at \in 0..(c - 1)
  BY <1>1
<1>3. n \in 1..a /\ a - n \in 0..c /\ ~b.empty /\ n > 0
  BY <1>1, RingEnd
<1>4. at = Round(c, r + a)
  BY <1>1, RingEnd DEF Round
<1>5. PICK q \in Int : q = Round(c, r + n)
  BY <1>2, RoundType
<1>6. /\ q \in 0..(c - 1)
      /\ q = at <=> n = a
      /\ Round(c, q + (a - n)) = at
      /\ \A k \in 1..(a - n) : Round(c, q + k - 1) = Round(c, r + (n + k) - 1)
  BY <1>2, <1>3, <1>4, <1>5 DEF Round
<1>7. d = [b EXCEPT !.read = q, !.empty = IF q = at THEN TRUE ELSE b.empty]
  <2>1. d = [b EXCEPT !.read = Wrap(b, b.read + n),
                      !.empty = IF Wrap(b, b.read + n) = b.write THEN TRUE ELSE b.empty]
    BY <1>0 DEF Discard
  <2>2. Wrap(b, b.read + n) = q
    <3>1. b.capacity = c
      BY RingFacts
    <3>2. Wrap(b, b.read + n) = Round(b.capacity, b.read + n)
      BY DEF Wrap, Round
    <3> QED
      BY <1>1, <1>5, <3>1, <3>2
  <2> QED
    BY <1>1, <2>1, <2>2
<1>8. /\ d \in [capacity : {c}, read : 0..(c - 1), write : 0..(c - 1), empty : BOOLEAN,
                buffer : [0..(2 * c - 1) -> Int]]
      /\ d.buffer = b.buffer /\ d.read = q /\ d.write = at
      /\ d.empty = (IF q = at THEN TRUE ELSE b.empty)
  BY <1>1, <1>6, <1>7 DEF Ring
<1>9. Ring(d, c)
  BY <1>1, <1>3, <1>8 DEF Ring
<1>10. Available(d) = a - n
  <2>1. d.write = IF d.read + (a - n) >= c THEN d.read + (a - n) - c ELSE d.read + (a - n)
    BY <1>1, <1>6, <1>8, SMTT(60) DEF Round
  <2>2. d.empty <=> a - n = 0
    BY <1>1, <1>3, <1>6, <1>8
  <2> QED
    BY <1>1, <1>3, <1>9, <2>1, <2>2, RingCount
<1>11. ASSUME NEW k \in 1..(a - n) PROVE Unread(d, k) = Unread(b, n + k)
  <2>1. Unread(d, k) = d.buffer[Round(c, d.read + k - 1)]
    BY <1>1, <1>9, UnreadRound
  <2>2. n + k \in Int /\ Unread(b, n + k) = b.buffer[Round(c, b.read + (n + k) - 1)]
    BY <1>1, UnreadRound
  <2>3. Round(c, q + k - 1) = Round(c, r + (n + k) - 1)
    BY <1>1, <1>6
  <2> QED
    BY <1>1, <1>8, <2>1, <2>2, <2>3
<1> QED
  BY <1>0, <1>1, <1>9, <1>10, <1>11

(* The lanes of the framer. *)

\* Frames that t steps give when the first q of them give none.
Given(t, q) == IF t < q THEN 0 ELSE t - q

\* A lane after t steps of st samples, and pre samples before the first: what it
\* still needs of the signal is in its buffer.
LaneHolds(b, c, pre, q, st, t, sig) ==
  /\ Ring(b, c)
  /\ Available(b) = pre + (IF t < q THEN t ELSE q) * st
  /\ \A k \in 1..Available(b) : Unread(b, k) = sig[Given(t, q) * st + k]

\* The steps divide into those that gave a frame and those that gave none.
Divides(t, q, st, g, m) ==
  /\ g = Given(t, q) /\ m = IF t < q THEN t ELSE q
  /\ g + m = t /\ g * st \in Nat /\ m * st \in Nat
  /\ g * st + m * st = t * st
  /\ t < q => m * st + st <= q * st /\ g = 0 /\ m = t /\ (t + 1) * st = t * st + st
  /\ ~(t < q) => m = q /\ g = t - q

LEMMA LaneArithmetic ==
  ASSUME NEW q \in Nat, NEW st \in Nat, NEW t \in Nat
  PROVE  \E g \in Nat, m \in Nat : Divides(t, q, st, g, m)
<1>0. PICK g \in Nat, m \in Nat : /\ g = IF t < q THEN 0 ELSE t - q
                                  /\ m = IF t < q THEN t ELSE q
  OBVIOUS
<1>1. g \in Nat /\ m \in Nat /\ g + m = t
  BY <1>0
<1>2. g * st \in Nat /\ m * st \in Nat /\ g * st + m * st = (g + m) * st
  BY <1>1
<1>3. ASSUME t < q PROVE m * st + st <= q * st /\ (t + 1) * st = t * st + st /\ m = t
  <2>1. PICK d \in Nat : q = (t + 1) + d
    <3>1. q - (t + 1) \in Nat /\ q = (t + 1) + (q - (t + 1))
      BY <1>3
    <3> QED
      BY <3>1
  <2>2. q * st = (t + 1) * st + d * st /\ d * st >= 0 /\ (t + 1) * st = t * st + st
    BY <2>1
  <2>3. m = t
    BY <1>0, <1>3
  <2> QED
    BY <2>2, <2>3
<1>4. ~(t < q) => m = q /\ g = t - q
  BY <1>0
<1>5. t < q => g = 0
  BY <1>0
<1>6. g = Given(t, q)
  BY <1>0 DEF Given
<1> QED
  BY <1>0, <1>1, <1>2, <1>3, <1>4, <1>5, <1>6 DEF Divides

\* A lane has room for what it still needs and a step more, and with that for a frame.
LaneRoom(c, pre, q, st, fs) ==
  pre + q * st < fs /\ fs <= pre + q * st + st /\ pre + q * st + st <= c

\* The samples of the signal that follow those of t steps.
LaneInput(vs, pre, st, t, sig) ==
  /\ vs \in Seq(Int) /\ Len(vs) = st
  /\ \A k \in 1..st : vs[k] = sig[pre + t * st + k]

\* What a step of the framer does with a lane: w is b after the write.
LaneStepped(b, c, pre, q, st, fs, t, sig, w) ==
  /\ CanWrite(b) >= st /\ Available(w) >= st
  /\ t < q => /\ ~(Available(w) >= fs)
              /\ LaneHolds(w, c, pre, q, st, t + 1, sig)
  /\ ~(t < q) => /\ Available(w) >= fs
                 /\ Get(w, fs) = [k \in 1..fs |-> sig[(t - q) * st + k]]
                 /\ LaneHolds(Discard(w, st), c, pre, q, st, t + 1, sig)

\* The step is written, and with q steps before it a frame is read and a step discarded.
LEMMA LaneStep ==
  ASSUME NEW c \in Nat \ {0}, NEW pre \in Nat, NEW q \in Nat, NEW st \in Nat \ {0},
         NEW fs \in Nat \ {0}, NEW t \in Nat, NEW b, NEW sig, NEW vs,
         LaneRoom(c, pre, q, st, fs), LaneHolds(b, c, pre, q, st, t, sig),
         LaneInput(vs, pre, st, t, sig)
  PROVE  LaneStepped(b, c, pre, q, st, fs, t, sig, Write(b, vs))
<1>0. /\ pre + q * st < fs /\ fs <= pre + q * st + st /\ pre + q * st + st <= c
      /\ vs \in Seq(Int) /\ Len(vs) = st
      /\ \A k \in 1..st : vs[k] = sig[pre + t * st + k]
  BY DEF LaneRoom, LaneInput
<1> DEFINE w == Write(b, vs)
<1> HIDE DEF w
<1>1. PICK g \in Nat, m \in Nat : Divides(t, q, st, g, m)
  BY LaneArithmetic
<1>2. /\ g \in Nat /\ m \in Nat /\ g + m = t /\ g * st \in Nat /\ m * st \in Nat
      /\ g * st + m * st = t * st
      /\ t < q => m * st + st <= q * st /\ g = 0 /\ m = t /\ (t + 1) * st = t * st + st
      /\ ~(t < q) => m = q /\ g = t - q
  BY <1>1 DEF Divides
<1>3. PICK gs \in Nat, ms \in Nat, ts \in Nat, qs \in Nat :
        gs = g * st /\ ms = m * st /\ ts = t * st /\ qs = q * st
  BY <1>2
<1>4. PICK a \in Nat : a = Available(b)
  BY RingAvailable DEF LaneHolds
<1>5. a = pre + ms /\ Ring(b, c) /\ \A k \in 1..a : Unread(b, k) = sig[gs + k]
  BY <1>1, <1>3, <1>4 DEF LaneHolds, Divides
<1>6. /\ a + st <= c /\ gs + ms = ts /\ pre + qs < fs /\ fs <= pre + qs + st
      /\ t < q => ms + st <= qs
      /\ ~(t < q) => ms = qs
  <2>1. /\ gs + ms = ts /\ pre + qs < fs /\ fs <= pre + qs + st /\ pre + qs + st <= c
        /\ t < q => ms + st <= qs
        /\ ~(t < q) => ms = qs
    BY <1>0, <1>2, <1>3
  <2>2. pre \in Nat /\ ms \in Nat /\ qs \in Nat /\ a = pre + ms
    BY <1>3, <1>5
  <2> QED
    BY <2>1, <2>2
<1>7. CanWrite(b) >= st
  <2>1. CanWrite(b) = c - a
    BY <1>4, <1>5, RingAvailable
  <2> QED
    BY <1>4, <1>6, <2>1
<1>8. /\ Ring(w, c) /\ Available(w) = a + st
      /\ \A k \in 1..a : Unread(w, k) = Unread(b, k)
      /\ \A k \in 1..st : Unread(w, a + k) = vs[k]
  <2>1. Available(b) + st <= c
    BY <1>4, <1>6
  <2>2. /\ Ring(w, c) /\ Available(w) = Available(b) + st
        /\ \A k \in 1..Available(b) : Unread(w, k) = Unread(b, k)
        /\ \A k \in 1..st : Unread(w, Available(b) + k) = vs[k]
    BY <1>0, <1>5, <2>1, WriteContent DEF w
  <2> QED
    BY <1>4, <2>2
<1>9. ASSUME NEW k \in 1..(a + st) PROVE Unread(w, k) = sig[gs + k]
  <2>1. CASE k <= a
    <3>1. k \in 1..a
      BY <1>4, <2>1
    <3> QED
      BY <1>5, <1>8, <3>1
  <2>2. CASE ~(k <= a)
    <3>1. k - a \in 1..st /\ a + (k - a) = k
      BY <1>4, <2>2
    <3>2. Unread(w, k) = sig[pre + t * st + (k - a)]
      BY <1>0, <1>8, <3>1
    <3>3. pre + ts + (k - a) = gs + k
      <4>1. pre \in Nat /\ ms \in Nat /\ gs \in Nat /\ ts \in Nat /\ a = pre + ms /\ gs + ms = ts
        BY <1>3, <1>5, <1>6
      <4> QED
        BY <4>1
    <3> QED
      BY <1>3, <3>2, <3>3
  <2> QED
    BY <2>1, <2>2
<1>10. CASE t < q
  <2>1. ~(Available(w) >= fs)
    <3>1. pre \in Nat /\ ms \in Nat /\ qs \in Nat /\ a = pre + ms /\ Available(w) = a + st
      BY <1>3, <1>5, <1>8
    <3> QED
      BY <1>6, <1>10, <3>1
  <2>2. Given(t + 1, q) = 0 /\ g = 0 /\ gs = 0 /\ (IF t + 1 < q THEN t + 1 ELSE q) = t + 1
    BY <1>2, <1>3, <1>10 DEF Given
  <2>3. Available(w) = pre + (IF t + 1 < q THEN t + 1 ELSE q) * st
    <3>1. (t + 1) * st = ms + st
      BY <1>2, <1>3, <1>10
    <3>2. pre \in Nat /\ ms \in Nat /\ a = pre + ms
      BY <1>3, <1>5
    <3>3. a + st = pre + (ms + st)
      BY <3>2
    <3> QED
      BY <1>8, <2>2, <3>1, <3>3
  <2>4. \A k \in 1..Available(w) : Unread(w, k) = sig[Given(t + 1, q) * st + k]
    <3>1. 0 * st = 0
      OBVIOUS
    <3> QED
      BY <1>8, <1>9, <2>2, <3>1
  <2>5. LaneHolds(w, c, pre, q, st, t + 1, sig)
    BY <1>8, <2>3, <2>4 DEF LaneHolds
  <2>6. Available(w) >= st
    BY <1>4, <1>8
  <2> QED
    BY <1>7, <1>10, <2>1, <2>5, <2>6 DEF w, LaneStepped
<1>11. CASE ~(t < q)
  <2>1. Available(w) >= fs /\ Available(w) >= st /\ fs <= c /\ Available(w) - st = a
    <3>1. pre \in Nat /\ ms \in Nat /\ qs \in Nat /\ a = pre + ms /\ Available(w) = a + st
      BY <1>3, <1>5, <1>8
    <3> QED
      BY <1>6, <1>11, <3>1
  <2>2. gs = (t - q) * st
    BY <1>2, <1>3, <1>11
  <2>3. Get(w, fs) = [k \in 1..fs |-> sig[(t - q) * st + k]]
    <3>1. Get(w, fs) = [k \in 1..fs |-> Unread(w, k)]
      BY <1>8, <2>1, GetContent
    <3>2. \A k \in 1..fs : k \in 1..(a + st)
      BY <1>4, <1>8, <2>1
    <3> QED
      BY <1>9, <2>2, <3>1, <3>2
  <2>4. PICK d : d = Discard(w, st)
    OBVIOUS
  <2>5. /\ Ring(d, c) /\ Available(d) = a
        /\ \A k \in 1..a : Unread(d, k) = Unread(w, st + k)
    <3>1. /\ Ring(d, c) /\ Available(d) = Available(w) - st
          /\ \A k \in 1..(Available(w) - st) : Unread(d, k) = Unread(w, st + k)
      <4>1. st <= Available(w)
        BY <1>4, <1>8
      <4>2. Ring(w, c)
        BY <1>8
      <4>3. /\ Ring(Discard(w, st), c) /\ Available(Discard(w, st)) = Available(w) - st
            /\ \A k \in 1..(Available(w) - st) : Unread(Discard(w, st), k) = Unread(w, st + k)
        BY <4>1, <4>2, DiscardContent
      <4> QED
        BY <2>4, <4>3
    <3> QED
      BY <2>1, <3>1
  <2>6. (IF t + 1 < q THEN t + 1 ELSE q) = q /\ Given(t + 1, q) = (t - q) + 1
    BY <1>11 DEF Given
  <2>7. Available(d) = pre + (IF t + 1 < q THEN t + 1 ELSE q) * st
    BY <1>2, <1>3, <1>5, <1>11, <2>5, <2>6
  <2>8. ASSUME NEW k \in 1..a PROVE Unread(d, k) = sig[Given(t + 1, q) * st + k]
    <3>1. st + k \in 1..(a + st)
      BY <1>4
    <3>2. Unread(d, k) = sig[gs + (st + k)]
      BY <1>9, <2>5, <3>1
    <3>3. ((t - q) + 1) * st = (t - q) * st + st
      BY <1>11
    <3>4. gs + (st + k) = ((t - q) + 1) * st + k
      <4>1. ((t - q) + 1) * st = gs + st
        BY <2>2, <3>3
      <4>2. gs + (st + k) = (gs + st) + k
        BY <1>3, <1>4
      <4> QED
        BY <4>1, <4>2
    <3> QED
      BY <2>6, <3>2, <3>4
  <2>9. LaneHolds(d, c, pre, q, st, t + 1, sig)
    BY <2>5, <2>7, <2>8 DEF LaneHolds
  <2> QED
    BY <1>7, <1>11, <2>1, <2>3, <2>4, <2>9 DEF w, LaneStepped
<1> QED
  BY <1>10, <1>11 DEF w, LaneStepped

-----------------------------------------------------------------------------
\* The framer and MCSignal mean the same buffer.
LEMMA FramerCalls ==
  /\ \A b, vs : Frame!Write(b, vs) = Write(b, vs)
  /\ \A b, n : Frame!WriteZeros(b, n) = WriteZeros(b, n)
  /\ \A b, n : Frame!Get(b, n) = Get(b, n)
  /\ \A b, n : Frame!Discard(b, n) = Discard(b, n)
  /\ \A c : Frame!New(c) = New(c)
  /\ \A b : Frame!Available(b) = Available(b)
  /\ \A b : Frame!CanWrite(b) = CanWrite(b)
<1>1. \A b : Frame!Available(b) = Available(b)
  BY DEF Frame!Available, Available
<1>2. \A b : Frame!CanWrite(b) = CanWrite(b)
  BY <1>1 DEF Frame!CanWrite, CanWrite
<1>3. \A c : Frame!New(c) = New(c)
  BY DEF Frame!New, New
<1>4. \A b, n : Frame!Discard(b, n) = Discard(b, n)
  BY DEF Frame!Discard, Discard, Frame!Wrap, Wrap
<1>5. \A b, n : Frame!Get(b, n) = Get(b, n)
  BY DEF Frame!Get, Get, Frame!Slice, Slice
<1>6. \A b, vs : Frame!Write(b, vs) = Write(b, vs)
  BY DEF Frame!Write, Write, Frame!CopyIn, CopyIn, Frame!Stored, Stored
<1>7. \A b, n : Frame!WriteZeros(b, n) = WriteZeros(b, n)
  BY <1>6 DEF Frame!WriteZeros, WriteZeros
<1> QED
  BY <1>1, <1>2, <1>3, <1>4, <1>5, <1>6, <1>7

(* The framer. *)

\* The samples that a prefill puts before a lane, and the steps that give no frame.
Pre(p) == IF p.prefill THEN p.frame_size - p.frame_step ELSE 0
Waits(p) ==
  IF p.prefill THEN 0 ELSE (p.frame_size + p.frame_step - 1) \div p.frame_step - 1

\* A kernel in numbers.
IsFramer(p, c, pre, q, st, fs, od, nf) ==
  /\ p.frame_step = st /\ p.frame_size = fs /\ p.outer_dims = od /\ p.n_frames = nf
  /\ Frame!CapacityFor(p) = c /\ Pre(p) = pre /\ Waits(p) = q
  /\ LaneRoom(c, pre, q, st, fs)
  /\ p.prefill \in BOOLEAN /\ (p.prefill => q = 0 /\ fs >= st)

\* The capacity is the least multiple of the step that holds a frame.
LEMMA RoundedUp ==
  ASSUME NEW fs \in Nat \ {0}, NEW st \in Nat \ {0}
  PROVE  \E m \in Nat : /\ (fs + st - 1) \div st = m + 1
                        /\ (m + 1) * st = m * st + st
                        /\ m * st < fs /\ fs <= m * st + st
<1>1. PICK a \in Nat : a = fs + st - 1
  BY DEF Positive
<1>2. /\ a \div st \in Nat /\ (a % st) \in 0..(st - 1)
      /\ a = st * (a \div st) + (a % st)
  <2>1. st \in Positive
    BY DEF Positive
  <2> QED
    BY <2>1, Division
<1>3. PICK n \in Nat, r \in 0..(st - 1) : n = a \div st /\ a = st * n + r
  BY <1>2
<1>4. n # 0
  <2> SUFFICES ASSUME n = 0 PROVE FALSE
    OBVIOUS
  <2>1. st * 0 = 0
    BY DEF Positive
  <2>2. fs + st - 1 = 0 + r
    BY <1>1, <1>3, <2>1
  <2> QED
    BY <1>3, <2>2 DEF Positive
<1>5. PICK m \in Nat : n = m + 1
  <2>1. n - 1 \in Nat /\ n = (n - 1) + 1
    BY <1>3, <1>4
  <2> QED
    BY <2>1
<1>6. (m + 1) * st = m * st + st /\ st * (m + 1) = m * st + st /\ m * st \in Nat
  BY DEF Positive
<1>7. PICK ms \in Nat : ms = m * st
  BY <1>6
<1>8. fs + st - 1 = ms + st + r
  BY <1>1, <1>3, <1>5, <1>6, <1>7
<1>9. r \in 0..(st - 1) /\ ms \in Nat
  BY <1>3, <1>7
<1>10. ms < fs /\ fs <= ms + st
  BY <1>8, <1>9 DEF Positive
<1>11. (fs + st - 1) \div st = m + 1
  BY <1>1, <1>3, <1>5
<1> QED
  BY <1>6, <1>7, <1>10, <1>11

\* Each kernel has such numbers.
LEMMA FramerNumbers ==
  ASSUME NEW p \in Framers
  PROVE  \E c, st, fs, od, nf \in Nat \ {0}, pre, q \in Nat :
           IsFramer(p, c, pre, q, st, fs, od, nf)
<1>1. PICK st \in Nat \ {0}, fs \in Nat \ {0}, od \in Nat \ {0}, nf \in Nat \ {0} :
        p.frame_step = st /\ p.frame_size = fs /\ p.outer_dims = od /\ p.n_frames = nf
  BY FramersAssumption DEF Frame!Config, Positive
<1>2. p.prefill \in BOOLEAN /\ (p.prefill => fs >= st)
  BY <1>1, FramersAssumption DEF Frame!Config
<1>3. PICK m \in Nat : /\ (fs + st - 1) \div st = m + 1
                       /\ (m + 1) * st = m * st + st
                       /\ m * st < fs /\ fs <= m * st + st
  BY RoundedUp
<1>4. PICK ms \in Nat : ms = m * st
  BY <1>3 DEF Positive
<1>5. PICK c \in Nat \ {0} : c = ms + st
  BY DEF Positive
<1>6. Frame!CapacityFor(p) = c
  BY <1>1, <1>3, <1>4, <1>5 DEF Frame!CapacityFor
<1>7. CASE p.prefill
  <2>1. PICK pre \in Nat : pre = fs - st
    BY <1>2, <1>7 DEF Positive
  <2>2. Pre(p) = pre /\ Waits(p) = 0
    BY <1>1, <1>7, <2>1 DEF Pre, Waits
  <2>3. pre + 0 * st < fs /\ fs <= pre + 0 * st + st /\ pre + 0 * st + st <= c
    <3>1. 0 * st = 0
      BY DEF Positive
    <3>2. pre + 0 < fs /\ fs <= pre + 0 + st /\ pre + 0 + st <= c
      BY <1>3, <1>4, <1>5, <2>1 DEF Positive
    <3> QED
      BY <3>1, <3>2
  <2>4. IsFramer(p, c, pre, 0, st, fs, od, nf)
    BY <1>1, <1>2, <1>6, <2>2, <2>3 DEF IsFramer, LaneRoom
  <2> QED
    BY <2>4
<1>8. CASE ~p.prefill
  <2>1. Pre(p) = 0 /\ Waits(p) = m
    BY <1>1, <1>3, <1>8 DEF Pre, Waits
  <2>2. 0 + m * st < fs /\ fs <= 0 + m * st + st /\ 0 + m * st + st <= c
    BY <1>3, <1>4, <1>5 DEF Positive
  <2>4. IsFramer(p, c, 0, m, st, fs, od, nf)
    BY <1>1, <1>2, <1>6, <1>8, <2>1, <2>2 DEF IsFramer, LaneRoom
  <2> QED
    BY <2>4
<1> QED
  BY <1>7, <1>8

\* The signal of a lane since the last reset, after the prefill.
SignalOf(i) == [k \in Nat |-> Frame!Signal(i, k)]

SignalIs(pre, od, since) == pre = Pre(v2) /\ od = v2.outer_dims /\ since = v9

LEMMA SignalFacts ==
  ASSUME NEW i \in Int, NEW pre \in Nat, NEW od \in Nat \ {0}, NEW since \in Nat,
         SignalIs(pre, od, since)
  PROVE  /\ \A k \in Nat : k <= pre => SignalOf(i)[k] = 0
         /\ \A k \in Nat : k > pre => SignalOf(i)[k] = (since + k - pre) * od + i + 1
         /\ \A k \in Nat : SignalOf(i)[k] \in Int
<1>1. Frame!Prefix = pre
  BY DEF Frame!Prefix, Pre, SignalIs
<1>2. ASSUME NEW k \in Nat
      PROVE  SignalOf(i)[k] = IF k <= pre THEN 0 ELSE (since + k - pre) * od + i + 1
  BY <1>1 DEF SignalOf, Frame!Signal, Frame!Sample, SignalIs
<1>3. ASSUME NEW k \in Nat PROVE (since + k - pre) * od + i + 1 \in Int
  BY DEF Positive
<1> QED
  BY <1>2, <1>3

\* A lane that has just been prepared or reset.
LEMMA FreshLane ==
  ASSUME NEW p \in Framers,
         NEW c \in Nat \ {0}, NEW st \in Nat \ {0}, NEW fs \in Nat \ {0}, NEW od \in Nat \ {0},
         NEW nf \in Nat \ {0}, NEW pre \in Nat, NEW q \in Nat,
         IsFramer(p, c, pre, q, st, fs, od, nf),
         NEW sig, \A k \in Nat : k <= pre => sig[k] = 0
  PROVE  Frame!PrefillAllowed(p) /\ LaneHolds(Frame!Fresh(p), c, pre, q, st, 0, sig)
<1>1. c \in Nat \ {0} /\ Ring(New(c), c) /\ Available(New(c)) = 0
  BY RingNew DEF Positive
<1>2. (IF 0 < q THEN 0 ELSE q) * st = 0 /\ Given(0, q) * st = 0
  <2>1. (IF 0 < q THEN 0 ELSE q) = 0 /\ Given(0, q) = 0
    BY DEF Given
  <2>2. 0 * st = 0
    BY DEF Positive
  <2> QED
    BY <2>1, <2>2
<1>3. p.prefill \in BOOLEAN /\ p.frame_size = fs /\ p.frame_step = st
      /\ Frame!CapacityFor(p) = c
  BY DEF IsFramer
<1>4. CASE ~p.prefill
  <2>1. pre = 0
    BY <1>4 DEF IsFramer, Pre
  <2>2. Frame!Fresh(p) = New(c)
    BY <1>3, <1>4, FramerCalls DEF Frame!Fresh
  <2>3. Available(New(c)) = pre + (IF 0 < q THEN 0 ELSE q) * st
    BY <1>1, <1>2, <2>1
  <2>4. \A k \in 1..Available(New(c)) : FALSE
    BY <1>1
  <2> QED
    BY <1>1, <1>4, <2>2, <2>3, <2>4 DEF LaneHolds, Frame!PrefillAllowed
<1>5. CASE p.prefill
  <2>1. pre = fs - st /\ fs >= st /\ q = 0 /\ fs <= c
    <3>1. pre = fs - st /\ fs >= st /\ q = 0 /\ fs <= pre + q * st + st /\ pre + q * st + st <= c
      BY <1>3, <1>5 DEF IsFramer, Pre, LaneRoom
    <3>2. 0 * st = 0
      BY DEF Positive
    <3> QED
      BY <3>1, <3>2 DEF Positive
  <2>2. PICK zeros : zeros = [k \in 1..pre |-> 0]
    OBVIOUS
  <2>3. zeros \in Seq(Int) /\ Len(zeros) = pre
    BY <2>2
  <2>4. PICK w : w = Write(New(c), zeros)
    OBVIOUS
  <2>5. Available(New(c)) + pre <= c
    BY <1>1, <2>1 DEF Positive
  <2>6. /\ Ring(w, c) /\ Available(w) = Available(New(c)) + pre
        /\ \A k \in 1..pre : Unread(w, Available(New(c)) + k) = zeros[k]
    BY <1>1, <2>3, <2>4, <2>5, WriteContent
  <2>7. /\ Available(w) = pre
        /\ \A k \in 1..pre : Unread(w, k) = 0
    <3>1. \A k \in 1..pre : 0 + k = k
      OBVIOUS
    <3> QED
      BY <1>1, <2>2, <2>6, <3>1
  <2>8. Frame!Fresh(p) = w
    <3>1. Frame!Fresh(p) = WriteZeros(New(c), pre)
      BY <1>3, <1>5, <2>1, FramerCalls DEF Frame!Fresh
    <3> QED
      BY <2>2, <2>4, <3>1 DEF WriteZeros
  <2>9. LaneHolds(w, c, pre, q, st, 0, sig)
    <3>1. Available(w) = pre + (IF 0 < q THEN 0 ELSE q) * st
      BY <1>2, <2>7
    <3>2. ASSUME NEW k \in 1..pre PROVE sig[Given(0, q) * st + k] = 0
      <4>1. 0 + k = k /\ k \in Nat /\ k <= pre
        OBVIOUS
      <4> QED
        BY <1>2, <4>1
    <3> QED
      BY <2>6, <2>7, <3>1, <3>2 DEF LaneHolds
  <2>10. Frame!PrefillAllowed(p)
    <3>1. Frame!CanWrite(New(c)) = c
      BY <1>1, FramerCalls DEF CanWrite, New
    <3>2. c >= pre
      BY <2>1 DEF Positive
    <3> QED
      BY <1>3, <2>1, <3>1, <3>2, FramerCalls DEF Frame!PrefillAllowed, Frame!WriteAllowed
  <2> QED
    BY <2>8, <2>9, <2>10
<1> QED
  BY <1>3, <1>4, <1>5

\* The frames that the steps of a lane give.
LEMMA FramesGiven ==
  ASSUME NEW c \in Nat \ {0}, NEW st \in Nat \ {0}, NEW fs \in Nat \ {0}, NEW od \in Nat \ {0},
         NEW nf \in Nat \ {0}, NEW pre \in Nat, NEW q \in Nat,
         IsFramer(v2, c, pre, q, st, fs, od, nf), NEW n \in Nat, n >= q
  PROVE  Frame!FramesOf(n) = n - q
<1>1. pre + q * st < fs /\ fs <= pre + q * st + st
  BY DEF IsFramer, LaneRoom
<1>2. ASSUME NEW s \in 1..n PROVE pre + s * st >= fs <=> s >= q + 1
  <2>1. CASE s >= q + 1
    <3>1. PICK d \in Nat : s = (q + 1) + d
      <4>1. s - (q + 1) \in Nat /\ s = (q + 1) + (s - (q + 1))
        BY <2>1
      <4> QED
        BY <4>1
    <3>2. s * st = q * st + st + d * st /\ d * st >= 0 /\ q * st \in Nat /\ d * st \in Nat
      BY <3>1 DEF Positive
    <3>3. PICK qs \in Nat, ds \in Nat : qs = q * st /\ ds = d * st
      BY <3>2
    <3>4. s * st = qs + st + ds /\ fs <= pre + qs + st
      BY <1>1, <3>2, <3>3
    <3> QED
      BY <2>1, <3>4 DEF Positive
  <2>2. CASE ~(s >= q + 1)
    <3>1. PICK d \in Nat : q = s + d
      <4>1. q - s \in Nat /\ q = s + (q - s)
        BY <2>2
      <4> QED
        BY <4>1
    <3>2. q * st = s * st + d * st /\ d * st \in Nat /\ s * st \in Nat
      BY <3>1 DEF Positive
    <3>3. PICK qs \in Nat, ds \in Nat, ss \in Nat : qs = q * st /\ ds = d * st /\ ss = s * st
      BY <3>2 DEF Positive
    <3>4. qs = ss + ds /\ pre + qs < fs /\ (pre + s * st >= fs <=> pre + ss >= fs)
      BY <1>1, <3>2, <3>3
    <3> QED
      BY <2>2, <3>4 DEF Positive
  <2> QED
    BY <2>1, <2>2
<1>3. {s \in 1..n : Frame!Prefix + s * v2.frame_step >= v2.frame_size} = (q + 1)..n
  <2>1. Frame!Prefix = pre /\ v2.frame_step = st /\ v2.frame_size = fs
    BY DEF IsFramer, Frame!Prefix, Pre
  <2>2. \A s \in Int : s \in (q + 1)..n => s \in 1..n
    OBVIOUS
  <2>3. \A s \in Int : s \in (q + 1)..n <=> s \in 1..n /\ s >= q + 1
    OBVIOUS
  <2>4. {s \in 1..n : pre + s * st >= fs} = {s \in 1..n : s >= q + 1}
    BY <1>2
  <2>5. {s \in 1..n : s >= q + 1} = (q + 1)..n
    BY <2>2, <2>3
  <2> QED
    BY <2>1, <2>4, <2>5
<1>4. Frame!Cardinality((q + 1)..n) = Cardinality((q + 1)..n)
  BY DEF Cardinality, Frame!Cardinality, IsFiniteSet, Frame!IsFiniteSet
<1>5. Cardinality((q + 1)..n) = n - q
  <2>1. q + 1 \in Int /\ n \in Int
    OBVIOUS
  <2>2. Cardinality((q + 1)..n) = IF q + 1 > n THEN 0 ELSE n - (q + 1) + 1
    BY <2>1, FS_Interval
  <2> QED
    BY <2>2
<1> QED
  BY <1>3, <1>4, <1>5 DEF Frame!FramesOf

\* Frame n of a lane's signal.
FrameNo(i, n) == [k \in 1..v2.frame_size |-> SignalOf(i)[n * v2.frame_step + k]]

\* The buffer of lane i after so many steps.
Held(i, steps) ==
  LaneHolds(v3[i], Frame!CapacityFor(v2), Pre(v2), Waits(v2), v2.frame_step, steps, SignalOf(i))

\* Steps of lane i since the reset, of which the lanes had T before the invocation.
StepsOf(i, T) ==
  IF v1 = "idle" THEN T
  ELSE IF i < v4 THEN T + v2.n_frames ELSE IF i = v4 THEN T + v5 ELSE T

\* The frames that this invocation has read, or those of the last one.
FramesRead(T) ==
  /\ v1 = "eval" /\ (v4 > 0 \/ v5 > 0) =>
       /\ T >= Waits(v2)
       /\ \A i \in Frame!Lanes, f \in Frame!Frames :
            i < v4 \/ (i = v4 /\ f < v5) => v6[i][f] = FrameNo(i, T - Waits(v2) + f)
  /\ v1 = "idle" /\ T > 0 =>
       /\ T - v2.n_frames >= Waits(v2)
       /\ \A i \in Frame!Lanes, f \in Frame!Frames :
            v6[i][f] = FrameNo(i, T - v2.n_frames - Waits(v2) + f)

\* Where the lanes are after T steps of each, and those of this invocation.
FramerAt(T) ==
  /\ v8 = v9 + T * v2.frame_step
  /\ v1 = "idle" /\ T > 0 => T >= v2.n_frames
  /\ \A i \in Frame!Lanes : Held(i, StepsOf(i, T))
  /\ v7 => FramesRead(T)
  /\ v2.prefill => (v1 = "eval" => v7) /\ (v1 = "idle" /\ T > 0 => v7)

\* The ranges of the variables.
FramerTypes ==
  /\ v2 \in Framers /\ v1 \in {"idle", "eval"} /\ v7 \in BOOLEAN
  /\ v4 \in Frame!Lanes /\ v5 \in Frame!Frames
  /\ v8 \in Nat /\ v9 \in Nat /\ v10 \in Nat
  /\ DOMAIN v3 = Frame!Lanes /\ DOMAIN v6 = Frame!Lanes
  /\ \A i \in Frame!Lanes : DOMAIN v6[i] = Frame!Frames
  /\ v1 = "idle" => v4 = 0 /\ v5 = 0
  /\ v10 <= v2.outer_dims * v2.n_frames
  /\ v1 = "eval" => v10 <= v4 * v2.n_frames + v5

\* The inductive invariant of the framer.
FramerIInv == FramerTypes /\ \E T \in Nat : FramerAt(T)

\* Prepare, with or without a prefill.
LEMMA FramerStarts == Frame!Init => FramerIInv
<1> SUFFICES ASSUME Frame!Init PROVE FramerIInv
  OBVIOUS
<1>1. v2 \in Framers
  BY DEF Frame!Init
<1>2. PICK c, st, fs, od, nf \in Nat \ {0}, pre, q \in Nat :
        IsFramer(v2, c, pre, q, st, fs, od, nf)
  BY <1>1, FramerNumbers
<1>3. /\ Frame!Lanes = 0..(od - 1) /\ Frame!Frames = 0..(nf - 1)
      /\ v2.outer_dims = od /\ v2.n_frames = nf
  BY <1>2 DEF IsFramer, Frame!Lanes, Frame!Frames
<1>4. 0 \in Frame!Lanes /\ 0 \in Frame!Frames
  BY <1>3 DEF Positive
<1>5. v9 = 0 /\ v8 = 0 /\ v10 = 0 /\ v4 = 0 /\ v5 = 0 /\ v7 = FALSE
  BY DEF Frame!Init
<1>6. ASSUME NEW i \in Frame!Lanes
      PROVE  /\ Frame!PrefillAllowed(v2)
             /\ LaneHolds(Frame!Fresh(v2), c, pre, q, st, 0, SignalOf(i))
  <2>1. i \in Int
    BY <1>3
  <2>2. SignalIs(pre, od, 0)
    BY <1>2, <1>5 DEF IsFramer, SignalIs
  <2>3. \A k \in Nat : k <= pre => SignalOf(i)[k] = 0
    BY <1>2, <2>1, <2>2, SignalFacts
  <2> QED
    BY <1>1, <1>2, <2>3, FreshLane
<1>7. v1 = "idle" /\ v3 = [i \in Frame!Lanes |-> Frame!Fresh(v2)]
  BY <1>4, <1>6 DEF Frame!Init
<1>8. FramerTypes
  <2>1. v6 = [i \in Frame!Lanes |-> [f \in Frame!Frames |-> << >>]]
    BY DEF Frame!Init
  <2>2. od * nf \in Nat
    BY <1>2 DEF Positive
  <2>3. 0 <= v2.outer_dims * v2.n_frames
    BY <1>3, <2>2
  <2> QED
    BY <1>1, <1>4, <1>5, <1>7, <2>1, <2>3 DEF FramerTypes
<1>9. FramerAt(0)
  <2>1. 0 = 0 + 0 * v2.frame_step
    <3>1. 0 * st = 0 /\ v2.frame_step = st
      BY <1>2 DEF IsFramer, Positive
    <3> QED
      BY <3>1
  <2>2. \A i \in Frame!Lanes : Held(i, StepsOf(i, 0))
    BY <1>2, <1>6, <1>7 DEF Held, StepsOf, IsFramer
  <2> QED
    BY <1>5, <1>7, <2>1, <2>2 DEF FramerAt
<1> QED
  BY <1>8, <1>9 DEF FramerIInv

\* A further invocation.
LEMMA FramerInvokes == FramerIInv /\ Frame!Invoke => FramerIInv'
<1> SUFFICES ASSUME FramerIInv, Frame!Invoke PROVE FramerIInv'
  OBVIOUS
<1>1. PICK T \in Nat : FramerAt(T)
  BY DEF FramerIInv
<1>2. /\ v1 = "idle" /\ v1' = "eval" /\ v7' = TRUE /\ v4' = 0 /\ v5' = 0 /\ v10' = 0
      /\ UNCHANGED <<v2, v3, v6, v8, v9>>
  BY DEF Frame!Invoke
<1>3. FramerTypes
  BY DEF FramerIInv
<1>4. PICK c, st, fs, od, nf \in Nat \ {0}, pre, q \in Nat :
        IsFramer(v2, c, pre, q, st, fs, od, nf)
  BY <1>3, FramerNumbers DEF FramerTypes
<1>5. /\ Frame!Lanes = 0..(od - 1) /\ Frame!Frames = 0..(nf - 1)
      /\ v2.outer_dims = od /\ v2.n_frames = nf
      /\ Frame!Lanes' = Frame!Lanes /\ Frame!Frames' = Frame!Frames
  BY <1>2, <1>4 DEF IsFramer, Frame!Lanes, Frame!Frames
<1>6. FramerTypes'
  <2>1. 0 \in Frame!Lanes /\ 0 \in Frame!Frames
    BY <1>5 DEF Positive
  <2>2. 0 <= od * nf /\ 0 <= 0 * nf + 0
    BY <1>4 DEF Positive
  <2>3. 0 <= v2.outer_dims * v2.n_frames /\ 0 <= 0 * v2.n_frames + 0
    BY <1>5, <2>2
  <2> QED
    BY <1>2, <1>3, <1>5, <2>1, <2>3 DEF FramerTypes
<1>7. FramerAt(T)'
  <2>1. ASSUME NEW i \in Frame!Lanes PROVE Held(i, StepsOf(i, T))'
    <3>1. Held(i, T)
      BY <1>1, <1>2 DEF FramerAt, StepsOf
    <3>2. StepsOf(i, T)' = T
      <4>1. i \in Nat /\ ~(i < 0) /\ T + 0 = T
        BY <1>5
      <4> QED
        BY <1>2, <4>1 DEF StepsOf
    <3>3. SignalOf(i)' = SignalOf(i)
      BY <1>2 DEF SignalOf, Frame!Signal, Frame!Sample, Frame!Prefix
    <3>4. Held(i, T)'
      BY <1>2, <3>1, <3>3 DEF Held
    <3> QED
      BY <3>2, <3>4 DEF Held
  <2>2. FramesRead(T)'
    <3>1. ~(0 > 0)
      OBVIOUS
    <3> QED
      BY <1>2, <3>1 DEF FramesRead
  <2> QED
    BY <1>1, <1>2, <1>5, <2>1, <2>2 DEF FramerAt
<1> QED
  BY <1>6, <1>7 DEF FramerIInv

\* The reset starts each lane again.
LEMMA FramerResets == FramerIInv /\ Frame!CallReset => FramerIInv'
<1> SUFFICES ASSUME FramerIInv, Frame!CallReset PROVE FramerIInv'
  OBVIOUS
<1>1. PICK T \in Nat : FramerAt(T)
  BY DEF FramerIInv
<1>2. /\ v1 = "idle" /\ v3' = [i \in Frame!Lanes |-> Frame!Fresh(v2)] /\ v9' = v8
      /\ UNCHANGED <<v1, v2, v4, v5, v6, v7, v8, v10>>
  BY DEF Frame!CallReset, Frame!ResetBuffers
<1>3. FramerTypes
  BY DEF FramerIInv
<1>4. PICK c, st, fs, od, nf \in Nat \ {0}, pre, q \in Nat :
        IsFramer(v2, c, pre, q, st, fs, od, nf)
  BY <1>3, FramerNumbers DEF FramerTypes
<1>5. /\ Frame!Lanes = 0..(od - 1)
      /\ Frame!Lanes' = Frame!Lanes /\ Frame!Frames' = Frame!Frames
  BY <1>2, <1>4 DEF IsFramer, Frame!Lanes, Frame!Frames
<1>6. FramerTypes'
  BY <1>2, <1>3, <1>5 DEF FramerTypes
<1>7. FramerAt(0)'
  <2>1. ASSUME NEW i \in Frame!Lanes PROVE Held(i, StepsOf(i, 0))'
    <3>1. \A k \in Nat : k <= pre => SignalOf(i)'[k] = 0
      <4>1. Frame!Prefix' = pre
        BY <1>2, <1>4 DEF Frame!Prefix, IsFramer, Pre
      <4> QED
        BY <4>1 DEF SignalOf, Frame!Signal
    <3>2. LaneHolds(Frame!Fresh(v2), c, pre, q, st, 0, SignalOf(i)')
      BY <1>3, <1>4, <3>1, FreshLane DEF FramerTypes
    <3>3. v3'[i] = Frame!Fresh(v2) /\ StepsOf(i, 0)' = 0
      BY <1>2 DEF StepsOf
    <3>4. /\ Frame!CapacityFor(v2)' = c /\ Pre(v2)' = pre /\ Waits(v2)' = q
          /\ v2.frame_step' = st
      BY <1>2, <1>4 DEF IsFramer
    <3> QED
      BY <3>2, <3>3, <3>4 DEF Held
  <2>2. FramesRead(0)'
    <3>1. ~(0 > 0)
      OBVIOUS
    <3> QED
      BY <1>2, <3>1 DEF FramesRead
  <2>3. v8 = v8 + 0 * v2.frame_step
    <3>1. 0 * st = 0 /\ v2.frame_step = st /\ v8 \in Nat
      BY <1>3, <1>4 DEF IsFramer, Positive, FramerTypes
    <3> QED
      BY <3>1
  <2> QED
    BY <1>2, <1>5, <2>1, <2>2, <2>3 DEF FramerAt
<1> QED
  BY <1>6, <1>7 DEF FramerIInv

\* The steps that the lane of this turn has had.
Turn(T, t) == t = T + v5

\* The body of the loops: no assertion fails, and there is a frame when q steps have
\* gone before.
LEMMA FramerBody ==
  ASSUME FramerTypes, v1 = "eval", NEW T \in Nat, FramerAt(T),
         NEW c \in Nat \ {0}, NEW st \in Nat \ {0}, NEW fs \in Nat \ {0}, NEW od \in Nat \ {0},
         NEW nf \in Nat \ {0}, NEW pre \in Nat, NEW q \in Nat,
         IsFramer(v2, c, pre, q, st, fs, od, nf),
         NEW t \in Nat, Turn(T, t),
         NEW w, w = Frame!Write(v3[v4], Frame!Input)
  PROVE  /\ Frame!StepAllowed
         /\ t < q => ~Frame!Enough(w) /\ LaneHolds(w, c, pre, q, st, t + 1, SignalOf(v4))
         /\ ~(t < q) =>
              /\ Frame!Enough(w)
              /\ Frame!Get(w, v2.frame_size) = FrameNo(v4, t - q)
              /\ LaneHolds(Frame!Discard(w, v2.frame_step), c, pre, q, st, t + 1, SignalOf(v4))
<1>1. PICK b, vs, sig : b = v3[v4] /\ vs = Frame!Input /\ sig = SignalOf(v4)
  OBVIOUS
<1>2. /\ v2.frame_step = st /\ v2.frame_size = fs /\ v2.outer_dims = od /\ v2.n_frames = nf
      /\ Frame!CapacityFor(v2) = c /\ Pre(v2) = pre /\ Waits(v2) = q
      /\ LaneRoom(c, pre, q, st, fs)
  BY DEF IsFramer
<1>3. v4 \in Frame!Lanes /\ v4 \in Int /\ v5 \in Nat /\ v9 \in Nat /\ v8 \in Nat
  BY <1>2 DEF FramerTypes, Frame!Lanes, Frame!Frames
<1>4. StepsOf(v4, T) = t
  <2>1. ~(v4 < v4)
    BY <1>3
  <2> QED
    BY <2>1 DEF StepsOf, Turn
<1>5. LaneHolds(b, c, pre, q, st, t, sig)
  BY <1>1, <1>2, <1>3, <1>4 DEF FramerAt, Held
<1>6. PICK i \in Int, since \in Nat, fed \in Nat, f \in Nat :
        i = v4 /\ since = v9 /\ fed = v8 /\ f = v5
  BY <1>3
<1>7. PICK ts \in Nat, Ts \in Nat, fst \in Nat :
        ts = t * st /\ Ts = T * st /\ fst = f * st /\ ts = Ts + fst
  <2>1. t = T + f
    BY <1>6 DEF Turn
  <2>2. t * st \in Nat /\ T * st \in Nat /\ f * st \in Nat /\ t * st = T * st + f * st
    BY <1>6, <2>1 DEF Positive
  <2> QED
    BY <2>2
<1>8. fed = since + Ts
  BY <1>2, <1>6, <1>7 DEF FramerAt
<1>9. vs = [k \in 1..st |-> (fed + fst + k) * od + i + 1]
  <2>1. vs = [k \in 1..v2.frame_step |-> (v8 + v5 * v2.frame_step + k) * v2.outer_dims + v4 + 1]
    BY <1>1 DEF Frame!Input, Frame!Sample
  <2> QED
    BY <1>2, <1>6, <1>7, <2>1
<1>10. vs \in Seq(Int) /\ Len(vs) = st
  <2>1. i \in Int /\ fed \in Nat /\ fst \in Nat
    BY <1>6, <1>7
  <2>2. \A k \in 1..st : (fed + fst + k) * od + i + 1 \in Int
    BY <2>1 DEF Positive
  <2> QED
    BY <1>9, <2>2 DEF Positive
<1>11. ASSUME NEW k \in 1..st PROVE vs[k] = sig[pre + t * st + k]
  <2>1. pre + ts + k \in Nat /\ pre + ts + k > pre
    BY <1>7
  <2>2. SignalOf(i)[pre + ts + k] = (since + (pre + ts + k) - pre) * od + i + 1
    <3>1. SignalIs(pre, od, since) /\ i \in Int /\ since \in Nat
      BY <1>2, <1>6 DEF SignalIs
    <3> QED
      BY <2>1, <3>1, SignalFacts
  <2>3. since + (pre + ts + k) - pre = fed + fst + k
    <3>1. since \in Nat /\ ts \in Nat /\ Ts \in Nat /\ fst \in Nat
      BY <1>6, <1>7
    <3> QED
      BY <1>7, <1>8, <3>1
  <2> QED
    BY <1>1, <1>6, <1>7, <1>9, <2>2, <2>3
<1>12. w = Write(b, vs)
  BY <1>1, FramerCalls
<1>13. /\ CanWrite(b) >= st /\ Available(w) >= st
       /\ t < q => ~(Available(w) >= fs) /\ LaneHolds(w, c, pre, q, st, t + 1, sig)
       /\ ~(t < q) => /\ Available(w) >= fs
                      /\ Get(w, fs) = [k \in 1..fs |-> sig[(t - q) * st + k]]
                      /\ LaneHolds(Discard(w, st), c, pre, q, st, t + 1, sig)
  <2>1. c \in Nat \ {0} /\ st \in Nat \ {0} /\ fs \in Nat \ {0}
    OBVIOUS
  <2>2. LaneRoom(c, pre, q, st, fs)
    BY <1>2
  <2>3. LaneInput(vs, pre, st, t, sig)
    BY <1>10, <1>11 DEF LaneInput
  <2>4. LaneStepped(b, c, pre, q, st, fs, t, sig, Write(b, vs))
    BY <1>5, <2>1, <2>2, <2>3, LaneStep
  <2> QED
    BY <1>12, <2>4 DEF LaneStepped
<1>14. Frame!Enough(w) <=> Available(w) >= fs
  BY <1>2, FramerCalls DEF Frame!Enough
<1>15. Frame!StepAllowed
  <2>1. Frame!WriteAllowed(v3[v4], v2.frame_step)
    BY <1>1, <1>2, <1>13, FramerCalls DEF Frame!WriteAllowed
  <2>2. Frame!Enough(w) => Frame!GetAllowed(w, v2.frame_size)
    BY DEF Frame!Enough, Frame!GetAllowed
  <2>3. Frame!DiscardAllowed(w, v2.frame_step)
    <3>1. st > 0
      BY DEF Positive
    <3> QED
      BY <1>2, <1>13, <3>1, FramerCalls DEF Frame!DiscardAllowed
  <2> QED
    BY <2>1, <2>2, <2>3 DEF Frame!StepAllowed
<1>16. Get(w, fs) = [k \in 1..fs |-> sig[(t - q) * st + k]]
         => Frame!Get(w, v2.frame_size) = FrameNo(v4, t - q)
  BY <1>1, <1>2, FramerCalls DEF FrameNo
<1>17. Frame!Discard(w, v2.frame_step) = Discard(w, st)
  BY <1>2, FramerCalls
<1> QED
  BY <1>1, <1>13, <1>14, <1>15, <1>16, <1>17

\* The loops go on: where the lanes are when lane `i` has taken one more step.
LEMMA StepsAdvance ==
  ASSUME FramerTypes, v1 = "eval", NEW T \in Nat, Frame!Advance, UNCHANGED v2,
         NEW c \in Nat \ {0}, NEW st \in Nat \ {0}, NEW fs \in Nat \ {0}, NEW od \in Nat \ {0},
         NEW nf \in Nat \ {0}, NEW pre \in Nat, NEW q \in Nat,
         IsFramer(v2, c, pre, q, st, fs, od, nf),
         NEW U \in Nat, U = IF v1' = "idle" THEN T + nf ELSE T,
         NEW i \in Frame!Lanes
  PROVE  StepsOf(i, U)' = IF i = v4 THEN StepsOf(i, T) + 1 ELSE StepsOf(i, T)
<1>0. v2.outer_dims = od /\ v2.n_frames = nf /\ v2.n_frames' = nf
  BY DEF IsFramer
<1>1. PICK l \in 0..(od - 1), f \in 0..(nf - 1), j \in 0..(od - 1) : l = v4 /\ f = v5 /\ j = i
  BY <1>0 DEF FramerTypes, Frame!Lanes, Frame!Frames
<1>2. l \in 0..(od - 1) /\ f \in 0..(nf - 1) /\ j \in 0..(od - 1)
  BY <1>1
<1>3. PICK s \in Nat : s = IF j < l THEN T + nf ELSE IF j = l THEN T + f ELSE T
  BY <1>2
<1>4. StepsOf(i, T) = s
  BY <1>0, <1>1, <1>3 DEF StepsOf
<1>5. PICK n \in Nat : n = IF j = l THEN s + 1 ELSE s
  OBVIOUS
<1>6. SUFFICES StepsOf(i, U)' = n
  BY <1>1, <1>4, <1>5
<1>7. CASE f + 1 < nf
  <2>1. v5' = f + 1 /\ v1' = "eval" /\ v4' = l
    BY <1>0, <1>1, <1>7 DEF Frame!Advance
  <2>2. StepsOf(i, U)' = IF j < l THEN T + nf ELSE IF j = l THEN T + (f + 1) ELSE T
    BY <1>0, <1>1, <2>1 DEF StepsOf
  <2>3. n = IF j < l THEN T + nf ELSE IF j = l THEN T + (f + 1) ELSE T
    BY <1>2, <1>3, <1>5
  <2> QED
    BY <2>2, <2>3
<1>8. CASE ~(f + 1 < nf) /\ l + 1 < od
  <2>1. v5' = 0 /\ v1' = "eval" /\ v4' = l + 1
    BY <1>0, <1>1, <1>8 DEF Frame!Advance
  <2>2. StepsOf(i, U)' = IF j < l + 1 THEN T + nf ELSE IF j = l + 1 THEN T + 0 ELSE T
    BY <1>0, <1>1, <2>1 DEF StepsOf
  <2>3. n = IF j < l + 1 THEN T + nf ELSE IF j = l + 1 THEN T + 0 ELSE T
    BY <1>2, <1>3, <1>5, <1>8
  <2> QED
    BY <2>2, <2>3
<1>9. CASE ~(f + 1 < nf) /\ ~(l + 1 < od)
  <2>1. v1' = "idle"
    BY <1>0, <1>1, <1>9 DEF Frame!Advance
  <2>2. StepsOf(i, U)' = T + nf
    BY <2>1 DEF StepsOf
  <2>3. n = T + nf
    BY <1>2, <1>3, <1>5, <1>9
  <2> QED
    BY <2>2, <2>3
<1> QED
  BY <1>7, <1>8, <1>9

\* The frames written so far fit into the output.
LEMMA WrittenBound ==
  ASSUME NEW l \in Nat, NEW f \in Nat, NEW w \in Nat, NEW nf \in Nat \ {0}, NEW od \in Nat \ {0},
         f < nf, l < od, w <= l * nf + f
  PROVE  /\ w + 1 <= l * nf + (f + 1)
         /\ ~(f + 1 < nf) => w + 1 <= (l + 1) * nf + 0
         /\ w + 1 <= od * nf
<1>1. PICK d \in Nat : od = (l + 1) + d
  <2>1. od - (l + 1) \in Nat /\ od = (l + 1) + (od - (l + 1))
    OBVIOUS
  <2> QED
    BY <2>1
<1>2. od * nf = (l + 1) * nf + d * nf /\ (l + 1) * nf = l * nf + nf /\ d * nf \in Nat
      /\ l * nf \in Nat
  BY <1>1
<1>3. PICK ln \in Nat, dn \in Nat : ln = l * nf /\ dn = d * nf
  BY <1>2
<1>4. od * nf = ln + nf + dn /\ (l + 1) * nf = ln + nf /\ w <= ln + f
  BY <1>2, <1>3
<1> QED
  BY <1>3, <1>4

\* A turn of the loops: the lane of this turn has one more step, the others stay.
LEMMA FramerSteps == FramerIInv /\ Frame!Step => FramerIInv'
<1> SUFFICES ASSUME FramerIInv, Frame!Step PROVE FramerIInv'
  OBVIOUS
<1>1. PICK T \in Nat : FramerAt(T)
  BY DEF FramerIInv
<1>2. v1 = "eval" /\ UNCHANGED <<v2, v9>> /\ FramerTypes
  BY DEF Frame!Step, FramerIInv
<1>3. PICK c, st, fs, od, nf \in Nat \ {0}, pre, q \in Nat :
        IsFramer(v2, c, pre, q, st, fs, od, nf)
  BY <1>2, FramerNumbers DEF FramerTypes
<1>4. /\ c \in Nat \ {0} /\ st \in Nat \ {0} /\ fs \in Nat \ {0} /\ od \in Nat \ {0}
      /\ nf \in Nat \ {0} /\ pre \in Nat /\ q \in Nat
  BY <1>3
<1>5. /\ v2.frame_step = st /\ v2.frame_size = fs /\ v2.outer_dims = od /\ v2.n_frames = nf
      /\ Frame!CapacityFor(v2) = c /\ Pre(v2) = pre /\ Waits(v2) = q
      /\ Frame!Lanes = 0..(od - 1) /\ Frame!Frames = 0..(nf - 1)
      /\ Frame!Lanes' = Frame!Lanes /\ Frame!Frames' = Frame!Frames
  BY <1>2, <1>3 DEF IsFramer, Frame!Lanes, Frame!Frames
<1>6. PICK t \in Nat : Turn(T, t)
  <2>1. v5 \in Nat
    BY <1>2, <1>5 DEF FramerTypes
  <2> QED
    BY <2>1 DEF Turn
<1>7. PICK w : w = Frame!Write(v3[v4], Frame!Input)
  OBVIOUS
<1>8. /\ Frame!StepAllowed
      /\ t < q => ~Frame!Enough(w) /\ LaneHolds(w, c, pre, q, st, t + 1, SignalOf(v4))
      /\ ~(t < q) =>
           /\ Frame!Enough(w)
           /\ Frame!Get(w, v2.frame_size) = FrameNo(v4, t - q)
           /\ LaneHolds(Frame!Discard(w, v2.frame_step), c, pre, q, st, t + 1, SignalOf(v4))
  BY <1>1, <1>2, <1>3, <1>6, <1>7, FramerBody
<1>9. Frame!Advance
  BY <1>8 DEF Frame!Step, Frame!Frame
<1>10. /\ t < q => /\ v3' = [v3 EXCEPT ![v4] = w] /\ v7' = FALSE /\ UNCHANGED <<v6, v10>>
       /\ ~(t < q) => /\ v6' = [v6 EXCEPT ![v4][v5] = FrameNo(v4, t - q)]
                      /\ v3' = [v3 EXCEPT ![v4] = Frame!Discard(w, v2.frame_step)]
                      /\ v10' = v10 + 1 /\ v7' = v7
  BY <1>7, <1>8 DEF Frame!Step, Frame!Frame
<1>11. ASSUME NEW i \in Frame!Lanes PROVE SignalOf(i)' = SignalOf(i)
  BY <1>2 DEF SignalOf, Frame!Signal, Frame!Sample, Frame!Prefix
<1>12. \A i, n : FrameNo(i, n)' = FrameNo(i, n)
  BY <1>2 DEF FrameNo, SignalOf, Frame!Signal, Frame!Sample, Frame!Prefix
<1>13. PICK U \in Nat : U = IF v1' = "idle" THEN T + nf ELSE T
  BY <1>4
<1>14. \A i \in Frame!Lanes :
         StepsOf(i, U)' = IF i = v4 THEN StepsOf(i, T) + 1 ELSE StepsOf(i, T)
  <2>1. FramerTypes /\ v1 = "eval" /\ UNCHANGED v2
    BY <1>2
  <2>2. U = IF v1' = "idle" THEN T + nf ELSE T
    BY <1>13
  <2> QED
    BY <1>3, <1>9, <1>13, <2>1, <2>2, StepsAdvance
<1>15. v4 \in Frame!Lanes /\ v5 \in Frame!Frames /\ DOMAIN v3 = Frame!Lanes
       /\ DOMAIN v6 = Frame!Lanes /\ \A i \in Frame!Lanes : DOMAIN v6[i] = Frame!Frames
  BY <1>2 DEF FramerTypes
<1>16. StepsOf(v4, T) = t
  <2>1. ~(v4 < v4)
    BY <1>5, <1>15
  <2> QED
    BY <1>2, <1>6, <2>1 DEF StepsOf, Turn
<1>17. LaneHolds(v3'[v4], c, pre, q, st, t + 1, SignalOf(v4))
  BY <1>8, <1>10, <1>15
<1>18. ASSUME NEW i \in Frame!Lanes PROVE Held(i, StepsOf(i, U))'
  <2>1. CASE i = v4
    <3>1. StepsOf(i, U)' = t + 1
      BY <1>14, <1>16, <2>1
    <3> QED
      BY <1>2, <1>5, <1>11, <1>17, <2>1, <3>1 DEF Held
  <2>2. CASE i # v4
    <3>1. v3'[i] = v3[i]
      BY <1>10, <1>15, <2>2
    <3>2. Held(i, StepsOf(i, T))
      BY <1>1 DEF FramerAt
    <3> QED
      BY <1>2, <1>5, <1>11, <1>14, <2>2, <3>1, <3>2 DEF Held
  <2> QED
    BY <2>1, <2>2
<1>19. PICK l \in 0..(od - 1), f \in 0..(nf - 1) : l = v4 /\ f = v5
  BY <1>5, <1>15
<1>20. l \in 0..(od - 1) /\ f \in 0..(nf - 1)
  BY <1>19
<1>21. \/ f + 1 < nf /\ v5' = f + 1 /\ v4' = l /\ v1' = "eval" /\ v8' = v8
       \/ ~(f + 1 < nf) /\ l + 1 < od /\ v5' = 0 /\ v4' = l + 1 /\ v1' = "eval" /\ v8' = v8
       \/ ~(f + 1 < nf) /\ ~(l + 1 < od) /\ v5' = 0 /\ v4' = 0 /\ v1' = "idle"
            /\ v8' = v8 + nf * st
  BY <1>2, <1>5, <1>9, <1>19 DEF Frame!Advance
<1>22. v8' = v9 + U * st
  <2>1. v8 = v9 + T * st /\ v8 \in Nat /\ v9 \in Nat
    BY <1>1, <1>2, <1>5 DEF FramerAt, FramerTypes
  <2>2. T * st \in Nat /\ nf * st \in Nat /\ (T + nf) * st = T * st + nf * st
    BY <1>4
  <2>3. CASE v1' = "idle"
    <3>1. v8' = v8 + nf * st /\ U = T + nf
      BY <1>13, <1>21, <2>3
    <3> QED
      BY <2>1, <2>2, <3>1
  <2>4. CASE v1' # "idle"
    BY <1>13, <1>21, <2>1, <2>4
  <2> QED
    BY <2>3, <2>4
<1>23. FramerTypes'
  <2>1. v1' \in {"idle", "eval"} /\ v4' \in 0..(od - 1) /\ v5' \in 0..(nf - 1)
        /\ (v1' = "idle" => v4' = 0 /\ v5' = 0)
    <3>1. f + 1 < nf => f + 1 \in 0..(nf - 1)
      BY <1>20
    <3>2. l + 1 < od => l + 1 \in 0..(od - 1)
      BY <1>20
    <3>3. 0 \in 0..(od - 1) /\ 0 \in 0..(nf - 1)
      BY <1>4
    <3> QED
      BY <1>20, <1>21, <3>1, <3>2, <3>3
  <2>2. v8' \in Nat
    <3>1. v8 \in Nat /\ nf * st \in Nat
      BY <1>2, <1>4 DEF FramerTypes
    <3> QED
      BY <1>21, <3>1
  <2>3. DOMAIN v3' = Frame!Lanes /\ DOMAIN v6' = Frame!Lanes
        /\ \A i \in Frame!Lanes : DOMAIN v6'[i] = Frame!Frames
    BY <1>10, <1>15
  <2>4. v10' \in Nat /\ v10' <= od * nf /\ (v1' = "eval" => v10' <= v4' * nf + v5')
    <3>1. PICK n \in Nat : n = v10
      BY <1>2 DEF FramerTypes
    <3>2. n \in Nat /\ n <= l * nf + f /\ l \in Nat /\ f \in Nat /\ f < nf /\ l < od
      BY <1>2, <1>5, <1>19, <1>20, <3>1 DEF FramerTypes
    <3>3. /\ n + 1 <= l * nf + (f + 1)
          /\ ~(f + 1 < nf) => n + 1 <= (l + 1) * nf + 0
          /\ n + 1 <= od * nf
      BY <1>4, <3>2, WrittenBound
    <3>4. PICK m \in n..(n + 1) : m = v10'
      BY <1>10, <3>1
    <3>5. m \in Nat /\ m <= n + 1
      BY <3>2, <3>4
    <3>6. /\ m <= l * nf + (f + 1)
          /\ ~(f + 1 < nf) => m <= (l + 1) * nf + 0
          /\ m <= od * nf
      <4>1. l * nf \in Nat /\ (l + 1) * nf \in Nat /\ od * nf \in Nat
        BY <1>4, <3>2
      <4> QED
        BY <3>2, <3>3, <3>5, <4>1
    <3> QED
      BY <1>21, <3>4, <3>5, <3>6
  <2> QED
    <3>1. v7' \in BOOLEAN
      BY <1>2, <1>10 DEF FramerTypes
    <3>2. /\ v10' <= v2.outer_dims' * v2.n_frames'
          /\ v1' = "eval" => v10' <= v4' * v2.n_frames' + v5'
      BY <1>2, <1>5, <2>4
    <3>3. v4' \in Frame!Lanes' /\ v5' \in Frame!Frames'
      BY <1>5, <2>1
    <3> QED
      BY <1>2, <1>5, <2>1, <2>2, <2>3, <2>4, <3>1, <3>2, <3>3 DEF FramerTypes
<1>24. v7' => FramesRead(U)'
  <2> SUFFICES ASSUME v7' PROVE FramesRead(U)'
    OBVIOUS
  <2>1. ~(t < q) /\ v7 /\ v6' = [v6 EXCEPT ![v4][v5] = FrameNo(v4, t - q)]
    BY <1>10
  <2>2. FramesRead(T)
    BY <1>1, <2>1 DEF FramerAt
  <2>3. T >= q
    <3>1. CASE l > 0 \/ f > 0
      BY <1>2, <1>5, <1>19, <2>2, <3>1 DEF FramesRead
    <3>2. CASE ~(l > 0 \/ f > 0)
      <4>1. f = 0
        BY <1>20, <3>2
      <4>2. t = T + 0
        BY <1>6, <1>19, <4>1 DEF Turn
      <4>3. t = T
        BY <1>1, <4>2
      <4> QED
        BY <1>1, <1>4, <1>6, <2>1, <4>3
    <3> QED
      BY <3>1, <3>2
  <2>4. t - q = T - q + f
    <3>1. t = T + f
      BY <1>6, <1>19 DEF Turn
    <3> QED
      BY <1>1, <1>4, <1>20, <3>1
  <2>5. ASSUME NEW i \in Frame!Lanes, NEW g \in Frame!Frames,
               i < l \/ (i = l /\ g < f + 1)
        PROVE  v6'[i][g] = FrameNo(i, T - q + g)
    <3>1. i \in 0..(od - 1) /\ g \in 0..(nf - 1)
      BY <1>5
    <3>2. CASE i = l /\ g = f
      BY <1>15, <1>19, <2>1, <2>4, <3>2
    <3>3. CASE ~(i = l /\ g = f)
      <4>1. i < l \/ (i = l /\ g < f)
        BY <1>20, <2>5, <3>1, <3>3
      <4>2. l > 0 \/ f > 0
        BY <1>20, <3>1, <4>1
      <4>3. v6[i][g] = FrameNo(i, T - q + g)
        BY <1>2, <1>5, <1>19, <2>2, <4>1, <4>2 DEF FramesRead
      <4>4. v6'[i][g] = v6[i][g]
        BY <1>15, <1>19, <2>1, <3>3
      <4> QED
        BY <4>3, <4>4
    <3> QED
      BY <3>2, <3>3
  <2>6. CASE v1' = "eval"
    <3>1. U = T
      BY <1>13, <2>6
    <3>2. ASSUME NEW i \in Frame!Lanes, NEW g \in Frame!Frames,
                 i < v4' \/ (i = v4' /\ g < v5')
          PROVE  v6'[i][g] = FrameNo(i, T - q + g)
      <4>1. i \in 0..(od - 1) /\ g \in 0..(nf - 1)
        BY <1>5
      <4>2. CASE f + 1 < nf
        <5>1. v4' = l /\ v5' = f + 1
          BY <1>21, <4>2
        <5> QED
          BY <2>5, <3>2, <5>1
      <4>3. CASE ~(f + 1 < nf)
        <5>1. v4' = l + 1 /\ v5' = 0
          BY <1>21, <2>6, <4>3
        <5>2. i < l + 1
          BY <3>2, <4>1, <5>1
        <5>3. i < l \/ (i = l /\ g < f + 1)
          BY <1>20, <4>1, <4>3, <5>2
        <5> QED
          BY <2>5, <5>3
      <4> QED
        BY <4>2, <4>3
    <3> QED
      BY <1>2, <1>5, <1>12, <2>3, <2>6, <3>1, <3>2 DEF FramesRead
  <2>7. CASE v1' # "eval"
    <3>1. v1' = "idle" /\ ~(f + 1 < nf) /\ ~(l + 1 < od)
      BY <1>21, <2>7
    <3>2. U = T + nf /\ U - nf = T
      BY <1>1, <1>4, <1>13, <3>1
    <3>3. ASSUME NEW i \in Frame!Lanes, NEW g \in Frame!Frames
          PROVE  v6'[i][g] = FrameNo(i, T - q + g)
      <4>1. i \in 0..(od - 1) /\ g \in 0..(nf - 1)
        BY <1>5
      <4>2. i < l \/ (i = l /\ g < f + 1)
        BY <1>20, <3>1, <4>1
      <4> QED
        BY <2>5, <4>2
    <3> QED
      BY <1>2, <1>5, <1>12, <2>3, <3>1, <3>2, <3>3, SMTT(60) DEF FramesRead
  <2> QED
    BY <2>6, <2>7
<1>25. v2.prefill => v7'
  <2> SUFFICES ASSUME v2.prefill PROVE v7'
    OBVIOUS
  <2>1. q = 0
    BY <1>3 DEF IsFramer
  <2>2. ~(t < q) /\ v7
    BY <1>1, <1>2, <1>6, <2>1 DEF FramerAt
  <2> QED
    BY <1>10, <2>2
<1>26. FramerAt(U)'
  <2>1. v1' = "idle" => U >= nf
    BY <1>1, <1>4, <1>13
  <2> QED
    BY <1>2, <1>5, <1>18, <1>22, <1>24, <1>25, <2>1 DEF FramerAt
<1> QED
  BY <1>13, <1>23, <1>26 DEF FramerIInv

\* The output of the framer, in its invariant.
LEMMA FramerRight ==
  FramerIInv => /\ Frame!TypeOK /\ Frame!NeverAborts
                /\ Frame!FramesRight /\ Frame!PrefillGivesOutput
<1> SUFFICES ASSUME FramerIInv
             PROVE  /\ Frame!TypeOK /\ Frame!NeverAborts
                    /\ Frame!FramesRight /\ Frame!PrefillGivesOutput
  OBVIOUS
<1>1. PICK T \in Nat : FramerAt(T)
  BY DEF FramerIInv
<1>2. FramerTypes
  BY DEF FramerIInv
<1>3. PICK c, st, fs, od, nf \in Nat \ {0}, pre, q \in Nat :
        IsFramer(v2, c, pre, q, st, fs, od, nf)
  BY <1>2, FramerNumbers DEF FramerTypes
<1>4. /\ c \in Nat \ {0} /\ st \in Nat \ {0} /\ fs \in Nat \ {0} /\ od \in Nat \ {0}
      /\ nf \in Nat \ {0} /\ pre \in Nat /\ q \in Nat
  BY <1>3
<1>5. /\ v2.frame_step = st /\ v2.frame_size = fs /\ v2.outer_dims = od /\ v2.n_frames = nf
      /\ Frame!CapacityFor(v2) = c /\ Pre(v2) = pre /\ Waits(v2) = q
      /\ Frame!Lanes = 0..(od - 1) /\ Frame!Frames = 0..(nf - 1)
  BY <1>2, <1>3 DEF IsFramer, Frame!Lanes, Frame!Frames
<1>6. v8 = v9 + T * st /\ v8 \in Nat /\ v9 \in Nat /\ T * st \in Nat
  BY <1>1, <1>2, <1>4, <1>5 DEF FramerAt, FramerTypes
<1>7. Frame!TypeOK
  <2>1. ASSUME NEW i \in Frame!Lanes PROVE v3[i].capacity = Frame!CapacityFor(v2)
    <3>1. Ring(v3[i], Frame!CapacityFor(v2))
      BY <1>1 DEF FramerAt, Held, LaneHolds
    <3> QED
      BY <1>4, <1>5, <3>1, RingFacts
  <2>2. v9 \in 0..v8
    BY <1>6
  <2>3. v10 \in 0..(v2.outer_dims * v2.n_frames)
    <3>1. v10 \in Nat /\ v10 <= od * nf /\ od * nf \in Nat
      BY <1>2, <1>4, <1>5 DEF FramerTypes
    <3> QED
      BY <1>5, <3>1
  <2> QED
    BY <1>2, <2>1, <2>2, <2>3 DEF Frame!TypeOK, FramerTypes
<1>8. Frame!NeverAborts
  BY <1>2 DEF Frame!NeverAborts, FramerTypes
<1>9. v8 > v9 => T > 0
  <2>1. T = 0 => T * st = 0
    BY <1>4
  <2> QED
    BY <1>1, <1>6, <2>1
<1>10. Frame!PrefillGivesOutput
  BY <1>1, <1>9 DEF Frame!PrefillGivesOutput, FramerAt
<1>11. Frame!FramesRight
  <2> SUFFICES ASSUME v1 = "idle", v7, v8 > v9, NEW i \in Frame!Lanes, NEW f \in Frame!Frames
               PROVE  v6[i][f] =
                        [k \in 1..v2.frame_size |->
                           Frame!Signal(i, (Frame!FramesOf((v8 - v9) \div v2.frame_step - v2.n_frames) + f)
                                              * v2.frame_step + k)]
    BY DEF Frame!FramesRight
  <2>1. (v8 - v9) \div v2.frame_step = T
    <3>1. v8 - v9 = st * T + 0
      <4>1. T * st = st * T + 0
        BY <1>1, <1>4
      <4> QED
        BY <1>6, <4>1
    <3>2. st \in Positive /\ 0 \in 0..(st - 1)
      BY <1>4 DEF Positive
    <3>3. (st * T + 0) \div st = T
      BY <1>1, <3>2, DivisionUnique
    <3> QED
      BY <1>5, <3>1, <3>3
  <2>2. T >= nf /\ T - nf >= q /\ v6[i][f] = FrameNo(i, T - nf - q + f)
    BY <1>1, <1>5, <1>9 DEF FramerAt, FramesRead
  <2>3. T - nf \in Nat
    BY <1>1, <1>4, <2>2
  <2>4. Frame!FramesOf(T - nf) = T - nf - q
    <3>1. PICK m \in Nat : m = T - nf
      BY <2>3
    <3>2. m \in Nat /\ m >= q
      BY <2>2, <3>1
    <3>3. Frame!FramesOf(m) = m - q
      BY <1>3, <3>2, FramesGiven, SMTT(60)
    <3> QED
      BY <3>1, <3>3
  <2>5. PICK n \in Nat : n = T - nf - q + f
    <3>1. f \in 0..(nf - 1)
      BY <1>5
    <3> QED
      BY <1>4, <2>2, <2>3, <3>1
  <2>6. ASSUME NEW k \in 1..fs PROVE SignalOf(i)[n * st + k] = Frame!Signal(i, n * st + k)
    <3>1. n * st + k \in Nat
      BY <1>4, <2>5
    <3> QED
      BY <3>1 DEF SignalOf
  <2>7. FrameNo(i, n) = [k \in 1..fs |-> Frame!Signal(i, n * st + k)]
    BY <1>5, <2>6 DEF FrameNo
  <2> QED
    BY <1>5, <2>1, <2>2, <2>4, <2>5, <2>7
<1> QED
  BY <1>7, <1>8, <1>10, <1>11

-----------------------------------------------------------------------------
(* The buffer of the stacker: whole frames of ch values. *)

\* Every place of a stack is that of one value of one frame.
LEMMA Rows ==
  ASSUME NEW ch \in Nat \ {0}, NEW m \in Nat, NEW j \in 0..(m - 1), NEW x \in 1..ch
  PROVE  /\ j * ch + x \in 1..(m * ch) /\ j * ch \in Nat /\ m * ch \in Nat
         /\ (j + 1) * ch = j * ch + ch
<1>1. PICK d \in Nat : m = (j + 1) + d
  <2>1. m - (j + 1) \in Nat /\ m = (j + 1) + (m - (j + 1))
    OBVIOUS
  <2> QED
    BY <2>1
<1>2. /\ m * ch = j * ch + ch + d * ch /\ j * ch \in Nat /\ d * ch \in Nat
      /\ (j + 1) * ch = j * ch + ch
  BY <1>1
<1>3. PICK jc \in Nat, dc \in Nat : jc = j * ch /\ dc = d * ch
  BY <1>2
<1>4. jc + x \in 1..(jc + ch + dc)
  BY <1>3
<1> QED
  BY <1>2, <1>3, <1>4

\* Of the frames val, those from `base` up to `upto`, which is not in it.
StackHolds(b, c, ch, base, upto, val) ==
  /\ Ring(b, c) /\ upto - base \in Nat
  /\ Available(b) = (upto - base) * ch
  /\ \A j \in 0..(upto - base - 1), x \in 1..ch : Unread(b, j * ch + x) = val[base + j][x]

\* A frame of ch values, as the kernel writes it.
IsFrame(vs, ch, f) == vs \in Seq(Int) /\ Len(vs) = ch /\ \A x \in 1..ch : vs[x] = f[x]

\* A frame more.
LEMMA StackWrite ==
  ASSUME NEW c \in Nat \ {0}, NEW ch \in Nat \ {0}, NEW base \in Int, NEW upto \in Int,
         NEW b, NEW val, NEW vs, StackHolds(b, c, ch, base, upto, val),
         IsFrame(vs, ch, val[upto]), (upto - base + 1) * ch <= c
  PROVE  /\ StackHolds(Write(b, vs), c, ch, base, upto + 1, val)
         /\ CanWrite(b) >= ch /\ Write(b, vs).read = b.read
<1>1. PICK w : w = Write(b, vs)
  OBVIOUS
<1>2. PICK m \in Nat : m = upto - base
  BY DEF StackHolds
<1>3. m \in Nat /\ upto + 1 - base = m + 1 /\ upto = base + m
  BY <1>2
<1>4. (m + 1) * ch = m * ch + ch /\ m * ch \in Nat
  BY <1>3
<1>5. PICK a \in Nat : a = m * ch
  BY <1>4
<1>6. a \in Nat /\ a + ch <= c
  BY <1>2, <1>4, <1>5
<1>7. /\ Ring(b, c) /\ Available(b) = a
      /\ \A j \in 0..(m - 1), x \in 1..ch : Unread(b, j * ch + x) = val[base + j][x]
  BY <1>2, <1>5 DEF StackHolds
<1>8. vs \in Seq(Int) /\ Len(vs) = ch /\ \A x \in 1..ch : vs[x] = val[upto][x]
  BY DEF IsFrame
<1>9. /\ Ring(w, c) /\ Available(w) = a + ch /\ w.read = b.read
      /\ \A k \in 1..a : Unread(w, k) = Unread(b, k)
      /\ \A k \in 1..ch : Unread(w, a + k) = vs[k]
  <2>1. Available(b) + ch <= c
    BY <1>6, <1>7
  <2>2. /\ Ring(w, c) /\ Available(w) = Available(b) + ch /\ w.read = b.read
        /\ \A k \in 1..Available(b) : Unread(w, k) = Unread(b, k)
        /\ \A k \in 1..ch : Unread(w, Available(b) + k) = vs[k]
    <3>1. ch \in Nat /\ Ring(b, c) /\ vs \in Seq(Int) /\ Len(vs) = ch
      BY <1>7, <1>8
    <3> QED
      BY <1>1, <2>1, <3>1, WriteContent
  <2> QED
    BY <1>7, <2>2
<1>10. CanWrite(b) >= ch
  <2>1. CanWrite(b) = c - a
    BY <1>7, RingAvailable
  <2> QED
    BY <1>6, <2>1
<1>11. ASSUME NEW j \in 0..m, NEW x \in 1..ch
       PROVE  Unread(w, j * ch + x) = val[base + j][x]
  <2>1. CASE j = m
    <3>1. Unread(w, a + x) = val[upto][x]
      BY <1>8, <1>9
    <3> QED
      BY <1>3, <1>5, <2>1, <3>1
  <2>2. CASE j # m
    <3>1. j \in 0..(m - 1)
      BY <1>3, <2>2
    <3>2. j * ch + x \in 1..a
      BY <1>3, <1>5, <3>1, Rows
    <3> QED
      BY <1>7, <1>9, <3>1, <3>2
  <2> QED
    BY <2>1, <2>2
<1>12. StackHolds(w, c, ch, base, upto + 1, val)
  <2>1. upto + 1 - base \in Nat /\ upto + 1 - base - 1 = m
    BY <1>3
  <2>2. Available(w) = (upto + 1 - base) * ch
    BY <1>3, <1>4, <1>5, <1>9
  <2> QED
    BY <1>9, <1>11, <2>1, <2>2 DEF StackHolds
<1> QED
  BY <1>1, <1>9, <1>10, <1>12

\* The frames of a step less.
LEMMA StackDiscard ==
  ASSUME NEW c \in Nat \ {0}, NEW ch \in Nat \ {0}, NEW base \in Int, NEW upto \in Int,
         NEW b, NEW val, StackHolds(b, c, ch, base, upto, val),
         NEW sp \in Nat \ {0}, sp <= upto - base
  PROVE  StackHolds(Discard(b, ch * sp), c, ch, base + sp, upto, val)
<1>1. PICK m \in Nat : m = upto - base
  BY DEF StackHolds
<1>2. PICK d \in Nat : m = sp + d
  <2>1. m - sp \in Nat /\ m = sp + (m - sp)
    BY <1>1
  <2> QED
    BY <2>1
<1>3. m \in Nat /\ d \in Nat /\ m = sp + d /\ upto - (base + sp) = d
  BY <1>1, <1>2
<1>4. /\ m * ch = sp * ch + d * ch /\ ch * sp = sp * ch /\ sp * ch \in Nat \ {0}
      /\ d * ch \in Nat
  BY <1>3
<1>5. PICK n \in Nat \ {0}, r \in Nat : n = sp * ch /\ r = d * ch
  BY <1>4
<1>6. n \in Nat \ {0} /\ r \in Nat
  BY <1>5
<1>7. /\ Ring(b, c) /\ Available(b) = n + r
      /\ \A j \in 0..(m - 1), x \in 1..ch : Unread(b, j * ch + x) = val[base + j][x]
  BY <1>1, <1>4, <1>5 DEF StackHolds
<1>8. /\ Ring(Discard(b, n), c) /\ Available(Discard(b, n)) = r
      /\ \A k \in 1..r : Unread(Discard(b, n), k) = Unread(b, n + k)
  <2>1. n <= Available(b) /\ Available(b) - n = r
    BY <1>6, <1>7
  <2>2. /\ Ring(Discard(b, n), c) /\ Available(Discard(b, n)) = Available(b) - n
        /\ \A k \in 1..(Available(b) - n) : Unread(Discard(b, n), k) = Unread(b, n + k)
    BY <1>6, <1>7, <2>1, DiscardContent
  <2> QED
    BY <2>1, <2>2
<1>9. ASSUME NEW j \in 0..(d - 1), NEW x \in 1..ch
      PROVE  Unread(Discard(b, n), j * ch + x) = val[base + sp + j][x]
  <2>1. j * ch + x \in 1..r
    BY <1>3, <1>5, Rows
  <2>2. sp + j \in 0..(m - 1) /\ base + (sp + j) = base + sp + j
    BY <1>3
  <2>3. (sp + j) * ch + x = n + (j * ch + x)
    <3>1. (sp + j) * ch = sp * ch + j * ch /\ j * ch \in Nat
      OBVIOUS
    <3>2. PICK jc \in Nat : jc = j * ch
      BY <3>1
    <3>3. (n + jc) + x = n + (jc + x)
      BY <1>6, <3>2
    <3> QED
      BY <1>5, <3>1, <3>2, <3>3
  <2>4. Unread(b, (sp + j) * ch + x) = val[base + (sp + j)][x]
    BY <1>7, <2>2
  <2> QED
    BY <1>8, <2>1, <2>2, <2>3, <2>4
<1>10. Available(Discard(b, n)) = (upto - (base + sp)) * ch
  BY <1>3, <1>5, <1>8
<1>11. StackHolds(Discard(b, n), c, ch, base + sp, upto, val)
  BY <1>3, <1>8, <1>9, <1>10 DEF StackHolds
<1>12. ch * sp = n
  BY <1>4, <1>5
<1> QED
  BY <1>11, <1>12

\* What it holds is as many values as a stack of k frames has.
WholeStack(c, ch, base, upto, k) == c = k * ch /\ upto - base = k

\* The frames of a stack, one after the other.
StackRows(out, c, ch, base, k, val) ==
  /\ DOMAIN out = 1..c
  /\ \A j \in 0..(k - 1), x \in 1..ch : out[j * ch + x] = val[base + j][x]

\* A buffer of whole frames, read as a stack.
LEMMA StackGet ==
  ASSUME NEW c \in Nat \ {0}, NEW ch \in Nat \ {0}, NEW base \in Int, NEW upto \in Int,
         NEW k \in Nat, NEW b, NEW val, StackHolds(b, c, ch, base, upto, val),
         WholeStack(c, ch, base, upto, k)
  PROVE  StackRows(Get(b, c), c, ch, base, k, val)
<1>1. Get(b, c) = [i \in 1..c |-> Unread(b, i)]
  <2>1. Ring(b, c) /\ c \in 0..c
    BY DEF StackHolds
  <2> QED
    BY <2>1, GetContent
<1>2. upto - base = k /\ c = k * ch
  BY DEF WholeStack
<1>3. ASSUME NEW j \in 0..(k - 1), NEW x \in 1..ch
      PROVE  Get(b, c)[j * ch + x] = val[base + j][x]
  <2>1. j * ch + x \in 1..(k * ch)
    BY Rows
  <2>2. Unread(b, j * ch + x) = val[base + j][x]
    BY <1>2 DEF StackHolds
  <2> QED
    BY <1>1, <1>2, <2>1, <2>2
<1> QED
  BY <1>1, <1>3 DEF StackRows

-----------------------------------------------------------------------------
\* The stacker and MCSignal mean the same buffer.
LEMMA StackerCalls ==
  /\ \A b, vs : Stack!Write(b, vs) = Write(b, vs)
  /\ \A b, n : Stack!Get(b, n) = Get(b, n)
  /\ \A b, n : Stack!Discard(b, n) = Discard(b, n)
  /\ \A c : Stack!New(c) = New(c)
  /\ \A b : Stack!Reset(b) = Reset(b)
  /\ \A b : Stack!Available(b) = Available(b)
  /\ \A b : Stack!CanWrite(b) = CanWrite(b)
  /\ \A b, n, k : Stack!Extend(b, n, k) = Extend(b, n, k)
<1>1. \A b : Stack!Available(b) = Available(b)
  BY DEF Stack!Available, Available
<1>2. \A b : Stack!CanWrite(b) = CanWrite(b)
  BY <1>1 DEF Stack!CanWrite, CanWrite
<1>3. \A c : Stack!New(c) = New(c)
  BY DEF Stack!New, New
<1>4. \A b, n : Stack!Discard(b, n) = Discard(b, n)
  BY DEF Stack!Discard, Discard, Stack!Wrap, Wrap
<1>5. \A b, n : Stack!Get(b, n) = Get(b, n)
  BY DEF Stack!Get, Get, Stack!Slice, Slice
<1>6. \A b, vs : Stack!Write(b, vs) = Write(b, vs)
  BY DEF Stack!Write, Write, Stack!CopyIn, CopyIn, Stack!Stored, Stored
<1>7. \A b : Stack!Reset(b) = Reset(b)
  BY SMTT(60) DEF Stack!Reset, Reset
<1>8. ASSUME NEW b, NEW n, NEW k PROVE Stack!Extend(b, n, k) = Extend(b, n, k)
  BY DEF Stack!Extend, Extend, Stack!ExtendStart, ExtendStart, Stack!ExtendOnce, ExtendOnce,
     Stack!Write, Write, Stack!CopyIn, CopyIn, Stack!Stored, Stored, Stack!Slice, Slice
<1> QED
  BY <1>1, <1>2, <1>3, <1>4, <1>5, <1>6, <1>7, <1>8

(* The turns of CircularBufferExtend, as a function. *)
Turned(b, at, n, k) ==
  CHOOSE f : f = [i \in 0..k |-> IF i = 0 THEN b ELSE ExtendOnce(f[i - 1], at, n)]

\* There is such a function.
LEMMA TurnsExist ==
  ASSUME NEW b, NEW at, NEW n, NEW k \in Nat
  PROVE  Turned(b, at, n, k)
           = [i \in 0..k |-> IF i = 0 THEN b ELSE ExtendOnce(Turned(b, at, n, k)[i - 1], at, n)]
<1> DEFINE Eq(f, m) == f = [i \in 0..m |-> IF i = 0 THEN b ELSE ExtendOnce(f[i - 1], at, n)]
           T == {m \in Nat : \E f : Eq(f, m)}
<1>1. 0 \in T
  <2>1. Eq([i \in 0..0 |-> b], 0)
    OBVIOUS
  <2> QED
    BY <2>1
<1>2. ASSUME NEW m \in Nat, m \in T PROVE m + 1 \in T
  <2>1. PICK f : Eq(f, m)
    BY <1>2
  <2> DEFINE g == [i \in 0..(m + 1) |-> IF i = m + 1 THEN ExtendOnce(f[m], at, n) ELSE f[i]]
             h == [i \in 0..(m + 1) |-> IF i = 0 THEN b ELSE ExtendOnce(g[i - 1], at, n)]
  <2>2. ASSUME NEW i \in 0..(m + 1) PROVE g[i] = h[i]
    <3>1. CASE i = m + 1
      <4>1. i - 1 = m /\ i # 0 /\ m \in 0..(m + 1) /\ m # m + 1
        BY <3>1
      <4>2. g[m] = f[m] /\ g[m + 1] = ExtendOnce(f[m], at, n)
        BY <4>1
      <4> QED
        BY <3>1, <4>1, <4>2
    <3>2. CASE i # m + 1 /\ i # 0
      <4>1. i \in 0..m /\ i - 1 \in 0..(m + 1) /\ i - 1 # m + 1
        BY <3>2
      <4>2. f[i] = ExtendOnce(f[i - 1], at, n)
        BY <4>1, <2>1, <3>2
      <4>3. g[i] = f[i] /\ g[i - 1] = f[i - 1]
        BY <4>1, <3>2
      <4> QED
        BY <3>2, <4>2, <4>3
    <3>3. CASE i = 0
      <4>1. f[0] = b
        BY <2>1
      <4> QED
        BY <3>3, <4>1
    <3> QED
      BY <3>1, <3>2, <3>3
  <2>3. g = h
    BY <2>2
  <2>4. Eq(g, m + 1)
    BY <2>3
  <2> HIDE DEF g, Eq
  <2> QED
    BY <2>4
<1> HIDE DEF Eq
<1>3. Nat \subseteq T
  BY <1>1, <1>2, Counting
<1>4. \E f : Eq(f, k)
  BY <1>3
<1> QED
  BY <1>4 DEF Eq, Turned

\* Its turns are those of the loop.
LEMMA TurnsFacts ==
  ASSUME NEW b, NEW at, NEW n, NEW k \in Nat
  PROVE  /\ Turned(b, at, n, k)[0] = b
         /\ \A i \in 0..(k - 1) :
              Turned(b, at, n, k)[i + 1] = ExtendOnce(Turned(b, at, n, k)[i], at, n)
<1>1. PICK f : f = Turned(b, at, n, k)
  OBVIOUS
<1>2. f = [i \in 0..k |-> IF i = 0 THEN b ELSE ExtendOnce(f[i - 1], at, n)]
  BY <1>1, TurnsExist
<1>3. f[0] = b
  BY <1>2
<1>4. ASSUME NEW i \in 0..(k - 1) PROVE f[i + 1] = ExtendOnce(f[i], at, n)
  <2>1. i + 1 \in 0..k /\ i + 1 # 0 /\ (i + 1) - 1 = i
    OBVIOUS
  <2> QED
    BY <1>2, <2>1
<1> QED
  BY <1>1, <1>3, <1>4

\* CircularBufferExtend is its last turn.
LEMMA ExtendTurns ==
  ASSUME NEW b, NEW n, NEW k, n > 0, k > 0
  PROVE  Extend(b, n, k) = Turned(b, ExtendStart(b, n), n, k)[k]
BY DEF Extend, Turned

\* One turn on a buffer that starts in slot 0 copies its first frame.
LEMMA StackCopies ==
  ASSUME NEW c \in Nat \ {0}, NEW ch \in Nat \ {0}, NEW m \in Nat \ {0}, NEW b, NEW val,
         StackHolds(b, c, ch, 0, m, val), b.read = 0, (m + 1) * ch <= c,
         \A x \in 1..ch : val[0][x] \in Int /\ val[m][x] = val[0][x]
  PROVE  /\ StackHolds(ExtendOnce(b, 0, ch), c, ch, 0, m + 1, val)
         /\ ExtendOnce(b, 0, ch).read = 0
<1>1. PICK vs : vs = Slice(b, 0, ch)
  OBVIOUS
<1>2. (m + 1) * ch = m * ch + ch /\ m * ch \in Nat
  OBVIOUS
<1>3. PICK a \in Nat : a = m * ch
  BY <1>2
<1>4. a + ch <= c
  BY <1>2, <1>3
<1>5. b.capacity = c
  BY RingFacts DEF StackHolds
<1>6. ExtendOnce(b, 0, ch) = Write(b, vs)
  <2>1. 0 + ch <= b.capacity
    BY <1>3, <1>4, <1>5
  <2> QED
    BY <1>1, <2>1 DEF ExtendOnce
<1>7. ASSUME NEW x \in 1..ch PROVE b.buffer[0 + x - 1] = val[0][x]
  <2>1. 0 \in 0..(m - 0 - 1)
    OBVIOUS
  <2>2. Unread(b, 0 * ch + x) = val[0 + 0][x]
    BY <2>1 DEF StackHolds
  <2>3. 0 * ch + x = x
    OBVIOUS
  <2>4. Unread(b, x) = b.buffer[0 + x - 1]
    <3>1. ~(0 + x - 1 >= c)
      BY <1>3, <1>4
    <3> QED
      BY <1>5, <3>1 DEF Unread
  <2> QED
    BY <2>2, <2>3, <2>4
<1>8. IsFrame(vs, ch, val[m])
  <2>1. vs = [x \in 1..ch |-> b.buffer[0 + x - 1]]
    BY <1>1 DEF Slice
  <2>2. vs = [x \in 1..ch |-> val[0][x]]
    BY <1>7, <2>1
  <2>3. vs \in [1..ch -> Int]
    BY <2>2
  <2>4. vs \in Seq(Int) /\ Len(vs) = ch
    BY <2>2, <2>3
  <2> QED
    BY <2>2, <2>4 DEF IsFrame
<1>9. (m - 0 + 1) * ch <= c
  BY <1>2
<1>10. StackHolds(Write(b, vs), c, ch, 0, m + 1, val) /\ Write(b, vs).read = b.read
  BY <1>8, <1>9, StackWrite
<1> QED
  BY <1>6, <1>10

\* The first frame, and its copies to the left of it.
LEMMA StackPadded ==
  ASSUME NEW c \in Nat \ {0}, NEW ch \in Nat \ {0}, NEW lc \in Nat, NEW b, NEW val,
         StackHolds(b, c, ch, 0, 1, val), b.read = 0, (lc + 1) * ch <= c,
         \A x \in 1..ch : val[0][x] \in Int,
         \A j \in Int, x \in 1..ch : j < 0 => val[j][x] = val[0][x]
  PROVE  /\ ExtendAllowed(b, ch, lc)
         /\ StackHolds(Extend(b, ch, lc), c, ch, 0 - lc, 1, val)
<1>1. Ring(b, c) /\ Available(b) = ch
  <2>1. (1 - 0) * ch = ch
    OBVIOUS
  <2> QED
    BY <2>1 DEF StackHolds
<1>2. /\ (lc + 1) * ch = lc * ch + ch /\ lc * ch \in Nat /\ ch * lc = lc * ch
  OBVIOUS
<1>3. PICK a \in Nat : a = lc * ch
  BY <1>2
<1>4. a + ch <= c /\ (lc > 0 => a > 0)
  <2>1. lc > 0 => lc * ch > 0
    OBVIOUS
  <2> QED
    BY <1>2, <1>3, <2>1
<1>5. ExtendAllowed(b, ch, lc)
  <2>1. CanWrite(b) = c - ch
    BY <1>1, RingAvailable
  <2>2. CanWrite(b) >= ch * lc /\ Available(b) >= ch
    <3>1. a \in Nat /\ c - ch >= a /\ ch >= ch
      BY <1>3, <1>4
    <3>2. ch * lc = a
      BY <1>2, <1>3
    <3> QED
      BY <1>1, <2>1, <3>1, <3>2
  <2> QED
    BY <2>2 DEF ExtendAllowed
<1>6. CASE lc = 0
  <2>1. Extend(b, ch, lc) = b /\ 0 - lc = 0
    BY <1>6 DEF Extend
  <2> QED
    BY <1>5, <2>1
<1>7. CASE lc # 0
  <2>1. ExtendStart(b, ch) = 0
    <3>1. ch < c
      BY <1>3, <1>4, <1>7
    <3>2. b.write = IF b.read + Available(b) >= c THEN b.read + Available(b) - c
                    ELSE b.read + Available(b)
      BY <1>1, RingEnd
    <3>3. b.write = ch
      BY <1>1, <3>1, <3>2
    <3> QED
      BY <3>3 DEF ExtendStart
  <2>2. PICK t : t = Turned(b, 0, ch, lc)
    OBVIOUS
  <2>3. Extend(b, ch, lc) = t[lc]
    BY <1>7, <2>1, <2>2, ExtendTurns
  <2>4. t[0] = b /\ \A i \in 0..(lc - 1) : t[i + 1] = ExtendOnce(t[i], 0, ch)
    <3>1. /\ Turned(b, 0, ch, lc)[0] = b
          /\ \A i \in 0..(lc - 1) :
               Turned(b, 0, ch, lc)[i + 1] = ExtendOnce(Turned(b, 0, ch, lc)[i], 0, ch)
      BY TurnsFacts
    <3> QED
      BY <2>2, <3>1
  <2>5. PICK same : same = [j \in Int |-> val[0]]
    OBVIOUS
  <2> DEFINE Got(i) == StackHolds(t[i], c, ch, 0, i + 1, same) /\ t[i].read = 0
             T == {i \in Nat : i <= lc => Got(i)}
  <2>6. 0 \in T
    <3>1. \A j \in 0..(1 - 0 - 1), x \in 1..ch : val[0 + j][x] = same[0 + j][x]
      BY <2>5
    <3>2. StackHolds(b, c, ch, 0, 1, same)
      BY <3>1 DEF StackHolds
    <3>3. 0 + 1 = 1
      OBVIOUS
    <3> QED
      BY <2>4, <3>2, <3>3
  <2>7. ASSUME NEW i \in Nat, i \in T PROVE i + 1 \in T
    <3> SUFFICES ASSUME i + 1 <= lc PROVE Got(i + 1)
      OBVIOUS
    <3>1. Got(i)
      BY <2>7
    <3>2. i \in 0..(lc - 1) /\ i + 1 \in Nat \ {0}
      OBVIOUS
    <3>3. ((i + 1) + 1) * ch <= c
      <4>1. PICK d \in Nat : lc = (i + 1) + d
        <5>1. lc - (i + 1) \in Nat /\ lc = (i + 1) + (lc - (i + 1))
          OBVIOUS
        <5> QED
          BY <5>1
      <4>2. (lc + 1) * ch = ((i + 1) + 1) * ch + d * ch /\ d * ch >= 0
            /\ ((i + 1) + 1) * ch \in Nat
        BY <4>1
      <4> QED
        BY <4>2
    <3>4. \A x \in 1..ch : same[0][x] \in Int /\ same[i + 1][x] = same[0][x]
      BY <2>5
    <3>5. /\ StackHolds(ExtendOnce(t[i], 0, ch), c, ch, 0, (i + 1) + 1, same)
          /\ ExtendOnce(t[i], 0, ch).read = 0
      BY <3>1, <3>2, <3>3, <3>4, StackCopies
    <3> QED
      BY <2>4, <3>2, <3>5
  <2> HIDE DEF T, Got
  <2>8. Nat \subseteq T
    BY <2>6, <2>7, Counting
  <2>9. StackHolds(t[lc], c, ch, 0, lc + 1, same)
    BY <2>8 DEF T, Got
  <2>10. StackHolds(t[lc], c, ch, 0 - lc, 1, val)
    <3>1. 1 - (0 - lc) = lc + 1 - 0 /\ 1 - (0 - lc) - 1 = lc /\ lc + 1 - 0 - 1 = lc
      OBVIOUS
    <3>2. \A j \in 0..lc, x \in 1..ch : same[0 + j][x] = val[(0 - lc) + j][x]
      <4>1. ASSUME NEW j \in 0..lc, NEW x \in 1..ch PROVE same[0 + j][x] = val[(0 - lc) + j][x]
        <5>1. same[0 + j][x] = val[0][x]
          BY <2>5
        <5>2. CASE j = lc
          <6>1. (0 - lc) + j = 0
            BY <5>2
          <6> QED
            BY <5>1, <6>1
        <5>3. CASE j # lc
          <6>1. (0 - lc) + j \in Int /\ (0 - lc) + j < 0
            BY <5>3
          <6> QED
            BY <5>1, <6>1
        <5> QED
          BY <5>2, <5>3
      <4> QED
        BY <4>1
    <3> QED
      BY <2>9, <3>1, <3>2 DEF StackHolds
  <2> QED
    BY <1>5, <2>3, <2>10
<1> QED
  BY <1>6, <1>7

-----------------------------------------------------------------------------
(* The stacker. *)

\* A kernel in numbers.
IsStacker(p, c, ch, lc, rc, sp) ==
  /\ p.num_channels = ch /\ p.stacker_left_context = lc /\ p.stacker_right_context = rc
  /\ p.stacker_step = sp
  /\ Stack!BufferSize(p) = c /\ c = (lc + rc + 1) * ch /\ Stack!StepSize(p) = ch * sp
  /\ Stack!Context(p) = lc + rc + 1 /\ sp <= lc + rc + 1

\* Each kernel has such numbers.
LEMMA StackerNumbers ==
  ASSUME NEW p \in Stackers
  PROVE  \E c, ch, sp \in Nat \ {0}, lc, rc \in Nat : IsStacker(p, c, ch, lc, rc, sp)
<1>1. PICK ch \in Nat \ {0}, sp \in Nat \ {0}, lc \in Nat, rc \in Nat :
        /\ p.num_channels = ch /\ p.stacker_left_context = lc
        /\ p.stacker_right_context = rc /\ p.stacker_step = sp
        /\ sp <= lc + rc + 1
  BY StackersAssumption DEF Stack!Config
<1>2. PICK m \in Nat \ {0} : m = lc + rc + 1
  OBVIOUS
<1>3. PICK c \in Nat \ {0} : c = m * ch
  OBVIOUS
<1>4. ch * m = m * ch
  OBVIOUS
<1>5. Stack!Context(p) = m
  BY <1>1, <1>2 DEF Stack!Context
<1>6. Stack!BufferSize(p) = c
  BY <1>1, <1>3, <1>4, <1>5 DEF Stack!BufferSize
<1>7. Stack!StepSize(p) = ch * sp
  BY <1>1 DEF Stack!StepSize
<1>8. IsStacker(p, c, ch, lc, rc, sp)
  BY <1>1, <1>2, <1>3, <1>5, <1>6, <1>7 DEF IsStacker
<1> QED
  BY <1>8

\* The frames since the last reset, the first one standing for those before it.
FramesSince == [j \in Int |-> Stack!FrameAt(j)]

LEMMA FramesSinceFacts ==
  ASSUME NEW ch \in Nat \ {0}, v2.num_channels = ch, NEW since \in Nat, v8 = since
  PROVE  \A j \in Int, x \in 1..ch :
           /\ FramesSince[j] = Stack!FrameAt(j)
           /\ FramesSince[j][x] = (since + (IF j < 0 THEN 0 ELSE j)) * ch + x
           /\ FramesSince[j][x] \in Int
<1>1. ASSUME NEW j \in Int, NEW x \in 1..ch
      PROVE  /\ FramesSince[j] = Stack!FrameAt(j)
             /\ FramesSince[j][x] = (since + (IF j < 0 THEN 0 ELSE j)) * ch + x
             /\ FramesSince[j][x] \in Int
  <2>1. FramesSince[j] = Stack!FrameAt(j)
    BY DEF FramesSince
  <2>2. FramesSince[j][x] = (since + (IF j < 0 THEN 0 ELSE j)) * ch + x
    BY <2>1 DEF Stack!FrameAt, Stack!Value
  <2>3. (since + (IF j < 0 THEN 0 ELSE j)) * ch + x \in Int
    OBVIOUS
  <2> QED
    BY <2>1, <2>2, <2>3
<1> QED
  BY <1>1

\* The stacks of s steps have been read, after n frames.
StackRead(n, s, ch, lc, rc, sp) ==
  /\ v6 <=> s > 0 /\ n = (s - 1) * sp + (rc + 1)
  /\ v6 => \A j \in 0..(lc + rc), x \in 1..ch :
             v5[j * ch + x] = FramesSince[((s - 1) * sp - lc) + j][x]

\* The buffer holds what the next stack needs of the frames there have been.
StackNeeds(n, s, rc, sp) ==
  n - s * sp < rc + 1 /\ (s > 0 => (s - 1) * sp + (rc + 1) <= n)

\* After n frames and s stacks since the reset.
StackerAt(n, s) ==
  LET ch == v2.num_channels
      lc == v2.stacker_left_context
      rc == v2.stacker_right_context
      sp == v2.stacker_step
      c == Stack!BufferSize(v2)
  IN /\ v7 = v8 + n
     /\ n = 0 => s = 0 /\ ~v4 /\ v3 = New(c)
     /\ n > 0 => /\ v4 /\ StackHolds(v3, c, ch, s * sp - lc, n, FramesSince)
                 /\ StackNeeds(n, s, rc, sp)
                 /\ StackRead(n, s, ch, lc, rc, sp)

\* The ranges of the variables.
StackerTypes ==
  /\ v2 \in Stackers /\ v1 = "idle" /\ v4 \in BOOLEAN /\ v6 \in BOOLEAN
  /\ v7 \in Nat /\ v8 \in Nat
  /\ v3.capacity = Stack!BufferSize(v2)
  /\ DOMAIN v5 = 1..Stack!BufferSize(v2)

\* The inductive invariant of the stacker.
StackerIInv == StackerTypes /\ \E n, s \in Nat : StackerAt(n, s)

\* Init and Prepare.
LEMMA StackerStarts == Stack!Init => StackerIInv
<1> SUFFICES ASSUME Stack!Init PROVE StackerIInv
  OBVIOUS
<1>1. /\ v2 \in Stackers /\ v1 = "idle" /\ v3 = New(Stack!BufferSize(v2))
      /\ v4 = FALSE /\ v6 = FALSE /\ v7 = 0 /\ v8 = 0
      /\ v5 = [k \in 1..Stack!BufferSize(v2) |-> 0]
  BY StackerCalls DEF Stack!Init
<1>2. StackerTypes
  <2>1. v3.capacity = Stack!BufferSize(v2)
    BY <1>1 DEF New
  <2> QED
    BY <1>1, <2>1 DEF StackerTypes
<1>3. StackerAt(0, 0)
  BY <1>1 DEF StackerAt
<1> QED
  BY <1>2, <1>3 DEF StackerIInv

\* The reset forgets the first frame.
LEMMA StackerResets == StackerIInv /\ Stack!CallReset => StackerIInv'
<1> SUFFICES ASSUME StackerIInv, Stack!CallReset PROVE StackerIInv'
  OBVIOUS
<1>1. /\ v3' = Reset(v3) /\ v4' = FALSE /\ v8' = v7
      /\ UNCHANGED <<v1, v2, v5, v6, v7>> /\ v7 > v8
  BY StackerCalls DEF Stack!CallReset
<1>2. StackerTypes
  BY DEF StackerIInv
<1>3. PICK c, ch, sp \in Nat \ {0}, lc, rc \in Nat : IsStacker(v2, c, ch, lc, rc, sp)
  BY <1>2, StackerNumbers DEF StackerTypes
<1>4. v3' = New(Stack!BufferSize(v2))
  <2>1. PICK n \in Nat, s \in Nat : StackerAt(n, s)
    BY DEF StackerIInv
  <2>2. n > 0
    BY <1>1, <1>2, <2>1 DEF StackerAt, StackerTypes
  <2>3. Ring(v3, Stack!BufferSize(v2))
    BY <2>1, <2>2 DEF StackerAt, StackHolds
  <2>4. Stack!BufferSize(v2) \in Nat \ {0}
    BY <1>3 DEF IsStacker
  <2> QED
    BY <1>1, <2>3, <2>4, RingReset
<1>5. StackerTypes'
  <2>1. v3'.capacity = Stack!BufferSize(v2)
    BY <1>4 DEF New
  <2> QED
    BY <1>1, <1>2, <2>1 DEF StackerTypes
<1>6. StackerAt(0, 0)'
  BY <1>1, <1>2, <1>4 DEF StackerAt, StackerTypes
<1> QED
  BY <1>5, <1>6 DEF StackerIInv

\* Room for a frame more than a stack less its last one.
LEMMA StackRoom ==
  ASSUME NEW ch \in Nat \ {0}, NEW m \in Nat, NEW d \in Nat, m <= d
  PROVE  m * ch <= d * ch
<1>1. PICK e \in Nat : d = m + e
  <2>1. d - m \in Nat /\ d = m + (d - m)
    OBVIOUS
  <2> QED
    BY <2>1
<1>2. d * ch = m * ch + e * ch /\ e * ch >= 0 /\ m * ch \in Nat
  BY <1>1
<1> QED
  BY <1>2

\* A further frame brings the next stack nearer.
LEMMA StackMore ==
  ASSUME NEW ch \in Nat \ {0}, NEW m \in Nat, NEW d \in Nat
  PROVE  m * ch >= d * ch <=> m >= d
<1>1. CASE m >= d
  BY <1>1, StackRoom
<1>2. CASE ~(m >= d)
  <2>1. m + 1 <= d /\ m + 1 \in Nat
    BY <1>2
  <2>2. (m + 1) * ch <= d * ch
    BY <2>1, StackRoom
  <2>3. (m + 1) * ch = m * ch + ch /\ m * ch \in Nat /\ d * ch \in Nat
    OBVIOUS
  <2> QED
    BY <1>2, <2>2, <2>3
<1> QED
  BY <1>1, <1>2

\* The writes of StackerEval: what is read next is there, and so is the new frame.
LEMMA StackerBody ==
  ASSUME StackerTypes, NEW n \in Nat, NEW s \in Nat, StackerAt(n, s),
         NEW c \in Nat \ {0}, NEW ch \in Nat \ {0}, NEW sp \in Nat \ {0},
         NEW lc \in Nat, NEW rc \in Nat, IsStacker(v2, c, ch, lc, rc, sp)
  PROVE  LET written == Stack!Write(v3, Stack!Input)
         IN /\ Stack!WriteAllowed(v3, ch) /\ Stack!PaddingAllowed(written)
            /\ StackHolds(Stack!Padded(written), c, ch, s * sp - lc, n + 1, FramesSince)
<1>1. /\ v2.num_channels = ch /\ v2.stacker_left_context = lc
      /\ v2.stacker_right_context = rc /\ v2.stacker_step = sp
      /\ Stack!BufferSize(v2) = c /\ c = (lc + rc + 1) * ch /\ sp <= lc + rc + 1
  BY DEF IsStacker
<1>2. PICK since \in Nat : since = v8
  BY DEF StackerTypes
<1>3. v7 = since + n
  BY <1>2 DEF StackerAt
<1>4. PICK vs : vs = Stack!Input
  OBVIOUS
<1>5. \A j \in Int, x \in 1..ch :
        /\ FramesSince[j][x] = (since + (IF j < 0 THEN 0 ELSE j)) * ch + x
        /\ FramesSince[j][x] \in Int
  BY <1>1, <1>2, FramesSinceFacts
<1>6. IsFrame(vs, ch, FramesSince[n])
  <2>1. vs = [x \in 1..ch |-> (since + n) * ch + x]
    BY <1>1, <1>3, <1>4 DEF Stack!Input, Stack!Value
  <2>2. vs \in [1..ch -> Int]
    BY <2>1
  <2>3. vs \in Seq(Int) /\ Len(vs) = ch
    BY <2>1, <2>2
  <2>4. \A x \in 1..ch : FramesSince[n][x] = (since + n) * ch + x
    <3>1. n \in Int /\ ~(n < 0)
      OBVIOUS
    <3> QED
      BY <1>5, <3>1
  <2> QED
    BY <2>1, <2>3, <2>4 DEF IsFrame
<1>7. CASE n = 0
  <2>1. s = 0 /\ ~v4 /\ v3 = New(c)
    BY <1>1, <1>7 DEF StackerAt
  <2>2. Ring(New(c), c) /\ Available(New(c)) = 0 /\ New(c).read = 0
    BY RingNew
  <2>3. StackHolds(New(c), c, ch, 0, 0, FramesSince)
    <3>1. (0 - 0) * ch = 0 /\ 0..(0 - 0 - 1) = {}
      OBVIOUS
    <3> QED
      BY <2>2, <3>1 DEF StackHolds
  <2>4. (0 - 0 + 1) * ch <= c /\ (lc + 1) * ch <= c
    <3>1. 1 <= lc + rc + 1 /\ 1 \in Nat /\ lc + rc + 1 \in Nat
      OBVIOUS
    <3>2. lc + 1 <= lc + rc + 1 /\ lc + 1 \in Nat
      OBVIOUS
    <3>3. 1 * ch <= c /\ (lc + 1) * ch <= c
      BY <1>1, <3>1, <3>2, StackRoom
    <3>4. 0 - 0 + 1 = 1
      OBVIOUS
    <3> QED
      BY <3>3, <3>4
  <2>5. PICK w : w = Write(New(c), vs)
    OBVIOUS
  <2>6. StackHolds(w, c, ch, 0, 1, FramesSince) /\ CanWrite(New(c)) >= ch /\ w.read = 0
    <3>1. IsFrame(vs, ch, FramesSince[0])
      BY <1>6, <1>7
    <3>2. /\ StackHolds(Write(New(c), vs), c, ch, 0, 0 + 1, FramesSince)
          /\ CanWrite(New(c)) >= ch /\ Write(New(c), vs).read = New(c).read
      BY <2>3, <2>4, <3>1, StackWrite
    <3> QED
      BY <2>2, <2>5, <3>2
  <2>7. /\ ExtendAllowed(w, ch, lc)
        /\ StackHolds(Extend(w, ch, lc), c, ch, 0 - lc, 1, FramesSince)
    <3>1. \A x \in 1..ch : FramesSince[0][x] \in Int
      BY <1>5
    <3>2. \A j \in Int, x \in 1..ch : j < 0 => FramesSince[j][x] = FramesSince[0][x]
      <4>1. ~(0 < 0) /\ 0 \in Int
        OBVIOUS
      <4> QED
        BY <1>5, <4>1
    <3> QED
      BY <2>4, <2>6, <3>1, <3>2, StackPadded
  <2>8. Stack!Write(v3, Stack!Input) = w
    BY <1>4, <2>1, <2>5, StackerCalls
  <2>9. Stack!Padded(w) = Extend(w, ch, lc)
    BY <1>1, <2>1, StackerCalls DEF Stack!Padded
  <2>10. Stack!PaddingAllowed(w)
    BY <1>1, <2>7, StackerCalls DEF Stack!PaddingAllowed, Stack!ExtendAllowed, ExtendAllowed
  <2>11. Stack!WriteAllowed(v3, ch)
    BY <2>1, <2>6, StackerCalls DEF Stack!WriteAllowed
  <2>12. s * sp - lc = 0 - lc /\ n + 1 = 1
    <3>1. 0 * sp = 0
      OBVIOUS
    <3> QED
      BY <1>7, <2>1, <3>1
  <2> QED
    BY <2>7, <2>8, <2>9, <2>10, <2>11, <2>12
<1>8. CASE n # 0
  <2>1. /\ v4 /\ StackHolds(v3, c, ch, s * sp - lc, n, FramesSince)
        /\ StackNeeds(n, s, rc, sp)
    BY <1>1, <1>8 DEF StackerAt
  <2>2. PICK d \in Nat : d = s * sp
    OBVIOUS
  <2>3. n - (d - lc) \in Nat /\ n - d < rc + 1
    BY <2>1, <2>2 DEF StackHolds, StackNeeds
  <2>4. (n - (d - lc) + 1) * ch <= c
    <3>1. n - (d - lc) + 1 \in Nat /\ n - (d - lc) + 1 <= lc + rc + 1 /\ lc + rc + 1 \in Nat
      <4>1. d \in Nat
        BY <2>2
      <4> QED
        BY <2>3, <4>1
    <3> QED
      BY <1>1, <3>1, StackRoom
  <2>5. /\ StackHolds(Write(v3, vs), c, ch, d - lc, n + 1, FramesSince)
        /\ CanWrite(v3) >= ch
    <3>1. d - lc \in Int /\ n \in Int
      BY <2>2
    <3>2. StackHolds(v3, c, ch, d - lc, n, FramesSince)
      BY <2>1, <2>2
    <3> QED
      BY <1>6, <2>4, <3>1, <3>2, StackWrite
  <2>6. Stack!Write(v3, Stack!Input) = Write(v3, vs)
    BY <1>4, StackerCalls
  <2>7. Stack!Padded(Write(v3, vs)) = Write(v3, vs) /\ Stack!PaddingAllowed(Write(v3, vs))
    BY <2>1 DEF Stack!Padded, Stack!PaddingAllowed
  <2>8. Stack!WriteAllowed(v3, ch)
    BY <2>5, StackerCalls DEF Stack!WriteAllowed
  <2> QED
    BY <2>2, <2>5, <2>6, <2>7, <2>8
<1> QED
  BY <1>7, <1>8

\* Whether there is a stack is a matter of how many frames the buffer holds.
LEMMA StackEnough ==
  ASSUME NEW c \in Nat \ {0}, NEW ch \in Nat \ {0}, NEW base \in Int, NEW upto \in Int,
         NEW k \in Nat, NEW b, NEW val, StackHolds(b, c, ch, base, upto, val),
         WholeStack(c, ch, 0, k, k)
  PROVE  Available(b) >= c <=> upto - base >= k
<1>1. PICK m \in Nat : m = upto - base
  BY DEF StackHolds
<1>2. m * ch >= k * ch <=> m >= k
  BY <1>1, StackMore
<1>3. Available(b) = m * ch /\ c = k * ch
  BY <1>1 DEF StackHolds, WholeStack
<1> QED
  BY <1>1, <1>2, <1>3

\* StackerEval: the frame, its copies if it is the first, and a stack if there is one.
LEMMA StackerSteps == StackerIInv /\ Stack!Eval => StackerIInv'
<1> SUFFICES ASSUME StackerIInv, Stack!Eval PROVE StackerIInv'
  OBVIOUS
<1>1. StackerTypes
  BY DEF StackerIInv
<1>2. PICK n \in Nat, s \in Nat : StackerAt(n, s)
  BY DEF StackerIInv
<1>3. PICK c, ch, sp \in Nat \ {0}, lc, rc \in Nat : IsStacker(v2, c, ch, lc, rc, sp)
  BY <1>1, StackerNumbers DEF StackerTypes
<1>4. /\ c \in Nat \ {0} /\ ch \in Nat \ {0} /\ sp \in Nat \ {0} /\ lc \in Nat /\ rc \in Nat
  BY <1>3
<1>5. /\ v2.num_channels = ch /\ v2.stacker_left_context = lc
      /\ v2.stacker_right_context = rc /\ v2.stacker_step = sp
      /\ Stack!BufferSize(v2) = c /\ c = (lc + rc + 1) * ch /\ sp <= lc + rc + 1
      /\ Stack!StepSize(v2) = ch * sp
  BY <1>3 DEF IsStacker
<1>6. PICK b : b = Stack!Padded(Stack!Write(v3, Stack!Input))
  OBVIOUS
<1>7. /\ Stack!WriteAllowed(v3, ch) /\ Stack!PaddingAllowed(Stack!Write(v3, Stack!Input))
      /\ StackHolds(b, c, ch, s * sp - lc, n + 1, FramesSince)
  BY <1>1, <1>2, <1>3, <1>6, StackerBody
<1>8. PICK d \in Nat : d = s * sp
  BY <1>2, <1>4
<1>9. d \in Nat /\ StackHolds(b, c, ch, d - lc, n + 1, FramesSince)
  BY <1>7, <1>8
\* Before the first frame there has been no stack; afterwards some of the next is there.
<1>10. /\ n + 1 - d <= rc + 1
       /\ s > 0 => (s - 1) * sp + (rc + 1) <= n
  <2>1. CASE n = 0
    <3>1. s = 0
      BY <1>2, <2>1 DEF StackerAt
    <3>2. 0 * sp = 0
      BY <1>4
    <3>3. d = 0
      BY <1>8, <3>1, <3>2
    <3> QED
      BY <1>4, <2>1, <3>1, <3>3
  <2>2. CASE n # 0
    <3>1. n > 0
      BY <1>2, <2>2
    <3>2. n - d < rc + 1 /\ (s > 0 => (s - 1) * sp + (rc + 1) <= n)
      BY <1>2, <1>5, <1>8, <3>1 DEF StackerAt, StackNeeds
    <3>3. n - d \in Int /\ n + 1 - d = n - d + 1
      BY <1>2, <1>9
    <3> QED
      BY <1>2, <1>4, <1>9, <3>2, <3>3
  <2> QED
    BY <2>1, <2>2
<1>11. Stack!Enough(b) <=> n + 1 = d + (rc + 1)
  <2>1. PICK base \in Int, upto \in Int, k \in Nat :
          base = d - lc /\ upto = n + 1 /\ k = lc + rc + 1
    BY <1>2, <1>4, <1>9
  <2>2. StackHolds(b, c, ch, base, upto, FramesSince) /\ WholeStack(c, ch, 0, k, k)
    <3>1. k - 0 = k
      BY <2>1
    <3> QED
      BY <1>5, <1>9, <2>1, <3>1 DEF WholeStack
  <2>3. Available(b) >= c <=> upto - base >= k
    BY <1>4, <2>1, <2>2, StackEnough
  <2>4. n + 1 - (d - lc) >= lc + rc + 1 <=> n + 1 = d + (rc + 1)
    BY <1>2, <1>4, <1>9, <1>10
  <2>5. upto - base >= k <=> n + 1 - (d - lc) >= lc + rc + 1
    BY <2>1
  <2> QED
    BY <1>5, <2>3, <2>4, <2>5, StackerCalls DEF Stack!Enough
<1>12. ASSUME Stack!Enough(b)
       PROVE  /\ Stack!GetAllowed(b, c) /\ Stack!DiscardAllowed(b, ch * sp)
              /\ n + 1 - (d - lc) = lc + rc + 1
              /\ StackHolds(Discard(b, ch * sp), c, ch, (d - lc) + sp, n + 1, FramesSince)
  <2>1. n + 1 - (d - lc) = lc + rc + 1
    BY <1>2, <1>4, <1>9, <1>11, <1>12
  <2>2. StackHolds(Discard(b, ch * sp), c, ch, (d - lc) + sp, n + 1, FramesSince)
    <3>1. d - lc \in Int /\ n + 1 \in Int /\ sp <= n + 1 - (d - lc)
      BY <1>2, <1>4, <1>5, <1>9, <2>1
    <3> QED
      BY <1>4, <1>9, <3>1, StackDiscard
  <2>3. Stack!GetAllowed(b, c)
    BY <1>5, <1>12 DEF Stack!GetAllowed, Stack!Enough
  <2>4. Stack!DiscardAllowed(b, ch * sp)
    <3>1. ch * sp = sp * ch /\ sp * ch > 0 /\ lc + rc + 1 \in Nat /\ sp \in Nat
      BY <1>4
    <3>2. sp * ch <= (lc + rc + 1) * ch
      BY <1>4, <1>5, <3>1, StackRoom
    <3>3. Available(b) = (lc + rc + 1) * ch
      BY <1>9, <2>1 DEF StackHolds
    <3>4. ch * sp > 0 /\ Available(b) >= ch * sp
      BY <1>5, <3>1, <3>2, <3>3
    <3> QED
      BY <3>4, StackerCalls DEF Stack!DiscardAllowed
  <2> QED
    BY <2>1, <2>2, <2>3, <2>4
<1>13. Stack!EvalAllowed
  BY <1>5, <1>6, <1>7, <1>12 DEF Stack!EvalAllowed
<1>14. /\ v7' = v7 + 1 /\ v4' = TRUE /\ UNCHANGED <<v1, v2, v8>>
       /\ Stack!Enough(b) => /\ v5' = Get(b, c) /\ v3' = Discard(b, ch * sp) /\ v6' = TRUE
       /\ ~Stack!Enough(b) => v3' = b /\ v6' = FALSE /\ v5' = v5
  BY <1>5, <1>6, <1>13, StackerCalls DEF Stack!Eval
<1>15. FramesSince' = FramesSince
  BY <1>14 DEF FramesSince, Stack!FrameAt, Stack!Value
<1>16. n + 1 \in Nat /\ v7' = v8' + (n + 1) /\ n + 1 > 0 /\ n + 1 # 0
  <2>1. v7 = v8 + n /\ v8 \in Nat
    BY <1>1, <1>2 DEF StackerAt, StackerTypes
  <2> QED
    BY <1>2, <1>14, <2>1
<1>17. CASE Stack!Enough(b)
  <2>1. n + 1 = d + (rc + 1)
    BY <1>11, <1>17
  <2>2. (s + 1) * sp = s * sp + sp /\ s + 1 > 0 /\ (s + 1) - 1 = s /\ s + 1 \in Nat
    BY <1>2, <1>4
  <2>3. StackHolds(v3', c, ch, (s + 1) * sp - lc, n + 1, FramesSince)
    <3>1. (s + 1) * sp - lc = (d - lc) + sp
      <4>1. (s + 1) * sp = d + sp
        BY <1>8, <2>2
      <4> QED
        BY <1>4, <1>9, <4>1
    <3> QED
      BY <1>12, <1>14, <1>17, <3>1
  <2>4. StackNeeds(n + 1, s + 1, rc, sp)
    <3>1. n + 1 - (d + sp) < rc + 1 /\ d + (rc + 1) <= n + 1
      BY <1>2, <1>4, <1>9, <2>1
    <3>2. (s + 1) * sp = d + sp /\ ((s + 1) - 1) * sp = d
      BY <1>8, <2>2
    <3> QED
      BY <3>1, <3>2 DEF StackNeeds
  <2>5. /\ DOMAIN v5' = 1..c
        /\ \A j \in 0..(lc + rc), x \in 1..ch :
             v5'[j * ch + x] = FramesSince[(d - lc) + j][x]
    <3>1. PICK base \in Int, upto \in Int, k \in Nat :
            base = d - lc /\ upto = n + 1 /\ k = lc + rc + 1
      BY <1>2, <1>4, <1>9
    <3>2. StackHolds(b, c, ch, base, upto, FramesSince) /\ WholeStack(c, ch, base, upto, k)
      BY <1>5, <1>9, <1>12, <1>17, <3>1 DEF WholeStack
    <3>3. /\ DOMAIN Get(b, c) = 1..c
          /\ \A j \in 0..(k - 1), x \in 1..ch :
               Get(b, c)[j * ch + x] = FramesSince[base + j][x]
      <4>1. StackRows(Get(b, c), c, ch, base, k, FramesSince)
        BY <1>4, <3>1, <3>2, StackGet
      <4> QED
        BY <4>1 DEF StackRows
    <3>4. k - 1 = lc + rc
      <4>1. lc + rc + 1 - 1 = lc + rc
        BY <1>4
      <4> QED
        BY <3>1, <4>1
    <3> QED
      BY <1>14, <1>17, <3>1, <3>3, <3>4
  <2>6. StackRead(n + 1, s + 1, ch, lc, rc, sp)'
    <3>1. ((s + 1) - 1) * sp = d
      BY <1>8, <2>2
    <3> QED
      BY <1>14, <1>15, <1>17, <2>1, <2>2, <2>5, <3>1 DEF StackRead
  <2>7. StackerAt(n + 1, s + 1)'
    <3>1. StackHolds(v3', c, ch, (s + 1) * sp - lc, n + 1, FramesSince')
      BY <1>15, <2>3
    <3> QED
      BY <1>5, <1>14, <1>16, <2>4, <2>6, <3>1 DEF StackerAt
  <2>8. StackerTypes'
    <3>1. v3'.capacity = c
      BY <1>4, <2>3, RingFacts DEF StackHolds
    <3>2. v7' \in Nat
      BY <1>1, <1>14 DEF StackerTypes
    <3> QED
      BY <1>1, <1>5, <1>14, <1>17, <2>5, <3>1, <3>2 DEF StackerTypes
  <2> QED
    BY <1>16, <2>2, <2>7, <2>8 DEF StackerIInv
<1>18. CASE ~Stack!Enough(b)
  <2>1. n + 1 # d + (rc + 1)
    BY <1>11, <1>18
  <2>2. StackNeeds(n + 1, s, rc, sp)
    <3>1. n + 1 - d < rc + 1
      BY <1>2, <1>4, <1>9, <1>10, <2>1
    <3>2. s > 0 => (s - 1) * sp + (rc + 1) <= n + 1
      <4>1. (s - 1) * sp + (rc + 1) \in Int
        BY <1>2, <1>4
      <4> QED
        BY <1>2, <1>10, <4>1
    <3> QED
      BY <1>8, <3>1, <3>2 DEF StackNeeds
  <2>3. StackRead(n + 1, s, ch, lc, rc, sp)'
    <3>1. ~(s > 0 /\ n + 1 = (s - 1) * sp + (rc + 1))
      <4>1. (s - 1) * sp + (rc + 1) \in Int
        BY <1>2, <1>4
      <4> QED
        BY <1>2, <1>10, <4>1
    <3> QED
      BY <1>14, <1>18, <3>1 DEF StackRead
  <2>4. StackerAt(n + 1, s)'
    <3>1. StackHolds(v3', c, ch, s * sp - lc, n + 1, FramesSince')
      BY <1>7, <1>14, <1>15, <1>18
    <3> QED
      BY <1>5, <1>14, <1>16, <2>2, <2>3, <3>1 DEF StackerAt
  <2>5. StackerTypes'
    <3>1. v3'.capacity = c
      BY <1>4, <1>9, <1>14, <1>18, RingFacts DEF StackHolds
    <3>2. v7' \in Nat
      BY <1>1, <1>14 DEF StackerTypes
    <3> QED
      BY <1>1, <1>5, <1>14, <1>18, <3>1, <3>2 DEF StackerTypes
  <2> QED
    BY <1>2, <1>16, <2>4, <2>5 DEF StackerIInv
<1> QED
  BY <1>17, <1>18

\* The multiple of a step that is less than s steps, and not less than s - 1.
LEMMA StepOfStack ==
  ASSUME NEW s \in Nat, NEW sp \in Nat \ {0}, NEW a \in Nat, (a % sp) = 0,
         a < s * sp, s > 0 => (s - 1) * sp <= a
  PROVE  s > 0 /\ a = (s - 1) * sp
<1>1. PICK q \in Nat : a = sp * q + 0
  <2>1. sp \in Positive
    BY DEF Positive
  <2>2. a \div sp \in Nat /\ a = sp * (a \div sp) + (a % sp)
    BY <2>1, Division
  <2> QED
    BY <2>2
<1>2. a = q * sp
  <2>1. sp * q + 0 = q * sp
    OBVIOUS
  <2> QED
    BY <1>1, <2>1
<1>3. q < s
  <2>1. ~(q >= s)
    <3> SUFFICES ASSUME q >= s PROVE FALSE
      OBVIOUS
    <3>1. s * sp <= q * sp
      BY StackRoom
    <3>2. s * sp \in Nat /\ q * sp \in Nat /\ q * sp < s * sp
      BY <1>2
    <3> QED
      BY <3>1, <3>2
  <2> QED
    BY <2>1
<1>4. s > 0 /\ s - 1 \in Nat
  BY <1>3
<1>5. q >= s - 1
  <2>1. q * sp >= (s - 1) * sp
    BY <1>2, <1>4
  <2> QED
    BY <1>4, <2>1, StackMore
<1>6. q = s - 1
  BY <1>3, <1>5
<1> QED
  BY <1>2, <1>4, <1>6

\* The output of the stacker, in its invariant.
LEMMA StackerRight ==
  StackerIInv => /\ Stack!TypeOK /\ Stack!NeverAborts
                 /\ Stack!StackRight /\ Stack!ValidEveryStep
<1> SUFFICES ASSUME StackerIInv
             PROVE  /\ Stack!TypeOK /\ Stack!NeverAborts
                    /\ Stack!StackRight /\ Stack!ValidEveryStep
  OBVIOUS
<1>1. StackerTypes
  BY DEF StackerIInv
<1>2. PICK n \in Nat, s \in Nat : StackerAt(n, s)
  BY DEF StackerIInv
<1>3. PICK c, ch, sp \in Nat \ {0}, lc, rc \in Nat : IsStacker(v2, c, ch, lc, rc, sp)
  BY <1>1, StackerNumbers DEF StackerTypes
<1>4. /\ c \in Nat \ {0} /\ ch \in Nat \ {0} /\ sp \in Nat \ {0} /\ lc \in Nat /\ rc \in Nat
      /\ n \in Nat /\ s \in Nat
  BY <1>2, <1>3
<1>5. /\ v2.num_channels = ch /\ v2.stacker_left_context = lc
      /\ v2.stacker_right_context = rc /\ v2.stacker_step = sp
      /\ Stack!BufferSize(v2) = c /\ Stack!Context(v2) = lc + rc + 1
  BY <1>3 DEF IsStacker
<1>6. v7 = v8 + n /\ v7 \in Nat /\ v8 \in Nat /\ v7 - v8 = n
  <2>1. v7 = v8 + n /\ v7 \in Nat /\ v8 \in Nat
    BY <1>1, <1>2 DEF StackerAt, StackerTypes
  <2> QED
    BY <1>4, <2>1
<1>7. Stack!TypeOK
  <2>1. v8 \in 0..v7
    BY <1>4, <1>6
  <2> QED
    BY <1>1, <2>1 DEF Stack!TypeOK, StackerTypes
<1>8. Stack!NeverAborts
  BY <1>1 DEF Stack!NeverAborts, StackerTypes
<1>9. ASSUME v7 > v8
      PROVE  n > 0 /\ StackNeeds(n, s, rc, sp) /\ StackRead(n, s, ch, lc, rc, sp)
  <2>1. n > 0
    BY <1>4, <1>6, <1>9
  <2> QED
    BY <1>2, <1>5, <2>1 DEF StackerAt
<1>10. Stack!StackRight
  <2> SUFFICES ASSUME v6, v7 > v8,
                      NEW j \in 0..(lc + rc), NEW x \in 1..ch
               PROVE  v5[j * ch + x] = Stack!FrameAt((n - rc - 1 - lc) + j)[x]
    <3>1. lc + rc + 1 - 1 = lc + rc
      BY <1>4
    <3> QED
      BY <1>5, <1>6, <3>1 DEF Stack!StackRight
  <2>1. /\ s > 0 /\ n = (s - 1) * sp + (rc + 1)
        /\ v5[j * ch + x] = FramesSince[((s - 1) * sp - lc) + j][x]
    BY <1>9 DEF StackRead
  <2>2. (s - 1) * sp \in Int
    BY <1>4
  <2>3. ((s - 1) * sp - lc) + j = (n - rc - 1 - lc) + j /\ (n - rc - 1 - lc) + j \in Int
    BY <1>4, <2>1, <2>2
  <2> QED
    BY <2>1, <2>3 DEF FramesSince
<1>11. Stack!ValidEveryStep
  <2> SUFFICES ASSUME v7 > v8
               PROVE  v6 <=> n - rc - 1 >= 0 /\ ((n - rc - 1) % sp) = 0
    BY <1>5, <1>6 DEF Stack!ValidEveryStep, Stack!Completes
  <2>1. v6 <=> s > 0 /\ n = (s - 1) * sp + (rc + 1)
    BY <1>9 DEF StackRead
  <2>2. n - s * sp < rc + 1 /\ (s > 0 => (s - 1) * sp + (rc + 1) <= n)
    BY <1>9 DEF StackNeeds
  <2>3. s * sp \in Nat /\ (s - 1) * sp \in Int
    BY <1>4
  <2>4. ASSUME s > 0, n = (s - 1) * sp + (rc + 1)
        PROVE  n - rc - 1 >= 0 /\ ((n - rc - 1) % sp) = 0
    <3>1. PICK q \in Nat : q = s - 1
      BY <1>4, <2>4
    <3>2. sp * q + 0 = (s - 1) * sp /\ (s - 1) * sp \in Nat
      BY <1>4, <3>1
    <3>3. n - rc - 1 = (s - 1) * sp
      BY <1>4, <2>3, <2>4
    <3>4. ((sp * q + 0) % sp) = 0
      <4>1. sp \in Positive /\ 0 \in 0..(sp - 1)
        BY <1>4 DEF Positive
      <4> QED
        BY <3>1, <4>1, DivisionUnique
    <3> QED
      BY <3>2, <3>3, <3>4
  <2>5. ASSUME n - rc - 1 >= 0, ((n - rc - 1) % sp) = 0
        PROVE  s > 0 /\ n = (s - 1) * sp + (rc + 1)
    <3>1. PICK a \in Nat : a = n - rc - 1
      BY <1>4, <2>5
    <3>2. a < s * sp /\ (s > 0 => (s - 1) * sp <= a)
      <4>1. n - rc - 1 < s * sp /\ (s > 0 => (s - 1) * sp <= n - rc - 1)
        BY <1>4, <2>2, <2>3
      <4> QED
        BY <3>1, <4>1
    <3>3. (a % sp) = 0
      BY <2>5, <3>1
    <3>4. s > 0 /\ a = (s - 1) * sp
      BY <1>4, <3>1, <3>2, <3>3, StepOfStack
    <3>5. n = (n - rc - 1) + (rc + 1)
      BY <1>4
    <3> QED
      BY <3>1, <3>4, <3>5
  <2> QED
    BY <2>1, <2>4, <2>5
<1> QED
  BY <1>7, <1>8, <1>10, <1>11

-----------------------------------------------------------------------------
(* Sums on the way, and the end of the range. *)

\* Sums is a function.
LEMMA SumsExist ==
  ASSUME NEW s, NEW n \in Nat
  PROVE  \E f : f = [j \in 0..n |-> IF j = 0 THEN 0 ELSE f[j - 1] + s[j]]
<1> DEFINE Eq(f, m) == f = [j \in 0..m |-> IF j = 0 THEN 0 ELSE f[j - 1] + s[j]]
           T == {m \in Nat : \E f : Eq(f, m)}
<1>1. 0 \in T
  <2>1. Eq([j \in 0..0 |-> 0], 0)
    OBVIOUS
  <2> QED
    BY <2>1
<1>2. ASSUME NEW m \in Nat, m \in T PROVE m + 1 \in T
  <2>1. PICK f : Eq(f, m)
    BY <1>2
  <2> DEFINE g == [j \in 0..(m + 1) |-> IF j = m + 1 THEN f[m] + s[m + 1] ELSE f[j]]
             h == [j \in 0..(m + 1) |-> IF j = 0 THEN 0 ELSE g[j - 1] + s[j]]
  <2>2. ASSUME NEW j \in 0..(m + 1) PROVE g[j] = h[j]
    <3>1. CASE j = m + 1
      <4>1. j - 1 = m /\ j # 0 /\ m \in 0..(m + 1) /\ m # m + 1
        BY <3>1
      <4>2. g[m] = f[m] /\ g[m + 1] = f[m] + s[m + 1]
        BY <4>1
      <4> QED
        BY <3>1, <4>1, <4>2
    <3>2. CASE j # m + 1 /\ j # 0
      <4>1. j \in 0..m /\ j - 1 \in 0..(m + 1) /\ j - 1 # m + 1
        BY <3>2
      <4>2. f[j] = f[j - 1] + s[j]
        BY <4>1, <2>1, <3>2
      <4>3. g[j] = f[j] /\ g[j - 1] = f[j - 1]
        BY <4>1, <3>2
      <4> QED
        BY <3>2, <4>2, <4>3
    <3>3. CASE j = 0
      <4>1. f[0] = 0
        BY <2>1
      <4> QED
        BY <3>3, <4>1
    <3> QED
      BY <3>1, <3>2, <3>3
  <2>3. g = h
    BY <2>2
  <2>4. Eq(g, m + 1)
    BY <2>3
  <2> HIDE DEF g, Eq
  <2> QED
    BY <2>4
<1> HIDE DEF Eq
<1>3. Nat \subseteq T
  BY <1>1, <1>2, Counting
<1>4. \E f : Eq(f, n)
  BY <1>3
<1> QED
  BY <1>4 DEF Eq

\* Each sum on the way is the one before, and the sample.
LEMMA SumsAre ==
  ASSUME NEW s \in Seq(Int)
  PROVE  /\ Overlap!Sums(s)[0] = 0
         /\ \A j \in 1..Len(s) : Overlap!Sums(s)[j] = Overlap!Sums(s)[j - 1] + s[j]
<1>1. PICK n \in Nat : n = Len(s)
  OBVIOUS
<1>2. PICK f : f = [j \in 0..n |-> IF j = 0 THEN 0 ELSE f[j - 1] + s[j]]
  BY SumsExist
<1>3. PICK z : z = Overlap!Sums(s)
  OBVIOUS
<1>4. z = [j \in 0..n |-> IF j = 0 THEN 0 ELSE z[j - 1] + s[j]]
  BY <1>1, <1>2, <1>3 DEF Overlap!Sums
<1>5. z[0] = 0
  BY <1>4
<1>6. \A j \in 1..n : z[j] = z[j - 1] + s[j]
  <2>1. \A j \in 1..n : j \in 0..n /\ j # 0
    OBVIOUS
  <2> QED
    BY <1>4, <2>1
<1> QED
  BY <1>1, <1>3, <1>5, <1>6

\* Counting from 0 to n, all are in P.
LEMMA CountingTo ==
  ASSUME NEW n \in Nat, NEW P, 0 \in P, \A j \in 0..(n - 1) : j \in P => j + 1 \in P
  PROVE  \A j \in 0..n : j \in P
<1> DEFINE T == {j \in Nat : j <= n => j \in P}
<1>1. 0 \in T
  OBVIOUS
<1>2. ASSUME NEW j \in Nat, j \in T PROVE j + 1 \in T
  <2>1. j + 1 <= n => j \in 0..(n - 1) /\ j <= n
    OBVIOUS
  <2> QED
    BY <1>2, <2>1
<1> HIDE DEF T
<1>3. Nat \subseteq T
  BY <1>1, <1>2, Counting
<1> QED
  BY <1>3 DEF T

\* They are numbers, and the sum of samples of one sign has it.
LEMMA SumsType ==
  ASSUME NEW s \in Seq(Int)
  PROVE  /\ \A j \in 0..Len(s) : Overlap!Sums(s)[j] \in Int
         /\ Overlap!Sum(s) \in Int
         /\ (\A j \in 1..Len(s) : s[j] >= 0) => Overlap!Sum(s) >= 0
         /\ (\A j \in 1..Len(s) : s[j] <= 0) => Overlap!Sum(s) <= 0
<1>1. PICK n \in Nat : n = Len(s)
  OBVIOUS
<1>2. PICK z : z = Overlap!Sums(s)
  OBVIOUS
<1>3. z[0] = 0 /\ \A j \in 1..n : z[j] = z[j - 1] + s[j] /\ s[j] \in Int
  BY <1>1, <1>2, SumsAre
<1>4. \A j \in 0..(n - 1) : j + 1 \in 1..n /\ (j + 1) - 1 = j
  OBVIOUS
<1>5. \A j \in 0..n : z[j] \in Int
  <2> DEFINE P == {j \in Nat : z[j] \in Int}
  <2>1. 0 \in P
    BY <1>3
  <2>2. \A j \in 0..(n - 1) : j \in P => j + 1 \in P
    <3>1. ASSUME NEW j \in 0..(n - 1), j \in P PROVE j + 1 \in P
      <4>1. z[j + 1] = z[j] + s[j + 1] /\ s[j + 1] \in Int
        BY <1>3, <1>4
      <4> QED
        BY <3>1, <4>1
    <3> QED
      BY <3>1
  <2> HIDE DEF P
  <2>3. \A j \in 0..n : j \in P
    BY <2>1, <2>2, CountingTo
  <2> QED
    BY <2>3 DEF P
<1>6. ASSUME \A j \in 1..n : s[j] >= 0 PROVE z[n] >= 0
  <2> DEFINE P == {j \in Nat : z[j] >= 0}
  <2>1. 0 \in P
    BY <1>3
  <2>2. \A j \in 0..(n - 1) : j \in P => j + 1 \in P
    <3>1. ASSUME NEW j \in 0..(n - 1), j \in P PROVE j + 1 \in P
      <4>1. z[j + 1] = z[j] + s[j + 1] /\ s[j + 1] \in Int /\ s[j + 1] >= 0
        BY <1>3, <1>4, <1>6
      <4>2. z[j] \in Int
        BY <1>5
      <4> QED
        BY <3>1, <4>1, <4>2
    <3> QED
      BY <3>1
  <2> HIDE DEF P
  <2>3. \A j \in 0..n : j \in P
    BY <2>1, <2>2, CountingTo
  <2> QED
    BY <2>3 DEF P
<1>7. ASSUME \A j \in 1..n : s[j] <= 0 PROVE z[n] <= 0
  <2> DEFINE P == {j \in Nat : z[j] <= 0}
  <2>1. 0 \in P
    BY <1>3
  <2>2. \A j \in 0..(n - 1) : j \in P => j + 1 \in P
    <3>1. ASSUME NEW j \in 0..(n - 1), j \in P PROVE j + 1 \in P
      <4>1. z[j + 1] = z[j] + s[j + 1] /\ s[j + 1] \in Int /\ s[j + 1] <= 0
        BY <1>3, <1>4, <1>7
      <4>2. z[j] \in Int
        BY <1>5
      <4> QED
        BY <3>1, <4>1, <4>2
    <3> QED
      BY <3>1
  <2> HIDE DEF P
  <2>3. \A j \in 0..n : j \in P
    BY <2>1, <2>2, CountingTo
  <2> QED
    BY <2>3 DEF P
<1>8. Overlap!Sum(s) = z[n] /\ n \in 0..n
  BY <1>1, <1>2 DEF Overlap!Sum
<1>9. z[n] \in Int
  BY <1>5, <1>8
<1> QED
  BY <1>1, <1>2, <1>5, <1>6, <1>7, <1>8, <1>9

\* One sample more.
LEMMA SumsAppend ==
  ASSUME NEW s \in Seq(Int), NEW x \in Int
  PROVE  /\ \A j \in 0..Len(s) : Overlap!Sums(Append(s, x))[j] = Overlap!Sums(s)[j]
         /\ Overlap!Sums(Append(s, x))[Len(s) + 1] = Overlap!Sum(s) + x
         /\ Overlap!Sum(Append(s, x)) = Overlap!Sum(s) + x
<1>1. PICK n \in Nat : n = Len(s)
  OBVIOUS
<1>2. PICK t : t = Append(s, x)
  OBVIOUS
<1>3. /\ t \in Seq(Int) /\ Len(t) = n + 1 /\ t[n + 1] = x
      /\ \A j \in 1..n : t[j] = s[j]
  BY <1>1, <1>2
<1>4. PICK z, y : z = Overlap!Sums(s) /\ y = Overlap!Sums(t)
  OBVIOUS
<1>5. z[0] = 0 /\ \A j \in 1..n : z[j] = z[j - 1] + s[j]
  BY <1>1, <1>4, SumsAre
<1>6. y[0] = 0 /\ \A j \in 1..(n + 1) : y[j] = y[j - 1] + t[j]
  BY <1>3, <1>4, SumsAre
<1>7. \A j \in 0..n : y[j] = z[j]
  <2> DEFINE P == {j \in Nat : y[j] = z[j]}
  <2>1. 0 \in P
    BY <1>5, <1>6
  <2>2. \A j \in 0..(n - 1) : j \in P => j + 1 \in P
    <3>1. ASSUME NEW j \in 0..(n - 1), j \in P PROVE j + 1 \in P
      <4>1. j + 1 \in 1..n /\ j + 1 \in 1..(n + 1) /\ (j + 1) - 1 = j /\ j + 1 \in Nat
        OBVIOUS
      <4>2. y[j + 1] = y[j] + t[j + 1] /\ z[j + 1] = z[j] + s[j + 1] /\ t[j + 1] = s[j + 1]
        BY <1>3, <1>5, <1>6, <4>1
      <4> QED
        BY <3>1, <4>1, <4>2
    <3> QED
      BY <3>1
  <2> HIDE DEF P
  <2>3. \A j \in 0..n : j \in P
    BY <2>1, <2>2, CountingTo
  <2> QED
    BY <2>3 DEF P
<1>8. y[n + 1] = z[n] + x
  <2>1. n + 1 \in 1..(n + 1) /\ (n + 1) - 1 = n /\ n \in 0..n
    OBVIOUS
  <2> QED
    BY <1>3, <1>6, <1>7, <2>1
<1>9. Overlap!Sum(s) = z[n] /\ Overlap!Sum(t) = y[n + 1]
  BY <1>1, <1>3, <1>4 DEF Overlap!Sum
<1> QED
  BY <1>1, <1>2, <1>4, <1>7, <1>8, <1>9

\* The kernel saturates to the nearest number of the range.
LEMMA NearestIs ==
  ASSUME NEW x \in Int
  PROVE  Overlap!Nearest(x) = Overlap!Saturated(x) /\ Overlap!Saturated(x) \in INT16_MIN..INT16_MAX
<1>1. /\ INT16_MIN \in Int /\ INT16_MAX \in Int /\ INT16_MIN <= 0 /\ 0 <= INT16_MAX
  BY AddersAssumption
<1>2. PICK y : y = Overlap!Saturated(x)
  OBVIOUS
<1>3. y = IF x < INT16_MIN THEN INT16_MIN ELSE IF x > INT16_MAX THEN INT16_MAX ELSE x
  BY <1>2 DEF Overlap!Saturated
<1>4. y \in INT16_MIN..INT16_MAX
  BY <1>1, <1>3
<1>5. (y = x) \/ (x > y /\ y = INT16_MAX) \/ (x < y /\ y = INT16_MIN)
  BY <1>1, <1>3
<1>6. ASSUME NEW a \in INT16_MIN..INT16_MAX,
             (a = x) \/ (x > a /\ a = INT16_MAX) \/ (x < a /\ a = INT16_MIN)
      PROVE  a = y
  BY <1>1, <1>3, <1>6
<1>7. Overlap!Nearest(x) = y
  BY <1>4, <1>5, <1>6 DEF Overlap!Nearest
<1> QED
  BY <1>2, <1>4, <1>7

\* The sum v that the kernel keeps of the samples s.
Kept(v, s) ==
  /\ v \in INT16_MIN..INT16_MAX /\ s \in Seq(Int)
  /\ Overlap!InRange(s) => v = Overlap!Sum(s)
  /\ (\A j \in 1..Len(s) : s[j] >= 0) \/ (\A j \in 1..Len(s) : s[j] <= 0)
       => v = Overlap!Nearest(Overlap!Sum(s))

\* Nothing has been added.
LEMMA KeptNone == Kept(0, << >>)
<1>1. INT16_MIN \in Int /\ INT16_MAX \in Int /\ INT16_MIN <= 0 /\ 0 <= INT16_MAX
  BY AddersAssumption
<1>2. << >> \in Seq(Int) /\ Len(<< >>) = 0
  OBVIOUS
<1>3. Overlap!Sum(<< >>) = 0
  BY <1>2, SumsAre DEF Overlap!Sum
<1>4. Overlap!Nearest(0) = 0
  <2>1. Overlap!Saturated(0) = 0
    BY <1>1 DEF Overlap!Saturated
  <2> QED
    BY <2>1, NearestIs
<1> QED
  BY <1>1, <1>2, <1>3, <1>4 DEF Kept

\* One sample more, saturated: once samples of one sign have left the range, so does the sum.
LEMMA KeptAdds ==
  ASSUME NEW v, NEW s, Kept(v, s), NEW x \in Int
  PROVE  Kept(Overlap!Saturated(x + v), Append(s, x))
<1>1. INT16_MIN \in Int /\ INT16_MAX \in Int /\ INT16_MIN <= 0 /\ 0 <= INT16_MAX
  BY AddersAssumption
<1>2. v \in INT16_MIN..INT16_MAX /\ s \in Seq(Int) /\ v \in Int
  BY <1>1 DEF Kept
<1>3. PICK t \in Seq(Int), n \in Nat : t = Append(s, x) /\ n = Len(s)
  <2>1. Append(s, x) \in Seq(Int) /\ Len(s) \in Nat
    BY <1>2, AppendProperties
  <2> QED
    BY <2>1
<1>4. /\ t \in Seq(Int) /\ Len(t) = n + 1 /\ t[n + 1] = x
      /\ \A j \in 1..n : t[j] = s[j]
  BY <1>2, <1>3
<1>5. PICK a \in Int : a = Overlap!Sum(s)
  BY <1>2, SumsType
<1>6. /\ Overlap!Sum(t) = a + x /\ Overlap!Sums(t)[n + 1] = a + x
      /\ \A j \in 0..n : Overlap!Sums(t)[j] = Overlap!Sums(s)[j]
  BY <1>2, <1>3, <1>5, SumsAppend
<1>7. PICK w : w = Overlap!Saturated(x + v)
  OBVIOUS
<1>8. w = IF x + v < INT16_MIN THEN INT16_MIN ELSE IF x + v > INT16_MAX THEN INT16_MAX ELSE x + v
  BY <1>7 DEF Overlap!Saturated
<1>9. w \in INT16_MIN..INT16_MAX
  <2>1. x + v \in Int
    BY <1>2
  <2> QED
    BY <1>7, <2>1, NearestIs
<1>10. ASSUME Overlap!InRange(t) PROVE w = a + x
  <2>1. \A j \in 1..(n + 1) : Overlap!Sums(t)[j] \in INT16_MIN..INT16_MAX
    BY <1>4, <1>10 DEF Overlap!InRange
  <2>2. Overlap!InRange(s)
    <3>1. \A j \in 1..n : j \in 1..(n + 1) /\ j \in 0..n
      OBVIOUS
    <3> QED
      BY <1>3, <1>6, <2>1, <3>1 DEF Overlap!InRange
  <2>3. v = a
    BY <1>5, <2>2 DEF Kept
  <2>4. a + x \in INT16_MIN..INT16_MAX
    <3>1. n + 1 \in 1..(n + 1)
      OBVIOUS
    <3> QED
      BY <1>6, <2>1, <3>1
  <2> QED
    BY <1>1, <1>8, <2>3, <2>4
<1>11. ASSUME \/ \A j \in 1..(n + 1) : t[j] >= 0
              \/ \A j \in 1..(n + 1) : t[j] <= 0
       PROVE  w = Overlap!Saturated(a + x)
  <2>1. \A j \in 1..n : j \in 1..(n + 1)
    OBVIOUS
  <2>2. n + 1 \in 1..(n + 1)
    OBVIOUS
  <2>3. CASE \A j \in 1..(n + 1) : t[j] >= 0
    <3>1. x >= 0 /\ \A j \in 1..n : s[j] >= 0
      BY <1>4, <2>1, <2>2, <2>3
    <3>2. a >= 0 /\ v = Overlap!Saturated(a)
      BY <1>2, <1>3, <1>5, <3>1, SumsType, NearestIs DEF Kept
    <3>3. v = IF a > INT16_MAX THEN INT16_MAX ELSE a
      BY <1>1, <3>2 DEF Overlap!Saturated
    <3>4. w = IF a + x > INT16_MAX THEN INT16_MAX ELSE a + x
      BY <1>1, <1>2, <1>8, <3>1, <3>2, <3>3
    <3> QED
      BY <1>1, <3>1, <3>2, <3>4 DEF Overlap!Saturated
  <2>4. CASE \A j \in 1..(n + 1) : t[j] <= 0
    <3>1. x <= 0 /\ \A j \in 1..n : s[j] <= 0
      BY <1>4, <2>1, <2>2, <2>4
    <3>2. a <= 0 /\ v = Overlap!Saturated(a)
      BY <1>2, <1>3, <1>5, <3>1, SumsType, NearestIs DEF Kept
    <3>3. v = IF a < INT16_MIN THEN INT16_MIN ELSE a
      BY <1>1, <3>2 DEF Overlap!Saturated
    <3>4. w = IF a + x < INT16_MIN THEN INT16_MIN ELSE a + x
      BY <1>1, <1>2, <1>8, <3>1, <3>2, <3>3
    <3> QED
      BY <1>1, <3>1, <3>2, <3>4 DEF Overlap!Saturated
  <2> QED
    BY <1>11, <2>3, <2>4
<1>12. Overlap!Nearest(a + x) = Overlap!Saturated(a + x)
  BY <1>5, NearestIs
<1>13. Kept(w, t)
  BY <1>4, <1>6, <1>9, <1>10, <1>11, <1>12 DEF Kept
<1> QED
  BY <1>3, <1>7, <1>13

(* The samples that are aligned: sample k of frame n, sample k + st of the frame before,  *)
(* and so on.                                                                            *)

\* How many frames before frame n reach to its place k.
Deep(n, k, st, size) == {d \in 0..n : k + d * st < size}

\* Their samples there, in the order of the frames F.
Column(F, n, k, st, size) ==
  LET depth == Cardinality(Deep(n, k, st, size))
      first == n + 1 - depth
  IN [j \in 1..depth |-> F[first + j][k + (n - first - j + 1) * st]]

\* Place k is reached by the last m of n + 1 frames.
Reaches(n, k, st, size, m) == Deep(n, k, st, size) = 0..(m - 1)

\* The frames that reach to a place are the last ones.
LEMMA DeepIs ==
  ASSUME NEW st \in Nat \ {0}, NEW size \in Nat \ {0}, NEW n \in Nat, NEW k \in 0..(size - 1)
  PROVE  \E m \in 1..(n + 1) : Reaches(n, k, st, size, m)
<1>1. PICK a \in Nat : a = size - 1 - k
  OBVIOUS
<1>2. PICK q \in Nat, r \in 0..(st - 1) : a = st * q + r
  <2>1. st \in Positive
    BY DEF Positive
  <2>2. a \div st \in Nat /\ (a % st) \in 0..(st - 1) /\ a = st * (a \div st) + (a % st)
    BY <2>1, Division
  <2> QED
    BY <2>2
<1>3. PICK qs \in Nat : qs = q * st
  BY <1>2
<1>4. st * q = qs /\ (q + 1) * st = qs + st
  BY <1>2, <1>3
<1>5. a = qs + r /\ r \in 0..(st - 1)
  BY <1>2, <1>4
<1>6. ASSUME NEW d \in 0..n PROVE k + d * st < size <=> d <= q
  <2>1. PICK ds \in Nat : ds = d * st
    OBVIOUS
  <2>2. CASE d <= q
    <3>1. ds <= qs
      BY <1>2, <1>3, <2>1, <2>2, StackRoom
    <3>2. k + ds < size
      BY <1>1, <1>3, <1>5, <2>1, <3>1
    <3> QED
      BY <2>1, <2>2, <3>2
  <2>3. CASE ~(d <= q)
    <3>1. q + 1 <= d /\ q + 1 \in Nat /\ d \in Nat
      BY <1>2, <2>3
    <3>2. (q + 1) * st <= d * st
      BY <3>1, StackRoom
    <3>3. qs + st <= ds
      BY <1>4, <2>1, <3>2
    <3>4. ~(k + ds < size)
      BY <1>1, <1>3, <1>5, <2>1, <3>3
    <3> QED
      BY <2>1, <2>3, <3>4
  <2> QED
    BY <2>2, <2>3
<1>7. PICK m \in 1..(n + 1) : m = IF q < n THEN q + 1 ELSE n + 1
  BY <1>2
<1>8. Deep(n, k, st, size) = {d \in 0..n : d <= q}
  BY <1>6 DEF Deep
<1>9. {d \in 0..n : d <= q} = 0..(m - 1)
  BY <1>2, <1>7
<1> QED
  BY <1>8, <1>9 DEF Reaches

\* So many they are.
LEMMA DeepCount ==
  ASSUME NEW m \in Nat
  PROVE  Cardinality(0..(m - 1)) = m
<1>1. 0 \in Int /\ m - 1 \in Int
  OBVIOUS
<1>2. Cardinality(0..(m - 1)) = IF 0 > m - 1 THEN 0 ELSE (m - 1) - 0 + 1
  BY <1>1, FS_Interval
<1> QED
  BY <1>2

\* The frames that reach to place k, less the last one, reach to place k + st.
LEMMA DeepNext ==
  ASSUME NEW st \in Nat \ {0}, NEW size \in Nat \ {0}, NEW n \in Nat, NEW l \in Nat, l = n - 1,
         NEW k \in 0..(size - 1), NEW kk \in Nat, kk = k + st,
         NEW m \in 1..(n + 1), Reaches(n, k, st, size, m), NEW p \in Nat, p = m - 1
  PROVE  Reaches(l, kk, st, size, p)
<1>1. ASSUME NEW d \in 0..(n - 1) PROVE k + st + d * st < size <=> d <= m - 2
  <2>1. d + 1 \in 0..n
    OBVIOUS
  <2>2. (d + 1) * st = d * st + st /\ d * st \in Nat
    OBVIOUS
  <2>3. k + st + d * st = k + (d + 1) * st
    BY <2>2
  <2>4. k + (d + 1) * st < size <=> d + 1 \in 0..(m - 1)
    BY <2>1 DEF Deep, Reaches
  <2>5. d + 1 \in 0..(m - 1) <=> d <= m - 2
    OBVIOUS
  <2> QED
    BY <2>3, <2>4, <2>5
<1>2. {d \in 0..(n - 1) : d <= m - 2} = 0..(m - 2)
  <2>1. n \in Nat \ {0}
    OBVIOUS
  <2> QED
    BY <2>1
<1>3. p - 1 = m - 2
  OBVIOUS
<1> QED
  BY <1>1, <1>2, <1>3 DEF Deep, Reaches

\* The column of m frames.
ColumnOf(F, n, k, st, m) == [j \in 1..m |-> F[(n + 1 - m) + j][k + (m - j) * st]]

\* Which it is when m frames reach to it.
LEMMA ColumnIs ==
  ASSUME NEW F, NEW st \in Nat \ {0}, NEW size \in Nat \ {0}, NEW n \in Nat, NEW k \in Nat,
         NEW m \in 0..(n + 1), Reaches(n, k, st, size, m)
  PROVE  Column(F, n, k, st, size) = ColumnOf(F, n, k, st, m)
<1>1. Cardinality(Deep(n, k, st, size)) = m
  BY DeepCount DEF Reaches
<1>2. \A j \in 1..m : n - (n + 1 - m) - j + 1 = m - j
  OBVIOUS
<1> QED
  BY <1>1, <1>2 DEF Column, ColumnOf

\* The samples that the next frame adds to, at place k.
Coming(F, k, st, size) ==
  IF Len(F) = 0 \/ k + st >= size THEN << >> ELSE Column(F, Len(F) - 1, k + st, st, size)

\* A column of the last frame is that of the one before, and the frame's own sample.
LEMMA ColumnGrows ==
  ASSUME NEW st \in Nat \ {0}, NEW size \in Nat \ {0}, NEW k \in 0..(size - 1),
         NEW T, NEW F \in Seq(T), NEW g \in T
  PROVE  Column(Append(F, g), Len(F), k, st, size) = Append(Coming(F, k, st, size), g[k])
<1>1. PICK n \in Nat : n = Len(F)
  OBVIOUS
<1>2. PICK G \in Seq(T) : G = Append(F, g)
  BY AppendProperties
<1>3. /\ Len(G) = n + 1 /\ G[n + 1] = g
      /\ \A j \in 1..n : G[j] = F[j]
  BY <1>1, <1>2
<1>4. PICK m \in 1..(n + 1) : Reaches(n, k, st, size, m)
  BY DeepIs
<1>5. m \in 1..(n + 1) /\ m \in 0..(n + 1) /\ k \in Nat
  BY <1>4
<1>6. PICK new : new = [j \in 1..m |-> G[(n + 1 - m) + j][k + (m - j) * st]]
  OBVIOUS
<1>7. Column(G, n, k, st, size) = new
  <2>1. n \in Nat /\ k \in Nat /\ m \in 0..(n + 1)
    BY <1>1, <1>5
  <2>2. Column(G, n, k, st, size) = ColumnOf(G, n, k, st, m)
    BY <1>4, <2>1, ColumnIs
  <2> QED
    BY <1>6, <2>2 DEF ColumnOf
<1>8. PICK old : old = Coming(F, k, st, size)
  OBVIOUS
<1>9. old = [j \in 1..(m - 1) |-> F[(n + 1 - m) + j][k + (m - j) * st]]
  <2>1. CASE n = 0
    <3>1. m = 1 /\ old = << >> /\ 1..(m - 1) = {}
      BY <1>1, <1>5, <1>8, <2>1 DEF Coming
    <3> QED
      BY <3>1
  <2>2. CASE n # 0 /\ k + st >= size
    <3>1. old = << >>
      BY <1>1, <1>8, <2>2 DEF Coming
    <3>2. 1 \notin Deep(n, k, st, size)
      <4>1. 1 * st = st
        OBVIOUS
      <4>2. ~(k + st < size)
        BY <1>5, <2>2
      <4> QED
        BY <4>1, <4>2 DEF Deep
    <3>3. m = 1
      <4>1. 1 \notin 0..(m - 1)
        BY <1>4, <3>2 DEF Reaches
      <4> QED
        BY <1>5, <4>1
    <3>4. 1..(m - 1) = {}
      BY <3>3
    <3> QED
      BY <3>1, <3>4
  <2>3. CASE n # 0 /\ ~(k + st >= size)
    <3>1. old = Column(F, n - 1, k + st, st, size)
      BY <1>1, <1>8, <2>3 DEF Coming
    <3>2. n \in Nat \ {0}
      BY <1>1, <2>3
    <3>4. PICK p \in Nat, l \in Nat, kk \in Nat : p = m - 1 /\ l = n - 1 /\ kk = k + st
      BY <1>5, <3>2
    <3>5. p \in 0..(l + 1)
      BY <1>5, <3>2, <3>4
    <3>6. Reaches(l, kk, st, size, p)
      BY <1>1, <1>4, <3>4, DeepNext
    <3>7. Column(F, l, kk, st, size) = ColumnOf(F, l, kk, st, p)
      BY <3>4, <3>5, <3>6, ColumnIs
    <3>8. ASSUME NEW j \in 1..p
          PROVE  (l + 1 - p) + j = (n + 1 - m) + j /\ kk + (p - j) * st = k + (m - j) * st
      <4>1. (l + 1 - p) + j = (n + 1 - m) + j /\ m - j = (p - j) + 1 /\ p - j \in Nat
        BY <1>5, <3>2, <3>4
      <4>2. ((p - j) + 1) * st = (p - j) * st + st /\ (p - j) * st \in Nat
        BY <4>1
      <4>3. kk + (p - j) * st = k + ((p - j) + 1) * st
        BY <1>5, <3>4, <4>2
      <4> QED
        BY <4>1, <4>3
    <3> QED
      BY <3>1, <3>4, <3>7, <3>8 DEF ColumnOf
  <2> QED
    BY <2>1, <2>2, <2>3
<1>10. Append(old, g[k]) = new
  <2>1. PICK p \in Nat : p = m - 1
    BY <1>5
  <2>2. p \in Nat /\ m = p + 1 /\ p \in 0..n
    BY <1>5, <2>1
  <2>3. PICK R : R = {old[j] : j \in 1..p}
    OBVIOUS
  <2>10. old = [j \in 1..p |-> old[j]]
    BY <1>9, <2>1
  <2>11. old \in Seq(R) /\ DOMAIN old = 1..p
    <3>1. old \in [1..p -> R]
      BY <2>3, <2>10
    <3> QED
      BY <2>1, <3>1, SeqDef
  <2>4. Len(old) = p
    BY <2>1, <2>11, LenProperties
  <2>5. PICK s : s = Append(old, g[k])
    OBVIOUS
  <2>6. s = [j \in 1..(p + 1) |-> IF j = p + 1 THEN g[k] ELSE old[j]]
    BY <2>4, <2>5, <2>10, <2>11
  <2>7. ASSUME NEW j \in 1..(p + 1)
        PROVE  (IF j = p + 1 THEN g[k] ELSE old[j]) = new[j]
    <3>0. j \in 1..m
      BY <2>2
    <3>1. new[j] = G[(n + 1 - m) + j][k + (m - j) * st]
      BY <1>6, <3>0
    <3>2. CASE j = p + 1
      <4>1. (n + 1 - m) + j = n + 1 /\ m - j = 0 /\ 0 * st = 0 /\ k + 0 = k
        BY <1>5, <2>2, <3>2
      <4> QED
        BY <1>3, <3>1, <3>2, <4>1
    <3>3. CASE j # p + 1
      <4>1. j \in 1..(m - 1) /\ (n + 1 - m) + j \in 1..n
        BY <1>5, <2>2, <3>3
      <4> QED
        BY <1>3, <1>9, <3>1, <3>3, <4>1
    <3> QED
      BY <3>2, <3>3
  <2>8. s = new
    <3>1. new = [j \in 1..(p + 1) |-> new[j]]
      BY <1>6, <2>2
    <3> QED
      BY <2>6, <2>7, <3>1
  <2> QED
    BY <2>5, <2>8
<1> QED
  BY <1>1, <1>2, <1>7, <1>8, <1>10

\* A further frame leaves the columns of those before it.
LEMMA ColumnStays ==
  ASSUME NEW st \in Nat \ {0}, NEW size \in Nat \ {0}, NEW k \in 0..(size - 1),
         NEW T, NEW F \in Seq(T), NEW g \in T, NEW n \in Nat, n < Len(F)
  PROVE  Column(Append(F, g), n, k, st, size) = Column(F, n, k, st, size)
<1>1. PICK G : G = Append(F, g)
  OBVIOUS
<1>2. PICK m \in 1..(n + 1) : Reaches(n, k, st, size, m)
  BY DeepIs
<1>3. k \in Nat /\ m \in 0..(n + 1)
  BY <1>2
<1>4. Column(G, n, k, st, size) = ColumnOf(G, n, k, st, m)
  BY <1>2, <1>3, ColumnIs
<1>5. Column(F, n, k, st, size) = ColumnOf(F, n, k, st, m)
  BY <1>2, <1>3, ColumnIs
<1>6. ASSUME NEW j \in 1..m PROVE G[(n + 1 - m) + j] = F[(n + 1 - m) + j]
  <2>1. PICK l \in Nat : l = Len(F)
    OBVIOUS
  <2>2. (n + 1 - m) + j \in 1..l
    BY <1>3, <2>1
  <2>3. \A i \in 1..l : G[i] = F[i]
    BY <1>1, <2>1
  <2> QED
    BY <2>2, <2>3
<1>7. ColumnOf(G, n, k, st, m) = ColumnOf(F, n, k, st, m)
  BY <1>6 DEF ColumnOf
<1> QED
  BY <1>1, <1>4, <1>5, <1>7

\* The property means the same samples.
LEMMA AlignedIs ==
  \A i, n, k : Overlap!Aligned(i, n, k) = Column(v9[i], n, k, v2.frame_step, v2.frame_size)
<1>1. \A s : Overlap!Cardinality(s) = Cardinality(s)
  BY DEF Cardinality, Overlap!Cardinality, IsFiniteSet, Overlap!IsFiniteSet
<1> QED
  BY <1>1 DEF Overlap!Aligned, Column, Deep

-----------------------------------------------------------------------------
(* The overlap-add kernel. *)

\* A kernel in numbers.
IsAdder(p, size, st, nf, od) ==
  /\ p.frame_size = size /\ p.frame_step = st /\ p.n_frames = nf /\ p.outer_dims = od
  /\ st <= size

\* Each kernel has such numbers.
LEMMA AdderNumbers ==
  ASSUME NEW p \in Adders
  PROVE  \E size, st, nf, od \in Nat \ {0} : IsAdder(p, size, st, nf, od)
BY AddersAssumption DEF Overlap!Config, IsAdder

\* The frames of lane i that this invocation has added, or that the last one did.
Done(i) ==
  IF v1 = "idle" THEN (IF v9[i] = << >> THEN 0 ELSE v2.n_frames)
  ELSE IF i < v5 THEN v2.n_frames ELSE IF i = v5 THEN v6 ELSE 0

\* The ranges of the variables.
OverlapTypes ==
  /\ v2 \in Adders /\ v1 \in {"idle", "eval"}
  /\ v5 \in Overlap!Lanes /\ v6 \in Overlap!Frames
  /\ v1 = "idle" => v5 = 0 /\ v6 = 0
  /\ v1 = "eval" => v4 \in [Overlap!Lanes -> [Overlap!Frames -> [Overlap!Places -> AdderInputs]]]
  /\ v3 \in [Overlap!Lanes -> [Overlap!Places -> INT16_MIN..INT16_MAX]]
  /\ v7 \in [Overlap!Lanes -> [Overlap!Frames -> [Overlap!Steps -> INT16_MIN..INT16_MAX]]]
  /\ DOMAIN v9 = Overlap!Lanes
  /\ \A i \in Overlap!Lanes : v9[i] \in Seq([Overlap!Places -> Int])

\* The state of a lane: at each place the sum of what the next frame adds to.
LaneSums(buffer, F) ==
  \A k \in Overlap!Places : Kept(buffer[k], Coming(F, k, v2.frame_step, v2.frame_size))

\* The output of a lane: the columns of the last `done` frames.
LaneOutput(out, F, done) ==
  /\ Len(F) >= done
  /\ \A f \in Overlap!Frames, k \in Overlap!Steps :
       f < done => Kept(out[f][k], Column(F, Len(F) - done + f, k, v2.frame_step, v2.frame_size))

\* The inductive invariant of the overlap-add kernel.
OverlapIInv ==
  /\ OverlapTypes
  /\ \A i \in Overlap!Lanes : LaneSums(v3[i], v9[i]) /\ LaneOutput(v7[i], v9[i], Done(i))

\* A lane without frames.
LEMMA SilentLane ==
  ASSUME OverlapTypes
  PROVE  /\ LaneSums([k \in Overlap!Places |-> 0], << >>)
         /\ \A out : LaneOutput(out, << >>, 0)
<1>1. Len(<< >>) = 0
  OBVIOUS
<1>2. \A k \in Overlap!Places : Coming(<< >>, k, v2.frame_step, v2.frame_size) = << >>
  BY <1>1 DEF Coming
<1>3. LaneSums([k \in Overlap!Places |-> 0], << >>)
  BY <1>2, KeptNone DEF LaneSums
<1>4. ASSUME NEW f \in Overlap!Frames PROVE ~(f < 0)
  BY <1>4 DEF Overlap!Frames
<1> QED
  BY <1>1, <1>3, <1>4 DEF LaneOutput

\* Prepare.
LEMMA OverlapStarts == Overlap!Init => OverlapIInv
<1> SUFFICES ASSUME Overlap!Init PROVE OverlapIInv
  OBVIOUS
<1>1. PICK size, st, nf, od \in Nat \ {0} : IsAdder(v2, size, st, nf, od)
  BY AdderNumbers DEF Overlap!Init
<1>2. /\ Overlap!Lanes = 0..(od - 1) /\ Overlap!Frames = 0..(nf - 1)
      /\ 0 \in Overlap!Lanes /\ 0 \in Overlap!Frames
  BY <1>1 DEF IsAdder, Overlap!Lanes, Overlap!Frames
<1>3. 0 \in INT16_MIN..INT16_MAX
  BY AddersAssumption
<1>4. /\ v2 \in Adders /\ v1 = "idle" /\ v5 = 0 /\ v6 = 0
      /\ v3 = [i \in Overlap!Lanes |-> [k \in Overlap!Places |-> 0]]
      /\ v7 = [i \in Overlap!Lanes |-> [f \in Overlap!Frames |-> [k \in Overlap!Steps |-> 0]]]
      /\ v9 = [i \in Overlap!Lanes |-> << >>]
  BY DEF Overlap!Init, Overlap!Silent
<1>5. OverlapTypes
  <2>1. << >> \in Seq([Overlap!Places -> Int])
    OBVIOUS
  <2> QED
    BY <1>2, <1>3, <1>4, <2>1 DEF OverlapTypes
<1>6. \A i \in Overlap!Lanes : Done(i) = 0
  BY <1>4 DEF Done
<1> QED
  BY <1>4, <1>5, <1>6, SilentLane DEF OverlapIInv

\* A further invocation: no frame of it is done.
LEMMA OverlapInvokes == OverlapIInv /\ Overlap!Invoke => OverlapIInv'
<1> SUFFICES ASSUME OverlapIInv, Overlap!Invoke PROVE OverlapIInv'
  OBVIOUS
<1>1. PICK size, st, nf, od \in Nat \ {0} : IsAdder(v2, size, st, nf, od)
  BY AdderNumbers DEF OverlapIInv, OverlapTypes
<1>2. /\ Overlap!Lanes = 0..(od - 1) /\ Overlap!Frames = 0..(nf - 1)
      /\ 0 \in Overlap!Lanes /\ 0 \in Overlap!Frames
  BY <1>1 DEF IsAdder, Overlap!Lanes, Overlap!Frames
<1>3. /\ v1 = "idle" /\ v1' = "eval" /\ v5' = 0 /\ v6' = 0
      /\ v4' \in [Overlap!Lanes -> [Overlap!Frames -> [Overlap!Places -> AdderInputs]]]
      /\ UNCHANGED <<v2, v3, v7, v9>>
  BY DEF Overlap!Invoke
<1>4. /\ Overlap!Lanes' = Overlap!Lanes /\ Overlap!Frames' = Overlap!Frames
      /\ Overlap!Places' = Overlap!Places /\ Overlap!Steps' = Overlap!Steps
  BY <1>3 DEF Overlap!Lanes, Overlap!Frames, Overlap!Places, Overlap!Steps
<1>5. OverlapTypes'
  BY <1>2, <1>3, <1>4 DEF OverlapIInv, OverlapTypes
<1>6. ASSUME NEW i \in Overlap!Lanes
      PROVE  (LaneSums(v3[i], v9[i]) /\ LaneOutput(v7[i], v9[i], Done(i)))'
  <2>1. LaneSums(v3[i], v9[i])'
    BY <1>3, <1>4 DEF OverlapIInv, LaneSums
  <2>2. Done(i)' = 0
    <3>1. i \in Nat /\ ~(i < 0)
      BY <1>2
    <3> QED
      BY <1>3, <3>1 DEF Done
  <2>3. LaneOutput(v7[i], v9[i], 0)'
    <3>1. Len(v9[i]) >= 0
      BY DEF OverlapIInv, OverlapTypes
    <3>2. ASSUME NEW f \in Overlap!Frames PROVE ~(f < 0)
      BY <1>2
    <3> QED
      BY <1>3, <1>4, <3>1, <3>2 DEF LaneOutput
  <2> QED
    BY <2>1, <2>2, <2>3 DEF LaneOutput
<1> QED
  BY <1>4, <1>5, <1>6 DEF OverlapIInv

\* The reset clears the sums, and with them the frames there have been.
LEMMA OverlapResets == OverlapIInv /\ Overlap!CallReset => OverlapIInv'
<1> SUFFICES ASSUME OverlapIInv, Overlap!CallReset PROVE OverlapIInv'
  OBVIOUS
<1>1. /\ v1 = "idle" /\ v3' = [i \in Overlap!Lanes |-> [k \in Overlap!Places |-> 0]]
      /\ v9' = [i \in Overlap!Lanes |-> << >>]
      /\ UNCHANGED <<v1, v2, v4, v5, v6, v7>>
  BY DEF Overlap!CallReset, Overlap!ResetBuffers, Overlap!Silent
<1>2. /\ Overlap!Lanes' = Overlap!Lanes /\ Overlap!Frames' = Overlap!Frames
      /\ Overlap!Places' = Overlap!Places /\ Overlap!Steps' = Overlap!Steps
  BY <1>1 DEF Overlap!Lanes, Overlap!Frames, Overlap!Places, Overlap!Steps
<1>3. OverlapTypes'
  <2>1. << >> \in Seq([Overlap!Places -> Int])
    OBVIOUS
  <2>2. v3' \in [Overlap!Lanes -> [Overlap!Places -> INT16_MIN..INT16_MAX]]
    <3>1. 0 \in INT16_MIN..INT16_MAX
      BY AddersAssumption
    <3> QED
      BY <1>1, <3>1
  <2> QED
    BY <1>1, <1>2, <2>1, <2>2 DEF OverlapIInv, OverlapTypes
<1>4. ASSUME NEW i \in Overlap!Lanes
      PROVE  (LaneSums(v3[i], v9[i]) /\ LaneOutput(v7[i], v9[i], Done(i)))'
  <2>1. /\ LaneSums([k \in Overlap!Places |-> 0], << >>)
        /\ \A out : LaneOutput(out, << >>, 0)
    BY SilentLane DEF OverlapIInv
  <2>2. Done(i)' = 0
    BY <1>1 DEF Done
  <2> QED
    BY <1>1, <1>2, <2>1, <2>2 DEF LaneSums, LaneOutput
<1> QED
  BY <1>2, <1>3, <1>4 DEF OverlapIInv

\* The body of the loops, for the sums of one lane.
LEMMA OverlapBody ==
  ASSUME OverlapTypes, NEW b, NEW F \in Seq([Overlap!Places -> Int]), LaneSums(b, F),
         NEW g \in [Overlap!Places -> AdderInputs]
  PROVE  LET sum == Overlap!Added(b, g)
             G == Append(F, g)
         IN /\ g \in [Overlap!Places -> Int] /\ G \in Seq([Overlap!Places -> Int])
            /\ Len(G) = Len(F) + 1
            /\ \A k \in Overlap!Places :
                 Kept(sum[k], Column(G, Len(F), k, v2.frame_step, v2.frame_size))
            /\ LaneSums(Overlap!Shifted(sum), G)
<1>1. PICK size, st, nf, od \in Nat \ {0} : IsAdder(v2, size, st, nf, od)
  BY AdderNumbers DEF OverlapTypes
<1>2. v2.frame_size = size /\ v2.frame_step = st /\ Overlap!Places = 0..(size - 1)
  BY <1>1 DEF IsAdder, Overlap!Places
<1>3. PICK T : T = [Overlap!Places -> Int]
  OBVIOUS
<1>4. g \in T /\ F \in Seq(T) /\ \A k \in Overlap!Places : g[k] \in Int
  BY <1>3, AddersAssumption
<1>5. PICK n \in Nat, G \in Seq(T) : n = Len(F) /\ G = Append(F, g)
  <2>1. Append(F, g) \in Seq(T) /\ Len(F) \in Nat
    BY <1>4, AppendProperties
  <2> QED
    BY <2>1
<1>6. Len(G) = n + 1
  BY <1>4, <1>5, AppendProperties
<1>7. PICK sum : sum = Overlap!Added(b, g)
  OBVIOUS
<1>8. ASSUME NEW k \in Overlap!Places PROVE Kept(sum[k], Column(G, n, k, st, size))
  <2>1. Kept(b[k], Coming(F, k, st, size))
    BY <1>2 DEF LaneSums
  <2>2. Kept(Overlap!Saturated(g[k] + b[k]), Append(Coming(F, k, st, size), g[k]))
    BY <1>4, <2>1, KeptAdds
  <2>3. k \in 0..(size - 1)
    BY <1>2
  <2>4. Column(Append(F, g), Len(F), k, st, size) = Append(Coming(F, k, st, size), g[k])
    BY <1>1, <1>4, <2>3, ColumnGrows, SMTT(60)
  <2>5. sum[k] = Overlap!Saturated(g[k] + b[k])
    BY <1>7 DEF Overlap!Added
  <2> QED
    BY <1>5, <2>2, <2>4, <2>5
<1>9. ASSUME NEW k \in Overlap!Places
      PROVE  Kept(Overlap!Shifted(sum)[k], Coming(G, k, st, size))
  <2>1. Overlap!Shifted(sum)[k] = IF k + st < size THEN sum[k + st] ELSE 0
    BY <1>2 DEF Overlap!Shifted
  <2>2. CASE k + st < size
    <3>1. k + st \in Overlap!Places /\ ~(k + st >= size)
      BY <1>1, <1>2, <2>2
    <3>2. n + 1 # 0 /\ n + 1 - 1 = n
      BY <1>5
    <3>3. Coming(G, k, st, size) = Column(G, n, k + st, st, size)
      BY <1>6, <3>1, <3>2 DEF Coming
    <3> QED
      BY <1>8, <2>1, <2>2, <3>1, <3>3
  <2>3. CASE ~(k + st < size)
    <3>1. k + st >= size
      BY <1>1, <1>2, <2>3
    <3> QED
      BY <2>1, <2>3, <3>1, KeptNone DEF Coming
  <2> QED
    BY <2>2, <2>3
<1>10. LaneSums(Overlap!Shifted(sum), G)
  BY <1>2, <1>9 DEF LaneSums
<1> QED
  BY <1>2, <1>3, <1>4, <1>5, <1>6, <1>7, <1>8, <1>10

\* The loops go on: what is done when lane v5 has added one more frame.
LEMMA DoneAdvances ==
  ASSUME OverlapTypes, v1 = "eval", Overlap!Advance, UNCHANGED v2,
         NEW i \in Overlap!Lanes, v1' = "idle" => v9'[i] # << >>
  PROVE  Done(i)' = IF i = v5 THEN Done(i) + 1 ELSE Done(i)
<1>1. PICK size, st, nf, od \in Nat \ {0} : IsAdder(v2, size, st, nf, od)
  BY AdderNumbers DEF OverlapTypes
<1>2. /\ v2.n_frames = nf /\ v2.outer_dims = od /\ v2.n_frames' = nf
      /\ nf \in Nat \ {0} /\ od \in Nat \ {0}
  BY <1>1 DEF IsAdder
<1>3. PICK l \in 0..(od - 1), f \in 0..(nf - 1), j \in 0..(od - 1) : l = v5 /\ f = v6 /\ j = i
  BY <1>2 DEF OverlapTypes, Overlap!Lanes, Overlap!Frames
<1>4. l \in 0..(od - 1) /\ f \in 0..(nf - 1) /\ j \in 0..(od - 1)
  BY <1>3
<1>5. Done(i) = IF j < l THEN nf ELSE IF j = l THEN f ELSE 0
  BY <1>2, <1>3 DEF Done
<1>6. PICK n \in Nat : n = IF j < l THEN nf ELSE IF j = l THEN f + 1 ELSE 0
  BY <1>2, <1>4
<1>7. SUFFICES Done(i)' = n
  <2>1. j = l => ~(j < l)
    BY <1>4
  <2> QED
    BY <1>3, <1>5, <1>6, <2>1
<1>8. CASE f + 1 < nf
  <2>1. v6' = f + 1 /\ v1' = "eval" /\ v5' = l
    BY <1>2, <1>3, <1>8 DEF Overlap!Advance
  <2>2. Done(i)' = IF j < l THEN nf ELSE IF j = l THEN f + 1 ELSE 0
    BY <1>2, <1>3, <2>1 DEF Done
  <2> QED
    BY <1>6, <2>2
<1>9. CASE ~(f + 1 < nf) /\ l + 1 < od
  <2>1. v6' = 0 /\ v1' = "eval" /\ v5' = l + 1
    BY <1>2, <1>3, <1>9 DEF Overlap!Advance
  <2>2. Done(i)' = IF j < l + 1 THEN nf ELSE IF j = l + 1 THEN 0 ELSE 0
    BY <1>2, <1>3, <2>1 DEF Done
  <2>3. n = IF j < l + 1 THEN nf ELSE IF j = l + 1 THEN 0 ELSE 0
    BY <1>2, <1>4, <1>6, <1>9
  <2> QED
    BY <2>2, <2>3
<1>10. CASE ~(f + 1 < nf) /\ ~(l + 1 < od)
  <2>1. v1' = "idle"
    BY <1>2, <1>3, <1>10 DEF Overlap!Advance
  <2>2. Done(i)' = nf
    BY <1>2, <2>1 DEF Done
  <2>3. n = nf
    BY <1>2, <1>4, <1>6, <1>10
  <2> QED
    BY <2>2, <2>3
<1> QED
  BY <1>8, <1>9, <1>10

\* A turn of the loops: the lane of this turn has one more frame, the others stay.
LEMMA OverlapSteps == OverlapIInv /\ Overlap!Step => OverlapIInv'
<1> SUFFICES ASSUME OverlapIInv, Overlap!Step PROVE OverlapIInv'
  OBVIOUS
<1>1. OverlapTypes
  BY DEF OverlapIInv
<1>2. PICK size, st, nf, od \in Nat \ {0} : IsAdder(v2, size, st, nf, od)
  BY <1>1, AdderNumbers DEF OverlapTypes
<1>3. /\ v2.frame_size = size /\ v2.frame_step = st /\ v2.n_frames = nf /\ v2.outer_dims = od
      /\ st <= size
      /\ size \in Nat \ {0} /\ st \in Nat \ {0} /\ nf \in Nat \ {0} /\ od \in Nat \ {0}
      /\ Overlap!Lanes = 0..(od - 1) /\ Overlap!Frames = 0..(nf - 1)
      /\ Overlap!Places = 0..(size - 1) /\ Overlap!Steps = 0..(st - 1)
  BY <1>2 DEF IsAdder, Overlap!Lanes, Overlap!Frames, Overlap!Places, Overlap!Steps
<1>4. PICK F, g, sum : /\ F = v9[v5] /\ g = v4[v5][v6]
                       /\ sum = Overlap!Added(v3[v5], g)
  OBVIOUS
<1>5. /\ v1 = "eval"
      /\ v7' = [v7 EXCEPT ![v5][v6] = [k \in Overlap!Steps |-> sum[k]]]
      /\ v3' = [v3 EXCEPT ![v5] = Overlap!Shifted(sum)]
      /\ v9' = [v9 EXCEPT ![v5] = Append(F, g)]
      /\ Overlap!Advance
      /\ UNCHANGED <<v2, v4>>
  BY <1>3, <1>4 DEF Overlap!Step
<1>6. v5 \in Overlap!Lanes /\ v6 \in Overlap!Frames
  BY <1>1 DEF OverlapTypes
<1>7. g \in [Overlap!Places -> AdderInputs] /\ F \in Seq([Overlap!Places -> Int])
  BY <1>1, <1>4, <1>5, <1>6 DEF OverlapTypes
<1>8. PICK n \in Nat, G \in {Append(F, g)} : n = Len(F) /\ G = Append(F, g)
  <2>1. Len(F) \in Nat
    BY <1>7
  <2> QED
    BY <2>1
<1>9. /\ g \in [Overlap!Places -> Int] /\ G \in Seq([Overlap!Places -> Int])
      /\ Len(G) = n + 1
      /\ \A k \in Overlap!Places : Kept(sum[k], Column(G, n, k, st, size))
      /\ LaneSums(Overlap!Shifted(sum), G)
  <2>1. LaneSums(v3[v5], F)
    BY <1>4, <1>6 DEF OverlapIInv
  <2>2. /\ g \in [Overlap!Places -> Int] /\ Append(F, g) \in Seq([Overlap!Places -> Int])
        /\ Len(Append(F, g)) = Len(F) + 1
        /\ \A k \in Overlap!Places :
             Kept(Overlap!Added(v3[v5], g)[k],
                  Column(Append(F, g), Len(F), k, v2.frame_step, v2.frame_size))
        /\ LaneSums(Overlap!Shifted(Overlap!Added(v3[v5], g)), Append(F, g))
    BY <1>1, <1>7, <2>1, OverlapBody
  <2> QED
    BY <1>3, <1>4, <1>8, <2>2
<1>10. Overlap!Steps \subseteq Overlap!Places
  BY <1>3
<1>11. /\ Overlap!Lanes' = Overlap!Lanes /\ Overlap!Frames' = Overlap!Frames
       /\ Overlap!Places' = Overlap!Places /\ Overlap!Steps' = Overlap!Steps
  BY <1>5 DEF Overlap!Lanes, Overlap!Frames, Overlap!Places, Overlap!Steps
<1>12. /\ DOMAIN v3 = Overlap!Lanes /\ DOMAIN v9 = Overlap!Lanes
       /\ v9' = [v9 EXCEPT ![v5] = G]
       /\ v7 \in [Overlap!Lanes -> [Overlap!Frames -> [Overlap!Steps -> INT16_MIN..INT16_MAX]]]
  BY <1>1, <1>5, <1>8 DEF OverlapTypes
<1>13. G # << >>
  BY <1>8, <1>9
<1>14. PICK l \in 0..(od - 1), f \in 0..(nf - 1) : l = v5 /\ f = v6
  BY <1>3, <1>6
<1>15. ASSUME NEW i \in Overlap!Lanes PROVE v1' = "idle" => v9'[i] # << >>
  <2> SUFFICES ASSUME v1' = "idle" PROVE v9'[i] # << >>
    OBVIOUS
  <2>1. CASE i = v5
    BY <1>12, <1>13, <2>1
  <2>2. CASE i # v5
    <3>1. ~(f + 1 < nf) /\ ~(l + 1 < od)
      BY <1>3, <1>5, <1>14 DEF Overlap!Advance
    <3>2. i < v5
      <4>1. PICK j \in 0..(od - 1) : j = i
        BY <1>3
      <4>2. j < l
        BY <1>14, <2>2, <3>1, <4>1
      <4> QED
        BY <1>14, <4>1, <4>2
    <3>3. Done(i) = nf
      BY <1>3, <1>5, <3>2 DEF Done
    <3>4. Len(v9[i]) >= nf /\ v9[i] \in Seq([Overlap!Places -> Int])
      BY <1>1, <3>3 DEF OverlapIInv, OverlapTypes, LaneOutput
    <3>5. v9[i] # << >>
      BY <1>3, <3>4
    <3> QED
      BY <1>12, <2>2, <3>5
  <2> QED
    BY <2>1, <2>2
<1>16. ASSUME NEW i \in Overlap!Lanes
       PROVE  Done(i)' = IF i = v5 THEN Done(i) + 1 ELSE Done(i)
  BY <1>1, <1>5, <1>15, DoneAdvances
<1>17. OverlapTypes'
  <2>1. [k \in Overlap!Steps |-> sum[k]] \in [Overlap!Steps -> INT16_MIN..INT16_MAX]
    BY <1>9, <1>10 DEF Kept
  <2>2. v7' \in [Overlap!Lanes -> [Overlap!Frames -> [Overlap!Steps -> INT16_MIN..INT16_MAX]]]
    BY <1>5, <1>6, <1>12, <2>1
  <2>3. Overlap!Shifted(sum) \in [Overlap!Places -> INT16_MIN..INT16_MAX]
    <3>1. Overlap!Shifted(sum) = [k \in Overlap!Places |-> Overlap!Shifted(sum)[k]]
      BY DEF Overlap!Shifted
    <3>2. \A k \in Overlap!Places : Overlap!Shifted(sum)[k] \in INT16_MIN..INT16_MAX
      BY <1>9 DEF LaneSums, Kept
    <3> QED
      BY <3>1, <3>2
  <2>4. /\ v1' \in {"idle", "eval"} /\ v5' \in Overlap!Lanes /\ v6' \in Overlap!Frames
        /\ v1' = "idle" => v5' = 0 /\ v6' = 0
    <3>1. \/ f + 1 < nf /\ v6' = f + 1 /\ v5' = l /\ v1' = "eval"
          \/ ~(f + 1 < nf) /\ l + 1 < od /\ v6' = 0 /\ v5' = l + 1 /\ v1' = "eval"
          \/ ~(f + 1 < nf) /\ ~(l + 1 < od) /\ v6' = 0 /\ v5' = 0 /\ v1' = "idle"
      BY <1>3, <1>5, <1>14 DEF Overlap!Advance
    <3>2. /\ f + 1 < nf => f + 1 \in 0..(nf - 1)
          /\ l + 1 < od => l + 1 \in 0..(od - 1)
          /\ 0 \in 0..(od - 1) /\ 0 \in 0..(nf - 1)
      BY <1>3, <1>14
    <3> QED
      BY <1>3, <1>14, <3>1, <3>2
  <2>5. v3' \in [Overlap!Lanes -> [Overlap!Places -> INT16_MIN..INT16_MAX]]
    BY <1>1, <1>5, <1>6, <2>3 DEF OverlapTypes
  <2>6. /\ DOMAIN v9' = Overlap!Lanes
        /\ \A i \in Overlap!Lanes : v9'[i] \in Seq([Overlap!Places -> Int])
    BY <1>1, <1>9, <1>12 DEF OverlapTypes
  <2> QED
    BY <1>1, <1>5, <1>11, <2>2, <2>4, <2>5, <2>6 DEF OverlapTypes
<1>18. ASSUME NEW i \in Overlap!Lanes, i # v5
       PROVE  (LaneSums(v3[i], v9[i]) /\ LaneOutput(v7[i], v9[i], Done(i)))'
  <2>1. LaneSums(v3[i], v9[i]) /\ LaneOutput(v7[i], v9[i], Done(i))
    BY DEF OverlapIInv
  <2>2. v3'[i] = v3[i] /\ v9'[i] = v9[i] /\ v7'[i] = v7[i] /\ Done(i)' = Done(i)
    BY <1>5, <1>12, <1>16, <1>18
  <2> QED
    BY <1>5, <1>11, <2>1, <2>2 DEF LaneSums, LaneOutput
<1>19. ASSUME NEW i \in Overlap!Lanes, i = v5
       PROVE  (LaneSums(v3[i], v9[i]) /\ LaneOutput(v7[i], v9[i], Done(i)))'
  <2>1. v3'[i] = Overlap!Shifted(sum) /\ v9'[i] = G
    BY <1>5, <1>12, <1>19
  <2>2. LaneSums(v3[i], v9[i])'
    BY <1>5, <1>9, <1>11, <2>1 DEF LaneSums
  <2>3. Done(i) = f /\ Done(i)' = f + 1
    <3>1. ~(i < v5)
      BY <1>3, <1>14, <1>19
    <3>2. Done(i) = f
      BY <1>5, <1>14, <1>19, <3>1 DEF Done
    <3> QED
      BY <1>16, <1>19, <3>2
  <2>4. /\ n >= f
        /\ \A h \in Overlap!Frames, k \in Overlap!Steps :
             h < f => Kept(v7[i][h][k], Column(F, n - f + h, k, st, size))
    BY <1>3, <1>4, <1>8, <1>19, <2>3 DEF OverlapIInv, LaneOutput
  <2>5. ASSUME NEW h \in Overlap!Frames, NEW k \in Overlap!Steps, h < f + 1
        PROVE  Kept(v7'[i][h][k], Column(G, n + 1 - (f + 1) + h, k, st, size))
    <3>1. n + 1 - (f + 1) + h = n - f + h /\ h \in Nat
      BY <1>3, <1>8, <1>14
    <3>2. CASE h = f
      <4>1. n - f + h = n
        BY <1>8, <1>14, <3>2
      <4>2. v7'[i][h][k] = sum[k]
        BY <1>5, <1>6, <1>12, <1>14, <1>19, <3>2
      <4>3. k \in Overlap!Places
        BY <1>10
      <4> QED
        BY <1>9, <3>1, <4>1, <4>2, <4>3
    <3>3. CASE h # f
      <4>1. PICK m \in Nat : m = n - f + h
        BY <1>8, <1>14, <2>4, <3>1
      <4>2. h < f /\ m < Len(F)
        BY <1>8, <1>14, <2>5, <3>1, <3>3, <4>1
      <4>3. v7'[i][h][k] = v7[i][h][k]
        BY <1>5, <1>6, <1>12, <1>14, <1>19, <3>3
      <4>4. Kept(v7[i][h][k], Column(F, m, k, st, size))
        BY <2>4, <4>1, <4>2
      <4>5. k \in 0..(size - 1)
        BY <1>3, <1>10
      <4>6. Column(Append(F, g), m, k, st, size) = Column(F, m, k, st, size)
        <5>1. PICK T : T = [Overlap!Places -> Int]
          OBVIOUS
        <5>2. F \in Seq(T) /\ g \in T
          BY <1>7, <1>9, <5>1
        <5> QED
          BY <1>3, <4>1, <4>2, <4>5, <5>2, ColumnStays
      <4> QED
        BY <1>8, <3>1, <4>1, <4>3, <4>4, <4>6
    <3> QED
      BY <3>2, <3>3
  <2>6. n + 1 >= f + 1
    BY <1>8, <1>14, <2>4
  <2>7. LaneOutput(v7[i], v9[i], Done(i))'
    <3>1. Len(v9'[i]) >= Done(i)'
      BY <1>9, <2>1, <2>3, <2>6
    <3>2. ASSUME NEW h \in Overlap!Frames, NEW k \in Overlap!Steps, h < Done(i)'
          PROVE  Kept(v7'[i][h][k], Column(v9'[i], Len(v9'[i]) - Done(i)' + h, k,
                                           v2'.frame_step, v2'.frame_size))
      <4>1. h < f + 1
        BY <2>3, <3>2
      <4>2. Kept(v7'[i][h][k], Column(G, n + 1 - (f + 1) + h, k, st, size))
        BY <2>5, <4>1
      <4>3. v2'.frame_step = st /\ v2'.frame_size = size
        BY <1>3, <1>5
      <4> QED
        BY <1>9, <2>1, <2>3, <4>2, <4>3
    <3> QED
      BY <1>11, <3>1, <3>2 DEF LaneOutput
  <2> QED
    BY <2>2, <2>7
<1> QED
  BY <1>11, <1>17, <1>18, <1>19 DEF OverlapIInv

\* The output of the kernel, in its invariant.
LEMMA OverlapRight ==
  OverlapIInv => /\ Overlap!TypeOK /\ Overlap!StaysInside
                 /\ Overlap!SumsRight /\ Overlap!SaturatesRight
<1> SUFFICES ASSUME OverlapIInv
             PROVE  /\ Overlap!TypeOK /\ Overlap!StaysInside
                    /\ Overlap!SumsRight /\ Overlap!SaturatesRight
  OBVIOUS
<1>1. OverlapTypes
  BY DEF OverlapIInv
<1>2. Overlap!TypeOK
  BY <1>1 DEF Overlap!TypeOK, OverlapTypes
<1>3. Overlap!StaysInside
  BY <1>1 DEF Overlap!StaysInside, OverlapTypes
<1>4. ASSUME NEW o \in Overlap!Outputs
      PROVE  Kept(v7[o[1]][o[2]][o[3]], Overlap!Aligned(o[1], Overlap!StepOf(o[1], o[2]), o[3]))
  <2>1. PICK i \in Overlap!Lanes, f \in Overlap!Frames, k \in Overlap!Steps :
          o = <<i, f, k>> /\ v1 = "idle" /\ v9[i] # << >>
    BY DEF Overlap!Outputs
  <2>2. Done(i) = v2.n_frames /\ f < v2.n_frames
    <3>1. PICK size, st, nf, od \in Nat \ {0} : IsAdder(v2, size, st, nf, od)
      BY <1>1, AdderNumbers DEF OverlapTypes
    <3>2. f \in 0..(nf - 1) /\ v2.n_frames = nf
      BY <3>1 DEF IsAdder, Overlap!Frames
    <3>3. f < nf
      BY <3>1, <3>2
    <3> QED
      BY <2>1, <3>2, <3>3 DEF Done
  <2>3. Kept(v7[i][f][k],
             Column(v9[i], Len(v9[i]) - v2.n_frames + f, k, v2.frame_step, v2.frame_size))
    BY <2>1, <2>2 DEF OverlapIInv, LaneOutput
  <2> QED
    BY <2>1, <2>3, AlignedIs DEF Overlap!StepOf
<1>5. Overlap!SumsRight
  BY <1>4 DEF Overlap!SumsRight, Kept
<1>6. Overlap!SaturatesRight
  <2>1. ASSUME NEW s, s \in Seq(Int) PROVE DOMAIN s = 1..Len(s)
    BY <2>1
  <2> QED
    BY <1>4, <2>1 DEF Overlap!SaturatesRight, Kept
<1> QED
  BY <1>2, <1>3, <1>5, <1>6

-----------------------------------------------------------------------------
(* All parts. *)

\* A step that changes nothing, in each part.
LEMMA FramerStays ==
  ASSUME UNCHANGED from1, FramerIInv
  PROVE  FramerIInv'
<1>1. UNCHANGED <<v1, v2, v3, v4, v5, v6, v7, v8, v9, v10>>
  BY DEF from1, from9
<1>2. Frame!Lanes' = Frame!Lanes /\ Frame!Frames' = Frame!Frames
  BY <1>1 DEF Frame!Lanes, Frame!Frames
<1>3. \A i : SignalOf(i)' = SignalOf(i)
  BY <1>1 DEF SignalOf, Frame!Signal, Frame!Prefix, Frame!Sample
<1>4. \A i, n : FrameNo(i, n)' = FrameNo(i, n)
  BY <1>1, <1>3 DEF FrameNo
<1>5. \A i, T : StepsOf(i, T)' = StepsOf(i, T)
  BY <1>1 DEF StepsOf
<1>6. \A i, steps : Held(i, steps)' = Held(i, steps)
  BY <1>1, <1>3 DEF Held
<1>7. \A T : FramesRead(T)' = FramesRead(T)
  BY <1>1, <1>2, <1>4 DEF FramesRead
<1>8. \A T : FramerAt(T)' = FramerAt(T)
  <2> TAKE T
  <2>1. \A i : Held(i, StepsOf(i, T))' = Held(i, StepsOf(i, T))
    BY <1>5, <1>6
  <2> QED
    BY <1>1, <1>2, <1>7, <2>1 DEF FramerAt
<1>9. FramerTypes'
  BY <1>1, <1>2 DEF FramerIInv, FramerTypes
<1> QED
  BY <1>8, <1>9 DEF FramerIInv

LEMMA StackerStays ==
  ASSUME UNCHANGED from1, StackerIInv
  PROVE  StackerIInv'
<1>1. UNCHANGED <<v1, v2, v3, v4, v5, v6, v7, v8>>
  BY DEF from1
<1>2. FramesSince' = FramesSince
  BY <1>1 DEF FramesSince, Stack!FrameAt, Stack!Value
<1>3. \A n, s : StackerAt(n, s)' = StackerAt(n, s)
  BY <1>1, <1>2 DEF StackerAt, StackRead
<1>4. StackerTypes'
  BY <1>1 DEF StackerIInv, StackerTypes
<1> QED
  BY <1>3, <1>4 DEF StackerIInv

LEMMA OverlapStays ==
  ASSUME UNCHANGED from1, OverlapIInv
  PROVE  OverlapIInv'
<1>1. UNCHANGED <<v1, v2, v3, v4, v5, v6, v7, v8, v9>>
  BY DEF from1, from9
<1>2. /\ Overlap!Lanes' = Overlap!Lanes /\ Overlap!Frames' = Overlap!Frames
      /\ Overlap!Places' = Overlap!Places /\ Overlap!Steps' = Overlap!Steps
  BY <1>1 DEF Overlap!Lanes, Overlap!Frames, Overlap!Places, Overlap!Steps
<1>3. \A i : Done(i)' = Done(i)
  BY <1>1 DEF Done
<1>4. ASSUME NEW i \in Overlap!Lanes
      PROVE  (LaneSums(v3[i], v9[i]) /\ LaneOutput(v7[i], v9[i], Done(i)))'
  <2>1. LaneSums(v3[i], v9[i]) /\ LaneOutput(v7[i], v9[i], Done(i))
    BY DEF OverlapIInv
  <2> QED
    BY <1>1, <1>2, <1>3, <2>1 DEF LaneSums, LaneOutput
<1>5. OverlapTypes'
  BY <1>1, <1>2 DEF OverlapIInv, OverlapTypes
<1> QED
  BY <1>2, <1>4, <1>5 DEF OverlapIInv

\* The invariant of the part that a behaviour is of.
StreamIInv ==
  /\ part = "ring" => IInv
  /\ part = "framer" => FramerIInv
  /\ part = "stacker" => StackerIInv
  /\ part = "overlap" => OverlapIInv

\* Each part starts in its invariant.
LEMMA StreamStarts == ASSUME Misuses = {} PROVE SignalInit => StreamIInv
  BY InitInv, FramerStarts, StackerStarts, OverlapStarts DEF SignalInit, StreamIInv

\* And each step of a part keeps it.
LEMMA StreamSteps ==
  ASSUME Misuses = {}, StreamIInv, [SignalNext]_<<part, vars, from1>>
  PROVE  StreamIInv'
<1>1. part' = part
  BY DEF SignalNext
<1>2. ASSUME part = "ring" PROVE IInv'
  <2>1. IInv /\ [Next]_vars
    BY <1>2 DEF StreamIInv, SignalNext
  <2> QED
    BY <2>1, NextStep
<1>3. ASSUME part = "framer" PROVE FramerIInv'
  <2>1. FramerIInv
    BY <1>3 DEF StreamIInv
  <2>2. Frame!Next \/ UNCHANGED from1
    BY <1>3 DEF SignalNext
  <2> QED
    BY <2>1, <2>2, FramerInvokes, FramerSteps, FramerResets, FramerStays DEF Frame!Next
<1>4. ASSUME part = "stacker" PROVE StackerIInv'
  <2>1. StackerIInv
    BY <1>4 DEF StreamIInv
  <2>2. Stack!Next \/ UNCHANGED from1
    BY <1>4 DEF SignalNext
  <2> QED
    BY <2>1, <2>2, StackerSteps, StackerResets, StackerStays DEF Stack!Next
<1>5. ASSUME part = "overlap" PROVE OverlapIInv'
  <2>1. OverlapIInv
    BY <1>5 DEF StreamIInv
  <2>2. Overlap!Next \/ UNCHANGED from1
    BY <1>5 DEF SignalNext
  <2> QED
    BY <2>1, <2>2, OverlapInvokes, OverlapSteps, OverlapResets, OverlapStays
       DEF Overlap!Next
<1> QED
  BY <1>1, <1>2, <1>3, <1>4, <1>5 DEF StreamIInv

THEOREM StreamsStayRight ==
  ASSUME Misuses = {}
  PROVE  SignalSpec => []StreamsRight
<1>1. SignalInit => StreamIInv
  BY StreamStarts
<1>2. StreamIInv /\ [SignalNext]_<<part, vars, from1>> => StreamIInv'
  BY StreamSteps
<1>3. StreamIInv => StreamsRight
  BY RingRight, FramerRight, StackerRight, OverlapRight DEF StreamIInv, StreamsRight
<1> QED
  BY <1>1, <1>2, <1>3, PTL DEF SignalSpec
=============================================================================
