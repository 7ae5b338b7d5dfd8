----------------------------- MODULE MemoryPlan -----------------------------
(***************************************************************************)
(* What MicroMemoryPlanner promises its client: buffers are added one by    *)
(* one, and when the client asks for offsets it gets a layout in which two  *)
(* buffers that are in use at the same time share no byte.  A buffer with   *)
(* an offline offset sits exactly there, and two offline buffers may        *)
(* overlap, because the offline planner is trusted to know better.          *)
(***************************************************************************)
EXTENDS Integers, Sequences

CONSTANT Requirements   \* the buffers a client may ask for: records of size,
                        \* first_time_used, last_time_used and offline_offset

kOnlinePlannedBuffer == -1

VARIABLES
  buffers,   \* the buffers added, in order
  plan       \* their offsets, or NoPlan while they are not known

planVars == <<buffers, plan>>

\* No buffer is ever given the offset -1.
NoPlan == <<kOnlinePlannedBuffer>>

Online(b) == b.offline_offset = kOnlinePlannedBuffer

InUseTogether(b, c) ==
  b.first_time_used <= c.last_time_used /\ c.first_time_used <= b.last_time_used

\* A layout p of the buffers bs that keeps the promise.
Sound(bs, p) ==
  /\ p \in [1 .. Len(bs) -> Nat]
  /\ \A i \in 1 .. Len(bs) : Online(bs[i]) \/ p[i] = bs[i].offline_offset
  /\ \A i, j \in 1 .. Len(bs) :
       /\ i # j
       /\ InUseTogether(bs[i], bs[j])
       /\ Online(bs[i]) \/ Online(bs[j])
       => p[i] + bs[i].size <= p[j] \/ p[j] + bs[j].size <= p[i]

Init == buffers = <<>> /\ plan = NoPlan

Start == buffers' = <<>> /\ plan' = NoPlan

Add ==
  /\ \E b \in Requirements : buffers' = Append(buffers, b)
  /\ plan' = NoPlan \/ Sound(buffers', plan')

Settle ==
  /\ plan = NoPlan
  /\ Sound(buffers, plan')
  /\ UNCHANGED buffers

Next == Start \/ Add \/ Settle

Spec == Init /\ [][Next]_planVars
=============================================================================
