-------------------------------- MODULE OverlapAdd --------------------------------
(***************************************************************************)
(* The overlap-add kernel for int16, signal/src/overlap_add.cc and             *)
(* signal/micro/kernels/overlap_add.cc: frames of frame_size samples that are   *)
(* frame_step apart are added where they overlap.  The sums are kept in a       *)
(* buffer from one invocation to the next, and saturate.                       *)
(***************************************************************************)
EXTENDS Integers, Sequences, FiniteSets

CONSTANTS
  Configs,           \* kernels that are prepared
  Inputs,            \* samples of a frame
  INT16_MIN, INT16_MAX,
  MaxCalls           \* invocations of the kernel

\* The attribute of the operator, and the shape of its input.
Config == [frame_size : Nat \ {0}, frame_step : Nat \ {0}, n_frames : Nat \ {0},
           outer_dims : Nat \ {0}]

VARIABLES
  pc,                \* "idle", "eval", or "corrupt" after writing out of bounds
  params,            \* TFLMSignalOverlapAddParams
  state_buffers,     \* by lane, from 0
  input,             \* the frames of this invocation, by lane
  lane, frame,       \* the loops of OverlapAddEval
  output,            \* the tensor, by lane and frame
  calls,             \* counts invocations
  frames             \* history: the frames each lane has added since the reset

vars == <<pc, params, state_buffers, input, lane, frame, output, calls, frames>>

Lanes == 0..(params.outer_dims - 1)
Frames == 0..(params.n_frames - 1)
Places == 0..(params.frame_size - 1)
Steps == 0..(params.frame_step - 1)
Silent == [i \in Lanes |-> [k \in Places |-> 0]]

Saturated(x) == IF x < INT16_MIN THEN INT16_MIN ELSE IF x > INT16_MAX THEN INT16_MAX ELSE x

\* OverlapAddInit and OverlapAddPrepare.
Init ==
  /\ params \in Configs
  /\ pc = "idle"
  /\ state_buffers = Silent
  /\ input = << >>
  /\ lane = 0 /\ frame = 0
  /\ output = [i \in Lanes |-> [f \in Frames |-> [k \in Steps |-> 0]]]
  /\ calls = 0
  /\ frames = [i \in Lanes |-> << >>]

\* OverlapAddEval is called.
Invoke ==
  /\ pc = "idle" /\ calls < MaxCalls
  /\ input' \in [Lanes -> [Frames -> [Places -> Inputs]]]
  /\ pc' = "eval" /\ lane' = 0 /\ frame' = 0
  /\ calls' = calls + 1
  /\ UNCHANGED <<params, state_buffers, output, frames>>

Added(buffer, in) == [k \in Places |-> Saturated(in[k] + buffer[k])]

\* The memmove and the memset at the end of OverlapAdd.
Shifted(buffer) ==
  [k \in Places |-> IF k + params.frame_step < params.frame_size
                     THEN buffer[k + params.frame_step] ELSE 0]

\* The loops go on to the next frame, the next lane or to their end.
Advance ==
  IF frame + 1 < params.n_frames THEN frame' = frame + 1 /\ UNCHANGED <<pc, lane>>
  ELSE IF lane + 1 < params.outer_dims
  THEN lane' = lane + 1 /\ frame' = 0 /\ UNCHANGED pc
  ELSE pc' = "idle" /\ lane' = 0 /\ frame' = 0

\* The loops' body, OverlapAdd.  With a step longer than the frame it reads past
\* the buffer, and moves a negative number of bytes.
Step ==
  LET sum == Added(state_buffers[lane], input[lane][frame])
  IN /\ pc = "eval"
     /\ IF params.frame_step <= params.frame_size
        THEN /\ output' = [output EXCEPT ![lane][frame] = [k \in Steps |-> sum[k]]]
             /\ state_buffers' = [state_buffers EXCEPT ![lane] = Shifted(sum)]
             /\ frames' = [frames EXCEPT ![lane] = Append(@, input[lane][frame])]
             /\ Advance
        ELSE /\ pc' = "corrupt"
             /\ UNCHANGED <<state_buffers, lane, frame, output, frames>>
     /\ UNCHANGED <<params, input, calls>>

ResetBuffers == Silent

\* OverlapAddReset, called by MicroInterpreter::Reset between invocations.
CallReset ==
  /\ pc = "idle"
  /\ state_buffers' = ResetBuffers
  /\ frames' = [i \in Lanes |-> << >>]
  /\ UNCHANGED <<pc, params, input, lane, frame, output, calls>>

Next == Invoke \/ Step \/ CallReset

Spec == Init /\ [][Next]_vars

(***************************************************************************)
(* Properties.                                                              *)
(***************************************************************************)

TypeOK ==
  /\ pc \in {"idle", "eval", "corrupt"}
  /\ params \in Configs
  /\ state_buffers \in [Lanes -> [Places -> INT16_MIN..INT16_MAX]]
  /\ lane \in Lanes /\ frame \in Frames
  /\ output \in [Lanes -> [Frames -> [Steps -> INT16_MIN..INT16_MAX]]]

\* The samples of lane i aligned with sample k of step n (from 0) since the last
\* reset, in the order of their frames: sample k + d * step of the frame d before.
Aligned(i, n, k) ==
  LET deep == {d \in 0..n : k + d * params.frame_step < params.frame_size}
      first == n + 1 - Cardinality(deep)
  IN [j \in 1..Cardinality(deep) |->
        frames[i][first + j][k + (n - first - j + 1) * params.frame_step]]

\* The sums on the way, of the first 0 to all samples.
Sums(s) == LET to[j \in 0..Len(s)] == IF j = 0 THEN 0 ELSE to[j - 1] + s[j] IN to
Sum(s) == Sums(s)[Len(s)]

\* The number of the range that is nearest to x.
Nearest(x) == CHOOSE y \in INT16_MIN..INT16_MAX :
                \/ y = x
                \/ x > y /\ y = INT16_MAX
                \/ x < y /\ y = INT16_MIN

\* Whether all sums on the way are in range.
InRange(s) == \A j \in 1..Len(s) : Sums(s)[j] \in INT16_MIN..INT16_MAX

\* The output samples, once there are, and the step of a frame since the reset.
Outputs == {o \in Lanes \X Frames \X Steps : pc = "idle" /\ frames[o[1]] # << >>}
StepOf(i, f) == Len(frames[i]) - params.n_frames + f

\* An output sample is the sum of the samples since the last reset that are
\* aligned with it (overlap_add_op.cc, "add the samples that are aligned
\* vertically") as long as no sum on the way leaves the range; no other frame
\* or lane, and nothing from before the reset, is in it.
SumsRight ==
  \A o \in Outputs :
    LET s == Aligned(o[1], StepOf(o[1], o[2]), o[3])
    IN InRange(s) => output[o[1]][o[2]][o[3]] = Sum(s)

\* A sum of samples of one sign that leaves the range is the end of the range,
\* and does not wrap around to the other sign.
SaturatesRight ==
  \A o \in Outputs :
    LET s == Aligned(o[1], StepOf(o[1], o[2]), o[3])
    IN (\A j \in DOMAIN s : s[j] >= 0) \/ (\A j \in DOMAIN s : s[j] <= 0)
         => output[o[1]][o[2]][o[3]] = Nearest(Sum(s))

\* The kernel stays inside its buffers.
StaysInside == pc # "corrupt"
=============================================================================
