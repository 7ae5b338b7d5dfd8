---------------------------------- MODULE Framer ----------------------------------
(***************************************************************************)
(* The framer kernel, signal/micro/kernels/framer.cc: it cuts each lane (the   *)
(* outer dimensions) of a signal into overlapping frames of frame_size          *)
(* samples, frame_step apart, and keeps the rest of the signal in circular       *)
(* buffers from one invocation to the next.                                    *)
(*                                                                         *)
(* A sample is named by its number in its lane, counted since the kernel was    *)
(* prepared, and by its lane, so that no two samples are equal; 0 is silence.    *)
(***************************************************************************)
EXTENDS CircularBuffer, FiniteSets

CONSTANTS Configs, MaxSteps

\* What the model gives the kernel: the attributes of the operator and the shape
\* of its input, outer_dims by n_frames * frame_step.
Config == [frame_size : Nat \ {0}, frame_step : Nat \ {0}, prefill : BOOLEAN,
           outer_dims : Nat \ {0}, n_frames : Nat \ {0}]

VARIABLES
  pc,                \* "idle", "eval", or "aborted" by a failed assertion
  params,            \* TFLMSignalFramerParams
  circular_buffers,  \* by lane
  lane, frame,       \* the loops of FramerEval
  output, valid,     \* the tensors, output by lane and frame
  fed,               \* history: samples given to each lane
  since,             \* history: of those, the samples before the last reset
  written            \* history: frames written by this invocation

vars == <<pc, params, circular_buffers, lane, frame, output, valid, fed, since, written>>

Lanes == 0..(params.outer_dims - 1)
Frames == 0..(params.n_frames - 1)
Sample(i, n) == n * params.outer_dims + i + 1

\* The capacity computed in FramerPrepare.
CapacityFor(p) ==
  ((p.frame_size + p.frame_step - 1) \div p.frame_step) * p.frame_step

\* WriteZeros takes a size_t: a negative number becomes larger than any buffer.
PrefillAllowed(p) ==
  p.prefill => /\ p.frame_size >= p.frame_step
               /\ WriteAllowed(New(CapacityFor(p)), p.frame_size - p.frame_step)

\* A buffer after FramerResetState, whatever it was before.
Fresh(p) ==
  IF p.prefill THEN WriteZeros(New(CapacityFor(p)), p.frame_size - p.frame_step)
  ELSE New(CapacityFor(p))

\* FramerInit and FramerPrepare.
Init ==
  /\ params \in Configs
  /\ IF PrefillAllowed(params)
     THEN /\ pc = "idle"
          /\ circular_buffers = [i \in Lanes |-> Fresh(params)]
     ELSE /\ pc = "aborted"
          /\ circular_buffers = [i \in Lanes |-> New(CapacityFor(params))]
  /\ lane = 0 /\ frame = 0
  /\ output = [i \in Lanes |-> [f \in Frames |-> << >>]]
  /\ valid = FALSE
  /\ fed = 0 /\ since = 0 /\ written = 0

\* FramerEval is called with the next samples of each lane.
Invoke ==
  /\ pc = "idle" /\ fed - since < MaxSteps * params.frame_step
  /\ pc' = "eval"
  /\ valid' = TRUE
  /\ lane' = 0 /\ frame' = 0 /\ written' = 0
  /\ UNCHANGED <<params, circular_buffers, output, fed, since>>

\* The samples the loop's body reads from the input.
Input == [k \in 1..params.frame_step |->
            Sample(lane, fed + frame * params.frame_step + k)]

\* The loops go on to the next frame, the next lane or to their end.
Advance ==
  IF frame + 1 < params.n_frames
  THEN /\ frame' = frame + 1 /\ UNCHANGED <<pc, lane, fed>>
  ELSE IF lane + 1 < params.outer_dims
  THEN /\ lane' = lane + 1 /\ frame' = 0 /\ UNCHANGED <<pc, fed>>
  ELSE /\ pc' = "idle" /\ lane' = 0 /\ frame' = 0
       /\ fed' = fed + params.n_frames * params.frame_step

Enough(cb) == Available(cb) >= params.frame_size

\* Whether the calls of the loops' body satisfy the buffer's assertions.
StepAllowed ==
  LET cb == Write(circular_buffers[lane], Input)
  IN /\ WriteAllowed(circular_buffers[lane], params.frame_step)
     /\ Enough(cb) => /\ GetAllowed(cb, params.frame_size)
                      /\ DiscardAllowed(cb, params.frame_step)

\* The body of the loops: the step is written and a frame read, or not.
Frame ==
  LET cb == Write(circular_buffers[lane], Input)
  IN /\ IF Enough(cb)
        THEN /\ output' = [output EXCEPT ![lane][frame] = Get(cb, params.frame_size)]
             /\ circular_buffers' = [circular_buffers EXCEPT
                                       ![lane] = Discard(cb, params.frame_step)]
             /\ written' = written + 1
             /\ UNCHANGED valid
        ELSE /\ circular_buffers' = [circular_buffers EXCEPT ![lane] = cb]
             /\ valid' = FALSE
             /\ UNCHANGED <<output, written>>
     /\ Advance

Step ==
  /\ pc = "eval"
  /\ IF StepAllowed THEN Frame
     ELSE /\ pc' = "aborted"
          /\ UNCHANGED <<circular_buffers, lane, frame, output, valid, fed, written>>
  /\ UNCHANGED <<params, since>>

\* A bug: the lanes but the first are not reset.
BugResetBuffers == [circular_buffers EXCEPT ![0] = Fresh(params)]

ResetBuffers == [i \in Lanes |-> Fresh(params)]

\* FramerReset, called by MicroInterpreter::Reset between invocations.
CallReset ==
  /\ pc = "idle" /\ fed > since
  /\ fed <= 2 * MaxSteps * params.frame_step
  /\ circular_buffers' = ResetBuffers
  /\ since' = fed
  /\ UNCHANGED <<pc, params, lane, frame, output, valid, fed, written>>

Next == Invoke \/ Step \/ CallReset

Spec == Init /\ [][Next]_vars

(***************************************************************************)
(* Properties.                                                              *)
(***************************************************************************)

Prefix == IF params.prefill THEN params.frame_size - params.frame_step ELSE 0

\* Sample k of a lane's signal since the last reset, from 1, after the prefill.
Signal(i, k) == IF k <= Prefix THEN 0 ELSE Sample(i, since + k - Prefix)

\* Number of frames a lane has given since the last reset, from 0: those for
\* which the steps received so far were enough.
FramesOf(steps) ==
  Cardinality({s \in 1..steps : Prefix + s * params.frame_step >= params.frame_size})

TypeOK ==
  /\ pc \in {"idle", "eval", "aborted"}
  /\ params \in Configs
  /\ lane \in Lanes /\ frame \in Frames
  /\ valid \in BOOLEAN
  /\ DOMAIN output = Lanes /\ DOMAIN circular_buffers = Lanes
  /\ \A i \in Lanes : circular_buffers[i].capacity = CapacityFor(params)
  /\ since \in 0..fed /\ written \in 0..(params.outer_dims * params.n_frames)

\* A valid output holds frames of the signal since the last reset, one after
\* the other from frame to frame and from invocation to invocation, whatever was
\* in the buffers before the reset (framer_op.cc, "overlapping frames").
FramesRight ==
  pc = "idle" /\ valid /\ fed > since =>
    LET before == (fed - since) \div params.frame_step - params.n_frames
    IN \A i \in Lanes, f \in Frames :
         output[i][f] =
           [k \in 1..params.frame_size |->
              Signal(i, (FramesOf(before) + f) * params.frame_step + k)]

\* With a prefill, every output is valid (framer_op.cc, "Can be used to guarantee
\* a valid output starting with the first input").
PrefillGivesOutput == pc = "idle" /\ params.prefill /\ fed > since => valid

\* The kernel's calls satisfy the assertions of the circular buffer.
NeverAborts == pc # "aborted"

=============================================================================
