------------------------------- MODULE MCSignal -------------------------------
(***************************************************************************)
(* What carries a signal from one invocation to the next: the circular        *)
(* buffer under any sequence of calls, the two kernels built on it, the        *)
(* overlap-add kernel, and chains of CIRCULAR_BUFFER operators.  They share    *)
(* no memory, so a behaviour is one of one of them: `part` says of which.      *)
(* The variables of CircularBufferCalls belong to "ring"; the others use v1    *)
(* to v11, which are `none` where they have fewer.                            *)
(***************************************************************************)
EXTENDS CircularBufferCalls

CONSTANTS
  none,
  Chains,                   \* models, each a sequence of CIRCULAR_BUFFER operators
  MaxModels, MaxInvokes,    \* of a chain
  Framers, MaxSteps,        \* framer kernels, and steps between their resets
  Stackers, MaxFrames,      \* stacker kernels, and frames between their resets
  Adders, AdderInputs,      \* overlap-add kernels, the samples given to them,
  INT16_MIN, INT16_MAX,     \*   the range of their sums
  MaxCalls                  \*   and invocations

ASSUME ChainsAssumption ==
  Chains \subseteq Seq([slots : Nat \ {0}, wide : BOOLEAN, cycles : Nat]) \ {<< >>}
ASSUME BoundsAssumption ==
  /\ MaxModels \in Nat /\ MaxInvokes \in Nat
  /\ MaxSteps \in Nat /\ MaxFrames \in Nat /\ MaxCalls \in Nat

VARIABLES part, v1, v2, v3, v4, v5, v6, v7, v8, v9, v10, v11

from9 == <<v9, v10, v11>>
from10 == <<v10, v11>>
from1 == <<v1, v2, v3, v4, v5, v6, v7, v8, from9>>

Off10 == v10 = none /\ v11 = none
Off9 == v9 = none /\ Off10
Off1 == /\ v1 = none /\ v2 = none /\ v3 = none /\ v4 = none
        /\ v5 = none /\ v6 = none /\ v7 = none /\ v8 = none /\ Off9

Frame == INSTANCE Framer WITH
  Configs <- Framers,
  pc <- v1, params <- v2, circular_buffers <- v3, lane <- v4, frame <- v5, output <- v6,
  valid <- v7, fed <- v8, since <- v9, written <- v10

\* A prefill has a length: frame_size - frame_step is not negative.
ASSUME FramersAssumption ==
  \A p \in Framers : p \in Frame!Config /\ (p.prefill => p.frame_size >= p.frame_step)

Stack == INSTANCE Stacker WITH
  Configs <- Stackers,
  pc <- v1, params <- v2, circular_buffer <- v3, stacker_has_first_frame <- v4,
  output <- v5, valid <- v6, fed <- v7, since <- v8

\* A step does not leave a stack behind: it is not longer than what is read.
ASSUME StackersAssumption ==
  \A p \in Stackers :
    /\ p \in Stack!Config
    /\ p.stacker_step <= p.stacker_left_context + p.stacker_right_context + 1

Overlap == INSTANCE OverlapAdd WITH
  Configs <- Adders, Inputs <- AdderInputs,
  pc <- v1, params <- v2, state_buffers <- v3, input <- v4, lane <- v5, frame <- v6,
  output <- v7, calls <- v8, frames <- v9

\* A step does not leave a frame behind, as the kernel's buffers require.
ASSUME AddersAssumption ==
  /\ \A p \in Adders : p \in Overlap!Config /\ p.frame_step <= p.frame_size
  /\ INT16_MIN \in Int /\ INT16_MAX \in Int /\ INT16_MIN <= 0 /\ 0 <= INT16_MAX
  /\ AdderInputs \subseteq Int

\* Framers of up to two lanes and three frames per invocation.
SomeFramers ==
  {p \in [frame_size : 1..5, frame_step : 1..3, prefill : BOOLEAN,
          outer_dims : 1..2, n_frames : 1..3] : p.prefill => p.frame_size >= p.frame_step}

\* Stackers of up to two channels.
SomeStackers ==
  {p \in [num_channels : 1..2, stacker_left_context : 0..2,
          stacker_right_context : 0..2, stacker_step : 1..5] :
     p.stacker_step <= p.stacker_left_context + p.stacker_right_context + 1}

\* Overlap-add of samples of three bits, two or three frames deep.
Adder(size, step, n, dims) ==
  [frame_size |-> size, frame_step |-> step, n_frames |-> n, outer_dims |-> dims]
SomeAdders ==
  {Adder(1, 1, 2, 1), Adder(2, 1, 1, 2), Adder(2, 2, 1, 1),
   Adder(3, 1, 1, 1), Adder(3, 2, 1, 1), Adder(2, 1, 2, 1)}
SomeInputs == {-3, 2}
Lowest == -4

\* Chains of strides that the model file gives, of strides that the shape gives, and
\* of both; two models are prepared one after the other.
Layer(s, w, c) == [slots |-> s, wide |-> w, cycles |-> c]
SomeChains == {
  <<Layer(2, FALSE, 2), Layer(3, FALSE, 3)>>,
  <<Layer(4, FALSE, 0), Layer(2, FALSE, 0), Layer(5, FALSE, 0)>>,
  <<Layer(1, FALSE, 3), Layer(2, FALSE, 0), Layer(2, FALSE, 1)>>}

Chain == INSTANCE StreamingBuffer WITH
  Models <- Chains, Resets <- TRUE,
  pc <- v1, model <- v2, cb_prepare_count <- v3, cycles_max <- v4,
  cycles_until_run <- v5, output <- v6, op <- v7, now <- v8, zeroed <- v9,
  answer <- v10, models <- v11

SignalInit ==
  /\ Init
  /\ \/ part = "ring" /\ Off1
     \/ part = "framer" /\ Frame!Init /\ v11 = none
     \/ part = "stacker" /\ Stack!Init /\ Off9
     \/ part = "overlap" /\ Overlap!Init /\ Off10
     \/ part = "chain" /\ Chain!Init

SignalNext ==
  /\ \/ part = "ring" /\ Next /\ UNCHANGED from1
     \/ part = "framer" /\ Frame!Next /\ UNCHANGED <<vars, v11>>
     \/ part = "stacker" /\ Stack!Next /\ UNCHANGED <<vars, from9>>
     \/ part = "overlap" /\ Overlap!Next /\ UNCHANGED <<vars, from10>>
     \/ part = "chain" /\ Chain!Next /\ UNCHANGED vars
  /\ UNCHANGED part

SignalSpec == SignalInit /\ [][SignalNext]_<<part, vars, from1>>

\* The output of each kernel is what its operator promises of the signal since the
\* last reset, and of nothing older: overlapping frames one after the other, valid
\* from the first invocation on with a prefill (framer_op.cc); stacks of the current
\* frame and its neighbours, valid at every stacker_step-th frame and at no other
\* (stacker_op.cc); sums of the samples that are aligned, at the end of the range
\* where they leave it (overlap_add_op.cc).  None fails an assertion of its buffer.
\* The buffer's flag is set exactly when it is empty, and what is extended is what
\* was written last.
StreamsRight ==
  /\ part = "ring" => TypeOK /\ FlagRight /\ ExtendSource
  /\ part = "framer" => /\ Frame!TypeOK /\ Frame!NeverAborts
                        /\ Frame!FramesRight /\ Frame!PrefillGivesOutput
  /\ part = "stacker" => /\ Stack!TypeOK /\ Stack!NeverAborts
                         /\ Stack!StackRight /\ Stack!ValidEveryStep
  /\ part = "overlap" => /\ Overlap!TypeOK /\ Overlap!StaysInside
                         /\ Overlap!SumsRight /\ Overlap!SaturatesRight

\* Strides multiply: the model has a result exactly when the countdowns of all its
\* CIRCULAR_BUFFER operators end together, and each operator holds its last inputs
\* since the last reset, none missing, although most invocations end before it
\* (CircularBufferEval returns kTfLiteAbort).
ChainsRight ==
  part = "chain" => Chain!TypeOK /\ Chain!StridesMultiply /\ Chain!SlotsAreLastInputs
===============================================================================
