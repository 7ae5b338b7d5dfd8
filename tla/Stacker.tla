--------------------------------- MODULE Stacker ---------------------------------
(***************************************************************************)
(* The stacker kernel, signal/micro/kernels/stacker.cc: it stacks every        *)
(* stacker_step frames of num_channels values with the frames to their left     *)
(* and right, taking the first frame for those before it.                      *)
(*                                                                         *)
(* A value is named by the number of its frame, counted since the kernel was     *)
(* initialised, and by its channel; 0 is silence.                               *)
(***************************************************************************)
EXTENDS CircularBuffer

CONSTANTS Configs, MaxFrames

\* The attributes of the operator.
Config == [num_channels : Nat \ {0}, stacker_left_context : Nat,
           stacker_right_context : Nat, stacker_step : Nat \ {0}]

VARIABLES
  pc,                \* "idle", or "aborted" by a failed assertion
  params,            \* TFLMSignalStackerParams
  circular_buffer,
  stacker_has_first_frame,
  output, valid,     \* the tensors
  fed,               \* history: frames given
  since              \* history: of those, the frames before the last reset

vars == <<pc, params, circular_buffer, stacker_has_first_frame, output, valid, fed, since>>

Value(n, c) == n * params.num_channels + c

\* StackerInit.
Context(p) == p.stacker_left_context + p.stacker_right_context + 1
BufferSize(p) == p.num_channels * Context(p)
StepSize(p) == p.num_channels * p.stacker_step

Init ==
  /\ params \in Configs
  /\ pc = "idle"
  /\ circular_buffer = New(BufferSize(params))
  /\ stacker_has_first_frame = FALSE
  /\ output = [k \in 1..BufferSize(params) |-> 0] /\ valid = FALSE
  /\ fed = 0 /\ since = 0

Input == [c \in 1..params.num_channels |-> Value(fed, c)]

\* The first frame, once written, is repeated for the frames to its left.
Padded(cb) ==
  IF stacker_has_first_frame THEN cb
  ELSE Extend(cb, params.num_channels, params.stacker_left_context)
PaddingAllowed(cb) ==
  ~stacker_has_first_frame =>
    ExtendAllowed(cb, params.num_channels, params.stacker_left_context)

Enough(cb) == Available(cb) >= BufferSize(params)

\* Whether the calls of StackerEval satisfy the buffer's assertions.
EvalAllowed ==
  LET written == Write(circular_buffer, Input)
      padded == Padded(written)
  IN /\ WriteAllowed(circular_buffer, params.num_channels)
     /\ PaddingAllowed(written)
     /\ Enough(padded) => /\ GetAllowed(padded, BufferSize(params))
                          /\ DiscardAllowed(padded, StepSize(params))

\* StackerEval, called with the next frame.
Eval ==
  LET padded == Padded(Write(circular_buffer, Input))
  IN /\ pc = "idle" /\ fed - since < MaxFrames
     /\ fed' = fed + 1
     /\ IF EvalAllowed
        THEN /\ stacker_has_first_frame' = TRUE
             /\ IF Enough(padded)
                THEN /\ output' = Get(padded, BufferSize(params))
                     /\ circular_buffer' = Discard(padded, StepSize(params))
                     /\ valid' = TRUE
                ELSE /\ circular_buffer' = padded
                     /\ valid' = FALSE
                     /\ UNCHANGED output
             /\ UNCHANGED pc
        ELSE /\ pc' = "aborted"
             /\ UNCHANGED <<circular_buffer, stacker_has_first_frame, output, valid>>
     /\ UNCHANGED <<params, since>>

\* StackerReset, called by MicroInterpreter::Reset between invocations.
CallReset ==
  /\ pc = "idle" /\ fed > since /\ fed <= MaxFrames
  /\ circular_buffer' = Reset(circular_buffer)
  /\ stacker_has_first_frame' = FALSE
  /\ since' = fed
  /\ UNCHANGED <<pc, params, output, valid, fed>>

Next == Eval \/ CallReset

Spec == Init /\ [][Next]_vars

(***************************************************************************)
(* Properties.                                                              *)
(***************************************************************************)

\* Frame j since the last reset, from 0; the frames before it are frame 0.
FrameAt(j) == [c \in 1..params.num_channels |->
                 Value(since + (IF j < 0 THEN 0 ELSE j), c)]

\* Whether frame number n since the last reset, from 1, completes a stack: the
\* stack of current frame m has m + right_context + 1 frames.
Completes(n) ==
  LET current == n - params.stacker_right_context - 1
  IN current >= 0 /\ current % params.stacker_step = 0

TypeOK ==
  /\ pc \in {"idle", "aborted"}
  /\ params \in Configs
  /\ circular_buffer.capacity = BufferSize(params)
  /\ stacker_has_first_frame \in BOOLEAN /\ valid \in BOOLEAN
  /\ DOMAIN output = 1..BufferSize(params)
  /\ since \in 0..fed

\* A valid output is the current frame between its neighbours since the last
\* reset, frame 0 standing for those before it (stacker_op.cc, "consecutive
\* unstacked frames").
StackRight ==
  pc = "idle" /\ valid /\ fed > since =>
    LET current == fed - since - params.stacker_right_context - 1
    IN \A j \in 0..(Context(params) - 1), c \in 1..params.num_channels :
         output[j * params.num_channels + c]
           = FrameAt(current - params.stacker_left_context + j)[c]

\* "Once the stacker produces its first output frame, its output will be valid
\* every stacker_step input frames", and at no other (stacker_op.cc).
ValidEveryStep == pc = "idle" /\ fed > since => (valid <=> Completes(fed - since))

\* The kernel's calls satisfy the assertions of the circular buffer.
NeverAborts == pc # "aborted"

=============================================================================
