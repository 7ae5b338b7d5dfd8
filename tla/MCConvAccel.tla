------------------------------ MODULE MCConvAccel ------------------------------
(***************************************************************************)
(* ConvAccel with scratchpads of 32 bytes (16 for weights and output, 4 for  *)
(* the bias) and a handful of layers: a run of a model calls them in any     *)
(* order.  `abandoned` is a history variable: the driver has given up         *)
(* waiting for a copy, so that the channel may finish it at any later time.   *)
(***************************************************************************)
EXTENDS ConvAccel

VARIABLE abandoned

\* Two batches and two output channels, three input channels: less than a beat of
\* weights.
Pointwise ==
  [filter |-> <<1, 1>>, in_c |-> 3, filter_in_c |-> 3, dilation |-> <<1, 1>>,
   padding |-> <<0, 0>>, stride |-> <<1, 1>>, batches |-> 2, input |-> <<2, 2>>,
   output |-> <<2, 2>>, out_c |-> 2, bias |-> TRUE, mult |-> 77, shift |-> -7,
   offset |-> 0]

OneBatch == [Pointwise EXCEPT !.batches = 1]
NoBiasLayer == [OneBatch EXCEPT !.bias = FALSE]

\* Parameters that the registers do not hold.
StridesDiffer == [OneBatch EXCEPT !.stride = <<1, 2>>, !.output = <<2, 1>>]

\* Convolutions the driver leaves to the processor: another kernel size, too many
\* bytes of input.
ThreeByThree == [OneBatch EXCEPT !.filter = <<3, 3>>, !.padding = <<1, 1>>, !.offset = 128]
TooLarge == [OneBatch EXCEPT !.input = <<4, 4>>, !.stride = <<2, 2>>]

\* As much as the scratchpads hold.
Full == [OneBatch EXCEPT !.in_c = 8, !.filter_in_c = 8]

SomeLayers == {Pointwise, Full, ThreeByThree, TooLarge, NoBiasLayer, StridesDiffer}

MCInit == Init /\ abandoned = FALSE

MCNext == Next /\ abandoned' = (abandoned \/ \E to \in Spads : DmaTimeout(to))

MCSpec == MCInit /\ [][MCNext]_<<vars, abandoned>> /\ WF_vars(Driver)

\* "If unsupported or failed, fall through to CPU Conv" (conv_accel.h): as long as no
\* copy has been given up, every output is complete and the processor's, also when
\* the array fails in the middle of a layer, and the array only runs on the data of
\* the batch and channel that the driver has it compute.
RightUntilAbandoned == ~abandoned => ResultsRight /\ SpadsLoaded
=============================================================================
