------------------------------- MODULE ConvAccel -------------------------------
(***************************************************************************)
(* ConvPerChannel of conv_accel.h: a pointwise convolution is run on the    *)
(* FPGA's systolic array, one output channel at a time, with three DMA      *)
(* channels that fill its scratchpads; whatever is not supported, or times  *)
(* out, is left to the processor.                                           *)
(*                                                                         *)
(* The DMA engine and the array are external: they are modelled from how    *)
(* this driver and the board tests beside main.cc use them.  Both work on   *)
(* their own, at any speed; DONE of a DMA channel stays set until it is     *)
(* written, that of the array until its registers are cleared.              *)
(*                                                                         *)
(* Numbers are abstracted: data is named by the call it belongs to and its  *)
(* place in it, and what the array computes by what it has read.            *)
(***************************************************************************)
EXTENDS Integers

CONSTANTS
  Layers,            \* the convolutions of the models that are run
  MaxCalls,          \* bound on the number of convolutions run
  Faults,            \* "dma" or "array": what may take longer than the timeout
  MaxInputBytes,     \* CONV_MAX_INPUT_BYTES
  MaxWeightBytes,    \* CONV_MAX_WEIGHT_BYTES
  MaxBiasBytes,      \* CONV_MAX_BIAS_BYTES
  MaxOutputBytes     \* CONV_MAX_OUTPUT_BYTES

BeatBytes == 4
BiasBytes == 4
Pairs == (Nat \ {0}) \X (Nat \ {0})
CsrMultRange == 65536
CsrShiftRange == 256

\* A layer, with the shapes and parameters that the driver looks at.
Layer == [filter : Pairs, in_c : Nat \ {0}, filter_in_c : Nat \ {0},
          dilation : Pairs, padding : Nat \X Nat, stride : Pairs,
          batches : Nat \ {0}, input : Pairs, output : Pairs, out_c : Nat \ {0},
          bias : BOOLEAN, mult : Nat, shift : Int, offset : Int]

ASSUME ConstantsAssumption ==
  /\ \A l \in Layers : l \in Layer
  /\ MaxCalls \in Nat
  /\ Faults \subseteq {"dma", "array"}

ASSUME CapacityAssumption ==
  \A m \in {MaxInputBytes, MaxWeightBytes, MaxBiasBytes, MaxOutputBytes} :
    m \in Nat \ {0} /\ m % BeatBytes = 0

InputBytes(l) == l.input[1] * l.input[2] * l.in_c
WeightBytes(l) == l.in_c
OutputBytes(l) == l.output[1] * l.output[2]
RoundUpToDmaBeat(len) == ((len + BeatBytes - 1) \div BeatBytes) * BeatBytes

\* ConvAccelCanRunPointwise.
CanRunPointwise(l) ==
  /\ l.filter = <<1, 1>>
  /\ l.filter_in_c = l.in_c
  /\ l.dilation = <<1, 1>>
  /\ l.padding = <<0, 0>>
  /\ InputBytes(l) <= MaxInputBytes
  /\ WeightBytes(l) <= MaxWeightBytes
  /\ OutputBytes(l) <= MaxOutputBytes

Spads == {"weights", "inputs", "bias"}
Channel == [inputs |-> 0, weights |-> 1, bias |-> 2]
Capacity == [inputs |-> MaxInputBytes, weights |-> MaxWeightBytes,
             bias |-> MaxBiasBytes]
Copying == [inputs |-> "inputs copied", weights |-> "weights copied",
            bias |-> "bias copied"]
AfterCopy == [inputs |-> "weights", weights |-> "bias", bias |-> "run"]
Cleared == <<"cleared">>
Unset == [inputs |-> Cleared]

VARIABLES
  pc,        \* where ConvPerChannel is, "idle" between calls
  call,      \* how many calls there have been
  layer,     \* the layer of the present one
  batch, oc, \* the loops of TryConvAccelPointwisePerChannel
  output,    \* output_data, by batch and output channel
  dma,       \* external: the registers of each DMA channel
  spad,      \* external: what the scratchpads hold
  csr,       \* external: the array's registers
  array,     \* external: whether the array runs, and its DONE bit
  spad_out   \* external: the output scratchpad

vars == <<pc, call, layer, batch, oc, output, dma, spad, csr, array, spad_out>>
device == <<dma, spad, csr, array, spad_out>>
software == <<pc, call, layer, batch, oc, output>>

Cells(l) == (1..l.batches) \X (1..l.out_c)
InputOf(n, b) == <<"inputs", n, b>>
WeightsOf(n, c) == <<"weights", n, c>>
BiasOf(n, l, c) == IF l.bias THEN <<"bias", n, c>> ELSE Cleared

\* The value of one output channel, as what it is computed from.
Value(inputs, weights, bias, parameters) ==
  [inputs |-> inputs, weights |-> weights, bias |-> bias, parameters |-> parameters]

\* What the processor's loops compute.
Reference(n, l, b, c) ==
  Value(InputOf(n, b), WeightsOf(n, c), BiasOf(n, l, c),
        [stride |-> l.stride, mult |-> l.mult, shift |-> l.shift, offset |-> l.offset])

IdleDma == [busy |-> FALSE, done |-> FALSE, to |-> "inputs", data |-> Cleared, len |-> 0]

Init ==
  /\ pc = "idle" /\ call = 0 /\ layer \in Layers
  /\ batch = 1 /\ oc = 1
  /\ output = [cell \in Cells(layer) |-> Unset]
  /\ dma = [ch \in 0..2 |-> IdleDma]
  /\ spad = [s \in Spads |-> Cleared]
  /\ csr = Unset
  /\ array = [running |-> FALSE, done |-> FALSE]
  /\ spad_out = Unset

-----------------------------------------------------------------------------
(* The driver. *)

ConvPerChannel(l) ==
  /\ pc = "idle" /\ call < MaxCalls
  /\ call' = call + 1
  /\ layer' = l
  /\ batch' = 1 /\ oc' = 1
  /\ output' = [cell \in Cells(l) |-> Unset]
  /\ pc' = IF CanRunPointwise(l) THEN "inputs" ELSE "processor"
  /\ UNCHANGED device

\* A bug: the length is not rounded up to a whole beat.
BugLengthAsIs(ch, data, to, len) ==
  LET started == [busy |-> TRUE, done |-> dma[ch].done, to |-> to, data |-> data,
                  len |-> len]
  IN  dma' \in {[dma EXCEPT ![ch] = started]}

\* START of ConvDmaCopy.  What a channel does that is still busy is not known: it
\* drops the new copy, or the old one.
StartDma(ch, data, to, len) ==
  LET started == [busy |-> TRUE, done |-> dma[ch].done, to |-> to, data |-> data,
                  len |-> RoundUpToDmaBeat(len)]
  IN  dma' \in {[dma EXCEPT ![ch] = started]} \union (IF dma[ch].busy THEN {dma} ELSE {})

CopyInputs ==
  /\ pc = "inputs"
  /\ StartDma(Channel.inputs, InputOf(call, batch), "inputs", InputBytes(layer))
  /\ pc' = Copying["inputs"]
  /\ UNCHANGED <<call, layer, batch, oc, output, spad, csr, array, spad_out>>

CopyWeights ==
  /\ pc = "weights"
  /\ StartDma(Channel.weights, WeightsOf(call, oc), "weights", WeightBytes(layer))
  /\ pc' = Copying["weights"]
  /\ UNCHANGED <<call, layer, batch, oc, output, spad, csr, array, spad_out>>

CopyBias ==
  /\ pc = "bias" /\ layer.bias
  /\ StartDma(Channel.bias, BiasOf(call, layer, oc), "bias", BiasBytes)
  /\ pc' = Copying["bias"]
  /\ UNCHANGED <<call, layer, batch, oc, output, spad, csr, array, spad_out>>

\* ConvDmaWaitDone finds DONE and clears it.
DmaSeen(to) ==
  /\ pc = Copying[to] /\ dma[Channel[to]].done
  /\ dma' = [dma EXCEPT ![Channel[to]] = [@ EXCEPT !.done = FALSE]]
  /\ pc' = AfterCopy[to]
  /\ UNCHANGED <<call, layer, batch, oc, output, spad, csr, array, spad_out>>

\* A bug: a copy that takes too long is tried again, for ever.
BugDmaRetried(to) ==
  /\ pc = Copying[to] /\ ~dma[Channel[to]].done /\ "dma" \in Faults
  /\ pc' = to
  /\ UNCHANGED <<call, layer, batch, oc, output, device>>

\* It gives up, and ConvPerChannel falls through to the processor.
DmaTimeout(to) ==
  /\ pc = Copying[to] /\ ~dma[Channel[to]].done /\ "dma" \in Faults
  /\ pc' = "processor"
  /\ UNCHANGED <<call, layer, batch, oc, output, device>>

NoBias ==
  /\ pc = "bias" /\ ~layer.bias
  /\ pc' = "run"
  /\ UNCHANGED <<call, layer, batch, oc, output, device>>

\* ConvAccelProgramCsrsForOneOutputChannel.
QuantShiftForCsr(shift) == (IF shift < 0 THEN -shift ELSE shift) % CsrShiftRange
QuantMultForCsr(mult) == mult % CsrMultRange
CsrsFor(l) ==
  [i_size |-> l.input[1] * l.input[2], i_c_size |-> l.in_c,
   o_size |-> l.output[1] * l.output[2], stride |-> l.stride[1],
   mult |-> QuantMultForCsr(l.mult), shift |-> QuantShiftForCsr(l.shift)]

\* A bug: the array is started without clearing it before.
BugNotCleared ==
  /\ pc = "run"
  /\ csr' = CsrsFor(layer)
  /\ array' = [array EXCEPT !.running = TRUE]
  /\ pc' = "running"
  /\ UNCHANGED <<call, layer, batch, oc, output, dma, spad, spad_out>>

\* The registers are written, the array is cleared, which ends a run that is still
\* under way, and started.
RunArray ==
  /\ pc = "run"
  /\ csr' = CsrsFor(layer)
  /\ array' = [running |-> TRUE, done |-> FALSE]
  /\ pc' = "running"
  /\ UNCHANGED <<call, layer, batch, oc, output, dma, spad, spad_out>>

\* The two loops go on.
NextChannel ==
  /\ oc' = IF oc < layer.out_c THEN oc + 1 ELSE 1
  /\ batch' = IF oc < layer.out_c THEN batch ELSE batch + 1
  /\ pc' = CASE oc < layer.out_c -> "weights"
             [] oc = layer.out_c /\ batch < layer.batches -> "inputs"
             [] OTHER -> "idle"

\* ConvAccelWaitDone finds DONE; the channel is stored in the output.
StoreOneChannel ==
  /\ pc = "running" /\ array.done
  /\ output' = [output EXCEPT ![<<batch, oc>>] = spad_out]
  /\ NextChannel
  /\ UNCHANGED <<call, layer, device>>

ArrayTimeout ==
  /\ pc = "running" /\ ~array.done /\ "array" \in Faults
  /\ pc' = "processor"
  /\ UNCHANGED <<call, layer, batch, oc, output, device>>

\* The reference loops over the whole output.
Processor ==
  /\ pc = "processor"
  /\ output' = [cell \in Cells(layer) |-> Reference(call, layer, cell[1], cell[2])]
  /\ pc' = "idle"
  /\ UNCHANGED <<call, layer, batch, oc, device>>

-----------------------------------------------------------------------------
(* The hardware. *)

DmaTransfers(ch) ==
  /\ dma[ch].busy
  /\ spad' = [spad EXCEPT ![dma[ch].to] = dma[ch].data]
  /\ dma' = [dma EXCEPT ![ch] = [@ EXCEPT !.busy = FALSE, !.done = TRUE]]
  /\ UNCHANGED <<software, csr, array, spad_out>>

\* One stride for both directions, a shift to the right, and no offsets: there are
\* no registers for more.
ProgrammedParameters ==
  [stride |-> <<csr.stride, csr.stride>>, mult |-> csr.mult, shift |-> -csr.shift,
   offset |-> 0]

ArrayFinishes ==
  /\ array.running
  /\ spad_out' = Value(spad.inputs, spad.weights, spad.bias, ProgrammedParameters)
  /\ array' = [running |-> FALSE, done |-> TRUE]
  /\ UNCHANGED <<software, dma, spad, csr>>

Driver ==
  \/ CopyInputs \/ CopyWeights \/ CopyBias \/ NoBias
  \/ \E to \in Spads : DmaSeen(to) \/ DmaTimeout(to)
  \/ RunArray \/ StoreOneChannel \/ ArrayTimeout \/ Processor

Hardware == ArrayFinishes \/ \E ch \in 0..2 : DmaTransfers(ch)

Next == (\E l \in Layers : ConvPerChannel(l)) \/ Driver \/ Hardware

\* The driver is a loop that polls, and gives up when it has polled long enough.
\* Nothing is asked of the hardware: what it has been given to do it may never do.
Spec == Init /\ [][Next]_vars /\ WF_vars(Driver)

-----------------------------------------------------------------------------
(* Properties. *)

PCs == {"idle", "inputs", "weights", "bias", "run", "running", "processor"}
         \union {Copying[to] : to \in Spads}

\* A layer whose parameters are what the registers can hold.
Expressible(l) ==
  /\ l.stride[1] = l.stride[2] /\ l.offset = 0
  /\ l.mult < CsrMultRange
  /\ -l.shift \in 0..CsrShiftRange - 1

OutputIsReference ==
  \A cell \in Cells(layer) : output[cell] = Reference(call, layer, cell[1], cell[2])

Data == {Cleared} \union (Spads \X Nat \X Nat)

\* The driver's, the channels' and the array's variables stay in their ranges, and
\* the output has a value for every batch and channel of the layer.
TypeOK ==
  /\ pc \in PCs /\ call \in 0..MaxCalls /\ layer \in Layers
  /\ batch \in 1..layer.batches + 1 /\ oc \in 1..layer.out_c
  /\ output = [cell \in Cells(layer) |-> output[cell]]
  /\ dma \in [0..2 -> [busy : BOOLEAN, done : BOOLEAN, to : Spads, data : Data,
                       len : Nat]]
  /\ spad \in [Spads -> Data]
  /\ array \in [running : BOOLEAN, done : BOOLEAN]

\* "If unsupported or failed, fall through to CPU Conv": whether the array did all of
\* a layer, some of it before it failed, or nothing, the output of a call is complete
\* and its own, for every layer that has a bias and parameters the registers can hold.
ResultsRight ==
  pc = "idle" /\ call > 0 /\ (CanRunPointwise(layer) => Expressible(layer) /\ layer.bias)
    => OutputIsReference

\* While the array runs for the driver no scratchpad it reads is loaded any more:
\* each holds the data of this batch and output channel, and no copy into it is
\* under way.
SpadsLoaded ==
  pc = "running" =>
    /\ spad.inputs = InputOf(call, batch)
    /\ spad.weights = WeightsOf(call, oc)
    /\ layer.bias => spad.bias = BiasOf(call, layer, oc)
    /\ \A ch \in 0..2 : ~dma[ch].busy

\* What a channel is told to copy is whole beats, at least one, and fits into the
\* scratchpad it goes to.
CopiesFit ==
  \A ch \in 0..2 : dma[ch].busy =>
    /\ dma[ch].len % BeatBytes = 0 /\ dma[ch].len > 0
    /\ dma[ch].len <= Capacity[dma[ch].to]

\* A convolution ends, even if the hardware never answers.
CallsReturn == pc # "idle" ~> pc = "idle"

=============================================================================
