---------------------------- MODULE ConvAccelProofs ----------------------------
(***************************************************************************)
(* Proofs about ConvAccel, for any layers, sizes of the scratchpads and      *)
(* number of calls.  Whatever is too slow, copies stay inside the            *)
(* scratchpads.  As long as no copy has been given up, the channels are      *)
(* quiet whenever the driver does not wait for them, so that what a          *)
(* scratchpad holds is decided by the last copy into it; the output is then  *)
(* right, also when the array times out in the middle of a layer.            *)
(* MCConvAccel is extended for its history variable.                         *)
(***************************************************************************)
EXTENDS MCConvAccel, TLAPS

LEMMA ConstantFacts ==
  /\ \A l \in Layers : l \in Layer
  /\ MaxCalls \in Nat
  /\ \A m \in {MaxInputBytes, MaxWeightBytes, MaxBiasBytes, MaxOutputBytes} :
       m \in Nat \ {0} /\ m % 4 = 0
  BY ConstantsAssumption, CapacityAssumption DEF BeatBytes

LEMMA PairFacts == ASSUME NEW p \in Pairs PROVE p[1] \in Nat \ {0} /\ p[2] \in Nat \ {0}
  BY DEF Pairs

LEMMA PositiveProduct ==
  ASSUME NEW a \in Nat \ {0}, NEW b \in Nat \ {0} PROVE a * b \in Nat \ {0}
  OBVIOUS

\* The bytes of a layer's data are positive numbers.
LEMMA LayerFacts ==
  ASSUME NEW l \in Layers
  PROVE  /\ l.batches \in Nat \ {0} /\ l.out_c \in Nat \ {0} /\ l.bias \in BOOLEAN
         /\ l.mult \in Nat /\ l.shift \in Int /\ l.offset \in Int
         /\ InputBytes(l) \in Nat \ {0} /\ WeightBytes(l) \in Nat \ {0}
  <1>1. l \in Layer
    BY ConstantFacts
  <1>2. /\ l.in_c \in Nat \ {0} /\ l.input \in Pairs
        /\ l.batches \in Nat \ {0} /\ l.out_c \in Nat \ {0} /\ l.bias \in BOOLEAN
        /\ l.mult \in Nat /\ l.shift \in Int /\ l.offset \in Int
    BY <1>1 DEF Layer
  <1>3. l.input[1] * l.input[2] \in Nat \ {0}
    BY <1>2, PairFacts, PositiveProduct
  <1>4. InputBytes(l) \in Nat \ {0}
    BY <1>2, <1>3, PositiveProduct DEF InputBytes
  <1> QED
    BY <1>2, <1>4 DEF WeightBytes

LEMMA Rounding ==
  ASSUME NEW len \in Nat \ {0}
  PROVE  /\ RoundUpToDmaBeat(len) \in Nat \ {0}
         /\ RoundUpToDmaBeat(len) % BeatBytes = 0
         /\ \A cap \in Nat \ {0} : cap % 4 = 0 /\ len <= cap => RoundUpToDmaBeat(len) <= cap
  BY DEF RoundUpToDmaBeat, BeatBytes

LEMMA CopyingFacts ==
  /\ \A to \in Spads : Copying[to] \in {"inputs copied", "weights copied", "bias copied"}
  /\ \A to \in Spads : Channel[to] \in 0..2
  /\ \A to \in Spads : AfterCopy[to] \in {"weights", "bias", "run"}
  /\ Channel.inputs = 0 /\ Channel.weights = 1 /\ Channel.bias = 2
  /\ Copying["inputs"] = "inputs copied" /\ Copying["weights"] = "weights copied"
  /\ Copying["bias"] = "bias copied"
  BY DEF Copying, Channel, AfterCopy, Spads

LEMMA PCFacts ==
  PCs = {"idle", "inputs", "weights", "bias", "run", "running", "processor",
         "inputs copied", "weights copied", "bias copied"}
  <1>1. Spads = {"inputs", "weights", "bias"}
    BY DEF Spads
  <1>2. {Copying[to] : to \in Spads} = {"inputs copied", "weights copied", "bias copied"}
    BY <1>1, CopyingFacts
  <1> QED
    BY <1>2 DEF PCs

-----------------------------------------------------------------------------
(* Types. *)

LEMMA InitType == Init => TypeOK
  <1> SUFFICES ASSUME Init PROVE TypeOK
    OBVIOUS
  <1> USE DEF Init
  <1>1. pc \in PCs /\ call \in 0..MaxCalls /\ layer \in Layers
    <2>1. pc \in PCs
      BY PCFacts
    <2> QED
      BY <2>1, ConstantFacts
  <1>2. batch \in 1..layer.batches + 1 /\ oc \in 1..layer.out_c
    BY <1>1, LayerFacts
  <1>3. output = [cell \in Cells(layer) |-> output[cell]]
    OBVIOUS
  <1>4. dma \in [0..2 -> [busy : BOOLEAN, done : BOOLEAN, to : Spads, data : Data, len : Nat]]
    BY DEF IdleDma, Spads, Data
  <1>5. spad \in [Spads -> Data] /\ array \in [running : BOOLEAN, done : BOOLEAN]
    BY DEF Data
  <1> QED
    BY <1>1, <1>2, <1>3, <1>4, <1>5 DEF TypeOK

Dma == [busy : BOOLEAN, done : BOOLEAN, to : Spads, data : Data, len : Nat]

LEMMA DoneCleared ==
  ASSUME NEW d \in Dma
  PROVE  /\ [d EXCEPT !.done = FALSE] \in Dma
         /\ [d EXCEPT !.done = FALSE].busy = d.busy /\ [d EXCEPT !.done = FALSE].to = d.to
         /\ [d EXCEPT !.done = FALSE].len = d.len /\ ~[d EXCEPT !.done = FALSE].done
         /\ [d EXCEPT !.done = FALSE].data = d.data
  BY DEF Dma

LEMMA DataFacts ==
  ASSUME TypeOK
  PROVE  /\ InputOf(call, batch) \in Data /\ WeightsOf(call, oc) \in Data
         /\ layer.bias => BiasOf(call, layer, oc) \in Data
         /\ batch \in Nat /\ oc \in Nat /\ call \in Nat
  <1>1. batch \in Nat /\ oc \in Nat /\ call \in Nat
    BY LayerFacts, ConstantFacts DEF TypeOK
  <1> QED
    BY <1>1 DEF InputOf, WeightsOf, BiasOf, Data, Spads

LEMMA StartType ==
  ASSUME NEW ch \in 0..2, NEW data \in Data, NEW to \in Spads, NEW len \in Nat \ {0},
         dma \in [0..2 -> Dma], StartDma(ch, data, to, len)
  PROVE  dma' \in [0..2 -> Dma]
  <1>1. RoundUpToDmaBeat(len) \in Nat
    BY Rounding
  <1>2. [busy |-> TRUE, done |-> dma[ch].done, to |-> to, data |-> data,
         len |-> RoundUpToDmaBeat(len)] \in Dma
    BY <1>1 DEF Dma
  <1> QED
    BY <1>2 DEF StartDma

LEMMA NextChannelType ==
  ASSUME TypeOK, NextChannel, layer' = layer, batch <= layer.batches
  PROVE  pc' \in PCs /\ batch' \in 1..layer.batches + 1 /\ oc' \in 1..layer.out_c
  <1>1. layer.batches \in Nat \ {0} /\ layer.out_c \in Nat \ {0}
    BY LayerFacts DEF TypeOK
  <1>2. pc' \in {"weights", "inputs", "idle"}
    BY DEF NextChannel
  <1>3. pc' \in PCs
    BY <1>2, PCFacts
  <1>4. oc' \in 1..layer.out_c /\ batch' \in 1..layer.batches + 1
    BY <1>1 DEF TypeOK, NextChannel
  <1> QED
    BY <1>3, <1>4

\* The batch is one of the layer's as long as there is something to do.
Looping == pc \in {"idle", "processor"} \/ (batch <= layer.batches /\ CanRunPointwise(layer))

LEMMA TypeStep == TypeOK /\ Looping /\ [Next]_vars => TypeOK' /\ Looping'
  <1> SUFFICES ASSUME TypeOK, Looping, [Next]_vars PROVE TypeOK' /\ Looping'
    OBVIOUS
  <1> USE DEF TypeOK, Looping
  <1>d. dma \in [0..2 -> Dma] /\ (dma' \in [0..2 -> Dma] <=> dma' \in
          [0..2 -> [busy : BOOLEAN, done : BOOLEAN, to : Spads, data : Data, len : Nat]])
    BY DEF Dma
  <1>l. layer.batches \in Nat \ {0} /\ layer.out_c \in Nat \ {0} /\ batch \in Nat /\ oc \in Nat
    BY LayerFacts
  <1>1. ASSUME NEW l \in Layers, ConvPerChannel(l) PROVE TypeOK' /\ Looping'
    <2>1. l.batches \in Nat \ {0} /\ l.out_c \in Nat \ {0}
      BY LayerFacts
    <2>2. pc' \in PCs
      BY <1>1, PCFacts DEF ConvPerChannel
    <2>3. call' \in 0..MaxCalls
      BY <1>1, ConstantFacts DEF ConvPerChannel
    <2> QED
      BY <1>1, <2>1, <2>2, <2>3 DEF ConvPerChannel, device
  <1>2. CASE CopyInputs
    <2>1. dma' \in [0..2 -> Dma]
      BY <1>2, <1>d, DataFacts, LayerFacts, StartType, CopyingFacts DEF CopyInputs, Spads
    <2> QED
      BY <1>2, <1>d, <2>1, PCFacts, CopyingFacts DEF CopyInputs
  <1>3. CASE CopyWeights
    <2>1. dma' \in [0..2 -> Dma]
      BY <1>3, <1>d, DataFacts, LayerFacts, StartType, CopyingFacts DEF CopyWeights, Spads
    <2> QED
      BY <1>3, <1>d, <2>1, PCFacts, CopyingFacts DEF CopyWeights
  <1>4. CASE CopyBias
    <2>1. dma' \in [0..2 -> Dma]
      <3>1. StartDma(2, BiasOf(call, layer, oc), "bias", 4) /\ layer.bias
        BY <1>4, CopyingFacts DEF CopyBias, BiasBytes
      <3> QED
        BY <3>1, <1>d, DataFacts, StartType DEF Spads
    <2> QED
      BY <1>4, <1>d, <2>1, PCFacts, CopyingFacts DEF CopyBias
  <1>5. CASE NoBias
    BY <1>5, PCFacts DEF NoBias, device
  <1>6. ASSUME NEW to \in Spads, DmaSeen(to) PROVE TypeOK' /\ Looping'
    <2>1. dma' \in [0..2 -> Dma]
      <3>1. dma[Channel[to]] \in Dma
        BY <1>d, CopyingFacts
      <3>2. [dma[Channel[to]] EXCEPT !.done = FALSE] \in Dma
        BY <3>1, DoneCleared
      <3> QED
        BY <1>6, <1>d, <3>2, CopyingFacts DEF DmaSeen
    <2>2. pc \notin {"idle", "processor"}
      BY <1>6, CopyingFacts DEF DmaSeen
    <2> QED
      BY <1>6, <1>d, <2>1, <2>2, PCFacts, CopyingFacts DEF DmaSeen
  <1>7. ASSUME NEW to \in Spads, DmaTimeout(to) PROVE TypeOK' /\ Looping'
    BY <1>7, PCFacts DEF DmaTimeout, device
  <1>8. CASE RunArray
    BY <1>8, PCFacts DEF RunArray
  <1>9. CASE StoreOneChannel
    <2>1. pc' \in PCs /\ batch' \in 1..layer.batches + 1 /\ oc' \in 1..layer.out_c
      BY <1>9, NextChannelType DEF StoreOneChannel
    <2>2. pc' = "idle" \/ batch' <= layer.batches
      BY <1>9, <1>l DEF StoreOneChannel, NextChannel
    <2>3. layer' = layer /\ CanRunPointwise(layer) /\ UNCHANGED device /\ call' = call
      BY <1>9 DEF StoreOneChannel
    <2>4. output' = [cell \in Cells(layer) |-> output'[cell]]
      BY <1>9 DEF StoreOneChannel
    <2> QED
      BY <2>1, <2>2, <2>3, <2>4 DEF device
  <1>10. CASE ArrayTimeout
    BY <1>10, PCFacts DEF ArrayTimeout, device
  <1>11. CASE Processor
    BY <1>11, PCFacts DEF Processor, device
  <1>12. CASE ArrayFinishes
    BY <1>12 DEF ArrayFinishes, software
  <1>13. ASSUME NEW ch \in 0..2, DmaTransfers(ch) PROVE TypeOK' /\ Looping'
    <2>1. dma' \in [0..2 -> Dma]
      BY <1>13, <1>d DEF DmaTransfers, Dma
    <2>2. spad' \in [Spads -> Data]
      BY <1>13, <1>d DEF DmaTransfers, Dma
    <2> QED
      BY <1>13, <1>d, <2>1, <2>2 DEF DmaTransfers, software
  <1>14. CASE UNCHANGED vars
    BY <1>14 DEF vars
  <1> QED
    BY <1>1, <1>2, <1>3, <1>4, <1>5, <1>6, <1>7, <1>8, <1>9, <1>10, <1>11, <1>12,
       <1>13, <1>14 DEF Next, Driver, Hardware

\* The variables keep their types, whatever is too slow.
THEOREM TypeCorrect == Spec => []TypeOK
  <1>1. Init => TypeOK /\ Looping
    BY InitType DEF Init, Looping
  <1> QED
    BY <1>1, TypeStep, PTL DEF Spec

-----------------------------------------------------------------------------
(* Copies fit. *)

\* What StartDma starts fits if what it is given does.
LEMMA StartFits ==
  ASSUME TypeOK, CopiesFit, NEW to \in Spads, NEW data, NEW len \in Nat \ {0},
         len <= Capacity[to], StartDma(Channel[to], data, to, len)
  PROVE  CopiesFit'
  <1>1. Capacity[to] \in Nat \ {0} /\ Capacity[to] % 4 = 0
    BY ConstantFacts DEF Capacity, Spads
  <1>2. DOMAIN dma = 0..2 /\ Channel[to] \in 0..2
    BY CopyingFacts DEF TypeOK
  <1>3. /\ RoundUpToDmaBeat(len) \in Nat \ {0} /\ RoundUpToDmaBeat(len) % BeatBytes = 0
        /\ RoundUpToDmaBeat(len) <= Capacity[to]
    BY <1>1, Rounding
  <1>4. CASE dma' = dma
    BY <1>4 DEF CopiesFit
  <1>5. CASE dma' = [dma EXCEPT ![Channel[to]] =
                       [busy |-> TRUE, done |-> dma[Channel[to]].done, to |-> to,
                        data |-> data, len |-> RoundUpToDmaBeat(len)]]
    <2> SUFFICES ASSUME NEW ch \in 0..2, dma'[ch].busy
                 PROVE  /\ dma'[ch].len % BeatBytes = 0 /\ dma'[ch].len > 0
                        /\ dma'[ch].len <= Capacity[dma'[ch].to]
      BY DEF CopiesFit
    <2>1. CASE ch = Channel[to]
      BY <1>2, <1>3, <1>5, <2>1
    <2>2. CASE ch # Channel[to]
      BY <1>2, <1>5, <2>2 DEF CopiesFit, TypeOK
    <2> QED
      BY <2>1, <2>2
  <1> QED
    BY <1>4, <1>5 DEF StartDma

LEMMA FitStep == TypeOK /\ Looping /\ CopiesFit /\ [Next]_vars => CopiesFit'
  <1> SUFFICES ASSUME TypeOK, Looping, CopiesFit, [Next]_vars PROVE CopiesFit'
    OBVIOUS
  <1>l. InputBytes(layer) \in Nat \ {0} /\ WeightBytes(layer) \in Nat \ {0}
    BY LayerFacts DEF TypeOK
  <1>c. pc \notin {"idle", "processor"} =>
          InputBytes(layer) <= Capacity.inputs /\ WeightBytes(layer) <= Capacity.weights
    BY DEF Looping, CanRunPointwise, Capacity
  <1>1. CASE UNCHANGED dma
    BY <1>1 DEF CopiesFit
  <1>2. CASE CopyInputs
    BY <1>2, <1>l, <1>c, StartFits DEF CopyInputs, Spads
  <1>3. CASE CopyWeights
    BY <1>3, <1>l, <1>c, StartFits DEF CopyWeights, Spads
  <1>4. CASE CopyBias
    <2>1. 4 <= Capacity["bias"]
      BY ConstantFacts DEF Capacity
    <2> QED
      BY <1>4, <2>1, StartFits DEF CopyBias, Spads, BiasBytes
  <1>5. ASSUME NEW to \in Spads, DmaSeen(to) PROVE CopiesFit'
    <2>1. Channel[to] \in 0..2 /\ \A ch \in 0..2 : dma[ch] \in Dma
      BY CopyingFacts DEF TypeOK, Dma
    <2>2. \A ch \in 0..2 : /\ dma'[ch].busy = dma[ch].busy /\ dma'[ch].len = dma[ch].len
                            /\ dma'[ch].to = dma[ch].to
      BY <1>5, <2>1, DoneCleared DEF DmaSeen, TypeOK
    <2> QED
      BY <2>2 DEF CopiesFit
  <1>6. ASSUME NEW ch \in 0..2, DmaTransfers(ch) PROVE CopiesFit'
    BY <1>6 DEF DmaTransfers, CopiesFit, TypeOK
  <1> QED
    BY <1>1, <1>2, <1>3, <1>4, <1>5, <1>6 DEF Next, Driver, Hardware, ConvPerChannel, NoBias,
       DmaTimeout, RunArray, StoreOneChannel, ArrayTimeout, Processor, ArrayFinishes, device,
       vars

\* Whatever is too slow, what a channel is told to copy is whole beats and stays
\* inside the scratchpad that it goes to.
THEOREM CopiesStayInside == Spec => []CopiesFit
  <1>1. Init => TypeOK /\ Looping /\ CopiesFit
    BY InitType DEF Init, Looping, CopiesFit, IdleDma
  <1> QED
    BY <1>1, TypeStep, FitStep, PTL DEF Spec

-----------------------------------------------------------------------------
(* Results, when no copy times out. *)

Wanted(to) ==
  CASE to = "inputs" -> InputOf(call, batch)
    [] to = "weights" -> WeightsOf(call, oc)
    [] to = "bias" -> BiasOf(call, layer, oc)

\* A channel has something to do, or to say, only while the driver waits for it, and
\* that is the copy the driver waits for.
Quiet ==
  \A to \in Spads :
    /\ dma[Channel[to]].busy \/ dma[Channel[to]].done => pc = Copying[to]
    /\ dma[Channel[to]].busy => /\ dma[Channel[to]].to = to
                               /\ dma[Channel[to]].data = Wanted(to)
                               /\ ~dma[Channel[to]].done
    /\ dma[Channel[to]].done => spad[to] = Wanted(to)

\* What the copies that are behind the driver have loaded.
Loaded ==
  /\ pc \in {"weights", "weights copied", "bias", "bias copied", "run", "running"} =>
       spad["inputs"] = InputOf(call, batch)
  /\ pc \in {"bias", "bias copied", "run", "running"} =>
       spad["weights"] = WeightsOf(call, oc)
  /\ pc \in {"run", "running"} /\ layer.bias => spad["bias"] = BiasOf(call, layer, oc)
  /\ pc = "bias copied" => layer.bias

LEMMA SpadFacts ==
  /\ \A ch \in 0..2 : \E to \in Spads : Channel[to] = ch
  /\ \A s, t \in Spads : Channel[s] = Channel[t] => s = t
  /\ \A s, t \in Spads : Copying[s] = Copying[t] => s = t
  <1>1. Spads = {"inputs", "weights", "bias"}
    BY DEF Spads
  <1>2. Channel["inputs"] = 0 /\ Channel["weights"] = 1 /\ Channel["bias"] = 2
    BY CopyingFacts
  <1>3. \A ch \in 0..2 : ch = 0 \/ ch = 1 \/ ch = 2
    OBVIOUS
  <1>4. \A ch \in 0..2 : \E to \in Spads : Channel[to] = ch
    BY <1>1, <1>2, <1>3
  <1>5. \A s, t \in Spads : Channel[s] = Channel[t] => s = t
    BY <1>1, <1>2
  <1>6. \A s, t \in Spads : Copying[s] = Copying[t] => s = t
    <2>1. /\ Copying["inputs"] # Copying["weights"] /\ Copying["inputs"] # Copying["bias"]
          /\ Copying["weights"] # Copying["bias"]
      BY CopyingFacts
    <2> QED
      BY <1>1, <2>1
  <1> QED
    BY <1>4, <1>5, <1>6

\* Starting a copy when its channel is quiet.
LEMMA StartQuiet ==
  ASSUME TypeOK, Quiet, NEW to \in Spads, NEW len, pc \notin {Copying[t] : t \in Spads},
         StartDma(Channel[to], Wanted(to), to, len), pc' = Copying[to],
         UNCHANGED <<call, layer, batch, oc, spad>>
  PROVE  Quiet'
  <1>1. DOMAIN dma = 0..2 /\ \A t \in Spads : Channel[t] \in 0..2
    BY CopyingFacts DEF TypeOK
  <1>2. \A t \in Spads : ~dma[Channel[t]].busy /\ ~dma[Channel[t]].done
    BY DEF Quiet, TypeOK
  <1>3. dma' = [dma EXCEPT ![Channel[to]] =
                  [busy |-> TRUE, done |-> dma[Channel[to]].done, to |-> to,
                   data |-> Wanted(to), len |-> RoundUpToDmaBeat(len)]]
    BY <1>2 DEF StartDma
  <1>4. dma'[Channel[to]] = [busy |-> TRUE, done |-> dma[Channel[to]].done, to |-> to,
                             data |-> Wanted(to), len |-> RoundUpToDmaBeat(len)]
    BY <1>1, <1>3
  <1>5. \A t \in Spads : t # to => dma'[Channel[t]] = dma[Channel[t]]
    BY <1>1, <1>3, SpadFacts
  <1>6. Wanted(to)' = Wanted(to)
    BY DEF Wanted, InputOf, WeightsOf, BiasOf
  <1> SUFFICES ASSUME NEW t \in Spads
               PROVE  /\ dma'[Channel[t]].busy \/ dma'[Channel[t]].done => pc' = Copying[t]
                      /\ dma'[Channel[t]].busy => /\ dma'[Channel[t]].to = t
                                                 /\ dma'[Channel[t]].data = Wanted(t)'
                                                 /\ ~dma'[Channel[t]].done
                      /\ dma'[Channel[t]].done => spad'[t] = Wanted(t)'
    BY DEF Quiet
  <1>7. CASE t = to
    <2>1. dma'[Channel[to]].busy /\ ~dma'[Channel[to]].done
          /\ dma'[Channel[to]].to = to /\ dma'[Channel[to]].data = Wanted(to)
      BY <1>2, <1>4
    <2> QED
      BY <1>6, <1>7, <2>1
  <1>8. CASE t # to
    BY <1>2, <1>5, <1>8
  <1> QED
    BY <1>7, <1>8

\* Steps that leave the channels alone while they are quiet.
LEMMA KeepQuiet ==
  ASSUME TypeOK, Quiet, pc \notin {Copying[t] : t \in Spads}, UNCHANGED dma
  PROVE  Quiet'
  <1>1. \A t \in Spads : ~dma[Channel[t]].busy /\ ~dma[Channel[t]].done
    BY DEF Quiet, TypeOK
  <1> QED
    BY <1>1 DEF Quiet

LEMMA NotCopying ==
  \A t \in Spads : Copying[t] \notin {"idle", "inputs", "weights", "bias", "run", "running",
                                       "processor"}
  BY CopyingFacts

LEMMA TransferQuiet ==
  ASSUME TypeOK, Quiet, NEW ch \in 0..2, DmaTransfers(ch)
  PROVE  Quiet' /\ \E to \in Spads : pc = Copying[to] /\ spad' = [spad EXCEPT ![to] = Wanted(to)]
  <1>1. PICK to \in Spads : Channel[to] = ch
    BY SpadFacts
  <1>2. /\ pc = Copying[to] /\ dma[ch].to = to /\ dma[ch].data = Wanted(to)
        /\ dma[ch].busy
    BY <1>1 DEF Quiet, DmaTransfers
  <1>3. DOMAIN dma = 0..2 /\ dma[ch] \in Dma /\ DOMAIN spad = Spads
        /\ \A t \in Spads : Channel[t] \in 0..2
    BY CopyingFacts DEF TypeOK, Dma
  <1>4. spad' = [spad EXCEPT ![to] = Wanted(to)] /\ spad'[to] = Wanted(to)
    BY <1>2, <1>3 DEF DmaTransfers
  <1>5. dma'[ch] = [dma[ch] EXCEPT !.busy = FALSE, !.done = TRUE]
    BY <1>3 DEF DmaTransfers
  <1>6. ~dma'[ch].busy /\ dma'[ch].done
    BY <1>3, <1>5 DEF Dma
  <1>7. \A t \in Spads : t # to =>
          dma'[Channel[t]] = dma[Channel[t]] /\ ~dma[Channel[t]].busy /\ ~dma[Channel[t]].done
    BY <1>1, <1>2, <1>3, SpadFacts DEF DmaTransfers, Quiet, TypeOK
  <1>8. pc' = pc /\ Wanted(to)' = Wanted(to)
    BY DEF DmaTransfers, software, Wanted, InputOf, WeightsOf, BiasOf
  <1>9. Quiet'
    <2> SUFFICES ASSUME NEW t \in Spads
                 PROVE  /\ dma'[Channel[t]].busy \/ dma'[Channel[t]].done => pc' = Copying[t]
                        /\ dma'[Channel[t]].busy => /\ dma'[Channel[t]].to = t
                                                   /\ dma'[Channel[t]].data = Wanted(t)'
                                                   /\ ~dma'[Channel[t]].done
                        /\ dma'[Channel[t]].done => spad'[t] = Wanted(t)'
      BY DEF Quiet
    <2>1. CASE t = to
      BY <1>1, <1>2, <1>4, <1>6, <1>8, <2>1
    <2>2. CASE t # to
      BY <1>7, <2>2
    <2> QED
      BY <2>1, <2>2
  <1> QED
    BY <1>2, <1>4, <1>9

LEMMA SeenQuiet ==
  ASSUME TypeOK, Quiet, NEW to \in Spads, DmaSeen(to)
  PROVE  Quiet' /\ spad[to] = Wanted(to)
  <1>1. DOMAIN dma = 0..2 /\ \A t \in Spads : Channel[t] \in 0..2 /\ dma[Channel[t]] \in Dma
    BY CopyingFacts DEF TypeOK, Dma
  <1>2. pc = Copying[to] /\ dma[Channel[to]].done /\ ~dma[Channel[to]].busy
    BY DEF Quiet, DmaSeen
  <1>3. dma'[Channel[to]] = [dma[Channel[to]] EXCEPT !.done = FALSE]
    BY <1>1 DEF DmaSeen
  <1>4. ~dma'[Channel[to]].busy /\ ~dma'[Channel[to]].done
    BY <1>1, <1>2, <1>3, DoneCleared
  <1>5. \A t \in Spads : t # to =>
          dma'[Channel[t]] = dma[Channel[t]] /\ ~dma[Channel[t]].busy /\ ~dma[Channel[t]].done
    BY <1>1, <1>2, SpadFacts DEF DmaSeen, Quiet, TypeOK
  <1>6. \A t \in Spads : ~dma'[Channel[t]].busy /\ ~dma'[Channel[t]].done
    BY <1>4, <1>5
  <1>7. Quiet'
    BY <1>6 DEF Quiet
  <1> QED
    BY <1>2, <1>7 DEF Quiet

-----------------------------------------------------------------------------
LEMMA SameQuiet ==
  ASSUME Quiet, Loaded, UNCHANGED <<pc, call, layer, batch, oc, dma, spad>>
  PROVE  Quiet' /\ Loaded'
  <1>1. \A to \in Spads : Wanted(to)' = Wanted(to)
    BY DEF Wanted, InputOf, WeightsOf, BiasOf
  <1>2. Quiet'
    BY <1>1 DEF Quiet
  <1> QED
    BY <1>2 DEF Loaded, InputOf, WeightsOf, BiasOf

LEMMA QuietStep ==
  ASSUME TypeOK, Looping, Quiet, Loaded, [Next]_vars, \A to \in Spads : ~DmaTimeout(to)
  PROVE  Quiet' /\ Loaded'
  <1>n. \A t \in Spads : Copying[t] \notin {"idle", "inputs", "weights", "bias", "run",
                                            "running", "processor"}
    BY NotCopying
  <1>1. ASSUME NEW l \in Layers, ConvPerChannel(l) PROVE Quiet' /\ Loaded'
    <2>1. Quiet'
      BY <1>1, <1>n, KeepQuiet DEF ConvPerChannel, device
    <2> QED
      BY <1>1, <2>1 DEF ConvPerChannel, Loaded
  <1>2. CASE CopyInputs
    <2>1. Wanted("inputs") = InputOf(call, batch)
      BY DEF Wanted
    <2>2. Quiet'
      BY <1>2, <2>1, <1>n, StartQuiet DEF CopyInputs, Spads
    <2> QED
      BY <1>2, <2>2, CopyingFacts DEF CopyInputs, Loaded
  <1>3. CASE CopyWeights
    <2>1. Wanted("weights") = WeightsOf(call, oc)
      BY DEF Wanted
    <2>2. Quiet'
      BY <1>3, <2>1, <1>n, StartQuiet DEF CopyWeights, Spads
    <2>3. Loaded'
      BY <1>3, CopyingFacts DEF CopyWeights, Loaded, InputOf
    <2> QED
      BY <2>2, <2>3
  <1>4. CASE CopyBias
    <2>1. Wanted("bias") = BiasOf(call, layer, oc)
      BY DEF Wanted
    <2>2. Quiet'
      BY <1>4, <2>1, <1>n, StartQuiet DEF CopyBias, Spads
    <2>3. Loaded'
      BY <1>4, CopyingFacts DEF CopyBias, Loaded, InputOf, WeightsOf
    <2> QED
      BY <2>2, <2>3
  <1>5. CASE NoBias
    <2>1. Quiet'
      BY <1>5, <1>n, KeepQuiet DEF NoBias, device
    <2> QED
      BY <1>5, <2>1 DEF NoBias, device, Loaded, InputOf, WeightsOf
  <1>6. ASSUME NEW to \in Spads, DmaSeen(to) PROVE Quiet' /\ Loaded'
    <2>1. Quiet' /\ spad[to] = Wanted(to)
      BY <1>6, SeenQuiet
    <2>2. UNCHANGED <<call, layer, batch, oc, spad>> /\ pc = Copying[to]
          /\ pc' = AfterCopy[to]
      BY <1>6 DEF DmaSeen
    <2>3. CASE to = "inputs"
      <3>1. pc' = "weights" /\ spad["inputs"] = InputOf(call, batch)
        BY <2>1, <2>2, <2>3 DEF AfterCopy, Wanted
      <3> QED
        BY <2>1, <2>2, <3>1 DEF Loaded, InputOf
    <2>4. CASE to = "weights"
      <3>1. pc' = "bias" /\ pc = "weights copied" /\ spad["weights"] = WeightsOf(call, oc)
        BY <2>1, <2>2, <2>4, CopyingFacts DEF AfterCopy, Wanted
      <3> QED
        BY <2>1, <2>2, <3>1 DEF Loaded, InputOf, WeightsOf
    <2>5. CASE to = "bias"
      <3>1. pc' = "run" /\ pc = "bias copied" /\ spad["bias"] = BiasOf(call, layer, oc)
        BY <2>1, <2>2, <2>5, CopyingFacts DEF AfterCopy, Wanted
      <3> QED
        BY <2>1, <2>2, <3>1 DEF Loaded, InputOf, WeightsOf, BiasOf
    <2> QED
      BY <2>3, <2>4, <2>5 DEF Spads
  <1>7. ASSUME NEW to \in Spads, DmaTimeout(to) PROVE Quiet' /\ Loaded'
    BY <1>7
  <1>8. CASE RunArray
    <2>1. Quiet'
      BY <1>8, <1>n, KeepQuiet DEF RunArray
    <2> QED
      BY <1>8, <2>1 DEF RunArray, Loaded, InputOf, WeightsOf, BiasOf
  <1>9. CASE StoreOneChannel
    <2>1. Quiet'
      BY <1>9, <1>n, KeepQuiet DEF StoreOneChannel, device
    <2>2. pc' = "weights" => batch' = batch
      BY <1>9, LayerFacts DEF StoreOneChannel, NextChannel, TypeOK
    <2>3. pc' \in {"weights", "inputs", "idle"} /\ UNCHANGED <<call, spad>> /\ pc = "running"
      BY <1>9 DEF StoreOneChannel, NextChannel, device
    <2> QED
      BY <2>1, <2>2, <2>3 DEF Loaded, InputOf
  <1>10. CASE ArrayTimeout
    <2>1. Quiet'
      BY <1>10, <1>n, KeepQuiet DEF ArrayTimeout, device
    <2> QED
      BY <1>10, <2>1 DEF ArrayTimeout, Loaded
  <1>11. CASE Processor
    <2>1. Quiet'
      BY <1>11, <1>n, KeepQuiet DEF Processor, device
    <2> QED
      BY <1>11, <2>1 DEF Processor, Loaded
  <1>12. CASE ArrayFinishes
    BY <1>12, SameQuiet DEF ArrayFinishes, software
  <1>13. ASSUME NEW ch \in 0..2, DmaTransfers(ch) PROVE Quiet' /\ Loaded'
    <2>1. PICK to \in Spads : pc = Copying[to] /\ spad' = [spad EXCEPT ![to] = Wanted(to)]
      BY <1>13, TransferQuiet
    <2>2. Quiet' /\ UNCHANGED <<pc, call, layer, batch, oc>>
      BY <1>13, TransferQuiet DEF DmaTransfers, software
    <2>3. DOMAIN spad = Spads /\ "inputs" \in Spads /\ "weights" \in Spads /\ "bias" \in Spads
      BY DEF TypeOK, Spads
    <2>4. CASE to = "inputs"
      BY <2>1, <2>2, <2>4, CopyingFacts DEF Loaded
    <2>5. CASE to = "weights"
      <3>1. pc = "weights copied" /\ spad'["inputs"] = spad["inputs"]
        BY <2>1, <2>3, <2>5, CopyingFacts
      <3> QED
        BY <2>2, <3>1 DEF Loaded, InputOf
    <2>6. CASE to = "bias"
      <3>1. pc = "bias copied" /\ spad'["inputs"] = spad["inputs"]
            /\ spad'["weights"] = spad["weights"]
        BY <2>1, <2>3, <2>6, CopyingFacts
      <3> QED
        BY <2>2, <3>1 DEF Loaded, InputOf, WeightsOf
    <2> QED
      BY <2>4, <2>5, <2>6 DEF Spads
  <1>14. CASE UNCHANGED vars
    BY <1>14, SameQuiet DEF vars
  <1> QED
    BY <1>1, <1>2, <1>3, <1>4, <1>5, <1>6, <1>7, <1>8, <1>9, <1>10, <1>11, <1>12,
       <1>13, <1>14 DEF Next, Driver, Hardware

-----------------------------------------------------------------------------
\* The array's registers, and what it has computed when it is done.
Running ==
  pc = "running" =>
    /\ csr = CsrsFor(layer)
    /\ array.done => spad_out = Value(spad["inputs"], spad["weights"], spad["bias"],
                                      ProgrammedParameters)

LEMMA RunningStep ==
  ASSUME TypeOK, Quiet, Running, [Next]_vars PROVE Running'
  <1>1. ASSUME NEW l \in Layers, ConvPerChannel(l) PROVE Running'
    BY <1>1 DEF ConvPerChannel, Running
  <1>2. CASE CopyInputs \/ CopyWeights \/ CopyBias
    BY <1>2, CopyingFacts DEF CopyInputs, CopyWeights, CopyBias, Running, Copying
  <1>3. CASE NoBias
    BY <1>3 DEF NoBias, Running
  <1>4. ASSUME NEW to \in Spads, DmaSeen(to) \/ DmaTimeout(to) PROVE Running'
    BY <1>4, CopyingFacts DEF DmaSeen, DmaTimeout, Running
  <1>5. CASE RunArray
    BY <1>5 DEF RunArray, Running
  <1>6. CASE StoreOneChannel
    BY <1>6 DEF StoreOneChannel, NextChannel, Running
  <1>7. CASE ArrayTimeout \/ Processor
    BY <1>7 DEF ArrayTimeout, Processor, Running
  <1>8. CASE ArrayFinishes
    BY <1>8 DEF ArrayFinishes, Running, software, ProgrammedParameters
  <1>9. ASSUME NEW ch \in 0..2, DmaTransfers(ch) PROVE Running'
    <2>1. pc # "running"
      BY <1>9, TransferQuiet, NotCopying
    <2> QED
      BY <1>9, <2>1 DEF DmaTransfers, software, Running
  <1>10. CASE UNCHANGED vars
    BY <1>10 DEF vars, Running, ProgrammedParameters
  <1> QED
    BY <1>1, <1>2, <1>3, <1>4, <1>5, <1>6, <1>7, <1>8, <1>9, <1>10 DEF Next, Driver, Hardware

\* Layers for which the theorem speaks.
Programmable(l) == Expressible(l) /\ l.bias

\* What the array has computed when it is done is what the processor would compute.
LEMMA ArrayRight ==
  ASSUME TypeOK, Looping, Loaded, Running, pc = "running", array.done, Programmable(layer)
  PROVE  spad_out = Reference(call, layer, batch, oc)
  <1>1. layer.mult \in Nat /\ layer.shift \in Int /\ layer \in Layer
    BY LayerFacts, ConstantFacts DEF TypeOK
  <1>2. layer.stride = <<layer.stride[1], layer.stride[1]>>
    BY <1>1 DEF Programmable, Expressible, Layer, Pairs
  <1>3. QuantMultForCsr(layer.mult) = layer.mult /\ -QuantShiftForCsr(layer.shift) = layer.shift
    BY <1>1 DEF Programmable, Expressible, QuantMultForCsr, QuantShiftForCsr, CsrMultRange,
                CsrShiftRange
  <1>4. /\ csr.stride = layer.stride[1] /\ csr.mult = QuantMultForCsr(layer.mult)
        /\ csr.shift = QuantShiftForCsr(layer.shift)
    BY DEF Running, CsrsFor
  <1>5. ProgrammedParameters = [stride |-> layer.stride, mult |-> layer.mult,
                                shift |-> layer.shift, offset |-> layer.offset]
    BY <1>2, <1>3, <1>4 DEF ProgrammedParameters, Programmable, Expressible
  <1> QED
    BY <1>5 DEF Running, Loaded, Reference, Programmable

\* The channels behind the driver are stored.
Stored ==
  pc \notin {"idle", "processor"} /\ Programmable(layer) =>
    \A b \in 1..layer.batches, c \in 1..layer.out_c :
      b < batch \/ (b = batch /\ c < oc) => output[<<b, c>>] = Reference(call, layer, b, c)

LEMMA StoredStep ==
  ASSUME TypeOK, Looping, Loaded, Running, Stored, ResultsRight, [Next]_vars
  PROVE  Stored' /\ ResultsRight'
  <1>l. layer.batches \in Nat \ {0} /\ layer.out_c \in Nat \ {0} /\ batch \in Nat /\ oc \in Nat
    BY LayerFacts DEF TypeOK
  <1>r. \A n, l, b, c : Reference(n, l, b, c)' = Reference(n, l, b, c)
    BY DEF Reference, Value, InputOf, WeightsOf, BiasOf
  <1>1. ASSUME NEW l \in Layers, ConvPerChannel(l) PROVE Stored' /\ ResultsRight'
    <2>1. /\ pc' # "idle" /\ layer' = l /\ batch' = 1 /\ oc' = 1
      BY <1>1 DEF ConvPerChannel
    <2>2. l.batches \in Nat \ {0} /\ l.out_c \in Nat \ {0}
      BY LayerFacts
    <2> QED
      BY <2>1, <2>2 DEF Stored, ResultsRight
  <1>2. ASSUME UNCHANGED <<call, layer, batch, oc, output>>,
               pc \notin {"idle", "processor"}, pc' # "idle"
        PROVE  Stored' /\ ResultsRight'
    BY <1>2 DEF Stored, ResultsRight, Reference, Programmable, Expressible, InputOf,
       WeightsOf, BiasOf
  <1>3. CASE CopyInputs \/ CopyWeights \/ CopyBias
    BY <1>2, <1>3, CopyingFacts DEF CopyInputs, CopyWeights, CopyBias
  <1>4. CASE NoBias \/ RunArray \/ ArrayTimeout
    BY <1>2, <1>4 DEF NoBias, RunArray, ArrayTimeout
  <1>5. ASSUME NEW to \in Spads, DmaSeen(to) \/ DmaTimeout(to) PROVE Stored' /\ ResultsRight'
    <2>1. pc = Copying[to] /\ pc' \in {AfterCopy[to], "processor"}
          /\ UNCHANGED <<call, layer, batch, oc, output>>
      BY <1>5 DEF DmaSeen, DmaTimeout
    <2>2. pc' # "idle" /\ pc \notin {"idle", "processor"}
      BY <2>1, CopyingFacts
    <2> QED
      BY <1>2, <2>1, <2>2
  <1>6. CASE StoreOneChannel
    <2>1. /\ UNCHANGED <<call, layer>> /\ pc = "running" /\ array.done /\ NextChannel
          /\ output' = [output EXCEPT ![<<batch, oc>>] = spad_out]
          /\ batch <= layer.batches /\ CanRunPointwise(layer)
      BY <1>6 DEF StoreOneChannel, Looping
    <2>2. DOMAIN output = Cells(layer) /\ <<batch, oc>> \in Cells(layer)
      BY <1>l, <2>1 DEF TypeOK, Cells
    <2> SUFFICES ASSUME Programmable(layer) PROVE Stored' /\ ResultsRight'
      BY <2>1 DEF Stored, ResultsRight, Programmable, Expressible, CanRunPointwise
    <2>3. spad_out = Reference(call, layer, batch, oc)
      BY <2>1, ArrayRight
    <2>4. ASSUME NEW b \in 1..layer.batches, NEW c \in 1..layer.out_c,
                 b < batch \/ (b = batch /\ c <= oc)
          PROVE  output'[<<b, c>>] = Reference(call, layer, b, c)
      <3>1. CASE b = batch /\ c = oc
        BY <2>1, <2>2, <2>3, <3>1
      <3>2. CASE b # batch \/ c # oc
        <4>1. output[<<b, c>>] = Reference(call, layer, b, c)
          BY <1>l, <2>1, <2>4, <3>2 DEF Stored
        <4>2. <<b, c>> \in Cells(layer) /\ <<b, c>> # <<batch, oc>>
          BY <3>2 DEF Cells
        <4> QED
          BY <2>1, <2>2, <4>1, <4>2
      <3> QED
        BY <3>1, <3>2
    <2>5. Stored'
      <3> SUFFICES ASSUME NEW b \in 1..layer.batches, NEW c \in 1..layer.out_c,
                          b < batch' \/ (b = batch' /\ c < oc')
                   PROVE  output'[<<b, c>>] = Reference(call, layer, b, c)
        BY <1>r, <2>1 DEF Stored, Reference, InputOf, WeightsOf, BiasOf
      <3>1. b < batch \/ (b = batch /\ c <= oc)
        BY <1>l, <2>1 DEF NextChannel, TypeOK
      <3> QED
        BY <2>4, <3>1
    <2>6. ResultsRight'
      <3> SUFFICES ASSUME pc' = "idle" PROVE OutputIsReference'
        BY DEF ResultsRight
      <3>1. oc = layer.out_c /\ batch = layer.batches
        BY <1>l, <2>1 DEF NextChannel, TypeOK
      <3>2. \A b \in 1..layer.batches, c \in 1..layer.out_c :
              output'[<<b, c>>] = Reference(call, layer, b, c)
        <4> SUFFICES ASSUME NEW b \in 1..layer.batches, NEW c \in 1..layer.out_c
                     PROVE  output'[<<b, c>>] = Reference(call, layer, b, c)
          OBVIOUS
        <4>1. b < batch \/ (b = batch /\ c <= oc)
          BY <1>l, <3>1
        <4> QED
          BY <2>4, <4>1
      <3>3. \A cell \in Cells(layer) :
              output'[cell] = Reference(call, layer, cell[1], cell[2])
        BY <3>2 DEF Cells
      <3> QED
        BY <2>1, <3>3 DEF OutputIsReference, Reference, InputOf, WeightsOf, BiasOf, Cells
    <2> QED
      BY <2>5, <2>6
  <1>7. CASE Processor
    BY <1>7 DEF Processor, Stored, ResultsRight, OutputIsReference, Reference, InputOf,
       WeightsOf, BiasOf, Cells
  <1>8. CASE Hardware \/ UNCHANGED vars
    <2>1. UNCHANGED <<pc, call, layer, batch, oc, output>>
      BY <1>8 DEF Hardware, ArrayFinishes, DmaTransfers, software, vars
    <2> QED
      BY <2>1 DEF Stored, ResultsRight, OutputIsReference, Reference, InputOf, WeightsOf, BiasOf,
         Cells, Programmable, Expressible, CanRunPointwise
  <1> QED
    BY <1>1, <1>3, <1>4, <1>5, <1>6, <1>7, <1>8 DEF Next, Driver

RInv == TypeOK /\ Looping /\ Quiet /\ Loaded /\ Running /\ Stored /\ ResultsRight

LEMMA InitR == Init => RInv
  <1> SUFFICES ASSUME Init PROVE RInv
    OBVIOUS
  <1>1. \A to \in Spads : ~dma[Channel[to]].busy /\ ~dma[Channel[to]].done
    BY CopyingFacts DEF Init, IdleDma
  <1>2. TypeOK /\ pc = "idle" /\ call = 0
    BY InitType DEF Init
  <1> QED
    BY <1>1, <1>2 DEF RInv, Looping, Quiet, Loaded, Running, Stored, ResultsRight

LEMMA RStep == (\A to \in Spads : ~DmaTimeout(to)) /\ RInv /\ [Next]_vars => RInv'
  BY TypeStep, QuietStep, RunningStep, StoredStep DEF RInv

LEMMA LoadedQuiet == RInv => SpadsLoaded
  <1> SUFFICES ASSUME RInv, pc = "running" PROVE SpadsLoaded
    BY DEF SpadsLoaded
  <1>1. \A ch \in 0..2 : ~dma[ch].busy
    BY NotCopying, SpadFacts DEF RInv, Quiet
  <1> QED
    BY <1>1 DEF RInv, Loaded, SpadsLoaded

\* What holds until the driver gives up waiting for a copy.
UntilAbandoned == TypeOK /\ Looping /\ (~abandoned => RInv)

\* Whatever is too slow and whichever copies are given up later: up to the first
\* of them the output of every call is that of the processor, whether the array
\* computed it, or part of it, or nothing, for layers whose parameters the registers
\* can hold and that have a bias; and nothing is loaded while the array runs, on the
\* data of its own batch and channel.
THEOREM FallsBackUntilAbandoned == MCSpec => []RightUntilAbandoned
  <1>1. MCInit => UntilAbandoned
    BY InitR DEF MCInit, UntilAbandoned, RInv
  <1>2. UntilAbandoned /\ [MCNext]_<<vars, abandoned>> => UntilAbandoned'
    <2> SUFFICES ASSUME UntilAbandoned, [MCNext]_<<vars, abandoned>> PROVE UntilAbandoned'
      OBVIOUS
    <2>1. [Next]_vars
      BY DEF MCNext
    <2>2. TypeOK' /\ Looping'
      BY <2>1, TypeStep DEF UntilAbandoned
    <2>3. ASSUME ~abandoned' PROVE RInv'
      <3>1. CASE MCNext
        <4>1. ~abandoned /\ \A to \in Spads : ~DmaTimeout(to)
          BY <2>3, <3>1 DEF MCNext
        <4> QED
          BY <2>1, <4>1, RStep DEF UntilAbandoned
      <3>2. CASE UNCHANGED <<vars, abandoned>>
        <4>1. ~abandoned /\ \A to \in Spads : ~DmaTimeout(to)
          BY <2>3, <3>2, NotCopying DEF DmaTimeout, vars
        <4> QED
          BY <2>1, <4>1, RStep DEF UntilAbandoned
      <3> QED
        BY <3>1, <3>2
    <2> QED
      BY <2>2, <2>3 DEF UntilAbandoned
  <1>3. UntilAbandoned => RightUntilAbandoned
    BY LoadedQuiet DEF UntilAbandoned, RightUntilAbandoned, RInv
  <1> QED
    BY <1>1, <1>2, <1>3, PTL DEF MCSpec

\* Where no copy can time out, the same holds throughout.
THEOREM FallsBackExactly ==
  ASSUME "dma" \notin Faults PROVE Spec => [](ResultsRight /\ SpadsLoaded)
  <1>1. Init => RInv
    BY InitR
  <1>2. RInv /\ [Next]_vars => RInv'
    BY RStep DEF DmaTimeout
  <1>3. RInv => ResultsRight /\ SpadsLoaded
    BY LoadedQuiet DEF RInv
  <1> QED
    BY <1>1, <1>2, <1>3, PTL DEF Spec

=============================================================================
