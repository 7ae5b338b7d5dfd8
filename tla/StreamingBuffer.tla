---------------------------- MODULE StreamingBuffer ----------------------------
(***************************************************************************)
(* Strided streaming models: chains of the CIRCULAR_BUFFER operator of      *)
(* kernels/circular_buffer.cc.  An operator keeps its last inputs in its    *)
(* output tensor and lets the operators behind it run at one invocation in  *)
(* cycles_max only; at the others it ends the run of the graph with         *)
(* kTfLiteAbort.  Models are prepared in one process one after another.     *)
(*                                                                          *)
(* What flows through a model is the number of the invocation that it is    *)
(* computed from; 0 is what a zeroed variable holds.                        *)
(***************************************************************************)
EXTENDS Naturals, Sequences

CONSTANTS
  Models,       \* each a sequence of layers, see Layer
  Resets,       \* the application resets the interpreter
  MaxModels, MaxInvokes

\* An operator: the slots of its output, whether each is 2 by 96 values, and
\* cycles_max in the model file, 0 when the file has none.
Layer(slots, wide, cycles) == [slots |-> slots, wide |-> wide, cycles |-> cycles]

VARIABLES
  pc,                 \* "none", "preparing", "ready" or "running"
  model,
  cb_prepare_count,   \* a static of CircularBufferPrepare
  cycles_max,         \* of the operators prepared so far
  cycles_until_run,
  output,             \* of each operator: what is in its slots
  op,                 \* the operator that runs next
  now,                \* the number of the invocation
  zeroed,             \* the number of the last one before the last reset
  answer,             \* of the last one
  models              \* begun

data == <<cycles_max, cycles_until_run>>
vars == <<pc, model, cb_prepare_count, data, output, op, now, zeroed, answer, models>>

Zeroed(m) == [k \in DOMAIN m |-> [s \in 1..m[k].slots |-> 0]]

Init ==
  /\ pc = "none" /\ model = <<>> /\ cb_prepare_count = 0
  /\ cycles_max = <<>> /\ cycles_until_run = <<>> /\ output = <<>>
  /\ op = 1 /\ now = 0 /\ zeroed = 0 /\ answer = "none" /\ models = 0

-----------------------------------------------------------------------------
(* CircularBufferInit and CircularBufferPrepare. *)

StartModel ==
  /\ pc \in {"none", "ready"} /\ models < MaxModels
  /\ \E m \in Models : model' = m /\ output' = Zeroed(m)
  /\ pc' = "preparing" /\ models' = models + 1
  /\ cycles_max' = <<>> /\ cycles_until_run' = <<>>
  /\ op' = 1 /\ now' = 0 /\ zeroed' = 0 /\ answer' = "none"
  /\ UNCHANGED cb_prepare_count

\* The last operator of a model runs at every invocation; it is told by its shape,
\* count being the number of the operator.
RunsAlways(layer, count) ==
  layer.slots \in {5, 13, 25} \/ (count = 5 /\ layer.wide)

Period(layer, count) ==
  IF layer.cycles > 0 THEN layer.cycles ELSE IF RunsAlways(layer, count) THEN 1 ELSE 2

\* The count after an operator is prepared, and before the next.
Counted(layer, count) ==
  IF layer.cycles > 0 THEN count
  ELSE IF RunsAlways(layer, count + 1) THEN 0 ELSE count + 1

PrepareLayer ==
  /\ pc = "preparing"
  /\ cycles_max' = Append(cycles_max, Period(model[op], cb_prepare_count + 1))
  /\ cycles_until_run' = Append(cycles_until_run, cycles_max'[op])
  /\ cb_prepare_count' = Counted(model[op], cb_prepare_count)
  /\ IF op < Len(model) THEN op' = op + 1 /\ UNCHANGED pc ELSE op' = 1 /\ pc' = "ready"
  /\ UNCHANGED <<model, output, now, zeroed, answer, models>>

\* Another kernel of the model fails, or a tensor has the wrong shape.
PrepareFails ==
  /\ pc = "preparing"
  /\ pc' = "none"
  /\ UNCHANGED <<model, cb_prepare_count, data, output, op, now, zeroed, answer, models>>

-----------------------------------------------------------------------------
(* CircularBufferEval, in the loop of InvokeSubgraph. *)

StartInvoke ==
  /\ pc = "ready" /\ now < MaxInvokes
  /\ pc' = "running" /\ op' = 1 /\ now' = now + 1
  /\ UNCHANGED <<model, cb_prepare_count, data, output, zeroed, answer, models>>

\* A bug: the newest input goes to the front, and all others move back.
BugShifted(slots, input) == <<input>> \o SubSeq(slots, 1, Len(slots) - 1)

\* EvalInt8.
Shifted(slots, input) == Append(Tail(slots), input)

RunLayer ==
  /\ pc = "running"
  /\ output' = [output EXCEPT ![op] = Shifted(@, now)]
  /\ IF cycles_until_run[op] # 1
     THEN /\ cycles_until_run' = [cycles_until_run EXCEPT ![op] = @ - 1]
          /\ pc' = "ready" /\ answer' = "abort" /\ op' = 1
     ELSE /\ cycles_until_run' = [cycles_until_run EXCEPT ![op] = cycles_max[op]]
          /\ IF op < Len(model) THEN op' = op + 1 /\ UNCHANGED <<pc, answer>>
             ELSE op' = 1 /\ pc' = "ready" /\ answer' = "ok"
  /\ UNCHANGED <<model, cb_prepare_count, cycles_max, now, zeroed, models>>

\* The operator has no reset; its output is a variable of the model.
Reset ==
  /\ Resets /\ pc = "ready"
  /\ output' = Zeroed(model) /\ zeroed' = now
  /\ UNCHANGED <<pc, model, cb_prepare_count, data, op, now, answer, models>>

Next == StartModel \/ PrepareLayer \/ PrepareFails \/ StartInvoke \/ RunLayer \/ Reset

Spec == Init /\ [][Next]_vars

-----------------------------------------------------------------------------
(* Properties. *)

Layers == DOMAIN model

\* One layer runs at the invocations whose number its stride divides.
Stride[k \in Nat] == IF k = 0 THEN 1 ELSE Stride[k - 1] * cycles_max[k]

\* The state has its types, and no countdown has reached zero.
TypeOK ==
  /\ pc \in {"none", "preparing", "ready", "running"}
  /\ answer \in {"none", "ok", "abort"}
  /\ cb_prepare_count \in Nat /\ now \in 0..MaxInvokes /\ zeroed \in 0..now
  /\ op \in 1..Len(model) + 1
  /\ Len(cycles_until_run) = Len(cycles_max)
  /\ \A k \in DOMAIN cycles_max : cycles_until_run[k] \in 1..cycles_max[k]
  /\ pc \in {"ready", "running"} =>
       /\ Len(cycles_max) = Len(model)
       /\ \A k \in Layers : Len(output[k]) = model[k].slots

\* The strides of the operators multiply: an invocation succeeds, and the model has
\* a result, exactly when the countdowns of all of its operators end together.
StridesMultiply ==
  pc = "ready" /\ now > 0 =>
    answer = IF now % Stride[Len(model)] = 0 THEN "ok" ELSE "abort"

\* What is in the slots of an operator are its last inputs since the last reset, the
\* oldest first and none missing, although most invocations end before it.
SlotsAreLastInputs ==
  pc = "ready" =>
    \A k \in Layers : \A s \in 1..model[k].slots :
      LET latest == (now \div Stride[k - 1]) * Stride[k - 1]
          back == (model[k].slots - s) * Stride[k - 1]
      IN output[k][s] = IF latest > zeroed + back THEN latest - back ELSE 0

=============================================================================
