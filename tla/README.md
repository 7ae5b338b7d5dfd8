# TLA+ models of this TensorFlow Lite Micro fork

This directory holds formal models of the parts of this repository that keep
state: the memory system and the life of the interpreter in
`src/tensorflow/lite/micro/`, the drivers of its convolution accelerator, the
streaming kernels of the signal library, the decoders of compressed tensors, and
the person detection application with its flash reader. TLC checks the models on
small instances; TLAPS proves the central invariants for every value of the
constants. Paths below are relative to `src/tensorflow/lite/micro/` unless they
start with `src/`.

The repository is a fork of TFLM for a bare-metal RISC-V target. There are no
threads and no interrupts. What is hard about it is the order of the calls, an
early return anywhere inside a long protocol, arithmetic on addresses and positions
at their limits, memory that several parties reuse on trust, and hardware that may
answer late or never.

## 1. Inventory

| Component | State | Operations | Model |
|---|---|---|---|
| `SingleArenaBufferAllocator` | `head_`, `tail_`, `temp_`, temp count and XOR check sum | persistent buffers from the tail, one resizable head section, a chain of temp buffers, audit and reset | `Arena`, `SingleArena` |
| `Persistent…`, `NonPersistentArenaBufferAllocator` | the same in two arenas | the same interface | `SplitArenas` |
| Recording allocators | counters, snapshots, buckets | every allocation, by bucket | `RecordingArena` |
| `GreedyMemoryPlanner` | requirements, sorted ids, list by offset, offsets, plan flag | `Init`, `AddBuffer`, getters that calculate on demand | `GreedyPlanner` |
| `LinearMemoryPlanner`, `NonPersistentMemoryPlannerShim` | offsets; a plan made elsewhere | the same interface | `SimplePlanners` |
| `MicroAllocator` | `model_is_allocating_`, scratch requests, `max_head_buffer_usage_` | start, requests, finish of an allocation; kernels' buffers | `ModelAllocation` |
| `AllocationInfoBuilder` | lifetimes | walk along the called subgraphs | `Lifetimes`, `ModelAllocation` |
| `MicroInterpreterGraph` | current subgraph and operator | init, prepare, invoke, reset, free | `GraphExecution`, `ModelAllocation`, `Interpreter` |
| `MicroInterpreter`, its context | `tensors_allocated_`, status, `InterpreterState` | `AllocateTensors`, `Invoke`, `Reset`, destruction | `Interpreter` |
| Decompression memory | regions with counters | set, allocate, reset | `DecompressionMemory` |
| `MicroResourceVariables` | table of variables | create, allocate once, read, assign, reset | `ResourceVariables` |
| `MicroMutableOpResolver` | registrations, and parsers beside them | add, find | `OpResolver` |
| `MicroProfiler` | events, ticks per tag | begin, end, clear, report | `MicroProfiler` |
| Decoders of DECODE | position in the bit stream | decode | `HuffmanDecode`, `LutDecode`, `PruneDecode` |
| CIRCULAR_BUFFER operator | countdown, slots, a static count of layers | prepare, eval | `StreamingBuffer` |
| Signal library | the circular buffer, states of the framer, stacker, overlap-add | push samples, take frames, reset | `CircularBuffer` … `OverlapAdd` |
| Convolution accelerator drivers | scratchpads, registers, DMA channels | `ConvPerChannel` with its fallback | `ConvAccel`, `ConvTiling` |
| Person detection | interpreter, input, image number | `setup`, `loop`, `main` | `PersonDetection` |
| QSPI reader | FIFOs of the controller | `qspi_read8` | `FlashRead` |

How a model gets into the arena: `MicroInterpreter::AllocateTensors` asks
`MicroAllocator::StartModelAllocationDirect` for the persistent structures, then
lets every kernel's `init` and `prepare` run. A kernel may take persistent buffers
and temp buffers, and may request scratch buffers: a request is a record written
into the *head section*, which is enlarged after each operator
(`FinishPrepareNodeAllocations`). `FinishModelAllocation` then plans: lifetimes and
the planner's own memory are temp buffers, the plan is made by the planner, all of
that is given back, the head section is released and set anew, as the *overlay* in
which tensors and scratch buffers live while the model is invoked. A second
interpreter on the same `MicroAllocator` repeats all of it over the same overlay.
`Invoke` runs the operators of subgraph 0; `IF`, `WHILE` and `CALL_ONCE` call
`InvokeSubgraph` from within. A pointwise convolution may be handed to the array,
which the driver feeds by DMA and waits for with counters; whatever fails there is
computed on the processor.

In this fork `PrepareNodeAndRegistrationDataFromFlatbuffer` (`micro_interpreter.cc:581`)
refuses custom operators and every built-in but `DEPTHWISE_CONV_2D`, `CONV_2D`,
`AVERAGE_POOL_2D`, `RESHAPE` and `SOFTMAX`. Control flow, variables, streaming and
DECODE are compiled and tested but do not get through `MicroInterpreter`; their
models take the graph, the kernels and the lifetime walk as the source has them.
`conv_accel.h` and `conv_accel copy 2.h` are replacements of `conv.h` that no file
includes at this commit.

`PROJECT.json` lists the components with what is modelled of them, and under
`hazards` what is hard to test, at the line where it bites, with the properties that
cover it.

## 2. Modules

```
Arena ───► SingleArena ──implements──► BufferAllocator ◄──implements── SplitArenas
  ├──────► RecordingArena
  └──────► ModelAllocation ──implements──► Tenancy
GreedyPlanner, SimplePlanners ──implement──► MemoryPlan
Lifetimes ──► GraphExecution         Interpreter
CircularBuffer ──► CircularBufferCalls ──implements──► SlidingWindow
       └─────────► Framer, Stacker
OverlapAdd  StreamingBuffer          ConvAccel  ConvTiling
DecompressionMemory  HuffmanDecode  LutDecode  PruneDecode
OpResolver  ResourceVariables  MicroProfiler  PersonDetection  FlashRead
```

`…Proofs` modules hold the theorems about the module they are named after.
Variables keep the names of the source. Definitions with names that start with `Bug`
are not part of a specification: each is a definition of the model changed by a
plausible mistake, and substituting it makes the property named in `PROJECT.json` fail.

### Memory

* **`Arena`** – the pointer arithmetic of `single_arena_buffer_allocator.cc` and
  `memory_helpers.cc` as operators on a record of the allocator's fields. Each call is a
  predicate (does it succeed?) and a function (the fields afterwards). Addresses wrap
  at `AddressSpace`; the check sum is a set of bit positions, so that XOR is the
  symmetric difference. The `…Direct` methods repeat the virtual ones and share their
  definitions.
* **`SingleArena`** – the allocator with a client that keeps to the interface, and the
  blocks that the client holds. Persistent buffers and temp buffers are kept apart only as
  long as the temp chain ends below the tail, and `PersistentIntact` says so. **`BufferAllocator`** is the contract of
  `ibuffer_allocator.h` in terms of blocks. It says nothing of persistent against temp
  buffers, because there the code does not keep what is documented (section 4).
* **`SplitArenas`** – the two-arena allocators against the same contract. The end of an
  arena is taken to be aligned like its start (`Create` aligns the start only). A
  count is needed beside the XOR check sum there too.
* **`RecordingArena`** – the counters, a snapshot before each function and its bucket
  after it, calls that fail half-way included. Two buckets stand for the seven. `Direct`
  names what bypasses the counters; as this fork has it, that is the head section after
  the start of an allocation and kernels' persistent buffers.
* **`GreedyPlanner`** – one step per loop iteration. The linked list of `ListEntry` is a
  sequence of buffers; indices start at 1. **`SimplePlanners`** are the linear planner
  and the shim as `CommitStaticMemoryPlan` uses them. **`MemoryPlan`** is what
  `micro_memory_planner.h` promises: offsets, once given, are a sound layout of all buffers.
* **`ModelAllocation`** – `MicroAllocator` and `AllocateTensors`. `pc` is the phase of the
  call; each step is one request to the arena or one operation of a kernel, so an
  early return can come between any two. Kernels choose freely between taking, returning
  and leaking buffers, requesting scratch memory, and failing. Of the planner only the
  size of a plan is used. Two variables are not in the code: `owned`, the persistent
  buffers before this allocation, and `left`, temp buffers that earlier kernels have kept. **`Tenancy`** is what interpreters that share an arena may rely on:
  one allocation at a time, only a finished one makes a tenant, and the overlay is large
  enough for every tenant.

### Graph and interpreter

* **`Lifetimes`** – `InitializeAllocationInfo` and `MarkAllocationLifetimes`, a walk with an
  explicit stack over nested subgraphs and one counter. **`GraphExecution`** takes the
  lifetimes it gives and invokes the graph: which bytes hold which value is decided by
  lifetimes alone, so a read is right in *every* plan that keeps buffers with common
  lifetimes apart. Frames of `InvokeSubgraph` and of the control-flow kernels are a stack;
  failures unwind it. The patch that this fork makes after operator 29 of a subgraph
  (`micro_interpreter_graph.cc:892`) is modelled (`patched`).
* **`Interpreter`** – the constructor, `AllocateTensors`, `Invoke`, `Reset` and the
  destructor in any order, one step per callback of a kernel. An invocation runs all
  operators once: which subgraph runs when is `GraphExecution`'s. `AllocateTensors` may be
  called again after any success or failure. A node that a failed call has not reached
  holds garbage, and whoever follows it has `crashed`; so has a `Reset` before any model
  allocation. `completed` is the last allocation that succeeded.
* **`ResourceVariables`**, **`OpResolver`** – the table of variables through prepare, invoke
  and reset, with subgraphs that are called once, a table or an arena that is too small, and
  variables that are read but assigned nowhere; handles that a subgraph is given as
  inputs are left out. Registration and look-up of operators and their parsers.
* **`DecompressionMemory`** – regions, counters and resets as DECODE and kernels with
  compressed inputs use them in `Prepare` and in `Eval`, where the inputs of one kernel are
  decompressed in any order. **`HuffmanDecode`**, **`LutDecode`**, **`PruneDecode`** – the
  decoders word by word and element by element, with the tensors that `Setup` refuses. Bits behind the message are all 0 or
  all 1; the tables of a Huffman model are taken to be made for its code (`WellFormed`); an
  element of a LUT tensor is the table entry and the bits that its index is made of.
* **`MicroProfiler`** – events that overlap and a tick counter that wraps; clients clear and
  report with no event open, and no event is open for a whole period of the counter.

### Accelerator, signal, application

* **`ConvAccel`** – `conv_accel.h`: copies, registers, run, timeouts and fallback, with a
  DMA engine and an array (external) that finish in their own time. A value is an
  abstract sum that tells which data it was made of. **`ConvTiling`** – the tiles of
  `conv_accel copy 2.h`.
* **`CircularBuffer`** – every function of `circular_buffer.cc` as an operator;
  **`CircularBufferCalls`** the calls as actions; **`SlidingWindow`** what the header
  describes. `Reserving` adds writes through reserved pointers, `Misuses` the calls that
  the assertions let through although they break the buffer; it is empty in the run.
* **`Framer`**, **`Stacker`** (over `CircularBuffer`), **`OverlapAdd`** – lane by lane and frame
  by frame. **`StreamingBuffer`** – chains of CIRCULAR_BUFFER operators over invocations,
  resets, and two models in one process.
* **`PersonDetection`** – `main`, `setup`, `loop` and `GetImage` around an interpreter that may
  fail anywhere and whose arena keeps neither the image nor old scores.
* **`FlashRead`** – `qspi_read8` with its polls. A byte leaves the transmit FIFO when it is
  shifted out (external). The poll limits 100000, 10000 and 1024 are small numbers.

## 3. Runs

| Run | Module | Checks | Distinct states |
|---|---|---|---|
| `single_arena` | `SingleArena` | `PersistentIntact`, `TempsIntact`, `TempAuditExact`, `HeadFixedUnderTemps`, `KeepsContract` | 300 267 |
| `temps_guaranteed` | `SingleArena` | `TempsGuaranteed` | violated |
| `greedy_plan` | `MCGreedyPlanner` | `ListedApart`, `FirstFit`, `MaximumIsTight`, `PlanComplete`, `LargestFirst`, `KeepsPlan`, `Terminates` | 2 655 177 |
| `model_allocation` | `MCModelAllocation` | `RequestsUnharmed`, `RequestsOwned`, `HeadReleasable`, `Returns` | 235 193 |
| `tenancy` | `MCModelAllocation` | `TenantsIntact`, `KeepsTenancy` | 2 255 800 |
| `head_holds_next_requests` | `MCModelAllocation` | `HeadHoldsNextRequests` | violated |
| `graph_execution` | `MCGraphExecution` | `ReadsIntact`, `IndicesRight`, `ScratchDescribed`, `ErrorsReturn` | 30 844 |
| `interpreter` | `Interpreter` | `InvokesPrepared`, `OkWithoutTemps`, `PresentFreed`, `CallsReturn` | 6 858 |
| `conv_accel` | `MCConvAccel` | `RightUntilAbandoned`, `CopiesFit`, `CallsReturn` | 304 793 |
| `conv_tiling` | `MCConvTiling` | `OutputRight`, `Finishes` | 5 944 |
| `signal` | `MCSignal` | `StreamsRight`, `ChainsRight`, `ImplementsWindow` | 158 105 |
| `services` | `MCServices` | `MemoryRight`, `TablesRight`, `DecodedRight`, `ApplicationRight`, `NothingTakenBack`, `ServicesEnd` | 891 814 |

* `PersistentIntact`, `TempsIntact` – where blocks may be: persistent buffers stay apart from one
  another and from the head section, temp buffers too, and the two kinds from each other while the
  temp chain ends below the tail; `TempsGuaranteed` drops that condition, as the documentation
  does, and fails; `TempAuditExact` – the count and
  check sum allow a reset exactly when no temp buffer is held; `HeadFixedUnderTemps` – a step
  that moves `head_` finds no temp buffer; `KeepsContract` – the refinement of `BufferAllocator`.
* `ListedApart` – buffers in use together share no byte, at every moment of the placement;
  `PlanComplete` – no buffer is dropped; `FirstFit`, `LargestFirst` – the class comment of
  `greedy_memory_planner.h`; `MaximumIsTight` – the high-water mark is the end of some buffer and
  no buffer ends above it; `KeepsPlan` – the refinement of `MemoryPlan`; `Terminates`.
* `RequestsUnharmed` – nothing is placed over the request array, and it stays inside the head
  section; `RequestsOwned` – a request is assigned to the node that made it or to none, whatever
  failure is ignored: one left over by a `FinishPrepareNodeAllocations` that failed would go to a
  later node if its audit passed, but the temp buffer that was kept (`left`) makes every later audit
  fail, and with it the release of the head section;
  `HeadReleasable` – after planning only a leaked temp buffer keeps the head section from being
  released; `Returns` – `AllocateTensors` comes back.
* `TenantsIntact` – between allocations the plans of all tenants are in the head section and out of
  all persistent buffers. While another model is allocated, and for good once that has failed (the
  allocator then refuses everything), the head section is that model's, and the plans are no longer
  reserved; what is checked then is that they still overlap nothing that was persistent before, so
  that the tenants can be invoked. `KeepsTenancy` – the refinement of `Tenancy`.
* `ReadsIntact` – whatever a kernel reads has a place and is what was last written to it, by
  whichever subgraph, in every plan that respects the lifetimes; `IndicesRight` – each kernel sees
  its own node and an invocation leaves the indices as it found them, however it ends;
  `ScratchDescribed` – the scratch buffers with a size are exactly those of operators in subgraphs
  that are reached, through any operators; the others enter the plan with what was left in the
  arena; `ErrorsReturn` – a failure reaches the application.
* `InvokesPrepared` – a kernel is only invoked when all are initialised and prepared, and once tensors
  have been allocated nothing left in a node is followed, however often `AllocateTensors` was called
  and failed; the one exception, a call on allocated tensors that fails, is named in it (`HalfAllocated`);
  `OkWithoutTemps` – no success with a temp buffer left; `PresentFreed` – the destructor frees
  every kernel of the present allocation; `CallsReturn`.
* `RightUntilAbandoned` – outputs are complete and the processor's, although the array may stop
  in the middle of a layer; `CopiesFit` – copies are whole beats and stay inside the scratchpads;
  `OutputRight` – tiles cover the output exactly, and each holds what its inputs give;
  `CallsReturn`, `Finishes` – waits end.
* `ImplementsWindow` – the circular buffer is the sliding window of its header; `StreamsRight`,
  `ChainsRight` – outputs of the stateful kernels are functions of the whole stream since the
  last reset, across invocations, lanes and wraps of the buffer.
* `MemoryRight`, `TablesRight`, `DecodedRight`, `ApplicationRight`, `NothingTakenBack`,
  `ServicesEnd` – see the comments in `MCServices.tla`, which say what each part contributes.

**Ensembles.** `signal` and `services` check parts that share no state side by side: a
behaviour picks a `part` at the start and is from then on a behaviour of its module,
instantiated over a common pool of variables; those it does not use are `none`. Nothing
is lost by it, since these parts never interact in the code, and each of their
properties is a conjunction of the named invariants of each part. Those of every part were
also seen to fail with a changed definition of that part.

**Bounds.** The arena runs use 13 to 61 bytes in address spaces of 64 and 128
addresses, with alignments that do and do not change an address: enough for the arena
to be full at any point of a sequence of calls, and for every check on the room left to
succeed and to fail. `MaxPersistent`, `MaxTemps`, `MaxRequests`, `MaxKernelTemps` and
`MaxTenants` bound what clients hold. `TempChainFits` and `TempChainBound` stop following a
temp chain that has run away past the tail (section 4), where the target would need 2^32
bytes of buffers to come around. The planner run takes up to four buffers of sizes 1 and 2,
lifetimes within two operators and offline offset 1 or none, and of further shapes: a third
operator, an empty buffer, one of size 3 and offline offset 2. Three buffers are needed for a gap
between two active ones, four for an order of insertion that differs from both the order
of sizes and that of offsets. `MCModelAllocation` has a model with two subgraphs and three
operators, two of them with the same node index, and one with a variable; the second
tenant's plan may be smaller or larger than the first's. `MCGraphExecution` has branches
and loops whose subgraphs pass a tensor through, run one kernel or run two, operators that
share subgraphs, two levels of calls, a subgraph that nothing reaches whose operators request
scratch buffers, variables, weights, offline offsets, and a chain of 31 kernels that reaches the
patched operator. `Interpreter.cfg` has three operators, the fewest
with a first, a last and one between, and an arena that three allocations fill.
`MCConvAccel` has a convolution of two batches and two channels, one that fills the
scratchpads, one without bias and ones that must be refused, three calls in any order.
`MCConvTiling` cuts every image up to 3 by 5 into tiles for scratchpads of 6, 3 and 4 bytes.
The decoders see every message of four symbols, every bit width and channels that begin
everywhere in a group; the profiler's counter wraps after three ticks. `MCSignal` has chains of
two and three CIRCULAR_BUFFER operators, up to two models in one process and 13 invocations, so
that the last operator of a chain runs more than once; framers of up to two lanes, three frames per
invocation and frames of five samples; stackers of two channels and up to two frames on each
side, each for 8 steps, which is more than any capacity; and overlap-add of samples of three bits,
at most three frames deep, so that sums leave the range at both ends. `MCServices` has six turns of an application with three operators, and
reads from two addresses through a FIFO of 16 bytes whose polls give up after three.

**Deadlock** is not checked where a system really may stop: a full arena with no temp
buffer held; an allocator whose allocation has failed (`model_is_allocating_` stays set);
a destroyed interpreter; a program that has ended; a bounded number of calls. The greedy
planner and graph executions never stop, and there it is checked.

**Fairness.** `GreedyPlanner` assumes weak fairness of its loops, `ModelAllocation` of
`Framework` (the allocator and the loops over the operators), `GraphExecution` of `Execute`,
`Interpreter` of `Steps`, `ConvAccel` of `Driver`, the decoder and the application of their
next step: all plain sequential code that waits for nobody. It also says that a kernel comes
back. Nothing is assumed of what a client calls, of which kernel fails, or of hardware:
the DMA engine, the array and the flash controller may stall for ever, and waits must end by
their counters. The UART is taken never to stall.

**Provisos.** Some properties hold only up to a point, and say so:

* `PersistentIntact` – persistent against temp buffers while the temp chain ends below the tail
  (run `temps_guaranteed`).
* `RequestsUnharmed` – for allocations in which no failure of
  `FinishPrepareNodeAllocations` has been ignored (run `head_holds_next_requests`).
* `InvokesPrepared` – but for `HalfAllocated`; before the first success `Reset` and the destructor may
  follow garbage.
* `NullsFollowed` in `TablesRight` – a null pointer is followed by a reset after `AllocateTensors` ran
  out of room for a variable, and by a model that reads a variable it assigns nowhere.
* `RightUntilAbandoned` – until a copy has been given up while its channel was busy
  (`abandoned`), and for layers that have a bias and parameters the registers can hold
  (`Expressible`).
* `ResetRestores` in `NothingTakenBack` – while no CALL_ONCE has run.
* A report of the profiler is right the first time after `ClearEvents`.
* `InputsIntact` – what a DECODE has put into a region is right until the next DECODE of the graph.
* A recording allocator's buckets are right where nothing bypasses its counters.

## 4. Where the code and its documentation disagree

Two runs end in a counterexample.

* `head_holds_next_requests`: "the head section will at least hold kMaxScratchBuffersPerOp number
  of requests plus any requests from previous kernel requests" (`micro_allocator.h:54`), but
  `PrepareSubgraphs` ignores the status of the call that makes that room. In the trace a kernel keeps
  a temp buffer, so that the audit fails and the next kernel is prepared without the room;
  persistent buffers that fill the arena do the same.
* `temps_guaranteed`: a temp buffer is "guaranteed until" the next reset
  (`single_arena_buffer_allocator.h:79`), but a persistent allocation is compared with `head_` only
  (`single_arena_buffer_allocator.cc:594`) and may be placed over it.

Others were met while the models were written. No run states them now; the models have the
code's behaviour, and the properties are stated beside it (see the provisos).

* `GetAvailableMemory` "Returns the number of bytes available" (`ibuffer_allocator.h:93`), but
  wraps to a huge number when the rounded pointers have crossed; the planner may then be
  given memory above the tail. `NonPersistentArenaBufferAllocator` computes its room the same way.
* An unaligned arena means that "some head room will be wasted" (`micro_allocator.h:133`), but
  this fork's `Create` does not align it, and then no model can be allocated.
* `LinearMemoryPlanner` does not start over for the next model, and `CommitStaticMemoryPlan`
  (`micro_allocator.cc:1721`) reads its size through a cast to `GreedyMemoryPlanner`.
* `micro_interpreter.cc:702` casts any resolver to `MicroMutableOpResolver<5>`: with another
  number of operators its counter is read from the wrong place.
* Whether a variable is planned offline is looked up under its index in its own subgraph
  (`micro_allocator.cc:1574`), and an offline variable's bytes are shared after its last use
  although it "retains data throughout calls" (`docs/memory_management.md:210`).
* A scratch buffer of an operator that subgraph 0 does not reach has no size
  (`micro_allocation_info.cc:273`); `ScratchDescribed` says which ones have.
* The patch after operator 29 (`micro_interpreter_graph.cc:909`) changes its output.
* `AllocateTensors` called again, and failing midway, leaves `tensors_allocated_` set, so that
  `Invoke` runs kernels in state `kPrepare` (`micro_interpreter.cc:1268`). After a failed parse
  the destructor reads nodes that were never written (`micro_interpreter_graph.cc:426`), and so does
  `Reset`, which does not ask whether tensors are allocated.
* `Allocate` of a resource variable sets `bytes` before its allocation fails
  (`micro_resource_variable.cc:93`); a `Reset` then writes through a null pointer (line 141).
* `Reset` clears variables but not `has_run` of CALL_ONCE nor the countdown of CIRCULAR_BUFFER;
  a null container matches every container (`micro_resource_variable.cc:150`); the layer
  number of CIRCULAR_BUFFER counts over all models of the process.
* After a copy of `conv_accel.h` that timed out a later DONE ends the next wait
  (line 224); without a bias the last one is added (line 556); strides and multipliers that the
  registers cannot hold are not refused (lines 402 and 274).
* `CircularBufferShift` moves the read position of an empty buffer; `CircularBufferInit` and
  `CircularBufferReserveForWrite` check too little. A framer step longer than its frame and
  prefill, a stacker step longer than its stack and an overlap-add step longer than its frame
  leave their buffers; the runs use steps that do not. The framer keeps one valid flag for all
  frames of an invocation. Overlap-add saturates after each frame.
* A DECODE operator is given the same memory as the one before it, although that one's output may
  still have to be read (`kernels/decode.cc:71`); `SetDecompressionMemory` keeps the regions when their counters could
  not be allocated; what `Prepare` placed is still counted at the first `Eval`.
* The second report of `MicroProfiler` adds to the first; an event that has not ended lasts
  2^32 - 1 ticks; the limit of events is not checked with `NDEBUG`.
* `main` calls `loop` three times where its README promises continuous output; the images
  after the second are copied with the size of the input tensor.

## 5. Proofs

All theorems are proved by `tlapm` with its SMT, Zenon and LS4 backends, from assumptions named
in the modules: the arena lies inside the address space (`ArenaAssumption`), its start is
aligned for the requests made (`AlignedArenaAssumption`, or `AlignedArena` as a hypothesis), no
single request is larger than the addresses below the arena (`RequestAssumption`,
`SizeAssumption`) and the address space goes on above it (`TempAssumption`), creation succeeded (`CreateAssumption`, `OverheadAssumption`), the
capacities of scratchpads are positive (`CapacityAssumption`), the operators of a chain have
slots (`ChainsAssumption`), a request to the flash fits into its FIFO
(`ApplicationAssumption`), and of the parts of `services` what is said below. TLC evaluates
each of them with the values of its run.

* **`SingleArenaProofs`** – the invariants of `SingleArena`, and that it implements
  `BufferAllocator`. `IInv` adds `TempChain`: temp buffers are above `head_`, have a positive
  size, and the count is their number. The audit needs `CheckSumIsXor` too: a bit of the check
  sum is set when it is set in an odd number of the addresses held, which rests on a lemma on
  the parity of a finite set that gains or loses an element.
* **`GreedyPlannerProofs`** – `ListedApart`, `PlanComplete`, `GuardsSilent` (neither loop guard
  ever fires), `FirstFit`, `LargestFirst`, `MaximumIsTight`, and that `GreedyPlanner` implements `MemoryPlan`, for any
  number of buffers. `IInv` follows the calculation phase by phase: ids are filled from both
  ends without repetition (`Splitting`), are a permutation with the offline buffers in front
  (`PlacementOrder`), a pass of the sort without a swap has seen descending sizes (`Sorting`),
  the list holds the buffers placed so far in the order of their offsets (`Listing`,
  `ListOrdered`), every active entry passed ends at the candidate or is the prior one
  (`Searching`), each lower offset is taken (`NoLowerFit`), so the place found is free
  (`Settled`). `MaximumIsTight` needs that finitely many ends have a
  largest one: an induction on their number, done on a set of numbers by the well-foundedness
  of `Nat` (`LeastElement`, `LargestValue`).
* **`ModelAllocationProofs`** – `TenantsIntact`, `RequestsOwned`, `RequestsUnharmed`, `HeadReleasable` and that
  `ModelAllocation` implements `Tenancy`, for all models, sizes and numbers of tenants. `IInv` is
  `ArenaOrdered` (the head section ends below all persistent buffers), `CallState`
  (`model_is_allocating_` covers every phase but the last) and `OverlayReserved` (between
  allocations `head_` is exactly the start of the arena plus `max_head_buffer_usage_`, which no
  tenant exceeds). For the time of a further allocation `PlansBelowOwned` says that the
  plans lie below what was persistent before it, neither of which changes until it
  succeeds. `RequestsInv` adds that the requests begin where the head section does, which is
  the pointer its release compares, and that a request is late only when temp buffers are `left`
  (`AuditMatches`: with one of them held no audit passes). `RequestsUnharmed` also depends on the chain: `TempsInv` says that every temp buffer not given back is counted
  (`TempsCounted`), so that a chain is only rewound when none is left; that there is none in the
  phases between two users of temp buffers (`NoTempsBetween`); and that those of kernels and of the
  planner lie above the head section (`KernelChain`, `PlanningChain`). For this the chain must not
  come around, which `TempAssumption` ensures: the address space goes on above the arena by the
  largest temp buffers that are asked for. `RequestsFit` counts: the head section holds the requests
  that have got their node and as many more as one operator may make.
* **`GraphExecutionProofs`** – `ReadsIntact`, `IndicesRight` and `ScratchDescribed`, for every
  model in `Models`, of which `ModelAssumption` says that it is well-formed (`WellFormed`): indices
  are in range, operators come after those that make their inputs, control-flow operators and
  their subgraphs agree on the number of tensors (what `IfPrepare`, `WhilePrepare` and
  `CallOncePrepare` refuse otherwise), no subgraph comes to invoke itself, and variables are not planned offline. Three invariants:
  * `MarkingInv` – the walk. A *pass* is a record of the scopes in which one visit of a subgraph
    began each operator and ended it; it is `Complete` when its tensors have lifetimes to match
    and each subgraph that an operator names has a complete pass between the start and the
    end of that operator. `Walked` is the greatest set of such passes, so that nested subgraphs
    need no induction: it is enough that an activation which ends adds one pass. A walk only
    lengthens lifetimes (`Grows`), which keeps old passes complete although a subgraph may be
    walked many times and its tensors' lifetimes are overwritten.
  * `FramesInv` – each activation of `InvokeSubgraph` holds the indices of the one that called it,
    which is at a stage that waits for the subgraph.
  * `DataInv` – the activations follow passes, one inside the other (`Follows`), and what each of
    them and its callers is still to read is intact (`Secured`). A write happens at a scope in the
    interval of every operator under way, and everything secured lives there (`WorkLives`), so that a
    sound plan has put it elsewhere (`WriteSafe`).
* **`InterpreterProofs`** – for any number of operators and any faults: `InvokesPrepared`,
  `OkWithoutTemps`, `PresentFreed`, and that callbacks find the state they assert, whatever the
  application calls. What has been completed is complete (`FlagHolds`); the allocation that failed on
  allocated tensors is the exception that the properties name. Also `ApplicationRight`, for the two programs around the interpreter.
  Of the application, for any number of turns and operators: the image of this turn is passed
  on from the input tensor to the operators to the output (`ImagePassedOn`), and `loop` only goes
  on where `setup` came to its end (`SetUpFirst`). Of a read of the flash, for any addresses, FIFO
  and polls: what the flash has heard and what still waits to be sent are together the request
  (`RequestSplit`); the receive FIFO holds the answers to what it heard, less those taken out
  (`AnswersWait`), so that the byte behind the fourth is the one asked for; and a read that gave
  up before the answers came has left part of its request unsent (`ReadEnded`). What an earlier
  read left in the FIFOs is thrown away by the reset at the start. The inductive invariants of the
  parts of `MCServices` stand at the end of that module.
  And `MemoryRight`, for arenas, requests and plans of any size. Of the two arenas beside each other
  (`SplitIInv`): temp buffers fill the space behind the head section up to the end of the chain and
  are as many as are counted, and the check sum holds the bits of an odd number of them, in both
  arenas at any distance. Of an allocator that records (`RecordingIInv`): what is recorded and not
  yet assigned to a bucket is what was allocated since the last snapshot, which a failure
  half-way leaves for the next allocation. Of the simple planners (`PlannersIInv`): offsets follow one
  another, or are those that were given. `TwoArenasAssumption` and `RecordingAssumption` say of the
  arenas what the assumptions on `SingleArena` do: `Create` found room, requests are smaller than the addresses
  below, and starts are aligned; `PlannersAssumption` says that a plan which is given is one for the
  buffers it was made for, which the code cannot check.
  `TablesRight`, for tables of any size. Of the resolver (`ResolverIInv`), in any build: keys are
  distinct, and parsers are kept for the built-in operators that are registered, in whatever order.
  Of the resource variables (`VariablesIInv`): each has a pair of container and name of its own, a
  handle holds the number of its pair's (`PairsOwned`); a buffer is allocated exactly when an
  assignment for its pair has been prepared (`BuffersAllocated`, `PreparedSoFar`) and holds what is
  stored under the pair (`HoldStored`). Of the profiler (`ProfilerIInv`): an open event has been
  open since its start, modulo the counter (`TimesRight`), and the rows in use come first, each with
  the tag of an event that no other row has (`RowsRight`), so that the search always finds a place:
  there are no more tags than events. That a report sums up the ticks of each tag goes by the
  number of events added (`CountedBy`). `VariablesAssumption` asks of a model that it is `WellFormed`:
  a handle is made by one earlier operator of the subgraph that uses it, and
  containers are null for all variables or for none (section 4). A buffer is allocated where an
  assignment is prepared (`docs/resource_variables.md:45`), so a null pointer can only be met where
  there was no room or where nothing is assigned (`NullsFollowed`).
  `DecodedRight`. Of the decompression memory (`PlacedIInv`), for any regions and any models a
  build can run: a tensor has a place once it has been prepared (`Prepared`), inside a region and
  aligned (`PlacedRight`); the tensors of the present operator lie below the counters (`Below`), and
  those of one operator behind each other; the outputs of the last DECODE and the inputs of the present
  kernel are still what was decompressed (`CurrentHeld`).
  Of the Huffman decoder (`HuffmanIInv`), for words of any size, any code and any message:
  between symbols it has passed exactly the bits of those decoded; inside one it is in a table that the
  first bits of its code lead to and has looked up the entry for the bits behind them (`InTable`), which
  may lie in two words (`NextBitsRight`). The bits put back are those that the code does not have
  (`PutBackBitsKeeps`), also when their word is no longer held, and no more than one word behind the
  message is ever needed (`GetNextBitsKeeps`). `Encoding` and `Value` are defined by recursion and
  handled like `Strides` below. `HuffmanAssumption` asks of a model that its tables are made for its code
  (`WellFormed`): whichever code's first bits lead to a table, and whatever follows them, there is an entry
  for it; the decoder checks nothing of that, and TLC evaluates it for the codes of the run.
  Of the lookup-table decoder (`LutIInv`): channel and count give the offset (`LutPlace`), and the
  groups' tables of shifts yield the same consecutive bits as a single number
  (`NumberRight`, `GroupRight`), for every width, any number of channels and elements. Of the pruning decoder
  (`PruneIInv`): what is left of the value table is the values at the bits not yet passed (`PrunePlace`).
  And `NothingTakenBack`: two arenas implement `BufferAllocator`, the simple planners implement
  `MemoryPlan`, pointers to registrations stay right, and a reset restores the first values.
* **`ConvAccelProofs`** – `CopiesFit` and `RightUntilAbandoned` whatever is too slow: until a copy is
  given up while it runs, every output is the processor's and the array runs on its own
  data, for layers with a bias and parameters that the registers can hold. `RInv` says which scratchpads are loaded at each step and what has been stored so far.
  Where no copy times out (`"dma" \notin Faults`) none is given up, and it holds for good.
* **`ConvTilingProofs`** – tiles fit, do not overlap, and the output is right, for images and
  scratchpads of any size. `IInv` says that exactly the cells behind the present tile are set.
* **`CircularBufferProofs`** – for any capacity and samples, for the calls that the header
  allows (`Misuses = {}`; the assertions let through more): the flag is right, the upper half repeats
  the lower one, `CircularBufferExtend` reads what was written last, and the buffer implements `SlidingWindow`. Also `ChainsRight`, for chains of any
  length with any slots and periods, any number of models and invocations. An operator runs at
  the invocations whose number is a multiple of its *stride*, the product of the periods before
  it, so its countdown is its period less the number of its runs modulo the period (`Countdown`),
  and its slots are the numbers of its last runs since the reset, oldest first (`LastInputs`).
  The step of an invocation is arithmetic on quotients and remainders (`CountdownStep`): the number
  of a skipped invocation is no multiple of the strides behind either, since each of them is
  divided by those before (`StridesDivide`). `Strides` is defined by recursion; that it exists is
  shown by an induction over the naturals written with sets (`Counting`).
  And `StreamsRight`, for framers, stackers and overlap-add kernels of any sizes and any number of
  invocations and resets. A buffer of theirs is described by the sequence of values that can be read
  (`Unread`): a write appends to it (`WriteContent`), a read copies its beginning (`GetContent`), a
  discard drops it (`DiscardContent`), wherever the positions are. `FramerIInv` says that after t steps
  a lane's buffer holds what is needed from the signal next and everything after it
  (`LaneHolds`); that there is room for a further step, and a frame exactly when the steps before
  it fill one (`LaneRoom`), follows from the capacity, the least multiple of the step that
  holds a frame (`RoundedUp`). `StackerIInv` says the same of whole frames since the reset, with the
  first one standing for those before it (`FramesSince`), which the turns of
  `CircularBufferExtend` put there (`StackPadded`); there is a stack exactly when the frame to the
  right of a multiple of the step has come (`StepOfStack`). `OverlapIInv` has, for each place of a
  lane's state, the saturated sum of what the next frame is added to (`LaneSums`). Samples of one
  sign need a sum on the way that stays at the end of the range once it is there (`KeptAdds`).
  `FramersAssumption`, `StackersAssumption` and `AddersAssumption` say what the kernels need of their
  attributes and do not check: a prefill has a length, and a step is not longer than the frame, or
  the stack. The range of the sums is any one that has 0 in it.

Only model-checked: liveness (`Terminates`, `Returns`, `ErrorsReturn`, `CallsReturn`, `Finishes`,
`ServicesEnd`), since fairness and ENABLED are beyond `tlapm`; every invariant and every action
property of the passing runs is stated by a theorem.

## 6. Not modelled

* **Numerics**: the arithmetic of kernels (`kernels/`, `src/tensorflow/lite/kernels/internal/`), of
  the FFT, filter bank, logarithm and PCAN; requantisation; `int` overflow of offsets in the
  planner. These functions compute one output from one input and keep no state; a model checker
  has nothing to interleave there.
* **Generated code and data**: `src/tensorflow/lite/schema/schema_generated.h`, the model and
  image arrays (`src/person_detect_model_data.cc`), bundled libraries; reads of an immutable
  flatbuffer and the conversion of operator parameters (`flatbuffer_conversions.cc`), one long
  list of copies without state. They are most of the lines of the repository, and why the map
  covers a small share of them.
* **Platform I/O**: UART output, the cycle counter, printing in reports; the copies of the
  application's mains and tests that talk to other boards or repeat the modelled one.
* **Of modelled parts**: the contents of tensor buffers except where a property is about them;
  in-place decompression of the older kernels, compiled only with `USE_TFLM_COMPRESSION`, which
  this build does not set (`DecompressionMemory` has both settings of its own switch); the DELAY
  kernel, which pushes and pops one `CircularBuffer` per lane; corrections of recorded counts
  and `StartModelAllocationDirect`'s bypass of the overrides; the casts of section 4.

## 7. Running

`tlc -config MCServices.cfg MCServices` checks a run, `tlapm SingleArenaProofs.tla` the proofs of a
module. `PROJECT.json` names the run and its configuration for every question, the source lines
of every definition, and the theorems.
