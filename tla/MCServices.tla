------------------------------ MODULE MCServices ------------------------------
(***************************************************************************)
(* The parts of the system that stand beside the interpreter and share no     *)
(* state with each other: allocators over two arenas and those that record,    *)
(* the two simple memory planners, decompression memory and the decoders, the  *)
(* tables of operators, variables and profiled events, and the application     *)
(* with its reads of the flash.  A behaviour is one of one of them: `part`      *)
(* says of which.  Its variables are v1 and those behind it; the rest are      *)
(* `none`.                                                                   *)
(***************************************************************************)
EXTENDS Integers, Sequences, FiniteSets

CONSTANTS
  none,
  TwoArenas,                                   \* of the pair of allocators
  CountedArena, BypassedArena,                 \* of those that record
  PlannedModels,                               \* of the simple planners
  EthosuBuild, PlainBuild,                     \* of the operator resolver
  VariableModels,                              \* of the resource variables
  ProfiledEvents,                              \* of the profiler
  DecodeBuild, CompressionBuild,               \* of the decompression memory
  HuffmanCodes,                                \* of the Huffman decoder
  LutTensors,                                  \* of the lookup-table decoder
  PrunedTensors,                               \* of the pruning decoder
  Turns, GraphOperators,                       \* of the application
  Depth, ReadAddresses, TxPolls, FlushPolls    \* of its reads of the flash

\* The first operator of the model reads the image, another one writes the scores; a
\* request of the flash fits into the FIFO.
ASSUME ApplicationAssumption ==
  /\ Turns \in Nat /\ GraphOperators \in Nat /\ GraphOperators >= 2
  /\ Depth \in Nat /\ Depth >= 12 /\ ReadAddresses \subseteq Nat
  /\ TxPolls \in Nat \ {0} /\ FlushPolls \in Nat \ {0}

VARIABLES part, v1, v2, v3, v4, v5, v6, v7, v8, v9, v10, v11, v12, v13, v14, v15

from15 == <<v15>>
from14 == <<v14, from15>>
from12 == <<v12, v13, from14>>
from11 == <<v11, from12>>
from10 == <<v10, from11>>
from7 == <<v7, v8, v9, from10>>
from6 == <<v6, from7>>
pool == <<v1, v2, v3, v4, v5, from6>>

Off15 == v15 = none
Off14 == v14 = none /\ Off15
Off12 == v12 = none /\ v13 = none /\ Off14
Off11 == v11 = none /\ Off12
Off10 == v10 = none /\ Off11
Off7 == v7 = none /\ v8 = none /\ v9 = none /\ Off10
Off6 == v6 = none /\ Off7

-----------------------------------------------------------------------------
(* Memory. *)

\* Two arenas behind one another in an address space of 64 addresses.  The second
\* starts at an address that Create must align up.
SmallArenas == [
  bits |-> 6, space |-> 64, head |-> 7, tail |-> 20, alignment |-> 4,
  persistent_head |-> 30, persistent_end |-> 51,
  persistent_object |-> 3, non_persistent_object |-> 5,
  sizes |-> {1, 3}, alignments |-> {1, 4},
  max_persistent |-> 4, max_temps |-> 3, max_resizable |-> 2]

Split == INSTANCE SplitArenas WITH
  AddressBits <- TwoArenas.bits, AddressSpace <- TwoArenas.space,
  BufferHead <- TwoArenas.head, BufferTail <- TwoArenas.tail,
  ArenaAlignment <- TwoArenas.alignment, PersistentHead <- TwoArenas.persistent_head,
  PersistentEnd <- TwoArenas.persistent_end,
  PersistentObject <- TwoArenas.persistent_object,
  NonPersistentObject <- TwoArenas.non_persistent_object,
  Sizes <- TwoArenas.sizes, Alignments <- TwoArenas.alignments,
  MaxPersistent <- TwoArenas.max_persistent, MaxTemps <- TwoArenas.max_temps,
  MaxResizable <- TwoArenas.max_resizable,
  tailTemp <- v1, headTemp <- v2, nextTemp <- v3, tempCount <- v4, tempCheckSum <- v5,
  resizableBufferAllocated <- v6, persistent <- v7, reserved <- v8, temps <- v9,
  holders <- v10

\* Create finds room for both allocators; no request is larger than the addresses
\* below an arena; and alignments divide the start of the arena after Create has
\* aligned it, and its end.
ASSUME TwoArenasAssumption ==
  /\ TwoArenas.bits \in Nat /\ TwoArenas.space = 2^TwoArenas.bits
  /\ TwoArenas.space \in Nat
  /\ {TwoArenas.head, TwoArenas.tail, TwoArenas.persistent_head, TwoArenas.persistent_end}
       \subseteq 1 .. TwoArenas.space - 1
  /\ TwoArenas.persistent_object \in Nat /\ TwoArenas.non_persistent_object \in Nat
  /\ TwoArenas.alignment \in Nat \ {0}
  /\ Split!NonPersistentHead <= TwoArenas.tail
  /\ TwoArenas.persistent_head <= Split!NonPersistentSelf
  /\ \/ TwoArenas.tail <= TwoArenas.persistent_head
     \/ TwoArenas.persistent_end <= TwoArenas.head
  /\ TwoArenas.sizes \subseteq 1 .. TwoArenas.persistent_head
  /\ TwoArenas.alignments \subseteq Nat \ {0}
  /\ \A alignment \in TwoArenas.alignments :
       /\ Split!AlignPointerUp(Split!NonPersistentHead, alignment) = Split!NonPersistentHead
       /\ Split!AlignPointerUp(TwoArenas.tail, alignment) = TwoArenas.tail

\* An allocator that records, in the arena r.
Recording(r) == INSTANCE RecordingArena WITH
  AddressBits <- r.bits, AddressSpace <- r.space, BufferHead <- r.head, BufferTail <- r.tail,
  AllocatorSize <- r.allocator_size, AllocatorAlignment <- r.allocator_alignment,
  Sizes <- r.sizes, Alignments <- r.alignments, HeadSizes <- r.head_sizes,
  Buckets <- r.buckets, Direct <- r.direct,
  arena <- v1, counters <- v2, recorded <- v3, bucket <- v4, snapshot <- v5, truth <- v6

\* Create finds room for the allocator, no buffer is larger than the addresses below
\* the arena, and its start is aligned.
RecordsInto(r) ==
  /\ r.bits \in Nat /\ r.space = 2^r.bits /\ r.space \in Nat
  /\ r.head \in Nat /\ r.tail \in Nat
  /\ 0 < r.head /\ r.head <= r.tail /\ r.tail < r.space
  /\ r.allocator_size \in 0 .. r.head /\ r.allocator_alignment \in Nat \ {0}
  /\ Recording(r)!CanAllocatePersistentBuffer(Recording(r)!NewArena, r.allocator_size,
                                              r.allocator_alignment)
  /\ r.sizes \subseteq 0 .. r.head /\ r.head_sizes \subseteq Nat
  /\ r.alignments \subseteq Nat \ {0}
  /\ \A alignment \in r.alignments : Recording(r)!AlignPointerUp(r.head, alignment) = r.head
  /\ Recording(r)!NoBucket \notin r.buckets

\* An arena of 16 bytes; two buckets stand for the seven.  Every call is counted.
SixteenBytes == [
  bits |-> 6, space |-> 64, head |-> 16, tail |-> 32,
  allocator_size |-> 3, allocator_alignment |-> 2, sizes |-> {1, 3}, alignments |-> {1, 4},
  head_sizes |-> {0, 2, 6}, buckets |-> {"tensors", "buffers"}, direct |-> {}]

\* A smaller arena; the head and one of the buckets bypass the counters.
NineBytes == [
  bits |-> 5, space |-> 32, head |-> 8, tail |-> 17,
  allocator_size |-> 2, allocator_alignment |-> 2, sizes |-> {1, 3}, alignments |-> {1, 2},
  head_sizes |-> {0, 3}, buckets |-> {"tensors", "buffers"}, direct |-> {"buffers", "head"}]

ASSUME RecordingAssumption ==
  /\ RecordsInto(CountedArena) /\ CountedArena.direct = {}
  /\ RecordsInto(BypassedArena)

\* Buffers of one to three units with four lifetimes, and two given plans.
Buffer(size, first, last, offset) ==
  [size |-> size, first_time_used |-> first, last_time_used |-> last, offline_offset |-> offset]
A == Buffer(1, 0, 0, -1)
B == Buffer(2, 1, 2, -1)
C == Buffer(3, 0, 1, -1)
SmallModels == [
  requirements |-> {A, B, C, Buffer(2, 0, 2, 0)}, max_count |-> 3, max_buffers |-> 4,
  made_for |-> [plan \in {<<0, 0>>, <<3, 3, 0>>} |->
                 IF Len(plan) = 2 THEN <<A, B>> ELSE <<A, B, C>>]]
MadeFor(plan) == PlannedModels.made_for[plan]

\* A linear planner of three buffers, and a shim, for one model of up to four.
Planners == INSTANCE SimplePlanners WITH
  Requirements <- PlannedModels.requirements, kMaxBufferCount <- PlannedModels.max_count,
  GivenPlans <- DOMAIN PlannedModels.made_for, PlannedFor <- MadeFor,
  Kinds <- {"linear", "shim"}, MaxModels <- 1, MaxBuffers <- PlannedModels.max_buffers,
  kind <- v1, buffer_offsets_ <- v2, next_free_offset_ <- v3, buffer_plan_ <- v4,
  buffer_request_count_ <- v5, pc <- v6, models <- v7, buffers <- v8, plan <- v9,
  head_usage <- v10

\* A plan that is given is one for the buffers that it was made for.
ASSUME PlannersAssumption ==
  /\ PlannedModels.max_count \in Nat
  /\ \A b \in PlannedModels.requirements : b.size \in Nat
  /\ \A plan \in DOMAIN PlannedModels.made_for :
       /\ plan \in Seq(Nat) /\ Len(MadeFor(plan)) = Len(plan)
       /\ Planners!Promise!Sound(MadeFor(plan), plan)

-----------------------------------------------------------------------------
(* Tables. *)

AKernel == [init |-> 1000]
NoInit == [init |-> 0]

\* AVERAGE_POOL_2D, CONV_2D and MAX_POOL_2D; every order of registrations into a
\* resolver of three.
Parsers == [op \in {1, 3, 17} |-> IF op = 3 THEN "ParseConv2D" ELSE "ParsePool"]

\* A resolver in the build b.
Resolving(b) == INSTANCE OpResolver WITH
  tOpCount <- b.op_count, Builtins <- b.builtins, Customs <- b.customs,
  Kernels <- b.kernels, ParserOf <- b.parsers, EthosuKernels <- b.ethosu,
  registrations_ <- v1, builtin_codes_ <- v2, builtin_parsers_ <- v3, asked <- v4,
  status <- v5

\* Codes are those of built-in operators, and every custom operator has a name.
ResolvesIn(b) ==
  /\ b.op_count \in Nat
  /\ b.builtins \subseteq 0 .. Resolving(b)!MaxCode /\ Resolving(b)!CUSTOM \notin b.builtins
  /\ Resolving(b)!NoName \notin b.customs
  /\ b.ethosu \subseteq b.kernels

WithEthosu == [
  op_count |-> 3, builtins |-> {1, 3, 17}, customs |-> {"mock"},
  kernels |-> {AKernel, NoInit}, parsers |-> Parsers, ethosu |-> {AKernel}]

\* A build without the Ethos-U kernel.
WithoutEthosu == [
  op_count |-> 3, builtins |-> {1, 3}, customs |-> {"mock"},
  kernels |-> {NoInit}, parsers |-> Parsers, ethosu |-> {}]

ASSUME ResolversAssumption == ResolvesIn(EthosuBuild) /\ ResolvesIn(PlainBuild)

VarHandle(container, name, h) ==
  [code |-> "VAR_HANDLE", container |-> container, shared_name |-> name, handle |-> h]
Assign(h, z, v) == [code |-> "ASSIGN", handle |-> h, zero_point |-> z, value |-> v]
Read(h) == [code |-> "READ", handle |-> h]

\* A variable that is read before it is assigned in each invocation.
Counter == <<<<VarHandle("", "x", 1), Read(1), Assign(1, "7", "input"), Read(1)>>>>

\* The same name in two containers, and a handle used twice.
TwoContainers ==
  <<<<VarHandle("a", "x", 1), VarHandle("b", "x", 2), VarHandle("a", "x", 3),
      Assign(1, "0", "input"), Assign(2, "7", "w"), Read(2), Read(1),
      Assign(3, "5", "v"), Read(1)>>>>

\* Null containers, two names.
NullContainers ==
  <<<<VarHandle("null", "x", 1), VarHandle("null", "y", 2),
      Assign(1, "7", "input"), Assign(2, "0", "w"), Read(1), Read(2)>>>>

\* First values given by a subgraph, whose handles are in another order.
Initialised ==
  <<<<[code |-> "CALL_ONCE", init_subgraph |-> 2], VarHandle("", "x", 1),
      VarHandle("", "y", 2), Read(1), Assign(1, "7", "input"), Read(1), Read(2)>>,
    <<VarHandle("", "y", 1), VarHandle("", "x", 2), Assign(1, "0", "v"), Assign(2, "7", "w")>>>>

\* A variable that is read and never assigned.
Unassigned == <<<<VarHandle("", "x", 1), VarHandle("", "y", 2), Assign(1, "7", "input"), Read(2)>>>>

\* Tables and arenas that may be too small.
FiveModels == [
  models |-> {Counter, TwoContainers, NullContainers, Initialised, Unassigned},
  max_variables |-> {1, 2, 4}, rooms |-> {0, 1, 2, 4}, inputs |-> {"u", "v"},
  max_invocations |-> 3]

Variables == INSTANCE ResourceVariables WITH
  Models <- VariableModels.models, MaxVariables <- VariableModels.max_variables,
  Rooms <- VariableModels.rooms, Inputs <- VariableModels.inputs,
  MaxInvocations <- VariableModels.max_invocations,
  model <- v1, max_variable_count_ <- v2, room <- v3, resource_variables_ <- v4,
  handles <- v5, pc <- v6, place <- v7, has_run <- v8, input <- v9, invocations <- v10,
  defaults <- v11, stored <- v12, answer <- v13, pristine <- v14

ASSUME VariablesAssumption ==
  /\ \A m \in VariableModels.models : Variables!WellFormed(m)
  /\ VariableModels.max_variables \subseteq Nat /\ VariableModels.rooms \subseteq Nat
  /\ VariableModels.inputs \subseteq STRING \ {Variables!nullptr}
  /\ VariableModels.max_invocations \in Nat

\* Three events of two tags, on a counter that wraps after three ticks, so that each
\* kind of overlap occurs across a wrap.
ThreeEvents == [
  tags |-> {"conv", "pool"}, max_events |-> 3, tick_space |-> 3, max_reports |-> 1,
  asserts |-> TRUE]

Profiler == INSTANCE MicroProfiler WITH
  Tags <- ProfiledEvents.tags, kMaxEvents <- ProfiledEvents.max_events,
  TickSpace <- ProfiledEvents.tick_space, MaxReports <- ProfiledEvents.max_reports,
  Asserts <- ProfiledEvents.asserts,
  now <- v1, events <- v2, totals <- v3, aborted <- v4, overrun <- v5, elapsed <- v6,
  open <- v7, reports <- v8, faithful <- v9

ASSUME ProfilerAssumption ==
  /\ ProfiledEvents.max_events \in Nat /\ ProfiledEvents.max_reports \in Nat
  /\ ProfiledEvents.tick_space \in Nat \ {0}
  /\ ProfiledEvents.tags \subseteq STRING \ {Profiler!nullptr}

-----------------------------------------------------------------------------
(* Compressed tensors. *)

Decode(sizes) == [decode |-> TRUE, sizes |-> sizes, reads |-> {}]
Kernel(sizes, reads) == [decode |-> FALSE, sizes |-> sizes, reads |-> reads]

\* DECODE operators among plain ones: read before the next DECODE, and read together.
DecodeChains == {
  <<Decode(<<3, 5>>), Kernel(<<>>, {<<1, 1>>, <<1, 2>>}), Decode(<<4>>), Kernel(<<>>, {<<3, 1>>})>>,
  <<Kernel(<<>>, {}), Decode(<<2, 2, 6>>), Kernel(<<>>, {<<2, 1>>, <<2, 2>>}), Kernel(<<>>, {<<2, 3>>})>>,
  <<Decode(<<2, 4>>), Decode(<<3>>), Kernel(<<>>, {<<1, 2>>, <<2, 1>>})>>}

\* Operators with one or two compressed inputs.
Compressed == {
  <<Kernel(<<3, 5>>, {})>>,
  <<Kernel(<<5, 2>>, {}), Kernel(<<>>, {}), Kernel(<<4, 4>>, {})>>,
  <<Kernel(<<>>, {}), Kernel(<<2, 4, 1>>, {}), Kernel(<<6>>, {})>>}

\* Region addresses need not be aligned, and a region may be too small for any tensor.
Regions == [base : {0, 3}, bytes : {2, 6, 9, 14}]
Layouts == {<<r>> : r \in Regions} \cup {<<q, r>> : q, r \in Regions}

\* As this build has it, and as one with USE_TFLM_COMPRESSION.
WithDecode == [
  compression |-> FALSE, graphs |-> DecodeChains, layouts |-> Layouts, alignment |-> 4,
  max_invokes |-> 2]
WithCompression == [
  compression |-> TRUE, graphs |-> Compressed, layouts |-> Layouts, alignment |-> 4,
  max_invokes |-> 2]

Memory(b) == INSTANCE DecompressionMemory WITH
  Graphs <- b.graphs, Layouts <- b.layouts, Alignment <- b.alignment,
  USE_TFLM_COMPRESSION <- b.compression, Failures <- TRUE, MaxInvokes <- b.max_invokes,
  pc <- v1, graph <- v2, regions <- v3, allocations <- v4, place <- v5, memory <- v6,
  op <- v7, todo <- v8, invokes <- v9

\* Any model that fits the build, and any regions.
DecompressesIn(b) ==
  /\ b.compression \in BOOLEAN /\ b.alignment \in Nat \ {0} /\ b.max_invokes \in Nat
  /\ \A g \in b.graphs : Memory(b)!WellFormed(g)
  /\ b.layouts \subseteq Seq([base : Nat, bytes : Nat])

ASSUME DecompressionAssumption ==
  DecompressesIn(DecodeBuild) /\ DecompressesIn(CompressionBuild)

Symbol(s, uses) == [found |-> TRUE, symbol |-> s, bits |-> uses, next |-> 0]
Table(bits, next) == [found |-> FALSE, symbol |-> "", bits |-> bits, next |-> next]

\* Seven symbols with codes of one to five bits, in three levels of tables.
Deep == [
  initial |-> 2,
  code |-> [a |-> <<0>>, b |-> <<1, 0, 0>>, c |-> <<1, 0, 1>>, d |-> <<1, 1, 0>>,
            e |-> <<1, 1, 1, 0>>, f |-> <<1, 1, 1, 1, 0>>, g |-> <<1, 1, 1, 1, 1>>],
  table |-> [k \in 0..11 |-> <<
    Symbol("a", 1), Symbol("a", 1), Table(1, 2), Table(2, 3),
    Symbol("b", 1), Symbol("c", 1),
    Symbol("d", 1), Symbol("d", 1), Symbol("e", 2), Table(1, 1),
    Symbol("f", 1), Symbol("g", 1)>>[k + 1]],
  tables |-> [k \in {0, 4, 6, 10} |->
    IF k = 0 THEN [prefix |-> <<>>, bits |-> 2]
    ELSE IF k = 4 THEN [prefix |-> <<1, 0>>, bits |-> 1]
    ELSE IF k = 6 THEN [prefix |-> <<1, 1>>, bits |-> 2]
    ELSE [prefix |-> <<1, 1, 1, 1>>, bits |-> 1]]]

\* Three symbols in one table, of which the shortest code uses one bit in three.
Flat == [
  initial |-> 3,
  code |-> [a |-> <<0>>, b |-> <<1, 0>>, c |-> <<1, 1>>],
  table |-> [k \in 0..7 |->
    IF k < 4 THEN Symbol("a", 1) ELSE IF k < 6 THEN Symbol("b", 2) ELSE Symbol("c", 2)],
  tables |-> [k \in {0} |-> [prefix |-> <<>>, bits |-> 3]]]

\* All messages of up to four symbols, in words of four bits.
TwoCodes == [word_bits |-> 4, codes |-> {Deep, Flat}, max_symbols |-> 4]

Huffman == INSTANCE HuffmanDecode WITH
  WordBits <- HuffmanCodes.word_bits, Codes <- HuffmanCodes.codes,
  MaxSymbols <- HuffmanCodes.max_symbols,
  code <- v1, message <- v2, junk <- v3, remaining <- v4, buffer <- v5, head_next <- v6,
  head_hold <- v7, head_offset <- v8, last_used_bits <- v9, table_offset <- v10

ASSUME HuffmanAssumption ==
  /\ HuffmanCodes.word_bits \in Nat \ {0} /\ HuffmanCodes.max_symbols \in Nat
  /\ \A c \in HuffmanCodes.codes : Huffman!WellFormed(c)

\* Channels that begin and end everywhere in a group of 16 or 32 elements.
ManyWidths == [
  bit_widths |-> 1..7, channel_counts |-> {1, 2, 3},
  element_counts |-> {0, 1, 5, 16, 18, 31, 33, 50, 69}, stride |-> 128]

Lut == INSTANCE LutDecode WITH
  BitWidths <- LutTensors.bit_widths, ChannelCounts <- LutTensors.channel_counts,
  ElementCounts <- LutTensors.element_counts, Stride <- LutTensors.stride, pc <- v11,
  compressed_bit_width <- v1, num_channels <- v2, per_channel <- v3,
  use_alternate_axis <- v4, int8 <- v5, channel <- v6, count <- v7,
  current_offset <- v8, written <- v9, latest <- v10

ASSUME LutAssumption ==
  /\ LutTensors.bit_widths \subseteq 1..7 /\ LutTensors.channel_counts \subseteq Nat \ {0}
  /\ LutTensors.element_counts \subseteq Nat /\ LutTensors.stride \in Nat

\* All tensors of up to six elements in up to three channels.
SixElements == [max_elements |-> 6, max_channels |-> 3, zero_points |-> {0, 5}]

Prune == INSTANCE PruneDecode WITH
  MaxElements <- PrunedTensors.max_elements, MaxChannels <- PrunedTensors.max_channels,
  ZeroPoints <- PrunedTensors.zero_points, PersistentMemory <- BOOLEAN,
  is_int8 <- v1, quantized <- v2, per_channel <- v3, use_alternate_axis <- v4,
  zero_point <- v5, indices <- v6, pc <- v7, num_channels_ <- v8, zero_points_ <- v9,
  single_zero_point_ <- v10, channel <- v11, count <- v12, current_offset <- v13,
  value_table <- v14, latest <- v15

ASSUME PrunedAssumption ==
  PrunedTensors.max_elements \in Nat /\ PrunedTensors.max_channels \in Nat

-----------------------------------------------------------------------------
(* The application. *)

Person == INSTANCE PersonDetection WITH
  Operators <- GraphOperators,
  pc <- v1, turns <- v2, interpreter <- v3, input <- v4, allocated <- v5, which <- v6,
  mismatched <- v7, inputHolds <- v8, outputHolds <- v9, carried <- v10,
  operator <- v11, shown <- v12, results <- v13

Flash == INSTANCE FlashRead WITH
  Addresses <- ReadAddresses,
  pc <- v1, flash_addr <- v2, txto <- v3, i <- v4, out <- v5, tx <- v6, rx <- v7,
  go <- v8, heard <- v9

-----------------------------------------------------------------------------
ServicesInit ==
  \/ part = "split arenas" /\ Split!Init /\ Off11
  \/ part = "recorder" /\ Recording(CountedArena)!Init /\ Off7
  \/ part = "bypassed recorder" /\ Recording(BypassedArena)!Init /\ Off7
  \/ part = "planners" /\ Planners!Init /\ Off11
  \/ part = "resolver" /\ Resolving(EthosuBuild)!Init /\ Off6
  \/ part = "resolver without Ethos-U" /\ Resolving(PlainBuild)!Init /\ Off6
  \/ part = "variables" /\ Variables!Init /\ Off15
  \/ part = "profiler" /\ Profiler!Init /\ Off10
  \/ part = "decompression" /\ Memory(DecodeBuild)!Init /\ Off10
  \/ part = "decompression in kernels" /\ Memory(CompressionBuild)!Init /\ Off10
  \/ part = "huffman" /\ Huffman!Init /\ Off11
  \/ part = "lut" /\ Lut!Init /\ Off12
  \/ part = "prune" /\ Prune!Init
  \/ part = "application" /\ Person!Init /\ Off14
  \/ part = "flash" /\ Flash!Init /\ Off10

LutNext == part = "lut" /\ Lut!Next /\ UNCHANGED <<part, from12>>
PersonNext == part = "application" /\ Person!Next /\ UNCHANGED <<part, from14>>
FlashNext == part = "flash" /\ Flash!Next /\ UNCHANGED <<part, from10>>
FlashDriver == part = "flash" /\ Flash!Driver /\ UNCHANGED <<part, from10>>

OtherNext ==
  /\ \/ part = "split arenas" /\ Split!Next /\ UNCHANGED from11
     \/ part = "recorder" /\ Recording(CountedArena)!Next /\ UNCHANGED from7
     \/ part = "bypassed recorder" /\ Recording(BypassedArena)!Next /\ UNCHANGED from7
     \/ part = "planners" /\ Planners!Next /\ UNCHANGED from11
     \/ part = "resolver" /\ Resolving(EthosuBuild)!Next /\ UNCHANGED from6
     \/ part = "resolver without Ethos-U" /\ Resolving(PlainBuild)!Next /\ UNCHANGED from6
     \/ part = "variables" /\ Variables!Next /\ UNCHANGED from15
     \/ part = "profiler" /\ Profiler!Next /\ UNCHANGED from10
     \/ part = "decompression" /\ Memory(DecodeBuild)!Next /\ UNCHANGED from10
     \/ part = "decompression in kernels" /\ Memory(CompressionBuild)!Next /\ UNCHANGED from10
     \/ part = "huffman" /\ Huffman!Next /\ UNCHANGED from11
     \/ part = "prune" /\ Prune!Next
  /\ UNCHANGED part

ServicesNext == OtherNext \/ LutNext \/ PersonNext \/ FlashNext

\* The decoder and the program run by themselves; of a read of the flash only the
\* driver does, the controller may stall for ever.
ServicesSpec ==
  /\ ServicesInit /\ [][ServicesNext]_<<part, pool>>
  /\ WF_<<part, pool>>(LutNext)
  /\ WF_<<part, pool>>(PersonNext)
  /\ WF_<<part, pool>>(FlashDriver)

\* Memory is handed out once: persistent buffers, the head section and temp buffers
\* of two arenas keep apart and inside, and the audit of temp buffers is exact; what a
\* recording allocator has counted is what was allocated, in each bucket that its
\* calls do not bypass, also after failures half-way; a linear plan preserves all
\* tensors (linear_memory_planner.h).
MemoryRight ==
  /\ part = "split arenas" =>
       /\ Split!TypeOK /\ Split!PersistentIntact /\ Split!TempsIntact
       /\ Split!TempsInside /\ Split!TempAuditExact /\ Split!OneResizable
  /\ part = "recorder" =>
       /\ Recording(CountedArena)!UsedIsOccupied
       /\ Recording(CountedArena)!RequestedAtMostUsed
       /\ Recording(CountedArena)!BucketsRight
  /\ part = "bypassed recorder" =>
       Recording(BypassedArena)!TypeOK /\ Recording(BypassedArena)!CountedBucketsRight
  /\ part = "planners" => Planners!TypeOK /\ Planners!TensorsPreserved

\* The tables that are kept beside each other agree: each registered operator has its
\* own parser and is found; a variable reads as what was last assigned to its name
\* and container or as its zero point, and null pointers are followed only by a reset
\* after AllocateTensors ran out of room for a variable and by a read of a variable
\* that the model assigns nowhere; a report of the profiler has one row per tag with the ticks
\* its events were open, whichever overlapped and whether or not the counter wrapped.
TablesRight ==
  /\ part = "resolver" =>
       /\ Resolving(EthosuBuild)!TypeOK /\ Resolving(EthosuBuild)!ParserForEach
       /\ Resolving(EthosuBuild)!LookupsRight
  /\ part = "resolver without Ethos-U" =>
       /\ Resolving(PlainBuild)!TypeOK /\ Resolving(PlainBuild)!ParserForEach
       /\ Resolving(PlainBuild)!LookupsRight
  /\ part = "variables" => Variables!TypeOK /\ Variables!ReadsStored /\ Variables!NullsFollowed
  /\ part = "profiler" =>
       Profiler!DurationsRight /\ Profiler!OneRowPerTag /\ Profiler!FirstReportRight

\* Operators read compressed tensors as they were before: two tensors of an operator
\* never share decompression memory, and none is written over before it is read, unless
\* by a second DECODE operator, whose Prepare has released all places (decode.cc:71); the
\* decoders give every element its value, across words, groups and channels, and take
\* no more of the stream than one word behind it.
DecodedRight ==
  /\ part = "decompression" =>
       /\ Memory(DecodeBuild)!TypeOK /\ Memory(DecodeBuild)!PlacesInside
       /\ Memory(DecodeBuild)!PlacesApart /\ Memory(DecodeBuild)!InputsIntact
  /\ part = "decompression in kernels" =>
       /\ Memory(CompressionBuild)!TypeOK /\ Memory(CompressionBuild)!PlacesInside
       /\ Memory(CompressionBuild)!PlacesApart /\ Memory(CompressionBuild)!InputsIntact
  /\ part = "huffman" => /\ Huffman!TypeOK /\ Huffman!DecodesMessage
                         /\ Huffman!HoldsLastWord /\ Huffman!OneWordBeyond
  /\ part = "lut" => Lut!TypeOK /\ Lut!ElementsRight
  /\ part = "prune" => Prune!TypeOK /\ Prune!ElementsRight

\* What the application reports are the scores of the image it has shown, after
\* turns that failed too, and a model is only run when it is set up; what it reads of
\* the flash is what it asked for, up to the byte from which on it is marked, and all
\* of it when the controller was fast enough.
ApplicationRight ==
  /\ part = "application" =>
       Person!TypeOK /\ Person!ResultsOfShownImages /\ Person!LoopOnlyWhenSetUp
  /\ part = "flash" => /\ Flash!TypeOK /\ Flash!RightOrMarked
                       /\ Flash!SentIsRead /\ Flash!StoppedOutsideSending

\* No step takes back what an earlier one gave: two arenas keep the contract of the
\* allocator interfaces, planners keep the plan they have given, a registered
\* operator stays where it is and others are refused only when they may be, and an allocated variable keeps its buffer and gets
\* its first value back at a reset.
NothingTakenBack ==
  [][/\ part = "split arenas" => Split!KeepsContract
     /\ part = "planners" => Planners!KeepsPlan
     /\ part = "resolver" =>
          Resolving(EthosuBuild)!PointersStay /\ Resolving(EthosuBuild)!RefusesRightly
     /\ part = "variables" => Variables!AllocatedOnce /\ Variables!ResetRestores]_<<part, pool>>

\* The decoder writes the whole tensor, main returns unless setup has stopped the
\* program, and every read of the flash returns, whatever the controller does.
ServicesEnd ==
  /\ <>[](part = "lut" => Lut!Complete)
  /\ <>(part = "application" => Person!Ended)
  /\ (part = "flash" /\ ~Flash!Idle) ~> (part = "flash" => Flash!Idle)
-----------------------------------------------------------------------------
(***************************************************************************)
(* What every step keeps, and what the properties above follow from: the      *)
(* inductive invariants that InterpreterProofs proves, part by part.          *)
(***************************************************************************)

(* The application. *)

\* The last result is from this turn's image or an earlier one's.
RightResults ==
  v13 \in Seq({r \in [shown : Person!Images, scored : Person!Images] : r.scored = r.shown})

PersonTypes ==
  /\ v1 \in {"setup", "main", "image", "invoke", "hung", "returned"}
  /\ v2 \in 0..Turns /\ v11 \in 0..GraphOperators
  /\ v3 \in BOOLEAN /\ v4 \in BOOLEAN /\ v5 \in BOOLEAN
  /\ v6 \in Person!Images /\ v7 \subseteq Person!Images
  /\ v8 \in Person!Contents /\ v9 \in Person!Contents /\ v10 \in Person!Contents
  /\ v12 \in Person!Contents

\* loop goes on only where input is set, which setup does last.
SetUpFirst ==
  /\ v4 => v5
  /\ v1 \in {"image", "invoke"} => v4 /\ v2 < Turns

\* The image of this turn moves from the input through the tensors between to the
\* output: where it was before may hold something else.
ImagePassedOn ==
  v1 = "invoke" =>
    /\ v12 \in Person!Images
    /\ v11 = 0 => v8 = v12
    /\ v11 \in 1..(GraphOperators - 1) => v10 = v12
    /\ v11 = GraphOperators => v9 = v12

PersonIInv == PersonTypes /\ SetUpFirst /\ ImagePassedOn /\ RightResults

(* The reader of the flash. *)

Wire == {"read", "address", "filler", "floating", "flash", "mark"} \X Nat

\* What the flash answers to byte n of a request for address a.
AnswerTo(a, n) == IF n <= 4 THEN Flash!Floating ELSE Flash!Byte(a + n - 5)

\* The bytes of the answer that the driver has taken out.
Taken == IF v1 = "sending" THEN 0 ELSE IF v1 = "skipping" THEN v4 ELSE 4 + v4

FlashTypes ==
  /\ v1 \in {"idle", "sending", "skipping", "reading"}
  /\ v2 \in ReadAddresses \cup {0} /\ v3 \in 0..TxPolls /\ v4 \in 0..8
  /\ v5 \in Seq(Wire) /\ v6 \in Seq(Wire) /\ v7 \in Seq(Wire) /\ v9 \in Seq(Wire)
  /\ v8 \in BOOLEAN
  /\ Len(v5) <= 8 /\ Len(v7) <= 12

\* Before the first read nothing has been sent.
NoRead == v1 = "idle" /\ v5 = << >> /\ v6 = << >> /\ ~v8

\* What the flash has heard and what still waits make up the request of this read.
RequestSplit ==
  /\ v2 \in ReadAddresses
  /\ Len(v9) + Len(v6) = 12
  /\ \A j \in 1..Len(v9) : v9[j] = Flash!Request(v2)[j]
  /\ \A j \in 1..Len(v6) : v6[j] = Flash!Request(v2)[Len(v9) + j]

\* What is in the receive FIFO are the answers heard and not yet taken.
AnswersWait ==
  v1 # "idle" =>
    /\ Len(v7) + Taken = Len(v9)
    /\ \A j \in 1..Len(v7) : v7[j] = AnswerTo(v2, Taken + j)

DriverState ==
  /\ v8 => v1 = "sending"
  /\ v1 = "sending" => v3 >= 1 /\ v4 = 0 /\ v5 = << >>
  /\ v1 = "skipping" => v4 < 4 /\ v5 = << >>
  /\ v1 = "reading" => /\ v4 < 8 /\ Len(v5) = v4
                       /\ \A j \in 1..v4 : v5[j] = Flash!Byte(v2 + j - 1)

\* The first n bytes of the flash from a, and marks; and marks of the first kind.
Marked(a, n) == [j \in 1..8 |-> IF j <= n THEN Flash!Byte(a + j - 1) ELSE Flash!E2]

AllMarked == [j \in 1..8 |-> Flash!E1]

\* A read that ended early has left a part of its request unsent.
ReadEnded ==
  v1 = "idle" => \/ v5 = AllMarked /\ v6 # << >>
                 \/ \E n \in 0..8 : v5 = Marked(v2, n) /\ (v6 = << >> => n = 8)

FlashIInv ==
  /\ FlashTypes
  /\ NoRead \/ (RequestSplit /\ AnswersWait /\ DriverState /\ ReadEnded)

\* The two programs of the application, each of which is a part of its own.
ApplicationIInv ==
  /\ part = "application" => PersonIInv
  /\ part = "flash" => FlashIInv

(* Two arenas. *)

\* Persistent buffers fill their arena from its end.
SplitTail ==
  /\ TwoArenas.persistent_head <= v1 /\ v1 <= Split!PersistentTail
  /\ \A b \in v7 : v1 <= b.at

\* The chain of temp buffers begins where the head section ends, and the count is
\* theirs.
SplitChain ==
  /\ v8.at = Split!NonPersistentHead /\ v8.at + v8.size = v2
  /\ v2 <= v3 /\ v3 <= TwoArenas.tail
  /\ IsFiniteSet(v9) /\ v4 = Cardinality(v9)
  /\ \A t \in v9 : v2 <= t.at /\ t.size > 0 /\ t.at + t.size <= v3
  /\ Split!AllApart(v9)

WithBit(i) == {t \in v9 : i \in Split!PointerBits(t.at)}

\* XOR counts each bit of the pointers modulo 2.
SplitAudit == \A i \in Split!BitPositions : i \in v5 <=> Cardinality(WithBit(i)) % 2 = 1

SplitIInv ==
  /\ Split!TypeOK /\ Split!PersistentIntact
  /\ SplitTail /\ SplitChain /\ SplitAudit
  /\ v10 = IF v6 THEN 1 ELSE 0

(* The recorders. *)

Counts(r) == [requested: Recording(r)!Addresses, used: Recording(r)!Addresses,
              count: Recording(r)!Addresses]

RecordingTypes(r) ==
  Recording(r)!TypeOK /\ v5 \in Counts(r) /\ v6 \in [r.buckets -> Counts(r)]

\* The head section ends below the persistent buffers.
RecordingOrdered(r) == r.head <= v1.head /\ v1.head <= v1.tail /\ v1.tail <= r.tail

\* What is requested of each end of the arena is no more than what is used of it.
RecordingCounted(r) ==
  /\ Recording(r)!UsedIsOccupied
  /\ v2.head <= v1.head - r.head /\ v2.tail <= r.tail - v1.tail

\* The bucket being filled gets what is counted since the snapshot; the calls of
\* one that bypasses the counters leave them as they were.
RecordingBuckets(r) ==
  \A b \in r.buckets :
    IF b \in r.direct
    THEN /\ v3[b] = Recording(r)!NoUsage
         /\ b = v4 => Recording(r)!SnapshotAllocationUsage = v5
    ELSE v6[b] = IF b = v4
                 THEN Recording(r)!Plus(v3[b],
                        Recording(r)!Minus(Recording(r)!SnapshotAllocationUsage, v5))
                 ELSE v3[b]

RecordingIInv(r) ==
  /\ RecordingTypes(r) /\ RecordingOrdered(r) /\ RecordingBuckets(r)
  /\ r.direct = {} => RecordingCounted(r)

(* The simple planners. *)

PlannersTypes ==
  /\ v1 \in {"linear", "shim"} /\ v2 \in Seq(Nat) /\ Len(v2) <= PlannedModels.max_count
  /\ v3 \in Nat /\ v5 \in Nat /\ v6 \in {"idle", "adding", "refused", "done"}
  /\ v7 \in {0, 1} /\ v8 \in Seq(PlannedModels.requirements) /\ v10 \in Nat

\* There is one model, and a plan when it is done.
OneModel ==
  /\ v6 = "idle" <=> v7 = 0
  /\ v6 = "idle" => v2 = << >> /\ v5 = 0 /\ v8 = << >>
  /\ v6 # "done" => v9 = Planners!NoPlan
  /\ v6 = "done" => v9 = Planners!Committed
  /\ \A i \in DOMAIN v8 : v8[i].offline_offset = Planners!kOnlinePlannedBuffer

\* The linear planner puts each buffer behind those before it.
BehindOneAnother ==
  /\ Len(v2) = Len(v8)
  /\ \A i \in DOMAIN v8 : v2[i] + v8[i].size <= v3
  /\ \A i, j \in DOMAIN v8 : i < j => v2[i] + v8[i].size <= v2[j]

\* The shim takes the buffers that its plan was made for.
AsPlanned ==
  /\ v4 \in DOMAIN PlannedModels.made_for
  /\ Len(v8) <= Len(v4) /\ (v6 = "adding" => v5 = Len(v8))
  /\ \A i \in DOMAIN v8 : v8[i] = MadeFor(v4)[i]

PlannersIInv ==
  /\ PlannersTypes /\ OneModel
  /\ v1 = "linear" => BehindOneAnother
  /\ v1 = "shim" => AsPlanned

\* The parts of MCServices that hand out memory.
MemoryIInv ==
  /\ part = "split arenas" => SplitIInv
  /\ part = "recorder" => RecordingIInv(CountedArena)
  /\ part = "bypassed recorder" => RecordingIInv(BypassedArena)
  /\ part = "planners" => PlannersIInv

(* The operator resolver. *)

Registration(b) ==
  [builtin_code : b.builtins \cup {32}, custom_name : b.customs \cup {"ethos-u", "none"},
   kernel : b.kernels]

\* Registrations have distinct keys, and parsers are kept for the built-in ones, in
\* whatever order.
ResolverIInv(b) ==
  /\ v1 \in Seq(Registration(b)) /\ Len(v1) <= b.op_count
  /\ v2 \in Seq(b.builtins) /\ v3 = [i \in DOMAIN v2 |-> b.parsers[v2[i]]]
  /\ v4 \in Resolving(b)!Keys /\ v5 \in {"ok", "error"}
  /\ \A i \in DOMAIN v1 : v1[i].builtin_code = 32 => v1[i].custom_name # "none"
  /\ \A i, j \in DOMAIN v1 :
       Resolving(b)!KeyOf(v1[i]) = Resolving(b)!KeyOf(v1[j]) => i = j
  /\ \A o \in b.builtins :
       (\E i \in DOMAIN v1 : v1[i].builtin_code = o) <=> (\E i \in DOMAIN v2 : v2[i] = o)

(* The resource variables. *)

Values == STRING \cup {"nullptr", "0"}

Variable ==
  [container : STRING, shared_name : STRING, resource_buffer : Values, bytes : {0, 1},
   default_value : Values]

NameOf(v) == <<v.container, v.shared_name>>

Places == [g : 1 .. Len(v1), i : Nat \ {0}]

VariablesTypes ==
  /\ v1 \in VariableModels.models /\ v2 \in VariableModels.max_variables /\ v3 \in Nat
  /\ v4 \in Seq(Variable) /\ Len(v4) <= v2
  /\ v6 \in {"prepare", "idle", "invoke", "failed", "crashed"}
  /\ v7 \in Seq(Places) /\ v9 \in VariableModels.inputs
  /\ v10 \in 0 .. VariableModels.max_invocations
  /\ DOMAIN v5 = Variables!HandlesOf(v1)
  /\ \A h \in DOMAIN v5 : v5[h] = 0 \/ v5[h] \in DOMAIN v4
  /\ DOMAIN v11 = Variables!PairsOf(v1) /\ DOMAIN v12 = Variables!PairsOf(v1)

\* Each variable has a pair of its own, and a handle is the number of its pair's.
PairsOwned ==
  /\ \A k \in DOMAIN v4 : NameOf(v4[k]) \in Variables!PairsOf(v1)
  /\ \A j, k \in DOMAIN v4 : NameOf(v4[j]) = NameOf(v4[k]) => j = k
  /\ \A g, h : <<g, h>> \in DOMAIN v5 /\ v5[<<g, h>>] # 0 =>
       NameOf(v4[v5[<<g, h>>]]) = Variables!PairOf(v1, g, h)

OutOfRoom == v6 \in {"failed", "crashed"} /\ v3 = 0

\* A buffer is allocated exactly when there is a default for its pair, and has no bytes
\* otherwise, unless there was no room.
BuffersAllocated ==
  /\ \A p \in DOMAIN v11 : v11[p] # "nullptr" => \E k \in DOMAIN v4 : NameOf(v4[k]) = p
  /\ \A k \in DOMAIN v4 :
       LET p == NameOf(v4[k])
       IN  /\ v4[k].resource_buffer = "nullptr" <=> v11[p] = "nullptr"
           /\ v11[p] # "nullptr" => v4[k].default_value = v11[p]
           /\ OutOfRoom \/ (v4[k].bytes > 0 => v4[k].resource_buffer # "nullptr")

\* The handles that have been prepared point to ids, and the assignments have buffers.
AssignedBy(g, i) ==
  i \in DOMAIN v1[g] =>
    /\ v1[g][i].code = "VAR_HANDLE" => v5[<<g, v1[g][i].handle>>] # 0
    /\ v1[g][i].code = "ASSIGN" => v11[Variables!PairOf(v1, g, v1[g][i].handle)] # "nullptr"

PreparedSoFar ==
  /\ v6 = "prepare" =>
       /\ Len(v7) = 1 /\ v14 = <<>>
       /\ \A g \in DOMAIN v1, i \in Nat :
            g < v7[1].g \/ (g = v7[1].g /\ i < v7[1].i) => AssignedBy(g, i)
  /\ v6 = "failed" => v14 = <<>>
  /\ v6 \in {"idle", "invoke"} => \A g \in DOMAIN v1, i \in Nat : AssignedBy(g, i)

\* Afterwards variables hold what is stored, and a reset leads back.
HoldStored ==
  v6 \in {"idle", "invoke"} =>
    /\ \A k \in DOMAIN v4 : v12[NameOf(v4[k])] = v4[k].resource_buffer
    /\ v14 # <<>> /\ v14[1] = [k \in DOMAIN v4 |-> Variables!Reset(v4[k])]

VariablesIInv ==
  /\ VariablesTypes /\ PairsOwned /\ BuffersAllocated /\ PreparedSoFar /\ HoldStored
  /\ v13.value = v13.expected /\ Variables!NullsFollowed

(* The profiler. *)

Event ==
  [tag : ProfiledEvents.tags, start : Profiler!Ticks, end : Profiler!Ticks]

Row == [tag : ProfiledEvents.tags \cup {"nullptr"}, ticks : Profiler!Ticks]

ProfilerTypes ==
  /\ v1 \in Profiler!Ticks
  /\ v2 \in Seq(Event) /\ Len(v2) <= ProfiledEvents.max_events
  /\ v6 \in Seq(Profiler!Ticks) /\ Len(v6) = Len(v2)
  /\ v7 \subseteq DOMAIN v2 /\ v8 \in Nat

\* An open event has been open since its start, one that has ended until its end.
TimesRight ==
  \A i \in DOMAIN v2 :
    v6[i] = Profiler!Wrapped((IF i \in v7 THEN v1 ELSE v2[i].end) - v2[i].start)

\* The rows in use come first; each has a tag of its own, which is one of an event.
RowsRight(table) ==
  /\ table \in [Profiler!Slots -> Row]
  /\ \A i, j \in Profiler!Slots :
       table[i].tag # "nullptr" /\ table[i].tag = table[j].tag => i = j
  /\ \A i \in Profiler!Slots :
       IF table[i].tag = "nullptr" THEN table[i].ticks = 0
       ELSE /\ i <= Len(v2) /\ \E j \in DOMAIN v2 : v2[j].tag = table[i].tag
            /\ \A j \in 1 .. i : table[j].tag # "nullptr"

ProfilerIInv ==
  /\ ProfilerTypes /\ TimesRight /\ RowsRight(v3)
  /\ v8 = 0 => v3 = Profiler!NoTotals
  /\ v8 = 1 => v9

\* The parts of MCServices that keep tables.
TablesIInv ==
  /\ part = "resolver" => ResolverIInv(EthosuBuild)
  /\ part = "resolver without Ethos-U" => ResolverIInv(PlainBuild)
  /\ part = "variables" => VariablesIInv
  /\ part = "profiler" => ProfilerIInv

(* Decompression memory. *)

PlacedTypes(b) ==
  /\ v1 \in {"init", "preparing", "ready", "running", "crashed"}
  /\ v2 \in b.graphs /\ v7 \in 0..Len(v2) /\ v9 \in 0..b.max_invokes
  /\ v3 \in Seq([base : Nat, bytes : Nat])
  /\ v4 = <<>> \/ DOMAIN v4 = DOMAIN v3
  /\ \A r \in DOMAIN v4 : v4[r] \in Nat /\ v4[r] <= v3[r].bytes
  /\ DOMAIN v6 = DOMAIN v3
  /\ \A r \in DOMAIN v3 : DOMAIN v6[r] = 0..(v3[r].bytes - 1)

\* A tensor is in the arena, finds its place in Eval, or lies inside a region.
PlacedRight(b, t) ==
  \/ v5[t] = [region |-> 0, offset |-> 0]
  \/ DOMAIN v4 = DOMAIN v3 /\ v5[t] = [region |-> -1, offset |-> 0] /\ ~v2[t[1]].decode
  \/ /\ DOMAIN v4 = DOMAIN v3 /\ v5[t].region \in DOMAIN v3 /\ v5[t].offset \in Nat
     /\ v5[t].offset + Memory(b)!Size(t) <= v3[v5[t].region].bytes
     /\ ((v3[v5[t].region].base + v5[t].offset) % b.alignment) = 0

\* Two tensors of one operator are behind each other.
Apart(b, t, u) ==
  \/ v5[t].offset + Memory(b)!Size(t) <= v5[u].offset
  \/ v5[u].offset + Memory(b)!Size(u) <= v5[t].offset

\* The tensors that have been prepared.
Prepared(b) ==
  /\ v1 = "init" => DOMAIN v5 = {} /\ (v3 = <<>> => v4 = <<>>)
  /\ v1 = "preparing" =>
       DOMAIN v5 = {t \in Memory(b)!Tensors : t[1] < v7 \/ (t[1] = v7 /\ t[2] \notin v8)}
  /\ v1 \in {"ready", "running"} => DOMAIN v5 = Memory(b)!Tensors
  /\ v1 = "running" => v7 \in DOMAIN v2
  /\ v1 \in {"preparing", "running"} =>
       v8 \subseteq IF v7 \in DOMAIN v2 THEN DOMAIN v2[v7].sizes ELSE {}

\* A kernel's tensors have places in a region only while it runs, below what is allocated.
KernelPlaces ==
  \A t \in DOMAIN v5 :
    ~v2[t[1]].decode /\ v5[t].region \in DOMAIN v3 =>
      v1 = "running" /\ t[1] = v7 /\ t[2] \notin v8

Below(b) ==
  v1 = "preparing" \/ (v1 = "running" /\ ~v2[v7].decode) =>
    \A t \in DOMAIN v5 : t[1] = v7 /\ v5[t].region \in DOMAIN v3 =>
      v5[t].offset + Memory(b)!Size(t) <= v4[v5[t].region]

\* The tensors that have been decompressed since the last DECODE began, and of kernels
\* only the one that runs.
Current(t) ==
  /\ t[1] <= v7 /\ (v2[t[1]].decode \/ t[1] = v7) /\ (t[1] = v7 => t[2] \notin v8)
  /\ \A i \in t[1] + 1..v7 : ~v2[i].decode

Holds(b, t) ==
  v5[t].region \in DOMAIN v3 =>
    \A a \in v5[t].offset..(v5[t].offset + Memory(b)!Size(t) - 1) : v6[v5[t].region][a] = t

CurrentHeld(b) ==
  v1 = "running" => \A t \in Memory(b)!Tensors : Current(t) => Holds(b, t)

PlacedIInv(b) ==
  /\ PlacedTypes(b)
  /\ DOMAIN v5 \subseteq Memory(b)!Tensors
  /\ \A t \in DOMAIN v5 : PlacedRight(b, t)
  /\ \A t, u \in DOMAIN v5 :
       t[1] = u[1] /\ t # u /\ v5[t].region \in DOMAIN v3 /\ v5[u].region = v5[t].region =>
         Apart(b, t, u)
  /\ v1 # "crashed" => Prepared(b) /\ KernelPlaces /\ Below(b) /\ CurrentHeld(b)

(* The lookup-table decoder. *)

\* A tensor of n channels of m elements, and how far it is read: channel by channel, or
\* on the alternate axis one element of all of them at a time.
LutPlace(n, m) ==
  /\ v6 \in 0..(n - 1)
  /\ ~v4 => v7 \in 0..m /\ v8 = m * v6 + (m - v7)
  /\ v4 => \E q \in 0..m : v7 = n * q /\ v8 = n * (m - q)

LutTypes ==
  /\ v1 \in 1..7 /\ v4 \in BOOLEAN
  /\ v8 \in Nat /\ v9 \in Nat /\ v10 \in Seq(Nat \X Seq(Nat)) /\ v9 + Len(v10) = v8

LutIInv ==
  /\ v2 \in Nat \ {0} /\ v3 \in Nat /\ v11 \in {"setup", "decoding", "refused"}
  /\ LutTypes /\ LutPlace(v2, v3) /\ Lut!ElementsRight

(* The pruning decoder. *)

\* A tensor of n channels with m elements each.
IsPruned(n, m) ==
  /\ DOMAIN v5 = 0..(n - 1) /\ v3 = m /\ m <= PrunedTensors.max_elements
  /\ v6 \subseteq 0..(n * m - 1) /\ v4 \in BOOLEAN /\ (v4 => n > 1)

\* The values before element k.
ValuesBefore(k) == {j \in v6 : j < k}

\* What Setup has chosen: the zero points of the channels, or one for all.
PruneChosen(n) ==
  IF v7 = "decoding"
  THEN /\ v8 = n
       /\ v9 # << >> => v9 = v5 /\ v1 /\ n > 1
       /\ v9 = << >> => \A c \in 0..(n - 1) : v5[c] = v10
  ELSE v8 \in Nat /\ v13 = 0

\* Where the loops are.
PrunePlace(n, m, channel, count) ==
  IF v9 = << >> THEN channel = 0 /\ count = 0
  ELSE IF v4 THEN channel < n /\ count <= m /\ v13 = n * count + channel
  ELSE channel <= n /\ (count < m \/ (m = 0 /\ count = 0)) /\ v13 = m * channel + count

PruneTypes(n, m) ==
  /\ v7 \in {"setup", "decoding", "refused"}
  /\ v11 \in Nat /\ v12 \in Nat /\ v13 \in 0..(n * m)
  /\ v9 = << >> \/ v7 = "decoding"
  /\ v14 = Cardinality(ValuesBefore(v13))

PruneIInv ==
  /\ \E n \in Nat \ {0}, m \in Nat :
       /\ IsPruned(n, m) /\ PruneTypes(n, m)
       /\ PruneChosen(n) /\ PrunePlace(n, m, v11, v12)
  /\ Prune!ElementsRight

(* The Huffman decoder. *)

\* The length of what the first n symbols of s are encoded as.
Length(c, s, n) == Len(Huffman!Encoding(c, s)[n])

BitAt(c, s, junk, k) ==
  IF k <= Length(c, s, Len(s)) THEN Huffman!Encoding(c, s)[Len(s)][k] ELSE junk

\* n bits behind the first ones.
BitsBehind(c, s, junk, first, n) == [k \in 1..n |-> BitAt(c, s, junk, first + k)]

\* How many bits have been taken, and not put back.
Passed(b, next, offset) == b * next - offset

WordTypes ==
  v6 \in Nat /\ v7 = v6 /\ v8 \in 0..HuffmanCodes.word_bits

\* x begins a longer string of bits y.
Leads(x, y) == Len(x) < Len(y) /\ \A k \in DOMAIN x : x[k] = y[k]

\* The decoder is in table t: it has taken the bits that lead there, and those that
\* the table takes, by which it has looked up the present entry.
InTable(t) ==
  LET lead == v1.tables[t].prefix
      first == Length(v1, v2, Len(v5)) + Len(lead)
  IN /\ t \in DOMAIN v1.tables
     /\ Leads(lead, v1.code[v2[Len(v5) + 1]])
     /\ v9 = v1.tables[t].bits
     /\ Passed(HuffmanCodes.word_bits, v6, v8) = first + v9
     /\ v10 = t + Huffman!Value(BitsBehind(v1, v2, v3, first, v9))

HuffmanTypes ==
  /\ v1 \in HuffmanCodes.codes /\ v2 \in Seq(DOMAIN v1.code) /\ v3 \in {0, 1}
  /\ v5 \in Seq(DOMAIN v1.code) /\ v4 \in 0..Len(v2) /\ Len(v5) + v4 = Len(v2)
  /\ \A k \in 1..Len(v5) : v5[k] = v2[k]
  /\ WordTypes

HuffmanIInv ==
  /\ HuffmanTypes
  /\ HuffmanCodes.word_bits * v6 < Length(v1, v2, Len(v2)) + 2 * HuffmanCodes.word_bits
  /\ v10 = -1 /\ v2 # <<>> =>
       Passed(HuffmanCodes.word_bits, v6, v8) = Length(v1, v2, Len(v5))
  /\ v10 # -1 => v4 > 0 /\ \E t \in Nat : InTable(t)

\* The parts of MCServices that decode compressed tensors.
DecodersIInv ==
  /\ part = "decompression" => PlacedIInv(DecodeBuild)
  /\ part = "decompression in kernels" => PlacedIInv(CompressionBuild)
  /\ part = "huffman" => HuffmanIInv
  /\ part = "lut" => LutIInv
  /\ part = "prune" => PruneIInv
===============================================================================
