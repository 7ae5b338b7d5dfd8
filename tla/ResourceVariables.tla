---------------------------- MODULE ResourceVariables ----------------------------
(***************************************************************************)
(* MicroResourceVariables and the kernels that use it: VAR_HANDLE,         *)
(* ASSIGN_VARIABLE, READ_VARIABLE, and CALL_ONCE, which runs a subgraph     *)
(* that gives the variables their first values.                            *)
(*                                                                         *)
(* The contents of a buffer are one value: what was last copied into it, or *)
(* the zero point that it was filled with.  In a model every use of a       *)
(* variable has the same size.  What is read need not be assigned anywhere,  *)
(* although docs/resource_variables.md asks for it.                         *)
(***************************************************************************)
EXTENDS Integers, Sequences, FiniteSets, FiniteSetsExt

CONSTANTS
  Models,               \* models, each a sequence of subgraphs, sequences of ops
  MaxVariables,         \* values of the max_num_variables given to Create
  Rooms,                \* numbers of resource buffers that fit into the arena
  Inputs,               \* values of the first model input
  MaxInvocations

\* An operator: the handle is the tensor that holds a resource id; the value
\* assigned is a constant of the model or, for "input", the model's input:
\* [code : {"VAR_HANDLE"}, container, shared_name, handle],
\* [code : {"ASSIGN"}, handle, zero_point, value], [code : {"READ"}, handle]
\* or [code : {"CALL_ONCE"}, init_subgraph].

NoName == "null"       \* a null pointer in place of a name
nullptr == "nullptr"

VARIABLES
  model, max_variable_count_, room,
  resource_variables_,   \* [container, shared_name, resource_buffer, default_value]
  handles,               \* the ids that handle tensors point to
  pc,                    \* "prepare", "idle", "invoke", "failed" or "crashed"
  place,                 \* subgraphs and operators being prepared or invoked, innermost first
  has_run,               \* of the CALL_ONCE operators
  input,
  invocations,
  defaults, stored,      \* history: what the model's variables should start with, and hold
  answer,                \* history: the last read, [value, expected]
  pristine               \* history: the state when tensors had been allocated

config == <<model, max_variable_count_>>
history == <<defaults, stored, answer, pristine>>
vars == <<config, room, resource_variables_, handles, pc, place, has_run, input,
          invocations, history>>

-----------------------------------------------------------------------------

\* Some flatbuffers have null container names: then the name alone decides.
SameName(v, container, shared_name) ==
  /\ container \in {NoName, v.container}
  /\ v.shared_name = shared_name

\* strcmp is given the null container of a variable that comes before a match.
FindCrashes(container, shared_name) ==
  \E k \in DOMAIN resource_variables_ :
    /\ container # NoName /\ resource_variables_[k].container = NoName
    /\ \A j \in 1..(k - 1) : ~SameName(resource_variables_[j], container, shared_name)

\* FindId; ids count from 1 here, and 0 stands for -1.
FindId(container, shared_name) ==
  LET found == {k \in DOMAIN resource_variables_ :
                  SameName(resource_variables_[k], container, shared_name)}
  IN IF found = {} THEN 0 ELSE Min(found)

NewVariable(container, shared_name) ==
  [container |-> container, shared_name |-> shared_name,
   resource_buffer |-> nullptr, bytes |-> 0, default_value |-> "0"]

TableFull == Len(resource_variables_) >= max_variable_count_

\* CreateIdIfNoneFound: the table after it, and the id.
Created(container, shared_name) ==
  LET id == FindId(container, shared_name)
  IN IF id # 0 THEN <<resource_variables_, id>>
     ELSE IF TableFull THEN <<resource_variables_, 0>>
     ELSE <<Append(resource_variables_, NewVariable(container, shared_name)),
            Len(resource_variables_) + 1>>

IsId(id) == id \in DOMAIN resource_variables_

Allocates(id) == resource_variables_[id].resource_buffer = nullptr

\* Allocate, for a value tensor of zero point z: the table after it.  bytes is 1
\* for the size of the tensor, and is set whether or not there is room.
Allocated(id, z) ==
  IF ~Allocates(id) THEN resource_variables_
  ELSE IF room = 0 THEN [resource_variables_ EXCEPT ![id].bytes = 1]
  ELSE [resource_variables_ EXCEPT ![id].bytes = 1, ![id].resource_buffer = z,
                                   ![id].default_value = z]

AllocateOk(id) == IsId(id) /\ (Allocates(id) => room > 0)

\* A bug: only the default is set, not the buffer.
BugReset(v) == [v EXCEPT !.default_value = "0"]

Reset(v) == [v EXCEPT !.resource_buffer = IF @ = nullptr THEN @ ELSE v.default_value]
ResetCrashes(table) ==
  \E k \in DOMAIN table : table[k].resource_buffer = nullptr /\ table[k].bytes > 0

-----------------------------------------------------------------------------

Here == place[1]
Op == model[Here.g][Here.i]
AtOp(code) == Here.i <= Len(model[Here.g]) /\ Op.code = code
NextOp == [place EXCEPT ![1].i = @ + 1]
Handle == handles[<<Here.g, Op.handle>>]

\* The operators that make a handle, and the container and name that it stands for.
MakersOf(m, g, h) == {i \in DOMAIN m[g] : m[g][i].code = "VAR_HANDLE" /\ m[g][i].handle = h}
PairOf(m, g, h) ==
  LET op == m[g][CHOOSE i \in MakersOf(m, g, h) : TRUE] IN <<op.container, op.shared_name>>

PairsOf(m) ==
  UNION {{PairOf(m, g, m[g][i].handle) :
            i \in {j \in DOMAIN m[g] : m[g][j].code = "VAR_HANDLE"}} :
         g \in DOMAIN m}

HandlesOf(m) ==
  UNION {{<<g, m[g][i].handle>> : i \in {j \in DOMAIN m[g] : m[g][j].code # "CALL_ONCE"}} :
         g \in DOMAIN m}

Operators ==
  [code : {"VAR_HANDLE"}, container : STRING, shared_name : STRING, handle : Nat]
  \cup [code : {"ASSIGN"}, handle : Nat, zero_point : STRING \ {nullptr},
        value : STRING \ {nullptr}]
  \cup [code : {"READ"}, handle : Nat]
  \cup [code : {"CALL_ONCE"}, init_subgraph : Nat]

\* A handle is a tensor that one operator makes, an earlier one of the subgraph that
\* uses it; and names are written with containers or without.
WellFormed(m) ==
  /\ m \in Seq(Seq(Operators)) /\ m # <<>>
  /\ \A g \in DOMAIN m : \A i \in DOMAIN m[g] :
       LET op == m[g][i]
       IN  /\ op.code = "CALL_ONCE" => op.init_subgraph \in DOMAIN m
           /\ op.code # "CALL_ONCE" => \E j \in 1..i : MakersOf(m, g, op.handle) = {j}
  /\ \A p, q \in PairsOf(m) : p[1] = NoName <=> q[1] = NoName

\* What is read is assigned somewhere, so that its buffer is allocated.
ReadsAssigned(m) ==
  \A g \in DOMAIN m : \A i \in DOMAIN m[g] :
    m[g][i].code = "READ" =>
      \E f \in DOMAIN m : \E j \in DOMAIN m[f] :
        /\ m[f][j].code = "ASSIGN"
        /\ PairOf(m, f, m[f][j].handle) = PairOf(m, g, m[g][i].handle)

\* MicroResourceVariables::Create, before the interpreter allocates its tensors.
Init ==
  /\ model \in Models /\ max_variable_count_ \in MaxVariables /\ room \in Rooms
  /\ resource_variables_ = <<>>
  /\ handles = [h \in HandlesOf(model) |-> 0]
  /\ pc = "prepare" /\ place = <<[g |-> 1, i |-> 1]>>
  /\ has_run = {} /\ input \in Inputs /\ invocations = 0
  /\ defaults = [p \in PairsOf(model) |-> nullptr] /\ stored = defaults
  /\ answer = [value |-> nullptr, expected |-> nullptr]
  /\ pristine = <<>>

Fail == pc' = "failed" /\ UNCHANGED <<config, room, resource_variables_, handles, place,
                                      has_run, input, invocations, history>>
Crash == pc' = "crashed" /\ UNCHANGED <<config, room, resource_variables_, handles, place,
                                        has_run, input, invocations, history>>

Preparing == pc = "prepare" /\ place # <<>>
StillPreparing ==
  /\ place' = NextOp
  /\ UNCHANGED <<config, pc, has_run, input, invocations, answer, pristine>>

\* VarHandlePrepare.
PrepareVarHandle ==
  /\ Preparing /\ AtOp("VAR_HANDLE")
  /\ LET created == Created(Op.container, Op.shared_name)
     IN IF FindCrashes(Op.container, Op.shared_name) THEN Crash
        ELSE IF created[2] = 0 THEN Fail
        ELSE /\ resource_variables_' = created[1]
             /\ handles' = [handles EXCEPT ![<<Here.g, Op.handle>>] = created[2]]
             /\ StillPreparing
             /\ UNCHANGED <<room, defaults, stored>>

\* Prepare of ASSIGN_VARIABLE.  Nothing is allocated for a handle that still points
\* nowhere; and an allocation that fails has set bytes.
PrepareAssign ==
  /\ Preparing /\ AtOp("ASSIGN")
  /\ UNCHANGED <<handles, stored>>
  /\ \/ /\ Handle = 0
        /\ StillPreparing /\ UNCHANGED <<room, resource_variables_, defaults>>
     \/ /\ AllocateOk(Handle)
        /\ resource_variables_' = Allocated(Handle, Op.zero_point)
        /\ room' = IF Allocates(Handle) THEN room - 1 ELSE room
        /\ defaults' = [defaults EXCEPT ![PairOf(model, Here.g, Op.handle)] =
                           IF @ = nullptr THEN Op.zero_point ELSE @]
        /\ StillPreparing
     \/ /\ Handle # 0 /\ ~AllocateOk(Handle)
        /\ resource_variables_' = Allocated(Handle, Op.zero_point)
        /\ pc' = "failed"
        /\ UNCHANGED <<config, room, place, has_run, input, invocations, defaults, answer,
                       pristine>>

\* The other kernels prepare nothing that is modelled.
PrepareOther ==
  /\ Preparing /\ (AtOp("READ") \/ AtOp("CALL_ONCE"))
  /\ StillPreparing
  /\ UNCHANGED <<room, resource_variables_, handles, defaults, stored>>

PrepareNextSubgraph ==
  /\ Preparing /\ Here.i > Len(model[Here.g]) /\ Here.g < Len(model)
  /\ place' = <<[g |-> Here.g + 1, i |-> 1]>>
  /\ UNCHANGED <<config, pc, room, resource_variables_, handles, has_run, input,
                 invocations, history>>

\* What MicroInterpreter::Reset does to the variables; none of the kernels here
\* has a reset function.
ResetAll ==
  /\ ~ResetCrashes(resource_variables_)
  /\ resource_variables_' = [k \in DOMAIN resource_variables_ |-> Reset(resource_variables_[k])]
  /\ stored' = defaults
  /\ UNCHANGED <<config, room, handles, has_run, input, invocations, defaults, answer>>

\* The memset of a buffer that was never allocated.
ResetNull == ResetCrashes(resource_variables_) /\ Crash

\* AllocateTensors ends with Reset.
FinishAllocateTensors ==
  /\ Preparing /\ Here.i > Len(model[Here.g]) /\ Here.g = Len(model)
  /\ \/ ResetNull
     \/ /\ ResetAll
        /\ pc' = "idle" /\ place' = <<>>
        /\ pristine' = <<resource_variables_', has_run>>

-----------------------------------------------------------------------------

\* Invoke after an AllocateTensors that failed returns an error at once.
Invoke ==
  /\ pc = "idle" /\ invocations < MaxInvocations
  /\ pc' = "invoke" /\ place' = <<[g |-> 1, i |-> 1]>>
  /\ input' \in Inputs /\ invocations' = invocations + 1
  /\ UNCHANGED <<config, room, resource_variables_, handles, has_run, history>>

Invoking == pc = "invoke" /\ place # <<>>
StillInvoking == UNCHANGED <<config, pc, room, input, invocations, defaults, pristine>>

\* VarHandleEval points the handle to the id again.
InvokeVarHandle ==
  /\ Invoking /\ AtOp("VAR_HANDLE")
  /\ place' = NextOp /\ StillInvoking
  /\ UNCHANGED <<resource_variables_, handles, has_run, stored, answer>>

\* A kernel's error ends the invocation.
FailInvocation ==
  /\ pc' = "idle" /\ place' = <<>>
  /\ UNCHANGED <<config, room, resource_variables_, handles, has_run, input, invocations,
                 history>>

Assigned(v) == [resource_variables_ EXCEPT ![Handle].resource_buffer = v]

\* Eval of ASSIGN_VARIABLE: Assign refuses a variable without a buffer.
InvokeAssign ==
  /\ Invoking /\ AtOp("ASSIGN")
  /\ LET v == IF Op.value = "input" THEN input ELSE Op.value
     IN IF ~IsId(Handle) \/ resource_variables_[Handle].resource_buffer = nullptr
        THEN FailInvocation
        ELSE /\ resource_variables_' = Assigned(v)
             /\ stored' = [stored EXCEPT ![PairOf(model, Here.g, Op.handle)] = v]
             /\ place' = NextOp /\ StillInvoking
             /\ UNCHANGED <<handles, has_run, answer>>

\* Eval of READ_VARIABLE; Read asserts that there is a buffer.
InvokeRead ==
  /\ Invoking /\ AtOp("READ")
  /\ IF ~IsId(Handle) THEN FailInvocation
     ELSE IF resource_variables_[Handle].resource_buffer = nullptr THEN Crash
     ELSE /\ answer' = [value |-> resource_variables_[Handle].resource_buffer,
                        expected |-> stored[PairOf(model, Here.g, Op.handle)]]
          /\ place' = NextOp /\ StillInvoking
          /\ UNCHANGED <<resource_variables_, handles, has_run, stored>>

\* CallOnceEval runs the subgraph the first time only.
InvokeCallOnce ==
  /\ Invoking /\ AtOp("CALL_ONCE")
  /\ IF <<Here.g, Here.i>> \in has_run THEN place' = NextOp
     ELSE place' = <<[g |-> Op.init_subgraph, i |-> 1]>> \o place
  /\ StillInvoking
  /\ UNCHANGED <<resource_variables_, handles, has_run, stored, answer>>

\* The subgraph of a CALL_ONCE ends, and the operator has run; or the first one
\* ends, and the invocation with it.
EndSubgraph ==
  /\ Invoking /\ Here.i > Len(model[Here.g])
  /\ IF Len(place) > 1
     THEN /\ place' = [Tail(place) EXCEPT ![1].i = @ + 1]
          /\ has_run' = has_run \union {<<place[2].g, place[2].i>>}
          /\ UNCHANGED pc
     ELSE pc' = "idle" /\ place' = <<>> /\ UNCHANGED has_run
  /\ UNCHANGED <<config, room, resource_variables_, handles, input, invocations, history>>

\* Reset does not ask whether AllocateTensors succeeded.
CallReset ==
  /\ pc \in {"idle", "failed"}
  /\ ResetNull \/ (ResetAll /\ UNCHANGED <<pc, place, pristine>>)

Next ==
  \/ PrepareVarHandle \/ PrepareAssign \/ PrepareOther \/ PrepareNextSubgraph
  \/ FinishAllocateTensors
  \/ Invoke \/ InvokeVarHandle \/ InvokeAssign \/ InvokeRead \/ InvokeCallOnce
  \/ EndSubgraph \/ CallReset

Spec == Init /\ [][Next]_vars

(***************************************************************************)
(* Properties.                                                              *)
(***************************************************************************)

TypeOK ==
  /\ pc \in {"prepare", "idle", "invoke", "failed", "crashed"}
  /\ Len(resource_variables_) <= max_variable_count_
  /\ \A h \in DOMAIN handles : handles[h] = 0 \/ IsId(handles[h])
  /\ room \in Nat /\ invocations \in 0..MaxInvocations
  /\ \A k \in DOMAIN place : place[k].g \in DOMAIN model

\* A READ_VARIABLE gets what was last assigned to the variable of its container
\* and name, in whichever subgraph, since the last reset, or else the zero point
\* of the tensor that it was allocated for.
ReadsStored == answer.value = answer.expected

\* Null pointers are followed in two cases only: by a reset after an AllocateTensors that
\* ran out of room for a variable, whose bytes Allocate had already set, and by a
\* READ_VARIABLE of what no ASSIGN_VARIABLE of the model allocates.  So a reset after
\* any other failure is safe, as when the table is full, and once tensors are allocated
\* nothing that the model assigns is ever null, in whichever subgraph it is read.
NullsFollowed ==
  pc = "crashed" => (pristine = <<>> /\ room = 0) \/ ~ReadsAssigned(model)

\* "Only the first call to each will generate a new resource ID or allocate a
\* resource buffer" (docs/resource_variables.md): pairs have ids of their own,
\* and an allocated variable is never allocated again.  An action property.
AllocatedOnce ==
  \A k \in DOMAIN resource_variables_ :
    resource_variables_[k].resource_buffer # nullptr => room' = room \/ Handle # k

\* "Reset the state to be what you would expect when the interpreter is first
\* created, i.e. after Init and Prepare is called for the very first time"
\* (micro_interpreter.h), for models without a CALL_ONCE operator.  An action
\* property.
ResetRestores ==
  CallReset /\ pristine # <<>> /\ has_run = {} => resource_variables_' = pristine[1]
=============================================================================
