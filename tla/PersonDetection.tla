-------------------------- MODULE PersonDetection --------------------------
(***************************************************************************)
(* The application: main calls setup once and then loop a fixed number of  *)
(* times.  setup gives up at the first thing that is missing and says so   *)
(* only by what it leaves unset.  loop copies the next image into the      *)
(* input tensor, runs the interpreter and reports what is in the output    *)
(* tensor.  The input and output tensors lie in the tensor arena, whose    *)
(* memory the planner gives to other tensors before and behind them, so an *)
(* operator may destroy the image, and the output holds leftovers until    *)
(* the last operator has run.                                              *)
(***************************************************************************)
EXTENDS Integers, Sequences

CONSTANTS
  Turns,      \* calls of loop in main
  Operators   \* operators of the model: 31, a few here

Images == 0 .. 3
leftover == -1     \* memory that holds something else
Contents == Images \cup {leftover}

VARIABLES
  pc,            \* where main is
  turns,         \* calls of loop so far
  interpreter,   \* interpreter is set
  input,         \* input is set
  allocated,     \* AllocateTensors has succeeded
  which,         \* the next image of GetImage
  mismatched,    \* the images whose size is not that of the input
  inputHolds,    \* the image in the memory of the input tensor
  outputHolds,   \* the image whose scores are in the memory of the output tensor
  carried,       \* the image that the tensors between them stem from
  operator,      \* operators that this Invoke has run
  shown,         \* the image that GetImage copied last
  results        \* what has been reported: the image shown, the image scored

settings == <<interpreter, input, allocated, mismatched>>
tensors == <<inputHolds, outputHolds, carried>>
vars == <<pc, turns, settings, which, tensors, operator, shown, results>>

\* The size is compared for the first two images only.
Init ==
  /\ pc = "setup" /\ turns = 0
  /\ interpreter = FALSE /\ input = FALSE /\ allocated = FALSE
  /\ which = 2
  /\ mismatched \in SUBSET {0, 1}
  /\ inputHolds = leftover /\ outputHolds = leftover /\ carried = leftover
  /\ operator = 0 /\ shown = leftover /\ results = <<>>

-----------------------------------------------------------------------------
\* The model has no subgraph or the subgraph no inputs: setup returns.
ModelRefused ==
  /\ pc = "setup" /\ ~interpreter
  /\ pc' = "main"
  /\ UNCHANGED <<turns, settings, which, tensors, operator, shown, results>>

\* The resolver is filled and the interpreter constructed in its buffer; what
\* these report is not looked at.
CreateInterpreter ==
  /\ pc = "setup" /\ ~interpreter
  /\ interpreter' = TRUE
  /\ UNCHANGED <<pc, turns, input, allocated, which, mismatched, tensors, operator, shown, results>>

AllocateTensorsFails ==
  /\ pc = "setup" /\ interpreter /\ ~allocated
  /\ pc' = "main"
  /\ UNCHANGED <<turns, settings, which, tensors, operator, shown, results>>

AllocateTensors ==
  /\ pc = "setup" /\ interpreter /\ ~allocated
  /\ allocated' = TRUE
  /\ UNCHANGED <<pc, turns, interpreter, input, which, mismatched, tensors, operator, shown, results>>

\* The interpreter has no room for its input tensor: setup loops forever.
NoInput ==
  /\ pc = "setup" /\ allocated
  /\ pc' = "hung"
  /\ UNCHANGED <<turns, settings, which, tensors, operator, shown, results>>

TakeInput ==
  /\ pc = "setup" /\ allocated
  /\ input' = TRUE
  /\ pc' = "main"
  /\ UNCHANGED <<turns, interpreter, allocated, which, mismatched, tensors, operator, shown, results>>

-----------------------------------------------------------------------------
\* One turn of loop ends.
LoopReturns == pc' = "main" /\ turns' = turns + 1

LoopRefused ==
  /\ pc = "main" /\ turns < Turns /\ ~(input /\ interpreter)
  /\ LoopReturns
  /\ UNCHANGED <<settings, which, tensors, operator, shown, results>>

StartLoop ==
  /\ pc = "main" /\ turns < Turns /\ input /\ interpreter
  /\ pc' = "image"
  /\ UNCHANGED <<turns, settings, which, tensors, operator, shown, results>>

\* The error leaves which alone: the next turn fails at the same image.
GetImageFails ==
  /\ pc = "image" /\ which \in mismatched
  /\ LoopReturns
  /\ UNCHANGED <<settings, which, tensors, operator, shown, results>>

GetImage ==
  /\ pc = "image" /\ which \notin mismatched
  /\ inputHolds' = which /\ shown' = which
  /\ which' = (which + 1) % 4
  /\ operator' = 0
  /\ pc' = "invoke"
  /\ UNCHANGED <<turns, settings, outputHolds, carried, results>>

\* The first operator reads the input, the last writes the output.  Each
\* writes its output into memory that may be that of the input or, before the
\* last, that of the output.
RunOperator ==
  /\ pc = "invoke" /\ operator < Operators
  /\ operator' = operator + 1
  /\ carried' = IF operator' = 1 THEN inputHolds ELSE carried
  /\ inputHolds' \in {inputHolds, leftover}
  /\ outputHolds' \in IF operator' = Operators THEN {carried} ELSE {outputHolds, leftover}
  /\ UNCHANGED <<pc, turns, settings, which, shown, results>>

\* An operator fails: Invoke returns its status, and so does loop.
OperatorFails ==
  /\ pc = "invoke" /\ operator < Operators
  /\ LoopReturns
  /\ UNCHANGED <<settings, which, tensors, operator, shown, results>>

\* interpreter->output(0) is null.
NoOutput ==
  /\ pc = "invoke" /\ operator = Operators
  /\ LoopReturns
  /\ UNCHANGED <<settings, which, tensors, operator, shown, results>>

Report ==
  /\ pc = "invoke" /\ operator = Operators
  /\ results' = Append(results, [shown |-> shown, scored |-> outputHolds])
  /\ LoopReturns
  /\ UNCHANGED <<settings, which, tensors, operator, shown>>

MainReturns ==
  /\ pc = "main" /\ turns = Turns
  /\ pc' = "returned"
  /\ UNCHANGED <<turns, settings, which, tensors, operator, shown, results>>

Next ==
  \/ ModelRefused \/ CreateInterpreter \/ AllocateTensorsFails \/ AllocateTensors
  \/ NoInput \/ TakeInput
  \/ LoopRefused \/ StartLoop \/ GetImageFails \/ GetImage
  \/ RunOperator \/ OperatorFails \/ NoOutput \/ Report
  \/ MainReturns

\* The program runs by itself.
Spec == Init /\ [][Next]_vars /\ WF_vars(Next)

-----------------------------------------------------------------------------
TypeOK ==
  /\ pc \in {"setup", "main", "image", "invoke", "hung", "returned"}
  /\ turns \in 0 .. Turns /\ operator \in 0 .. Operators
  /\ {interpreter, input, allocated} \subseteq BOOLEAN
  /\ which \in Images /\ mismatched \subseteq Images
  /\ {inputHolds, outputHolds, carried, shown} \subseteq Contents
  /\ results \in Seq([shown: Contents, scored: Contents])

\* The scores that a turn reports are those of the image it copied, although
\* the arena keeps neither the image nor the scores of an earlier turn, and
\* earlier turns may have stopped in the middle of the model.
ResultsOfShownImages ==
  \A i \in DOMAIN results : results[i].shown \in Images /\ results[i].scored = results[i].shown

\* setup has no status to return; what it leaves unset is all that keeps loop
\* from running a model whose tensors were never allocated.
LoopOnlyWhenSetUp == pc \in {"image", "invoke"} => allocated

\* The program is over: main has returned, or setup has stopped it.
Ended == pc \in {"returned", "hung"}

=============================================================================
