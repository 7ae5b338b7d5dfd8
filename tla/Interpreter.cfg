\* Three operators, an arena with room for three allocations of the model, and an
\* error possible in every place where the code has one.
SPECIFICATION Spec
CONSTANTS
  NumOps = 3
  Registered = {1, 2, 3}
  Parsed = {1, 2, 3}
  Faults = {"start", "nodes", "prepare", "finish", "inputs", "kernel", "leak"}
  ArenaHolds = 3
\* The destructor is the end.
CHECK_DEADLOCK FALSE
INVARIANTS InvokesPrepared OkWithoutTemps PresentFreed
PROPERTY CallsReturn
