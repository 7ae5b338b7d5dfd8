\* A buffer of three values that is also written through reserved pointers, and the
\* kernels of MCSignal.
SPECIFICATION SignalSpec
CONSTANTS
  none = none
  Capacity = 3
  Samples = {0, 1}
  Reserving = TRUE
  Misuses = {}
  Chains <- SomeChains
  MaxModels = 2
  MaxInvokes = 13
  Framers <- SomeFramers
  MaxSteps = 8
  Stackers <- SomeStackers
  MaxFrames = 8
  Adders <- SomeAdders
  AdderInputs <- SomeInputs
  INT16_MIN <- Lowest
  INT16_MAX = 3
  MaxCalls = 3
\* The kernels' invocations are bounded.
CHECK_DEADLOCK FALSE
INVARIANTS StreamsRight ChainsRight
PROPERTIES ImplementsWindow
