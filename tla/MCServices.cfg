\* One behaviour of one part of MCServices.
SPECIFICATION ServicesSpec
CONSTANTS
  none = none
  TwoArenas <- SmallArenas
  CountedArena <- SixteenBytes
  BypassedArena <- NineBytes
  PlannedModels <- SmallModels
  EthosuBuild <- WithEthosu
  PlainBuild <- WithoutEthosu
  VariableModels <- FiveModels
  ProfiledEvents <- ThreeEvents
  DecodeBuild <- WithDecode
  CompressionBuild <- WithCompression
  HuffmanCodes <- TwoCodes
  LutTensors <- ManyWidths
  PrunedTensors <- SixElements
\* Six turns show every image and the first again; three operators are a first, a
\* last and one between.
  Turns = 6
  GraphOperators = 3
\* FIFOs as deep as the controller's, a driver that gives up after one to three
\* polls, and two addresses so far apart that a byte tells its read.
  Depth = 16
  ReadAddresses = {0, 100}
  TxPolls = 3
  FlushPolls = 3
\* The parts are bounded, and some end.
CHECK_DEADLOCK FALSE
INVARIANTS MemoryRight TablesRight DecodedRight ApplicationRight
PROPERTIES NothingTakenBack ServicesEnd
