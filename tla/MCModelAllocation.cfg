SPECIFICATION Spec
CONSTANTS
  AddressBits = 7
  AddressSpace = 128
  BufferHead = 16
  BufferTail = 61
  Models <- SmallModels
  OverheadSize = 3
  DataAllocatorSize = 2
  RequestSize = 2
  HandleSize = 2
  OffsetSize = 1
  InfoSize = 2
  PlannedSize = 2
  StructAlignment = 2
  BufferAlignment = 4
  kMaxScratchBuffersPerOp = 2
  KernelSizes = {3}
  MaxRequests = 4
  MaxKernelTemps = 2
  MaxTenants = 1
INVARIANTS RequestsUnharmed RequestsOwned HeadReleasable
PROPERTIES Returns
CHECK_DEADLOCK FALSE
