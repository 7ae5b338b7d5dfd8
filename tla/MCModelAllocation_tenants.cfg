SPECIFICATION Spec
CONSTANTS
  AddressBits = 7
  AddressSpace = 128
  BufferHead = 16
  BufferTail = 77
  Models <- SmallModels
  OverheadSize = 3
  DataAllocatorSize = 2
  RequestSize = 2
  HandleSize = 2
  OffsetSize = 1
  InfoSize = 2
  PlannedSize = 2
  StructAlignment = 2
  BufferAlignment = 4
  kMaxScratchBuffersPerOp = 2
  KernelSizes = {4}
  MaxRequests = 1
  MaxKernelTemps = 1
  MaxTenants = 2
INVARIANTS TenantsIntact
PROPERTIES KeepsTenancy
CHECK_DEADLOCK FALSE
