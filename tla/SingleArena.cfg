SPECIFICATION Spec
CONSTANTS
  AddressBits = 6
  AddressSpace = 64
  BufferHead = 16
  BufferTail = 29
  AllocatorSize = 3
  AllocatorAlignment = 2
  Sizes = {1, 3}
  Alignments = {1, 4}
  MaxPersistent = 3
  MaxTemps = 2
INVARIANTS PersistentIntact TempsIntact TempAuditExact
PROPERTIES HeadFixedUnderTemps KeepsContract
CHECK_DEADLOCK FALSE
