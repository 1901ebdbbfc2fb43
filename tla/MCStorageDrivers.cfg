CONSTANTS
  NumBlocks = 3
  Counts = {0, 1, 2}
  MaxCalls = 2
  QUEUE_SIZE <- MCQueueSize
  SECTORS_PER_PAGE = 1
  MAX_NAMESPACES = 2
  DWORD = 4
  MaxNsid = 2
  Disks <- MCDisks
  NumPorts = 2
  NumSlots = 2
  AhciMachines <- MCMachines
  SD_BLOCK_SIZE = 512
  SD_SECTORS_PER_PAGE = 1
  Cards <- MCCards
  LBA32 = 2
  READY_TRIES = 2
  MaxInstances = 2
SPECIFICATION Spec
INVARIANT DriversKnowTheirDevices
PROPERTY ImplementsBlockStore
PROPERTY CallsReturn
CHECK_DEADLOCK FALSE
