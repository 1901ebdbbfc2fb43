SPECIFICATION Spec
CONSTANTS
  MAX_FILE_HANDLES = 2
  MAX_PATH_LEN = 4
  Paths <- mcPaths
  Lengths = {600, 3000}
  Seeks = {100}
  END = 1000000
  MAX_PARTITIONS = 3
  EMPTY_RUN = 2
  MAX_STORAGE_DEVICES = 8
  MAX_BLOCK_IO_INSTANCES = 4
  ReadCounts = {0, 1, 2}
  U64 = 65536
  Machines <- mcMachines
  HandlesLeft = {4, 8}
  MAX_BOOT_ENTRIES = 4
  TIMEOUT = 2
  Presses <- mcPresses
  MaxTyped = 2
  Volumes <- mcVolumes
INVARIANTS
  ReadsAreExact
  OpensAreExact
  BlockReadsAreOwn
  MenuIsExact
  LoaderComesFromItsDevice
PROPERTY
  MenuEnds
CHECK_DEADLOCK FALSE
