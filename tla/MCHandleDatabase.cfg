CONSTANTS
  BlockIo = BlockIo
  Fs = Fs
  DEVICE_PATH = DEVICE_PATH
  LOADED_IMAGE = LOADED_IMAGE
  i1 = i1
  NULL = NULL
  Guids = {BlockIo, Fs, DEVICE_PATH}
  Interfaces = {i1}
  Batches <- DbBatches
  MAX_HANDLES = 2
  MAX_PROTOCOLS_PER_HANDLE = 2
SPECIFICATION MCSpec
INVARIANTS NoAmbiguity LookupsAgree ImagesKeepMemory ImagesAreDescribed
PROPERTY ImplementsProtocolMap
CHECK_DEADLOCK FALSE
