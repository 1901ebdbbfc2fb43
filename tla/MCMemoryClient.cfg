CONSTANTS
  MAX_MEMORY_ENTRIES = 10
  MAX_IDENTITY_MAPPED = 7
  ADDR_SPACE = 9
  MAX_MEMORY_REGIONS = 2
  MAX_ACPI_REGIONS = 1
  CorebootMaps <- ClientMaps
  RuntimeCode <- ClientCode
  RuntimeData <- ClientData
  AcpiRegions <- ClientAcpi
  AllocTypes = {"LoaderData", "BootServicesData"}
  Sizes = {1}
  Addresses = {4, 5}
  MaxKey = 6
  PAGE_SIZE = 4
  POOL_HEADER = 1
  USIZE = 32
  PoolSizes = {0, 3, 4, 27, 31}
  BufferEntries = {2, 8}
  MaxLive = 3
SPECIFICATION ClientSpec
INVARIANTS HeldBlocksAreSafe
PROPERTIES ExitWithCurrentMap ImplementsPageMap
