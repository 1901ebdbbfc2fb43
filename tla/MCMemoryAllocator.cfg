CONSTANTS
  MAX_MEMORY_ENTRIES = 11
  MAX_IDENTITY_MAPPED = 9
  ADDR_SPACE = 16
  MAX_MEMORY_REGIONS = 3
  MAX_ACPI_REGIONS = 1
  CorebootMaps <- MCMaps
  RuntimeCode <- MCCode
  RuntimeData <- MCData
  AcpiRegions <- MCAcpi
  AllocTypes = {"LoaderData", "BootServicesData", "RuntimeServicesData"}
  Sizes = {0, 1, 2, 14}
  Addresses = {0, 2, 4, 6}
  MaxKey = 7
SPECIFICATION Spec
INVARIANTS TypeOK NoOverlap FullMapIsMerged FreeCheckExact FindFreeExact
