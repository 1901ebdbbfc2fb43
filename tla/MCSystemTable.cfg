CONSTANTS
  MAX_MEMORY_ENTRIES = 26
  MAX_IDENTITY_MAPPED = 12
  ADDR_SPACE = 16
  MAX_MEMORY_REGIONS = 3
  MAX_ACPI_REGIONS = 8
  CorebootMaps <- TableMaps
  RuntimeCode <- TableCode
  RuntimeData <- TableData
  AcpiRegions = {}
  AllocTypes = {"LoaderData"}
  Sizes = {1}
  Addresses = {2, 7}
  MaxKey = 7
  PAGE_SIZE = 4
  RSDP_V1_SIZE = 3
  NULL = NULL
  MAX_CONFIG_TABLES = 4
  Rsdps <- TableRsdps
  Smbioses <- TableSmbioses
  Guids = {"ACPI", "rng"}
  LoaderTables = {50}
SPECIFICATION SystemSpec
CHECK_DEADLOCK FALSE
PROPERTIES InstallIsExact TablesAreMarked AcpiPagesStay
