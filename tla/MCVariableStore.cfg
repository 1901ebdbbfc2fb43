CONSTANTS
  MAX_VARIABLES = 2
  MAX_VARIABLE_NAME_LEN = 3
  MAX_VARIABLE_DATA_SIZE = 2
  Names <- StoreNames
  Vendors = {1}
  Values <- StoreValues
  AttributeSets = {1}
  NameBuffers = {2, 3}
SPECIFICATION FairSpec
INVARIANT ListsEachOnce
PROPERTIES ImplementsVariableMap ListingEnds
