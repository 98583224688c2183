SPECIFICATION Spec
CONSTANTS
  NTables = 2
  MaxId = 4
  PageSize = 1
  Window = 2
  MaxFaults = 1
PROPERTIES AllDownloaded
