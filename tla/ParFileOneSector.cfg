CONSTANTS
  MemSize = 12
  SectorSize = 4
  PageSize = 2
  Byte = {0, 1}
  Erased = Erased
  Mixed = Mixed
  Unlatched = Unlatched
  RecordStart = 0
  RecordLength = 1
  MaxFaults = 1
  MaxDownloads = 2
  Files <- OneSectorFiles
SPECIFICATION ParSpec
INVARIANTS ParStored
