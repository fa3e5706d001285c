CONSTANTS
  MemSize = 8
  SectorSize = 4
  PageSize = 2
  RingSize = 4
  Radix = 2
  CrcModulus = 4
  Org = 1
  IcpEnd = 6
  RxDepth = 1
  MaxFaults = 1
  Data = {0, 1}
  Byte <- MCByte
  Crc <- MCCrc
  Streams <- AllStreams
  Dollar = Dollar
  Dot = Dot
  Eol = Eol
  FlagA5 = FlagA5
  Erased = Erased
  Mixed = Mixed
  Unlatched = Unlatched
  NoImage = NoImage
SPECIFICATION FairSpec
INVARIANTS TypeOK RingHoldsPending ImageStored FlagMeansVerifiedImage SuccessIsMarked
PROPERTIES BootloaderSpec DownloadReturns GoodFileInstalled
