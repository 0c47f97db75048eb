SPECIFICATION FairSpec
CONSTANTS
  Histories <- SomeHistories
  Servers <- SomeServers
  Lengths <- SomeLengths
  MaxRead = 3
  MaxFrom = 1
  MaxReaders = 2
  MaxFaults = 2
INVARIANTS
  TypeOK
  BytesAreConsecutive
  CompleteIsWhole
  BufferIsOneState
  ErrorsHaveACause
PROPERTIES
  EveryReadEnds
