CONSTANTS
  NSlots = 1
  NChannels = 1
  GenMod = 2
  AddrSpace = 16
  MaxMapping = 8
  Timeout = 2
  None = None
  w1 = w1
  Words <- MCWords
  Bursts <- TwoBeats
  NotifyChannels <- NoChannel
  Registers <- OneRegister
  WorkerRequests <- SelfTest
  Mappings <- MCMappings
  BoundSlots <- OneSlot
  Offsets <- MCOffsets
  DataPins <- AllPins
  Configured <- NoneConfigured
  Edges = 2
SPECIFICATION LiveSpec
INVARIANTS DmaEpochOwnsBurst AcksFollowMemory
PROPERTIES OkIsEarned EpochEnds WorkerServed
