CONSTANTS
  NSlots = 1
  NChannels = 1
  GenMod = 2
  AddrSpace = 16
  MaxMapping = 8
  Timeout = 3
  None = None
  Absent = None
  b1 = b1
  b2 = b2
  Lanes <- MCLanes
  Bytes <- MCBytes
  Words <- MCWords
  Capacity = 2
  Latencies <- MCLatencies
  Holdoffs <- MCHoldoffs
  Bursts <- MCBursts
  NotifyChannels <- NoChannel
  Registers <- NoRegister
  WorkerRequests <- NoWorker
  Mappings <- MCMappings
  BoundSlots <- OneSlot
  Offsets <- MCOffsets
  DataPins <- Pins
  Configured <- NoneConfigured
  Edges = 1
SPECIFICATION HMSpec
INVARIANTS AcknowledgedWritesAreInMemory ReadDataIsCurrent
