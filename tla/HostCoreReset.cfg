CONSTANTS
  NSlots = 2
  NChannels = 1
  GenMod = 2
  AddrSpace = 16
  MaxMapping = 8
  Timeout = 2
  None = None
  w1 = w1
  Words <- MCWords
  Bursts <- MCBursts
  NotifyChannels <- NoChannel
  Registers <- OneRegister
  WorkerRequests <- NoWorker
  Mappings <- MCMappings
  BoundSlots <- OneSlot
  Offsets <- MCOffsets
  DataPins <- Pins
  Configured <- NoneConfigured
  Edges = 1
SPECIFICATION Spec
INVARIANT ResetInvalidatesMappings
