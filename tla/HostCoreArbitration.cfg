CONSTANTS
  NSlots = 3
  NChannels = 1
  GenMod = 2
  AddrSpace = 16
  MaxMapping = 8
  Timeout = 2
  None = None
  w1 = w1
  Words <- MCWords
  Bursts <- MCBursts
  NotifyChannels <- OneChannel
  Registers <- OneRegister
  WorkerRequests <- MCWorker
  Mappings <- NoMappings
  BoundSlots <- OneSlot
  Offsets <- MCOffsets
  DataPins <- Pins
  Configured <- OneConfigured
  Edges = 1
SPECIFICATION Spec
INVARIANTS RoundRobinBound
PROPERTIES GrantBoundary NotificationKept
