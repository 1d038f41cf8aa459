CONSTANTS
  NSlots = 1
  NChannels = 1
  GenMod = 2
  AddrSpace = 16
  MaxMapping = 8
  Timeout = 5
  None = None
  Words <- MCWords
  Bursts <- MCBursts
  NotifyChannels <- OneChannel
  Registers <- MCRegisters
  WorkerRequests <- MCWorker
  Mappings <- MCMappings
  BoundSlots <- MCSlots
  Offsets <- MCOffsets
  DataPins <- Pins
  Configured <- NoneConfigured
  Edges = 1
  CardRequests <- MCRequests
  CardChannels <- OneChannel
  DeviceAnswers <- MCAnswers
  Stalls = {TRUE, FALSE}
  Flips = {TRUE, FALSE}
SPECIFICATION HCSpec
INVARIANTS CoreInv HCInv
