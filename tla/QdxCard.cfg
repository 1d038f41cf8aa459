SPECIFICATION Spec
CONSTANTS
  None = None
  Ring = 2
  Positions = 4
  SqWords = 2
  CqWords = 2
  Window = 16
  Timeout = 8
  Waits = {0}
  Faults <- AllFaults
  Accesses <- AllAccesses
  BusResets = {TRUE}
INVARIANTS RoomForCompletion CommandIsWhole DeliveryHasTaker NoBurstTimesOut
PROPERTIES PublishedIsWhole AccessAppliedOnce NotifiedOnce
