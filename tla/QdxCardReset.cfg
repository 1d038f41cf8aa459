SPECIFICATION Spec
CONSTANTS
  None = None
  Ring = 2
  Positions = 4
  SqWords = 2
  CqWords = 2
  Window = 16
  Timeout = 9
  Waits = {0}
  Faults <- NoFaults
  Accesses <- AllAccesses
  BusResets = {}
PROPERTY
  ResetReturnsToDisabled
