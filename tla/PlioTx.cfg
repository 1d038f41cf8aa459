CONSTANTS
  Halves <- MCHalves
  Controls = {i1}
  Responses <- MCResponses
  None = None
SPECIFICATION Spec
INVARIANTS ReadIsCoherent DriveAfterIdle CardIsTransparent
PROPERTIES NoTornWord
