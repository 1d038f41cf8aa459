\* AddrSpace = 12 makes the second word of a burst from base 8 wrap to address 0.
CONSTANTS
  NSlots = 1
  NChannels = 2
  GenMod = 2
  AddrSpace = 12
  MaxMapping = 8
  Timeout = 2
  MaxBinds = 3
  None = None
  w1 = w1
  Bases <- MCBases
  Lengths <- MCLengths
  Offsets <- MCOffsets
  Bursts <- MCBursts
  Words <- MCWords
SPECIFICATION Spec
INVARIANTS BurstKeepsItsMapping RevocationStopsTheBurst StaleHandleRejected CompletionIsExact
