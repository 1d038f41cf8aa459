CONSTANTS
  Windows <- MCWindows
  OffsetSpace = 64
  Bursts <- MCBursts
  MaxSg = 2
  MaxTransfer = 1
  BlockWords <- MCBlockWords
  Blocks = 1
  ReportWords = 2
  PayloadWords = 6
  FileBacked <- OnFile
  Commands <- MCCommands
  Images <- MCImages
  None = None
SPECIFICATION Spec
INVARIANTS BurstInWindow ReadsAreWhole
PROPERTIES WritesAreWhole OnlyTheBuffer EveryEventIsProgress
