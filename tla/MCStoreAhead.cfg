CONSTANTS
  AddrSpace = 64
  Width = 8
  Height = 16
  RomBase = 16
  StackDepth = 2
  TicksPerPulse = 7
  IllegalPolicy = "NOP"
  Loads = {}
  LoadsWhileRunning = FALSE
  FontRom <- SmallFont
  KeySets <- MCKeySets
  Images <- StoreAhead
SPECIFICATION LSpec
CONSTRAINT AlwaysRunning
PROPERTY Lockstep
