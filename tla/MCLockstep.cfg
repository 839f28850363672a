CONSTANTS
  AddrSpace = 64
  Width = 8
  Height = 16
  RomBase = 16
  StackDepth = 4
  TicksPerPulse = 7
  IllegalPolicy = "NOP"
  Loads = {}
  LoadsWhileRunning = FALSE
  FontRom <- SmallFont
  KeySets <- MCKeySets
  Images <- Agreeing
SPECIFICATION LSpec
CONSTRAINT AlwaysRunning
INVARIANT RngNeverZero
PROPERTY Lockstep
