CONSTANTS
  AddrSpace = 64
  Width = 8
  Height = 16
  RomBase = 16
  StackDepth = 2
  TicksPerPulse = 2
  IllegalPolicy = "TRAP"
  LoadsWhileRunning = FALSE
  FontRom <- SmallFont
  KeySets <- MCKeySets
  Images <- MCImages
  Loads <- MCLoads
SPECIFICATION FairSpec
INVARIANTS
  TypeOK
  PrefetchCoherent
  StoredEntryUnused
  SequencersInStep
  StackShape
  HaltRecorded
PROPERTY InstructionEnds
