SPECIFICATION FairSpec
CONSTANTS
  Lbas <- MCLbas
  ResetLba = 0
  CountSpace = 8
  CmdBits = 2
  ByteBits = 2
  Timeout = 1
  DefaultLength = 2
  SimBootRom = FALSE
  RomSize = 4
  LoaderDepth = 4
  FrameCycles = 3
  Owned <- Driver
  Software <- Anything
  MaxEvents = 3
  MaxForeign = 2
INVARIANTS TypeOK ImageComplete HeldWhileLoading LoadedIsLength
PROPERTIES LoadEnds BootEnds
