SPECIFICATION Spec
CONSTANTS
  Lbas <- MCLbas
  ResetLba = 0
  CountSpace = 8
  CmdBits = 2
  ByteBits = 2
  Timeout = 1
  DefaultLength = 2
  SimBootRom = FALSE
  RomSize = 4
  LoaderDepth = 4
  FrameCycles = 3
  Owned <- SdReads
  Software <- SdReads
  MaxEvents = 1
  MaxForeign = 0
INVARIANT ImageComplete
