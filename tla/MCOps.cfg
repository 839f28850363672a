CONSTANTS
  AddrSpace = 1024
  Width = 64
  Height = 32
  RomBase = 512
  StackDepth = 16
  FramebufferBanks = 4
  BlockSize = 512
SPECIFICATION Spec
INVARIANTS
  BcdIsDecimal
  FlagsAreExact
  BitwiseIsExact
  RngIsMaximal
  ReadAheadContract
  AluMatchesReference
  SuiteIsClean
