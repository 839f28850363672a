SPECIFICATION Spec
CONSTANTS
  Addrs <- MCAddrs
  Words <- MCWords
  RomSize = 4
  SeqSpace = 4
  RxDepth = 2
  TxDepth = 8
  ByteTime = 2
  TimeoutCycles = 45
  Scripts <- Holds
  Unreliable <- Reliable
INVARIANT LockedReleases
