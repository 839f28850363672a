SPECIFICATION FairSpec
CONSTANTS
  Addrs <- MCAddrs
  Words <- MCWords
  RomSize = 4
  SeqSpace = 4
  RxDepth = 2
  TxDepth = 8
  ByteTime = 2
  TimeoutCycles = 45
  Scripts <- Session
  Unreliable <- Lossy
INVARIANTS DapTypeOK LockedIsQuiet AnswersWhole NoTimeout
PROPERTIES KeepsPromise EachAnswered EngineReturns
