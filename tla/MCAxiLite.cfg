SPECIFICATION FairSpec
CONSTANTS
  Addrs <- MCAddrs
  Words <- MCWords
  MaxDepth = 2
INVARIANTS TypeOK RequestKept
PROPERTIES Implements WritesServed ReadsServed
