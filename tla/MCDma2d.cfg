SPECIFICATION FairSpec
CONSTANTS
  FbWidth = 2
  FbHeight = 2
  Writes <- MCWrites
  MaxEvents = 5
INVARIANT ResultMatches
PROPERTY RunEnds
