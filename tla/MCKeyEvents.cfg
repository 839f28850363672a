SPECIFICATION FairSpec
CONSTANTS
  Rows = 2
  Cols = 2
  KeyAt <- MCKeyAt
  Divisor = 2
  RingDepth = 2
  MaxPresses = 3
  Pressed <- MCPressed
  Others <- MCOthers
INVARIANTS EventsAmount NoLostWakeup
PROPERTIES Served Settles
