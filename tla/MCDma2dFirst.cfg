SPECIFICATION Spec
CONSTANTS
  FbWidth = 2
  FbHeight = 2
  Writes <- MCWrites
  MaxEvents = 2
INVARIANT FirstResultMatches
