CONSTANTS
  NumPdevs = 1
  PdevSize = 1
  MaxChunks = 1
  MaxVdevs = 2
  MaxGen = 6
  MaxCrashes = 0
  MaxReplaced = 0
  ReqSizes = {1}
  VdevLinkFix = FALSE
  ChunkSlotFix = TRUE
SPECIFICATION Spec
CONSTRAINT GenBound
INVARIANT VdevListConsistent
