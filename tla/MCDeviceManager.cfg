CONSTANTS
  NumPdevs = 2
  PdevSize = 3
  MaxChunks = 4
  MaxVdevs = 2
  MaxGen = 9
  MaxCrashes = 1
  MaxReplaced = 1
  ReqSizes = {1}
  VdevLinkFix = TRUE
  ChunkSlotFix = TRUE
SPECIFICATION Spec
CONSTRAINT GenBound
INVARIANTS DmTypeOK ChunkTableWellFormed DiskInSync VdevListConsistent
PROPERTY RecoveredIsLastOrInflight
