CONSTANTS
  NumChunks = 3
  ChunkSize = 2
  Sizes = {1, 2}
  MaxRecs = 8
  MaxCrashes = 1
  TruncAtomic = TRUE
  FullTailFix = FALSE
  CrcFix = TRUE
SPECIFICATION Spec
CONSTRAINT RecBound
INVARIANT NoOverwrite
