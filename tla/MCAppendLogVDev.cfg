CONSTANTS
  NumChunks = 3
  ChunkSize = 2
  Sizes = {1, 2}
  MaxRecs = 7
  MaxCrashes = 2
  TruncAtomic = TRUE
  FullTailFix = TRUE
  CrcFix = TRUE
SPECIFICATION Spec
CONSTRAINT RecBound
INVARIANTS AlvTypeOK LogContiguous LogChained NoOverwrite
