CONSTANTS
  Reqs = {1, 2, 3, 4}
  Kind <- MCKind
  VdevOf <- MCVdevOf
  Vdevs = {0, 1, 2}
  LiveVdevs = {0, 1}
  InvalidVdev = InvalidVdev
  Mirrors <- MCMirrors
  Pdevs = {0, 1}
  ChunkTab <- MCChunkTab
  MaxErrorCnt = 2
  OutstandingFix = TRUE
  ErrorCbFix = FALSE
  ErrorPdevFix = TRUE
SPECIFICATION Spec
INVARIANTS VdevErrorCbValid
CHECK_DEADLOCK FALSE
