CONSTANTS
  NumLbas = 4
  Seqs <- MCSeqs
  InOrder = TRUE
SPECIFICATION Spec
INVARIANTS
  TypeOK
  GetReturnsNewest
  BlocksFreedOnce
CHECK_DEADLOCK FALSE
