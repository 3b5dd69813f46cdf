CONSTANTS
  NumLbas = 4
  Seqs <- MCSeqs
  InOrder = FALSE
SPECIFICATION Spec
INVARIANTS
  GetReturnsNewest
CHECK_DEADLOCK FALSE
