CONSTANTS
  t1 = t1
  t2 = t2
  ft = ft
  c1 = c1
  c2 = c2
  NoId = NoId
  Threads <- MCThreads1
  FlushThread = ft
  CpIds <- MCCpIds
  ExitTestAtomic = FALSE
  EpochOwnRef = TRUE
SPECIFICATION Spec
VIEW MCView
INVARIANTS
  TypeOK
PROPERTIES
  ImplementsAbstract
  FlaggedEpochIsCheckpointed
