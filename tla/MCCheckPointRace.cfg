CONSTANTS
  t1 = t1
  t2 = t2
  ft = ft
  c1 = c1
  c2 = c2
  NoId = NoId
  Threads <- MCThreads
  FlushThread = ft
  CpIds <- MCCpIds
  ExitTestAtomic = FALSE
  EpochOwnRef = FALSE
SPECIFICATION Spec
VIEW MCView
INVARIANTS
  FlushStartsDrained
