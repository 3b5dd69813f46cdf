CONSTANTS
  t1 = t1
  t2 = t2
  bt = bt
  ft = ft
  c1 = c1
  c2 = c2
  v1 = v1
  v2 = v2
  cbInit = cbInit
  cbShut = cbShut
  noCb = noCb
  NoId = NoId
  Threads <- MCThreads
  FlushThread = ft
  BtThread = bt
  CpIds <- MCCpIds
  Vols <- MCVols1
  Callbacks <- MCNoCallbacks
  ShutCb = cbShut
  NoCb = noCb
  IoThreads <- MCIoThreads
  ExitTestAtomic = TRUE
  EpochOwnRef = FALSE
SPECIFICATION IxSpec
VIEW MCIxView
PROPERTIES
  BlkallocRequestServed
