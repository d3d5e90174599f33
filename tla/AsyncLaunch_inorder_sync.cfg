SPECIFICATION FairSpec
CONSTANTS
  t1 = t1  t2 = t2  l1 = l1  l2 = l2
  Free = Free  NoEvent = NoEvent
  Thread <- OneThread
  Launch <- TwoLaunches
  InOrder = TRUE
  SyncCalls = TRUE
  DepKinds <- Nothing
  JitWaits <- Nothing
CHECK_DEADLOCK FALSE
PROPERTY SyncReturns
