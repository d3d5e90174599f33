SPECIFICATION FairSpec
CONSTANTS
  t1 = t1  t2 = t2  l1 = l1  l2 = l2
  Free = Free  NoEvent = NoEvent
  Thread <- TwoThreads
  Launch <- TwoLaunches
  InOrder = FALSE
  SyncCalls = TRUE
  DepKinds <- OnlyDevice
  JitWaits <- OnlyDevice
INVARIANTS TypeOK NoGilCycle
PROPERTIES WaitReturns ArgumentsReleased
