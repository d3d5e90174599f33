CONSTANTS
  cpu = cpu
  gpu = gpu
  q1 = q1
  q2 = q2
  q3 = q3
  Device <- TwoDevices
  Queue <- ThreeQueues
  DeviceOf <- DeviceOfThree
  CachedQueue <- CachedOfTwo
  Usm <- SharedAndDevice
  Args <- SomeArgs
  MaxStmts = 2
  LikeDevice <- NoDevice
SPECIFICATION Spec
INVARIANTS TypeOK ArraysShareQueue UsmFollowsData RefusalJustified
CHECK_DEADLOCK FALSE
