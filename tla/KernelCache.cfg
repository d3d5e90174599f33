SPECIFICATION Spec
CONSTANTS
  t1 = t1  t2 = t2  c1 = c1  c2 = c2  d1 = d1  d2 = d2  p1 = p1
  NoThread = NoThread  NoKey = NoKey
  Thread <- TwoThreads
  Context <- TwoContexts
  Device <- TwoDevices
  Program <- OneProgram
INVARIANTS TypeOK HandlesExact
PROPERTY BuildsOnce
