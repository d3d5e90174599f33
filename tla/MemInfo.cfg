SPECIFICATION FairSpec
CONSTANTS
  m1 = m1  m2 = m2  o1 = o1  l1 = l1
  NoMem = NoMem  NoObj = NoObj
  Mem <- TwoMems
  Obj <- OneObj
  Launch <- OneLaunch
  Pos <- TwoPos
  MaxLocal = 1
  FillMayFail = TRUE
INVARIANTS TypeOK NoDanglingReference KernelDataReadable BoxedDataReadable OwnerRefExact
PROPERTY EventuallyFreed
