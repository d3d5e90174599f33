SPECIFICATION Spec
CONSTANTS
  m1 = m1  m2 = m2  o1 = o1  l1 = l1
  NoMem = NoMem  NoObj = NoObj
  Mem <- OneMem
  Obj <- NoObjs
  Launch <- OneLaunch
  Pos <- OnePos
  MaxLocal = 1
  FillMayFail = FALSE
INVARIANT RefctExact
