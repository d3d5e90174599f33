SPECIFICATION Spec
CONSTANTS
  Width = 4
  MaxItems = 4
  Kernels <- MCKernels
  Regs <- MCRegs
  Garbage <- MCGarbage
INVARIANTS
  TypeOK
  NoDataRace
  ResultExact
  Linearizable
PROPERTY
  Terminates
