SPECIFICATION Spec
CONSTANTS
  Threads <- MCThreads
  NoThread = NoThread
  Functions <- MCFunctions
  Module <- MCModule
  Kind <- MCKind
  QualName <- MCQualName
  Sigs <- MCSigs
  Body <- MCBody
  Returns <- MCReturns
  Cost <- MCCost
  Program <- MCProgram
INVARIANTS
  TypeOK
  OutcomeExact
  CodeExact
  OverloadsJustified
PROPERTY
  EveryCallReturns
