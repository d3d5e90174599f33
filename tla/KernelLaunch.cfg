SPECIFICATION Spec
CONSTANT
  Calls <- MCCalls
INVARIANTS
  TypeOK
  AnswersExact
  ArgumentsExact
  QueueExact
PROPERTY
  ImplementsLaunchOnce
