SPECIFICATION Spec
CONSTANT
  Calls <- AskedCalls
INVARIANT
  RunsWhatWasAsked
