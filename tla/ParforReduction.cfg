SPECIFICATION FairSpec
CONSTANTS
  Start = 0
  Stop = 10
  WorkGroupSize = 4
  HasInitial = FALSE
INVARIANTS TypeOK NoLocalRace BarriersUniform ResultExact
PROPERTY Terminates
