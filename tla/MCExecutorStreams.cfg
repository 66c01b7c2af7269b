SPECIFICATION FairSpec
CONSTANTS
  Executors <- AllExecutors
  Capacity = 2
  MaxOutput <- Talkative
  MaxFaults = 2
CHECK_DEADLOCK FALSE
INVARIANTS
  TypeOK
  StuckOnErrorsOnly
  WholeUnlessFault
  NoChildLeftBehind
PROPERTIES
  EveryExecutionEnds
