SPECIFICATION FairSpec
CONSTANTS
  Tasks = {t1}
  NoTask = NoTask
  MaxDeployments = 2
  MaxFaults = 2
CHECK_DEADLOCK FALSE
INVARIANTS
  TypeOK
  StoppedAndJoined
  OneServer
  HandedOutOnce
  LeftRunning
PROPERTIES
  StopsEnd
