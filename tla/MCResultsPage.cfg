SPECIFICATION FairSpec
CONSTANTS
  undefined = undefined
  Scripts <- MCScripts
  EventModels <- MCEventModels
  Layouts <- MCLayouts
  Props <- MCProps
  StyleNames <- MCStyleNames
  ResultLists <- MCResultLists
  MaxResults = 2
  Duration = 2
  MaxClicks = 3
  MaxLag = 1
CHECK_DEADLOCK FALSE
INVARIANTS
  TypeOK
  ReadyInOrder
  FindsInOrder
  LinksMatchToggles
  TimersMatchQueues
  AtRestRestored
  OnlyFilesAreFollowed
  TextAgreesAlone
PROPERTIES
  ImplementsToggle
  PageComesUp
