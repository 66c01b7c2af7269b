SPECIFICATION Spec
CONSTANTS
  Tasks = {t1, t2}
  Workers = {w1, w2}
  CorrIds = {c1, c2, c3}
  FaultKinds = {"earlyCall", "badReturn", "workerError", "crash", "stop", "handlerError"}
  MaxFaults = 3
  NOTASK = NOTASK
  Undecodable = Undecodable
  Accepted = Accepted
  Nothing = Nothing
SYMMETRY Symmetry
CHECK_DEADLOCK FALSE
INVARIANTS
  TypeOK
  SingleCustody
  AtMostOnceExecution
  ResultAttribution
  LossBudget
  CallsAreAnswered
PROPERTIES
  ResultsStand
  PoisonBlocks
  Implements
