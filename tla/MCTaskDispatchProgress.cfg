SPECIFICATION FairSpec
CONSTANTS
  Tasks = {t1, t2}
  Workers = {w1, w2}
  CorrIds = {c1, c2}
  FaultKinds = {"earlyCall", "workerError", "crash", "stop"}
  MaxFaults = 2
  NOTASK = NOTASK
  Undecodable = Undecodable
  Accepted = Accepted
  Nothing = Nothing
CHECK_DEADLOCK FALSE
PROPERTIES
  EveryTaskCompletes
  ServiceGoesOn
