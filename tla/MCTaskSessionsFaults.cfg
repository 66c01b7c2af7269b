SPECIFICATION Spec
CONSTANTS
  Tasks = {t1, t2}
  Workers = {w1}
  Threads = {h1, h2}
  MaxBatch = 2
  MaxFaults = 2
  Nothing = Nothing
SYMMETRY Symmetry
INVARIANTS
  TypeOK
  BatchesAreReported
  SessionsLag
PROPERTIES
  AnswersAreSound
