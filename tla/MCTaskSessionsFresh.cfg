SPECIFICATION FairSpec
CONSTANTS
  Tasks = {t1, t2}
  Workers = {w1}
  Threads = {h1, h2}
  MaxBatch = 2
  MaxFaults = 0
  Nothing = Nothing
PROPERTIES
  FreshSessionShowsCompletion
