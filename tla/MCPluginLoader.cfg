SPECIFICATION Spec
CONSTANTS
  Jars = {j1, j2}
  Classes = {c1, c2}
  MaxLines = 2
SYMMETRY DirectorySymmetry
CHECK_DEADLOCK FALSE
INVARIANTS
  TypeOK
  OffersAreTaken
