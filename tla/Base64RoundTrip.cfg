SPECIFICATION Spec
CONSTANTS
  Bytes = {0, 1, 63, 170, 255}
  MaxLength = 5
  MaxNoise = 2
CHECK_DEADLOCK FALSE
INVARIANTS
  RoundTrip
