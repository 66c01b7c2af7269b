SPECIFICATION Spec
CONSTANTS
  DigestBytes = {1, 17}
  DigestLength = 3
CHECK_DEADLOCK FALSE
INVARIANTS
  RepresentsDigest
