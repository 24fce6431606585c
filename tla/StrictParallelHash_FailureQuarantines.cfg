CONSTANTS
  Workers = 2
  MaxLeaves = 2
  Lengths = {0, 2}
  Chunks = 1
SPECIFICATION Spec
INVARIANT FailureQuarantines
