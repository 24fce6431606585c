CONSTANTS
  Workers = 3
  MaxLeaves = 5
  Lengths = {0, 3, 5, 6}
  Chunks = 2
SPECIFICATION FairSpec
PROPERTY EveryCallReturns
INVARIANT NothingLeftBehind
INVARIANT QuarantineIsKept
PROPERTY ImplementsSpec
