CONSTANTS
  Callers = {"a", "b"}
  Tokens = {1}
  Lengths = {0, 1, 5, 7}
  BlockSize = 2
  Workers = 2
  MaxLeaves = 3
SPECIFICATION FairSpec
INVARIANT NothingOutlivesTheCall
INVARIANT WorkersBounded
INVARIANT CancellationIsPrompt
PROPERTY ImplementsSpec
PROPERTY EveryCallReturns
