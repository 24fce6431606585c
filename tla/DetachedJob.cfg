CONSTANTS
  Commands = 3
  Shards = 2
  Workers = 2
  LogBytes = 3
  LogSizes = {1, 2}
  Partitions <- MCPartitions
  Inheritances <- MCInheritances
  InheritedLog = 1
  Changeable = {0, 3}
  Drifts = 1
SPECIFICATION FairSpec
INVARIANT PassRanOnFrozenInputs
INVARIANT FailureIsNotHidden
INVARIANT PassedRunCollects
PROPERTY PublishesTruthfully
PROPERTY WorkerSettles
