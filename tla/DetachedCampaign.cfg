CONSTANTS
  Commands = 2
  Jobs = 3
  References = 2
  Versions = 2
  Touched <- MCTouched
  Tools = {t1, t2}
  t1 = t1
  t2 = t2
  Compatible <- MCCompatible
  Partitions <- MCPartitions
  Results <- MCResults
  Roots = 2
  Open = 1
  Events = 1
SPECIFICATION Spec
INVARIANT CollectedWasRun
INVARIANT FailedOnlyRecovered
INVARIANT RecoveryCarriedOn
INVARIANT PartsMakeAWhole
SYMMETRY ToolSymmetry
CHECK_DEADLOCK FALSE
