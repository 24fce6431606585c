CONSTANTS
  MaxGeneration = 7
  ScalarMax = 3
  Runtimes = {r1, r2}
  r1 = r1
  r2 = r2
  Classes = {"Accelerated", "ValidatedModule"}
  Operations = {"Aead", "Digest"}
  PreferredOps = {"Aead"}
  ScalarOps = {"Aead", "Digest"}
SPECIFICATION DispatchSpec
SYMMETRY Symmetry
INVARIANT TypeOK
INVARIANT HealthyMeansTested
INVARIANT UsableTokenIsCurrent
INVARIANT OnlyOpportunisticFallsBack
INVARIANT KernelRunsOnCurrentAuthority
INVARIANT ValidatedModuleStaysApproved
PROPERTY QuarantineIsPermanent
PROPERTY StaleGuardFailsClosed
