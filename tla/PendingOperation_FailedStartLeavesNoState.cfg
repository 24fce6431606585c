CONSTANTS
  EffectAttempts = 2
  BackpressureResponses = 1
  WorkLimit = 3
  MaxUnits = 2
SPECIFICATION Spec
INVARIANT FailedStartLeavesNoState
