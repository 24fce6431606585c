CONSTANTS
  EffectAttempts = 4
  BackpressureResponses = 2
  WorkLimit = 5
  MaxUnits = 2
SPECIFICATION DrivenSpec
INVARIANT SettledMeansReleased
INVARIANT NoSilentLeak
INVARIANT EffectsPrecharged
INVARIANT PushbackBounded
INVARIANT DestroysOwnedState
PROPERTY EveryCallReturns
PROPERTY DrivenRequestEnds
