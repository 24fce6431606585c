CONSTANTS
  Authorities = {a, b}
  Kinds = {"Authentication", "KeyLifecycle", "SelfTest", "ServiceApproval", "TerminalTransition"}
  Reasons = {"Provider"}
  MaxGeneration = 4
SPECIFICATION Spec
INVARIANT DecisionsAreHeld
INVARIANT ReadyMeansAllCommitted
INVARIANT AcceptedKeysAreDestroyed
CHECK_DEADLOCK FALSE
