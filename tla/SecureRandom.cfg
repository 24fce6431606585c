\* A parent, child and grandchild or two siblings, a restored snapshot of any,
\* an interval of two requests, and entropy for the parent and one copy.
\* CHECK_DEADLOCK is off because callers may stop at any time, and do once the
\* entropy bound is reached.
CONSTANTS
  Processes = {P1, P2, P3}
  First = P1
  ReseedInterval = 2
  MaxRuntime = 3
  MaxSeeds = 2
SPECIFICATION Spec
SYMMETRY Symmetry
INVARIANTS TypeOK SeedUseBounded EngineEndsOnce
PROPERTIES NoOutputRepeats
CHECK_DEADLOCK FALSE
