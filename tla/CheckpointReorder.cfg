SPECIFICATION Spec
CONSTANTS
  NumWorkers = 2
  Jobs <- MCReorder
INVARIANT ConsistentCut
