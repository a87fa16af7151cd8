SPECIFICATION Spec
CONSTANTS
  NumWorkers = 2
  Jobs <- MCEarly
INVARIANT Committed
