SPECIFICATION FairSpec
CONSTANTS
  NumWorkers = 2
  Jobs <- MCJobs
INVARIANTS TypeOK CutInOrder RollingCommitted
PROPERTY Returns
