SPECIFICATION FairSpec
CONSTANTS
  NumWorkers = 2
  NumShards = 5
  DeadWorkers <- MCDeadWorkers
  Calls <- MCThereAndBack
  LoadCalls <- MCLoadCalls
  StealAfter = 0
INVARIANTS
  ChecksHold
  ViewsAgree
  CountersMatch
  AllServe
PROPERTIES
  ImplementsRuns
  AllCallsReturn
  TaintClears
CHECK_DEADLOCK FALSE
