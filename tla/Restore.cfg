SPECIFICATION FairSpec
CONSTANTS
  Worker = {w1, w2}
  Epoch = 1
  Fresh = 0
PROPERTY RestoreReturns
CHECK_DEADLOCK FALSE
