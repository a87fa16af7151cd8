SPECIFICATION FairSpec
CONSTANTS
  NumWorkers = 2
  Reporters <- MCReporters
  MaxProgress <- MCMaxProgress
  Threshold = 0
  MaxIndex <- MCMaxIndex
INVARIANTS
  TypeOK
  TwoCollections
  SilentBlocks
PROPERTY
  Stops
